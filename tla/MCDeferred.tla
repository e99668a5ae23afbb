------------------------------ MODULE MCDeferred ------------------------------
(***************************************************************************)
(* What is asked in one request and done in a later one, the workflows and *)
(* the backchannel authentication, in one run.  They share no state: the   *)
(* component in focus takes all the steps.                                 *)
(***************************************************************************)
EXTENDS WorkflowExecution, BackchannelAuth, TLC

CONSTANT a1

VARIABLE focus      \* the component that takes the steps

deferredVars == <<workflowVars, backchannelVars, focus>>

\* Of the three actions of the workflow the second waits.
WaitSecond == 1 :> 0 @@ 2 :> 1 @@ 3 :> 0

\* One request that asks for silver and is polled repeatedly.
OneScope == a1 :> {"openid"}
AsksSilver == a1 :> {"silver"}

Three == 1 .. 3
Two == 1 .. 2

\* The callers are symmetric; the executions are born, and polls and decisions, which are
\* handled once, come in the order of their numbers.
Symmetry == Permutations(Caller)
ByNumber(S, Started(_)) == \A i, j \in S : i < j /\ Started(j) => Started(i)

-----------------------------------------------------------------------------
\* Bounds: actions fail while there is one execution; then, and while there are two, the
\* clock goes as far as the delay of the second action.
Alone == \E e \in Exec : exec[e].status = "unborn"
WorkflowSteps ==
    /\ WorkflowNext
    /\ (\E e \in Exec : exec'[e].attempts > 0) => Alone' /\ clock' <= 1
    /\ ~Alone' => clock' <= 1
    /\ ByNumber(Exec, LAMBDA i : exec'[i].status # "unborn")

BackchannelSteps ==
    /\ BackchannelNext
    /\ ByNumber(Poll, LAMBDA i : poll'[i].at # "idle")
    /\ ByNumber(Decision, LAMBDA i : decision'[i].at # "idle")

Init == focus \in {"workflow", "ciba"} /\ WorkflowInit /\ BackchannelInit

Next ==
    /\ \/ focus = "workflow" /\ WorkflowSteps /\ UNCHANGED backchannelVars
       \/ focus = "ciba" /\ BackchannelSteps /\ UNCHANGED workflowVars
    /\ UNCHANGED focus

Spec == Init /\ [][Next]_deferredVars
=============================================================================
