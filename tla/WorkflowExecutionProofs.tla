----------------------- MODULE WorkflowExecutionProofs -----------------------
(***************************************************************************)
(* Theorems about WorkflowExecution for any number of actions, delays,     *)
(* executions and concurrent callers: actions are performed in order,      *)
(* "completed" means that every one was, and an execution that has ended   *)
(* and that no caller has in hand stays as it is.                          *)
(***************************************************************************)
EXTENDS WorkflowExecution, TLAPS

-----------------------------------------------------------------------------
(* The inductive invariant.                                                *)

\* Every action of e up to the n-th has been performed.
PerformedUpTo(e, n) == \A i \in Action : i <= n => Performed(e, i)

\* What a row says of its progress is true, and what "completed" says is.
RowTrue(e) ==
    /\ PerformedUpTo(e, exec[e].step)
    /\ exec[e].status = "completed" => PerformedUpTo(e, Steps)

\* The places of process, where a caller has an execution in hand.
Handling == {"find", "cancel", "claim", "act", "fail", "advance"}

\* A caller's copy of current_step is old, but it never says more than was performed:
\* another caller may have moved the row since, never what has been done.
CopyTrue(c) ==
    pc[c] \in Handling =>
       /\ cur[c] \in Exec
       /\ PerformedUpTo(cur[c], at[c])
       /\ pc[c] \in {"act", "fail", "advance"} => at[c] < Steps
       /\ pc[c] = "advance" => PerformedUpTo(cur[c], at[c] + 1)

\* Nothing was performed in the future.
InThePast == \A e \in Exec, i \in Action : Performed(e, i) => first[e][i] <= clock

WorkflowInv ==
    /\ WorkflowTypeOK
    /\ \A e \in Exec : RowTrue(e)
    /\ \A c \in Caller : CopyTrue(c)
    /\ InOrder /\ InThePast

-----------------------------------------------------------------------------
(* Types.                                                                  *)

\* The database before the first call is of the declared types.
LEMMA InitTypes == WorkflowInit => WorkflowTypeOK
BY WorkflowAssumption DEF WorkflowInit, WorkflowTypeOK, Execution, Status, Active, Places, Time, Action

\* An insertion writes a row.
LEMMA InsertsRow ==
    ASSUME WorkflowTypeOK, NEW e \in Exec, Inserts(e)
    PROVE  /\ exec' \in [Exec -> Execution]
           /\ exec'[e].step = 0 /\ exec'[e].status # "completed"
           /\ exec[e].status = "unborn"
           /\ \A f \in Exec \ {e} : exec'[f] = exec[f]
<1> DEFINE new == [status |-> IF Delay[1] > 0 THEN "waiting" ELSE "queued", step |-> 0,
                   attempts |-> 0, nextRun |-> clock + Delay[1], created |-> clock]
<1>1. new \in Execution
  BY WorkflowAssumption DEF WorkflowTypeOK, Execution, Status, Active, Action
<1>2. exec' = [exec EXCEPT ![e] = new]
  BY DEF Inserts
<1> QED BY <1>1, <1>2 DEF WorkflowTypeOK, Inserts

\* A step of process has an execution in hand and changes at most its row.
LEMMA ProcessTypes ==
    ASSUME WorkflowTypeOK, NEW c \in Caller, CopyTrue(c), Process(c)
    PROVE  WorkflowTypeOK'
<1> USE DEF Places
<1>1. cur[c] \in Exec /\ exec[cur[c]] \in Execution /\ at[c] \in 0 .. Steps /\ Steps \in Nat
  BY WorkflowAssumption DEF CopyTrue, Handling, Process, FindWorkflow, FinishCancelled, Claim,
     Act, ActFails, Fail, Complete, Wait, Advance, ProcessError, WorkflowTypeOK
<1>2. CASE FindWorkflow(c)
  BY <1>2 DEF FindWorkflow, WorkflowTypeOK, Goto, schedule, caller, job
<1>3. CASE FinishCancelled(c)
  BY <1>1, <1>3 DEF FinishCancelled, WorkflowTypeOK, Return, Goto, schedule, Execution, Status
<1>4. CASE Claim(c)
  <2>1. CASE at[c] < Steps
    BY <1>1, <1>4, <2>1 DEF Claim, WorkflowTypeOK, Goto, schedule, job, Execution, Status, Active
  <2>2. CASE ~(at[c] < Steps)
    <3>1. exec' \in [Exec -> Execution]
      BY <1>1, <1>4 DEF Claim, WorkflowTypeOK, Execution, Status, Active
    <3>2. UNCHANGED <<clock, schedule, first, due, now>> /\ Return(c)
      BY <1>4, <2>2 DEF Claim
    <3> QED BY <1>1, <3>1, <3>2 DEF WorkflowTypeOK, Return, Goto, schedule
  <2> QED BY <2>1, <2>2
<1>5. CASE Act(c)
  <2>1. NextAction(c) \in Action
    BY <1>1, <1>5 DEF Act, CopyTrue, Handling, NextAction, Action
  <2> QED BY <1>1, <1>5, <2>1, SMTT(30) DEF Act, WorkflowTypeOK, Goto, schedule, caller, job, Time
<1>6. CASE ActFails(c)
  BY <1>6 DEF ActFails, WorkflowTypeOK, Goto, schedule, caller, job
<1>7. CASE Fail(c)
  BY <1>1, <1>7 DEF Fail, WorkflowTypeOK, Return, Goto, schedule, Execution, Status
<1>8. CASE Complete(c)
  <2>1. exec' \in [Exec -> Execution]
    BY <1>1, <1>8, WorkflowAssumption DEF Complete, WorkflowTypeOK, Execution, Status
  <2>2. Return(c) /\ UNCHANGED <<clock, schedule, first, due, now>>
    BY <1>8 DEF Complete
  <2> QED BY <1>1, <2>1, <2>2 DEF WorkflowTypeOK, Return, Goto, schedule
<1>9. CASE Wait(c)
  <2>1. at[c] + 1 \in 0 .. Steps /\ clock + Delay[at[c] + 2] \in Nat
    BY <1>1, <1>9, WorkflowAssumption DEF Wait, WorkflowTypeOK, Action
  <2> QED BY <1>1, <1>9, <2>1 DEF Wait, WorkflowTypeOK, Return, Goto, schedule, Execution, Status, Active
<1>10. CASE Advance(c)
  <2>1. at[c] + 1 \in 0 .. Steps
    BY <1>1, <1>10 DEF Advance
  <2> QED BY <1>1, <1>10, <2>1 DEF Advance, WorkflowTypeOK, Goto, schedule, Execution
<1>11. CASE ProcessError(c)
  BY <1>1, <1>11 DEF ProcessError, WorkflowTypeOK, Return, Goto, schedule
<1> QED BY <1>2, <1>3, <1>4, <1>5, <1>6, <1>7, <1>8, <1>9, <1>10, <1>11 DEF Process

\* Every step keeps every variable in its type.
LEMMA NextTypes ==
    ASSUME WorkflowTypeOK, \A c \in Caller : CopyTrue(c), [WorkflowNext]_workflowVars
    PROVE  WorkflowTypeOK'
<1> USE DEF Places
<1>1. ASSUME NEW c \in Caller, Process(c) PROVE WorkflowTypeOK'
  BY <1>1, ProcessTypes
<1>2. ASSUME NEW c \in Caller, Insert(c) \/ Enqueue(c) PROVE WorkflowTypeOK'
  <2>1. exec' \in [Exec -> Execution]
    BY <1>2, InsertsRow DEF Insert, Enqueue, WorkflowTypeOK
  <2> QED BY <1>2, <2>1 DEF Insert, Enqueue, Goto, WorkflowTypeOK, schedule, caller, job
<1>3. ASSUME NEW c \in Caller, CallActivate(c) \/ CallRunDue(c) \/ EndRun(c) PROVE WorkflowTypeOK'
  BY <1>3 DEF CallActivate, CallRunDue, EndRun, Goto, WorkflowTypeOK, schedule, caller, job
<1>4. ASSUME NEW c \in Caller, ReadSchedule(c) \/ Stamp(c) PROVE WorkflowTypeOK'
  BY <1>4 DEF ReadSchedule, Stamp, Goto, WorkflowTypeOK, schedule, caller, job, Time
<1>5. ASSUME NEW c \in Caller, Fetch(c) \/ Find(c) PROVE WorkflowTypeOK'
  <2>1. CASE Fetch(c)
    BY <2>1 DEF Fetch, Due, Goto, WorkflowTypeOK, schedule, job
  <2>2. CASE Find(c)
    BY <2>2 DEF Find, Goto, WorkflowTypeOK, schedule, Execution
  <2> QED BY <1>5, <2>1, <2>2
<1>6. ASSUME NEW c \in Caller, Retry(c) PROVE WorkflowTypeOK'
  BY <1>6 DEF Retry, Goto, WorkflowTypeOK, schedule, caller, job, Execution, Status, Active
<1>7. ASSUME NEW c \in Caller, Delete(c) PROVE WorkflowTypeOK'
  BY <1>7 DEF Delete, Goto, WorkflowTypeOK, caller, job
<1>8. ASSUME NEW c \in Caller, Sweep(c) PROVE WorkflowTypeOK'
  <2>1. exec' \in [Exec -> Execution]
    BY <1>8 DEF Sweep, WorkflowTypeOK, Execution, Status
  <2> QED BY <1>8, <2>1 DEF Sweep, Goto, WorkflowTypeOK, schedule, caller, job
<1>9. ASSUME NEW c \in Caller, Crash(c) PROVE WorkflowTypeOK'
  BY <1>9, WorkflowAssumption DEF Crash, Goto, WorkflowTypeOK, schedule
<1>10. CASE Cancel
  <2>1. exec' \in [Exec -> Execution]
    BY <1>10 DEF Cancel, WorkflowTypeOK, Execution, Status
  <2> QED BY <1>10, <2>1 DEF Cancel, WorkflowTypeOK, schedule, caller, job
<1>11. CASE Update \/ Tick \/ UNCHANGED workflowVars
  BY <1>11 DEF Update, Tick, workflowVars, WorkflowTypeOK, schedule, caller, job
<1> QED BY <1>1, <1>2, <1>3, <1>4, <1>5, <1>6, <1>7, <1>8, <1>9, <1>10, <1>11 DEF WorkflowNext

-----------------------------------------------------------------------------
(* Preservation.                                                           *)


\* A step that performs no action keeps the invariant when it keeps what is said of the row
\* it changes and of the caller that takes it.
LEMMA NothingPerformed ==
    ASSUME WorkflowInv, WorkflowTypeOK', first' = first, clock' \in {clock, clock + 1},
           \A e \in Exec : exec'[e] = exec[e] \/ RowTrue(e)',
           \A c \in Caller : UNCHANGED <<pc[c], cur[c], at[c]>> \/ CopyTrue(c)'
    PROVE  WorkflowInv'
<1>1. \A e \in Exec : \A n : PerformedUpTo(e, n) <=> PerformedUpTo(e, n)'
  BY DEF PerformedUpTo, Performed
<1>2. \A e \in Exec : RowTrue(e)'
  BY <1>1 DEF WorkflowInv, RowTrue
<1>3. \A c \in Caller : CopyTrue(c)'
  BY <1>1 DEF WorkflowInv, CopyTrue
<1>4. InOrder'
  BY DEF WorkflowInv, InOrder, Performed
<1>5. InThePast'
  BY WorkflowAssumption DEF WorkflowInv, InThePast, Performed, WorkflowTypeOK, Time
<1> QED BY <1>2, <1>3, <1>4, <1>5 DEF WorkflowInv

\* The action a caller performs is the one after those that were performed before it.
LEMMA ActKeeps ==
    ASSUME WorkflowInv, WorkflowTypeOK', NEW c \in Caller, Act(c)
    PROVE  WorkflowInv'
<1>0. PICK e \in Exec, n \in Action :
         /\ e = cur[c] /\ n = NextAction(c) /\ n = at[c] + 1 /\ at[c] \in Nat
         /\ PerformedUpTo(e, at[c])
  BY WorkflowAssumption
     DEF Act, WorkflowInv, CopyTrue, Handling, NextAction, Action, WorkflowTypeOK
<1>2. /\ first'[e][n] = IF first[e][n] = Never THEN clock ELSE first[e][n]
      /\ \A i \in Action \ {n} : first'[e][i] = first[e][i]
      /\ \A f \in Exec \ {e} : first'[f] = first[f]
      /\ exec' = exec /\ clock' = clock
  BY <1>0 DEF Act, WorkflowInv, WorkflowTypeOK
<1>3. /\ pc'[c] = "advance" /\ cur' = cur /\ at' = at
      /\ \A d \in Caller \ {c} : pc'[d] = pc[d]
  BY DEF Act, Goto, WorkflowInv, WorkflowTypeOK, caller, job
<1>4. Performed(e, n)' /\ \A f \in Exec, i \in Action : Performed(f, i) => Performed(f, i)'
  BY <1>0, <1>2, WorkflowAssumption DEF Performed, WorkflowInv, WorkflowTypeOK, Time
<1>5. \A f \in Exec : \A m : PerformedUpTo(f, m) => PerformedUpTo(f, m)'
  BY <1>4 DEF PerformedUpTo
<1>6. PerformedUpTo(e, at[c] + 1)'
  BY <1>0, <1>3, <1>4 DEF PerformedUpTo, Action
<1>7. \A f \in Exec : RowTrue(f)'
  BY <1>2, <1>5 DEF WorkflowInv, RowTrue
<1>8. ASSUME NEW d \in Caller PROVE CopyTrue(d)'
  <2>1. CASE d = c
    BY <1>0, <1>3, <1>5, <1>6, <2>1 DEF CopyTrue, WorkflowInv, Act, Handling
  <2>2. CASE d # c
    BY <1>3, <1>5, <2>2 DEF CopyTrue, WorkflowInv
  <2> QED BY <2>1, <2>2
<1>9. ASSUME NEW i \in Action, i < n PROVE Performed(e, i) /\ first[e][i] <= clock
  BY <1>0, <1>9 DEF PerformedUpTo, WorkflowInv, InThePast, Action
<1>10. InOrder'
  <2> SUFFICES ASSUME NEW f \in Exec, NEW i \in Action, NEW j \in Action,
                      i < j, Performed(f, j)'
               PROVE  Performed(f, i)' /\ first'[f][i] <= first'[f][j]
    BY DEF InOrder
  <2>1. CASE f # e \/ first[e][n] # Never
    BY <1>2, <2>1 DEF WorkflowInv, InOrder, Performed
  <2>2. CASE f = e /\ first[e][n] = Never /\ j = n
    BY <1>2, <1>4, <1>9, <2>2 DEF Action
  <2>3. CASE f = e /\ first[e][n] = Never /\ j # n
    <3>1. Performed(e, j)
      BY <1>2, <2>3 DEF Performed
    <3>2. ~(n < j)
      BY <1>0, <2>3, <3>1 DEF WorkflowInv, InOrder, Performed
    <3>3. i # n
      BY <1>0, <2>3, <3>2 DEF Action
    <3> QED BY <1>2, <2>3, <3>1, <3>3, SMTT(30) DEF WorkflowInv, InOrder, Performed
  <2> QED BY <2>1, <2>2, <2>3
<1>11. InThePast'
  <2> SUFFICES ASSUME NEW f \in Exec, NEW i \in Action, Performed(f, i)'
               PROVE  first'[f][i] <= clock'
    BY DEF InThePast
  <2>1. CASE first'[f][i] = first[f][i]
    BY <1>0, <1>2, <2>1 DEF WorkflowInv, InThePast, Performed
  <2>2. CASE first'[f][i] # first[f][i]
    BY <1>0, <1>2, <2>2 DEF WorkflowTypeOK
  <2> QED BY <2>1, <2>2
<1> QED BY <1>7, <1>8, <1>10, <1>11 DEF WorkflowInv

\* The other steps of process.
LEMMA ProcessKeeps ==
    ASSUME WorkflowInv, WorkflowTypeOK', NEW c \in Caller, Process(c)
    PROVE  WorkflowInv'
<1>1. PICK e \in Exec : /\ e = cur[c] /\ pc[c] \in Handling /\ CopyTrue(c)
                        /\ PerformedUpTo(e, at[c]) /\ RowTrue(e)
                        /\ exec[e] \in Execution /\ at[c] \in Nat /\ Steps \in Nat
  BY WorkflowAssumption
     DEF Process, FindWorkflow, FinishCancelled, Claim, Act, ActFails, Fail, Complete, Wait,
         Advance, ProcessError, WorkflowInv, CopyTrue, Handling, WorkflowTypeOK
<1>2. CASE Act(c)
  BY <1>2, ActKeeps
<1>3. ASSUME pc[c] # "act" \/ ~Act(c)
      PROVE  first' = first /\ clock' = clock
  BY <1>3 DEF Process, FindWorkflow, FinishCancelled, Claim, Act, ActFails, Fail, Complete,
              Wait, Advance, ProcessError
<1>4. \A d \in Caller \ {c} : UNCHANGED <<pc[d], cur[d], at[d]>>
  BY DEF Process, FindWorkflow, FinishCancelled, Claim, Act, ActFails, Fail, Complete, Wait,
         Advance, ProcessError, Return, Goto, WorkflowInv, WorkflowTypeOK, caller, job
<1>5. Return(c) => CopyTrue(c)'
  BY DEF Return, Goto, CopyTrue, Handling, WorkflowInv, WorkflowTypeOK
<1>6. CASE FindWorkflow(c) \/ ActFails(c)
  <2>1. /\ UNCHANGED <<exec, first, clock, cur, at>>
        /\ pc'[c] \in {"claim", "cancel", "fail"}
        /\ pc'[c] = "fail" => pc[c] = "act"
    BY <1>6 DEF FindWorkflow, ActFails, Goto, caller, job, WorkflowInv, WorkflowTypeOK
  <2>2. PerformedUpTo(e, at[c])'
    BY <1>1, <2>1 DEF PerformedUpTo, Performed
  <2>3. CopyTrue(c)'
    BY <1>1, <2>1, <2>2 DEF CopyTrue
  <2> QED BY <1>4, <2>1, <2>3, NothingPerformed
<1>7. CASE FinishCancelled(c) \/ Fail(c)
  <2>1. /\ \A f \in Exec \ {e} : exec'[f] = exec[f]
        /\ exec'[e].step = exec[e].step /\ exec'[e].status # "completed"
        /\ first' = first /\ clock' = clock
    BY <1>1, <1>7 DEF FinishCancelled, Fail, WorkflowInv, WorkflowTypeOK, Execution
  <2>2. RowTrue(e)'
    BY <1>1, <2>1 DEF RowTrue, PerformedUpTo, Performed
  <2> QED BY <1>4, <1>5, <1>7, <2>1, <2>2, NothingPerformed DEF FinishCancelled, Fail
<1>8. CASE Claim(c)
  <2>1. /\ \A f \in Exec \ {e} : exec'[f] = exec[f]
        /\ exec'[e].step = exec[e].step /\ exec'[e].status # "completed"
        /\ first' = first /\ clock' = clock
    BY <1>1, <1>8 DEF Claim, WorkflowInv, WorkflowTypeOK, Execution
  <2>2. RowTrue(e)'
    BY <1>1, <2>1 DEF RowTrue, PerformedUpTo, Performed
  <2>3. CopyTrue(c)'
    <3>1. CASE at[c] < Steps
      <4>1. pc'[c] = "act" /\ cur' = cur /\ at' = at
        BY <1>8, <3>1 DEF Claim, Goto, job, WorkflowInv, WorkflowTypeOK
      <4>2. PerformedUpTo(e, at[c])'
        BY <1>1, <2>1, <4>1 DEF PerformedUpTo, Performed
      <4> QED BY <1>1, <3>1, <4>1, <4>2 DEF CopyTrue
    <3>2. CASE ~(at[c] < Steps)
      BY <1>5, <1>8, <3>2 DEF Claim
    <3> QED BY <3>1, <3>2
  <2> QED BY <1>4, <2>1, <2>2, <2>3, NothingPerformed
<1>9. CASE Complete(c)
  <2>1. /\ \A f \in Exec \ {e} : exec'[f] = exec[f]
        /\ exec'[e].step = Steps /\ at[c] + 1 = Steps
        /\ first' = first /\ clock' = clock
    BY <1>1, <1>9 DEF Complete, WorkflowInv, WorkflowTypeOK, Execution
  <2>2. PerformedUpTo(e, Steps)
    BY <1>1, <1>9, <2>1 DEF Complete, CopyTrue, Handling
  <2>3. RowTrue(e)'
    BY <2>1, <2>2 DEF RowTrue, PerformedUpTo, Performed
  <2> QED BY <1>4, <1>5, <1>9, <2>1, <2>3, NothingPerformed DEF Complete
<1>10. CASE Wait(c)
  <2>1. /\ \A f \in Exec \ {e} : exec'[f] = exec[f]
        /\ exec'[e].step = at[c] + 1 /\ exec'[e].status # "completed"
        /\ first' = first /\ clock' = clock
    BY <1>1, <1>10 DEF Wait, WorkflowInv, WorkflowTypeOK, Execution
  <2>2. PerformedUpTo(e, at[c] + 1)
    BY <1>1, <1>10 DEF Wait, CopyTrue, Handling
  <2>3. RowTrue(e)'
    BY <2>1, <2>2 DEF RowTrue, PerformedUpTo, Performed
  <2> QED BY <1>4, <1>5, <1>10, <2>1, <2>3, NothingPerformed DEF Wait
<1>11. CASE Advance(c)
  <2>1. /\ \A f \in Exec \ {e} : exec'[f] = exec[f]
        /\ exec'[e].step = at[c] + 1 /\ exec'[e].status = exec[e].status
        /\ first' = first /\ clock' = clock
        /\ pc'[c] = "act" /\ at'[c] = at[c] + 1 /\ cur' = cur /\ at[c] + 1 < Steps
    BY <1>1, <1>11 DEF Advance, Goto, WorkflowInv, WorkflowTypeOK, Execution
  <2>2. PerformedUpTo(e, at[c] + 1)
    BY <1>1, <1>11 DEF Advance, CopyTrue, Handling
  <2>3. PerformedUpTo(e, at[c])'
    BY <2>1, <2>2 DEF PerformedUpTo, Performed
  <2>4. RowTrue(e)' /\ CopyTrue(c)'
    BY <1>1, <2>1, <2>3 DEF RowTrue, CopyTrue, PerformedUpTo, Performed
  <2> QED BY <1>4, <2>1, <2>4, NothingPerformed
<1>12. CASE ProcessError(c)
  BY <1>4, <1>5, <1>12, NothingPerformed DEF ProcessError
<1> QED BY <1>2, <1>6, <1>7, <1>8, <1>9, <1>10, <1>11, <1>12 DEF Process

\* A step that inserts a row.
LEMMA InsertKeeps ==
    ASSUME WorkflowInv, WorkflowTypeOK', NEW e \in Exec, Inserts(e), first' = first, clock' = clock,
           \A c \in Caller : UNCHANGED <<pc[c], cur[c], at[c]>> \/ CopyTrue(c)'
    PROVE  WorkflowInv'
<1>1. RowTrue(e)'
  BY InsertsRow DEF WorkflowInv, RowTrue, PerformedUpTo, Action
<1>2. \A f \in Exec : exec'[f] = exec[f] \/ RowTrue(f)'
  BY <1>1, InsertsRow DEF WorkflowInv
<1> QED BY <1>2, NothingPerformed

\* Every step of every caller, administrator and clock keeps the invariant.
LEMMA WorkflowInvNext == WorkflowInv /\ [WorkflowNext]_workflowVars => WorkflowInv'
<1> SUFFICES ASSUME WorkflowInv, [WorkflowNext]_workflowVars PROVE WorkflowInv'
  OBVIOUS
<1>1. WorkflowTypeOK'
  BY NextTypes DEF WorkflowInv
<1>2. ASSUME NEW c \in Caller, Process(c) PROVE WorkflowInv'
  BY <1>1, <1>2, ProcessKeeps
<1>3. ASSUME NEW c \in Caller, NEW p \in Places \ Handling, Goto(c, p), UNCHANGED job
      PROVE  \A d \in Caller : UNCHANGED <<pc[d], cur[d], at[d]>> \/ CopyTrue(d)'
  BY <1>3 DEF Goto, job, CopyTrue, WorkflowInv, WorkflowTypeOK
<1>4. ASSUME NEW c \in Caller, Insert(c) \/ Enqueue(c) PROVE WorkflowInv'
  <2>1. /\ UNCHANGED <<first, clock, job>>
        /\ \E p \in Places \ Handling : Goto(c, p)
        /\ exec' = exec \/ \E e \in Exec : Inserts(e)
    BY <1>4 DEF Insert, Enqueue, caller, Places, Handling
  <2> QED BY <1>1, <1>3, <2>1, InsertKeeps, NothingPerformed
<1>5. ASSUME NEW c \in Caller,
             CallActivate(c) \/ CallRunDue(c) \/ ReadSchedule(c) \/ Stamp(c) \/ Fetch(c)
               \/ EndRun(c) \/ Delete(c)
      PROVE  WorkflowInv'
  <2>1. /\ UNCHANGED <<exec, first, clock, job>>
        /\ \E p \in Places \ Handling : Goto(c, p)
    BY <1>5 DEF CallActivate, CallRunDue, ReadSchedule, Stamp, Fetch, EndRun, Delete, caller,
                Places, Handling
  <2> QED BY <1>1, <1>3, <2>1, NothingPerformed
<1>6. ASSUME NEW c \in Caller, Find(c) PROVE WorkflowInv'
  <2>1. PICK e \in Exec : cur'[c] = e /\ at'[c] = exec[e].step
    BY <1>6 DEF Find, WorkflowInv, WorkflowTypeOK
  <2>2. /\ UNCHANGED <<exec, first, clock>> /\ pc'[c] = "find"
        /\ \A d \in Caller \ {c} : UNCHANGED <<pc[d], cur[d], at[d]>>
    BY <1>6 DEF Find, Goto, WorkflowInv, WorkflowTypeOK
  <2>3. CopyTrue(c)'
    BY <2>1, <2>2 DEF CopyTrue, WorkflowInv, RowTrue, PerformedUpTo, Performed
  <2> QED BY <1>1, <2>2, <2>3, NothingPerformed
<1>7. ASSUME NEW c \in Caller, Retry(c) \/ Sweep(c) PROVE WorkflowInv'
  <2>1. /\ UNCHANGED <<first, clock, job>>
        /\ \E p \in Places \ Handling : Goto(c, p)
    BY <1>7 DEF Retry, Sweep, caller, Places, Handling
  <2>2. \A e \in Exec : exec'[e].step = exec[e].step
                        /\ (exec'[e].status = "completed" => exec[e].status = "completed")
    <3>1. CASE Retry(c)
      <4>1. PICK e \in Exec : exec' = [exec EXCEPT ![e].status = "queued",
                                   ![e].attempts = @ + 1, ![e].nextRun = clock]
        BY <3>1 DEF Retry
      <4> QED BY <4>1 DEF WorkflowInv, WorkflowTypeOK, Execution
    <3>2. CASE Sweep(c)
      BY <3>2 DEF Sweep, WorkflowInv, WorkflowTypeOK, Execution
    <3> QED BY <1>7, <3>1, <3>2
  <2>3. \A e \in Exec : RowTrue(e)'
    BY <2>1, <2>2 DEF WorkflowInv, RowTrue, PerformedUpTo, Performed
  <2> QED BY <1>1, <1>3, <2>1, <2>3, NothingPerformed
<1>8. CASE Cancel
  <2>1. UNCHANGED <<first, clock, pc, job>>
    BY <1>8 DEF Cancel, caller
  <2>2. \A e \in Exec : exec'[e].step = exec[e].step
                        /\ (exec'[e].status = "completed" => exec[e].status = "completed")
    BY <1>8 DEF Cancel, WorkflowInv, WorkflowTypeOK, Execution
  <2>3. \A e \in Exec : RowTrue(e)'
    BY <2>1, <2>2 DEF WorkflowInv, RowTrue, PerformedUpTo, Performed
  <2> QED BY <1>1, <2>1, <2>3, NothingPerformed DEF job
<1>9. ASSUME NEW c \in Caller, Crash(c) PROVE WorkflowInv'
  <2>1. /\ UNCHANGED <<exec, first, clock>> /\ CopyTrue(c)'
        /\ \A d \in Caller \ {c} : UNCHANGED <<pc[d], cur[d], at[d]>>
    BY <1>9 DEF Crash, Goto, CopyTrue, Handling, WorkflowInv, WorkflowTypeOK
  <2> QED BY <1>1, <2>1, NothingPerformed
<1>10. CASE Update \/ Tick \/ UNCHANGED workflowVars
  <2>1. UNCHANGED <<exec, first, pc, job>> /\ clock' \in {clock, clock + 1}
    BY <1>10 DEF Update, Tick, workflowVars, caller
  <2> QED BY <1>1, <2>1, NothingPerformed DEF job
<1> QED BY <1>2, <1>4, <1>5, <1>6, <1>7, <1>8, <1>9, <1>10 DEF WorkflowNext

\* Nothing has been inserted or performed, and no caller has an execution in hand.
LEMMA WorkflowInvInit == WorkflowInit => WorkflowInv
<1> SUFFICES ASSUME WorkflowInit PROVE WorkflowInv
  OBVIOUS
<1>1. WorkflowTypeOK
  BY InitTypes
<1>2. (\A e \in Exec : RowTrue(e)) /\ \A c \in Caller : CopyTrue(c)
  BY DEF WorkflowInit, RowTrue, CopyTrue, Handling, PerformedUpTo, Action
<1>3. InOrder /\ InThePast
  BY DEF WorkflowInit, InOrder, InThePast, Performed
<1> QED BY <1>1, <1>2, <1>3 DEF WorkflowInv

-----------------------------------------------------------------------------
(* Theorems.                                                               *)

\* Rows and the copies callers work from never claim more than was performed.
THEOREM WorkflowInvariance == WorkflowSpec => []WorkflowInv
<1> QED BY WorkflowInvInit, WorkflowInvNext, PTL DEF WorkflowSpec

\* Actions run from top to bottom: whatever fails, is retried, crashes or runs twice, no
\* action is performed for the first time before the one above it.
THEOREM ActionsInOrder == WorkflowSpec => []InOrder
<1>1. WorkflowInv => InOrder
  BY DEF WorkflowInv
<1> QED BY <1>1, WorkflowInvariance, PTL

\* An execution whose row says "completed" performed every action of its workflow.
THEOREM CompletedIsComplete == WorkflowSpec => []CompletedDidAll
<1>1. WorkflowInv => CompletedDidAll
  BY WorkflowAssumption DEF WorkflowInv, RowTrue, PerformedUpTo, CompletedDidAll, Action
<1> QED BY <1>1, WorkflowInvariance, PTL

\* A cancelled or completed execution that no caller has in hand stays so.
THEOREM EndedStays == WorkflowSpec => EndedWhenUnhandled
<1> DEFINE Kept == \A e \in Exec :
          /\ exec[e].status \in {"cancelled", "completed"}
          /\ \A c \in Caller : e \notin due[c] /\ cur[c] # e
          => exec'[e] = exec[e]
<1>1. WorkflowInv /\ [WorkflowNext]_workflowVars => Kept
  <2> SUFFICES ASSUME WorkflowInv, [WorkflowNext]_workflowVars, NEW e \in Exec,
                      exec[e].status \in {"cancelled", "completed"},
                      \A c \in Caller : cur[c] # e
               PROVE  exec'[e] = exec[e]
    OBVIOUS
  <2>1. ASSUME NEW c \in Caller, Process(c) PROVE exec'[e] = exec[e]
    BY <2>1 DEF Process, FindWorkflow, FinishCancelled, Claim, Act, ActFails, Fail, Complete,
                Wait, Advance, ProcessError, WorkflowInv, WorkflowTypeOK
  <2>2. ASSUME NEW c \in Caller, Insert(c) \/ Enqueue(c) PROVE exec'[e] = exec[e]
    BY <2>2, InsertsRow DEF Insert, Enqueue, WorkflowInv
  <2>3. ASSUME NEW c \in Caller, Retry(c) \/ Sweep(c) PROVE exec'[e] = exec[e]
    BY <2>3 DEF Retry, Sweep, Active, WorkflowInv, WorkflowTypeOK
  <2>4. CASE Cancel \/ Update \/ Tick \/ UNCHANGED workflowVars
    BY <2>4 DEF Cancel, Update, Tick, workflowVars, WorkflowInv, WorkflowTypeOK
  <2>5. ASSUME NEW c \in Caller,
               CallActivate(c) \/ CallRunDue(c) \/ ReadSchedule(c) \/ Stamp(c) \/ Fetch(c)
                 \/ Find(c) \/ EndRun(c) \/ Delete(c) \/ Crash(c)
        PROVE  exec'[e] = exec[e]
    BY <2>5 DEF CallActivate, CallRunDue, ReadSchedule, Stamp, Fetch, Find, EndRun, Delete,
                Crash
  <2> QED BY <2>1, <2>2, <2>3, <2>4, <2>5 DEF WorkflowNext
<1> QED BY <1>1, WorkflowInvariance, PTL DEF WorkflowSpec, EndedWhenUnhandled
===============================================================================
