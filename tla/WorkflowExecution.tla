-------------------------- MODULE WorkflowExecution --------------------------
(***************************************************************************)
(* The executions of one workflow for one user: activation by an event, a  *)
(* schedule or an administrator, the processing of due executions, retry,  *)
(* cancellation and the deletion of the workflow.                          *)
(*                                                                         *)
(* Nothing runs by itself: every caller of run_due is an HTTP request (the *)
(* external scheduler, the button of the console, a retry, or any request  *)
(* that records an audit event), and several of them run at the same time. *)
(* Each statement commits on its own; a caller works on copies it read     *)
(* earlier, so each read and each write of a caller is a step.             *)
(***************************************************************************)
EXTENDS Integers, FiniteSets

CONSTANTS
    Exec,         \* rows of workflow_executions
    Caller,       \* HTTP requests in flight at one time
    NoExec,       \* a caller that processes nothing
    Never,        \* a timestamp that is NULL
    Steps,        \* the number of actions of the workflow
    Delay,        \* after_seconds of each action
    Every,        \* every_seconds of the schedule
    MaxAttempts,  \* bound of the attempts of an execution that may fail
    MaxClock      \* bound of the clock

Action == 1 .. Steps

ASSUME WorkflowAssumption ==
    /\ Steps \in Nat \ {0}
    /\ Delay \in [Action -> Nat]
    /\ Every \in Nat \ {0}
    /\ MaxAttempts \in Nat /\ MaxClock \in Nat
    /\ NoExec \notin Exec /\ Never \notin Nat

VARIABLES
    clock,
    workflow,       \* enabled, disabled or deleted
    lastScheduled,  \* workflows.last_scheduled_at
    exec,           \* the rows
    first,          \* when each action of an execution was first performed
    pc,             \* where each caller is
    due,            \* the executions a caller has still to process
    cur,            \* the one it processes
    at,             \* its copy of current_step
    now             \* its copy of the time

job == <<cur, at>>
caller == <<due, job, now>>
schedule == <<workflow, lastScheduled>>
workflowVars == <<clock, schedule, exec, first, pc, caller>>

Active == {"queued", "waiting", "running"}
Status == {"unborn", "completed", "failed", "cancelled"} \cup Active
Places == {"idle", "insert", "schedule", "enqueue", "stamp", "fetch", "next", "find",
           "cancel", "claim", "act", "fail", "advance", "sweep"}
Time == Nat \cup {Never}

Execution == [status : Status, step : 0 .. Steps, attempts : Nat, nextRun : Nat, created : Nat]

WorkflowTypeOK ==
    /\ clock \in Nat
    /\ workflow \in {"enabled", "disabled", "deleted"}
    /\ lastScheduled \in Time
    /\ exec \in [Exec -> Execution]
    /\ first \in [Exec -> [Action -> Time]]
    /\ pc \in [Caller -> Places]
    /\ due \in [Caller -> SUBSET Exec]
    /\ cur \in [Caller -> Exec \cup {NoExec}]
    /\ at \in [Caller -> 0 .. Steps]
    /\ now \in [Caller -> Nat]

-----------------------------------------------------------------------------
Goto(c, place) == pc' = [pc EXCEPT ![c] = place]

\* workflow_executions_active_uq: one active execution per workflow and user.
MayBeActive(e) == \A f \in Exec \ {e} : exec[f].status \notin Active

(* Activation.                                                             *)

\* INSERT ... ON CONFLICT DO NOTHING, when the conditions match.
Inserts(e) ==
    /\ exec[e].status = "unborn" /\ MayBeActive(e)
    /\ exec' = [exec EXCEPT ![e] =
          [status |-> IF Delay[1] > 0 THEN "waiting" ELSE "queued", step |-> 0,
           attempts |-> 0, nextRun |-> clock + Delay[1], created |-> clock]]

\* An administrator runs the workflow, or an event matches it: it was enabled when
\* it was read.
CallActivate(c) ==
    /\ pc[c] = "idle" /\ workflow = "enabled"
    /\ Goto(c, "insert")
    /\ UNCHANGED <<clock, schedule, exec, first, caller>>

\* The caller then runs what is due; an administrator whose activation was refused
\* (conditions, or an active execution) does not.
Insert(c) ==
    /\ pc[c] = "insert"
    /\ \/ (\E e \in Exec : Inserts(e)) /\ Goto(c, "fetch")
       \/ exec' = exec /\ (Goto(c, "fetch") \/ Goto(c, "idle"))
    /\ UNCHANGED <<clock, schedule, first, caller>>

\* POST .../workflows/run-due.
CallRunDue(c) ==
    /\ pc[c] = "idle"
    /\ Goto(c, "schedule")
    /\ UNCHANGED <<clock, schedule, exec, first, caller>>

ScheduleDue == lastScheduled = Never \/ lastScheduled + Every <= clock

\* enqueue_schedules lists the workflows, then takes the time.
ReadSchedule(c) ==
    /\ pc[c] = "schedule"
    /\ Goto(c, IF workflow = "enabled" /\ ScheduleDue THEN "enqueue" ELSE "fetch")
    /\ now' = [now EXCEPT ![c] = clock]
    /\ UNCHANGED <<clock, schedule, exec, first, due, job>>

\* The user of the batch is activated if the conditions match.
Enqueue(c) ==
    /\ pc[c] = "enqueue"
    /\ (\E e \in Exec : Inserts(e)) \/ exec' = exec
    /\ Goto(c, "stamp")
    /\ UNCHANGED <<clock, schedule, first, caller>>

\* last_scheduled_at becomes the time taken before the batch.
Stamp(c) ==
    /\ pc[c] = "stamp"
    /\ lastScheduled' = now[c]
    /\ Goto(c, "fetch")
    /\ UNCHANGED <<clock, workflow, exec, first, caller>>

-----------------------------------------------------------------------------
(* run_due.                                                                *)

Due == {e \in Exec : exec[e].status \in {"queued", "waiting"} /\ exec[e].nextRun <= clock}

Fetch(c) ==
    /\ pc[c] = "fetch"
    /\ due' = [due EXCEPT ![c] = Due]
    /\ now' = [now EXCEPT ![c] = 0]
    /\ Goto(c, "next")
    /\ UNCHANGED <<clock, schedule, exec, first, job>>

\* process reads the execution; its status is not looked at again.
Find(c) ==
    /\ pc[c] = "next"
    /\ \E e \in due[c] :
          /\ due' = [due EXCEPT ![c] = @ \ {e}]
          /\ cur' = [cur EXCEPT ![c] = e]
          /\ at' = [at EXCEPT ![c] = exec[e].step]
    /\ Goto(c, "find")
    /\ UNCHANGED <<clock, schedule, exec, first, now>>

EndRun(c) ==
    /\ pc[c] = "next" /\ due[c] = {}
    /\ Goto(c, "idle")
    /\ UNCHANGED <<clock, schedule, exec, first, caller>>

-----------------------------------------------------------------------------
(* process.                                                                *)

\* It returns to run_due, which goes on with the next execution.
Return(c) ==
    /\ Goto(c, "next")
    /\ cur' = [cur EXCEPT ![c] = NoExec]
    /\ at' = [at EXCEPT ![c] = 0]

\* The workflow is read: unavailable or disabled, the execution is cancelled.
FindWorkflow(c) ==
    /\ pc[c] = "find"
    /\ Goto(c, IF workflow = "enabled" THEN "claim" ELSE "cancel")
    /\ UNCHANGED <<clock, schedule, exec, first, caller>>

FinishCancelled(c) ==
    /\ pc[c] = "cancel"
    /\ exec' = [exec EXCEPT ![cur[c]].status = "cancelled"]
    /\ Return(c)
    /\ UNCHANGED <<clock, schedule, first, due, now>>

\* status = 'running', whatever it was.  With no action left the loop does not run.
Claim(c) ==
    /\ pc[c] = "claim" /\ MayBeActive(cur[c])
    /\ exec' = [exec EXCEPT ![cur[c]].status = "running"]
    /\ IF at[c] < Steps THEN Goto(c, "act") /\ UNCHANGED job ELSE Return(c)
    /\ UNCHANGED <<clock, schedule, first, due, now>>

\* Mutant: current_step is incremented before the action is executed.
ActionAfter(c) == IF at[c] + 2 <= Steps THEN at[c] + 2 ELSE at[c] + 1

\* The action the caller's copy of current_step points at (steps count from 0).
NextAction(c) == at[c] + 1

\* execute_action succeeds.
Act(c) ==
    /\ pc[c] = "act"
    /\ first' = [first EXCEPT ![cur[c]][NextAction(c)] = IF @ = Never THEN clock ELSE @]
    /\ Goto(c, "advance")
    /\ UNCHANGED <<clock, schedule, exec, caller>>

ActFails(c) ==
    /\ pc[c] = "act" /\ exec[cur[c]].attempts < MaxAttempts
    /\ Goto(c, "fail")
    /\ UNCHANGED <<clock, schedule, exec, first, caller>>

\* Mutant: a failed action is recorded, but the loop goes on.
FailGoesOn(c) ==
    /\ pc[c] = "fail"
    /\ exec' = [exec EXCEPT ![cur[c]].attempts = @ + 1]
    /\ Goto(c, "advance")
    /\ UNCHANGED <<clock, schedule, first, caller>>

Fail(c) ==
    /\ pc[c] = "fail"
    /\ exec' = [exec EXCEPT ![cur[c]].status = "failed", ![cur[c]].attempts = @ + 1]
    /\ Return(c)
    /\ UNCHANGED <<clock, schedule, first, due, now>>

\* Mutant: current_step is incremented once more when the execution is completed.
CompleteTwice(c) ==
    /\ pc[c] = "advance" /\ at[c] + 1 = Steps
    /\ exec' = [exec EXCEPT ![cur[c]].status = "completed", ![cur[c]].step = Steps + 1]
    /\ Return(c)
    /\ UNCHANGED <<clock, schedule, first, due, now>>

\* The last action succeeded.
Complete(c) ==
    /\ pc[c] = "advance" /\ at[c] + 1 = Steps
    /\ exec' = [exec EXCEPT ![cur[c]].status = "completed", ![cur[c]].step = Steps]
    /\ Return(c)
    /\ UNCHANGED <<clock, schedule, first, due, now>>

\* The next action has a delay.
Wait(c) ==
    /\ pc[c] = "advance" /\ at[c] + 1 < Steps /\ Delay[at[c] + 2] > 0
    /\ MayBeActive(cur[c])
    /\ exec' = [exec EXCEPT ![cur[c]].status = "waiting", ![cur[c]].step = at[c] + 1,
                            ![cur[c]].nextRun = clock + Delay[at[c] + 2]]
    /\ Return(c)
    /\ UNCHANGED <<clock, schedule, first, due, now>>

\* The next action has none.
Advance(c) ==
    /\ pc[c] = "advance" /\ at[c] + 1 < Steps /\ Delay[at[c] + 2] = 0
    /\ exec' = [exec EXCEPT ![cur[c]].step = at[c] + 1]
    /\ at' = [at EXCEPT ![c] = @ + 1]
    /\ Goto(c, "act")
    /\ UNCHANGED <<clock, schedule, first, due, cur, now>>

\* A statement of process fails (the unique index refuses a second active execution,
\* or the database reports an error): run_due counts it and goes on.
ProcessError(c) ==
    /\ pc[c] \in {"find", "cancel", "claim", "fail", "advance"}
    /\ Return(c)
    /\ UNCHANGED <<clock, schedule, exec, first, due, now>>

-----------------------------------------------------------------------------
(* Administration.                                                         *)

\* Mutant: a cancelled execution can be retried too.
RetryCancelled(c) ==
    /\ pc[c] = "idle"
    /\ \E e \in Exec :
          /\ exec[e].status \in {"failed", "cancelled"} /\ MayBeActive(e)
          /\ exec' = [exec EXCEPT ![e].status = "queued", ![e].nextRun = clock]
    /\ Goto(c, "fetch")
    /\ UNCHANGED <<clock, schedule, first, caller>>

\* Only a failed execution; then what is due runs.
Retry(c) ==
    /\ pc[c] = "idle"
    /\ \E e \in Exec :
          /\ exec[e].status = "failed" /\ MayBeActive(e)
          /\ exec' = [exec EXCEPT ![e].status = "queued", ![e].attempts = @ + 1,
                                  ![e].nextRun = clock]
    /\ Goto(c, "fetch")
    /\ UNCHANGED <<clock, schedule, first, caller>>

Cancel ==
    /\ \E e \in Exec :
          /\ exec[e].status \in {"queued", "waiting", "failed"}
          /\ exec' = [exec EXCEPT ![e].status = "cancelled"]
    /\ UNCHANGED <<clock, schedule, first, pc, caller>>

\* PUT of the workflow with the other value of enabled.
Update ==
    /\ workflow # "deleted"
    /\ workflow' = IF workflow = "enabled" THEN "disabled" ELSE "enabled"
    /\ UNCHANGED <<clock, lastScheduled, exec, first, pc, caller>>

\* DELETE: two statements.
Delete(c) ==
    /\ pc[c] = "idle" /\ workflow # "deleted"
    /\ workflow' = "deleted"
    /\ Goto(c, "sweep")
    /\ UNCHANGED <<clock, lastScheduled, exec, first, caller>>

Sweep(c) ==
    /\ pc[c] = "sweep"
    /\ exec' = [e \in Exec |-> IF exec[e].status \in Active
                               THEN [exec[e] EXCEPT !.status = "cancelled"] ELSE exec[e]]
    /\ Goto(c, "idle")
    /\ UNCHANGED <<clock, schedule, first, caller>>

-----------------------------------------------------------------------------
\* The instance is lost, or a statement outside process fails; what it committed stays.
Crash(c) ==
    /\ pc[c] # "idle"
    /\ Goto(c, "idle")
    /\ due' = [due EXCEPT ![c] = {}]
    /\ cur' = [cur EXCEPT ![c] = NoExec]
    /\ at' = [at EXCEPT ![c] = 0]
    /\ now' = [now EXCEPT ![c] = 0]
    /\ UNCHANGED <<clock, schedule, exec, first>>

Tick ==
    /\ clock < MaxClock
    /\ clock' = clock + 1
    /\ UNCHANGED <<schedule, exec, first, pc, caller>>

WorkflowInit ==
    /\ clock = 0
    /\ workflow = "enabled" /\ lastScheduled = Never
    /\ exec = [e \in Exec |-> [status |-> "unborn", step |-> 0, attempts |-> 0,
                               nextRun |-> 0, created |-> 0]]
    /\ first = [e \in Exec |-> [i \in Action |-> Never]]
    /\ pc = [c \in Caller |-> "idle"]
    /\ due = [c \in Caller |-> {}]
    /\ cur = [c \in Caller |-> NoExec]
    /\ at = [c \in Caller |-> 0]
    /\ now = [c \in Caller |-> 0]

Process(c) ==
    \/ FindWorkflow(c) \/ FinishCancelled(c) \/ Claim(c)
    \/ Act(c) \/ ActFails(c) \/ Fail(c)
    \/ Complete(c) \/ Wait(c) \/ Advance(c) \/ ProcessError(c)

WorkflowNext ==
    \/ \E c \in Caller :
          \/ CallActivate(c) \/ Insert(c)
          \/ CallRunDue(c) \/ ReadSchedule(c) \/ Enqueue(c) \/ Stamp(c)
          \/ Fetch(c) \/ Find(c) \/ EndRun(c)
          \/ Process(c)
          \/ Retry(c) \/ Delete(c) \/ Sweep(c) \/ Crash(c)
    \/ Cancel \/ Update \/ Tick

WorkflowSpec == WorkflowInit /\ [][WorkflowNext]_workflowVars

-----------------------------------------------------------------------------
(* Properties.                                                             *)

Performed(e, i) == first[e][i] # Never

\* "Actions run from top to bottom": no action is performed for the first time
\* before the one above it, whatever fails, is retried or runs twice.
InOrder ==
    \A e \in Exec, i, j \in Action :
       i < j /\ Performed(e, j) => Performed(e, i) /\ first[e][i] <= first[e][j]

\* "Completed means every action succeeded."
CompletedDidAll ==
    \A e \in Exec : exec[e].status = "completed" => \A i \in Action : Performed(e, i)

\* A cancelled or completed execution that no caller has in hand stays so: nothing
\* but a run that was already under way can touch it again.
EndedWhenUnhandled ==
    [][\A e \in Exec :
          /\ exec[e].status \in {"cancelled", "completed"}
          /\ \A c \in Caller : e \notin due[c] /\ cur[c] # e
          => exec'[e] = exec[e]]_workflowVars

\* "Each action can run immediately or wait for a number of seconds before it
\* begins": it begins no sooner than its delay after the action above it.
DelayRespected ==
    \A e \in Exec, i \in Action :
       Performed(e, i) =>
          first[e][i] >= Delay[i] + (IF i = 1 THEN exec[e].created ELSE first[e][i - 1])

\* "Cancelled means an administrator stopped the execution or deleted its workflow":
\* it is not set running again.
CancelledStaysCancelled ==
    [][\A e \in Exec : exec[e].status = "cancelled" => exec'[e].status = "cancelled"]_workflowVars
=============================================================================
