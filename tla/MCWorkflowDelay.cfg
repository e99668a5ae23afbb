\* Two overlapping runs of one execution.
SPECIFICATION WorkflowSpec
CONSTANTS
    Exec = {e1}
    Caller = {c1, c2}
    NoExec = NoExec
    Never = Never
    Steps = 2
    Delay <- WaitSecond
    Every = 1
    MaxAttempts = 0
    MaxClock = 1
INVARIANTS DelayRespected
