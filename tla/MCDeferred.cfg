\* Executions of three actions, the second delayed, and two callers: failures, retries,
\* overlapping runs and crashes in every order of one execution; cancellation, completion
\* and the activation of a second execution for the same user.  Three polls and two
\* decisions of one authentication request that asks for silver.
SPECIFICATION Spec
CONSTANTS
    Exec <- Two
    Caller = {c1, c2}
    NoExec = NoExec
    Never = Never
    Steps = 3
    Delay <- WaitSecond
    Every = 1
    MaxAttempts = 2
    MaxClock = 2
    a1 = a1
    Auth = {a1}
    Poll <- Three
    Decision <- Two
    NoAuth = NoAuth
    Free = Free
    NeverPolled = NeverPolled
    Scopes <- OneScope
    Requested <- AsksSilver
    Lifetime = 2
    Interval = 1
    Penalty = 2
    Longest = 2
    MaxTime = 3
SYMMETRY Symmetry
INVARIANTS
    InOrder CompletedDidAll
    ExchangedOnce TokensMatchDecision SlowDownsAccumulate
PROPERTIES EndedWhenUnhandled
CHECK_DEADLOCK FALSE
