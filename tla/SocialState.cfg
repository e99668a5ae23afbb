\* Two callbacks with one state at the same time.
SPECIFICATION SocialSpec
CONSTANTS
    LoginState = {t1}
    Callback = {c1, c2}
    Upstream = {x1}
    LocalUser = {u1}
    Mail = {m1}
    Nothing = Nothing
INVARIANTS StateConsumedOnce
CHECK_DEADLOCK FALSE
