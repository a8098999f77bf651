SPECIFICATION Spec
SYMMETRY Symmetry
CONSTANTS
    Clients = {c1, c2, c3}
    Emails = {e1}
    Passwords = {w1}
    NoPassword = NoPassword
    Tokens = {t1}
    NoToken = NoToken
    Lifetime = 3
    CacheTTL = 2
    MaxDelay = 1
    MaxTime = 6
INVARIANTS LoggedOutStaysOut
