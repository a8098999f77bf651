SPECIFICATION Spec
SYMMETRY Symmetry
CONSTANTS
    Clients = {c1,c2}
    Emails = {e1}
    Passwords = {w1, w2}
    NoPassword = NoPassword
    Tokens = {t1}
    NoToken = NoToken
    Lifetime = 3
    CacheTTL = 2
    MaxDelay = 2
    MaxTime = 7
INVARIANTS TypeOK ConfirmedStay LogoutTakesEffect CopiesDieWithTokens IndInv
PROPERTIES ImplementsTokenLife
