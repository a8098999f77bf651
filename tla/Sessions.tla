------------------------------- MODULE Sessions -------------------------------
(***************************************************************************)
(* The core service's users (internal/service/core/user/service.go) and    *)
(* their sessions (internal/service/core/auth/service.go): a row in        *)
(* Postgres for each account and for each token that was issued, and a     *)
(* copy of some of the latter in Redis.                                    *)
(*                                                                         *)
(* A client is the goroutine of an HTTP request that registers a user,     *)
(* logs in or is authenticated for a protected route, one of which is the  *)
(* logout.  A step is one call to Postgres or to Redis, which may fail, or *)
(* one look at the clock.  A tick is as short as one likes: nothing is     *)
(* said of how many there are to a second.  What is known of the speed of  *)
(* Create, Login, Authenticate and Logout is that each is over MaxDelay    *)
(* ticks after it began.                                                   *)
(*                                                                         *)
(* A password stands for its hash.  An email is the text that was sent:    *)
(* it is validated without the blanks around it and stored with them.      *)
(***************************************************************************)
EXTENDS Integers

CONSTANTS
    Clients,     \* goroutines of the HTTP server
    Emails,      \* email addresses, as they are sent
    Passwords,   \* passwords
    NoPassword,  \* the password where there is no account
    Tokens,      \* the tokens Login may generate, all different
    NoToken,     \* no token
    Lifetime,    \* ticks a token lives: 24 hours in the code
    CacheTTL,    \* ticks a copy is kept: 30 seconds in the code
    MaxDelay,    \* ticks that what has deadlines of 5 and 2 seconds may take
    MaxTime      \* bound: the clock stops here

ASSUME SessionsAssumption ==
    /\ NoPassword \notin Passwords
    /\ NoToken \notin Tokens
    /\ {Lifetime, CacheTTL, MaxDelay, MaxTime} \subseteq Nat \ {0}
    /\ CacheTTL < Lifetime /\ MaxDelay < Lifetime

VARIABLES
    now,         \* the time
    password,    \* users.password_hash by users.email
    confirmed,   \* the accounts that were reported as created
    issuedAt,    \* when a token was generated, Never if it was not
    expiresAt,   \* sessions.expires_at, Never where there is no row
    cachedTill,  \* when Redis drops the copy, Never where there is none
    pc,          \* where the client is
    claim,       \* the email and the password it registers or logs in with
    token,       \* the token its request is about
    began,       \* when Create, Login, Authenticate or Logout began
    ttl,         \* the time to live it has worked out for a copy
    revokedAt,   \* when a Logout first deleted the row of a token, or Never
    loggedOutAt, \* when a Logout of the token first succeeded, or Never
    accepted     \* <<token, time>>: the authentication of the token that began
                 \* at the time, accepted in this very step

accounts == <<password, confirmed>>
sessions == <<issuedAt, expiresAt, revokedAt, loggedOutAt>>
database == <<accounts, sessions>>
vars == <<now, database, cachedTill, pc, claim, token, began, ttl, accepted>>

Account == Emails \X Passwords
NoAccount == <<>>

Never == -1
Forever == MaxTime + Lifetime + CacheTTL   \* later than any time that is reached
Time == 0 .. MaxTime

TypeOK ==
    /\ now \in Time
    /\ password \in [Emails -> Passwords \cup {NoPassword}]
    /\ confirmed \in SUBSET Account
    /\ issuedAt \in [Tokens -> Time \cup {Never}]
    /\ expiresAt \in [Tokens -> Never .. MaxTime + Lifetime]
    /\ cachedTill \in [Tokens -> Never .. Forever]
    /\ pc \in [Clients -> {"idle", "save", "copy", "cache", "row", "found",
                           "refresh", "expired", "forget", "drop", "insert",
                           "find"}]
    /\ claim \in [Clients -> Account \cup {NoAccount}]
    /\ token \in [Clients -> Tokens \cup {NoToken}]
    /\ began \in [Clients -> Time]
    /\ ttl \in [Clients -> -MaxDelay .. CacheTTL]
    /\ revokedAt \in [Tokens -> Time \cup {Never}]
    /\ loggedOutAt \in [Tokens -> Time \cup {Never}]
    /\ accepted \in SUBSET (Tokens \X Time)

Init ==
    /\ now = 0
    /\ password = [e \in Emails |-> NoPassword]
    /\ confirmed = {}
    /\ issuedAt = [t \in Tokens |-> Never]
    /\ expiresAt = [t \in Tokens |-> Never]
    /\ cachedTill = [t \in Tokens |-> Never]
    /\ pc = [c \in Clients |-> "idle"]
    /\ claim = [c \in Clients |-> NoAccount]
    /\ token = [c \in Clients |-> NoToken]
    /\ began = [c \in Clients |-> 0]
    /\ ttl = [c \in Clients |-> 0]
    /\ revokedAt = [t \in Tokens |-> Never]
    /\ loggedOutAt = [t \in Tokens |-> Never]
    /\ accepted = {}

Go(c, step) == pc' = [pc EXCEPT ![c] = step]

Leave(c) ==
    /\ Go(c, "idle")
    /\ claim' = [claim EXCEPT ![c] = NoAccount]
    /\ token' = [token EXCEPT ![c] = NoToken]
    /\ began' = [began EXCEPT ![c] = 0]
    /\ ttl' = [ttl EXCEPT ![c] = 0]

Finish(c) == Leave(c) /\ accepted' = {}

\* The handler behind the middleware is Logout's.
Logout(c) ==
    /\ Go(c, "forget")
    /\ began' = [began EXCEPT ![c] = now]
    /\ ttl' = [ttl EXCEPT ![c] = 0]
    /\ UNCHANGED <<claim, token>>

\* The middleware lets the bearer of the token in: to log out, or to whatever
\* else is protected.
Accept(c) ==
    /\ accepted' = {<<token[c], began[c]>>}
    /\ Leave(c) \/ Logout(c)

Begin(c, a, t, step) ==
    /\ pc[c] = "idle"
    /\ Go(c, step)
    /\ claim' = [claim EXCEPT ![c] = a]
    /\ token' = [token EXCEPT ![c] = t]
    /\ began' = [began EXCEPT ![c] = now]
    /\ accepted' = {}
    /\ UNCHANGED ttl

\* A step in the middle of a request.
Continue(c, to) ==
    /\ Go(c, to)
    /\ accepted' = {}
    /\ UNCHANGED <<claim, token, began>>

\* The time, the first time something happens.
First(time) == IF time = Never THEN now ELSE time

EndOfLife(t) == issuedAt[t] + Lifetime

\* When a copy that is set with this time to live is dropped: the client
\* library sends no expiry at all for one that is not above 0.
DropTime(life) == IF life > 0 THEN now + life ELSE Forever

Cached(t) == cachedTill[t] > now

\* The Login that generated the token is over, so somebody may present it.
Known(t) ==
    /\ issuedAt[t] # Never
    /\ \A c \in Clients : token[c] = t => pc[c] \notin {"save", "copy"}

----------------------------------------------------------------------------
(* UserService.Create                                                      *)

CreateRequest(c, a) ==
    /\ Begin(c, a, NoToken, "insert")
    /\ UNCHANGED <<now, database, cachedTill>>

\* A bug: INSERT ... ON CONFLICT (email) DO UPDATE.
OverwriteUser(c) ==
    /\ pc[c] = "insert"
    /\ password' = [password EXCEPT ![claim[c][1]] = claim[c][2]]
    /\ \/ confirmed' = confirmed \cup {claim[c]}
       \/ UNCHANGED confirmed
    /\ Finish(c)
    /\ UNCHANGED <<now, sessions, cachedTill>>

\* The INSERT, which the UNIQUE column lets pass once for an email.  If its
\* answer is lost there is an account that nobody was told of.
CreateUser(c) ==
    /\ pc[c] = "insert"
    /\ password[claim[c][1]] = NoPassword
    /\ password' = [password EXCEPT ![claim[c][1]] = claim[c][2]]
    /\ \/ confirmed' = confirmed \cup {claim[c]}
       \/ UNCHANGED confirmed
    /\ Finish(c)
    /\ UNCHANGED <<now, sessions, cachedTill>>

EmailTaken(c) ==
    /\ pc[c] = "insert"
    /\ password[claim[c][1]] # NoPassword
    /\ Finish(c)
    /\ UNCHANGED <<now, database, cachedTill>>

----------------------------------------------------------------------------
(* Login                                                                   *)

LoginRequest(c, a) ==
    /\ Begin(c, a, NoToken, "find")
    /\ UNCHANGED <<now, database, cachedTill>>

\* The password is that of the account: a new token is generated.
Login(c, t) ==
    /\ pc[c] = "find"
    /\ password[claim[c][1]] = claim[c][2]
    /\ issuedAt[t] = Never
    /\ issuedAt' = [issuedAt EXCEPT ![t] = now]
    /\ Go(c, "save")
    /\ claim' = [claim EXCEPT ![c] = NoAccount]
    /\ token' = [token EXCEPT ![c] = t]
    /\ accepted' = {}
    /\ UNCHANGED <<now, accounts, expiresAt, revokedAt, loggedOutAt, cachedTill,
                   began, ttl>>

\* No account, or another password.
InvalidCredentials(c) ==
    /\ pc[c] = "find"
    /\ password[claim[c][1]] # claim[c][2]
    /\ Finish(c)
    /\ UNCHANGED <<now, database, cachedTill>>

\* A row that is written although the call fails belongs to a token that
\* nobody was given.
CreateSession(c) ==
    /\ pc[c] = "save"
    /\ Continue(c, "copy")
    /\ UNCHANGED ttl
    /\ expiresAt' = [expiresAt EXCEPT ![token[c]] = EndOfLife(token[c])]
    /\ UNCHANGED <<now, accounts, issuedAt, revokedAt, loggedOutAt, cachedTill>>

\* A copy that cannot be set is only logged.
CacheLogin(c) ==
    /\ pc[c] = "copy"
    /\ \/ cachedTill' = [cachedTill EXCEPT ![token[c]] = DropTime(CacheTTL)]
       \/ UNCHANGED cachedTill
    /\ Finish(c)
    /\ UNCHANGED <<now, database>>

----------------------------------------------------------------------------
(* Authenticate, for the middleware of every protected route               *)

Authenticate(c, t) ==
    /\ Known(t)
    /\ Begin(c, NoAccount, t, "cache")
    /\ UNCHANGED <<now, database, cachedTill>>

CacheHit(c) ==
    /\ pc[c] = "cache"
    /\ Cached(token[c])
    /\ Accept(c)
    /\ UNCHANGED <<now, database, cachedTill>>

\* No copy, or Redis does not answer.
CacheMiss(c) ==
    /\ pc[c] = "cache"
    /\ Continue(c, "row")
    /\ UNCHANGED ttl
    /\ UNCHANGED <<now, database, cachedTill>>

\* A bug: a row is good for as long as it is there.
NeverExpired(t) == FALSE

Expired(t) == now > expiresAt[t]

NoRow(c) ==
    /\ pc[c] = "row"
    /\ expiresAt[token[c]] = Never
    /\ Finish(c)
    /\ UNCHANGED <<now, database, cachedTill>>

RowExpired(c) ==
    /\ pc[c] = "row"
    /\ expiresAt[token[c]] # Never
    /\ Expired(token[c])
    /\ Continue(c, "expired")
    /\ UNCHANGED ttl
    /\ UNCHANGED <<now, database, cachedTill>>

\* Its failure is ignored.
DeleteExpired(c) ==
    /\ pc[c] = "expired"
    /\ \/ expiresAt' = [expiresAt EXCEPT ![token[c]] = Never]
       \/ UNCHANGED expiresAt
    /\ Finish(c)
    /\ UNCHANGED <<now, accounts, issuedAt, revokedAt, loggedOutAt, cachedTill>>

\* The row is there and the token has not expired by the clock.
RowFound(c) ==
    /\ pc[c] = "row"
    /\ expiresAt[token[c]] # Never
    /\ ~Expired(token[c])
    /\ Continue(c, "found")
    /\ UNCHANGED <<now, database, cachedTill, ttl>>

\* A bug: every copy is kept for the full time.
FullTTL(t) == CacheTTL

\* A bug: a copy is kept for all that is left of the token's life.
UncappedTTL(t) == EndOfLife(t) - now

\* The time to live of the new copy: what is left of the token's life, but not
\* more than CacheTTL.  No row is ever updated, so the end of life that was
\* read is that of the token, whatever became of the row.
RefreshTTL(t) ==
    LET left == EndOfLife(t) - now
    IN  IF left > CacheTTL THEN CacheTTL ELSE left

\* The clock is looked at once more, and what is left may be nothing or less.
WorkOutTTL(c) ==
    /\ pc[c] = "found"
    /\ Continue(c, "refresh")
    /\ ttl' = [ttl EXCEPT ![c] = RefreshTTL(token[c])]
    /\ UNCHANGED <<now, database, cachedTill>>

\* The copy is set even if the row has gone meanwhile; a failure is ignored.
RefreshCache(c) ==
    /\ pc[c] = "refresh"
    /\ \/ cachedTill' = [cachedTill EXCEPT ![token[c]] = DropTime(ttl[c])]
       \/ UNCHANGED cachedTill
    /\ Accept(c)
    /\ UNCHANGED <<now, database>>

----------------------------------------------------------------------------
(* Logout, which is such a route                                           *)

Revoke(c) ==
    revokedAt' = [revokedAt EXCEPT ![token[c]] = First(@)]

\* A bug: only the copy is deleted.
KeepSession(c) ==
    /\ pc[c] = "forget"
    /\ Revoke(c)
    /\ Continue(c, "drop")
    /\ UNCHANGED <<now, accounts, issuedAt, expiresAt, loggedOutAt, cachedTill, ttl>>

\* The call may fail although the row has gone.
DeleteSession(c) ==
    /\ pc[c] = "forget"
    /\ expiresAt' = [expiresAt EXCEPT ![token[c]] = Never]
    /\ Revoke(c)
    /\ \/ Continue(c, "drop") /\ UNCHANGED ttl
       \/ Finish(c)
    /\ UNCHANGED <<now, accounts, issuedAt, loggedOutAt, cachedTill>>

\* The call may fail although the copy has gone.
DropCopy(c) ==
    /\ pc[c] = "drop"
    /\ cachedTill' = [cachedTill EXCEPT ![token[c]] = Never]
    /\ \/ loggedOutAt' = [loggedOutAt EXCEPT ![token[c]] = First(@)]
       \/ UNCHANGED loggedOutAt
    /\ Finish(c)
    /\ UNCHANGED <<now, accounts, issuedAt, expiresAt, revokedAt>>

----------------------------------------------------------------------------

\* A call whose failure ends the request with an error.
CallFails(c) ==
    /\ pc[c] \in {"insert", "find", "save", "row", "forget", "drop"}
    /\ Finish(c)
    /\ UNCHANGED <<now, database, cachedTill>>

Tick ==
    /\ now < MaxTime
    /\ \A c \in Clients : pc[c] # "idle" => now < began[c] + MaxDelay
    /\ now' = now + 1
    /\ accepted' = {}
    /\ UNCHANGED <<database, cachedTill, pc, claim, token, began, ttl>>

Serve(c) ==
    \/ \E a \in Account : CreateRequest(c, a) \/ LoginRequest(c, a)
    \/ CreateUser(c)
    \/ EmailTaken(c)
    \/ \E t \in Tokens : Login(c, t) \/ Authenticate(c, t)
    \/ InvalidCredentials(c)
    \/ CreateSession(c)
    \/ CacheLogin(c)
    \/ CacheHit(c)
    \/ CacheMiss(c)
    \/ NoRow(c)
    \/ RowExpired(c)
    \/ DeleteExpired(c)
    \/ RowFound(c)
    \/ WorkOutTTL(c)
    \/ RefreshCache(c)
    \/ DeleteSession(c)
    \/ DropCopy(c)
    \/ CallFails(c)

Next == Tick \/ \E c \in Clients : Serve(c)

Spec == Init /\ [][Next]_vars

----------------------------------------------------------------------------
(* What must hold.                                                         *)

\* An account that was reported as created keeps the password it was created
\* with, whoever else registers the same email at the same time.
ConfirmedStay == \A a \in confirmed : password[a[1]] = a[2]

\* From the moment a logout has deleted the row of a token, whether or not the
\* rest of it succeeds, every copy there is or that an authentication which had
\* read the row before still makes is dropped within CacheTTL and MaxDelay.  The
\* one exception is a copy that is never dropped: such a one can be there, or
\* be made behind the logout's back, once the token has reached its end of life
\* (CopiesDieWithTokens).
LogoutTakesEffect ==
    \A t \in Tokens : (revokedAt[t] # Never /\ cachedTill[t] # Forever) =>
       cachedTill[t] <= revokedAt[t] + CacheTTL + MaxDelay

\* No copy outlives its token by more than its writer may dawdle, save for one
\* whose time to live was worked out when the token had reached its end of life
\* since it was checked, which is never dropped.
CopiesDieWithTokens ==
    \A t \in Tokens : cachedTill[t] > EndOfLife(t) + MaxDelay =>
       /\ cachedTill[t] = Forever
       /\ now >= EndOfLife(t)

\* What a request at work can rely on: it is in time, it names an account or a
\* token that was issued, its fresh token is nobody else's, the copy it is
\* about to make ends with the token, and its logout has left no row.
Knows(c) ==
    /\ pc[c] # "idle" => began[c] <= now /\ now <= began[c] + MaxDelay
    /\ pc[c] \in {"insert", "find"} => claim[c] \in Account
    /\ pc[c] \notin {"idle", "insert", "find"} => token[c] \in Tokens
    /\ token[c] \in Tokens => issuedAt[token[c]] # Never
    /\ pc[c] \in {"save", "copy"} =>
          /\ \A d \in Clients \ {c} : token[d] # token[c]
          /\ cachedTill[token[c]] = Never
          /\ revokedAt[token[c]] = Never
          /\ began[c] <= issuedAt[token[c]]
    /\ pc[c] = "save" => expiresAt[token[c]] = Never
    /\ pc[c] = "drop" => revokedAt[token[c]] # Never
    /\ pc[c] \in {"found", "refresh"} =>
          /\ began[c] <= EndOfLife(token[c])
          /\ revokedAt[token[c]] # Never => began[c] <= revokedAt[token[c]]
    /\ pc[c] = "refresh" =>
          /\ began[c] + ttl[c] <= EndOfLife(token[c])
          /\ ttl[c] <= 0 => now >= EndOfLife(token[c])

RequestsKnow == \A c \in Clients : Knows(c)

\* What the stores hold of a token: nothing before it is issued, a row for its
\* lifetime and none after a logout has deleted it, and no copy that is kept for
\* longer than CacheTTL but for good.
StoresAgree ==
    \A t \in Tokens :
       /\ issuedAt[t] = Never =>
             expiresAt[t] = Never /\ cachedTill[t] = Never /\ revokedAt[t] = Never
       /\ expiresAt[t] # Never => expiresAt[t] = EndOfLife(t)
       /\ revokedAt[t] # Never => expiresAt[t] = Never
       /\ loggedOutAt[t] # Never => revokedAt[t] # Never
       /\ cachedTill[t] # Forever => cachedTill[t] <= now + CacheTTL

IndInv ==
    /\ TypeOK
    /\ RequestsKnow
    /\ StoresAgree
    /\ ConfirmedStay
    /\ LogoutTakesEffect
    /\ CopiesDieWithTokens

\* Where a token is in its life, for a reader of both stores: it is live as
\* long as its row stands, and fades while a copy is there or may still come.
HasRow(t) == expiresAt[t] # Never /\ now <= expiresAt[t]
CopyUnderWay(t) ==
    \E c \in Clients : token[c] = t /\ pc[c] \in {"copy", "found", "refresh"}

Life(t) ==
    IF issuedAt[t] = Never \/ \E c \in Clients : token[c] = t /\ pc[c] = "save"
    THEN "new"
    ELSE IF HasRow(t) THEN "live"
    ELSE IF cachedTill[t] > now \/ CopyUnderWay(t) THEN "fading"
    ELSE "over"

TokenLives == INSTANCE TokenLife WITH
    life <- [t \in Tokens |-> Life(t)],
    letIn <- {a[1] : a \in accepted}

\* A token that is over, having expired or been logged out, and with no copy
\* left and no request about to make one, is never let in or revived.
ImplementsTokenLife == TokenLives!Spec

----------------------------------------------------------------------------
(* What the source says and the code does not do.                          *)

\* auth/service.go: a token lives for 24 hours, so no authentication that
\* begins later accepts it.
TokensExpire == \A a \in accepted : a[2] <= EndOfLife(a[1])

\* auth_handler.go: the bearer was logged out successfully, so no
\* authentication that begins later accepts the token.
LoggedOutStaysOut ==
    \A a \in accepted : loggedOutAt[a[1]] # Never => a[2] <= loggedOutAt[a[1]]
==============================================================================
