---------------------------- MODULE SessionsProofs ----------------------------
(***************************************************************************)
(* A confirmed account keeps its password, a copy of a session goes with   *)
(* its token and soon after a logout, and a token that is over stays so:   *)
(* for any number of clients, accounts and tokens and any times to live.   *)
(***************************************************************************)
EXTENDS Sessions, TLAPS

USE SessionsAssumption DEF Never

----------------------------------------------------------------------------
(* The parts of the invariant                                              *)

\* What holds of one token.
Held(t) ==
    /\ issuedAt[t] = Never =>
          expiresAt[t] = Never /\ cachedTill[t] = Never /\ revokedAt[t] = Never
    /\ expiresAt[t] # Never => expiresAt[t] = EndOfLife(t)
    /\ revokedAt[t] # Never => expiresAt[t] = Never
    /\ loggedOutAt[t] # Never => revokedAt[t] # Never
    /\ cachedTill[t] # Forever => cachedTill[t] <= now + CacheTTL
    /\ (revokedAt[t] # Never /\ cachedTill[t] # Forever) =>
          cachedTill[t] <= revokedAt[t] + CacheTTL + MaxDelay
    /\ cachedTill[t] > EndOfLife(t) + MaxDelay =>
          cachedTill[t] = Forever /\ now >= EndOfLife(t)

\* The invariant speaks of each request and of each token by itself.
LEMMA Parts ==
    IndInv <=> /\ TypeOK /\ ConfirmedStay
               /\ \A c \in Clients : Knows(c)
               /\ \A t \in Tokens : Held(t)
BY DEF IndInv, RequestsKnow, StoresAgree, LogoutTakesEffect,
       CopiesDieWithTokens, Knows, Held

\* So it holds after a step if it does of each.
LEMMA PartsNext ==
    ASSUME TypeOK', ConfirmedStay',
           \A c \in Clients : Knows(c)', \A t \in Tokens : Held(t)'
    PROVE  IndInv'
BY DEF IndInv, RequestsKnow, StoresAgree, LogoutTakesEffect,
       CopiesDieWithTokens, Knows, Held

----------------------------------------------------------------------------
(* The types                                                               *)

\* What TypeOK says of the requests and of the stores.
ClientsTypeOK ==
    /\ pc \in [Clients -> {"idle", "save", "copy", "cache", "row", "found",
                           "refresh", "expired", "forget", "drop", "insert",
                           "find"}]
    /\ claim \in [Clients -> Account \cup {NoAccount}]
    /\ token \in [Clients -> Tokens \cup {NoToken}]
    /\ began \in [Clients -> Time]
    /\ ttl \in [Clients -> -MaxDelay .. CacheTTL]
    /\ accepted \in SUBSET (Tokens \X Time)

StoresTypeOK ==
    /\ now \in Time
    /\ password \in [Emails -> Passwords \cup {NoPassword}]
    /\ confirmed \in SUBSET Account
    /\ issuedAt \in [Tokens -> Time \cup {Never}]
    /\ expiresAt \in [Tokens -> Never .. MaxTime + Lifetime]
    /\ cachedTill \in [Tokens -> Never .. Forever]
    /\ revokedAt \in [Tokens -> Time \cup {Never}]
    /\ loggedOutAt \in [Tokens -> Time \cup {Never}]

\* The two are TypeOK.
LEMMA TypeParts == TypeOK <=> ClientsTypeOK /\ StoresTypeOK
BY DEF TypeOK, ClientsTypeOK, StoresTypeOK

\* The times are positive, and a token's is the longest.
LEMMA BoundsNat ==
    /\ Lifetime \in Nat /\ CacheTTL \in Nat /\ MaxDelay \in Nat /\ MaxTime \in Nat
    /\ Lifetime > 0 /\ CacheTTL > 0 /\ MaxDelay > 0 /\ MaxTime > 0
    /\ CacheTTL < Lifetime /\ MaxDelay < Lifetime
OBVIOUS

\* A request that is over is typed,
LEMMA LeaveTyped ==
    ASSUME IndInv, NEW c \in Clients, Leave(c), accepted' \in SUBSET (Tokens \X Time)
    PROVE  ClientsTypeOK'
BY BoundsNat DEF IndInv, TypeOK, ClientsTypeOK, Leave, Go, Time

\* one that begins is,
LEMMA BeginTyped ==
    ASSUME IndInv, NEW c \in Clients, NEW a \in Account \cup {NoAccount},
           NEW t \in Tokens \cup {NoToken},
           NEW step \in {"insert", "find", "cache"}, Begin(c, a, t, step)
    PROVE  ClientsTypeOK'
BY DEF IndInv, TypeOK, ClientsTypeOK, Begin, Go

\* one that goes on is,
LEMMA ContinueTyped ==
    ASSUME IndInv, NEW c \in Clients,
           NEW step \in {"copy", "row", "found", "expired", "refresh", "drop"},
           Continue(c, step), ttl' \in [Clients -> -MaxDelay .. CacheTTL]
    PROVE  ClientsTypeOK'
BY DEF IndInv, TypeOK, ClientsTypeOK, Continue, Go

\* and so is one that is let in.
LEMMA AcceptTyped ==
    ASSUME IndInv, NEW c \in Clients, pc[c] \in {"cache", "refresh"}, Accept(c)
    PROVE  ClientsTypeOK'
<1>1. accepted' \in SUBSET (Tokens \X Time)
  BY DEF Accept, IndInv, TypeOK, RequestsKnow, Knows
<1>2. CASE Leave(c)
  BY <1>1, <1>2, LeaveTyped
<1>3. CASE Logout(c)
  BY <1>1, <1>3, BoundsNat DEF Logout, Go, IndInv, TypeOK, ClientsTypeOK
<1> QED
  BY <1>2, <1>3 DEF Accept

\* The time to live of a copy is not above CacheTTL, ends with the token and
\* falls below 0 by no more than the request may dawdle.
LEMMA RefreshTTLTyped ==
    ASSUME IndInv, NEW t \in Tokens, issuedAt[t] # Never,
           now <= EndOfLife(t) + MaxDelay
    PROVE  /\ RefreshTTL(t) \in -MaxDelay .. CacheTTL
           /\ now + RefreshTTL(t) <= EndOfLife(t)
           /\ RefreshTTL(t) <= 0 => now >= EndOfLife(t)
<1>1. now \in Int /\ EndOfLife(t) \in Int
  BY BoundsNat DEF IndInv, TypeOK, Time, EndOfLife
<1> QED
  BY <1>1, BoundsNat DEF RefreshTTL

\* A request that has found the row of its token has begun in its life.
LEMMA FoundInTime ==
    ASSUME IndInv, NEW c \in Clients, pc[c] = "found"
    PROVE  /\ token[c] \in Tokens /\ issuedAt[token[c]] # Never
           /\ now <= EndOfLife(token[c]) + MaxDelay
<1>1. /\ Knows(c) /\ began[c] \in Int /\ now \in Int
      /\ token[c] \in Tokens => issuedAt[token[c]] \in Int
  <2>1. Knows(c) /\ TypeOK
    BY Parts
  <2> QED
    BY <2>1 DEF TypeOK, Time
<1>2. EndOfLife(token[c]) \in Int
  BY <1>1, BoundsNat DEF Knows, EndOfLife
<1> QED
  BY <1>1, <1>2, BoundsNat DEF Knows

\* Every step keeps what the requests remember typed.
LEMMA ClientsTypeNext == IndInv /\ [Next]_vars => ClientsTypeOK'
<1> SUFFICES ASSUME IndInv, [Next]_vars PROVE ClientsTypeOK'
  OBVIOUS
<1>0. ClientsTypeOK
  BY TypeParts DEF IndInv
<1>1. ASSUME NEW c \in Clients, Finish(c)
      PROVE  ClientsTypeOK'
  BY <1>1, LeaveTyped DEF Finish
<1>2. ASSUME NEW c \in Clients, NEW a \in Account,
             CreateRequest(c, a) \/ LoginRequest(c, a)
      PROVE  ClientsTypeOK'
  BY <1>2, BeginTyped DEF CreateRequest, LoginRequest
<1>3. ASSUME NEW c \in Clients, NEW t \in Tokens, Login(c, t)
      PROVE  ClientsTypeOK'
  BY <1>0, <1>3 DEF Login, Go, ClientsTypeOK
<1>4. ASSUME NEW c \in Clients, NEW t \in Tokens, Authenticate(c, t)
      PROVE  ClientsTypeOK'
  BY <1>4, BeginTyped DEF Authenticate
<1>5. ASSUME NEW c \in Clients, CreateSession(c)
      PROVE  ClientsTypeOK'
  BY <1>0, <1>5, ContinueTyped DEF CreateSession, ClientsTypeOK
<1>6. ASSUME NEW c \in Clients, CacheHit(c)
      PROVE  ClientsTypeOK'
  BY <1>6, AcceptTyped DEF CacheHit
<1>7. ASSUME NEW c \in Clients, CacheMiss(c)
      PROVE  ClientsTypeOK'
  BY <1>0, <1>7, ContinueTyped DEF CacheMiss, ClientsTypeOK
<1>8. ASSUME NEW c \in Clients, RowExpired(c) \/ RowFound(c)
      PROVE  ClientsTypeOK'
  BY <1>0, <1>8, ContinueTyped DEF RowExpired, RowFound, ClientsTypeOK
<1>9. ASSUME NEW c \in Clients, WorkOutTTL(c)
      PROVE  ClientsTypeOK'
  <2>1. RefreshTTL(token[c]) \in -MaxDelay .. CacheTTL
    BY <1>9, FoundInTime, RefreshTTLTyped DEF WorkOutTTL
  <2>2. ttl' \in [Clients -> -MaxDelay .. CacheTTL]
    BY <1>0, <1>9, <2>1 DEF WorkOutTTL, ClientsTypeOK
  <2> QED
    BY <1>9, <2>2, ContinueTyped DEF WorkOutTTL
<1>10. ASSUME NEW c \in Clients, RefreshCache(c)
       PROVE  ClientsTypeOK'
  BY <1>10, AcceptTyped DEF RefreshCache
<1>11. ASSUME NEW c \in Clients, DeleteSession(c)
       PROVE  ClientsTypeOK'
  <2>1. CASE Continue(c, "drop") /\ UNCHANGED ttl
    BY <1>0, <2>1, ContinueTyped DEF ClientsTypeOK
  <2> QED
    BY <1>1, <1>11, <2>1 DEF DeleteSession
<1>12. ASSUME UNCHANGED <<pc, claim, token, began, ttl>>, accepted' \in {{}, accepted}
       PROVE  ClientsTypeOK'
  BY <1>0, <1>12 DEF ClientsTypeOK
<1> QED
  BY <1>1, <1>2, <1>3, <1>4, <1>5, <1>6, <1>7, <1>8, <1>9, <1>10, <1>11, <1>12
     DEF Next, Serve, Tick, CreateUser, EmailTaken, InvalidCredentials,
         CacheLogin, NoRow, DeleteExpired, DropCopy, CallFails, vars

\* When a copy is dropped is some time, or later than all.
LEMMA DropTimeTyped ==
    ASSUME StoresTypeOK, NEW life \in -MaxDelay .. CacheTTL
    PROVE  DropTime(life) \in Never .. Forever
BY BoundsNat DEF StoresTypeOK, Time, DropTime, Forever

\* Every step keeps both stores typed, above all the ends of rows and copies.
LEMMA StoresTypeNext == IndInv /\ [Next]_vars => StoresTypeOK'
<1> SUFFICES ASSUME IndInv, [Next]_vars PROVE StoresTypeOK'
  OBVIOUS
<1>0. ClientsTypeOK /\ StoresTypeOK
  BY TypeParts DEF IndInv
<1> USE <1>0 DEF database, accounts, sessions
<1>1. ASSUME NEW c \in Clients, CreateUser(c)
      PROVE  StoresTypeOK'
  <2>1. claim[c] \in Account
    BY <1>1 DEF CreateUser, IndInv, RequestsKnow, Knows
  <2>2. claim[c][1] \in Emails /\ claim[c][2] \in Passwords
    BY <2>1 DEF Account
  <2> QED
    BY <1>1, <2>1, <2>2 DEF CreateUser, StoresTypeOK
<1>2. ASSUME NEW c \in Clients, NEW t \in Tokens, Login(c, t)
      PROVE  StoresTypeOK'
  BY <1>2 DEF Login, StoresTypeOK
<1>3. ASSUME NEW c \in Clients, CreateSession(c)
      PROVE  StoresTypeOK'
  <2>1. token[c] \in Tokens /\ issuedAt[token[c]] \in Time
    BY <1>3 DEF CreateSession, IndInv, RequestsKnow, Knows, StoresTypeOK
  <2>2. issuedAt[token[c]] + Lifetime \in Never .. MaxTime + Lifetime
    BY <2>1, BoundsNat DEF Time
  <2> QED
    BY <1>3, <2>1, <2>2 DEF CreateSession, EndOfLife, StoresTypeOK
<1>4. ASSUME NEW c \in Clients, CacheLogin(c)
      PROVE  StoresTypeOK'
  <2>1. DropTime(CacheTTL) \in Never .. Forever
    BY DropTimeTyped, BoundsNat
  <2> QED
    BY <1>4, <2>1 DEF CacheLogin, StoresTypeOK
<1>5. ASSUME NEW c \in Clients, RefreshCache(c)
      PROVE  StoresTypeOK'
  <2>1. DropTime(ttl[c]) \in Never .. Forever
    BY DropTimeTyped DEF ClientsTypeOK
  <2> QED
    BY <1>5, <2>1 DEF RefreshCache, StoresTypeOK
<1>6. ASSUME NEW c \in Clients, DeleteExpired(c) \/ DeleteSession(c)
      PROVE  StoresTypeOK'
  <2>1. Never \in Never .. MaxTime + Lifetime
    BY BoundsNat
  <2>2. DeleteSession(c) => revokedAt' \in [Tokens -> Time \cup {Never}]
    <3>1. ASSUME Revoke(c)
          PROVE  revokedAt' \in [Tokens -> Time \cup {Never}]
      BY ONLY <3>1, <1>0 DEF Revoke, First, StoresTypeOK
    <3> QED
      BY <3>1 DEF DeleteSession
  <2> QED
    BY <1>6, <2>1, <2>2 DEF DeleteExpired, DeleteSession, StoresTypeOK
<1>7. ASSUME NEW c \in Clients, DropCopy(c)
      PROVE  StoresTypeOK'
  <2>1. Never \in Never .. Forever
    BY BoundsNat DEF Forever
  <2>2. loggedOutAt' \in [Tokens -> Time \cup {Never}]
    BY <1>7 DEF DropCopy, First, StoresTypeOK
  <2> QED
    BY <1>7, <2>1, <2>2 DEF DropCopy, StoresTypeOK
<1>8. ASSUME Tick
      PROVE  StoresTypeOK'
  BY <1>8, BoundsNat DEF Tick, StoresTypeOK, Time
<1>9. ASSUME UNCHANGED <<now, database, cachedTill>>
      PROVE  StoresTypeOK'
  BY <1>9 DEF StoresTypeOK
<1> QED
  BY <1>1, <1>2, <1>3, <1>4, <1>5, <1>6, <1>7, <1>8, <1>9
     DEF Next, Serve, CreateRequest, LoginRequest, EmailTaken,
         InvalidCredentials, Authenticate, CacheHit, CacheMiss, NoRow,
         RowExpired, RowFound, WorkOutTTL, CallFails, vars

----------------------------------------------------------------------------
(* What the requests know                                                  *)

\* The step of a request leaves the others as they are.
LEMMA OthersStay ==
    ASSUME IndInv, NEW c \in Clients, NEW d \in Clients \ {c}, Serve(c)
    PROVE  /\ pc'[d] = pc[d] /\ claim'[d] = claim[d] /\ token'[d] = token[d]
           /\ began'[d] = began[d] /\ ttl'[d] = ttl[d] /\ now' = now
<1> USE DEF IndInv, TypeOK, Go, Finish, Leave, Begin, Continue, Accept, Logout
<1>1. Finish(c) => /\ pc'[d] = pc[d] /\ claim'[d] = claim[d] /\ token'[d] = token[d]
                   /\ began'[d] = began[d] /\ ttl'[d] = ttl[d]
  OBVIOUS
<1>2. ASSUME NEW a, NEW t, NEW step, Begin(c, a, t, step)
      PROVE  /\ pc'[d] = pc[d] /\ claim'[d] = claim[d] /\ token'[d] = token[d]
             /\ began'[d] = began[d] /\ ttl'[d] = ttl[d]
  BY <1>2
<1>3. ASSUME NEW step, Continue(c, step), UNCHANGED ttl
      PROVE  /\ pc'[d] = pc[d] /\ claim'[d] = claim[d] /\ token'[d] = token[d]
             /\ began'[d] = began[d] /\ ttl'[d] = ttl[d]
  BY <1>3
<1>4. Accept(c) => /\ pc'[d] = pc[d] /\ claim'[d] = claim[d] /\ token'[d] = token[d]
                   /\ began'[d] = began[d] /\ ttl'[d] = ttl[d]
  OBVIOUS
<1>5. (\E t \in Tokens : Login(c, t)) =>
        /\ pc'[d] = pc[d] /\ claim'[d] = claim[d] /\ token'[d] = token[d]
        /\ began'[d] = began[d] /\ ttl'[d] = ttl[d]
  BY DEF Login
<1>6. WorkOutTTL(c) =>
        /\ pc'[d] = pc[d] /\ claim'[d] = claim[d] /\ token'[d] = token[d]
        /\ began'[d] = began[d] /\ ttl'[d] = ttl[d]
  BY DEF WorkOutTTL
<1>7. now' = now
  BY DEF Serve, CreateRequest, LoginRequest, CreateUser, EmailTaken, Login,
         InvalidCredentials, CreateSession, CacheLogin, Authenticate,
         CacheHit, CacheMiss, NoRow, RowExpired, DeleteExpired, RowFound,
         WorkOutTTL, RefreshCache, DeleteSession, DropCopy, CallFails
<1> QED
  BY ONLY Serve(c), <1>1, <1>2, <1>3, <1>4, <1>5, <1>6, <1>7
     DEF Serve, CreateRequest, LoginRequest, CreateUser, EmailTaken,
         InvalidCredentials, CreateSession, CacheLogin, Authenticate, CacheHit,
         CacheMiss, NoRow, RowExpired, DeleteExpired, RowFound, RefreshCache,
         DeleteSession, DropCopy, CallFails

\* A request at work on a token that is not fresh.
LEMMA NotFresh ==
    ASSUME IndInv, NEW c \in Clients, NEW d \in Clients \ {c},
           pc[d] \in {"save", "copy"}
    PROVE  token[c] # token[d]
BY DEF IndInv, RequestsKnow, Knows

\* What the step of a request leaves of what another knows of its token.
LEMMA TokenStays ==
    ASSUME IndInv, NEW c \in Clients, NEW d \in Clients \ {c}, Serve(c),
           token[d] \in Tokens
    PROVE  /\ issuedAt'[token[d]] = issuedAt[token[d]]
           /\ expiresAt'[token[d]] = expiresAt[token[d]]
                 \/ expiresAt'[token[d]] = Never
                 \/ (pc[c] = "save" /\ token[c] = token[d])
           /\ revokedAt'[token[d]] = revokedAt[token[d]]
                 \/ revokedAt'[token[d]] = now
           /\ token[c] # token[d] =>
                 /\ cachedTill'[token[d]] = cachedTill[token[d]]
                 /\ revokedAt'[token[d]] = revokedAt[token[d]]
           /\ pc[d] \in {"save", "copy"} => token'[c] # token[d]
<1> DEFINE q == token[d]
<1>0. /\ issuedAt[q] # Never
      /\ issuedAt \in [Tokens -> Time \cup {Never}]
      /\ expiresAt \in [Tokens -> Never .. MaxTime + Lifetime]
      /\ cachedTill \in [Tokens -> Never .. Forever]
      /\ revokedAt \in [Tokens -> Time \cup {Never}]
      /\ token \in [Clients -> Tokens \cup {NoToken}]
  BY DEF IndInv, TypeOK, RequestsKnow, Knows
<1>1. issuedAt'[q] = issuedAt[q]
  <2>1. ASSUME NEW t \in Tokens, Login(c, t)
        PROVE  issuedAt'[q] = issuedAt[q]
    BY <1>0, <2>1 DEF Login
  <2> QED
    BY <2>1 DEF Serve, CreateRequest, LoginRequest, CreateUser, EmailTaken,
         InvalidCredentials, CreateSession, CacheLogin, Authenticate,
         CacheHit, CacheMiss, NoRow, RowExpired, DeleteExpired, RowFound,
         WorkOutTTL, RefreshCache, DeleteSession, DropCopy, CallFails,
         database, sessions
<1>2. \/ expiresAt'[q] = expiresAt[q] \/ expiresAt'[q] = Never
      \/ (pc[c] = "save" /\ token[c] = q)
  <2>1. ASSUME CreateSession(c)
        PROVE  expiresAt'[q] = expiresAt[q] \/ (pc[c] = "save" /\ token[c] = q)
    <3>1. CASE token[c] = q
      BY <2>1, <3>1 DEF CreateSession
    <3>2. CASE token[c] # q
      BY <1>0, <2>1, <3>2 DEF CreateSession
    <3> QED
      BY <3>1, <3>2
  <2>2. DeleteExpired(c) \/ DeleteSession(c) =>
          expiresAt'[q] = expiresAt[q] \/ expiresAt'[q] = Never
    BY <1>0 DEF DeleteExpired, DeleteSession
  <2>3. UNCHANGED expiresAt => expiresAt'[q] = expiresAt[q]
    OBVIOUS
  <2> QED
    BY <2>1, <2>2, <2>3 DEF Serve, CreateRequest, LoginRequest, CreateUser,
         EmailTaken, Login, InvalidCredentials, CacheLogin, Authenticate,
         CacheHit, CacheMiss, NoRow, RowExpired, RowFound, WorkOutTTL,
         RefreshCache, DropCopy, CallFails, database, sessions
<1>3. /\ revokedAt'[q] = revokedAt[q] \/ revokedAt'[q] = now
      /\ token[c] # q => revokedAt'[q] = revokedAt[q]
  <2>1. DeleteSession(c) =>
          /\ revokedAt'[q] = revokedAt[q] \/ revokedAt'[q] = now
          /\ token[c] # q => revokedAt'[q] = revokedAt[q]
    BY <1>0 DEF DeleteSession, Revoke, First
  <2>2. UNCHANGED revokedAt => revokedAt'[q] = revokedAt[q]
    OBVIOUS
  <2> QED
    BY <2>1, <2>2 DEF Serve, CreateRequest, LoginRequest, CreateUser,
         EmailTaken, Login, InvalidCredentials, CreateSession, CacheLogin,
         Authenticate, CacheHit, CacheMiss, NoRow, RowExpired, DeleteExpired,
         RowFound, WorkOutTTL, RefreshCache, DropCopy, CallFails, database,
         sessions
<1>4. token[c] # q => cachedTill'[q] = cachedTill[q]
  <2>1. CacheLogin(c) \/ RefreshCache(c) \/ DropCopy(c) =>
          (token[c] # q => cachedTill'[q] = cachedTill[q])
    BY <1>0 DEF CacheLogin, RefreshCache, DropCopy
  <2>2. UNCHANGED cachedTill => cachedTill'[q] = cachedTill[q]
    OBVIOUS
  <2> QED
    BY <2>1, <2>2 DEF Serve, CreateRequest, LoginRequest, CreateUser,
         EmailTaken, Login, InvalidCredentials, CreateSession, Authenticate,
         CacheHit, CacheMiss, NoRow, RowExpired, DeleteExpired, RowFound,
         WorkOutTTL, DeleteSession, CallFails, database, sessions
<1>5. ASSUME pc[d] \in {"save", "copy"}
      PROVE  token'[c] # q
  <2>0. token[c] # q /\ NoToken # q
    BY <1>5, NotFresh
  <2>1. ASSUME NEW t \in Tokens, Login(c, t)
        PROVE  token'[c] # q
    BY <1>0, <2>1 DEF Login
  <2>2. ASSUME NEW t \in Tokens, Authenticate(c, t)
        PROVE  token'[c] # q
    BY <1>0, <1>5, <2>2 DEF Authenticate, Known, Begin
  <2>3. Leave(c) => token'[c] # q
    BY <1>0, <2>0 DEF Leave
  <2>4. UNCHANGED token => token'[c] # q
    BY <2>0
  <2>5. ASSUME NEW a, CreateRequest(c, a) \/ LoginRequest(c, a)
        PROVE  token'[c] # q
    BY <1>0, <2>0, <2>5 DEF CreateRequest, LoginRequest, Begin
  <2> QED
    BY <2>1, <2>2, <2>3, <2>4, <2>5 DEF Serve, CreateUser, EmailTaken,
         InvalidCredentials, CreateSession, CacheLogin, CacheHit, CacheMiss,
         NoRow, RowExpired, DeleteExpired, RowFound, WorkOutTTL, RefreshCache,
         DeleteSession, DropCopy, CallFails, Finish, Continue, Accept, Logout
<1> QED
  BY ONLY <1>1, <1>2, <1>3, <1>4, <1>5

\* So what another request knows stays true.
LEMMA StillKnows ==
    ASSUME IndInv, NEW c \in Clients, NEW d \in Clients \ {c}, Serve(c)
    PROVE  Knows(d)'
<1>0. Knows(d) /\ TypeOK
  BY Parts
<1>1. /\ pc'[d] = pc[d] /\ claim'[d] = claim[d] /\ token'[d] = token[d]
      /\ began'[d] = began[d] /\ ttl'[d] = ttl[d] /\ now' = now
  BY OthersStay
<1>2. CASE token[d] \notin Tokens
  BY <1>0, <1>1, <1>2 DEF Knows
<1>3. CASE token[d] \in Tokens
  <2>1. /\ issuedAt'[token[d]] = issuedAt[token[d]]
        /\ expiresAt'[token[d]] = expiresAt[token[d]]
              \/ expiresAt'[token[d]] = Never
              \/ (pc[c] = "save" /\ token[c] = token[d])
        /\ revokedAt'[token[d]] = revokedAt[token[d]]
              \/ revokedAt'[token[d]] = now
        /\ token[c] # token[d] =>
              /\ cachedTill'[token[d]] = cachedTill[token[d]]
              /\ revokedAt'[token[d]] = revokedAt[token[d]]
        /\ pc[d] \in {"save", "copy"} => token'[c] # token[d]
    BY <1>3, TokenStays
  <2>2. pc[c] = "save" => token[c] # token[d]
    BY Parts DEF Knows
  <2>3. ASSUME pc[d] \in {"save", "copy"}
        PROVE  /\ \A e \in Clients \ {d} : token'[e] # token[d]
               /\ cachedTill'[token[d]] = Never /\ revokedAt'[token[d]] = Never
               /\ began[d] <= issuedAt'[token[d]]
    <3>1. \A e \in Clients \ {d} : token[e] # token[d]
      BY <1>0, <2>3 DEF Knows
    <3>2. \A e \in Clients \ {c} : token'[e] = token[e]
      BY OthersStay
    <3>3. \A e \in Clients \ {d} : token'[e] # token[d]
      BY <2>1, <2>3, <3>1, <3>2
    <3> QED
      BY <1>0, <2>1, <2>3, <3>1, <3>3 DEF Knows
  <2>4. pc[d] = "save" => expiresAt'[token[d]] = Never
    BY <1>0, <2>1, <2>2 DEF Knows
  <2>5. pc[d] = "drop" => revokedAt'[token[d]] # Never
    <3>1. now # Never
      BY <1>0 DEF TypeOK, Time
    <3>2. pc[d] = "drop" => revokedAt[token[d]] # Never
      BY <1>0 DEF Knows
    <3> QED
      BY <2>1, <3>1, <3>2
  <2>6. EndOfLife(token[d])' = EndOfLife(token[d])
    BY <1>1, <2>1 DEF EndOfLife
  <2>7. pc[d] \in {"found", "refresh"} /\ revokedAt'[token[d]] # Never =>
          began[d] <= revokedAt'[token[d]]
    BY <1>0, <2>1 DEF Knows
  <2> QED
    BY <1>0, <1>1, <1>3, <2>1, <2>3, <2>4, <2>5, <2>6, <2>7 DEF Knows
<1> QED
  BY <1>2, <1>3

\* A request that is over knows nothing.
LEMMA LeftKnows ==
    ASSUME IndInv, NEW c \in Clients, Leave(c)
    PROVE  Knows(c)'
<1>1. pc'[c] = "idle" /\ token'[c] = NoToken
  BY DEF IndInv, TypeOK, Leave, Go
<1> QED
  BY <1>1 DEF Knows

\* Who is let in knows that his token was issued.
LEMMA AcceptedKnows ==
    ASSUME IndInv, NEW c \in Clients, pc[c] \in {"cache", "refresh"},
           Accept(c), UNCHANGED <<now, issuedAt>>
    PROVE  Knows(c)'
<1>1. CASE Leave(c)
  BY <1>1, LeftKnows
<1>2. CASE Logout(c)
  <2>1. token[c] \in Tokens /\ issuedAt[token[c]] # Never /\ now \in Nat
    BY Parts DEF Knows, TypeOK, Time
  <2>2. pc'[c] = "forget" /\ token'[c] = token[c] /\ began'[c] = now
    BY <1>2 DEF Logout, Go, IndInv, TypeOK
  <2> QED
    BY <2>1, <2>2 DEF Knows
<1> QED
  BY <1>1, <1>2 DEF Accept

\* A request learns what it has to by its own steps.
LEMMA SelfKnows ==
    ASSUME IndInv, NEW c \in Clients, Serve(c)
    PROVE  Knows(c)'
<1>0. /\ Knows(c) /\ TypeOK /\ now \in Nat /\ began[c] \in Nat
      /\ \A t \in Tokens : Held(t)
      /\ \A d \in Clients : token[d] \in Tokens => issuedAt[token[d]] # Never
  <2>1. TypeOK /\ \A d \in Clients : Knows(d)
    BY Parts
  <2> QED
    BY <2>1, Parts DEF Knows, TypeOK, Time
<1> USE DEF database, sessions
<1>1. ASSUME Finish(c)
      PROVE  Knows(c)'
  BY <1>1, LeftKnows DEF Finish
<1>2. ASSUME NEW a \in Account, CreateRequest(c, a) \/ LoginRequest(c, a)
      PROVE  Knows(c)'
  <2>1. /\ pc'[c] \in {"insert", "find"} /\ claim'[c] = a
        /\ token'[c] = NoToken /\ began'[c] = now /\ now' = now
    BY <1>0, <1>2 DEF CreateRequest, LoginRequest, Begin, Go, TypeOK
  <2> QED
    BY <1>0, <2>1 DEF Knows
<1>3. ASSUME NEW t \in Tokens, Login(c, t)
      PROVE  Knows(c)'
  <2>1. /\ pc'[c] = "save" /\ token'[c] = t /\ issuedAt'[t] = now
        /\ UNCHANGED <<now, expiresAt, revokedAt, cachedTill, began>>
        /\ \A d \in Clients \ {c} : token'[d] = token[d]
        /\ issuedAt[t] = Never /\ pc[c] = "find"
    BY <1>0, <1>3 DEF Login, Go, TypeOK
  <2>2. expiresAt[t] = Never /\ cachedTill[t] = Never /\ revokedAt[t] = Never
    BY <1>0, <2>1 DEF Held
  <2>3. \A d \in Clients \ {c} : token[d] # t
    BY <1>0, <2>1
  <2> QED
    BY <1>0, <2>1, <2>2, <2>3 DEF Knows
<1>4. ASSUME NEW t \in Tokens, Authenticate(c, t)
      PROVE  Knows(c)'
  <2>1. /\ pc'[c] = "cache" /\ token'[c] = t /\ issuedAt'[t] # Never
        /\ began'[c] = now /\ now' = now
    BY <1>0, <1>4 DEF Authenticate, Known, Begin, Go, TypeOK
  <2> QED
    BY <1>0, <2>1 DEF Knows
<1>5. ASSUME CreateSession(c)
      PROVE  Knows(c)'
  <2>1. /\ pc[c] = "save" /\ pc'[c] = "copy"
        /\ UNCHANGED <<now, issuedAt, revokedAt, cachedTill, token, began>>
    BY <1>0, <1>5 DEF CreateSession, Continue, Go, TypeOK
  <2> QED
    BY <1>0, <2>1 DEF Knows
<1>6. ASSUME CacheHit(c)
      PROVE  Knows(c)'
  BY <1>6, AcceptedKnows DEF CacheHit
<1>7. ASSUME CacheMiss(c) \/ RowExpired(c)
      PROVE  Knows(c)'
  <2>1. /\ pc[c] \in {"cache", "row"} /\ pc'[c] \in {"row", "expired"}
        /\ UNCHANGED <<now, issuedAt, token, began>>
    BY <1>0, <1>7 DEF CacheMiss, RowExpired, Continue, Go, TypeOK
  <2> QED
    BY <1>0, <2>1 DEF Knows
<1>8. ASSUME RowFound(c)
      PROVE  Knows(c)'
  <2> DEFINE q == token[c]
  <2>1. /\ pc[c] = "row" /\ pc'[c] = "found"
        /\ UNCHANGED <<now, issuedAt, revokedAt, token, began>>
    BY <1>0, <1>8 DEF RowFound, Continue, Go, TypeOK
  <2>2. q \in Tokens /\ issuedAt[q] # Never /\ expiresAt[q] # Never /\ ~Expired(q)
    BY <1>0, <1>8, <2>1 DEF RowFound, Knows
  <2>3. revokedAt[q] = Never /\ now <= EndOfLife(q) /\ EndOfLife(q) \in Int
    BY <1>0, <2>2, BoundsNat DEF Held, Expired, EndOfLife, TypeOK, Time
  <2>4. began[c] <= now /\ now <= began[c] + MaxDelay
    BY <1>0, <2>1 DEF Knows
  <2>5. began[c] <= EndOfLife(q)
    BY <1>0, <2>3, <2>4
  <2>6. EndOfLife(q)' = EndOfLife(q)
    BY <2>1 DEF EndOfLife
  <2> QED
    BY <2>1, <2>2, <2>3, <2>4, <2>5, <2>6 DEF Knows
<1>11. ASSUME WorkOutTTL(c)
       PROVE  Knows(c)'
  <2> DEFINE q == token[c]
  <2>1. /\ pc[c] = "found" /\ pc'[c] = "refresh" /\ ttl'[c] = RefreshTTL(q)
        /\ UNCHANGED <<now, issuedAt, revokedAt, token, began>>
    BY <1>0, <1>11 DEF WorkOutTTL, Continue, Go, TypeOK
  <2>2. /\ q \in Tokens /\ issuedAt[q] # Never
        /\ RefreshTTL(q) \in -MaxDelay .. CacheTTL
        /\ now + RefreshTTL(q) <= EndOfLife(q)
        /\ RefreshTTL(q) <= 0 => now >= EndOfLife(q)
    BY <2>1, FoundInTime, RefreshTTLTyped
  <2>3. /\ began[c] <= now /\ now <= began[c] + MaxDelay
        /\ began[c] <= EndOfLife(q)
        /\ revokedAt[q] # Never => began[c] <= revokedAt[q]
    BY <1>0, <2>1 DEF Knows
  <2>4. EndOfLife(q) \in Int
    BY <1>0, <2>2, BoundsNat DEF EndOfLife, TypeOK, Time
  <2>5. began[c] + RefreshTTL(q) <= EndOfLife(q)
    BY <1>0, <2>2, <2>3, <2>4
  <2>6. EndOfLife(q)' = EndOfLife(q)
    BY <2>1 DEF EndOfLife
  <2> QED
    BY <2>1, <2>2, <2>3, <2>5, <2>6 DEF Knows
<1>9. ASSUME RefreshCache(c)
      PROVE  Knows(c)'
  BY <1>9, AcceptedKnows DEF RefreshCache
<1>10. ASSUME DeleteSession(c)
       PROVE  Knows(c)'
  <2>1. CASE Continue(c, "drop")
    <3>1. /\ pc[c] = "forget" /\ pc'[c] = "drop"
          /\ UNCHANGED <<now, issuedAt, token, began>>
      BY <1>0, <1>10, <2>1 DEF DeleteSession, Continue, Go, TypeOK
    <3>2. token[c] \in Tokens
      BY <1>0, <3>1 DEF Knows
    <3>3. revokedAt'[token[c]] # Never
      BY <1>0, <1>10, <3>2 DEF DeleteSession, Revoke, First, TypeOK
    <3> QED
      BY <1>0, <3>1, <3>2, <3>3 DEF Knows
  <2> QED
    BY <1>1, <1>10, <2>1 DEF DeleteSession
<1> QED
  BY <1>1, <1>2, <1>3, <1>4, <1>5, <1>6, <1>7, <1>8, <1>9, <1>10,
     <1>11
     DEF Serve, CreateUser, EmailTaken, InvalidCredentials, CacheLogin, NoRow,
         DeleteExpired, DropCopy, CallFails

\* Time passes only where no request at work has used up its time.
LEMMA TickKnows ==
    ASSUME IndInv, NEW c \in Clients, Tick
    PROVE  Knows(c)'
<1>1. /\ Knows(c) /\ now \in Nat /\ now' = now + 1 /\ began[c] \in Nat
      /\ pc[c] # "idle" => now < began[c] + MaxDelay
      /\ UNCHANGED <<issuedAt, expiresAt, revokedAt, cachedTill,
                     pc, claim, token, began, ttl>>
  <2>1. Knows(c) /\ TypeOK
    BY Parts
  <2> QED
    BY <2>1 DEF Tick, database, sessions, TypeOK, Time
<1>2. pc[c] # "idle" => began[c] <= now + 1 /\ now + 1 <= began[c] + MaxDelay
  BY <1>1, BoundsNat DEF Knows
<1>3. pc[c] = "refresh" /\ ttl[c] <= 0 => now + 1 >= EndOfLife(token[c])
  <2>1. pc[c] = "refresh" => token[c] \in Tokens /\ issuedAt[token[c]] \in Int
    BY <1>1 DEF Knows, IndInv, TypeOK, Time
  <2> QED
    BY <1>1, <2>1, BoundsNat DEF Knows, EndOfLife
<1>4. EndOfLife(token[c])' = EndOfLife(token[c])
  BY <1>1 DEF EndOfLife
<1> QED
  BY <1>1, <1>2, <1>3, <1>4 DEF Knows

\* What every request knows stays true by every step.
LEMMA KnowNext == IndInv /\ [Next]_vars => \A c \in Clients : Knows(c)'
<1> SUFFICES ASSUME IndInv, [Next]_vars, NEW c \in Clients PROVE Knows(c)'
  OBVIOUS
<1>1. CASE UNCHANGED vars
  <2>1. Knows(c)
    BY Parts
  <2> QED
    BY <1>1, <2>1 DEF vars, database, sessions, Knows, EndOfLife
<1>2. ASSUME NEW d \in Clients, Serve(d)
      PROVE  Knows(c)'
  BY <1>2, SelfKnows, StillKnows
<1> QED
  BY <1>1, <1>2, TickKnows DEF Next

----------------------------------------------------------------------------
(* What the stores hold                                                    *)

\* A copy is made in time for the end of its token, and by a request that
\* began before the logout; a row is made for a fresh token only.
LEMMA HeldNext == IndInv /\ [Next]_vars => \A t \in Tokens : Held(t)'
<1> SUFFICES ASSUME IndInv, [Next]_vars, NEW t \in Tokens PROVE Held(t)'
  OBVIOUS
<1>0. /\ Held(t) /\ TypeOK /\ \A c \in Clients : Knows(c)
      /\ now \in Nat /\ issuedAt[t] \in Int /\ issuedAt[t] >= -1
      /\ cachedTill[t] \in Int /\ revokedAt[t] \in Int /\ revokedAt[t] >= -1
  <2>1. Held(t) /\ TypeOK /\ \A c \in Clients : Knows(c)
    BY Parts
  <2> QED
    BY <2>1, BoundsNat DEF TypeOK, Time, Forever
<1> USE DEF database, sessions
<1>1. ASSUME UNCHANGED <<now, sessions, cachedTill>>
      PROVE  Held(t)'
  BY <1>0, <1>1 DEF Held, EndOfLife
<1>2. ASSUME NEW c \in Clients, NEW u \in Tokens, Login(c, u)
      PROVE  Held(t)'
  <2>1. CASE u = t
    <3>1. /\ issuedAt'[t] = now /\ issuedAt[t] = Never
          /\ UNCHANGED <<now, expiresAt, revokedAt, loggedOutAt, cachedTill>>
      BY <1>0, <1>2, <2>1 DEF Login, TypeOK
    <3> QED
      BY <1>0, <3>1, BoundsNat DEF Held, EndOfLife
  <2>2. CASE u # t
    <3>1. UNCHANGED <<now, expiresAt, revokedAt, loggedOutAt, cachedTill, issuedAt[t]>>
      BY <1>0, <1>2, <2>2 DEF Login, TypeOK
    <3> QED
      BY <1>0, <3>1 DEF Held, EndOfLife
  <2> QED
    BY <2>1, <2>2
<1>3. ASSUME NEW c \in Clients, CreateSession(c)
      PROVE  Held(t)'
  <2>0. UNCHANGED <<now, issuedAt, revokedAt, loggedOutAt, cachedTill>>
    BY <1>3 DEF CreateSession
  <2>1. CASE token[c] = t
    <3>1. revokedAt[t] = Never /\ issuedAt[t] # Never
      BY <1>0, <1>3, <2>1 DEF CreateSession, Knows
    <3>2. expiresAt'[t] = EndOfLife(t)
      BY <1>0, <1>3, <2>1 DEF CreateSession, EndOfLife, TypeOK
    <3> QED
      BY <1>0, <2>0, <3>1, <3>2 DEF Held, EndOfLife
  <2>2. CASE token[c] # t
    <3>1. expiresAt'[t] = expiresAt[t]
      BY <1>0, <1>3, <2>2 DEF CreateSession, TypeOK
    <3> QED
      BY <1>0, <2>0, <3>1 DEF Held, EndOfLife
  <2> QED
    BY <2>1, <2>2
<1>4. ASSUME NEW c \in Clients, CacheLogin(c) \/ RefreshCache(c), token[c] # t
      PROVE  Held(t)'
  <2>1. UNCHANGED <<now, sessions>> /\ cachedTill'[t] = cachedTill[t]
    BY <1>0, <1>4 DEF CacheLogin, RefreshCache, TypeOK
  <2> QED
    BY <1>0, <2>1 DEF Held, EndOfLife
<1>5. ASSUME NEW c \in Clients, CacheLogin(c), token[c] = t
      PROVE  Held(t)'
  <2>1. UNCHANGED <<now, sessions>>
    BY <1>5 DEF CacheLogin
  <2>2. CASE UNCHANGED cachedTill
    BY <1>1, <2>1, <2>2
  <2>3. CASE cachedTill' = [cachedTill EXCEPT ![token[c]] = DropTime(CacheTTL)]
    <3>1. cachedTill'[t] = now + CacheTTL
      BY <1>0, <1>5, <2>3, BoundsNat DEF DropTime, TypeOK
    <3>2. /\ revokedAt[t] = Never /\ issuedAt[t] # Never
          /\ now <= began[c] + MaxDelay /\ began[c] <= issuedAt[t] /\ began[c] \in Nat
      BY <1>0, <1>5 DEF CacheLogin, Knows, TypeOK, Time
    <3> QED
      BY <1>0, <2>1, <3>1, <3>2, BoundsNat DEF Held, EndOfLife
  <2> QED
    BY <1>5, <2>2, <2>3 DEF CacheLogin
<1>6. ASSUME NEW c \in Clients, RefreshCache(c), token[c] = t
      PROVE  Held(t)'
  <2>1. UNCHANGED <<now, sessions>>
    BY <1>6 DEF RefreshCache
  <2>2. CASE UNCHANGED cachedTill
    BY <1>1, <2>1, <2>2
  <2>3. CASE cachedTill' = [cachedTill EXCEPT ![token[c]] = DropTime(ttl[c])]
    <3>1. cachedTill'[t] = DropTime(ttl[c])
      BY <1>0, <1>6, <2>3 DEF TypeOK
    <3>2. /\ pc[c] = "refresh" /\ issuedAt[t] # Never
          /\ now <= began[c] + MaxDelay /\ began[c] \in Nat
          /\ ttl[c] \in -MaxDelay .. CacheTTL
          /\ began[c] + ttl[c] <= EndOfLife(t)
          /\ ttl[c] <= 0 => now >= EndOfLife(t)
          /\ revokedAt[t] # Never => began[c] <= revokedAt[t]
      BY <1>0, <1>6 DEF RefreshCache, Knows, TypeOK, Time
    <3>3. CASE ttl[c] <= 0
      <4>1. cachedTill'[t] = Forever
        BY <3>1, <3>2, <3>3, BoundsNat DEF DropTime
      <4>2. now >= EndOfLife(t) /\ Forever' = Forever
        BY <3>2, <3>3 DEF Forever
      <4>3. /\ issuedAt' = issuedAt /\ expiresAt' = expiresAt /\ now' = now
            /\ revokedAt' = revokedAt /\ loggedOutAt' = loggedOutAt
        BY <2>1
      <4>4. EndOfLife(t)' = EndOfLife(t)
        BY <4>3 DEF EndOfLife
      <4> QED
        BY <1>0, <3>2, <4>1, <4>2, <4>3, <4>4 DEF Held
    <3>4. CASE ttl[c] > 0
      <4>1. cachedTill'[t] = now + ttl[c]
        BY <3>1, <3>4 DEF DropTime
      <4>2. ttl[c] \in Nat /\ ttl[c] <= CacheTTL
        BY <3>2, <3>4, BoundsNat
      <4>3. now + ttl[c] <= EndOfLife(t) + MaxDelay
        BY <1>0, <3>2, <4>2, BoundsNat DEF EndOfLife
      <4>4. revokedAt[t] # Never =>
                now + ttl[c] <= revokedAt[t] + CacheTTL + MaxDelay
        BY <1>0, <3>2, <4>2, BoundsNat
      <4> QED
        BY <1>0, <2>1, <3>2, <4>1, <4>2, <4>3, <4>4, BoundsNat DEF Held,
                                                                   EndOfLife
    <3> QED
      BY <3>2, <3>3, <3>4, BoundsNat
  <2> QED
    BY <1>6, <2>2, <2>3 DEF RefreshCache
<1>7. ASSUME NEW c \in Clients, DeleteExpired(c) \/ DeleteSession(c)
      PROVE  Held(t)'
  <2>1. /\ UNCHANGED <<now, issuedAt, loggedOutAt, cachedTill>>
        /\ expiresAt'[t] = expiresAt[t] \/ expiresAt'[t] = Never
    BY <1>0, <1>7 DEF DeleteExpired, DeleteSession, TypeOK
  <2>2. CASE revokedAt'[t] = revokedAt[t]
    BY <1>0, <2>1, <2>2 DEF Held, EndOfLife
  <2>3. CASE revokedAt'[t] # revokedAt[t]
    <3>1. DeleteSession(c) /\ token[c] = t
      BY <1>0, <1>7, <2>3 DEF DeleteExpired, DeleteSession, Revoke, TypeOK
    <3>2. expiresAt'[t] = Never /\ revokedAt'[t] = now /\ issuedAt[t] # Never
      BY <1>0, <2>3, <3>1 DEF DeleteSession, Revoke, First, Knows, TypeOK
    <3> QED
      BY <1>0, <2>1, <3>2, BoundsNat DEF Held, EndOfLife
  <2> QED
    BY <2>2, <2>3
<1>8. ASSUME NEW c \in Clients, DropCopy(c)
      PROVE  Held(t)'
  <2>0. UNCHANGED <<now, issuedAt, expiresAt, revokedAt>>
    BY <1>8 DEF DropCopy
  <2>1. CASE token[c] = t
    <3>1. cachedTill'[t] = Never
      BY <1>0, <1>8, <2>1 DEF DropCopy, TypeOK
    <3>2. revokedAt[t] # Never /\ issuedAt[t] # Never
      BY <1>0, <1>8, <2>1 DEF DropCopy, Knows
    <3> QED
      BY <1>0, <2>0, <3>1, <3>2, BoundsNat DEF Held, EndOfLife
  <2>2. CASE token[c] # t
    <3>1. cachedTill'[t] = cachedTill[t] /\ loggedOutAt'[t] = loggedOutAt[t]
      BY <1>0, <1>8, <2>2 DEF DropCopy, TypeOK
    <3> QED
      BY <1>0, <2>0, <3>1 DEF Held, EndOfLife
  <2> QED
    BY <2>1, <2>2
<1>9. ASSUME Tick
      PROVE  Held(t)'
  <2>1. now' = now + 1 /\ UNCHANGED <<sessions, cachedTill>>
    BY <1>9 DEF Tick
  <2> QED
    BY <1>0, <2>1, BoundsNat DEF Held, EndOfLife
<1> QED
  BY <1>1, <1>2, <1>3, <1>4, <1>5, <1>6, <1>7, <1>8, <1>9
     DEF Next, Serve, CreateRequest, LoginRequest, CreateUser, EmailTaken,
         InvalidCredentials, Authenticate, CacheHit, CacheMiss, NoRow,
         RowExpired, RowFound, WorkOutTTL, CallFails, vars

\* The column is UNIQUE: an account that there is keeps its password.
LEMMA AccountsNext == IndInv /\ [Next]_vars => ConfirmedStay'
<1> SUFFICES ASSUME IndInv, [Next]_vars, NEW a \in confirmed'
             PROVE  password'[a[1]] = a[2]
  BY DEF ConfirmedStay
<1>0. TypeOK /\ ConfirmedStay
  BY DEF IndInv
<1>1. ASSUME NEW c \in Clients, CreateUser(c)
      PROVE  password'[a[1]] = a[2]
  <2>1. claim[c] \in Account
    BY <1>1 DEF CreateUser, IndInv, RequestsKnow, Knows
  <2>2. claim[c][1] \in Emails /\ claim[c][2] \in Passwords
    BY <2>1 DEF Account
  <2>3. CASE a = claim[c]
    BY <1>0, <1>1, <2>2, <2>3 DEF CreateUser, TypeOK
  <2>4. CASE a # claim[c]
    <3>1. a \in confirmed /\ a[1] \in Emails /\ a[2] \in Passwords
      BY <1>0, <1>1, <2>4 DEF CreateUser, TypeOK, Account
    <3>2. a[1] # claim[c][1]
      BY <1>0, <1>1, <3>1 DEF CreateUser, ConfirmedStay
    <3> QED
      BY <1>0, <1>1, <2>2, <3>1, <3>2 DEF CreateUser, ConfirmedStay, TypeOK
  <2> QED
    BY <2>3, <2>4
<1>2. ASSUME UNCHANGED accounts
      PROVE  password'[a[1]] = a[2]
  BY <1>0, <1>2 DEF accounts, ConfirmedStay
<1> QED
  BY <1>1, <1>2
     DEF Next, Serve, Tick, CreateRequest, LoginRequest, EmailTaken, Login,
         InvalidCredentials, CreateSession, CacheLogin, Authenticate,
         CacheHit, CacheMiss, NoRow, RowExpired, DeleteExpired, RowFound,
         WorkOutTTL, RefreshCache, DeleteSession, DropCopy, CallFails,
         database, vars

\* What requests know of their tokens, what the stores hold of them and the
\* promises of both are kept by every step: the invariant of the other theorems.
THEOREM SessionsIndInvHolds == Spec => []IndInv
<1>1. ASSUME Init PROVE IndInv
  <2>1. TypeOK
    BY <1>1, BoundsNat DEF Init, TypeOK, Time, Forever
  <2>2. \A c \in Clients : Knows(c)
    BY <1>1 DEF Init, Knows
  <2>3. \A t \in Tokens : Held(t)
    BY <1>1, BoundsNat DEF Init, Held, EndOfLife
  <2>4. ConfirmedStay
    BY <1>1 DEF Init, ConfirmedStay
  <2> QED
    BY <2>1, <2>2, <2>3, <2>4, Parts
<1>2. IndInv /\ [Next]_vars => IndInv'
  <2>1. IndInv /\ [Next]_vars => TypeOK'
    BY ClientsTypeNext, StoresTypeNext DEF TypeOK, ClientsTypeOK, StoresTypeOK
  <2> QED
    BY <2>1, KnowNext, HeldNext, AccountsNext, PartsNext
<1> QED
  BY <1>1, <1>2, PTL DEF Spec

\* Every variable of the sessions keeps its type.
THEOREM SessionsTypeCorrect == Spec => []TypeOK
<1>1. IndInv => TypeOK
  BY DEF IndInv
<1> QED
  BY <1>1, SessionsIndInvHolds, PTL

\* Of any number of registrations of an email the one that is confirmed is the
\* one whose password counts.
THEOREM ConfirmedStayHolds == Spec => []ConfirmedStay
<1>1. IndInv => ConfirmedStay
  BY DEF IndInv
<1> QED
  BY <1>1, SessionsIndInvHolds, PTL

\* Once the row of a session is deleted, every copy of it but one that is kept
\* for good is dropped within CacheTTL and MaxDelay, however late an
\* authentication sets it.
THEOREM LogoutTakesEffectHolds == Spec => []LogoutTakesEffect
<1>1. IndInv => LogoutTakesEffect
  BY DEF IndInv
<1> QED
  BY <1>1, SessionsIndInvHolds, PTL

\* A copy outlives its token by MaxDelay at most, but for the one whose time to
\* live was worked out when the token had come to its end since it was checked.
THEOREM CopiesDieWithTokensHolds == Spec => []CopiesDieWithTokens
<1>1. IndInv => CopiesDieWithTokens
  BY DEF IndInv
<1> QED
  BY <1>1, SessionsIndInvHolds, PTL

----------------------------------------------------------------------------
(* The life of a token                                                     *)

\* The two questions that, with HasRow, tell where a token is in its life.
Fresh(t) ==
    issuedAt[t] = Never \/ (\E c \in Clients : token[c] = t /\ pc[c] = "save")

CopyAround(t) == cachedTill[t] > now \/ CopyUnderWay(t)

\* The life of a token by the three questions,
LEMMA LifeCases ==
    ASSUME NEW t
    PROVE  /\ Fresh(t) => Life(t) = "new"
           /\ (~Fresh(t) /\ HasRow(t)) => Life(t) = "live"
           /\ (~Fresh(t) /\ ~HasRow(t) /\ CopyAround(t)) => Life(t) = "fading"
           /\ (~Fresh(t) /\ ~HasRow(t) /\ ~CopyAround(t)) => Life(t) = "over"
BY DEF Life, Fresh, CopyAround

\* before a step and after it.
LEMMA LifeCasesNext ==
    ASSUME NEW t
    PROVE  /\ Fresh(t)' => Life(t)' = "new"
           /\ (~Fresh(t)' /\ HasRow(t)') => Life(t)' = "live"
           /\ (~Fresh(t)' /\ ~HasRow(t)' /\ CopyAround(t)') => Life(t)' = "fading"
           /\ (~Fresh(t)' /\ ~HasRow(t)' /\ ~CopyAround(t)') => Life(t)' = "over"
BY DEF Life, Fresh, CopyAround

\* What a step of a request does to where it is and to its token.
LEMMA OwnStep ==
    ASSUME IndInv, NEW c \in Clients, Serve(c)
    PROVE  /\ pc'[c] = "save" => issuedAt[token'[c]] = Never
           /\ pc'[c] = "copy" => CreateSession(c) /\ token'[c] = token[c]
           /\ pc'[c] = "found" => RowFound(c) /\ token'[c] = token[c]
           /\ pc'[c] = "refresh" => pc[c] = "found" /\ token'[c] = token[c]
           /\ pc[c] = "save" => CreateSession(c) \/ (Finish(c) /\ UNCHANGED cachedTill)
<1>0. TypeOK
  BY DEF IndInv
<1> USE <1>0 DEF Go
<1>1. ASSUME Leave(c)
      PROVE  pc'[c] = "idle"
  BY <1>1 DEF Leave, TypeOK
<1>2. ASSUME Accept(c)
      PROVE  pc'[c] \in {"idle", "forget"}
  BY <1>1, <1>2 DEF Accept, Logout, TypeOK
<1>3. ASSUME \/ \E a \in Account : CreateRequest(c, a) \/ LoginRequest(c, a)
             \/ \E t \in Tokens : Authenticate(c, t)
      PROVE  pc[c] = "idle" /\ pc'[c] \in {"insert", "find", "cache"}
  BY <1>3 DEF CreateRequest, LoginRequest, Authenticate, Begin, TypeOK
<1>4. ASSUME NEW t \in Tokens, Login(c, t)
      PROVE  pc[c] = "find" /\ pc'[c] = "save" /\ issuedAt[token'[c]] = Never
  BY <1>4 DEF Login, TypeOK
<1>5. ASSUME CreateSession(c)
      PROVE  pc'[c] = "copy" /\ token'[c] = token[c]
  BY <1>5 DEF CreateSession, Continue, TypeOK
<1>6. ASSUME RowFound(c)
      PROVE  pc[c] = "row" /\ pc'[c] = "found" /\ token'[c] = token[c]
  BY <1>6 DEF RowFound, Continue, TypeOK
<1>12. ASSUME WorkOutTTL(c)
       PROVE  pc[c] = "found" /\ pc'[c] = "refresh" /\ token'[c] = token[c]
  BY <1>12 DEF WorkOutTTL, Continue, TypeOK
<1>7. ASSUME CacheMiss(c) \/ RowExpired(c)
      PROVE  pc[c] # "save" /\ pc'[c] \in {"row", "expired"}
  BY <1>7 DEF CacheMiss, RowExpired, Continue, TypeOK
<1>8. ASSUME DeleteSession(c)
      PROVE  pc[c] = "forget" /\ pc'[c] \in {"drop", "idle"}
  BY <1>1, <1>8 DEF DeleteSession, Continue, Finish, TypeOK
<1>9. ASSUME CacheHit(c) \/ RefreshCache(c)
      PROVE  pc[c] # "save" /\ pc'[c] \in {"idle", "forget"}
  BY <1>2, <1>9 DEF CacheHit, RefreshCache
<1>10. ASSUME \/ CreateUser(c) \/ EmailTaken(c) \/ InvalidCredentials(c)
              \/ CacheLogin(c) \/ NoRow(c) \/ DeleteExpired(c) \/ DropCopy(c)
       PROVE  pc[c] # "save" /\ pc'[c] = "idle"
  BY <1>1, <1>10 DEF CreateUser, EmailTaken, InvalidCredentials, CacheLogin,
                     NoRow, DeleteExpired, DropCopy, Finish
<1>11. ASSUME CallFails(c)
       PROVE  pc'[c] = "idle" /\ Finish(c) /\ UNCHANGED cachedTill
  BY <1>1, <1>11 DEF CallFails, Finish
<1> QED
  BY <1>3, <1>4, <1>5, <1>6, <1>7, <1>8, <1>9, <1>10, <1>11, <1>12 DEF Serve

\* No token becomes fresh.
LEMMA NotFreshAgain ==
    ASSUME IndInv, Next, NEW t \in Tokens, Fresh(t)'
    PROVE  Fresh(t)
<1>0. TypeOK
  BY DEF IndInv
<1>1. CASE Tick
  BY <1>1 DEF Tick, database, sessions, Fresh
<1>2. ASSUME NEW c \in Clients, Serve(c)
      PROVE  Fresh(t)
  <2>1. CASE issuedAt'[t] = Never
    <3>1. ASSUME NEW u \in Tokens, Login(c, u)
          PROVE  issuedAt[t] = Never
      BY <1>0, <2>1, <3>1 DEF Login, TypeOK, Time
    <3>2. UNCHANGED issuedAt => issuedAt[t] = Never
      BY <2>1
    <3> QED
      BY <1>2, <3>1, <3>2 DEF Fresh, Serve, CreateRequest, LoginRequest,
         CreateUser, EmailTaken, InvalidCredentials, CreateSession,
         CacheLogin, Authenticate, CacheHit, CacheMiss, NoRow, RowExpired,
         DeleteExpired, RowFound, WorkOutTTL, RefreshCache, DeleteSession,
         DropCopy, CallFails, database, sessions
  <2>2. ASSUME NEW d \in Clients, token'[d] = t, pc'[d] = "save"
        PROVE  Fresh(t)
    <3>1. CASE d = c
      BY <1>2, <2>2, <3>1, OwnStep DEF Fresh
    <3>2. CASE d # c
      BY <1>2, <2>2, <3>2, OthersStay DEF Fresh
    <3> QED
      BY <3>1, <3>2
  <2> QED
    BY <2>1, <2>2 DEF Fresh
<1> QED
  BY <1>1, <1>2 DEF Next

\* A row is made for a fresh token only, and time does not go back.
LEMMA NoNewRow ==
    ASSUME IndInv, Next, NEW t \in Tokens, ~Fresh(t), HasRow(t)'
    PROVE  HasRow(t)
<1>0. TypeOK /\ now \in Nat /\ expiresAt[t] \in Int
  BY BoundsNat DEF IndInv, TypeOK, Time
<1>1. CASE Tick
  BY <1>0, <1>1 DEF Tick, database, sessions, HasRow
<1>2. ASSUME NEW c \in Clients, Serve(c)
      PROVE  HasRow(t)
  <2>1. now' = now
    BY <1>2 DEF Serve, CreateRequest, LoginRequest, CreateUser, EmailTaken,
         Login, InvalidCredentials, CreateSession, CacheLogin, Authenticate,
         CacheHit, CacheMiss, NoRow, RowExpired, DeleteExpired, RowFound,
         WorkOutTTL, RefreshCache, DeleteSession, DropCopy, CallFails
  <2>2. CreateSession(c) => expiresAt'[t] = expiresAt[t]
    BY <1>0 DEF CreateSession, Fresh, TypeOK
  <2>3. DeleteExpired(c) \/ DeleteSession(c) =>
          (expiresAt'[t] = expiresAt[t] \/ expiresAt'[t] = Never)
    BY <1>0 DEF DeleteExpired, DeleteSession, TypeOK
  <2>4. UNCHANGED expiresAt => expiresAt'[t] = expiresAt[t]
    OBVIOUS
  <2>5. expiresAt'[t] = expiresAt[t] \/ expiresAt'[t] = Never
    BY <1>2, <2>2, <2>3, <2>4 DEF Serve, CreateRequest, LoginRequest,
       CreateUser, EmailTaken, Login, InvalidCredentials, CacheLogin,
       Authenticate, CacheHit, CacheMiss, NoRow, RowExpired, RowFound,
       WorkOutTTL, RefreshCache, DropCopy, CallFails, database, sessions
  <2> QED
    BY <2>1, <2>5 DEF HasRow
<1> QED
  BY <1>1, <1>2 DEF Next

\* Without a row nobody begins to make a copy, and without a copy and without
\* anybody about to make one there is none.
LEMMA NoNewCopy ==
    ASSUME IndInv, Next, NEW t \in Tokens, ~Fresh(t), ~HasRow(t), CopyAround(t)'
    PROVE  CopyAround(t)
<1>0. TypeOK /\ now \in Nat /\ cachedTill[t] \in Int
  BY BoundsNat DEF IndInv, TypeOK, Time, Forever
<1>1. CASE Tick
  <2>1. now' = now + 1 /\ UNCHANGED <<cachedTill, token, pc>>
    BY <1>1 DEF Tick
  <2> QED
    BY <1>0, <2>1 DEF CopyAround, CopyUnderWay
<1>2. ASSUME NEW c \in Clients, Serve(c)
      PROVE  CopyAround(t)
  <2>0. now' = now
    BY <1>2 DEF Serve, CreateRequest, LoginRequest, CreateUser, EmailTaken,
         Login, InvalidCredentials, CreateSession, CacheLogin, Authenticate,
         CacheHit, CacheMiss, NoRow, RowExpired, DeleteExpired, RowFound,
         WorkOutTTL, RefreshCache, DeleteSession, DropCopy, CallFails
  <2>1. CASE cachedTill'[t] > now'
    <3>1. CASE cachedTill'[t] = cachedTill[t]
      BY <2>0, <2>1, <3>1 DEF CopyAround
    <3>2. ASSUME CacheLogin(c) \/ RefreshCache(c)
          PROVE  CopyAround(t)
      <4>1. CASE token[c] = t
        BY <3>2, <4>1 DEF CacheLogin, RefreshCache, CopyAround, CopyUnderWay
      <4>2. CASE token[c] # t
        BY <1>0, <3>1, <3>2, <4>2 DEF CacheLogin, RefreshCache, TypeOK
      <4> QED
        BY <4>1, <4>2
    <3>3. ASSUME DropCopy(c)
          PROVE  cachedTill'[t] = cachedTill[t]
      BY <1>0, <2>0, <2>1, <3>3 DEF DropCopy, TypeOK
    <3>4. UNCHANGED cachedTill => cachedTill'[t] = cachedTill[t]
      OBVIOUS
    <3> QED
      BY <1>2, <3>1, <3>2, <3>3, <3>4 DEF Serve, CreateRequest, LoginRequest,
         CreateUser, EmailTaken, Login, InvalidCredentials, CreateSession,
         Authenticate, CacheHit, CacheMiss, NoRow, RowExpired, DeleteExpired,
         RowFound, WorkOutTTL, DeleteSession, CallFails
  <2>2. ASSUME NEW d \in Clients, token'[d] = t,
               pc'[d] \in {"copy", "found", "refresh"}
        PROVE  CopyAround(t)
    <3>1. CASE d = c
      <4>1. /\ token[c] = t
            /\ CreateSession(c) \/ RowFound(c) \/ pc[c] = "found"
        BY <1>2, <2>2, <3>1, OwnStep
      <4>2. ~CreateSession(c)
        BY <4>1 DEF CreateSession, Fresh
      <4>3. ~RowFound(c)
        BY <1>0, <4>1 DEF RowFound, HasRow, Expired, TypeOK
      <4> QED
        BY <4>1, <4>2, <4>3 DEF CopyAround, CopyUnderWay
    <3>2. CASE d # c
      BY <1>2, <2>2, <3>2, OthersStay DEF CopyAround, CopyUnderWay
    <3> QED
      BY <3>1, <3>2
  <2> QED
    BY <2>1, <2>2 DEF CopyAround, CopyUnderWay
<1> QED
  BY <1>1, <1>2 DEF Next

\* A token whose Login is over either has its row or never gets any copy.
LEMMA FreshEnds ==
    ASSUME IndInv, Next, NEW t \in Tokens, Fresh(t), ~Fresh(t)', ~HasRow(t)'
    PROVE  ~CopyAround(t)'
<1>0. TypeOK /\ now \in Nat /\ issuedAt[t] \in Int
      /\ \A c \in Clients : Knows(c)
  <2>1. TypeOK /\ \A c \in Clients : Knows(c)
    BY Parts
  <2> QED
    BY <2>1, BoundsNat DEF TypeOK, Time
<1>1. ASSUME Tick
      PROVE  FALSE
  BY <1>1 DEF Tick, database, sessions, Fresh
<1>2. ASSUME NEW c \in Clients, Serve(c)
      PROVE  ~CopyAround(t)'
  <2>1. issuedAt[t] # Never
    <3>1. ASSUME NEW u \in Tokens, Login(c, u), issuedAt[t] = Never
          PROVE  FALSE
      <4>1. CASE u = t
        BY <1>0, <3>1, <4>1 DEF Login, Go, Fresh, TypeOK
      <4>2. CASE u # t
        BY <1>0, <3>1, <4>2 DEF Login, Fresh, TypeOK
      <4> QED
        BY <4>1, <4>2
    <3>2. UNCHANGED issuedAt => issuedAt[t] # Never
      BY DEF Fresh
    <3> QED
      BY <1>2, <3>1, <3>2 DEF Serve, CreateRequest, LoginRequest, CreateUser,
         EmailTaken, InvalidCredentials, CreateSession, CacheLogin,
         Authenticate, CacheHit, CacheMiss, NoRow, RowExpired, DeleteExpired,
         RowFound, WorkOutTTL, RefreshCache, DeleteSession, DropCopy,
         CallFails, database, sessions
  <2>2. PICK d \in Clients : token[d] = t /\ pc[d] = "save"
    BY <2>1 DEF Fresh
  <2>3. d = c
    BY <1>2, <2>2, OthersStay DEF Fresh
  <2>4. /\ began[c] <= now /\ now <= began[c] + MaxDelay /\ began[c] <= issuedAt[t]
        /\ cachedTill[t] = Never /\ \A e \in Clients \ {c} : token[e] # t
        /\ began[c] \in Nat
    BY <1>0, <2>2, <2>3 DEF Knows, TypeOK, Time
  <2>5. ~CreateSession(c)
    <3>1. ASSUME CreateSession(c)
          PROVE  HasRow(t)'
      <4>1. expiresAt'[t] = issuedAt[t] + Lifetime /\ now' = now
        BY <1>0, <2>2, <2>3, <3>1 DEF CreateSession, EndOfLife, TypeOK
      <4> QED
        BY <1>0, <2>4, <4>1, BoundsNat DEF HasRow
    <3> QED
      BY <3>1
  <2>6. Finish(c) /\ UNCHANGED cachedTill
    BY <1>2, <2>2, <2>3, <2>5, OwnStep
  <2>7. pc'[c] = "idle"
    BY <1>0, <2>6 DEF Finish, Leave, Go, TypeOK
  <2>8. ~CopyUnderWay(t)'
    BY <1>2, <2>4, <2>7, OthersStay DEF CopyUnderWay
  <2>9. ~(cachedTill'[t] > now')
    <3>1. now' \in Nat
      BY <1>0, <1>2, StoresTypeNext DEF StoresTypeOK, Time, Next
    <3> QED
      BY <2>4, <2>6, <3>1
  <2> QED
    BY <2>8, <2>9 DEF CopyAround
<1> QED
  BY <1>1, <1>2 DEF Next

\* A token goes on in its life, and never back.
LEMMA LifeGoesOn ==
    ASSUME IndInv, Next, NEW t \in Tokens
    PROVE  /\ Life(t)' \in TokenLives!Later(Life(t))
           /\ Life(t)' \in TokenLives!Lives
<1> USE LifeCases, LifeCasesNext DEF TokenLives!Later, TokenLives!Lives
<1>1. CASE Fresh(t)
  <2>1. Life(t) = "new"
    BY <1>1
  <2>2. Life(t)' \in {"new", "live", "over"}
    BY <1>1, FreshEnds
  <2> QED
    BY <2>1, <2>2
<1>2. CASE ~Fresh(t) /\ HasRow(t)
  <2>1. Life(t) = "live"
    BY <1>2
  <2>2. Life(t)' \in {"live", "fading", "over"}
    BY <1>2, NotFreshAgain
  <2> QED
    BY <2>1, <2>2
<1>3. CASE ~Fresh(t) /\ ~HasRow(t) /\ CopyAround(t)
  <2>1. Life(t) = "fading"
    BY <1>3
  <2>2. Life(t)' \in {"fading", "over"}
    BY <1>3, NotFreshAgain, NoNewRow
  <2> QED
    BY <2>1, <2>2
<1>4. CASE ~Fresh(t) /\ ~HasRow(t) /\ ~CopyAround(t)
  <2>1. Life(t) = "over"
    BY <1>4
  <2>2. Life(t)' = "over"
    BY <1>4, NotFreshAgain, NoNewRow, NoNewCopy
  <2> QED
    BY <2>1, <2>2
<1> QED
  BY <1>1, <1>2, <1>3, <1>4

\* Only the bearer of a live or fading token is let in.
LEMMA LetInAlive ==
    ASSUME IndInv, NEW c \in Clients, CacheHit(c) \/ RefreshCache(c)
    PROVE  token[c] \in Tokens /\ Life(token[c]) \in {"live", "fading"}
<1> DEFINE t == token[c]
<1>0. TypeOK /\ now \in Nat /\ \A d \in Clients : Knows(d)
  BY Parts DEF TypeOK, Time
<1>1. t \in Tokens /\ issuedAt[t] # Never
  BY <1>0 DEF CacheHit, RefreshCache, Knows
<1>2. CopyAround(t)
  BY DEF CacheHit, RefreshCache, Cached, CopyAround, CopyUnderWay
<1>3. \A d \in Clients : ~(token[d] = t /\ pc[d] = "save")
  <2> SUFFICES ASSUME NEW d \in Clients, token[d] = t, pc[d] = "save" PROVE FALSE
    OBVIOUS
  <2>1. d = c
    BY <1>0 DEF Knows
  <2> QED
    BY <2>1 DEF CacheHit, RefreshCache
<1>4. ~Fresh(t)
  BY <1>1, <1>3 DEF Fresh
<1> QED
  BY <1>1, <1>2, <1>4, LifeCases

\* Nobody is let in but by a copy or by a row that was found.
LEMMA OnlyTwoLetIn ==
    ASSUME Next
    PROVE  \/ accepted' = {}
           \/ \E c \in Clients : /\ CacheHit(c) \/ RefreshCache(c)
                                 /\ accepted' = {<<token[c], began[c]>>}
BY DEF Next, Serve, Tick, CreateRequest, LoginRequest, CreateUser, EmailTaken,
       Login, InvalidCredentials, CreateSession, CacheLogin, Authenticate,
       CacheHit, CacheMiss, NoRow, RowExpired, DeleteExpired, RowFound,
       WorkOutTTL, RefreshCache, DeleteSession, DropCopy, CallFails, Begin,
       Continue, Finish, Accept

\* For any times to live and any number of requests at once, a token that has
\* expired or been logged out, and of which no copy is left or on its way, is
\* never let in or revived.
THEOREM ImplementsTokenLifeHolds == Spec => ImplementsTokenLife
<1>1. ASSUME Init PROVE TokenLives!Init
  <2>1. \A t \in Tokens : Life(t) = "new"
    BY <1>1 DEF Init, Life
  <2> QED
    BY <1>1, <2>1 DEF Init, TokenLives!Init
<1>2. ASSUME IndInv, Next PROVE TokenLives!Next
  <2>1. /\ [t \in Tokens |-> Life(t)'] \in [Tokens -> TokenLives!Lives]
        /\ \A t \in Tokens : Life(t)' \in TokenLives!Later(Life(t))
    BY <1>2, LifeGoesOn
  <2>2. {a[1] : a \in accepted'} \subseteq
          {t \in Tokens : Life(t) \in {"live", "fading"}}
    <3>1. CASE accepted' = {}
      BY <3>1
    <3>2. ASSUME NEW c \in Clients, CacheHit(c) \/ RefreshCache(c),
                 accepted' = {<<token[c], began[c]>>}
          PROVE  {a[1] : a \in accepted'} \subseteq
                   {t \in Tokens : Life(t) \in {"live", "fading"}}
      BY <1>2, <3>2, LetInAlive
    <3> QED
      BY <1>2, <3>1, <3>2, OnlyTwoLetIn
  <2> QED
    BY <2>1, <2>2 DEF TokenLives!Next, TokenLives!Admissible
<1>3. ASSUME UNCHANGED vars PROVE UNCHANGED TokenLives!vars
  BY <1>3 DEF vars, database, sessions, TokenLives!vars, Life, HasRow,
              CopyUnderWay
<1> QED
  BY <1>1, <1>2, <1>3, SessionsIndInvHolds, PTL
     DEF Spec, ImplementsTokenLife, TokenLives!Spec

----------------------------------------------------------------------------
(* When a token stays out                                                  *)

\* Every authentication that works out the time to live of a copy has some of
\* the token's life left.
NoneLate == \A c \in Clients : pc[c] = "refresh" => ttl[c] > 0

\* No copy is kept for ever.
CopiesGo == \A t \in Tokens : cachedTill[t] # Forever

\* No authentication that has read the row of a token is on its way when the
\* token has been logged out.
NoneBehind ==
    \A c \in Clients : pc[c] = "refresh" => loggedOutAt[token[c]] = Never

\* A token outlives its life by less than its bearers may dawdle.
NotLongAfter == \A a \in accepted : a[2] < EndOfLife(a[1]) + MaxDelay

\* Every copy of a token goes once the logout has deleted its row.
CopiesGoOnLogout ==
    \A t \in Tokens : revokedAt[t] # Never =>
       cachedTill[t] <= revokedAt[t] + CacheTTL + MaxDelay

\* No copy is left of a token that was logged out, and nobody is let in by it.
OutIsOut ==
    /\ \A t \in Tokens : loggedOutAt[t] # Never => cachedTill[t] = Never
    /\ \A a \in accepted : loggedOutAt[a[1]] = Never

\* A copy is made by a login or by an authentication, and dropped by a logout.
LEMMA CopiesChange ==
    ASSUME [Next]_vars
    PROVE  \/ UNCHANGED <<loggedOutAt, cachedTill>>
           \/ \E c \in Clients : CacheLogin(c) \/ RefreshCache(c) \/ DropCopy(c)
BY DEF Next, Serve, Tick, CreateRequest, LoginRequest, CreateUser, EmailTaken,
       Login, InvalidCredentials, CreateSession, Authenticate, CacheHit,
       CacheMiss, NoRow, RowExpired, DeleteExpired, RowFound, WorkOutTTL,
       DeleteSession, CallFails, database, sessions, vars

\* A time that a copy ends at is not that of one that is kept for ever.
LEMMA DropsInTime ==
    ASSUME TypeOK, NEW life \in 1 .. CacheTTL
    PROVE  DropTime(life) # Forever /\ DropTime(life) # Never
<1>1. now \in 0 .. MaxTime
  BY DEF TypeOK, Time
<1> QED
  BY <1>1, BoundsNat DEF DropTime, Forever

\* While nobody is late no copy is kept for ever,
LEMMA CopiesGoNext == IndInv /\ CopiesGo /\ NoneLate /\ [Next]_vars => CopiesGo'
<1> SUFFICES ASSUME IndInv, CopiesGo, NoneLate, [Next]_vars, NEW t \in Tokens
             PROVE  cachedTill'[t] # Forever
  BY DEF CopiesGo, Forever
<1>0. TypeOK /\ cachedTill[t] # Forever /\ Forever # Never
  BY BoundsNat DEF IndInv, CopiesGo, Forever
<1>1. ASSUME NEW c \in Clients, CacheLogin(c)
      PROVE  cachedTill'[t] # Forever
  <2>1. DropTime(CacheTTL) # Forever
    BY <1>0, BoundsNat, DropsInTime
  <2> QED
    BY <1>0, <1>1, <2>1 DEF CacheLogin, TypeOK
<1>2. ASSUME NEW c \in Clients, RefreshCache(c)
      PROVE  cachedTill'[t] # Forever
  <2>1. ttl[c] \in 1 .. CacheTTL
    BY <1>0, <1>2, BoundsNat DEF RefreshCache, NoneLate, TypeOK
  <2>2. DropTime(ttl[c]) # Forever
    BY <1>0, <2>1, DropsInTime
  <2> QED
    BY <1>0, <1>2, <2>2 DEF RefreshCache, TypeOK
<1>3. ASSUME NEW c \in Clients, DropCopy(c)
      PROVE  cachedTill'[t] # Forever
  BY <1>0, <1>3 DEF DropCopy, TypeOK
<1> QED
  BY <1>0, <1>1, <1>2, <1>3, CopiesChange

\* and nobody is let in by a copy of a token that is over.
LEMMA LetInInTime ==
    IndInv /\ CopiesGo /\ NoneLate /\ NotLongAfter /\ [Next]_vars => NotLongAfter'
<1> SUFFICES ASSUME IndInv, CopiesGo, NoneLate, NotLongAfter, [Next]_vars
             PROVE  NotLongAfter'
  OBVIOUS
<1>0. TypeOK /\ now \in Nat /\ \A c \in Clients : Knows(c)
  BY Parts DEF TypeOK, Time
<1>1. ASSUME NEW c \in Clients, CacheHit(c) \/ RefreshCache(c),
             accepted' = {<<token[c], began[c]>>}
      PROVE  NotLongAfter'
  <2> DEFINE t == token[c]
  <2>1. /\ t \in Tokens /\ issuedAt' = issuedAt
        /\ began[c] \in Nat /\ began[c] <= now
    BY <1>0, <1>1
       DEF Knows, CacheHit, RefreshCache, database, sessions, TypeOK, Time
  <2>2. issuedAt[t] \in Int /\ cachedTill[t] \in Int /\ EndOfLife(t) \in Int
    BY <1>0, <2>1, BoundsNat DEF TypeOK, Time, Forever, EndOfLife
  <2>3. CASE CacheHit(c)
    <3>1. cachedTill[t] > now
      BY <2>3 DEF CacheHit, Cached
    <3>2. ~(cachedTill[t] > EndOfLife(t) + MaxDelay)
      BY <2>1 DEF IndInv, CopiesDieWithTokens, CopiesGo
    <3> QED
      BY <1>0, <1>1, <2>1, <2>2, <3>1, <3>2 DEF NotLongAfter, EndOfLife
  <2>4. CASE RefreshCache(c)
    <3>1. began[c] + ttl[c] <= EndOfLife(t) /\ ttl[c] \in Int /\ ttl[c] > 0
      BY <1>0, <2>4, BoundsNat DEF RefreshCache, Knows, NoneLate, TypeOK
    <3> QED
      BY <1>1, <2>1, <2>2, <3>1 DEF NotLongAfter, EndOfLife
  <2> QED
    BY <1>1, <2>3, <2>4
<1>2. CASE accepted' = {}
  BY <1>2 DEF NotLongAfter
<1>3. CASE UNCHANGED vars
  BY <1>3 DEF vars, database, sessions, NotLongAfter, EndOfLife
<1> QED
  BY <1>1, <1>2, <1>3, OnlyTwoLetIn

\* A token is accepted MaxDelay or more after its life only if an
\* authentication has worked out a time to live of 0 or less for a copy.  What
\* is left are the copies that arrive late: they let a token outlive its 24
\* hours, but by less than the one request that set them took.
THEOREM TokensExpireUnlessLate == Spec => ([]NoneLate => []NotLongAfter)
<1>1. Init => CopiesGo /\ NotLongAfter
  BY BoundsNat DEF Init, CopiesGo, NotLongAfter, Forever
<1> QED
  BY <1>1, CopiesGoNext, LetInInTime, SessionsIndInvHolds, PTL DEF Spec

\* Unless an authentication has worked out such a time to live, a logout leaves
\* no copy that is not dropped: from the moment the row was deleted, whether or
\* not the rest of the logout succeeded, all go within CacheTTL and MaxDelay.
THEOREM LogoutTakesEffectUnlessLate == Spec => ([]NoneLate => []CopiesGoOnLogout)
<1>1. Init => CopiesGo
  BY BoundsNat DEF Init, CopiesGo, Forever
<1>2. IndInv /\ CopiesGo => CopiesGoOnLogout
  BY DEF IndInv, CopiesGo, LogoutTakesEffect, CopiesGoOnLogout
<1> QED
  BY <1>1, <1>2, CopiesGoNext, SessionsIndInvHolds, PTL DEF Spec

\* Without an authentication behind its back a logout leaves nothing to be let
\* in by.
LEMMA OutNext == IndInv /\ OutIsOut /\ NoneBehind /\ [Next]_vars => OutIsOut'
<1> SUFFICES ASSUME IndInv, OutIsOut, NoneBehind, [Next]_vars PROVE OutIsOut'
  OBVIOUS
<1>0. /\ TypeOK /\ now \in Nat /\ \A c \in Clients : Knows(c)
      /\ \A t \in Tokens : loggedOutAt[t] # Never => revokedAt[t] # Never
  BY Parts DEF TypeOK, Time, Held
<1>1. ASSUME NEW t \in Tokens, loggedOutAt'[t] # Never
      PROVE  cachedTill'[t] = Never
  <2>1. ASSUME NEW c \in Clients, CacheLogin(c) \/ RefreshCache(c)
        PROVE  cachedTill'[t] = Never
    <3>1. loggedOutAt[t] # Never
      BY <1>1, <2>1 DEF CacheLogin, RefreshCache, database, sessions
    <3>2. token[c] # t
      BY <1>0, <2>1, <3>1 DEF CacheLogin, RefreshCache, Knows, NoneBehind
    <3> QED
      BY <1>0, <2>1, <3>1, <3>2 DEF CacheLogin, RefreshCache, OutIsOut, TypeOK
  <2>2. ASSUME NEW c \in Clients, DropCopy(c)
        PROVE  cachedTill'[t] = Never
    BY <1>0, <1>1, <2>2 DEF DropCopy, OutIsOut, TypeOK
  <2> QED
    BY <1>1, <2>1, <2>2, CopiesChange DEF OutIsOut
<1>2. ASSUME NEW a \in accepted' PROVE loggedOutAt'[a[1]] = Never
  <2>1. ASSUME NEW c \in Clients, CacheHit(c) \/ RefreshCache(c),
               accepted' = {<<token[c], began[c]>>}
        PROVE  loggedOutAt'[a[1]] = Never
    <3>1. a[1] = token[c] /\ token[c] \in Tokens /\ UNCHANGED loggedOutAt
      BY <1>0, <1>2, <2>1 DEF Knows, CacheHit, RefreshCache, database, sessions
    <3>2. CacheHit(c) => cachedTill[token[c]] # Never
      BY <1>0 DEF CacheHit, Cached
    <3> QED
      BY <2>1, <3>1, <3>2 DEF OutIsOut, NoneBehind, RefreshCache
  <2>2. CASE UNCHANGED vars
    BY <1>2, <2>2 DEF vars, database, sessions, OutIsOut
  <2> QED
    BY <1>2, <2>1, <2>2, OnlyTwoLetIn
<1> QED
  BY <1>1, <1>2 DEF OutIsOut

\* A token is accepted after its logout only if an authentication that had read
\* its row before the logout deleted it was still to set the copy.
THEOREM LoggedOutUnlessBehind == Spec => ([]NoneBehind => []LoggedOutStaysOut)
<1>1. Init => OutIsOut
  BY DEF Init, OutIsOut
<1>2. OutIsOut => LoggedOutStaysOut
  BY DEF OutIsOut, LoggedOutStaysOut
<1> QED
  BY <1>1, <1>2, OutNext, SessionsIndInvHolds, PTL DEF Spec
===============================================================================
