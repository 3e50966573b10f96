---------------------------- MODULE AccessProofs ----------------------------
(***************************************************************************)
(* Proofs about accounts, tokens and the rate limiter, for any accounts,   *)
(* keys, limits and life times, and for a clock that runs as far as it     *)
(* likes.                                                                  *)
(***************************************************************************)
EXTENDS Access, FiniteSetTheorems, TLAPS

-----------------------------------------------------------------------------
(* The clock.                                                              *)

\* The clock stays a number.
LEMMA NowStep == now \in Nat /\ [AccessNext]_accessVars => now' \in Nat
BY DEF AccessNext, accessVars, Tick

\* A full second is at most a second in the past, and no later moment has an
\* earlier one.
LEMMA UnixBounds ==
  ASSUME NEW t \in Nat
  PROVE  /\ Unix(t) \in Nat
         /\ Unix(t) <= t
         /\ t < Unix(t) + Second
         /\ Unix(t) % Second = 0
<1>1. Second \in Nat /\ Second > 0
  BY ClockAssumption
<1>2. /\ t \div Second \in Int
      /\ t = Second * (t \div Second) + (t % Second)
      /\ t % Second \in 0..(Second - 1)
  BY <1>1
<1> DEFINE q == t \div Second
           x == Second * q
<1>3. q \in Nat /\ x \in Nat /\ Unix(t) = x /\ x <= t /\ t < x + Second
  BY <1>1, <1>2 DEF Unix
<1>4. x % Second = 0
  <2> HIDE DEF x, q
  <2>1. /\ x \div Second \in Int
        /\ x = Second * (x \div Second) + (x % Second)
        /\ x % Second \in 0..(Second - 1)
    BY <1>1, <1>3
  <2> DEFINE d == q - x \div Second
  <2>2. d \in Int /\ Second * d = x % Second
    <3>1. x = Second * q
      BY DEF x
    <3>2. QED
      BY <1>1, <1>3, <2>1, <3>1
  <2> HIDE DEF d
  <2>3. CASE d >= 1
    BY <1>1, <2>1, <2>2, <2>3
  <2>4. CASE d <= -1
    BY <1>1, <2>1, <2>2, <2>4, SMTT(30)
  <2>5. CASE d = 0
    BY <1>1, <2>2, <2>5
  <2>6. QED
    BY <2>2, <2>3, <2>4, <2>5
<1> QED
  BY <1>3, <1>4

LEMMA UnixMonotone ==
  ASSUME NEW t \in Nat, NEW u \in Nat, t <= u
  PROVE  Unix(t) <= Unix(u)
<1>1. Second \in Nat /\ Second > 0
  BY ClockAssumption
<1>2. t \div Second <= u \div Second
  BY <1>1
<1> QED
  BY <1>1, <1>2 DEF Unix

-----------------------------------------------------------------------------
(* Accounts.                                                               *)

\* A row of the table is there because it was inserted, and RegistrationHolds
\* finds every inserted row in the table: with the types it is inductive.
AccountsInv ==
  /\ users \in [Usernames -> Rows \cup {NoAccount}]
  /\ registers \in [Registrars -> Rows \cup {NoAccount}]
  /\ inserted \in SUBSET Rows
  /\ RegistrationHolds

LEMMA AccountsInit == SessionsInit => AccountsInv
BY DEF SessionsInit, AccountsInv, RegistrationHolds

\* Only the insert writes the table, and its constraints keep the rows apart.
LEMMA AccountsStep == AccountsInv /\ [AccessNext]_accessVars => AccountsInv'
<1> SUFFICES ASSUME AccountsInv, [AccessNext]_accessVars
             PROVE  AccountsInv'
  OBVIOUS
<1> USE NoAccountAssumption DEF AccountsInv, RegistrationHolds, Rows
<1>1. ASSUME NEW r \in Registrars, NEW row \in Rows, BeginRegister(r, row)
      PROVE  AccountsInv'
  BY <1>1 DEF BeginRegister
<1>2. ASSUME NEW r \in Registrars, InsertUser(r)
      PROVE  AccountsInv'
  <2> DEFINE row == registers[r]
  <2>1. /\ row \in Rows
        /\ users' = [users EXCEPT ![row.username] = row]
        /\ registers' = [registers EXCEPT ![r] = NoAccount]
        /\ inserted' = inserted \cup {row}
    BY <1>2 DEF InsertUser
  <2>2. /\ users[row.username] = NoAccount
        /\ \A n \in Usernames : users[n] # NoAccount => users[n].email # row.email
    BY <1>2 DEF InsertUser, Unique
  <2>3. \A a \in inserted : a.username \in Usernames /\ users[a.username] # NoAccount
    OBVIOUS
  <2>4. RegistrationHolds'
    BY <2>1, <2>2, <2>3
  <2>5. QED
    BY <2>1, <2>4
<1>3. ASSUME NEW r \in Registrars, RejectUser(r)
      PROVE  AccountsInv'
  BY <1>3 DEF RejectUser
<1>4. CASE UNCHANGED <<users, registers, inserted>>
  BY <1>4
<1>5. QED
  BY <1>1, <1>2, <1>3, <1>4
     DEF AccessNext, accessVars, sessionVars, SessionsNext, Login, Refresh,
         IssueTokens, Discard

\* Whatever registrations race, are repeated or lose their answers, an account
\* belongs for good to the one request whose row was inserted.
THEOREM RegistrationAlwaysHolds == AccessSpec => []RegistrationHolds
<1>1. AccountsInv => RegistrationHolds
  BY DEF AccountsInv
<1>2. AccessInit => AccountsInv
  BY AccountsInit DEF AccessInit
<1>3. QED
  BY <1>1, <1>2, AccountsStep, PTL DEF AccessSpec

-----------------------------------------------------------------------------
(* Tokens.                                                                 *)

\* A token is what generateTokenPair made of the moment of its issue.
TokenHonest(token) ==
  /\ token.type \in {"access", "refresh"}
  /\ token.sub \in Usernames
  /\ token.issued \in Nat
  /\ token.issued <= now
  /\ token.ttl = IF token.type = "access" THEN AccessTTL ELSE RefreshTTL
  /\ token.exp = Unix(token.issued + token.ttl)

TokensInv == now \in Nat /\ \A token \in tokens : TokenHonest(token)

LEMMA TokensInit == AccessInit => TokensInv
BY DEF AccessInit, SessionsInit, TokensInv

\* A login and a refresh add honest tokens of this moment; time keeps the others
\* honest.
LEMMA TokensStep == TokensInv /\ [AccessNext]_accessVars => TokensInv'
<1> SUFFICES ASSUME TokensInv, [AccessNext]_accessVars
             PROVE  TokensInv'
  OBVIOUS
<1>1. now' \in Nat /\ now <= now'
  BY DEF TokensInv, AccessNext, accessVars, Tick
<1>2. \A token \in tokens : TokenHonest(token)'
  BY <1>1 DEF TokensInv, TokenHonest
<1>3. ASSUME NEW n \in Usernames, IssueTokens(n), now' = now
      PROVE  TokensInv'
  <2>1. \A token \in TokenPair(n) : TokenHonest(token)'
    BY <1>3 DEF TokensInv, TokenHonest, TokenPair
  <2>2. QED
    BY <1>1, <1>2, <1>3, <2>1 DEF TokensInv, IssueTokens
<1>4. CASE tokens' \subseteq tokens
  BY <1>1, <1>2, <1>4 DEF TokensInv
<1>5. ASSUME NEW token \in tokens, Refresh(token), now' = now
      PROVE  TokensInv'
  BY <1>3, <1>5 DEF TokensInv, TokenHonest, Refresh
<1>6. QED
  BY <1>3, <1>4, <1>5
     DEF AccessNext, accessVars, sessionVars, SessionsNext, BeginRegister,
         InsertUser, RejectUser, Login, Discard

\* What the claims promise follows from how exp is rounded.
LEMMA HonestTokensLast == TokensInv => TokensLastAsPromised
<1> SUFFICES ASSUME TokensInv
             PROVE  TokensLastAsPromised
  OBVIOUS
<1>1. AccessTTL \in Nat /\ RefreshTTL \in Nat
  BY SessionsAssumption
<1>2. Second \in Nat /\ Second > 0
  BY ClockAssumption
<1>3. ExpiresIn * Second \in Nat /\ ExpiresIn * Second <= AccessTTL
  BY <1>1, UnixBounds DEF ExpiresIn, Unix
<1> SUFFICES ASSUME NEW token \in tokens
             PROVE  /\ Valid(token) => now < token.issued + token.ttl
                    /\ token.type = "access"
                         /\ now + Second <= token.issued + ExpiresIn * Second
                         => Valid(token)
                    /\ token.type = "access" /\ Valid(token) =>
                         \A other \in tokens :
                           /\ other.type = "refresh"
                           /\ other.sub = token.sub
                           /\ other.issued = token.issued
                           /\ token.ttl <= other.ttl
                           => Valid(other)
  BY DEF TokensLastAsPromised
<1>4. now \in Nat /\ TokenHonest(token)
  BY DEF TokensInv
<1>5. token.issued + token.ttl \in Nat
  BY <1>1, <1>4 DEF TokenHonest
<1>6. /\ token.exp \in Nat
      /\ token.exp <= token.issued + token.ttl
      /\ token.issued + token.ttl < token.exp + Second
  BY <1>4, <1>5, UnixBounds DEF TokenHonest
<1>7. Valid(token) => now < token.issued + token.ttl
  BY <1>4, <1>5, <1>6 DEF Valid
<1>8. ASSUME token.type = "access",
             now + Second <= token.issued + ExpiresIn * Second
      PROVE  Valid(token)
  BY <1>1, <1>2, <1>3, <1>4, <1>6, <1>8 DEF Valid, TokenHonest
<1>9. ASSUME token.type = "access", Valid(token), NEW other \in tokens,
             other.type = "refresh", other.issued = token.issued,
             token.ttl <= other.ttl
      PROVE  Valid(other)
  <2>1. /\ AccessTTL <= RefreshTTL
        /\ other.exp = Unix(token.issued + RefreshTTL)
        /\ token.exp = Unix(token.issued + AccessTTL)
        /\ token.issued \in Nat
    BY <1>4, <1>9 DEF TokensInv, TokenHonest
  <2>2. token.exp <= other.exp /\ token.exp \in Nat /\ other.exp \in Nat
    BY <1>1, <2>1, UnixMonotone, UnixBounds
  <2>3. QED
    BY <1>4, <1>9, <2>2 DEF Valid
<1>10. QED
  BY <1>7, <1>8, <1>9

\* A client that trusts expires_in up to a second is never refused, and no token
\* outlives its promise.
THEOREM TokensAlwaysLast == AccessSpec => []TokensLastAsPromised
BY TokensInit, TokensStep, HonestTokensLast, PTL DEF AccessSpec

-----------------------------------------------------------------------------
(* Types of accounts and tokens.                                           *)

\* A token pair is well typed and expires at a full second.
LEMMA TokenPairType ==
  ASSUME NEW n \in Usernames, now \in Times
  PROVE  TokenPair(n) \subseteq Tokens /\ \A t \in TokenPair(n) : t.exp % Second = 0
<1>1. now \in Nat /\ now + AccessTTL \in Nat /\ now + RefreshTTL \in Nat
  BY ClockAssumption, SessionsAssumption DEF Times
<1>2. /\ Unix(now + AccessTTL) \in Nat /\ Unix(now + AccessTTL) % Second = 0
      /\ Unix(now + RefreshTTL) \in Nat /\ Unix(now + RefreshTTL) % Second = 0
  BY <1>1, UnixBounds
<1>3. QED
  BY <1>2 DEF TokenPair, Tokens

\* Accounts, requests and tokens keep their types, and exp loses its fraction.
THEOREM SessionsTypeCorrect == AccessSpec => []SessionsTypeOK
<1> DEFINE Inv == now \in Times /\ SessionsTypeOK
<1>1. AccessInit => Inv
  BY ClockAssumption DEF AccessInit, SessionsInit, SessionsTypeOK, Times
<1>2. Inv /\ [AccessNext]_accessVars => Inv'
  <2> SUFFICES ASSUME Inv, [AccessNext]_accessVars
               PROVE  Inv'
    OBVIOUS
  <2> USE DEF SessionsTypeOK
  <2>1. now' \in Times
    BY ClockAssumption DEF Times, AccessNext, accessVars, Tick
  <2>2. ASSUME NEW r \in Registrars, NEW row \in Rows, BeginRegister(r, row)
        PROVE  Inv'
    BY <2>1, <2>2 DEF BeginRegister
  <2>3. ASSUME NEW r \in Registrars, InsertUser(r)
        PROVE  Inv'
    <3>1. registers[r] \in Rows
      BY <2>3 DEF InsertUser
    <3>2. QED
      BY <2>1, <2>3, <3>1 DEF InsertUser
  <2>4. ASSUME NEW r \in Registrars, RejectUser(r)
        PROVE  Inv'
    BY <2>1, <2>4 DEF RejectUser
  <2>5. ASSUME NEW n \in Usernames, IssueTokens(n)
        PROVE  Inv'
    BY <2>1, <2>5, TokenPairType DEF IssueTokens
  <2>6. ASSUME NEW token \in tokens, Refresh(token)
        PROVE  Inv'
    BY <2>5, <2>6 DEF Refresh, Tokens
  <2>7. ASSUME NEW token \in tokens, Discard(token)
        PROVE  Inv'
    BY <2>1, <2>7 DEF Discard
  <2>8. CASE UNCHANGED sessionVars
    BY <2>1, <2>8 DEF sessionVars
  <2>9. QED
    BY <2>2, <2>3, <2>4, <2>5, <2>6, <2>7, <2>8
       DEF AccessNext, accessVars, SessionsNext, Login
<1>3. Inv => SessionsTypeOK
  OBVIOUS
<1> HIDE DEF Inv
<1>4. QED
  BY <1>1, <1>2, <1>3, PTL DEF AccessSpec

-----------------------------------------------------------------------------
(* The rate limiter.                                                       *)

\* The remembered requests of the window of k, and those of windows before.
Current(k) == {a \in recent[k] : windows[k].resetAt <= a.at + Interval}
Earlier(k) == recent[k] \ Current(k)

\* Requests within the last Interval, none of them later than their window.
RecentTimes(k) ==
  \A a \in recent[k] : /\ a.at <= now
                       /\ now <= a.at + Interval
                       /\ a.at <= windows[k].resetAt

\* A window in force counts its own requests, the one that opened it among them;
\* of the windows before, less than one capacity is remembered.
WindowCounts(k) ==
  /\ windows[k].count >= 1
  /\ windows[k].resetAt <= now + Interval
  /\ Cardinality(Current(k)) = windows[k].count
  /\ \A a \in Current(k) : a.no <= windows[k].count
  /\ \E a \in Current(k) : a.at + Interval = windows[k].resetAt
  /\ Cardinality(Earlier(k)) < Capacity

\* INDUCTIVE.  NeverTwiceTheLimit speaks of two windows at once and needs to know
\* how much of the earlier one is left: the request that opened it is forgotten
\* as soon as it has passed, so less than its capacity.
KeyInv(k) ==
  /\ IsFiniteSet(recent[k])
  /\ RecentTimes(k)
  /\ ~ windows[k].open => recent[k] = {}
  /\ windows[k].open => IF now > windows[k].resetAt
                           THEN Cardinality(recent[k]) < Capacity
                           ELSE WindowCounts(k)

LimiterInv == now \in Nat /\ RateLimiterTypeOK /\ \A k \in Keys : KeyInv(k)

LEMMA CapacityPositive == /\ Limit \in Nat
                          /\ Interval \in Nat
                          /\ Capacity \in Nat
                          /\ Capacity >= 1
                          /\ Limit <= Capacity
                          /\ Limit > 0 => Capacity = Limit
BY RateLimiterAssumption DEF Capacity

LEMMA LimiterInit == AccessInit => LimiterInv
BY CapacityPositive, FS_EmptySet
   DEF AccessInit, RateLimiterInit, LimiterInv, RateLimiterTypeOK, KeyInv,
       RecentTimes, NoWindow

\* The first request after a window: what is remembered of that window is older
\* than this moment and becomes the earlier part.
LEMMA OpenWindowInv ==
  ASSUME LimiterInv, NEW k \in Keys, OpenWindow(k), now' = now
  PROVE  LimiterInv'
<1> DEFINE new == [at |-> now, no |-> 1]
<1> USE CapacityPositive DEF LimiterInv, RateLimiterTypeOK
<1>1. /\ recent' = [recent EXCEPT ![k] = @ \cup {new}]
      /\ windows' = [windows EXCEPT
           ![k] = [count |-> 1, open |-> TRUE, resetAt |-> now + Interval]]
  BY DEF OpenWindow, Admit
<1>2. \A a \in recent[k] : a.at < now /\ a.at \in Nat
  BY DEF OpenWindow, WindowPassed, KeyInv, RecentTimes
<1>3. IsFiniteSet(recent[k]) /\ Cardinality(recent[k]) < Capacity
  BY FS_EmptySet DEF OpenWindow, WindowPassed, KeyInv
<1>4. RateLimiterTypeOK'
  BY <1>1
<1>5. KeyInv(k)'
  <2>1. recent'[k] = recent[k] \cup {new} /\ windows'[k].resetAt = now + Interval
        /\ windows'[k].open /\ windows'[k].count = 1
    BY <1>1
  <2>2. Current(k)' = {new}
    BY <1>2, <2>1 DEF Current
  <2>3. Earlier(k)' = recent[k]
    BY <1>2, <2>1, <2>2 DEF Earlier
  <2>4. RecentTimes(k)'
    BY <1>2, <2>1 DEF RecentTimes, KeyInv
  <2>5. IsFiniteSet(recent'[k])
    <3>1. IsFiniteSet(recent[k] \cup {new})
      BY <1>3, FS_AddElement, Zenon
    <3>2. QED
      BY <2>1, <3>1
  <2>6. WindowCounts(k)'
    <3>1. Cardinality(Current(k)') = 1
      BY <2>2, FS_Singleton, Zenon
    <3>2. QED
      BY <1>3, <2>1, <2>2, <2>3, <3>1 DEF WindowCounts
  <2>7. QED
    BY <2>1, <2>4, <2>5, <2>6 DEF KeyInv
<1>6. ASSUME NEW j \in Keys, j # k
      PROVE  KeyInv(j)'
  BY <1>1, <1>6 DEF KeyInv, RecentTimes, WindowCounts, Current, Earlier
<1>7. QED
  BY <1>4, <1>5, <1>6

\* A further request of a window in force below the limit.
LEMMA CountRequestInv ==
  ASSUME LimiterInv, NEW k \in Keys, CountRequest(k), now' = now
  PROVE  LimiterInv'
<1> DEFINE new == [at |-> now, no |-> windows[k].count + 1]
<1> USE CapacityPositive DEF LimiterInv, RateLimiterTypeOK
<1>1. /\ recent' = [recent EXCEPT ![k] = @ \cup {new}]
      /\ windows' = [windows EXCEPT ![k].count = @ + 1]
  BY DEF CountRequest, Admit
<1>2. /\ windows[k].open
      /\ ~ now > windows[k].resetAt
      /\ windows[k].count < Limit
      /\ windows[k] \in [count : 0..Capacity, open : BOOLEAN, resetAt : Nat]
  BY DEF CountRequest, WindowPassed, Refused
<1>3. WindowCounts(k) /\ RecentTimes(k) /\ IsFiniteSet(recent[k])
  BY <1>2 DEF KeyInv
<1>4. \A a \in recent[k] : a.at \in Nat /\ a.no \in Nat
  OBVIOUS
<1>5. RateLimiterTypeOK'
  BY <1>1, <1>2
<1>6. KeyInv(k)'
  <2>1. /\ recent'[k] = recent[k] \cup {new}
        /\ windows'[k] = [windows[k] EXCEPT !.count = @ + 1]
    BY <1>1
  <2>2. Current(k)' = Current(k) \cup {new}
    BY <1>2, <1>3, <2>1 DEF Current, WindowCounts
  <2>3. new \notin recent[k]
    BY <1>2, <1>3, <1>4 DEF WindowCounts, RecentTimes, Current
  <2>4. Earlier(k)' = Earlier(k)
    BY <2>1, <2>2, <2>3 DEF Earlier
  <2>5. RecentTimes(k)'
    BY <1>2, <1>3, <2>1 DEF RecentTimes
  <2>6. IsFiniteSet(recent'[k])
    <3>1. IsFiniteSet(recent[k] \cup {new})
      BY <1>3, FS_AddElement, Zenon
    <3>2. QED
      BY <2>1, <3>1
  <2>7. Cardinality(Current(k)') = windows[k].count + 1
    <3>1. IsFiniteSet(Current(k)) /\ new \notin Current(k)
      BY <1>3, <2>3, FS_Subset DEF Current
    <3>2. Cardinality(Current(k) \cup {new}) = Cardinality(Current(k)) + 1
      BY <3>1, FS_AddElement, Zenon
    <3>3. QED
      BY <1>3, <2>2, <3>2 DEF WindowCounts
  <2>8. \A a \in Current(k)' : a.no <= windows[k].count + 1
    BY <1>2, <1>3, <1>4, <2>2 DEF WindowCounts, Current
  <2>9. WindowCounts(k)'
    BY <1>2, <1>3, <2>1, <2>2, <2>4, <2>7, <2>8 DEF WindowCounts
  <2>10. QED
    BY <1>2, <2>1, <2>5, <2>6, <2>9 DEF KeyInv
<1>7. ASSUME NEW j \in Keys, j # k
      PROVE  KeyInv(j)'
  BY <1>1, <1>7 DEF KeyInv, RecentTimes, WindowCounts, Current, Earlier
<1>8. QED
  BY <1>5, <1>6, <1>7

\* Time passes.  At the end of a window the request that opened it is forgotten.
LEMMA AgeInv ==
  ASSUME LimiterInv, Tick, Age, UNCHANGED windows
  PROVE  LimiterInv'
<1> USE CapacityPositive DEF LimiterInv, RateLimiterTypeOK
<1>1. now' = now + 1 /\ now' \in Nat
  BY DEF Tick
<1>2. RateLimiterTypeOK'
  BY DEF Age
<1>3. ASSUME NEW k \in Keys
      PROVE  KeyInv(k)'
  <2>1. /\ recent'[k] = {a \in recent[k] : now < a.at + Interval}
        /\ windows'[k] = windows[k]
    BY DEF Age
  <2>2. KeyInv(k)
    OBVIOUS
  <2>3. /\ IsFiniteSet(recent[k]) /\ IsFiniteSet(recent'[k])
        /\ Cardinality(recent[k]) \in Nat
        /\ Cardinality(recent'[k]) \in Nat
        /\ Cardinality(recent'[k]) <= Cardinality(recent[k])
        /\ Cardinality(recent'[k]) = Cardinality(recent[k]) => recent'[k] = recent[k]
    <3>1. recent'[k] \in SUBSET recent[k] /\ IsFiniteSet(recent[k])
      BY <2>1, <2>2 DEF KeyInv
    <3>2. QED
      BY <3>1, FS_Subset, FS_CardinalityType
  <2>4. RecentTimes(k)'
    BY <1>1, <2>1, <2>2 DEF RecentTimes, KeyInv
  <2>5. CASE ~ windows[k].open
    BY <2>1, <2>2, <2>3, <2>4, <2>5 DEF KeyInv
  <2>6. CASE windows[k].open /\ now > windows[k].resetAt
    BY <1>1, <2>1, <2>2, <2>3, <2>4, <2>6 DEF KeyInv
  <2>7. CASE windows[k].open /\ now = windows[k].resetAt
    <3>1. Current(k) = recent[k] /\ WindowCounts(k)
      BY <2>2, <2>7 DEF KeyInv, RecentTimes, Current
    <3>2. recent'[k] # recent[k]
      BY <2>1, <2>7, <3>1 DEF WindowCounts
    <3>3. Cardinality(recent[k]) <= Capacity
      BY <3>1 DEF WindowCounts
    <3>4. QED
      BY <1>1, <2>1, <2>3, <2>4, <2>7, <3>2, <3>3 DEF KeyInv
  <2>8. CASE windows[k].open /\ now < windows[k].resetAt
    <3>1. WindowCounts(k)
      BY <2>2, <2>8 DEF KeyInv
    <3>2. Current(k)' = Current(k)
      BY <2>1, <2>8 DEF Current
    <3>3. Earlier(k)' \in SUBSET Earlier(k)
      BY <2>1, <3>2 DEF Earlier
    <3>4. IsFiniteSet(Earlier(k))
      BY <2>3, FS_Subset DEF Earlier
    <3>5. /\ Cardinality(Earlier(k)') <= Cardinality(Earlier(k))
          /\ Cardinality(Earlier(k)') \in Nat
          /\ Cardinality(Earlier(k)) \in Nat
      BY <3>3, <3>4, FS_Subset, FS_CardinalityType
    <3>6. WindowCounts(k)'
      BY <1>1, <2>1, <3>1, <3>2, <3>5 DEF WindowCounts
    <3>7. QED
      BY <1>1, <2>1, <2>3, <2>4, <2>8, <3>6 DEF KeyInv
  <2>9. QED
    BY <2>5, <2>6, <2>7, <2>8
<1>4. QED
  BY <1>1, <1>2, <1>3

LEMMA LimiterStep == LimiterInv /\ [AccessNext]_accessVars => LimiterInv'
<1> SUFFICES ASSUME LimiterInv, [AccessNext]_accessVars
             PROVE  LimiterInv'
  OBVIOUS
<1>1. CASE UNCHANGED <<now, windows, recent>>
  BY <1>1 DEF LimiterInv, RateLimiterTypeOK, KeyInv, RecentTimes, WindowCounts,
     Current, Earlier
<1>2. ASSUME NEW k \in Keys, Allow(k), now' = now
      PROVE  LimiterInv'
  BY <1>2, OpenWindowInv, CountRequestInv DEF Allow
<1>3. QED
  BY <1>1, <1>2, AgeInv DEF AccessNext, accessVars, limiterVars

LEMMA AlwaysLimiterInv == AccessSpec => []LimiterInv
BY LimiterInit, LimiterStep, PTL DEF AccessSpec

\* The windows keep their types: no count passes the capacity.
THEOREM RateLimiterTypeCorrect == AccessSpec => []RateLimiterTypeOK
<1>1. LimiterInv => RateLimiterTypeOK
  BY DEF LimiterInv
<1>2. QED
  BY <1>1, AlwaysLimiterInv, PTL

\* What is remembered of a key consists of the window in force and the rest of
\* the one before, and both are at most the capacity, the rest less.
THEOREM AlwaysBelowTwiceTheLimit == AccessSpec => []NeverTwiceTheLimit
<1>1. LimiterInv => NeverTwiceTheLimit
  <2> SUFFICES ASSUME LimiterInv, NEW k \in Keys
               PROVE  Admitted(k) < 2 * Capacity
    BY DEF NeverTwiceTheLimit
  <2> USE CapacityPositive
  <2>1. KeyInv(k) /\ IsFiniteSet(recent[k]) /\ windows[k].count \in 0..Capacity
    BY DEF LimiterInv, KeyInv, RateLimiterTypeOK
  <2>2. CASE windows[k].open /\ ~ now > windows[k].resetAt
    <3>1. /\ IsFiniteSet(Current(k)) /\ IsFiniteSet(Earlier(k))
          /\ Current(k) \cap Earlier(k) = {}
          /\ recent[k] = Current(k) \cup Earlier(k)
      BY <2>1, FS_Subset DEF Current, Earlier
    <3>2. /\ Cardinality(recent[k]) = Cardinality(Current(k)) + Cardinality(Earlier(k))
          /\ Cardinality(Earlier(k)) \in Nat
      <4>1. Cardinality(Current(k) \cap Earlier(k)) = 0
        BY <3>1, FS_EmptySet, Zenon
      <4>2. Cardinality(Current(k)) \in Nat /\ Cardinality(Earlier(k)) \in Nat
        BY <3>1, FS_CardinalityType
      <4>3. Cardinality(Current(k) \cup Earlier(k))
              = Cardinality(Current(k)) + Cardinality(Earlier(k))
                  - Cardinality(Current(k) \cap Earlier(k))
        BY <3>1, FS_Union, Zenon
      <4>4. Cardinality(recent[k]) = Cardinality(Current(k) \cup Earlier(k))
        BY <3>1, Zenon
      <4>5. QED
        BY <4>1, <4>2, <4>3, <4>4
    <3>3. QED
      BY <2>1, <2>2, <3>2 DEF KeyInv, WindowCounts, Admitted
  <2>3. CASE ~ windows[k].open
    BY <2>1, <2>3, FS_EmptySet DEF KeyInv, Admitted
  <2>4. CASE windows[k].open /\ now > windows[k].resetAt
    <3>1. Cardinality(recent[k]) \in Nat
      BY <2>1, FS_CardinalityType
    <3>2. QED
      BY <2>1, <2>4, <3>1 DEF KeyInv, Admitted
  <2>5. QED
    BY <2>2, <2>3, <2>4
<1>2. QED
  BY <1>1, AlwaysLimiterInv, PTL

\* The count of a window in force is the number of its requests, and all of them
\* are within the last Interval.
THEOREM AlwaysRefusedAtLimit == AccessSpec => []RefusedOnlyAtLimit
<1>1. LimiterInv => RefusedOnlyAtLimit
  <2> SUFFICES ASSUME LimiterInv, NEW k \in Keys, Refused(k)
               PROVE  Admitted(k) >= Limit
    BY DEF RefusedOnlyAtLimit
  <2>1. WindowCounts(k) /\ IsFiniteSet(recent[k]) /\ windows[k].count >= Limit
    BY DEF Refused, WindowPassed, LimiterInv, KeyInv
  <2>2. /\ Cardinality(Current(k)) <= Cardinality(recent[k])
        /\ Cardinality(recent[k]) \in Nat
    BY <2>1, FS_Subset, FS_CardinalityType DEF Current
  <2>3. windows[k].count \in Nat
    BY CapacityPositive DEF LimiterInv, RateLimiterTypeOK
  <2>4. QED
    BY <2>1, <2>2, <2>3, CapacityPositive DEF WindowCounts, Admitted
<1>2. QED
  BY <1>1, AlwaysLimiterInv, PTL

=============================================================================
