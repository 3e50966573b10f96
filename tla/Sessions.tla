------------------------------ MODULE Sessions ------------------------------
(***************************************************************************)
(* Accounts and tokens: handler/auth.go, service/auth.go, store/postgres/  *)
(* user.go, and the check of middleware/auth.go.  Tokens are stateless: the *)
(* server keeps no session, so a token is what its claims say, a refresh   *)
(* can be repeated when its answer is lost, and a logout changes nothing.  *)
(***************************************************************************)
EXTENDS Clock, FiniteSets

CONSTANTS Usernames, Emails, Passwords,
          Registrars,   \* concurrent POST /auth/register handlers
          NoAccount,    \* no row for the username; a handler without request
          AccessTTL, RefreshTTL,
          MaxTokens     \* bound: tokens that the clients hold at a time

\* Two settings of their own, which validate() does not compare.
ASSUME SessionsAssumption ==
  AccessTTL \in Nat /\ RefreshTTL \in Nat

VARIABLES users,        \* table users: username -> email and password hash
          registers,    \* the register handlers: the row each will insert
          inserted,     \* auxiliary: the rows ever inserted
          tokens        \* the tokens that clients hold

sessionVars == <<users, registers, inserted, tokens>>

\* The absent row is no row.
ASSUME NoAccountAssumption ==
  NoAccount \notin [username : Usernames, email : Emails, password : Passwords]

Rows == [username : Usernames, email : Emails, password : Passwords]

\* sub, exp: claims, exp in full seconds; issued, ttl: auxiliary, the moment of
\* the issue and the life time that the token was given.
Tokens == [type : {"access", "refresh"}, sub : Usernames, exp : Nat,
           issued : Times, ttl : {AccessTTL, RefreshTTL}]

SessionsTypeOK ==
  /\ users \in [Usernames -> Rows \cup {NoAccount}]
  /\ registers \in [Registrars -> Rows \cup {NoAccount}]
  /\ inserted \in SUBSET Rows
  /\ tokens \in SUBSET Tokens
  /\ \A token \in tokens : token.exp % Second = 0

SessionsInit ==
  /\ users = [n \in Usernames |-> NoAccount]
  /\ registers = [r \in Registrars |-> NoAccount]
  /\ inserted = {}
  /\ tokens = {}

-----------------------------------------------------------------------------
(* Register.                                                               *)

\* The fields are there and long enough; the password is hashed.
BeginRegister(r, row) ==
  /\ registers[r] = NoAccount
  /\ registers' = [registers EXCEPT ![r] = row]
  /\ UNCHANGED <<users, inserted, tokens>>

\* The UNIQUE constraints of username and email.
Unique(row) ==
  /\ users[row.username] = NoAccount
  /\ \A n \in Usernames : users[n] # NoAccount => users[n].email # row.email

\* The insert succeeds; its answer, 201, may be lost.
InsertUser(r) ==
  LET row == registers[r]
  IN  /\ row # NoAccount
      /\ Unique(row)
      /\ users' = [users EXCEPT ![row.username] = row]
      /\ inserted' = inserted \cup {row}
      /\ registers' = [registers EXCEPT ![r] = NoAccount]
      /\ UNCHANGED tokens

\* Mutant: the row of a taken username is overwritten.
MutRejectUser(r) ==
  LET row == registers[r]
  IN  /\ row # NoAccount
      /\ users' = [users EXCEPT ![row.username] = row]
      /\ registers' = [registers EXCEPT ![r] = NoAccount]
      /\ UNCHANGED <<inserted, tokens>>

\* Any error of the insert is answered 409 USER_EXISTS, whatever it was: the
\* names are taken, the statement fails, or the request is cut off.
RejectUser(r) ==
  /\ registers[r] # NoAccount
  /\ registers' = [registers EXCEPT ![r] = NoAccount]
  /\ UNCHANGED <<users, inserted, tokens>>

-----------------------------------------------------------------------------
(* Tokens.                                                                 *)

\* Mutant: the life times of the two tokens are swapped.
MutTokenPair(n) ==
  {[type |-> "access", sub |-> n, exp |-> Unix(now + RefreshTTL),
    issued |-> now, ttl |-> AccessTTL],
   [type |-> "refresh", sub |-> n, exp |-> Unix(now + AccessTTL),
    issued |-> now, ttl |-> RefreshTTL]}

\* generateTokenPair.
TokenPair(n) ==
  {[type |-> "access", sub |-> n, exp |-> Unix(now + AccessTTL),
    issued |-> now, ttl |-> AccessTTL],
   [type |-> "refresh", sub |-> n, exp |-> Unix(now + RefreshTTL),
    issued |-> now, ttl |-> RefreshTTL]}

\* expires_in of the answer, in seconds.
ExpiresIn == AccessTTL \div Second

\* jwt.Parse and token.Valid of middleware Auth and of RefreshAccessToken.
Valid(token) == now < token.exp

\* The client keeps the tokens of the answer, and others it has not dropped.
IssueTokens(n) ==
  /\ tokens' = tokens \cup TokenPair(n)
  /\ Cardinality(tokens') <= MaxTokens
  /\ UNCHANGED <<users, registers, inserted>>

Login(n, password) ==
  /\ users[n] # NoAccount
  /\ users[n].password = password
  /\ IssueTokens(n)

\* RefreshAccessToken: the user of the token is looked up again.
Refresh(token) ==
  /\ Valid(token)
  /\ users[token.sub] # NoAccount
  /\ IssueTokens(token.sub)

\* Logout, and any client that forgets a token: the server does nothing.
Discard(token) ==
  /\ tokens' = tokens \ {token}
  /\ UNCHANGED <<users, registers, inserted>>

SessionsNext ==
  \/ \E r \in Registrars :
       \/ \E row \in Rows : BeginRegister(r, row)
       \/ InsertUser(r)
       \/ RejectUser(r)
  \/ \E n \in Usernames, password \in Passwords : Login(n, password)
  \/ \E token \in tokens : Refresh(token) \/ Discard(token)

-----------------------------------------------------------------------------
\* SAFETY.  Of the registrations that race for a username or an email at most
\* one is inserted, and it owns the account for good, even when its 201 is lost
\* and the retry is answered 409: its password opens the account, and that of no
\* request that was refused ever does.
RegistrationHolds ==
  \A row \in inserted :
    /\ users[row.username] = row
    /\ \A other \in inserted : other.email = row.email => other = row

\* SAFETY.  The answer's expires_in ("Seconds until the access token expires")
\* is right up to one second: the fraction that exp loses.  A client that
\* refreshes a second early is never refused: until then its access token is
\* valid, and as long as it is, so is the refresh token it came with, if that one
\* was given no shorter a life.
TokensLastAsPromised ==
  \A token \in tokens :
    /\ Valid(token) => now < token.issued + token.ttl
    /\ token.type = "access" /\ now + Second <= token.issued + ExpiresIn * Second
         => Valid(token)
    /\ token.type = "access" /\ Valid(token) =>
         \A other \in tokens :
           /\ other.type = "refresh"
           /\ other.sub = token.sub /\ other.issued = token.issued
           /\ token.ttl <= other.ttl
           => Valid(other)

=============================================================================
