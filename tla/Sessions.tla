------------------------------ MODULE Sessions ------------------------------
(***************************************************************************)
(* Accounts and tokens: registerUserHandler, loginHandler,                 *)
(* refreshTokenHandler and the seed over the users table, and the token    *)
(* pairs of JWTAuthenticator.  A client holds the last access token it was *)
(* sent and, in its cookie jar, the last refresh token.                    *)
(***************************************************************************)
EXTENDS Naturals

CONSTANTS
  UserIds,     \* ids of users rows that may exist (gen_random_uuid)
  Emails,
  Clients,     \* each knows one password, its own
  NoUser,      \* no such row
  NoToken,
  AccessTTL,   \* 15 minutes
  RefreshTTL,  \* 7 days
  MaxClock     \* bound of the model on the clock

Token == [type : {"access", "refresh"}, sub : UserIds, exp : Nat]

User == [email : Emails, password : Clients]

ASSUME SessionsAssumption ==
  /\ NoUser \notin User \cup UserIds
  /\ NoToken \notin Token
  /\ {AccessTTL, RefreshTTL, MaxClock} \subseteq Nat

VARIABLES
  users,   \* the rows of users
  bearer,  \* the access token each client puts into Authorization
  cookie,  \* the refresh-token cookie of each client
  served,  \* whom the last request of each client was served as, or NoUser
  contact, \* when each client last registered, logged in or refreshed (history)
  clock

vars == <<users, bearer, cookie, served, contact, clock>>

Init ==
  /\ users = [u \in UserIds |-> NoUser]
  /\ bearer = [c \in Clients |-> NoToken]
  /\ cookie = [c \in Clients |-> NoToken]
  /\ served = [c \in Clients |-> NoUser]
  /\ contact = [c \in Clients |-> 0]
  /\ clock = 0

Rows == {u \in UserIds : users[u] # NoUser}

Tick ==
  /\ clock < MaxClock
  /\ clock' = clock + 1
  /\ UNCHANGED <<users, bearer, cookie, served, contact>>

-----------------------------------------------------------------------------
(* JWTAuthenticator                                                        *)

\* Mutant of GenerateTokenPair: the two tokens are swapped.
SwappedPair(c, u) ==
  /\ bearer' = [bearer EXCEPT ![c] = [type |-> "refresh", sub |-> u,
                                      exp |-> clock + RefreshTTL]]
  /\ cookie' = [cookie EXCEPT ![c] = [type |-> "access", sub |-> u,
                                      exp |-> clock + AccessTTL]]
  /\ contact' = [contact EXCEPT ![c] = clock]

\* The reply: the access token in the body, the refresh token in the cookie.
GenerateTokenPair(c, u) ==
  /\ bearer' = [bearer EXCEPT ![c] = [type |-> "access", sub |-> u,
                                      exp |-> clock + AccessTTL]]
  /\ cookie' = [cookie EXCEPT ![c] = [type |-> "refresh", sub |-> u,
                                      exp |-> clock + RefreshTTL]]
  /\ contact' = [contact EXCEPT ![c] = clock]

Valid(t, type) == t # NoToken /\ t.type = type /\ clock < t.exp

\* Mutant of ValidateAccessToken: exp and type are not looked at.
AnyToken(t) == t # NoToken

ValidateAccessToken(t) == Valid(t, "access")

ValidateRefreshToken(t) == Valid(t, "refresh")

-----------------------------------------------------------------------------
(* The handlers                                                            *)

\* UserStore.Create: the INSERT meets no constraint on email.
Insert(u, e, c) ==
  /\ users[u] = NoUser
  /\ users' = [users EXCEPT ![u] = [email |-> e, password |-> c]]

\* registerUserHandler, and the seed when its admin logs in next.
Register(c, e) ==
  /\ \E u \in UserIds : Insert(u, e, c) /\ GenerateTokenPair(c, u)
  /\ UNCHANGED <<served, clock>>

\* The row is inserted and the reply is lost; so also the seed, which has none.
RegisterUnanswered(c, e) ==
  /\ \E u \in UserIds : Insert(u, e, c)
  /\ UNCHANGED <<bearer, cookie, served, contact, clock>>

\* GetByEmail scans the first row PostgreSQL returns, in no particular order.
GetByEmail(u, e) == u \in Rows /\ users[u].email = e

\* Mutant of Compare: the error of bcrypt is dropped.
Uncompared(u, c) == TRUE

Compare(u, c) == users[u].password = c

\* Another password or no such row: 401 or 404, and nothing changes.
Login(c, e) ==
  /\ \E u \in UserIds : GetByEmail(u, e) /\ Compare(u, c) /\ GenerateTokenPair(c, u)
  /\ UNCHANGED <<users, served, clock>>

\* The old refresh token is not revoked.  A token that is refused stays in the jar:
\* the cookie that should clear it names no path and is another one.
Refresh(c) ==
  /\ ValidateRefreshToken(cookie[c])
  /\ cookie[c].sub \in Rows
  /\ GenerateTokenPair(c, cookie[c].sub)
  /\ UNCHANGED <<users, served, clock>>

\* AuthTokenMiddleware lets a request pass, with the cookie in its place or not.
Request(c) ==
  \E t \in {bearer[c], cookie[c]} :
    /\ ValidateAccessToken(t)
    /\ t.sub \in Rows
    /\ served' = [served EXCEPT ![c] = t.sub]
    /\ UNCHANGED <<users, bearer, cookie, contact, clock>>

Next ==
  \/ Tick
  \/ \E c \in Clients, e \in Emails :
       Register(c, e) \/ RegisterUnanswered(c, e) \/ Login(c, e)
  \/ \E c \in Clients : Refresh(c) \/ Request(c)

Spec == Init /\ [][Next]_vars

-----------------------------------------------------------------------------

\* Every variable has its type.
TypeOK ==
  /\ users \in [UserIds -> User \cup {NoUser}]
  /\ bearer \in [Clients -> [type : {"access"}, sub : UserIds, exp : Nat] \cup {NoToken}]
  /\ cookie \in [Clients -> [type : {"refresh"}, sub : UserIds, exp : Nat] \cup {NoToken}]
  /\ served \in [Clients -> UserIds \cup {NoUser}]
  /\ contact \in [Clients -> Nat]
  /\ clock \in Nat

\* A client is served as an account whose password it knows, after any registrations,
\* logins and refreshes, its own and others', with the same email.
ServedAsOneself ==
  \A c \in Clients : served[c] # NoUser => users[served[c]].password = c

\* The strengthening: every token a client holds is its own and not older than its
\* last contact.
TokensEarned ==
  \A c \in Clients :
    /\ bearer[c] # NoToken =>
         /\ bearer[c].sub \in Rows /\ users[bearer[c].sub].password = c
         /\ bearer[c].exp = contact[c] + AccessTTL
    /\ cookie[c] # NoToken =>
         cookie[c].sub \in Rows /\ users[cookie[c].sub].password = c

IInv ==
  /\ TypeOK
  /\ TokensEarned
  /\ \A c \in Clients : served[c] # NoUser => served[c] \in Rows
  /\ ServedAsOneself

\* "Access token is valid only for 15 minutes" (README.md:8): who is served has
\* registered, logged in or refreshed since then.
AccessShortLived ==
  [][\A c \in Clients : Request(c) => clock < contact[c] + AccessTTL]_vars

\* "a user with that email already exists" (internal/store/users.go:15): no two
\* accounts have one email.
EmailUnique ==
  \A u, v \in Rows : users[u].email = users[v].email => u = v
=============================================================================
