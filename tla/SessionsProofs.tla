--------------------------- MODULE SessionsProofs ---------------------------
(***************************************************************************)
(* Tokens open only the account whose password was shown, and for no       *)
(* longer than they live, for any number of accounts, emails and clients.  *)
(***************************************************************************)
EXTENDS Sessions, TLAPS

LEMMA InitInv == Init => IInv
BY SessionsAssumption DEF Init, IInv, TypeOK, TokensEarned, ServedAsOneself

\* A pair for an account whose password the client knows.
LEMMA PairOK ==
  ASSUME IInv, NEW c \in Clients, NEW u \in UserIds, GenerateTokenPair(c, u),
         users' \in [UserIds -> User \cup {NoUser}],
         \A v \in Rows : users'[v] = users[v],
         users'[u] # NoUser /\ users'[u].password = c,
         served' = served, clock' = clock
  PROVE  IInv'
<1> DEFINE a == [type |-> "access", sub |-> u, exp |-> clock + AccessTTL]
           b == [type |-> "refresh", sub |-> u, exp |-> clock + RefreshTTL]
<1>1. /\ bearer' = [bearer EXCEPT ![c] = a]
      /\ cookie' = [cookie EXCEPT ![c] = b]
      /\ contact' = [contact EXCEPT ![c] = clock]
      /\ TypeOK
  BY DEF GenerateTokenPair, IInv
<1>2. clock + AccessTTL \in Nat /\ clock + RefreshTTL \in Nat
  BY <1>1, SessionsAssumption DEF TypeOK
<1>3. /\ a \in [type : {"access"}, sub : UserIds, exp : Nat]
      /\ b \in [type : {"refresh"}, sub : UserIds, exp : Nat]
      /\ a.sub = u /\ b.sub = u /\ a.exp = clock + AccessTTL
  BY <1>2
<1> HIDE DEF a, b
<1>4. TypeOK'
  BY <1>1, <1>3 DEF TypeOK
<1>5. bearer'[c] = a /\ cookie'[c] = b /\ contact'[c] = clock
  BY <1>1 DEF TypeOK
<1>6. ASSUME NEW d \in Clients, d # c
      PROVE  bearer'[d] = bearer[d] /\ cookie'[d] = cookie[d] /\ contact'[d] = contact[d]
  BY <1>1, <1>6 DEF TypeOK
<1>7. Rows \subseteq Rows' /\ u \in Rows'
  BY DEF Rows
<1>8. TokensEarned'
  <2> SUFFICES ASSUME NEW d \in Clients
               PROVE  /\ bearer'[d] # NoToken =>
                           /\ bearer'[d].sub \in Rows' /\ users'[bearer'[d].sub].password = d
                           /\ bearer'[d].exp = contact'[d] + AccessTTL
                      /\ cookie'[d] # NoToken =>
                           cookie'[d].sub \in Rows' /\ users'[cookie'[d].sub].password = d
    BY DEF TokensEarned
  <2>1. CASE d = c
    BY <2>1, <1>3, <1>5, <1>7
  <2>2. CASE d # c
    BY <2>2, <1>6, <1>7 DEF IInv, TokensEarned
  <2>3. QED
    BY <2>1, <2>2
<1>9. (\A d \in Clients : served[d] # NoUser => served[d] \in Rows)' /\ ServedAsOneself'
  BY <1>7 DEF IInv, ServedAsOneself
<1>10. QED
  BY <1>4, <1>8, <1>9 DEF IInv

\* A row inserted disturbs no other row.
LEMMA InsertOK ==
  ASSUME IInv, NEW c \in Clients, NEW e \in Emails, NEW u \in UserIds, Insert(u, e, c)
  PROVE  /\ users' \in [UserIds -> User \cup {NoUser}]
         /\ \A v \in Rows : users'[v] = users[v]
         /\ users'[u] # NoUser /\ users'[u].password = c
<1>1. [email |-> e, password |-> c] \in User
  BY DEF User
<1>2. QED
  BY <1>1, SessionsAssumption DEF Insert, Rows, IInv, TypeOK

LEMMA RegisterInv ==
  ASSUME IInv, NEW c \in Clients, NEW e \in Emails,
         Register(c, e) \/ RegisterUnanswered(c, e) \/ Login(c, e)
  PROVE  IInv'
<1>1. CASE Register(c, e)
  <2>1. PICK u \in UserIds : Insert(u, e, c) /\ GenerateTokenPair(c, u)
    BY <1>1 DEF Register
  <2>2. served' = served /\ clock' = clock
    BY <1>1 DEF Register
  <2>3. QED
    BY <2>1, <2>2, InsertOK, PairOK
<1>2. CASE RegisterUnanswered(c, e)
  <2>1. PICK u \in UserIds : Insert(u, e, c)
    BY <1>2 DEF RegisterUnanswered
  <2>2. /\ users' \in [UserIds -> User \cup {NoUser}]
        /\ \A v \in Rows : users'[v] = users[v]
    BY <2>1, InsertOK
  <2>3. Rows \subseteq Rows'
    BY <2>2 DEF Rows
  <2>4. QED
    BY <1>2, <2>2, <2>3
    DEF RegisterUnanswered, IInv, TypeOK, TokensEarned, ServedAsOneself
<1>3. CASE Login(c, e)
  <2>1. PICK u \in UserIds : GetByEmail(u, e) /\ Compare(u, c) /\ GenerateTokenPair(c, u)
    BY <1>3 DEF Login
  <2>2. users' = users /\ served' = served /\ clock' = clock
    BY <1>3 DEF Login
  <2>3. QED
    BY <2>1, <2>2, PairOK DEF GetByEmail, Compare, Rows, IInv, TypeOK
<1>4. QED
  BY <1>1, <1>2, <1>3

LEMMA RefreshInv ==
  ASSUME IInv, NEW c \in Clients, Refresh(c)
  PROVE  IInv'
<1>1. PICK u \in UserIds : u = cookie[c].sub /\ u \in Rows
  BY DEF Refresh, Rows
<1>2. users[u].password = c /\ GenerateTokenPair(c, u)
  BY <1>1 DEF Refresh, IInv, TokensEarned, ValidateRefreshToken, Valid
<1>3. users' = users /\ served' = served /\ clock' = clock
  BY DEF Refresh
<1>4. QED
  BY <1>1, <1>2, <1>3, PairOK DEF Rows, IInv, TypeOK

\* What a request is let in with: only an access token, still alive.
LEMMA RequestToken ==
  ASSUME IInv, NEW c \in Clients, NEW t \in {bearer[c], cookie[c]},
         ValidateAccessToken(t)
  PROVE  t = bearer[c] /\ t # NoToken /\ clock < t.exp
BY DEF IInv, TypeOK, ValidateAccessToken, Valid

LEMMA RequestInv ==
  ASSUME IInv, NEW c \in Clients, Request(c)
  PROVE  IInv'
<1>1. PICK t \in {bearer[c], cookie[c]} :
        ValidateAccessToken(t) /\ t.sub \in Rows /\ served' = [served EXCEPT ![c] = t.sub]
  BY DEF Request
<1>2. /\ users' = users /\ bearer' = bearer /\ cookie' = cookie /\ contact' = contact
      /\ clock' = clock
  BY DEF Request
<1>3. users[t.sub].password = c /\ t.sub \in UserIds
  BY <1>1, RequestToken DEF IInv, TokensEarned, Rows
<1>4. QED
  BY <1>1, <1>2, <1>3 DEF IInv, TypeOK, TokensEarned, ServedAsOneself, Rows

LEMMA StepInv == IInv /\ [Next]_vars => IInv'
<1> SUFFICES ASSUME IInv, [Next]_vars PROVE IInv'
  OBVIOUS
<1>1. CASE Tick \/ UNCHANGED vars
  BY <1>1 DEF Tick, vars, IInv, TypeOK, TokensEarned, ServedAsOneself, Rows
<1>2. CASE ~(Tick \/ UNCHANGED vars)
  BY <1>2, RegisterInv, RefreshInv, RequestInv DEF Next
<1>3. QED
  BY <1>1, <1>2

LEMMA Inductive == Spec => []IInv
BY InitInv, StepInv, PTL DEF Spec

\* The rows, the tokens and the cookies keep their types: no refresh token is ever
\* sent as an access token.
THEOREM SessionsTypeOK == Spec => []TypeOK
<1>1. IInv => TypeOK
  BY DEF IInv
<1>2. QED
  BY <1>1, Inductive, PTL

\* A client is served only as an account whose password it knows.
THEOREM SessionsServedAsOneself == Spec => []ServedAsOneself
<1>1. IInv => ServedAsOneself
  BY DEF IInv
<1>2. QED
  BY <1>1, Inductive, PTL

\* Who is served has registered, logged in or refreshed less than AccessTTL ago.
THEOREM SessionsAccessShortLived == Spec => AccessShortLived
<1> DEFINE A == \A c \in Clients : Request(c) => clock < contact[c] + AccessTTL
<1>1. ASSUME IInv PROVE A
  <2> SUFFICES ASSUME NEW c \in Clients, Request(c)
               PROVE  clock < contact[c] + AccessTTL
    OBVIOUS
  <2>1. PICK t \in {bearer[c], cookie[c]} : ValidateAccessToken(t)
    BY DEF Request
  <2>2. QED
    BY <1>1, <2>1, RequestToken DEF IInv, TokensEarned
<1>2. IInv => [A]_vars
  BY <1>1
<1>3. QED
  BY <1>2, Inductive, PTL DEF AccessShortLived
=============================================================================
