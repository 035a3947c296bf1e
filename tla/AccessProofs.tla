---------------------------- MODULE AccessProofs -----------------------------
(***************************************************************************)
(* Whom the service lets through is decided on a role the user had lately, *)
(* for any number of users, requests and goroutines and any timeouts.      *)
(* IInv of Access is inductive: a read of the table is new, a copy starts  *)
(* with the age of what it copies, and only a tick makes it older, which   *)
(* takes a tick of the time the copy has left.                             *)
(***************************************************************************)
EXTENDS Access, TLAPS

\* The constants are durations.
LEMMA Durations ==
  /\ TTL \in Nat \ {0} /\ JobTimeout \in Nat /\ QueryTimeout \in Nat
  /\ RequestTimeout \in Nat /\ Bound \in Nat /\ TooOld \in Nat
  /\ Bound = QueryTimeout + JobTimeout + TTL + RequestTimeout /\ TooOld = Bound + 1
BY AccessAssumption DEF Bound, TooOld

\* The times a deadline may be at.
LEMMA Deadlines ==
  /\ 0 \in 0 .. RequestTimeout /\ RequestTimeout \in 0 .. RequestTimeout
  /\ 0 \in 0 .. QueryTimeout /\ QueryTimeout \in 0 .. QueryTimeout
  /\ JobTimeout \in 0 .. JobTimeout /\ TTL \in 1 .. TTL
BY Durations

\* Nothing is no user, no entry and no goroutine.
LEMMA Somethings == Nothing \notin Users /\ Nothing \notin Entry /\ Nothing \notin JobState
BY AccessAssumption

LEMMA LevelsAreNat == Levels \subseteq Nat /\ 0 \notin Levels
BY DEF Levels, UserLevel, AdminLevel

LEMMA WasType ==
  ASSUME TypeOK, NEW u \in Users, NEW l \in Levels
  PROVE  was[u][l] \in 0 .. TooOld /\ was[u][l] \in Nat
BY Durations DEF TypeOK

LEMMA EntryFields ==
  ASSUME NEW e \in Entry
  PROVE  e.level \in Levels /\ e.left \in 1 .. TTL /\ e.left \in Nat
BY Durations DEF Entry

LEMMA JobFields ==
  ASSUME NEW g \in JobState
  PROVE  g.user \in Users /\ g.level \in Levels /\ g.left \in 0 .. JobTimeout /\ g.left \in Nat
BY Durations DEF JobState

LEMMA ReqFields ==
  ASSUME NEW x \in ReqState
  PROVE  /\ x.pc \in {"idle", "lookup", "query", "answered", "check"}
         /\ x.user \in Users \cup {Nothing} /\ x.owner \in Users \cup {Nothing}
         /\ x.level \in Levels \cup {0}
         /\ x.left \in 0 .. RequestTimeout /\ x.left \in Nat
         /\ x.queryLeft \in 0 .. QueryTimeout /\ x.queryLeft \in Nat
         /\ x.answer \in {"none", "served", "refused", "error"}
BY Durations DEF ReqState

\* The user a request is for, once it has one.
LEMMA BusyReq ==
  ASSUME IInv, NEW r \in Requests, req[r].pc # "idle"
  PROVE  /\ req[r] \in ReqState /\ req[r].user \in Users
         /\ level[req[r].user] \in Levels /\ req[r].answer = "none"
BY DEF IInv, TypeOK, ReqOK

\* The roles are as recent as they were, or more.
Younger ==
  /\ was' \in [Users -> [Levels -> 0 .. TooOld]]
  /\ \A u \in Users, l \in Levels : was'[u][l] <= was[u][l]
  /\ \A u \in Users : level[u] # 0 => level'[u] # 0

LEMMA YoungerKeeps ==
  ASSUME IInv, Younger
  PROVE  /\ cache' = cache => \A u \in Users : EntryOK(cache, u)'
         /\ saved' = saved => \A u \in Users : EntryOK(saved, u)'
         /\ \A j \in Jobs : job'[j] = job[j] => JobOK(j)'
         /\ \A r \in Requests : req'[r] = req[r] => ReqOK(r)'
<1>1. ASSUME NEW u \in Users, NEW l \in Levels, NEW n \in Nat, NEW m \in Nat,
             was[u][l] + n <= m
      PROVE  was'[u][l] + n <= m
  <2>1. was[u][l] \in Nat /\ was'[u][l] \in Nat /\ was'[u][l] <= was[u][l]
    BY WasType, Durations DEF IInv, Younger
  <2>2. QED
    BY <1>1, <2>1
<1>2. ASSUME NEW u \in Users, NEW e \in Entry,
             was[u][e.level] + e.left <= QueryTimeout + JobTimeout + TTL
      PROVE  was'[u][e.level] + e.left <= QueryTimeout + JobTimeout + TTL
  BY <1>1, <1>2, EntryFields, Durations
<1>3. ASSUME cache' = cache, NEW u \in Users PROVE EntryOK(cache, u)'
  BY <1>2, <1>3 DEF IInv, TypeOK, EntryOK
<1>4. ASSUME saved' = saved, NEW u \in Users PROVE EntryOK(saved, u)'
  BY <1>2, <1>4 DEF IInv, TypeOK, EntryOK
<1>5. ASSUME NEW j \in Jobs, job'[j] = job[j] PROVE JobOK(j)'
  <2>1. CASE job[j] = Nothing
    BY <1>5, <2>1 DEF JobOK
  <2>2. CASE job[j] # Nothing
    <3>1. job[j] \in JobState
      BY <2>2 DEF IInv, TypeOK
    <3>2. was[job[j].user][job[j].level] + job[j].left <= QueryTimeout + JobTimeout
      BY <2>2 DEF IInv, JobOK
    <3>3. was'[job[j].user][job[j].level] + job[j].left <= QueryTimeout + JobTimeout
      BY <1>1, <3>1, <3>2, JobFields, Durations
    <3>4. QED
      BY <1>5, <3>3 DEF JobOK
  <2>3. QED
    BY <2>1, <2>2
<1>6. ASSUME NEW r \in Requests, req'[r] = req[r] PROVE ReqOK(r)'
  <2>1. req[r] \in ReqState /\ ReqOK(r)
    BY DEF IInv, TypeOK
  <2>2. ASSUME req[r].pc # "idle" PROVE req[r].user \in Users /\ level'[req[r].user] # 0
    BY <2>1, <2>2 DEF ReqOK, Younger
  <2>3. ASSUME req[r].pc = "answered"
        PROVE  was'[req[r].user][req[r].level] + req[r].queryLeft <= QueryTimeout
    BY <1>1, <2>1, <2>2, <2>3, ReqFields, Durations DEF ReqOK
  <2>4. ASSUME req[r].pc = "check"
        PROVE  was'[req[r].user][req[r].level] + req[r].left <= Bound
    BY <1>1, <2>1, <2>2, <2>4, ReqFields, Durations DEF ReqOK
  <2>5. QED
    BY <1>6, <2>1, <2>2, <2>3, <2>4 DEF ReqOK
<1>7. QED
  BY <1>3, <1>4, <1>5, <1>6

LEMMA SameIsYounger ==
  ASSUME IInv, UNCHANGED <<level, was>>
  PROVE  Younger
BY WasType DEF IInv, TypeOK, Younger

\* The parts of a state that a step leaves alone altogether.
LEMMA RolesKept ==
  ASSUME IInv, UNCHANGED <<level, was>>
  PROVE  /\ level' \in [Users -> Levels \cup {0}]
         /\ was' \in [Users -> [Levels -> 0 .. TooOld]]
         /\ (\A u \in Users : level[u] # 0 => was[u][level[u]] = 0)'
         /\ cache' = cache =>
              cache' \in [Users -> Entry \cup {Nothing}] /\ \A u \in Users : EntryOK(cache, u)'
         /\ saved' = saved =>
              saved' \in [Users -> Entry \cup {Nothing}] /\ \A u \in Users : EntryOK(saved, u)'
         /\ job' = job =>
              job' \in [Jobs -> JobState \cup {Nothing}] /\ \A j \in Jobs : JobOK(j)'
         /\ req' = req =>
              req' \in [Requests -> ReqState] /\ \A r \in Requests : ReqOK(r)'
BY SameIsYounger, YoungerKeeps DEF IInv, TypeOK

-----------------------------------------------------------------------------
(* Steps that change no role.                                              *)

\* A request that moves to a good state.
LEMMA ReqMoves ==
  ASSUME IInv, NEW r \in Requests, NEW x \in ReqState, req' = [req EXCEPT ![r] = x],
         UNCHANGED <<level, was>>, ReqOK(r)'
  PROVE  req' \in [Requests -> ReqState] /\ \A s \in Requests : ReqOK(s)'
<1>1. req' \in [Requests -> ReqState] /\ \A s \in Requests : s # r => req'[s] = req[s]
  BY DEF IInv, TypeOK
<1>2. \A s \in Requests : s # r => ReqOK(s)'
  BY <1>1, SameIsYounger, YoungerKeeps
<1>3. QED
  BY <1>1, <1>2

\* ... and nothing else changes.
LEMMA ReqMovesInv ==
  ASSUME IInv, NEW r \in Requests, NEW x \in ReqState, req' = [req EXCEPT ![r] = x],
         UNCHANGED <<level, was, cache, saved, job>>, req'[r] = x => ReqOK(r)'
  PROVE  IInv'
<1>1. req'[r] = x
  BY DEF IInv, TypeOK
<1>2. QED
  BY <1>1, ReqMoves, RolesKept DEF IInv, TypeOK

LEMMA BeginInv ==
  ASSUME IInv, NEW r \in Requests, NEW u \in Users, NEW owner \in Users \cup {Nothing},
         Begin(r, u, owner)
  PROVE  IInv'
<1> DEFINE x == [IdleReq EXCEPT !.pc = "lookup", !.user = u, !.owner = owner,
                                !.left = RequestTimeout]
<1>1. x \in ReqState /\ x.pc = "lookup" /\ x.user = u /\ x.answer = "none"
  BY Deadlines DEF IdleReq, ReqState
<1>2. req' = [req EXCEPT ![r] = x] /\ UNCHANGED <<level, was, cache, saved, job>>
  BY DEF Begin
<1>3. level[u] # 0
  BY DEF Begin
<1> HIDE DEF x
<1>4. req'[r] = x => ReqOK(r)'
  BY <1>1, <1>2, <1>3 DEF ReqOK
<1>5. QED
  BY <1>1, <1>2, <1>4, ReqMovesInv

LEMMA CacheHitInv ==
  ASSUME IInv, NEW r \in Requests, CacheHit(r)
  PROVE  IInv'
<1> DEFINE u == req[r].user
           x == [req[r] EXCEPT !.pc = "check", !.level = cache[u].level]
<1>1. /\ req[r] \in ReqState /\ u \in Users /\ level[u] # 0 /\ req[r].answer = "none"
      /\ cache[u] \in Entry /\ EntryOK(cache, u) /\ cache[u] # Nothing
  BY BusyReq, LevelsAreNat DEF CacheHit, IInv, TypeOK
<1>2. cache[u].level \in Levels /\ cache[u].left \in 1 .. TTL /\ cache[u].left \in Nat
  BY <1>1, EntryFields
<1>3. /\ x \in ReqState /\ x.pc = "check" /\ x.user = u /\ x.level = cache[u].level
      /\ x.left = req[r].left /\ x.answer = "none"
  BY <1>1, <1>2 DEF ReqState
<1>4. req' = [req EXCEPT ![r] = x] /\ UNCHANGED <<level, was, cache, saved, job>>
  BY DEF CacheHit, Kept
<1>5. was[u][cache[u].level] + req[r].left <= Bound
  <2>1. was[u][cache[u].level] + cache[u].left <= QueryTimeout + JobTimeout + TTL
    BY <1>1 DEF EntryOK
  <2>2. was[u][cache[u].level] \in Nat
    BY <1>1, <1>2, WasType DEF IInv
  <2>3. req[r].left \in Nat /\ req[r].left <= RequestTimeout
    BY <1>1, ReqFields, Durations
  <2> HIDE DEF u
  <2>4. QED
    BY <1>2, <2>1, <2>2, <2>3, Durations
<1> HIDE DEF x, u
<1>6. req'[r] = x => ReqOK(r)'
  BY <1>1, <1>2, <1>3, <1>4, <1>5 DEF ReqOK
<1>7. QED
  BY <1>3, <1>4, <1>6, ReqMovesInv

LEMMA CacheMissInv ==
  ASSUME IInv, NEW r \in Requests, CacheMiss(r)
  PROVE  IInv'
<1> DEFINE x == [req[r] EXCEPT !.pc = "query"]
<1>1. req[r] \in ReqState /\ req[r].user \in Users /\ level[req[r].user] # 0
      /\ req[r].answer = "none"
  BY BusyReq, LevelsAreNat DEF CacheMiss
<1>2. x \in ReqState /\ x.pc = "query" /\ x.user = req[r].user /\ x.answer = "none"
  BY <1>1 DEF ReqState
<1>3. req' = [req EXCEPT ![r] = x] /\ UNCHANGED <<level, was, cache, saved, job>>
  BY DEF CacheMiss
<1> HIDE DEF x
<1>4. req'[r] = x => ReqOK(r)'
  BY <1>1, <1>2, <1>3 DEF ReqOK
<1>5. QED
  BY <1>2, <1>3, <1>4, ReqMovesInv

LEMMA QueryUserInv ==
  ASSUME IInv, NEW r \in Requests, QueryUser(r)
  PROVE  IInv'
<1> DEFINE u == req[r].user
           x == [req[r] EXCEPT !.pc = "answered", !.level = level[u],
                               !.queryLeft = QueryTimeout]
<1>1. req[r] \in ReqState /\ u \in Users /\ level[u] \in Levels /\ req[r].answer = "none"
  BY BusyReq DEF QueryUser
<1>2. level[u] # 0 /\ was[u][level[u]] = 0
  BY <1>1, LevelsAreNat DEF IInv
<1>3. /\ x \in ReqState /\ x.pc = "answered" /\ x.user = u /\ x.level = level[u]
      /\ x.queryLeft = QueryTimeout /\ x.answer = "none"
  BY <1>1, Deadlines DEF ReqState
<1>4. req' = [req EXCEPT ![r] = x] /\ UNCHANGED <<level, was, cache, saved, job>>
  BY DEF QueryUser
<1> HIDE DEF x, u
<1>5. req'[r] = x => ReqOK(r)'
  BY <1>1, <1>2, <1>3, <1>4, Durations DEF ReqOK
<1>6. QED
  BY <1>3, <1>4, <1>5, ReqMovesInv

LEMMA GotUserInv ==
  ASSUME IInv, NEW r \in Requests, GotUser(r)
  PROVE  IInv'
<1> DEFINE x == [req[r] EXCEPT !.pc = "check", !.queryLeft = 0]
           new == [user |-> req[r].user, level |-> req[r].level, left |-> JobTimeout]
<1>1. /\ req[r] \in ReqState /\ req[r].user \in Users /\ level[req[r].user] # 0
      /\ req[r].answer = "none" /\ req[r].pc = "answered" /\ ReqOK(r)
  BY BusyReq, LevelsAreNat DEF GotUser, IInv
<1>2. req[r].level \in Levels
  BY <1>1 DEF ReqOK
<1>3. /\ x \in ReqState /\ x.pc = "check" /\ x.user = req[r].user
      /\ x.level = req[r].level /\ x.left = req[r].left /\ x.answer = "none"
  BY <1>1, Deadlines DEF ReqState
<1>4. req' = [req EXCEPT ![r] = x] /\ UNCHANGED <<level, was, cache, saved>>
  BY DEF GotUser
<1>5. was[req[r].user][req[r].level] \in Nat /\ was[req[r].user][req[r].level] <= QueryTimeout
  <2>1. was[req[r].user][req[r].level] + req[r].queryLeft <= QueryTimeout
    BY <1>1 DEF ReqOK
  <2>2. was[req[r].user][req[r].level] \in Nat /\ req[r].queryLeft \in Nat
    BY <1>1, <1>2, WasType, ReqFields DEF IInv
  <2>3. QED
    BY <2>1, <2>2, Durations
<1>6. was[req[r].user][req[r].level] + req[r].left <= Bound
  <2>1. req[r].left \in Nat /\ req[r].left <= RequestTimeout
    BY <1>1, ReqFields, Durations
  <2>2. QED
    BY <1>5, <2>1, Durations
<1>7. /\ new \in JobState /\ new.user = req[r].user /\ new.level = req[r].level
      /\ new.left = JobTimeout
  BY <1>1, <1>2, Deadlines DEF JobState
<1>8. PICK i \in Jobs : job' = [job EXCEPT ![i] = new]
  BY DEF GotUser
<1> HIDE DEF x, new
<1>9. job' \in [Jobs -> JobState \cup {Nothing}] /\ job'[i] = new
      /\ \A j \in Jobs : j # i => job'[j] = job[j]
  BY <1>7, <1>8 DEF IInv, TypeOK
<1>10. \A j \in Jobs : j # i => JobOK(j)'
  BY <1>4, <1>9, SameIsYounger, YoungerKeeps
<1>11. JobOK(i)'
  BY <1>4, <1>5, <1>7, <1>9, Durations DEF JobOK
<1>12. req'[r] = x
  BY <1>4 DEF IInv, TypeOK
<1>13. ReqOK(r)'
  BY <1>1, <1>2, <1>3, <1>4, <1>6, <1>12 DEF ReqOK
<1>14. req' \in [Requests -> ReqState] /\ \A s \in Requests : ReqOK(s)'
  BY <1>3, <1>4, <1>13, ReqMoves
<1>15. \A j \in Jobs : JobOK(j)'
  BY <1>10, <1>11
<1>16. QED
  BY <1>4, <1>9, <1>14, <1>15, RolesKept DEF IInv, TypeOK

LEMMA AnswerInv ==
  ASSUME IInv, NEW r \in Requests, Serve(r) \/ Refuse(r) \/ RequestError(r)
  PROVE  IInv'
<1>1. PICK a \in {"served", "refused", "error"} : Answer(r, a)
  BY DEF Serve, Refuse, RequestError
<1> DEFINE x == [req[r] EXCEPT !.pc = "idle", !.left = 0, !.queryLeft = 0, !.answer = a]
<1>2. req[r] \in ReqState
  BY DEF IInv, TypeOK
<1>3. x \in ReqState /\ x.pc = "idle"
  BY <1>2, Deadlines DEF ReqState
<1>4. req' = [req EXCEPT ![r] = x]
  BY <1>1 DEF Answer
<1>5. UNCHANGED <<level, was, cache, saved, job>>
  BY DEF Serve, Refuse, RequestError
<1> HIDE DEF x
<1>6. req'[r] = x => ReqOK(r)'
  BY <1>3 DEF ReqOK
<1>7. QED
  BY <1>3, <1>4, <1>5, <1>6, ReqMovesInv

LEMMA JobSetInv ==
  ASSUME IInv, NEW j \in Jobs, JobSet(j)
  PROVE  IInv'
<1> DEFINE u == job[j].user
           e == [level |-> job[j].level, left |-> TTL]
<1>1. job[j] \in JobState /\ JobOK(j) /\ job[j] # Nothing
  BY DEF JobSet, IInv, TypeOK
<1>2. /\ u \in Users /\ job[j].level \in Levels
      /\ job[j].left \in Nat
  BY <1>1, JobFields
<1>3. e \in Entry /\ e.level = job[j].level /\ e.left = TTL
  BY <1>2, Deadlines DEF Entry
<1>4. /\ cache' = [cache EXCEPT ![u] = e] /\ job' = [job EXCEPT ![j] = Nothing]
      /\ UNCHANGED <<level, was, saved, req>>
  BY DEF JobSet
<1>5. was[u][job[j].level] + TTL <= QueryTimeout + JobTimeout + TTL
  <2>1. was[u][job[j].level] + job[j].left <= QueryTimeout + JobTimeout
    BY <1>1 DEF JobOK
  <2>2. was[u][job[j].level] \in Nat
    BY <1>2, WasType DEF IInv
  <2> HIDE DEF u
  <2>3. QED
    BY <1>2, <2>1, <2>2, Durations
<1> HIDE DEF u, e
<1>6. cache' \in [Users -> Entry \cup {Nothing}] /\ cache'[u] = e
      /\ \A v \in Users : v # u => cache'[v] = cache[v]
  BY <1>2, <1>3, <1>4 DEF IInv, TypeOK
<1>7. ASSUME NEW v \in Users PROVE EntryOK(cache, v)'
  <2>1. CASE v = u
    BY <2>1, <1>3, <1>4, <1>5, <1>6 DEF EntryOK
  <2>2. CASE v # u
    BY <2>2, <1>4, <1>6 DEF IInv, EntryOK
  <2>3. QED
    BY <2>1, <2>2
<1>8. job' \in [Jobs -> JobState \cup {Nothing}] /\ \A i \in Jobs : JobOK(i)'
  BY <1>4 DEF IInv, TypeOK, JobOK
<1>9. QED
  BY <1>4, <1>6, <1>7, <1>8, RolesKept DEF IInv, TypeOK

\* Goroutines and requests that are gone, entries that are as they were saved or gone.
LEMMA LossInv ==
  ASSUME IInv, Restart \/ Save \/ RedisRestart \/ RedisReplaced
               \/ \E j \in Jobs : JobFails(j)
  PROVE  IInv'
<1>1. CASE Restart
  <2>1. IdleReq \in ReqState /\ IdleReq.pc = "idle"
    BY Deadlines DEF IdleReq, ReqState
  <2>2. \A r \in Requests : req'[r] = IdleReq
    BY <1>1 DEF Restart
  <2>3. req' \in [Requests -> ReqState] /\ \A r \in Requests : ReqOK(r)'
    BY <1>1, <2>1, <2>2 DEF Restart, ReqOK
  <2>4. job' \in [Jobs -> JobState \cup {Nothing}] /\ \A j \in Jobs : JobOK(j)'
    BY <1>1 DEF Restart, JobOK
  <2>5. QED
    BY <1>1, <2>3, <2>4, RolesKept DEF Restart, IInv, TypeOK
<1>2. CASE Save \/ RedisRestart \/ RedisReplaced
  <2>1. UNCHANGED <<level, was, job, req>>
    BY <1>2 DEF Save, RedisRestart, RedisReplaced
  <2>2. /\ cache' \in [Users -> Entry \cup {Nothing}]
        /\ saved' \in [Users -> Entry \cup {Nothing}]
    BY <1>2 DEF Save, RedisRestart, RedisReplaced, IInv, TypeOK
  <2>3. \A u \in Users : EntryOK(cache, u)' /\ EntryOK(saved, u)'
    BY <1>2, <2>1 DEF Save, RedisRestart, RedisReplaced, IInv, EntryOK
  <2>4. QED
    BY <2>1, <2>2, <2>3, RolesKept DEF IInv, TypeOK
<1>3. CASE \E j \in Jobs : JobFails(j)
  <2>1. PICK j \in Jobs : JobFails(j)
    BY <1>3
  <2>2. job' \in [Jobs -> JobState \cup {Nothing}] /\ \A i \in Jobs : JobOK(i)'
    BY <2>1 DEF JobFails, IInv, TypeOK, JobOK
  <2>3. QED
    BY <2>1, <2>2, RolesKept DEF JobFails, IInv, TypeOK
<1>4. QED
  BY <1>1, <1>2, <1>3

-----------------------------------------------------------------------------
(* Roles and time                                                          *)

LEMMA RoleInv ==
  ASSUME IInv, NEW u \in Users, NEW l \in Levels, CreateUser(u, l) \/ ChangeRole(u, l)
  PROVE  IInv'
<1>1. /\ level' = [level EXCEPT ![u] = l] /\ was' = [was EXCEPT ![u][l] = 0]
      /\ UNCHANGED <<cache, saved, req, job>>
  BY DEF CreateUser, ChangeRole
<1>2. l # 0 /\ 0 \in 0 .. TooOld
  BY LevelsAreNat, Durations
<1>3. level' \in [Users -> Levels \cup {0}] /\ level'[u] = l
      /\ \A v \in Users : v # u => level'[v] = level[v]
  BY <1>1 DEF IInv, TypeOK
<1>4. was' \in [Users -> [Levels -> 0 .. TooOld]] /\ was'[u][l] = 0
      /\ \A v \in Users, k \in Levels : (v = u /\ k = l) \/ was'[v][k] = was[v][k]
  BY <1>1, <1>2 DEF IInv, TypeOK
<1>5. Younger
  <2>1. ASSUME NEW v \in Users, NEW k \in Levels PROVE was'[v][k] <= was[v][k]
    BY <1>4, WasType DEF IInv
  <2>2. QED
    BY <1>2, <1>3, <1>4, <2>1 DEF Younger
<1>6. \A v \in Users : level'[v] # 0 => was'[v][level'[v]] = 0
  <2> TAKE v \in Users
  <2>1. CASE v = u
    BY <2>1, <1>3, <1>4
  <2>2. CASE v # u
    BY <2>2, <1>3, <1>4 DEF IInv, TypeOK
  <2>3. QED
    BY <2>1, <2>2
<1>7. QED
  BY <1>1, <1>3, <1>4, <1>5, <1>6, YoungerKeeps DEF IInv, TypeOK

\* A tick makes what a user no longer has a tick older.
LEMMA TickAges ==
  ASSUME IInv, Tick, NEW u \in Users, NEW l \in Levels
  PROVE  was'[u][l] \in 0 .. TooOld /\ was'[u][l] <= was[u][l] + 1
<1>1. was'[u][l] = IF level[u] = l THEN 0 ELSE Later(was[u][l])
  BY DEF Tick
<1>2. was[u][l] \in 0 .. TooOld
  BY WasType DEF IInv
<1>3. QED
  BY <1>1, <1>2, Durations DEF Later

\* What has time left, and is no older than that allows, has a tick less and is a tick
\* older.
LEMMA TickLeaves ==
  ASSUME IInv, Tick, NEW u \in Users, NEW l \in Levels, NEW n \in Nat \ {0}, NEW m \in Nat,
         was[u][l] + n <= m
  PROVE  was'[u][l] + (n - 1) <= m
<1>1. was[u][l] \in Nat /\ was'[u][l] \in Nat /\ was'[u][l] <= was[u][l] + 1
  BY TickAges, WasType, Durations DEF IInv
<1>2. QED
  BY <1>1

LEMMA TickEntry ==
  ASSUME IInv, Tick, NEW entries, entries \in [Users -> Entry \cup {Nothing}],
         NEW u \in Users, entries[u] # Nothing =>
           was[u][entries[u].level] + entries[u].left <= QueryTimeout + JobTimeout + TTL
  PROVE  LET e == Aged(entries)[u]
         IN  e # Nothing =>
               /\ e \in Entry
               /\ was'[u][e.level] + e.left <= QueryTimeout + JobTimeout + TTL
<1> DEFINE e == Aged(entries)[u]
<1> SUFFICES ASSUME e # Nothing
             PROVE  /\ e \in Entry
                    /\ was'[u][e.level] + e.left <= QueryTimeout + JobTimeout + TTL
  OBVIOUS
<1>1. /\ entries[u] # Nothing /\ entries[u].left # 1
      /\ e = [entries[u] EXCEPT !.left = @ - 1]
  BY DEF Aged
<1>2. entries[u] \in Entry
  BY <1>1
<1>3. /\ entries[u].level \in Levels /\ entries[u].left \in Nat \ {0}
      /\ entries[u].left - 1 \in 1 .. TTL
  BY <1>1, <1>2, EntryFields, Durations
<1> HIDE DEF e
<1>4. e \in Entry /\ e.level = entries[u].level /\ e.left = entries[u].left - 1
  BY <1>1, <1>2, <1>3 DEF Entry
<1>5. was'[u][entries[u].level] + (entries[u].left - 1) <= QueryTimeout + JobTimeout + TTL
  BY <1>1, <1>3, TickLeaves, Durations
<1>6. QED
  BY <1>4, <1>5

LEMMA TickJob ==
  ASSUME IInv, Tick, NEW j \in Jobs
  PROVE  job'[j] \in JobState \cup {Nothing} /\ JobOK(j)'
<1>1. CASE job[j] = Nothing
  BY <1>1 DEF Tick, JobOK
<1>2. CASE job[j] # Nothing
  <2>1. /\ job[j] \in JobState /\ job[j].left > 0
        /\ job'[j] = [job[j] EXCEPT !.left = @ - 1]
    BY <1>2 DEF Tick, TimeMayPass, IInv, TypeOK
  <2>2. /\ job[j].user \in Users /\ job[j].level \in Levels /\ job[j].left \in Nat \ {0}
        /\ job[j].left - 1 \in 0 .. JobTimeout
    BY <2>1, JobFields, Durations
  <2>3. /\ job'[j] \in JobState /\ job'[j].user = job[j].user
        /\ job'[j].level = job[j].level /\ job'[j].left = job[j].left - 1
    BY <2>1, <2>2 DEF JobState
  <2>4. was[job[j].user][job[j].level] + job[j].left <= QueryTimeout + JobTimeout
    BY <1>2 DEF IInv, JobOK
  <2>5. was'[job[j].user][job[j].level] + (job[j].left - 1) <= QueryTimeout + JobTimeout
    BY <2>2, <2>4, TickLeaves, Durations
  <2>6. QED
    BY <2>3, <2>5 DEF JobOK
<1>3. QED
  BY <1>1, <1>2

LEMMA TickReq ==
  ASSUME IInv, Tick, NEW r \in Requests
  PROVE  req'[r] \in ReqState /\ ReqOK(r)'
<1> DEFINE x == req[r]
<1>1. x \in ReqState /\ ReqOK(r) /\ level' = level
  BY DEF Tick, IInv, TypeOK
<1>2. req'[r] = [x EXCEPT !.left = Less(@), !.queryLeft = Less(@)]
  BY DEF Tick
<1>3. x.left \in 0 .. RequestTimeout /\ x.queryLeft \in 0 .. QueryTimeout
  BY <1>1, ReqFields
<1>4. Less(x.left) \in 0 .. RequestTimeout /\ Less(x.queryLeft) \in 0 .. QueryTimeout
  BY <1>3, Durations DEF Less
<1>5. /\ req'[r] \in ReqState /\ req'[r].pc = x.pc /\ req'[r].user = x.user
      /\ req'[r].level = x.level /\ req'[r].answer = x.answer
      /\ req'[r].left = Less(x.left) /\ req'[r].queryLeft = Less(x.queryLeft)
  <2> HIDE DEF x
  <2> QED
    BY <1>1, <1>2, <1>4 DEF ReqState
<1>6. ASSUME x.pc = "answered"
      PROVE  was'[x.user][x.level] + Less(x.queryLeft) <= QueryTimeout
  <2>1. x.queryLeft > 0
    BY <1>6 DEF Tick, TimeMayPass
  <2>2. x.user \in Users /\ x.level \in Levels
        /\ was[x.user][x.level] + x.queryLeft <= QueryTimeout
    BY <1>1, <1>6 DEF ReqOK
  <2> HIDE DEF x
  <2>3. x.queryLeft \in Nat \ {0} /\ Less(x.queryLeft) = x.queryLeft - 1
    BY <1>3, <2>1, Durations DEF Less
  <2>4. QED
    BY <2>2, <2>3, TickLeaves, Durations
<1>7. ASSUME x.pc = "check"
      PROVE  was'[x.user][x.level] + Less(x.left) <= Bound
  <2>1. x.left > 0
    BY <1>7 DEF Tick, TimeMayPass
  <2>2. x.user \in Users /\ x.level \in Levels
        /\ was[x.user][x.level] + x.left <= Bound
    BY <1>1, <1>7 DEF ReqOK
  <2> HIDE DEF x
  <2>3. x.left \in Nat \ {0} /\ Less(x.left) = x.left - 1
    BY <1>3, <2>1, Durations DEF Less
  <2>4. QED
    BY <2>2, <2>3, TickLeaves, Durations
<1>8. QED
  BY <1>1, <1>5, <1>6, <1>7 DEF ReqOK

LEMMA TickInv ==
  ASSUME IInv, Tick
  PROVE  IInv'
<1>1. level' \in [Users -> Levels \cup {0}] /\ level' = level
  BY DEF Tick, IInv, TypeOK
<1>2. was' \in [Users -> [Levels -> 0 .. TooOld]]
  <2>1. was' = [u \in Users |-> [l \in Levels |-> was'[u][l]]]
    BY DEF Tick
  <2>2. QED
    BY <2>1, TickAges
<1>3. \A u \in Users : level'[u] # 0 => was'[u][level'[u]] = 0
  BY <1>1 DEF Tick
<1>4. ASSUME NEW entries, entries \in [Users -> Entry \cup {Nothing}],
             \A u \in Users : EntryOK(entries, u)
      PROVE  /\ Aged(entries) \in [Users -> Entry \cup {Nothing}]
             /\ \A u \in Users : Aged(entries)[u] # Nothing =>
                  was'[u][Aged(entries)[u].level] + Aged(entries)[u].left
                    <= QueryTimeout + JobTimeout + TTL
  <2>1. \A u \in Users : Aged(entries)[u] # Nothing =>
          /\ Aged(entries)[u] \in Entry
          /\ was'[u][Aged(entries)[u].level] + Aged(entries)[u].left
               <= QueryTimeout + JobTimeout + TTL
    BY <1>4, TickEntry DEF EntryOK
  <2>2. Aged(entries) = [u \in Users |-> Aged(entries)[u]]
    BY DEF Aged
  <2>3. QED
    BY <2>1, <2>2
<1>5. cache' \in [Users -> Entry \cup {Nothing}] /\ \A u \in Users : EntryOK(cache, u)'
  BY <1>4 DEF Tick, IInv, TypeOK, EntryOK
<1>6. saved' \in [Users -> Entry \cup {Nothing}] /\ \A u \in Users : EntryOK(saved, u)'
  BY <1>4 DEF Tick, IInv, TypeOK, EntryOK
<1>7. job' \in [Jobs -> JobState \cup {Nothing}] /\ \A j \in Jobs : JobOK(j)'
  <2>1. job' = [j \in Jobs |-> job'[j]]
    BY DEF Tick
  <2>2. QED
    BY <2>1, TickJob
<1>8. req' \in [Requests -> ReqState] /\ \A r \in Requests : ReqOK(r)'
  <2>1. req' = [r \in Requests |-> req'[r]]
    BY DEF Tick
  <2>2. QED
    BY <2>1, TickReq
<1>9. QED
  BY <1>1, <1>2, <1>3, <1>5, <1>6, <1>7, <1>8 DEF IInv, TypeOK

-----------------------------------------------------------------------------
(* What follows for the program.                                           *)

LEMMA InitInv == Init => IInv
<1> SUFFICES ASSUME Init PROVE IInv
  OBVIOUS
<1>1. IdleReq \in ReqState /\ IdleReq.pc = "idle"
  BY Deadlines DEF IdleReq, ReqState
<1>2. TooOld \in 0 .. TooOld
  BY Durations
<1>3. TypeOK
  BY <1>1, <1>2 DEF Init, TypeOK
<1>4. QED
  BY <1>1, <1>3 DEF Init, IInv, EntryOK, JobOK, ReqOK

LEMMA StepInv == IInv /\ [Next]_vars => IInv'
<1> SUFFICES ASSUME IInv, [Next]_vars PROVE IInv'
  OBVIOUS
<1>1. ASSUME NEW r \in Requests, RequestStep(r) PROVE IInv'
  BY <1>1, BeginInv, CacheHitInv, CacheMissInv, QueryUserInv, GotUserInv, AnswerInv
  DEF RequestStep
<1>2. CASE UNCHANGED vars
  BY <1>2, RolesKept DEF vars, IInv, TypeOK
<1>3. QED
  BY <1>1, <1>2, RoleInv, JobSetInv, LossInv, TickInv DEF Next

\* Copies of a role, in requests, goroutines, Redis and its snapshots, are dropped before
\* they are older than the deadlines of the code allow.
THEOREM AccessInvariant == Spec => []IInv
BY InitInv, StepInv, PTL DEF Spec

\* Rows, entries, goroutines and requests keep their types.
THEOREM AccessTypeOK == Spec => []TypeOK
<1>1. IInv => TypeOK
  BY DEF IInv
<1>2. QED
  BY <1>1, AccessInvariant, PTL

LEMMA RecentByIInv == IInv => RoleIsRecent
<1> SUFFICES ASSUME IInv, NEW r \in Requests, req[r].pc = "check"
             PROVE  was[req[r].user][req[r].level] <= Bound
  BY DEF RoleIsRecent
<1>1. req[r] \in ReqState /\ ReqOK(r)
  BY DEF IInv, TypeOK
<1>2. /\ req[r].user \in Users /\ req[r].level \in Levels
      /\ was[req[r].user][req[r].level] + req[r].left <= Bound
  BY <1>1 DEF ReqOK
<1>3. was[req[r].user][req[r].level] \in Nat /\ req[r].left \in Nat
  BY <1>1, <1>2, WasType, ReqFields DEF IInv
<1>4. QED
  BY <1>2, <1>3, Durations

\* A new role is in force everywhere once a query, a goroutine, an entry and a request
\* have had their time.
THEOREM AccessRoleIsRecent == Spec => []RoleIsRecent
BY RecentByIInv, AccessInvariant, PTL

\* Only an answer of checkOrderOwnership or checkRolePrecedence ends a check so.
LEMMA Decided ==
  ASSUME IInv, [Next]_vars, NEW r \in Requests, req[r].pc # "idle",
         req'[r].answer \in {"served", "refused"}
  PROVE  \/ req'[r].answer = "served" /\ Serve(r)
         \/ req'[r].answer = "refused" /\ Refuse(r)
<1>1. req \in [Requests -> ReqState] /\ req[r].answer = "none"
  BY BusyReq DEF IInv, TypeOK
<1>2. req'[r] # req[r]
  BY <1>1
<1>3. ASSUME NEW s \in Requests, RequestStep(s)
      PROVE  \/ req'[r].answer = "served" /\ Serve(r)
             \/ req'[r].answer = "refused" /\ Refuse(r)
  <2>1. \A a \in {"served", "refused", "error"} :
          Answer(r, a) => req'[r].answer = a
    BY <1>1 DEF Answer, ReqState
  <2>2. s = r
    BY <1>1, <1>2, <1>3 DEF RequestStep, Begin, CacheHit, CacheMiss, QueryUser, GotUser,
                            Serve, Refuse, RequestError, Answer
  <2>3. CASE Serve(r) \/ Refuse(r) \/ RequestError(r)
    BY <2>1, <2>3 DEF Serve, Refuse, RequestError
  <2>4. CASE \E u \in Users, owner \in Users \cup {Nothing} : Begin(r, u, owner)
    BY <2>4 DEF Begin
  <2>5. CASE CacheHit(r) \/ CacheMiss(r) \/ QueryUser(r) \/ GotUser(r)
    <3>1. req'[r].answer = req[r].answer
      BY <1>1, <2>5 DEF CacheHit, CacheMiss, QueryUser, GotUser, ReqState
    <3>2. QED
      BY <1>1, <3>1
  <2>6. QED
    BY <1>3, <2>2, <2>3, <2>4, <2>5 DEF RequestStep
<1>4. CASE Restart
  BY <1>4 DEF Restart, IdleReq
<1>5. CASE Tick
  <2>1. req'[r].answer = req[r].answer
    BY <1>1, <1>5 DEF Tick, ReqState
  <2>2. QED
    BY <1>1, <2>1
<1>6. QED
  BY <1>2, <1>3, <1>4, <1>5
  DEF Next, vars, CreateUser, ChangeRole, JobSet, JobFails, Save, RedisRestart,
      RedisReplaced

\* Who is served an order owns it or was admin lately, who creates a product was admin
\* lately, whatever roles change and whatever Redis brings back.
THEOREM AccessServedIsAllowed == Spec => ServedIsAllowed
<1>1. ASSUME IInv, [Next]_vars, NEW r \in Requests, req[r].pc # "idle",
             req'[r].answer = "served"
      PROVE  \/ req[r].owner = req[r].user
             \/ was[req[r].user][AdminLevel] <= Bound
  <2>1. Serve(r)
    BY <1>1, Decided
  <2>2. ReqOK(r) /\ req[r].pc = "check" /\ RoleIsRecent
    BY <1>1, <2>1, RecentByIInv DEF IInv, Serve
  <2>3. req[r].level \in Levels
    BY <2>2 DEF ReqOK
  <2>4. CASE Owns(r)
    BY <2>4 DEF Owns
  <2>5. CASE Precedes(r)
    <3>1. req[r].level = AdminLevel
      BY <2>3, <2>5 DEF Precedes, Levels, UserLevel, AdminLevel
    <3>2. QED
      BY <2>2, <3>1 DEF RoleIsRecent
  <2>6. QED
    BY <2>1, <2>4, <2>5 DEF Serve
<1>2. IInv /\ [Next]_vars =>
        \A r \in Requests :
          req[r].pc # "idle" /\ req'[r].answer = "served" =>
            \/ req[r].owner = req[r].user
            \/ was[req[r].user][AdminLevel] <= Bound
  BY <1>1
<1>3. QED
  BY <1>2, AccessInvariant, PTL DEF Spec, ServedIsAllowed

\* Who is refused does not own the order and was a plain user lately: no owner and nobody
\* who has long been admin is turned away.
THEOREM AccessRefusedIsJustified == Spec => RefusedIsJustified
<1>1. ASSUME IInv, [Next]_vars, NEW r \in Requests, req[r].pc # "idle",
             req'[r].answer = "refused"
      PROVE  /\ req[r].owner # req[r].user
             /\ was[req[r].user][UserLevel] <= Bound
  <2>1. Refuse(r)
    BY <1>1, Decided
  <2>2. ReqOK(r) /\ req[r].pc = "check" /\ RoleIsRecent
    BY <1>1, <2>1, RecentByIInv DEF IInv, Refuse
  <2>3. req[r].level \in Levels
    BY <2>2 DEF ReqOK
  <2>4. req[r].level = UserLevel
    BY <2>1, <2>3 DEF Refuse, Precedes, Levels, UserLevel, AdminLevel
  <2>5. was[req[r].user][UserLevel] <= Bound
    BY <2>2, <2>4 DEF RoleIsRecent
  <2>6. QED
    BY <2>1, <2>5 DEF Refuse, Owns
<1>2. IInv /\ [Next]_vars =>
        \A r \in Requests :
          req[r].pc # "idle" /\ req'[r].answer = "refused" =>
            /\ req[r].owner # req[r].user
            /\ was[req[r].user][UserLevel] <= Bound
  BY <1>1
<1>3. QED
  BY <1>2, AccessInvariant, PTL DEF Spec, RefusedIsJustified
=============================================================================
