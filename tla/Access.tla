------------------------------- MODULE Access -------------------------------
(***************************************************************************)
(* Who is let through: AuthTokenMiddleware and getUser with the read-aside *)
(* cache of users, checkOrderOwnership and checkRolePrecedence.  A user's  *)
(* role is read from the cache or the users table; nothing deletes a       *)
(* cached user, so a new role is seen when the entry has expired, also     *)
(* when Redis crashes and comes back with the entries of its last snapshot.*)
(***************************************************************************)
EXTENDS Naturals

CONSTANTS
  Users,           \* ids of users rows
  Requests,        \* goroutines serving requests that carry an access token
  Jobs,            \* bound of the model on goroutines started with go func()
  Nothing,         \* no entry, no job; as an owner: somebody else, or a new product
  TTL,             \* UserExpTime
  JobTimeout,      \* the 3 seconds of getUser's goroutine
  QueryTimeout,    \* QueryTimeoutDuration of the store
  RequestTimeout   \* middleware.Timeout

UserLevel == 1
AdminLevel == 10
Levels == {UserLevel, AdminLevel}

\* A cached user, and what a goroutine that caches one has been given.
Entry == [level : Levels, left : 1 .. TTL]

JobState == [user : Users, level : Levels, left : 0 .. JobTimeout]

ReqState ==
  [pc        : {"idle", "lookup", "query", "answered", "check"},
   user      : Users \cup {Nothing},
   owner     : Users \cup {Nothing},
   level     : Levels \cup {0},
   left      : 0 .. RequestTimeout,
   queryLeft : 0 .. QueryTimeout,
   answer    : {"none", "served", "refused", "error"}]

ASSUME AccessAssumption ==
  /\ Nothing \notin Users \cup Entry \cup JobState
  /\ TTL \in Nat \ {0}
  /\ {JobTimeout, QueryTimeout, RequestTimeout} \subseteq Nat

VARIABLES
  level,  \* the level of the role of each users row, 0 where there is no row
  cache,  \* Redis: the entry of each user, with the ticks it has left
  saved,  \* the entries of the last snapshot of Redis
  req,    \* what each request is doing
  job,    \* the goroutines started and not finished
  was     \* ticks since each user last had each level, up to TooOld (history)

vars == <<level, cache, saved, req, job, was>>

Bound == QueryTimeout + JobTimeout + TTL + RequestTimeout
TooOld == Bound + 1

Later(n) == IF n < TooOld THEN n + 1 ELSE n

IdleReq == [pc |-> "idle", user |-> Nothing, owner |-> Nothing, level |-> 0,
            left |-> 0, queryLeft |-> 0, answer |-> "none"]

Init ==
  /\ level = [u \in Users |-> 0]
  /\ cache = [u \in Users |-> Nothing]
  /\ saved = [u \in Users |-> Nothing]
  /\ req = [r \in Requests |-> IdleReq]
  /\ job = [j \in Jobs |-> Nothing]
  /\ was = [u \in Users |-> [l \in Levels |-> TooOld]]

-----------------------------------------------------------------------------
(* The users table                                                         *)

\* registerUserHandler inserts a "user", the seed an "admin".
CreateUser(u, l) ==
  /\ level[u] = 0
  /\ level' = [level EXCEPT ![u] = l]
  /\ was' = [was EXCEPT ![u][l] = 0]
  /\ UNCHANGED <<cache, saved, req, job>>

\* UPDATE users SET role_id by an operator: no code of the service does it.
ChangeRole(u, l) ==
  /\ level[u] \notin {0, l}
  /\ level' = [level EXCEPT ![u] = l]
  /\ was' = [was EXCEPT ![u][l] = 0]
  /\ UNCHANGED <<cache, saved, req, job>>

-----------------------------------------------------------------------------
(* AuthTokenMiddleware and getUser                                         *)

\* The token is valid; the request is about an order of owner, or a new product.
Begin(r, u, owner) ==
  /\ req[r].pc = "idle"
  /\ level[u] # 0
  /\ req' = [req EXCEPT ![r] = [IdleReq EXCEPT !.pc = "lookup", !.user = u,
                                               !.owner = owner, !.left = RequestTimeout]]
  /\ UNCHANGED <<level, cache, saved, job, was>>

\* Mutant of Kept: a hit renews the entry (GETEX in place of GET).
Renewed(u) == cache' = [cache EXCEPT ![u].left = TTL]

\* A GET leaves the entry and its expiry as they are.
Kept(u) == cache' = cache

CacheHit(r) ==
  LET u == req[r].user
  IN  /\ req[r].pc = "lookup"
      /\ cache[u] # Nothing
      /\ req' = [req EXCEPT ![r].pc = "check", ![r].level = cache[u].level]
      /\ Kept(u)
      /\ UNCHANGED <<level, saved, job, was>>

\* No entry, or an error of Redis, which is logged and treated the same.
CacheMiss(r) ==
  /\ req[r].pc = "lookup"
  /\ req' = [req EXCEPT ![r].pc = "query"]
  /\ UNCHANGED <<level, cache, saved, job, was>>

\* PostgreSQL runs the SELECT of GetById ...
QueryUser(r) ==
  /\ req[r].pc = "query"
  /\ req' = [req EXCEPT ![r].pc = "answered", ![r].level = level[req[r].user],
                        ![r].queryLeft = QueryTimeout]
  /\ UNCHANGED <<level, cache, saved, job, was>>

\* ... and its row arrives: the goroutine that caches the user is started.
GotUser(r) ==
  /\ req[r].pc = "answered"
  /\ req' = [req EXCEPT ![r].pc = "check", ![r].queryLeft = 0]
  /\ \E j \in Jobs :
       /\ job[j] = Nothing
       /\ job' = [job EXCEPT ![j] = [user |-> req[r].user, level |-> req[r].level,
                                     left |-> JobTimeout]]
  /\ UNCHANGED <<level, cache, saved, was>>

-----------------------------------------------------------------------------
(* checkOrderOwnership, and checkRolePrecedence in it and in createProduct *)

Answer(r, a) ==
  req' = [req EXCEPT ![r].pc = "idle", ![r].left = 0, ![r].queryLeft = 0,
                     ![r].answer = a]

\* Mutant of Owns: only admins pass.
OwnsNothing(r) == FALSE

Owns(r) == req[r].owner = req[r].user

\* Mutant of Precedes: the level of the role "user" is asked for.
PrecedesUser(r) == req[r].level >= UserLevel

Precedes(r) == req[r].level >= AdminLevel

Serve(r) ==
  /\ req[r].pc = "check"
  /\ Owns(r) \/ Precedes(r)
  /\ Answer(r, "served")
  /\ UNCHANGED <<level, cache, saved, job, was>>

Refuse(r) ==
  /\ req[r].pc = "check"
  /\ ~Owns(r) /\ ~Precedes(r)
  /\ Answer(r, "refused")
  /\ UNCHANGED <<level, cache, saved, job, was>>

\* An error of the store, or the time of the request is over: 404 or 500.
RequestError(r) ==
  /\ req[r].pc # "idle"
  /\ Answer(r, "error")
  /\ UNCHANGED <<level, cache, saved, job, was>>

-----------------------------------------------------------------------------
(* The goroutines, restarts and time                                       *)

JobSet(j) ==
  /\ job[j] # Nothing
  /\ cache' = [cache EXCEPT ![job[j].user] = [level |-> job[j].level, left |-> TTL]]
  /\ job' = [job EXCEPT ![j] = Nothing]
  /\ UNCHANGED <<level, saved, req, was>>

JobFails(j) ==
  /\ job[j] # Nothing
  /\ job' = [job EXCEPT ![j] = Nothing]
  /\ UNCHANGED <<level, cache, saved, req, was>>

Restart ==
  /\ req' = [r \in Requests |-> IdleReq]
  /\ job' = [j \in Jobs |-> Nothing]
  /\ UNCHANGED <<level, cache, saved, was>>

\* Mutant of TimeMayPass: a router without middleware.Timeout.
RequestsLinger ==
  /\ \A j \in Jobs : job[j] # Nothing => job[j].left > 0
  /\ \A r \in Requests : req[r].pc = "answered" => req[r].queryLeft > 0

\* Contexts end in time: whoever's time is up has its turn first.
TimeMayPass ==
  /\ \A j \in Jobs : job[j] # Nothing => job[j].left > 0
  /\ \A r \in Requests :
       /\ req[r].pc = "answered" => req[r].queryLeft > 0
       /\ req[r].pc # "idle" => req[r].left > 0

\* redis-server --save 60 1 and restart: unless-stopped, as in OrderCacheCrash.
Save ==
  /\ saved' = cache
  /\ UNCHANGED <<level, cache, req, job, was>>

RedisRestart ==
  /\ cache' = saved
  /\ UNCHANGED <<level, saved, req, job, was>>

RedisReplaced ==
  /\ cache' = [u \in Users |-> Nothing]
  /\ saved' = cache'
  /\ UNCHANGED <<level, req, job, was>>

Less(n) == IF n = 0 THEN 0 ELSE n - 1

\* Entries a tick later.
Aged(entries) ==
  [u \in Users |-> IF entries[u] = Nothing \/ entries[u].left = 1 THEN Nothing
                   ELSE [entries[u] EXCEPT !.left = @ - 1]]

Tick ==
  /\ TimeMayPass
  /\ cache' = Aged(cache)
  /\ saved' = Aged(saved)
  /\ job' = [j \in Jobs |-> IF job[j] = Nothing THEN Nothing
                            ELSE [job[j] EXCEPT !.left = @ - 1]]
  /\ req' = [r \in Requests |-> [req[r] EXCEPT !.left = Less(@), !.queryLeft = Less(@)]]
  /\ was' = [u \in Users |-> [l \in Levels |-> IF level[u] = l THEN 0
                                               ELSE Later(was[u][l])]]
  /\ UNCHANGED level

RequestStep(r) ==
  \/ \E u \in Users, owner \in Users \cup {Nothing} : Begin(r, u, owner)
  \/ CacheHit(r) \/ CacheMiss(r) \/ QueryUser(r) \/ GotUser(r)
  \/ Serve(r) \/ Refuse(r) \/ RequestError(r)

Next ==
  \/ \E u \in Users, l \in Levels : CreateUser(u, l) \/ ChangeRole(u, l)
  \/ \E r \in Requests : RequestStep(r)
  \/ \E j \in Jobs : JobSet(j) \/ JobFails(j)
  \/ Restart
  \/ Save \/ RedisRestart \/ RedisReplaced
  \/ Tick

Spec == Init /\ [][Next]_vars

-----------------------------------------------------------------------------

\* Every variable has its type.
TypeOK ==
  /\ level \in [Users -> Levels \cup {0}]
  /\ cache \in [Users -> Entry \cup {Nothing}]
  /\ saved \in [Users -> Entry \cup {Nothing}]
  /\ job \in [Jobs -> JobState \cup {Nothing}]
  /\ req \in [Requests -> ReqState]
  /\ was \in [Users -> [Levels -> 0 .. TooOld]]

\* A copy of a role is as old as the time it has had, which is gone from the time it
\* has left.
EntryOK(entries, u) ==
  entries[u] # Nothing =>
    was[u][entries[u].level] + entries[u].left <= QueryTimeout + JobTimeout + TTL

JobOK(j) ==
  job[j] # Nothing =>
    was[job[j].user][job[j].level] + job[j].left <= QueryTimeout + JobTimeout

ReqOK(r) ==
  /\ req[r].pc # "idle" =>
       req[r].user \in Users /\ level[req[r].user] # 0 /\ req[r].answer = "none"
  /\ req[r].pc \in {"answered", "check"} => req[r].level \in Levels
  /\ req[r].pc = "answered" =>
       was[req[r].user][req[r].level] + req[r].queryLeft <= QueryTimeout
  /\ req[r].pc = "check" => was[req[r].user][req[r].level] + req[r].left <= Bound

\* The inductive invariant: what is read from the table is what it says now, and every
\* copy, in a request, a goroutine, Redis or its snapshot, grows old within its time.
IInv ==
  /\ TypeOK
  /\ \A u \in Users : level[u] # 0 => was[u][level[u]] = 0
  /\ \A u \in Users : EntryOK(cache, u) /\ EntryOK(saved, u)
  /\ \A j \in Jobs : JobOK(j)
  /\ \A r \in Requests : ReqOK(r)

\* A decision is made on a role the user had within the last query, goroutine, TTL
\* and request: a promotion or demotion is in force after that time, however the
\* Sets of older reads are delayed, overtake one another, are lost in a crash of
\* Redis or come back with one.
RoleIsRecent ==
  \A r \in Requests : req[r].pc = "check" => was[req[r].user][req[r].level] <= Bound

\* "Users cannot see each other's orders" (README.md:14) and "Users cannot crete
\* products" (README.md:13): who is served owns the order or was admin lately.
ServedIsAllowed ==
  [][\A r \in Requests :
       req[r].pc # "idle" /\ req'[r].answer = "served" =>
         \/ req[r].owner = req[r].user
         \/ was[req[r].user][AdminLevel] <= Bound]_vars

\* "Administrators have access to orders and product management" (README.md:15): who
\* is refused is not the owner and was a plain user lately.
RefusedIsJustified ==
  [][\A r \in Requests :
       req[r].pc # "idle" /\ req'[r].answer = "refused" =>
         /\ req[r].owner # req[r].user
         /\ was[req[r].user][UserLevel] <= Bound]_vars
=============================================================================
