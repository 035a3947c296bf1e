-------------------------- MODULE OrderCacheProofs ---------------------------
(***************************************************************************)
(* The order cache is stale for a bounded time, never tells what was not   *)
(* so, and lets one request at most cancel an order, for any number of     *)
(* orders, requests and goroutines and any timeouts.  IInv of OrderCache   *)
(* is inductive: the steps are grouped by whether they settle an order.    *)
(* The last part adds the crashes of Redis.                                *)
(***************************************************************************)
EXTENDS OrderCacheCrash, TLAPS

\* The constants are durations.
LEMMA Durations ==
  /\ TTL \in Nat \ {0} /\ JobTimeout \in Nat /\ QueryTimeout \in Nat
  /\ Bound \in Nat /\ Bound = QueryTimeout + JobTimeout + TTL
BY CacheAssumption DEF Bound

\* No entry and no goroutine is Nothing.
LEMMA Somethings ==
  /\ Nothing \notin Entry
  /\ Nothing \notin JobState
BY CacheAssumption DEF Entry, JobState

\* A view just read from a row is the row.
LEMMA FreshView ==
  ASSUME TypeOK, NEW o \in OrderIds, status[o] # "absent", NEW w \in BOOLEAN
  PROVE  /\ [status |-> status[o], whole |-> w] \in View
         /\ Truthful(o, [status |-> status[o], whole |-> w])
         /\ ~Stale(o, [status |-> status[o], whole |-> w])
BY DEF TypeOK, View, Truthful, Stale

\* The fields of a request.
LEMMA ReqFields ==
  ASSUME TypeOK, NEW r \in Requests
  PROVE  /\ req[r] \in ReqState
         /\ req[r].order \in OrderIds
         /\ req[r].view \in View \cup {Nothing}
         /\ req[r].left \in Nat
BY DEF TypeOK, ReqState

LEMMA JobFields ==
  ASSUME TypeOK, NEW j \in Jobs, job[j] # Nothing
  PROVE  /\ job[j] \in JobState
         /\ job[j].order \in OrderIds
         /\ job[j].view \in View \cup {Nothing}
         /\ job[j].left \in Nat
BY DEF TypeOK, JobState

LEMMA EntryFields ==
  ASSUME TypeOK, NEW o \in OrderIds, cache[o] # Nothing
  PROVE  /\ cache[o] \in Entry
         /\ cache[o].view \in View
         /\ cache[o].left \in Nat
BY DEF TypeOK, Entry

\* What a request, a goroutine or an entry satisfies depends on the rows, the ages
\* and itself.
LEMMA ReqKept ==
  ASSUME NEW r \in Requests, ReqOK(r), req'[r] = req[r], status' = status, age' = age
  PROVE  ReqOK(r)'
BY DEF ReqOK, Winner, Truthful, Stale, Settled

LEMMA JobKept ==
  ASSUME NEW j \in Jobs, JobOK(j), job'[j] = job[j], status' = status, age' = age
  PROVE  JobOK(j)'
BY DEF JobOK, Truthful, Stale, Settled

LEMMA EntryKept ==
  ASSUME NEW o \in OrderIds, EntryOK(o), cache'[o] = cache[o], status' = status,
         age' = age
  PROVE  EntryOK(o)'
BY DEF EntryOK, Truthful, Stale, Settled

\* The frames of the parts of a state that a step leaves alone altogether.
LEMMA RowsKept ==
  ASSUME IInv, status' = status, age' = age
  PROVE  /\ status' \in [OrderIds -> RowStatus \cup {"absent"}]
         /\ age' \in [OrderIds -> Nat]
         /\ (\A o \in OrderIds : ~Settled(o) => age[o] = 0)'
         /\ cache' = cache => (\A o \in OrderIds : EntryOK(o)')
         /\ job' = job => (\A j \in Jobs : JobOK(j)')
         /\ req' = req => (\A r \in Requests : ReqOK(r)')
BY EntryKept, JobKept, ReqKept DEF IInv, TypeOK, Settled

\* Starting a goroutine with a good job keeps every job good.
LEMMA StartJobOK ==
  ASSUME IInv, status' = status, age' = age,
         NEW op \in {"set", "delete"}, NEW o \in OrderIds, NEW v \in View \cup {Nothing},
         StartJob(op, o, v),
         op = "set" => /\ v # Nothing
                       /\ Truthful(o, v)
                       /\ Stale(o, v) => age[o] + JobTimeout + TTL <= Bound
  PROVE  job' \in [Jobs -> JobState \cup {Nothing}] /\ \A j \in Jobs : JobOK(j)'
<1> DEFINE new == [op |-> op, order |-> o, view |-> v, left |-> JobTimeout]
<1>1. new \in JobState
  BY Durations DEF JobState
<1>2. PICK i \in Jobs : job' = [job EXCEPT ![i] = new]
  BY DEF StartJob
<1>3. job' \in [Jobs -> JobState \cup {Nothing}]
  BY <1>1, <1>2 DEF IInv, TypeOK
<1>4. ASSUME NEW j \in Jobs PROVE JobOK(j)'
  <2>1. CASE j # i
    <3>1. job'[j] = job[j]
      BY <2>1, <1>2 DEF IInv, TypeOK
    <3>2. QED
      BY <3>1, JobKept DEF IInv
  <2>2. CASE j = i
    <3>1. job'[j] = new
      BY <2>2, <1>2 DEF IInv, TypeOK
    <3>2. new.op = op /\ new.order = o /\ new.view = v /\ new.left = JobTimeout
      OBVIOUS
    <3>3. QED
      BY <3>1, <3>2, Durations DEF JobOK, Truthful, Stale, Settled
  <2>3. QED
    BY <2>1, <2>2
<1>5. QED
  BY <1>3, <1>4

\* Ending a goroutine.
LEMMA FinishOK ==
  ASSUME IInv, status' = status, age' = age, NEW j \in Jobs, Finish(j)
  PROVE  job' \in [Jobs -> JobState \cup {Nothing}] /\ \A i \in Jobs : JobOK(i)'
<1>1. job' \in [Jobs -> JobState \cup {Nothing}]
  BY DEF IInv, TypeOK, Finish
<1>2. ASSUME NEW i \in Jobs PROVE JobOK(i)'
  <2>1. CASE i # j
    <3>1. job'[i] = job[i]
      BY <2>1 DEF IInv, TypeOK, Finish
    <3>2. QED
      BY <3>1, JobKept DEF IInv
  <2>2. CASE i = j
    BY <2>2 DEF IInv, TypeOK, Finish, JobOK
  <2>3. QED
    BY <2>1, <2>2
<1>3. QED
  BY <1>1, <1>2

\* A request that moves to a good state that wins nothing.
LEMMA ReqMoves ==
  ASSUME IInv, status' = status, age' = age, NEW r \in Requests, NEW x \in ReqState,
         req' = [req EXCEPT ![r] = x], ReqOK(r)', Winner(r)' => Winner(r),
         x.order = req[r].order \/ ~Winner(r)'
  PROVE  /\ req' \in [Requests -> ReqState]
         /\ \A s \in Requests : ReqOK(s)'
         /\ (\A s, t \in Requests :
               Winner(s) /\ Winner(t) /\ req[s].order = req[t].order => s = t)'
<1>1. req' \in [Requests -> ReqState] /\ req'[r] = x /\ \A s \in Requests : s # r => req'[s] = req[s]
  BY DEF IInv, TypeOK
<1>2. \A s \in Requests : ReqOK(s)'
  BY <1>1, ReqKept DEF IInv
<1>3. \A s \in Requests : Winner(s)' => Winner(s) /\ req'[s].order = req[s].order
  BY <1>1 DEF Winner
<1>4. QED
  BY <1>1, <1>2, <1>3 DEF IInv

-----------------------------------------------------------------------------
(* Steps that change no row.                                               *)

\* Answering keeps the requests good; only who has cancelled answers "ok".
LEMMA AnswerOK ==
  ASSUME IInv, status' = status, age' = age, NEW r \in Requests,
         NEW a \in {"shown", "ok", "refused", "notfound", "error"},
         a = "ok" => req[r].pc = "cancelled", Answer(r, a)
  PROVE  /\ req' \in [Requests -> ReqState]
         /\ \A s \in Requests : ReqOK(s)'
         /\ (\A s, t \in Requests :
               Winner(s) /\ Winner(t) /\ req[s].order = req[t].order => s = t)'
<1> DEFINE x == [req[r] EXCEPT !.pc = "idle", !.left = 0, !.answer = a,
                               !.view = Nothing]
<1>1. TypeOK
  BY DEF IInv
<1>2. x \in ReqState
  BY <1>1, ReqFields DEF ReqState
<1>3. x.pc = "idle" /\ x.answer = a /\ x.order = req[r].order /\ x.view = Nothing
  BY <1>1, ReqFields DEF ReqState
<1>4. req' = [req EXCEPT ![r] = x]
  BY DEF Answer
<1>5. req'[r] = x
  BY <1>1, <1>4 DEF TypeOK
<1> HIDE DEF x
<1>6. ReqOK(r)' /\ (Winner(r)' => Winner(r))
  BY <1>3, <1>5 DEF IInv, ReqOK, Winner, Truthful
<1>7. QED
  BY <1>2, <1>3, <1>4, <1>6, ReqMoves

LEMMA BeginInv ==
  ASSUME IInv, NEW r \in Requests, NEW op \in {"get", "cancel"}, NEW o \in OrderIds,
         Begin(r, op, o)
  PROVE  IInv'
<1> DEFINE x == [IdleReq EXCEPT !.pc = "lookup", !.op = op, !.order = o]
<1>1. status' = status /\ age' = age /\ cache' = cache /\ job' = job /\ janitor' = janitor
  BY DEF Begin
<1>2. x \in ReqState /\ x.pc = "lookup" /\ x.answer = "none" /\ x.view = Nothing
  BY DEF IdleReq, ReqState
<1>3. req' = [req EXCEPT ![r] = x]
  BY DEF Begin
<1>4. req'[r] = x
  BY <1>3 DEF IInv, TypeOK
<1> HIDE DEF x
<1>5. ReqOK(r)' /\ ~Winner(r)'
  BY <1>2, <1>4 DEF ReqOK, Winner
<1>6. QED
  BY <1>1, <1>2, <1>3, <1>5, ReqMoves, RowsKept DEF IInv, TypeOK

LEMMA CacheHitInv ==
  ASSUME IInv, NEW r \in Requests, CacheHit(r)
  PROVE  IInv'
<1> DEFINE o == req[r].order
           x == [req[r] EXCEPT !.pc = "serve", !.view = cache[o].view]
<1>1. status' = status /\ age' = age /\ cache' = cache /\ job' = job /\ janitor' = janitor
  BY DEF CacheHit, Kept
<1>2. TypeOK /\ req[r].pc = "lookup" /\ cache[o] # Nothing
  BY DEF IInv, CacheHit
<1>3. o \in OrderIds /\ cache[o].view \in View /\ Truthful(o, cache[o].view)
  BY <1>2, ReqFields, EntryFields DEF IInv, EntryOK
<1>4. /\ x \in ReqState /\ x.pc = "serve" /\ x.order = o /\ x.view = cache[o].view
      /\ x.answer = req[r].answer
  BY <1>2, <1>3, ReqFields DEF ReqState
<1>5. req' = [req EXCEPT ![r] = x]
  BY DEF CacheHit
<1>6. req'[r] = x
  BY <1>2, <1>5 DEF TypeOK
<1>7. req[r].answer = "none"
  BY <1>2 DEF IInv, ReqOK
<1>8. cache[o].view # Nothing
  BY <1>3, CacheAssumption
<1> HIDE DEF x, o
<1>9. ReqOK(r)' /\ ~Winner(r)'
  BY <1>1, <1>3, <1>4, <1>6, <1>7, <1>8 DEF ReqOK, Winner, Truthful
<1>10. QED
  BY <1>1, <1>4, <1>5, <1>9, ReqMoves, RowsKept DEF IInv, TypeOK

LEMMA CacheMissInv ==
  ASSUME IInv, NEW r \in Requests, CacheMiss(r)
  PROVE  IInv'
<1> DEFINE x == [req[r] EXCEPT !.pc = "query"]
<1>1. status' = status /\ age' = age /\ cache' = cache /\ job' = job /\ janitor' = janitor
  BY DEF CacheMiss
<1>2. TypeOK /\ req[r].pc = "lookup" /\ req[r].answer = "none"
  BY DEF IInv, CacheMiss, ReqOK
<1>3. /\ x \in ReqState /\ x.pc = "query" /\ x.order = req[r].order
      /\ x.view = req[r].view /\ x.answer = "none"
  BY <1>2, ReqFields DEF ReqState
<1>4. req' = [req EXCEPT ![r] = x]
  BY DEF CacheMiss
<1>5. req'[r] = x
  BY <1>2, <1>4 DEF TypeOK
<1> HIDE DEF x
<1>6. ReqOK(r)' /\ ~Winner(r)'
  BY <1>1, <1>3, <1>5 DEF IInv, ReqOK, Winner, Truthful
<1>7. QED
  BY <1>1, <1>3, <1>4, <1>6, ReqMoves, RowsKept DEF IInv, TypeOK

LEMMA QueryOrderInv ==
  ASSUME IInv, NEW r \in Requests, QueryOrder(r)
  PROVE  IInv'
<1> DEFINE o == req[r].order
           v == [status |-> status[o], whole |-> FALSE]
           x == [req[r] EXCEPT !.pc = "items", !.left = QueryTimeout, !.view = v]
<1>1. status' = status /\ age' = age /\ cache' = cache /\ job' = job /\ janitor' = janitor
  BY DEF QueryOrder
<1>2. TypeOK /\ req[r].pc = "query" /\ req[r].answer = "none" /\ o \in OrderIds
  BY ReqFields DEF IInv, QueryOrder, ReqOK
<1>3. CASE status[o] = "absent"
  <2>1. Answer(r, "notfound")
    BY <1>3 DEF QueryOrder
  <2>2. QED
    BY <1>1, <2>1, AnswerOK, RowsKept DEF IInv, TypeOK
<1>4. CASE status[o] # "absent"
  <2>1. v \in View /\ Truthful(o, v) /\ ~Stale(o, v) /\ v # Nothing
    BY <1>2, <1>4, FreshView, CacheAssumption
  <2>2. /\ x \in ReqState /\ x.pc = "items" /\ x.order = o /\ x.view = v
        /\ x.left = QueryTimeout /\ x.answer = "none"
    <3> HIDE DEF v
    <3> QED
      BY <1>2, <2>1, ReqFields, Durations DEF ReqState
  <2>3. req' = [req EXCEPT ![r] = x]
    BY <1>4 DEF QueryOrder
  <2>4. req'[r] = x
    BY <1>2, <2>3 DEF TypeOK
  <2> HIDE DEF x, v, o
  <2>5. ReqOK(r)' /\ ~Winner(r)'
    BY <1>1, <2>1, <2>2, <2>4, Durations DEF ReqOK, Winner, Truthful, Stale, Settled
  <2>6. x.order = req[r].order
    BY <2>2 DEF o
  <2>7. QED
    BY <1>1, <2>2, <2>3, <2>5, <2>6, ReqMoves, RowsKept DEF IInv, TypeOK
<1>5. QED
  BY <1>3, <1>4

LEMMA FetchItemsInv ==
  ASSUME IInv, NEW r \in Requests, FetchItems(r)
  PROVE  IInv'
<1> DEFINE o == req[r].order
<1>1. status' = status /\ age' = age /\ cache' = cache /\ janitor' = janitor
  BY DEF FetchItems
<1>2. TypeOK /\ req[r].pc = "items" /\ req[r].answer = "none" /\ o \in OrderIds
  BY ReqFields DEF IInv, FetchItems, ReqOK
<1>3. PICK w \in BOOLEAN :
        LET v == [req[r].view EXCEPT !.whole = w]
        IN  /\ req' = [req EXCEPT ![r].pc = "serve", ![r].view = v, ![r].left = 0]
            /\ StartJob("set", req[r].order, v)
  BY DEF FetchItems
<1> DEFINE v == [req[r].view EXCEPT !.whole = w]
           x == [req[r] EXCEPT !.pc = "serve", !.view = v, !.left = 0]
<1>4. req[r].view \in View /\ req[r].view # Nothing
  BY <1>2, ReqFields DEF IInv, ReqOK
<1>5. v \in View /\ v.status = req[r].view.status /\ v # Nothing
  BY <1>4, CacheAssumption DEF View
<1>6. StartJob("set", o, v) /\ req' = [req EXCEPT ![r] = x]
  BY <1>3
<1> HIDE DEF v
<1>7. /\ x \in ReqState /\ x.pc = "serve" /\ x.order = o /\ x.view = v
      /\ x.answer = "none"
  BY <1>2, <1>5, ReqFields DEF ReqState
<1>8. req'[r] = x
  BY <1>2, <1>6 DEF TypeOK
<1>9. Truthful(o, v)
  BY <1>4, <1>5 DEF IInv, ReqOK, Truthful
<1>10. Stale(o, v) => age[o] + JobTimeout + TTL <= Bound
  <2>1. Stale(o, v) => Stale(o, req[r].view)
    BY <1>5 DEF Stale
  <2>2. Stale(o, req[r].view) => age[o] + req[r].left + JobTimeout + TTL <= Bound
    BY <1>2 DEF IInv, ReqOK
  <2>3. age[o] \in Nat /\ req[r].left \in Nat
    BY <1>2, ReqFields DEF TypeOK
  <2>4. QED
    BY <2>1, <2>2, <2>3, Durations
<1> HIDE DEF x
<1>11. job' \in [Jobs -> JobState \cup {Nothing}] /\ \A j \in Jobs : JobOK(j)'
  BY <1>1, <1>2, <1>5, <1>6, <1>9, <1>10, StartJobOK
<1> HIDE DEF o
<1>12. ReqOK(r)' /\ ~Winner(r)'
  BY <1>1, <1>5, <1>7, <1>8, <1>9 DEF ReqOK, Winner, Truthful
<1>13. x.order = req[r].order
  BY <1>7 DEF o
<1>14. QED
  BY <1>1, <1>6, <1>7, <1>11, <1>12, <1>13, ReqMoves, RowsKept DEF IInv, TypeOK

LEMMA PlainAnswersInv ==
  ASSUME IInv, NEW r \in Requests,
         RequestError(r) \/ ShowOrder(r) \/ CancelRefused(r)
  PROVE  IInv'
<1>1. /\ status' = status /\ age' = age /\ cache' = cache /\ job' = job
      /\ janitor' = janitor
      /\ Answer(r, "error") \/ Answer(r, "shown") \/ Answer(r, "refused")
  BY DEF RequestError, ShowOrder, CancelRefused
<1>2. QED
  BY <1>1, AnswerOK, RowsKept DEF IInv, TypeOK

LEMMA CancelReplyInv ==
  ASSUME IInv, NEW r \in Requests, CancelReply(r)
  PROVE  IInv'
<1>1. /\ status' = status /\ age' = age /\ cache' = cache /\ janitor' = janitor
      /\ req[r].pc = "cancelled" /\ Answer(r, "ok")
      /\ StartJob("delete", req[r].order, Nothing)
  BY DEF CancelReply
<1>2. req[r].order \in OrderIds
  BY ReqFields DEF IInv
<1>3. job' \in [Jobs -> JobState \cup {Nothing}] /\ \A j \in Jobs : JobOK(j)'
  BY <1>1, <1>2, StartJobOK
<1>4. QED
  BY <1>1, <1>3, AnswerOK, RowsKept DEF IInv, TypeOK

LEMMA JobSetInv ==
  ASSUME IInv, NEW j \in Jobs, JobSet(j)
  PROVE  IInv'
<1> DEFINE o == job[j].order
           e == [view |-> job[j].view, left |-> TTL]
<1>1. /\ status' = status /\ age' = age /\ req' = req /\ janitor' = janitor
      /\ Finish(j) /\ job[j] # Nothing /\ job[j].op = "set" /\ TypeOK
      /\ cache' = [cache EXCEPT ![o] = e]
  BY DEF JobSet, IInv
<1>2. o \in OrderIds /\ job[j].view \in View /\ job[j].left \in Nat
  BY <1>1, JobFields DEF IInv, JobOK
<1>3. e \in Entry /\ e.view = job[j].view /\ e.left = TTL
  BY <1>2, Durations DEF Entry
<1>4. cache' \in [OrderIds -> Entry \cup {Nothing}] /\ cache'[o] = e
  BY <1>1, <1>2, <1>3 DEF TypeOK
<1>5. Truthful(o, e.view) /\ (Stale(o, e.view) => age[o] + job[j].left + TTL <= Bound)
  BY <1>1, <1>3 DEF IInv, JobOK
<1>6. age[o] \in Nat
  BY <1>1, <1>2 DEF TypeOK
<1> HIDE DEF e
<1>7. ASSUME NEW y \in OrderIds PROVE EntryOK(y)'
  <2>1. CASE y # o
    <3>1. cache'[y] = cache[y]
      BY <2>1, <1>1 DEF TypeOK
    <3>2. QED
      BY <3>1, <1>1, EntryKept DEF IInv
  <2>2. CASE y = o
    <3> HIDE DEF o
    <3>1. Stale(o, e.view) => age[o] + TTL <= Bound
      BY <1>2, <1>5, <1>6, Durations
    <3>2. TTL \in 1 .. TTL
      BY Durations
    <3>3. QED
      BY <2>2, <3>1, <3>2, <1>1, <1>3, <1>4, <1>5 DEF EntryOK, Truthful, Stale, Settled
  <2>3. QED
    BY <2>1, <2>2
<1> HIDE DEF o
<1>8. QED
  BY <1>1, <1>4, <1>7, FinishOK, RowsKept DEF IInv, TypeOK, Winner

\* Steps that only drop entries, goroutines and what the janitor has to delete.
LEMMA DropsInv ==
  ASSUME IInv, status' = status, age' = age, req' = req,
         janitor' \subseteq OrderIds,
         cache' \in [OrderIds -> Entry \cup {Nothing}],
         \A o \in OrderIds : cache'[o] \in {cache[o], Nothing},
         job' \in [Jobs -> JobState \cup {Nothing}],
         \A j \in Jobs : JobOK(j)'
  PROVE  IInv'
<1>1. ASSUME NEW o \in OrderIds PROVE EntryOK(o)'
  <2>1. CASE cache'[o] = cache[o]
    BY <2>1, EntryKept DEF IInv
  <2>2. CASE cache'[o] = Nothing
    BY <2>2 DEF EntryOK
  <2>3. QED
    BY <2>1, <2>2
<1>2. QED
  BY <1>1, RowsKept DEF IInv, TypeOK, Winner

LEMMA JobDropsInv ==
  ASSUME IInv, NEW j \in Jobs, JobDelete(j) \/ JobFails(j)
  PROVE  IInv'
<1>1. /\ status' = status /\ age' = age /\ req' = req /\ janitor' = janitor
      /\ Finish(j) /\ job[j] # Nothing /\ TypeOK
      /\ \/ cache' = cache
         \/ cache' = [cache EXCEPT ![job[j].order] = Nothing]
  BY DEF JobDelete, JobFails, IInv
<1>2. /\ cache' \in [OrderIds -> Entry \cup {Nothing}]
      /\ \A o \in OrderIds : cache'[o] \in {cache[o], Nothing}
  BY <1>1, JobFields DEF TypeOK
<1>3. janitor' \subseteq OrderIds
  BY <1>1 DEF TypeOK
<1>4. QED
  BY <1>1, <1>2, <1>3, FinishOK, DropsInv

LEMMA JanitorDropsInv ==
  ASSUME IInv, JanitorDelete \/ JanitorDeleteFails
  PROVE  IInv'
<1>1. /\ status' = status /\ age' = age /\ req' = req /\ job' = job
      /\ janitor' = {} /\ TypeOK
      /\ \/ cache' = cache
         \/ cache' = [o \in OrderIds |-> IF o \in janitor THEN Nothing ELSE cache[o]]
  BY DEF JanitorDelete, JanitorDeleteFails, IInv
<1>2. /\ cache' \in [OrderIds -> Entry \cup {Nothing}]
      /\ \A o \in OrderIds : cache'[o] \in {cache[o], Nothing}
  BY <1>1 DEF TypeOK
<1>3. QED
  BY <1>1, <1>2, DropsInv, RowsKept DEF TypeOK

LEMMA RestartInv ==
  ASSUME IInv, Restart
  PROVE  IInv'
<1>1. /\ status' = status /\ age' = age /\ cache' = cache /\ janitor' = {}
      /\ req' = [r \in Requests |-> IdleReq] /\ job' = [j \in Jobs |-> Nothing] /\ TypeOK
  BY DEF Restart, IInv
<1>2. ASSUME NEW r \in Requests PROVE ReqOK(r)' /\ ~Winner(r)' /\ IdleReq \in ReqState
  <2>1. req'[r].order \in OrderIds
    BY <1>1, ReqFields DEF IdleReq
  <2>2. QED
    BY <2>1, <1>1 DEF ReqOK, Winner, IdleReq, ReqState
<1>3. \A j \in Jobs : JobOK(j)'
  BY <1>1 DEF JobOK
<1>4. req' \in [Requests -> ReqState]
  BY <1>1, <1>2
<1>5. QED
  BY <1>1, <1>2, <1>3, <1>4, RowsKept DEF IInv, TypeOK

-----------------------------------------------------------------------------
(* Steps that change a row.                                                *)

\* An order that settles has age 0, so what still tells it pending has its time.
LEMMA SettleOK ==
  ASSUME IInv, NEW S \in SUBSET OrderIds, NEW a \in {"confirmed", "cancelled"},
         \A o \in S : status[o] = "pending",
         status' = [o \in OrderIds |-> IF o \in S THEN a ELSE status[o]],
         age' = age
  PROVE  /\ status' \in [OrderIds -> RowStatus \cup {"absent"}]
         /\ (\A o \in OrderIds : ~Settled(o) => age[o] = 0)'
         /\ cache' = cache => (\A o \in OrderIds : EntryOK(o)')
         /\ job' = job => (\A j \in Jobs : JobOK(j)')
         /\ \A r \in Requests : req'[r] = req[r] => ReqOK(r)'
<1>1. TypeOK
  BY DEF IInv
<1>2. status' \in [OrderIds -> RowStatus \cup {"absent"}]
  BY <1>1 DEF TypeOK, RowStatus
<1>3. \A o \in OrderIds : Settled(o) => Settled(o)' /\ status'[o] = status[o]
  BY DEF Settled
<1>4. \A o \in OrderIds : age[o] \in Nat /\ (~Settled(o) => age[o] = 0)
  BY <1>1 DEF IInv, TypeOK
<1>5. ASSUME NEW o \in OrderIds, NEW v \in View, Truthful(o, v)
      PROVE  /\ Truthful(o, v)'
             /\ Stale(o, v)' => Stale(o, v) \/ age[o] = 0
  BY <1>4, <1>5 DEF Truthful, Stale, Settled
<1>6. ASSUME NEW o \in OrderIds, cache' = cache PROVE EntryOK(o)'
  <2>1. CASE cache[o] = Nothing
    BY <2>1, <1>6 DEF EntryOK
  <2>2. CASE cache[o] # Nothing
    <3> DEFINE v == cache[o].view
               n == cache[o].left
    <3>1. v \in View /\ n \in 1 .. TTL /\ Truthful(o, v)
      BY <2>2, <1>1, EntryFields DEF IInv, EntryOK
    <3>2. Stale(o, v) => age[o] + n <= Bound
      BY <2>2 DEF IInv, EntryOK
    <3>3. Truthful(o, v)' /\ (Stale(o, v)' => Stale(o, v) \/ age[o] = 0)
      BY <3>1, <1>5, <1>6
    <3> HIDE DEF n
    <3>4. Stale(o, v)' => age[o] + n <= Bound
      BY <3>1, <3>2, <3>3, Durations
    <3>5. QED
      BY <3>1, <3>3, <3>4, <1>6, <2>2 DEF EntryOK, n
  <2>3. QED
    BY <2>1, <2>2
<1>7. ASSUME NEW j \in Jobs, job' = job PROVE JobOK(j)'
  <2>1. CASE job[j] = Nothing \/ job[j].op # "set"
    BY <2>1, <1>7 DEF JobOK
  <2>2. CASE job[j] # Nothing /\ job[j].op = "set"
    <3> DEFINE v == job[j].view
               n == job[j].left
               o == job[j].order
    <3>1. /\ o \in OrderIds /\ v \in View /\ v # Nothing /\ n \in Nat /\ n <= JobTimeout
          /\ Truthful(o, v)
      BY <2>2, <1>1, JobFields DEF IInv, JobOK
    <3>2. Stale(o, v) => age[o] + n + TTL <= Bound
      BY <2>2 DEF IInv, JobOK
    <3>3. Truthful(o, v)' /\ (Stale(o, v)' => Stale(o, v) \/ age[o] = 0)
      BY <3>1, <1>5, <1>7
    <3> HIDE DEF n, o
    <3>4. Stale(o, v)' => age[o] + n + TTL <= Bound
      BY <3>1, <3>2, <3>3, Durations
    <3>5. QED
      BY <3>1, <3>3, <3>4, <1>7, <2>2 DEF JobOK, n, o
  <2>3. QED
    BY <2>1, <2>2
<1>8. ASSUME NEW r \in Requests, req'[r] = req[r] PROVE ReqOK(r)'
  <2> DEFINE v == req[r].view
             n == req[r].left
             o == req[r].order
  <2>1. o \in OrderIds /\ v \in View \cup {Nothing} /\ n \in Nat
    BY <1>1, ReqFields
  <2>2. Winner(r)' => status'[req'[r].order] = "cancelled"
    BY <2>1, <1>3, <1>8 DEF IInv, ReqOK, Winner, Settled
  <2>3. v # Nothing => Truthful(o, v)' /\ (Stale(o, v)' => Stale(o, v) \/ age[o] = 0)
    <3> SUFFICES ASSUME v # Nothing
                 PROVE  Truthful(o, v)' /\ (Stale(o, v)' => Stale(o, v) \/ age[o] = 0)
      OBVIOUS
    <3>1. v \in View /\ Truthful(o, v)
      BY <2>1 DEF IInv, ReqOK
    <3>2. o' = o /\ v' = v
      BY <1>8
    <3> HIDE DEF o, v
    <3>3. QED
      BY <2>1, <3>1, <3>2, <1>4, <1>8 DEF Truthful, Stale, Settled
  <2>4. req[r].pc = "items" =>
          /\ v # Nothing /\ n <= QueryTimeout
          /\ Stale(o, v) => age[o] + n + JobTimeout + TTL <= Bound
    BY DEF IInv, ReqOK
  <2>5. req[r].pc = "items" =>
          (Stale(o, v)' => age[o] + n + JobTimeout + TTL <= Bound)
    <3> HIDE DEF n, o, v
    <3> QED
      BY <2>1, <2>3, <2>4, Durations
  <2>6. v # Nothing => Truthful(req[r].order, req[r].view)'
    BY <2>3, <1>8
  <2>7. req[r].pc = "items" =>
          (Stale(req[r].order, req[r].view)'
             => age[req[r].order] + req[r].left + JobTimeout + TTL <= Bound)
    BY <2>5, <1>8
  <2>8. QED
    BY <2>2, <2>4, <2>6, <2>7, <1>8 DEF IInv, ReqOK
<1>9. QED
  BY <1>2, <1>3, <1>4, <1>6, <1>7, <1>8

\* Cancel of OrderLife as a settling step.
LEMMA CancelSettles ==
  ASSUME NEW S \in SUBSET OrderIds, Cancel(S)
  PROVE  /\ \A o \in S : status[o] = "pending"
         /\ status' = [o \in OrderIds |-> IF o \in S THEN "cancelled" ELSE status[o]]
BY DEF Cancel, Unsettled

\* A request that commits a cancellation is the first to win its order.
LEMMA CancelByRequestInv ==
  ASSUME IInv, NEW r \in Requests, CancelCommit(r) \/ CancelUnanswered(r)
  PROVE  IInv'
<1>1. /\ TypeOK /\ age' = age /\ cache' = cache /\ job' = job /\ janitor' = janitor
      /\ req[r].pc = "serve" /\ req[r].answer = "none" /\ req[r].view # Nothing
  BY DEF IInv, CancelCommit, CancelUnanswered, ReqOK
<1>2. PICK o \in OrderIds : o = req[r].order /\ Cancel({o})
  BY <1>1, ReqFields DEF CancelCommit, CancelUnanswered
<1>3. status[o] = "pending" /\ status'[o] = "cancelled"
  BY <1>2 DEF Cancel, Unsettled
<1>4. PICK y \in ReqState :
        /\ req' = [req EXCEPT ![r] = y]
        /\ y.order = o
        /\ \/ y.pc = "cancelled" /\ y.view = req[r].view /\ y.answer = "none"
           \/ y.pc = "idle" /\ y.view = Nothing /\ y.answer = "error"
  <2>1. CASE CancelCommit(r)
    <3>1. [req[r] EXCEPT !.pc = "cancelled"] \in ReqState
      BY <1>1, ReqFields DEF ReqState
    <3>2. req' = [req EXCEPT ![r] = [req[r] EXCEPT !.pc = "cancelled"]]
      BY <2>1 DEF CancelCommit
    <3>3. QED
      BY <3>1, <3>2, <1>1, <1>2, ReqFields DEF ReqState
  <2>2. CASE CancelUnanswered(r)
    <3> DEFINE z == [req[r] EXCEPT !.pc = "idle", !.left = 0, !.answer = "error",
                                   !.view = Nothing]
    <3>1. z \in ReqState
      BY <1>1, ReqFields DEF ReqState
    <3>2. req' = [req EXCEPT ![r] = z]
      BY <2>2 DEF CancelUnanswered, Answer
    <3>3. z.pc = "idle" /\ z.view = Nothing /\ z.answer = "error" /\ z.order = req[r].order
      BY <1>1, ReqFields DEF ReqState
    <3> HIDE DEF z
    <3>4. QED
      BY <3>1, <3>2, <3>3, <1>2
  <2>3. QED
    BY <2>1, <2>2
<1>5. /\ status' \in [OrderIds -> RowStatus \cup {"absent"}]
      /\ (\A z \in OrderIds : ~Settled(z) => age[z] = 0)'
      /\ \A z \in OrderIds : EntryOK(z)'
      /\ \A j \in Jobs : JobOK(j)'
      /\ \A s \in Requests : req'[s] = req[s] => ReqOK(s)'
  <2>1. {o} \in SUBSET OrderIds
    BY <1>2
  <2>2. \A z \in {o} : status[z] = "pending"
    BY <1>3
  <2>3. status' = [z \in OrderIds |-> IF z \in {o} THEN "cancelled" ELSE status[z]]
    BY <1>2 DEF Cancel
  <2>4. QED
    BY <2>1, <2>2, <2>3, <1>1, SettleOK
<1>6. req' \in [Requests -> ReqState] /\ req'[r] = y /\ \A s \in Requests : s # r => req'[s] = req[s]
  BY <1>1, <1>4 DEF TypeOK
<1>7. ReqOK(r)'
  <2>1. PICK v : v = req[r].view
    OBVIOUS
  <2>2. v.status = "pending"
    BY <2>1, <1>1, <1>2, <1>3 DEF IInv, ReqOK, Truthful
  <2>3. CASE y.pc = "cancelled" /\ y.view = v /\ y.answer = "none"
    BY <2>1, <2>2, <2>3, <1>1, <1>3, <1>4, <1>6 DEF ReqOK, Winner, Truthful
  <2>4. CASE y.pc = "idle" /\ y.view = Nothing /\ y.answer = "error"
    BY <2>4, <1>6 DEF ReqOK, Winner
  <2>5. QED
    BY <2>1, <2>3, <2>4, <1>4
<1>8. ASSUME NEW s \in Requests, s # r, Winner(s)' PROVE req'[s].order # o
  <2>1. Winner(s) /\ req'[s] = req[s]
    BY <1>6, <1>8 DEF Winner
  <2>2. status[req[s].order] = "cancelled"
    BY <2>1 DEF IInv, ReqOK
  <2>3. QED
    BY <2>1, <2>2, <1>3
<1>9. (\A s, t \in Requests :
          Winner(s) /\ Winner(t) /\ req[s].order = req[t].order => s = t)'
  <2> SUFFICES ASSUME NEW s \in Requests, NEW t \in Requests,
                      Winner(s)', Winner(t)', req'[s].order = req'[t].order, s # t
               PROVE  FALSE
    OBVIOUS
  <2>1. s # r /\ t # r
    BY <1>4, <1>6, <1>8
  <2>2. QED
    BY <2>1, <1>6 DEF IInv, Winner
<1>10. \A s \in Requests : ReqOK(s)'
  BY <1>5, <1>6, <1>7
<1>11. QED
  BY <1>1, <1>5, <1>6, <1>9, <1>10 DEF IInv, TypeOK

\* A row that settles for another reason.
LEMMA SettleInv ==
  ASSUME IInv, NEW S \in SUBSET OrderIds, NEW a \in {"confirmed", "cancelled"},
         \A o \in S : status[o] = "pending",
         status' = [o \in OrderIds |-> IF o \in S THEN a ELSE status[o]],
         age' = age, cache' = cache, job' = job, req' = req,
         janitor' \subseteq OrderIds
  PROVE  IInv'
<1>1. /\ status' \in [OrderIds -> RowStatus \cup {"absent"}]
      /\ (\A o \in OrderIds : ~Settled(o) => age[o] = 0)'
      /\ \A o \in OrderIds : EntryOK(o)'
      /\ \A j \in Jobs : JobOK(j)'
      /\ \A r \in Requests : ReqOK(r)'
  BY SettleOK
<1>2. TypeOK'
  BY <1>1 DEF IInv, TypeOK
<1>3. (\A r, s \in Requests :
         Winner(r) /\ Winner(s) /\ req[r].order = req[s].order => r = s)'
  BY DEF IInv, Winner
<1>4. QED
  BY <1>1, <1>2, <1>3 DEF IInv

LEMMA JanitorRoundInv ==
  ASSUME IInv, NEW S \in SUBSET OrderIds, NEW ids \in SUBSET OrderIds,
         JanitorRound(S, ids)
  PROVE  IInv'
BY CancelSettles, SettleInv DEF JanitorRound

LEMMA ConfirmOrderInv ==
  ASSUME IInv, NEW o \in OrderIds, ConfirmOrder(o)
  PROVE  IInv'
<1>1. /\ status[o] = "pending" /\ status' = [status EXCEPT ![o] = "confirmed"]
      /\ age' = age /\ cache' = cache /\ job' = job /\ req' = req /\ janitor' = janitor
  BY DEF ConfirmOrder, Confirm, Unsettled
<1>2. status' = [z \in OrderIds |-> IF z \in {o} THEN "confirmed" ELSE status[z]]
  BY <1>1 DEF IInv, TypeOK
<1>3. janitor' \subseteq OrderIds
  BY <1>1 DEF IInv, TypeOK
<1>4. {o} \in SUBSET OrderIds /\ \A z \in {o} : status[z] = "pending"
  BY <1>1
<1>5. QED
  BY <1>1, <1>2, <1>3, <1>4, SettleInv

\* A row that appears: nothing told anything of it, and nobody had cancelled it.
LEMMA PlaceOrderInv ==
  ASSUME IInv, NEW o \in OrderIds, PlaceOrder(o)
  PROVE  IInv'
<1>1. /\ status[o] = "absent" /\ status' = [status EXCEPT ![o] = "pending"] /\ TypeOK
      /\ age' = age /\ cache' = cache /\ job' = job /\ req' = req /\ janitor' = janitor
  BY DEF PlaceOrder, Place, IInv
<1>2. /\ status' \in [OrderIds -> RowStatus \cup {"absent"}]
      /\ status'[o] = "pending" /\ \A z \in OrderIds \ {o} : status'[z] = status[z]
  BY <1>1 DEF TypeOK, RowStatus
<1>3. ASSUME NEW z \in OrderIds, NEW v, Truthful(z, v)
      PROVE  status'[z] = status[z]
  BY <1>1, <1>2, <1>3 DEF Truthful
<1>4. ASSUME NEW z \in OrderIds PROVE EntryOK(z)'
  <2>1. CASE cache[z] = Nothing
    BY <2>1, <1>1 DEF EntryOK
  <2>2. CASE cache[z] # Nothing
    <3>1. status'[z] = status[z]
      BY <2>2, <1>3 DEF IInv, EntryOK
    <3>2. QED
      BY <3>1, <1>1 DEF IInv, EntryOK, Truthful, Stale, Settled
  <2>3. QED
    BY <2>1, <2>2
<1>5. ASSUME NEW j \in Jobs PROVE JobOK(j)'
  <2>1. CASE job[j] = Nothing \/ job[j].op # "set"
    BY <2>1, <1>1 DEF JobOK
  <2>2. CASE job[j] # Nothing /\ job[j].op = "set"
    <3>1. job[j].order \in OrderIds
      BY <2>2, <1>1, JobFields
    <3>2. status'[job[j].order] = status[job[j].order]
      BY <3>1, <2>2, <1>3 DEF IInv, JobOK
    <3>3. QED
      BY <3>2, <1>1 DEF IInv, JobOK, Truthful, Stale, Settled
  <2>3. QED
    BY <2>1, <2>2
<1>6. ASSUME NEW r \in Requests PROVE ReqOK(r)'
  <2>1. PICK z \in OrderIds : z = req[r].order
    BY <1>1, ReqFields
  <2>2. CASE req[r].view # Nothing
    <3>1. status'[z] = status[z]
      BY <2>1, <2>2, <1>3 DEF IInv, ReqOK
    <3>2. QED
      BY <2>1, <3>1, <1>1 DEF IInv, ReqOK, Winner, Truthful, Stale, Settled
  <2>3. CASE req[r].view = Nothing
    <3>1. Winner(r) => status'[z] = "cancelled"
      BY <2>1, <1>1, <1>2 DEF IInv, ReqOK
    <3>2. QED
      BY <2>1, <2>3, <3>1, <1>1 DEF IInv, ReqOK, Winner
  <2>4. QED
    BY <2>2, <2>3
<1>7. (\A z \in OrderIds : ~Settled(z) => age[z] = 0)'
  BY <1>1, <1>2 DEF IInv, Settled
<1>8. QED
  BY <1>1, <1>2, <1>4, <1>5, <1>6, <1>7 DEF IInv, TypeOK, Winner

-----------------------------------------------------------------------------
(* Time.                                                                   *)

\* A tick makes no row older than Bound or by more than one.
LEMMA Ages ==
  ASSUME IInv, Tick
  PROVE  /\ status' = status
         /\ age' \in [OrderIds -> Nat]
         /\ \A o \in OrderIds : age'[o] <= age[o] + 1
         /\ \A o \in OrderIds : ~Settled(o)' => age'[o] = 0
BY Durations DEF IInv, TypeOK, Tick, Settled

\* An entry loses a tick as its row gains one.
LEMMA EntryTick ==
  ASSUME IInv, Tick, NEW o \in OrderIds
  PROVE  EntryOK(o)' /\ cache'[o] \in Entry \cup {Nothing}
<1>1. cache'[o] = IF Expired(cache[o]) THEN Nothing ELSE [cache[o] EXCEPT !.left = @ - 1]
  BY DEF Tick, Aged
<1>2. CASE Expired(cache[o])
  BY <1>1, <1>2 DEF EntryOK
<1>3. CASE ~Expired(cache[o])
  <2>1. PICK e \in Entry : e = cache[o] /\ e.view \in View /\ e.left \in Nat
    BY <1>3, EntryFields DEF Expired, IInv
  <2>2. e # Nothing /\ e.left # 1
    BY <2>1, <1>3 DEF Expired
  <2>3. /\ Truthful(o, e.view) /\ e.left \in 1 .. TTL
        /\ Stale(o, e.view) => age[o] + e.left <= Bound
    BY <2>1, <2>2 DEF IInv, EntryOK
  <2>4. PICK f : f = [e EXCEPT !.left = @ - 1]
    OBVIOUS
  <2>5. f \in Entry /\ f.view = e.view /\ f.left = e.left - 1
    BY <2>1, <2>3, <2>4, Durations DEF Entry
  <2>6. cache'[o] = f
    BY <1>1, <1>3, <2>1, <2>4
  <2>7. f.left \in 1 .. TTL
    BY <2>1, <2>2, <2>3, <2>5, Durations
  <2>8. age[o] \in Nat /\ age'[o] \in Nat /\ age'[o] <= age[o] + 1 /\ status' = status
    BY Ages DEF IInv, TypeOK
  <2>9. Stale(o, e.view) => age'[o] + f.left <= Bound
    BY <2>1, <2>3, <2>5, <2>8, Durations
  <2>10. QED
    BY <2>3, <2>5, <2>6, <2>7, <2>8, <2>9 DEF EntryOK, Truthful, Stale, Settled
<1>4. QED
  BY <1>2, <1>3

\* A goroutine loses a tick of the time it had, and had one to lose.
LEMMA JobTick ==
  ASSUME IInv, Tick, NEW j \in Jobs
  PROVE  JobOK(j)' /\ job'[j] \in JobState \cup {Nothing}
<1>1. job'[j] = IF job[j] = Nothing THEN Nothing ELSE [job[j] EXCEPT !.left = @ - 1]
  BY DEF Tick
<1>2. CASE job[j] = Nothing
  BY <1>1, <1>2 DEF JobOK
<1>3. CASE job[j] # Nothing
  <2>1. PICK b \in JobState :
          b = job[j] /\ b.order \in OrderIds /\ b.left \in Nat /\ b # Nothing
    BY <1>3, JobFields DEF IInv
  <2>2. b.left > 0
    BY <2>1 DEF Tick, TimeMayPass
  <2>3. PICK c : c = [b EXCEPT !.left = @ - 1]
    OBVIOUS
  <2>4. /\ c \in JobState /\ c.op = b.op /\ c.order = b.order /\ c.view = b.view
        /\ c.left = b.left - 1
    BY <2>1, <2>2, <2>3 DEF JobState
  <2>5. job'[j] = c
    BY <1>1, <1>3, <2>1, <2>3
  <2>6. PICK o \in OrderIds : o = b.order
    BY <2>1
  <2>7. age[o] \in Nat /\ age'[o] \in Nat /\ age'[o] <= age[o] + 1 /\ status' = status
    BY Ages DEF IInv, TypeOK
  <2>8. b.op = "set" =>
          /\ b.view # Nothing /\ Truthful(o, b.view) /\ b.left <= JobTimeout
          /\ Stale(o, b.view) => age[o] + b.left + TTL <= Bound
    BY <2>1, <2>6 DEF IInv, JobOK
  <2>9. b.op = "set" /\ Stale(o, b.view) => age'[o] + c.left + TTL <= Bound
    BY <2>1, <2>4, <2>7, <2>8, Durations
  <2>10. b.op = "set" => c.left <= JobTimeout
    BY <2>1, <2>4, <2>8, Durations
  <2>11. QED
    BY <2>4, <2>5, <2>6, <2>7, <2>8, <2>9, <2>10 DEF JobOK, Truthful, Stale, Settled
<1>4. QED
  BY <1>2, <1>3

\* So does a request between its two queries; the others do not feel time.
LEMMA ReqTick ==
  ASSUME IInv, Tick, NEW r \in Requests
  PROVE  /\ ReqOK(r)' /\ req'[r] \in ReqState /\ req'[r].order = req[r].order
         /\ Winner(r)' <=> Winner(r)
<1>1. /\ req'[r] = IF req[r].pc = "items" THEN [req[r] EXCEPT !.left = @ - 1] ELSE req[r]
      /\ status' = status /\ TypeOK
  BY DEF Tick, IInv
<1>2. CASE req[r].pc # "items"
  <2>1. req'[r] = req[r]
    BY <1>1, <1>2
  <2>2. QED
    BY <1>1, <1>2, <2>1, ReqFields DEF IInv, ReqOK, Winner, Truthful
<1>3. CASE req[r].pc = "items"
  <2>1. PICK q \in ReqState : q = req[r] /\ q.order \in OrderIds /\ q.left \in Nat
    BY <1>1, ReqFields
  <2>2. q.left > 0
    BY <2>1, <1>3 DEF Tick, TimeMayPass
  <2>3. PICK y : y = [q EXCEPT !.left = @ - 1]
    OBVIOUS
  <2>4. /\ y \in ReqState /\ y.pc = q.pc /\ y.order = q.order /\ y.view = q.view
        /\ y.answer = q.answer /\ y.left = q.left - 1
    <3>1. PICK n \in Nat : n = q.left - 1
      BY <2>1, <2>2
    <3>2. y = [q EXCEPT !.left = n]
      BY <2>3, <3>1
    <3>3. y \in ReqState
      BY <2>1, <3>2 DEF ReqState
    <3>4. y.pc = q.pc /\ y.order = q.order /\ y.view = q.view /\ y.answer = q.answer
      BY <2>1, <3>2 DEF ReqState
    <3>5. y.left = n
      BY <2>1, <3>2 DEF ReqState
    <3>6. QED
      BY <3>1, <3>3, <3>4, <3>5
  <2>5. req'[r] = y
    BY <1>1, <1>3, <2>1, <2>3
  <2>6. PICK o \in OrderIds : o = q.order
    BY <2>1
  <2>7. age[o] \in Nat /\ age'[o] \in Nat /\ age'[o] <= age[o] + 1
    BY Ages DEF IInv, TypeOK
  <2>8. /\ q.view # Nothing /\ Truthful(o, q.view) /\ q.left <= QueryTimeout
        /\ Stale(o, q.view) => age[o] + q.left + JobTimeout + TTL <= Bound
        /\ q.answer = "none"
    BY <2>1, <2>6, <1>3 DEF IInv, ReqOK
  <2>9. Stale(o, q.view) => age'[o] + y.left + JobTimeout + TTL <= Bound
    BY <2>1, <2>4, <2>7, <2>8, Durations
  <2>10. y.left <= QueryTimeout
    BY <2>1, <2>4, <2>8, Durations
  <2>11. ~Winner(r) /\ ~Winner(r)'
    BY <2>1, <2>4, <2>5, <2>8, <1>3 DEF Winner
  <2>12. ReqOK(r)'
    BY <1>1, <1>3, <2>1, <2>4, <2>5, <2>6, <2>8, <2>9, <2>10, <2>11
    DEF ReqOK, Truthful, Stale, Settled
  <2>13. QED
    BY <2>1, <2>4, <2>5, <2>11, <2>12
<1>4. QED
  BY <1>2, <1>3

LEMMA TickInv ==
  ASSUME IInv, Tick
  PROVE  IInv'
<1>1. /\ janitor' \subseteq OrderIds
      /\ status' \in [OrderIds -> RowStatus \cup {"absent"}]
  BY DEF Tick, IInv, TypeOK
<1>2. /\ cache' \in [OrderIds -> Entry \cup {Nothing}]
      /\ job' \in [Jobs -> JobState \cup {Nothing}]
      /\ req' \in [Requests -> ReqState]
  <2>1. /\ DOMAIN cache' = OrderIds /\ DOMAIN job' = Jobs /\ DOMAIN req' = Requests
        /\ cache' = [o \in OrderIds |-> cache'[o]]
        /\ job' = [j \in Jobs |-> job'[j]]
        /\ req' = [r \in Requests |-> req'[r]]
    BY DEF Tick, Aged
  <2>2. QED
    BY <2>1, EntryTick, JobTick, ReqTick
<1>3. (\A r, s \in Requests :
         Winner(r) /\ Winner(s) /\ req[r].order = req[s].order => r = s)'
  BY ReqTick DEF IInv
<1>4. /\ age' \in [OrderIds -> Nat]
      /\ (\A o \in OrderIds : ~Settled(o) => age[o] = 0)'
  BY Ages
<1>5. QED
  BY <1>1, <1>2, <1>3, <1>4, EntryTick, JobTick, ReqTick DEF IInv, TypeOK

-----------------------------------------------------------------------------
(* The theorems.                                                           *)

\* Nothing is cached, nobody has asked and no row exists.
LEMMA InitInv ==
  ASSUME Init
  PROVE  IInv
<1>1. IdleReq \in ReqState
  BY CacheAssumption DEF IdleReq, ReqState
<1>2. QED
  BY <1>1, Durations DEF Init, LifeInit, IInv, TypeOK, EntryOK, JobOK, ReqOK, Winner,
     IdleReq, Settled

\* Every step keeps the invariant.
LEMMA StepInv ==
  ASSUME IInv, [Next]_vars
  PROVE  IInv'
<1>1. ASSUME NEW r \in Requests, RequestStep(r) PROVE IInv'
  BY <1>1, BeginInv, CacheHitInv, CacheMissInv, QueryOrderInv, FetchItemsInv,
     PlainAnswersInv, CancelByRequestInv, CancelReplyInv DEF RequestStep
<1>2. ASSUME NEW j \in Jobs, JobStep(j) PROVE IInv'
  BY <1>2, JobSetInv, JobDropsInv DEF JobStep
<1>3. CASE JanitorStep
  BY <1>3, JanitorRoundInv, JanitorDropsInv DEF JanitorStep
<1>4. ASSUME NEW o \in OrderIds, PlaceOrder(o) \/ ConfirmOrder(o) PROVE IInv'
  BY <1>4, PlaceOrderInv, ConfirmOrderInv
<1>5. CASE Restart
  BY <1>5, RestartInv
<1>6. CASE Tick
  BY <1>6, TickInv
<1>7. CASE UNCHANGED vars
  <2>1. /\ status' = status /\ age' = age /\ cache' = cache /\ job' = job /\ req' = req
        /\ janitor' = janitor
    BY <1>7 DEF vars
  <2>2. QED
    BY <2>1, RowsKept DEF IInv, TypeOK, Winner
<1>8. QED
  BY <1>1, <1>2, <1>3, <1>4, <1>5, <1>6, <1>7 DEF Next, Event

LEMMA Inductive == Spec => []IInv
BY InitInv, StepInv, PTL DEF Spec

\* What holds wherever IInv does.
LEMMA PromisesByIInv == IInv => TypeOK /\ CacheTellsThePast /\ CancelledOnce
<1>1. IInv => CacheTellsThePast
  BY DEF IInv, EntryOK, JobOK, ReqOK, CacheTellsThePast
<1>2. IInv => CancelledOnce
  BY DEF IInv, Winner, CancelledOnce
<1>3. QED
  BY <1>1, <1>2 DEF IInv

\* Entries, goroutines and requests have their types, and no deadline is overrun.
THEOREM OrderCacheTypeOK == Spec => []TypeOK
BY PromisesByIInv, Inductive, PTL

\* What getOrder finds in the cache or has loaded is the row, or was before it settled.
THEOREM OrderCacheTellsThePast == Spec => []CacheTellsThePast
BY PromisesByIInv, Inductive, PTL

\* An entry that is stale has time left, and its row is not yet Bound old.
LEMMA StaleByIInv ==
  ASSUME IInv
  PROVE  StaleBounded
<1> SUFFICES ASSUME NEW o \in OrderIds, cache[o] # Nothing, Stale(o, cache[o].view)
             PROVE  age[o] < Bound
  BY DEF StaleBounded
<1>1. cache[o].left \in 1 .. TTL /\ age[o] + cache[o].left <= Bound
  BY DEF IInv, EntryOK
<1>2. age[o] \in Nat
  BY DEF IInv, TypeOK
<1>3. PICK n \in 1 .. TTL : n = cache[o].left
  BY <1>1
<1>4. QED
  BY <1>1, <1>2, <1>3, Durations

\* However Set and Delete race, an order that has settled is served as pending for
\* less than a query, a goroutine and the TTL.
THEOREM OrderCacheStaleBounded == Spec => []StaleBounded
BY StaleByIInv, Inductive, PTL

\* One cancelOrderHandler at most answers that it cancelled an order.
THEOREM OrderCacheCancelledOnce == Spec => []CancelledOnce
BY PromisesByIInv, Inductive, PTL

-----------------------------------------------------------------------------
(* Crashes of Redis.                                                       *)

\* What an event can do to a row, and that it takes no time.
LEMMA RowsEvolve ==
  ASSUME IInv, Event, NEW o \in OrderIds
  PROVE  /\ age'[o] = age[o]
         /\ \/ status'[o] = status[o]
            \/ status[o] = "absent"
            \/ status[o] = "pending" /\ status'[o] \in {"confirmed", "cancelled"}
<1> DEFINE P == /\ age'[o] = age[o]
                /\ \/ status'[o] = status[o]
                   \/ status[o] = "absent"
                   \/ status[o] = "pending" /\ status'[o] \in {"confirmed", "cancelled"}
<1>1. ASSUME NEW S \in SUBSET OrderIds, Cancel(S), age' = age PROVE P
  BY <1>1, CancelSettles
<1>2. ASSUME NEW r \in Requests, RequestStep(r) PROVE P
  <2>1. CASE CancelCommit(r) \/ CancelUnanswered(r)
    <3>1. {req[r].order} \in SUBSET OrderIds
      BY ReqFields DEF IInv
    <3>2. QED
      BY <2>1, <3>1, <1>1 DEF CancelCommit, CancelUnanswered
  <2>2. CASE ~(CancelCommit(r) \/ CancelUnanswered(r))
    BY <1>2, <2>2 DEF RequestStep, Begin, CacheHit, CacheMiss, QueryOrder, FetchItems,
       RequestError, ShowOrder, CancelRefused, CancelReply
  <2>3. QED
    BY <2>1, <2>2
<1>3. ASSUME NEW j \in Jobs, JobStep(j) PROVE P
  BY <1>3 DEF JobStep, JobSet, JobDelete, JobFails
<1>4. CASE JanitorStep
  BY <1>4, <1>1 DEF JanitorStep, JanitorRound, JanitorDelete, JanitorDeleteFails
<1>5. ASSUME NEW z \in OrderIds, PlaceOrder(z) \/ ConfirmOrder(z) PROVE P
  BY <1>5 DEF PlaceOrder, Place, ConfirmOrder, Confirm, Unsettled, IInv, TypeOK
<1>6. CASE Restart
  BY <1>6 DEF Restart
<1>7. QED
  BY <1>2, <1>3, <1>4, <1>5, <1>6 DEF Event

\* An event leaves a snapshot as good as it was.
LEMMA SavedEvent ==
  ASSUME CrashIInv, Event, saved' = saved, NEW o \in OrderIds
  PROVE  SavedOK(o)'
<1>1. /\ age'[o] = age[o] /\ age[o] \in Nat
      /\ ~Settled(o) => age[o] = 0
      /\ \/ status'[o] = status[o]
         \/ status[o] = "absent"
         \/ status[o] = "pending" /\ status'[o] \in {"confirmed", "cancelled"}
  BY RowsEvolve DEF CrashIInv, IInv, TypeOK
<1>2. CASE saved[o] = Nothing
  BY <1>2 DEF SavedOK
<1>3. CASE saved[o] # Nothing
  <2>1. PICK e \in Entry : e = saved[o] /\ e # Nothing /\ e.view \in View /\ e.left \in Nat
    BY <1>3 DEF CrashIInv, SavedOK, Entry
  <2>2. /\ Truthful(o, e.view) /\ e.left \in 1 .. TTL
        /\ Stale(o, e.view) => age[o] + e.left <= Bound
    BY <2>1 DEF CrashIInv, SavedOK
  <2>3. Truthful(o, e.view)' /\ (Stale(o, e.view)' => Stale(o, e.view) \/ age[o] = 0)
    BY <2>2, <1>1 DEF Truthful, Stale, Settled
  <2>4. Stale(o, e.view)' => age'[o] + e.left <= Bound
    BY <2>1, <2>2, <2>3, <1>1, Durations
  <2>5. QED
    BY <2>1, <2>2, <2>3, <2>4 DEF SavedOK
<1>4. QED
  BY <1>2, <1>3

\* A snapshot grows old as its entries would.
LEMMA SavedTick ==
  ASSUME CrashIInv, Tick, saved' = SavedLater, NEW o \in OrderIds
  PROVE  SavedOK(o)' /\ saved'[o] \in Entry \cup {Nothing}
<1>1. saved'[o] = IF Expired(saved[o]) THEN Nothing ELSE [saved[o] EXCEPT !.left = @ - 1]
  BY DEF SavedLater, Aged
<1>2. CASE Expired(saved[o])
  BY <1>1, <1>2 DEF SavedOK
<1>3. CASE ~Expired(saved[o])
  <2>1. PICK e \in Entry : e = saved[o] /\ e.view \in View /\ e.left \in Nat
    BY <1>3 DEF Expired, CrashIInv, SavedOK, Entry
  <2>2. e # Nothing /\ e.left # 1
    BY <2>1, <1>3 DEF Expired
  <2>3. /\ Truthful(o, e.view) /\ e.left \in 1 .. TTL
        /\ Stale(o, e.view) => age[o] + e.left <= Bound
    BY <2>1, <2>2 DEF CrashIInv, SavedOK
  <2>4. PICK f : f = [e EXCEPT !.left = @ - 1]
    OBVIOUS
  <2>5. f \in Entry /\ f.view = e.view /\ f.left = e.left - 1
    BY <2>1, <2>3, <2>4, Durations DEF Entry
  <2>6. saved'[o] = f
    BY <1>1, <1>3, <2>1, <2>4
  <2>7. f.left \in 1 .. TTL
    BY <2>1, <2>2, <2>3, <2>5, Durations
  <2>8. age[o] \in Nat /\ age'[o] \in Nat /\ age'[o] <= age[o] + 1 /\ status' = status
    BY Ages DEF CrashIInv, IInv, TypeOK
  <2>9. Stale(o, e.view) => age'[o] + f.left <= Bound
    BY <2>1, <2>3, <2>5, <2>8, Durations
  <2>10. QED
    BY <2>3, <2>5, <2>6, <2>7, <2>8, <2>9 DEF SavedOK, Truthful, Stale, Settled
<1>4. QED
  BY <1>2, <1>3

\* Whatever entries a restart of Redis brings back are as good as the snapshot.
LEMMA RedisInv ==
  ASSUME CrashIInv, Save \/ RedisRestart \/ RedisReplaced
  PROVE  CrashIInv'
<1>1. /\ status' = status /\ age' = age /\ req' = req /\ job' = job /\ janitor' = janitor
      /\ cache' \in {cache, saved, [o \in OrderIds |-> Nothing]}
      /\ saved' \in {cache, saved, [o \in OrderIds |-> Nothing]}
  BY DEF Save, RedisRestart, RedisReplaced, vars
<1>2. IInv
  BY DEF CrashIInv
<1>3. /\ cache \in [OrderIds -> Entry \cup {Nothing}]
      /\ saved \in [OrderIds -> Entry \cup {Nothing}]
  BY DEF CrashIInv, IInv, TypeOK
<1>4. /\ cache' \in [OrderIds -> Entry \cup {Nothing}]
      /\ saved' \in [OrderIds -> Entry \cup {Nothing}]
  BY <1>1, <1>3
<1>5. ASSUME NEW o \in OrderIds PROVE EntryOK(o)' /\ SavedOK(o)'
  <2>1. /\ cache'[o] \in {cache[o], saved[o], Nothing}
        /\ saved'[o] \in {cache[o], saved[o], Nothing}
    BY <1>1
  <2>2. EntryOK(o) /\ SavedOK(o) /\ cache[o] \in Entry \cup {Nothing}
    BY <1>3 DEF CrashIInv, IInv
  <2>3. QED
    BY <2>1, <2>2, <1>1 DEF EntryOK, SavedOK, Truthful, Stale, Settled
<1>6. IInv'
  BY <1>1, <1>2, <1>4, <1>5, RowsKept DEF IInv, TypeOK, Winner
<1>7. QED
  BY <1>4, <1>5, <1>6 DEF CrashIInv

\* What Redis, its snapshot, the goroutines and the requests hold of an order agrees
\* with its row and with how long ago it was settled, through crashes of Redis.
THEOREM CrashInvariant == CrashSpec => []CrashIInv
<1>1. CrashInit => CrashIInv
  BY InitInv DEF CrashInit, CrashIInv, SavedOK
<1>2. ASSUME CrashIInv, [CrashNext]_crashVars PROVE CrashIInv'
  <2>1. IInv
    BY <1>2 DEF CrashIInv
  <2>2. CASE Event /\ UNCHANGED saved
    <3>1. IInv'
      BY <2>1, <2>2, StepInv DEF Next
    <3>2. QED
      BY <3>1, <2>2, <1>2, SavedEvent DEF CrashIInv
  <2>3. CASE Tick /\ saved' = SavedLater
    <3>1. IInv'
      BY <2>1, <2>3, StepInv DEF Next
    <3>2. saved' = [o \in OrderIds |-> saved'[o]]
      BY <2>3 DEF SavedLater, Aged
    <3>3. \A o \in OrderIds : SavedOK(o)' /\ saved'[o] \in Entry \cup {Nothing}
      BY <2>3, <1>2, SavedTick
    <3>4. saved' \in [OrderIds -> Entry \cup {Nothing}]
      BY <3>2, <3>3
    <3>5. QED
      BY <3>1, <3>3, <3>4 DEF CrashIInv
  <2>4. CASE Save \/ RedisRestart \/ RedisReplaced
    BY <2>4, <1>2, RedisInv
  <2>5. CASE UNCHANGED crashVars
    <3>1. IInv'
      BY <2>1, <2>5, StepInv DEF crashVars
    <3>2. saved' = saved /\ status' = status /\ age' = age
      BY <2>5 DEF crashVars, vars
    <3>3. QED
      BY <3>1, <3>2, <1>2 DEF CrashIInv, SavedOK, Truthful, Stale, Settled
  <2>6. QED
    BY <1>2, <2>2, <2>3, <2>4, <2>5 DEF CrashNext
<1>3. QED
  BY <1>1, <1>2, PTL DEF CrashSpec

LEMMA CrashIInvIsIInv == CrashIInv => IInv
BY DEF CrashIInv

\* A crash of Redis may undo a Delete, but no settled order is served as pending for
\* longer than without crashes.
THEOREM CrashStaleBounded == CrashSpec => []StaleBounded
BY CrashIInvIsIInv, StaleByIInv, CrashInvariant, PTL

\* A snapshot that comes back tells the past as well, ...
THEOREM CrashTellsThePast == CrashSpec => []CacheTellsThePast
BY CrashIInvIsIInv, PromisesByIInv, CrashInvariant, PTL

\* ... and makes no second request believe that it cancelled an order.
THEOREM CrashCancelledOnce == CrashSpec => []CancelledOnce
BY CrashIInvIsIInv, PromisesByIInv, CrashInvariant, PTL

\* Entries, goroutines and requests keep their types through crashes.
THEOREM CrashTypeOK == CrashSpec => []TypeOK
BY CrashIInvIsIInv, PromisesByIInv, CrashInvariant, PTL
=============================================================================
