----------------------------- MODULE OrderCache ------------------------------
(***************************************************************************)
(* The read-aside cache of orders: ordersContextMiddleware and getOrder,   *)
(* the GET and cancel handlers behind them, the goroutines they start to   *)
(* Set and Delete entries, and what the janitor deletes.  The rows are     *)
(* those of OrderLife; Redis drops an entry TTL ticks after its Set.       *)
(***************************************************************************)
EXTENDS OrderLife, Naturals

CONSTANTS
  Requests,      \* goroutines serving GET /orders/{id} and POST .../cancel
  Jobs,          \* bound of the model on goroutines started with go func()
  Nothing,       \* no entry, no view, no job
  TTL,           \* OrderExpTime
  JobTimeout,    \* the 3 seconds of context.WithTimeout in the goroutines
  QueryTimeout   \* QueryTimeoutDuration of the store

View == [status : RowStatus, whole : BOOLEAN]  \* whole: has all its line items

ASSUME CacheAssumption ==
  /\ OrderIds # {}
  /\ Nothing \notin View
  /\ Nothing \notin [view : View, left : Nat]
  /\ Nothing \notin [op : {"set", "delete"}, order : OrderIds,
                     view : View \cup {Nothing}, left : Nat]
  /\ TTL \in Nat \ {0}
  /\ JobTimeout \in Nat
  /\ QueryTimeout \in Nat

\* How long a settled order may go on being served from the cache as pending.
Bound == QueryTimeout + JobTimeout + TTL

VARIABLES
  cache,    \* Redis: the entry of each order, with the ticks it has left
  req,      \* what each request is doing
  job,      \* the goroutines started and not finished
  janitor,  \* ids CancelStale returned and the janitor has not yet deleted
  age       \* ticks since each row was settled, up to Bound (history)

vars == <<status, cache, req, job, janitor, age>>

ReqState ==
  [pc     : {"idle", "lookup", "query", "items", "serve", "cancelled"},
   op     : {"get", "cancel"},
   order  : OrderIds,
   view   : View \cup {Nothing},
   left   : Nat,
   answer : {"none", "shown", "ok", "refused", "notfound", "error"}]

JobState == [op : {"set", "delete"}, order : OrderIds, view : View \cup {Nothing},
             left : Nat]

Entry == [view : View, left : Nat]

IdleReq == [pc |-> "idle", op |-> "get", order |-> CHOOSE o \in OrderIds : TRUE,
            view |-> Nothing, left |-> 0, answer |-> "none"]

Init ==
  /\ LifeInit
  /\ cache = [o \in OrderIds |-> Nothing]
  /\ req = [r \in Requests |-> IdleReq]
  /\ job = [j \in Jobs |-> Nothing]
  /\ janitor = {}
  /\ age = [o \in OrderIds |-> 0]

-----------------------------------------------------------------------------
(* getOrder                                                                *)

Begin(r, op, o) ==
  /\ req[r].pc = "idle"
  /\ req' = [req EXCEPT ![r] = [IdleReq EXCEPT !.pc = "lookup", !.op = op,
                                               !.order = o]]
  /\ UNCHANGED <<status, cache, job, janitor, age>>

\* Mutant of Kept: a hit renews the entry (GETEX in place of GET).
Renewed(o) == cache' = [cache EXCEPT ![o].left = TTL]

\* A GET leaves the entry and its expiry as they are.
Kept(o) == cache' = cache

CacheHit(r) ==
  LET o == req[r].order
  IN  /\ req[r].pc = "lookup"
      /\ cache[o] # Nothing
      /\ req' = [req EXCEPT ![r].pc = "serve", ![r].view = cache[o].view]
      /\ Kept(o)
      /\ UNCHANGED <<status, job, janitor, age>>

\* No entry, or an error of Redis, which is logged and treated the same.
CacheMiss(r) ==
  /\ req[r].pc = "lookup"
  /\ req' = [req EXCEPT ![r].pc = "query"]
  /\ UNCHANGED <<status, cache, job, janitor, age>>

Answer(r, a) ==
  req' = [req EXCEPT ![r].pc = "idle", ![r].left = 0, ![r].answer = a,
                     ![r].view = Nothing]

\* The first SELECT of OrderStore.GetById.
QueryOrder(r) ==
  LET o == req[r].order
  IN  /\ req[r].pc = "query"
      /\ IF status[o] = "absent"
         THEN Answer(r, "notfound")
         ELSE req' = [req EXCEPT ![r].pc = "items", ![r].left = QueryTimeout,
                        ![r].view = [status |-> status[o], whole |-> FALSE]]
      /\ UNCHANGED <<status, cache, job, janitor, age>>

StartJob(op, o, v) ==
  \E j \in Jobs :
    /\ job[j] = Nothing
    /\ job' = [job EXCEPT ![j] = [op |-> op, order |-> o, view |-> v,
                                  left |-> JobTimeout]]

\* The second SELECT and the loop over its rows.  The loop also ends early when
\* the context does, and rows.Err() is not read: the items are then incomplete.
FetchItems(r) ==
  /\ req[r].pc = "items"
  /\ \E w \in BOOLEAN :
       LET v == [req[r].view EXCEPT !.whole = w]
       IN  /\ req' = [req EXCEPT ![r].pc = "serve", ![r].view = v, ![r].left = 0]
           /\ StartJob("set", req[r].order, v)
  /\ UNCHANGED <<status, cache, janitor, age>>

\* An error of the store, before anything is committed: 500.
RequestError(r) ==
  /\ \/ req[r].pc \in {"query", "items"}
     \/ req[r].pc = "serve" /\ req[r].op = "cancel"
  /\ Answer(r, "error")
  /\ UNCHANGED <<status, cache, job, janitor, age>>

-----------------------------------------------------------------------------
(* getOrderByIdHandler and cancelOrderHandler                              *)

ShowOrder(r) ==
  /\ req[r].pc = "serve"
  /\ req[r].op = "get"
  /\ Answer(r, "shown")
  /\ UNCHANGED <<status, cache, job, janitor, age>>

\* OrderStore.Cancel goes by the row, whatever the view says.
CancelCommit(r) ==
  /\ req[r].pc = "serve"
  /\ req[r].op = "cancel"
  /\ Cancel({req[r].order})
  /\ req' = [req EXCEPT ![r].pc = "cancelled"]
  /\ UNCHANGED <<cache, job, janitor, age>>

\* Mutant of CancelRefused: the handler caches the order as cancelled whatever the
\* store has answered.
RefusedCached(r) ==
  /\ req[r].pc = "serve"
  /\ req[r].op = "cancel"
  /\ ~Unsettled(req[r].order)
  /\ StartJob("set", req[r].order, [req[r].view EXCEPT !.status = "cancelled"])
  /\ Answer(r, "refused")
  /\ UNCHANGED <<status, cache, janitor, age>>

CancelRefused(r) ==
  /\ req[r].pc = "serve"
  /\ req[r].op = "cancel"
  /\ ~Unsettled(req[r].order)
  /\ Answer(r, "refused")
  /\ UNCHANGED <<status, cache, job, janitor, age>>

\* The COMMIT reply is lost: 500, and nobody deletes the entry.
CancelUnanswered(r) ==
  /\ req[r].pc = "serve"
  /\ req[r].op = "cancel"
  /\ Cancel({req[r].order})
  /\ Answer(r, "error")
  /\ UNCHANGED <<cache, job, janitor, age>>

\* The goroutine that deletes the entry is only started; the reply does not wait.
CancelReply(r) ==
  /\ req[r].pc = "cancelled"
  /\ StartJob("delete", req[r].order, Nothing)
  /\ Answer(r, "ok")
  /\ UNCHANGED <<status, cache, janitor, age>>

-----------------------------------------------------------------------------
(* The goroutines, the janitor, and everybody else                         *)

Finish(j) == job' = [job EXCEPT ![j] = Nothing]

JobSet(j) ==
  /\ job[j] # Nothing
  /\ job[j].op = "set"
  /\ cache' = [cache EXCEPT ![job[j].order] = [view |-> job[j].view, left |-> TTL]]
  /\ Finish(j)
  /\ UNCHANGED <<status, req, janitor, age>>

JobDelete(j) ==
  /\ job[j] # Nothing
  /\ job[j].op = "delete"
  /\ cache' = [cache EXCEPT ![job[j].order] = Nothing]
  /\ Finish(j)
  /\ UNCHANGED <<status, req, janitor, age>>

\* Redis is down or slow: the error is logged and the goroutine ends.
JobFails(j) ==
  /\ job[j] # Nothing
  /\ Finish(j)
  /\ UNCHANGED <<status, cache, req, janitor, age>>

\* A round of CancelStale; with an error, ids is nil though it may be committed.
JanitorRound(S, ids) ==
  /\ janitor = {}
  /\ ids \in {S, {}}
  /\ Cancel(S)
  /\ janitor' = ids
  /\ UNCHANGED <<cache, req, job, age>>

JanitorDelete ==
  /\ janitor # {}
  /\ cache' = [o \in OrderIds |-> IF o \in janitor THEN Nothing ELSE cache[o]]
  /\ janitor' = {}
  /\ UNCHANGED <<status, req, job, age>>

\* The error of Delete is dropped.
JanitorDeleteFails ==
  /\ janitor # {}
  /\ janitor' = {}
  /\ UNCHANGED <<status, cache, req, job, age>>

PlaceOrder(o) ==
  /\ Place(o)
  /\ UNCHANGED <<cache, req, job, janitor, age>>

\* OrderStore.Confirm, whose caller is not in this repository, deletes nothing.
ConfirmOrder(o) ==
  /\ Confirm(o)
  /\ UNCHANGED <<cache, req, job, janitor, age>>

\* The process ends, shut down or killed, and is started again.
Restart ==
  /\ req' = [r \in Requests |-> IdleReq]
  /\ job' = [j \in Jobs |-> Nothing]
  /\ janitor' = {}
  /\ UNCHANGED <<status, cache, age>>

Settled(o) == status[o] \in {"confirmed", "cancelled"}

\* Mutant of TimeMayPass: the goroutines run with context.Background() itself.
JobsLinger == \A r \in Requests : req[r].pc = "items" => req[r].left > 0

\* Contexts end in time: a query or a goroutine whose time is up has its turn first.
\* (A command that Redis has received and not run when its context ends is left out.)
TimeMayPass ==
  /\ \A j \in Jobs : job[j] # Nothing => job[j].left > 0
  /\ \A r \in Requests : req[r].pc = "items" => req[r].left > 0

Expired(e) == e = Nothing \/ e.left = 1

\* Entries a tick later.
Aged(entries) ==
  [o \in OrderIds |-> IF Expired(entries[o]) THEN Nothing
                      ELSE [entries[o] EXCEPT !.left = @ - 1]]

Tick ==
  /\ TimeMayPass
  /\ cache' = Aged(cache)
  /\ job' = [j \in Jobs |-> IF job[j] = Nothing THEN Nothing
                            ELSE [job[j] EXCEPT !.left = @ - 1]]
  /\ req' = [r \in Requests |-> IF req[r].pc = "items"
                                THEN [req[r] EXCEPT !.left = @ - 1] ELSE req[r]]
  /\ age' = [o \in OrderIds |-> IF Settled(o) /\ age[o] < Bound THEN age[o] + 1
                                ELSE age[o]]
  /\ UNCHANGED <<status, janitor>>

RequestStep(r) ==
  \/ \E op \in {"get", "cancel"}, o \in OrderIds : Begin(r, op, o)
  \/ CacheHit(r) \/ CacheMiss(r)
  \/ QueryOrder(r) \/ FetchItems(r) \/ RequestError(r)
  \/ ShowOrder(r)
  \/ CancelCommit(r) \/ CancelRefused(r) \/ CancelUnanswered(r) \/ CancelReply(r)

JobStep(j) == JobSet(j) \/ JobDelete(j) \/ JobFails(j)

JanitorStep ==
  \/ \E S \in SUBSET OrderIds, ids \in SUBSET OrderIds : JanitorRound(S, ids)
  \/ JanitorDelete
  \/ JanitorDeleteFails

\* Everything but the passing of time.
Event ==
  \/ \E r \in Requests : RequestStep(r)
  \/ \E j \in Jobs : JobStep(j)
  \/ JanitorStep
  \/ \E o \in OrderIds : PlaceOrder(o) \/ ConfirmOrder(o)
  \/ Restart

Next == Event \/ Tick

Spec == Init /\ [][Next]_vars

-----------------------------------------------------------------------------

\* Every variable has its type.
TypeOK ==
  /\ status \in [OrderIds -> RowStatus \cup {"absent"}]
  /\ cache \in [OrderIds -> Entry \cup {Nothing}]
  /\ req \in [Requests -> ReqState]
  /\ job \in [Jobs -> JobState \cup {Nothing}]
  /\ janitor \subseteq OrderIds
  /\ age \in [OrderIds -> Nat]

\* A view of o is the row, or the row as it was before it settled.
Truthful(o, v) == status[o] # "absent" /\ v.status \in {"pending", status[o]}

\* No entry, no Set under way and no order a request has loaded ever claims a
\* state its row has not been in: a cached confirmation or cancellation is final.
CacheTellsThePast ==
  /\ \A o \in OrderIds : cache[o] # Nothing => Truthful(o, cache[o].view)
  /\ \A j \in Jobs : job[j] # Nothing /\ job[j].op = "set" =>
       Truthful(job[j].order, job[j].view)
  /\ \A r \in Requests : req[r].view # Nothing => Truthful(req[r].order, req[r].view)

Stale(o, v) == Settled(o) /\ v.status # status[o]

\* However Sets and Deletes race, fail or are lost in a restart, and though
\* Confirm deletes nothing, no entry outlives the settling of its order by more
\* than a query, a goroutine and the TTL ("with 5 minute TTL", README.md:24).
StaleBounded ==
  \A o \in OrderIds :
    cache[o] # Nothing /\ Stale(o, cache[o].view) => age[o] < Bound

\* At most one request is told that it cancelled an order, also when several have
\* read it as pending from the cache.
CancelledOnce ==
  \A r, s \in Requests :
    /\ req[r].answer = "ok" /\ req[s].answer = "ok"
    /\ req[r].order = req[s].order
    => r = s

(***************************************************************************)
(* The inductive invariant: whatever still carries a pending view of a     *)
(* settled order has little enough time left for its entry to be gone by   *)
(* Bound, and who has cancelled an order is the only one who has.          *)
(***************************************************************************)
EntryOK(o) == cache[o] # Nothing =>
  /\ Truthful(o, cache[o].view)
  /\ cache[o].left \in 1 .. TTL
  /\ Stale(o, cache[o].view) => age[o] + cache[o].left <= Bound

JobOK(j) == job[j] # Nothing /\ job[j].op = "set" =>
  /\ job[j].view # Nothing
  /\ Truthful(job[j].order, job[j].view)
  /\ job[j].left <= JobTimeout
  /\ Stale(job[j].order, job[j].view) =>
       age[job[j].order] + job[j].left + TTL <= Bound

Winner(r) == req[r].pc = "cancelled" \/ req[r].answer = "ok"

ReqOK(r) ==
  /\ req[r].view # Nothing => Truthful(req[r].order, req[r].view)
  /\ req[r].pc \in {"items", "serve", "cancelled"} => req[r].view # Nothing
  /\ req[r].pc = "items" =>
       /\ req[r].left <= QueryTimeout
       /\ Stale(req[r].order, req[r].view) =>
            age[req[r].order] + req[r].left + JobTimeout + TTL <= Bound
  /\ req[r].pc # "idle" => req[r].answer = "none"
  /\ Winner(r) => status[req[r].order] = "cancelled"

IInv ==
  /\ TypeOK
  /\ \A o \in OrderIds : EntryOK(o)
  /\ \A j \in Jobs : JobOK(j)
  /\ \A r \in Requests : ReqOK(r)
  /\ \A o \in OrderIds : ~Settled(o) => age[o] = 0
  /\ \A r, s \in Requests :
       Winner(r) /\ Winner(s) /\ req[r].order = req[s].order => r = s

\* "Fetches an order by ID, including its status ... and line items"
\* (cmd/api/orders.go:152): the order shown has all its line items.
ShownWhole ==
  [][\A r \in Requests :
       req[r].answer # "shown" /\ req'[r].answer = "shown" => req[r].view.whole]_vars
=============================================================================
