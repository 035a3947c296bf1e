----------------------------- MODULE PlaceOrder ------------------------------
(***************************************************************************)
(* POST /orders/ end to end: placeOrderHandler over the store that         *)
(* Inventory promises, the look-up that answers a repeated Idempotency-Key *)
(* (OrderStore.GetByIdempotencyKey), replies that are lost, a COMMIT whose *)
(* answer is lost, restarts, and clients that send a request again.  The   *)
(* clients followed here share the rows with any others.                   *)
(***************************************************************************)
EXTENDS Inventory

CONSTANTS
  Requests,  \* goroutines that serve POST /orders/
  Intents,   \* what a client wants once, however often it asks: the user of its
             \* token and the key it chose
  None       \* no order

ASSUME PlaceOrderAssumption ==
  /\ None \notin OrderIds
  /\ Intents \subseteq Users \X Keys

VARIABLES
  req,       \* what each request is doing
  told,      \* orders each intent was answered with, 201 (history)
  refused,   \* intents answered 404 or 409, and not in doubt since (history)
  doubtful   \* intents that got a 500 or no answer at least once (history)

heard == <<told, refused, doubtful>>
serviceVars == <<vars, req, heard>>

Idle == [pc |-> "idle", intent |-> None, basket |-> None, order |-> None,
         answer |-> "none"]

Busy ==
  [pc     : {"create", "lookup", "items", "reply"},
   intent : Intents,
   basket : Baskets,
   order  : OrderIds \cup {None},
   answer : {"none", "created", "refused", "error"}]

ServiceInit ==
  /\ Init
  /\ req = [r \in Requests |-> Idle]
  /\ told = [i \in Intents |-> {}]
  /\ refused = {}
  /\ doubtful = {}

Row(o) == <<orders[o].user, orders[o].key>>

\* The row of an intent, if it has one: at most one, by the unique index.
RowOf(i) == {o \in Placed(orders) : Row(o) = i}

-----------------------------------------------------------------------------
(* placeOrderHandler                                                       *)

\* The headers, the payload and the token have passed their checks.
Send(r, i, basket) ==
  /\ req[r].pc = "idle"
  /\ req' = [req EXCEPT ![r] = [pc |-> "create", intent |-> i, basket |-> basket,
                                order |-> None, answer |-> "none"]]
  /\ UNCHANGED <<vars, heard>>

Reply(r, a, o) ==
  req' = [req EXCEPT ![r].pc = "reply", ![r].answer = a, ![r].order = o]

Placing(r, o, at) ==
  Place(o, req[r].intent[1], req[r].intent[2], req[r].basket, at)

Create(r) ==
  /\ req[r].pc = "create"
  /\ \E o \in OrderIds, at \in 0 .. clock :
       Placing(r, o, at) /\ Reply(r, "created", o)
  /\ UNCHANGED heard

\* Mutant of Unanswered: any error of the commit is told as a shortage.
UnansweredRefused(r) == Reply(r, "refused", None)

Unanswered(r) == Reply(r, "error", None)

\* The transaction commits, but the answer to COMMIT is lost or late.
CreateUnanswered(r) ==
  /\ req[r].pc = "create"
  /\ \E o \in OrderIds, at \in 0 .. clock : Placing(r, o, at)
  /\ Unanswered(r)
  /\ UNCHANGED heard

\* 404 or 409: the stock is looked at before the key is.
CreateRefused(r) ==
  /\ req[r].pc = "create"
  /\ ~InStock(req[r].basket)
  /\ Reply(r, "refused", None)
  /\ UNCHANGED <<vars, heard>>

\* Mutant of Duplicate: ErrDuplicateIdempotencyKey falls into the default case.
DuplicateFails(r) == Reply(r, "error", None)

Duplicate(r) == req' = [req EXCEPT ![r].pc = "lookup"]

\* The INSERT runs into the unique index of (user_id, idempotency_key).
CreateDuplicate(r) ==
  /\ req[r].pc = "create"
  /\ InStock(req[r].basket)
  /\ RowOf(req[r].intent) # {}
  /\ Duplicate(r)
  /\ UNCHANGED <<vars, heard>>

\* Mutant of Found: WHERE user_id = $1 without the key.
FoundByUser(i) == {o \in Placed(orders) : orders[o].user = i[1]}

\* WHERE user_id = $1 AND idempotency_key = $2
Found(i) == RowOf(i)

\* The first SELECT of GetByIdempotencyKey.
Lookup(r) ==
  /\ req[r].pc = "lookup"
  /\ \E o \in Found(req[r].intent) :
       req' = [req EXCEPT ![r].pc = "items", ![r].order = o]
  /\ UNCHANGED <<vars, heard>>

\* The second SELECT: its items belong to the order found, whatever was asked for.
LookupItems(r) ==
  /\ req[r].pc = "items"
  /\ Reply(r, "created", req[r].order)
  /\ UNCHANGED <<vars, heard>>

\* 500, with nothing committed by this request.
CallFails(r) ==
  /\ req[r].pc \in {"create", "lookup", "items"}
  /\ Reply(r, "error", None)
  /\ UNCHANGED <<vars, heard>>

-----------------------------------------------------------------------------
(* The clients                                                             *)

HandlerDone(r) == req' = [req EXCEPT ![r] = Idle]

\* From here on the client cannot know whether it has an order.
Doubt(S) ==
  /\ doubtful' = doubtful \cup S
  /\ refused' = refused \ S
  /\ UNCHANGED told

\* The reply arrives: an order or a refusal, ...
Receive(r) ==
  LET i == req[r].intent
  IN  /\ req[r].pc = "reply"
      /\ \/ /\ req[r].answer = "created"
            /\ told' = [told EXCEPT ![i] = @ \cup {req[r].order}]
            /\ UNCHANGED refused
         \/ /\ req[r].answer = "refused"
            /\ refused' = refused \cup {i}
            /\ UNCHANGED told
      /\ HandlerDone(r)
      /\ UNCHANGED <<vars, doubtful>>

\* ... or a 500, which leaves it open.
ReceiveError(r) ==
  /\ req[r].pc = "reply"
  /\ req[r].answer = "error"
  /\ Doubt({req[r].intent})
  /\ HandlerDone(r)
  /\ UNCHANGED vars

\* The connection breaks before the reply is through.
LoseReply(r) ==
  /\ req[r].pc = "reply"
  /\ Doubt({req[r].intent})
  /\ HandlerDone(r)
  /\ UNCHANGED vars

UnderWay == {r \in Requests : req[r].pc # "idle"}

\* The process is killed and started again.
Restart ==
  /\ UnderWay # {}
  /\ Doubt({req[r].intent : r \in UnderWay})
  /\ req' = [r \in Requests |-> Idle]
  /\ UNCHANGED vars

\* What others do to the rows: admins, cancellations, the janitor, confirmations,
\* and clients with keys that are not followed here.
Elsewhere ==
  /\ \/ Tick
     \/ \E p \in Products, n \in StockLevels : CreateProduct(p, n)
     \/ \E o \in OrderIds : Cancel(o) \/ Confirm(o)
     \/ \E S \in SUBSET OrderIds : CancelStale(S)
     \/ \E o \in OrderIds, i \in (Users \X Keys) \ Intents, basket \in Baskets,
           at \in 0 .. clock : Place(o, i[1], i[2], basket, at)
  /\ UNCHANGED <<req, heard>>

Decide(r) == Create(r) \/ CreateRefused(r) \/ CreateDuplicate(r)

HandlerStep(r) ==
  Decide(r) \/ CreateUnanswered(r) \/ Lookup(r) \/ LookupItems(r) \/ CallFails(r)

ReplyStep(r) == Receive(r) \/ ReceiveError(r) \/ LoseReply(r)

ServiceNext ==
  \/ \E r \in Requests, i \in Intents, basket \in Baskets : Send(r, i, basket)
  \/ \E r \in Requests : HandlerStep(r) \/ ReplyStep(r)
  \/ Restart
  \/ Elsewhere

ServiceSpec == ServiceInit /\ [][ServiceNext]_serviceVars

InDoubt(i) == i \in doubtful /\ i \notin refused /\ told[i] = {}

SendAgain(i) ==
  /\ InDoubt(i)
  /\ \E r \in Requests, basket \in Baskets : Send(r, i, basket)

Attempt(i, Step(_)) == \E r \in Requests : req[r].intent = i /\ Step(r)

\* A handler ends, since each of its calls has a context with a deadline, and its
\* reply arrives or is lost: weak fairness.  Faults may come back for ever, but
\* they pass: what is tried again and again succeeds at some time, and a client
\* in doubt sends its request again and finds the service free: strong fairness.
Fairness ==
  /\ \A r \in Requests :
       WF_serviceVars(HandlerStep(r)) /\ WF_serviceVars(ReplyStep(r))
  /\ \A i \in Intents :
       /\ SF_serviceVars(SendAgain(i))
       /\ SF_serviceVars(Attempt(i, Decide)) /\ SF_serviceVars(Attempt(i, Lookup))
       /\ SF_serviceVars(Attempt(i, LookupItems))
       /\ SF_serviceVars(Attempt(i, Receive))

FairSpec == ServiceSpec /\ Fairness

-----------------------------------------------------------------------------

\* The types of what a service and its clients know, beside the rows.
RequestsOK ==
  /\ req \in [Requests -> Busy \cup {Idle}]
  /\ told \in [Intents -> SUBSET OrderIds]
  /\ refused \subseteq Intents
  /\ doubtful \subseteq Intents

\* "Unique key to make the request idempotent" (cmd/api/orders.go:36): however
\* often a user sends a key, with whatever items, at the same time or after
\* restarts, every 201 names one order, and it is an order of that user and key.
RepliesAgree ==
  \A i \in Intents :
    /\ Cardinality(told[i]) <= 1
    /\ told[i] \subseteq RowOf(i)

\* The row of an intent is on its way to the client, or a 500 that stands for it.
OnItsWay(i) ==
  \E r \in Requests : req[r].pc = "reply" /\ req[r].intent = i
                      /\ req[r].answer \in {"created", "error"}

\* No stock is reserved behind a client's back: a client that was only ever told
\* "not found" or "insufficient stock", and never got a 500 or no answer, has no
\* order, however many of its requests ran at once.
NoSilentOrder ==
  \A i \in Intents :
    RowOf(i) # {} => told[i] # {} \/ i \in doubtful \/ OnItsWay(i)

(***************************************************************************)
(* The inductive invariant: an order that an attempt has in its hands, or  *)
(* that a client was told of, is the one row of its intent.                *)
(***************************************************************************)
AttemptOK(r) ==
  req[r].pc = "items" \/ (req[r].pc = "reply" /\ req[r].answer = "created") =>
    req[r].order \in RowOf(req[r].intent)

AnswersInv ==
  /\ RequestsOK
  /\ \A o, x \in Placed(orders) : Row(o) = Row(x) => o = x
  /\ \A r \in Requests : AttemptOK(r)
  /\ \A i \in Intents : told[i] \subseteq RowOf(i)
  /\ NoSilentOrder

\* Sending the request again ends every doubt: the client gets its order or a
\* refusal, whether or not an attempt that got no answer had committed.
RetriesSettle == \A i \in Intents : InDoubt(i) ~> ~InDoubt(i)
=============================================================================
