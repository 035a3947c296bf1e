-------------------------------- MODULE Pool ---------------------------------
(***************************************************************************)
(* The connections of database/sql that every call of internal/store       *)
(* shares: at most MAX_OPEN_CONNS, taken for a query or for a transaction,  *)
(* and the locks transactions keep on a row others want.  Calls wait for   *)
(* each other in both places, and the Ping of the health check waits       *)
(* without a deadline.                                                     *)
(***************************************************************************)
EXTENDS Naturals

CONSTANTS
  Requests,  \* goroutines that serve requests
  Janitors,  \* goroutines of cancelStaleOrdersJanitor
  Conns,     \* the MAX_OPEN_CONNS connections
  Free,      \* a connection in the pool, and a row no transaction has locked
  Abandoned  \* a connection whose transaction is left to database/sql to roll back

Calls == Requests \cup Janitors

ASSUME PoolAssumption ==
  /\ Requests \cap Janitors = {}
  /\ Free \notin Calls \cup Conns
  /\ Abandoned \notin Calls \cup {Free}

VARIABLES
  conn,  \* who has each connection
  row,   \* the connection that has locked the row everybody orders or cancels
  call   \* what each goroutine is doing

vars == <<conn, row, call>>

\* read: one query of products, users or roles.  order: the two of an order.
\* health: a role, then Ping.  create, update, stale: one that locks the row, of
\* OrderStore.Create, Cancel and Confirm, CancelStale.
Queries == [read |-> 1, order |-> 2, health |-> 2, create |-> 1, update |-> 1, stale |-> 1]

Kinds == DOMAIN Queries

Writes == {"create", "update", "stale"}

CallState ==
  [pc   : {"idle", "wait", "run", "locked", "items"},
   kind : Kinds,
   left : 0 .. 2]  \* connections the call has still to take, this one included

Init ==
  /\ conn = [c \in Conns |-> Free]
  /\ row = Free
  /\ call \in [Calls -> {q \in CallState : q.pc = "idle" /\ q.left = 0
                                           /\ q.kind = "read"}]

Held(x) == {c \in Conns : conn[c] = x}

Goto(x, pc) == call' = [call EXCEPT ![x].pc = pc]

Begin(x, kind) ==
  /\ call[x].pc = "idle"
  /\ kind = "stale" <=> x \in Janitors
  /\ call' = [call EXCEPT ![x] = [pc |-> "wait", kind |-> kind,
                                  left |-> Queries[kind]]]
  /\ UNCHANGED <<conn, row>>

\* QueryContext, ExecContext, BeginTx or Ping finds a connection, or a new one may
\* be opened.
Acquire(x, c) ==
  /\ call[x].pc = "wait"
  /\ conn[c] = Free
  /\ conn' = [conn EXCEPT ![c] = x]
  /\ Goto(x, "run")
  /\ UNCHANGED row

-----------------------------------------------------------------------------
(* What ends a call, or its use of a connection                            *)

\* Connections go back, and with them the locks of their transactions.
GiveBack(C) ==
  /\ conn' = [c \in Conns |-> IF c \in C THEN Free ELSE conn[c]]
  /\ row' = IF row \in C THEN Free ELSE row

\* CancelStale neither commits nor rolls back: the context it cancels on its return
\* makes database/sql roll back, later and elsewhere.
Leave(x) ==
  /\ conn' = [c \in Conns |-> IF conn[c] = x THEN Abandoned ELSE conn[c]]
  /\ UNCHANGED row

\* A call that has n more queries to make.
Continue(x, kind, n) ==
  call' = [call EXCEPT ![x] = IF n = 0
                              THEN [pc |-> "idle", kind |-> kind, left |-> 0]
                              ELSE [pc |-> "wait", kind |-> kind, left |-> n]]

Return(x) == Continue(x, call[x].kind, 0)

\* Scan, the end of the rows, or the answer to Ping gives the connection back
\* before the next one is taken.
QueryDone(x) ==
  /\ call[x].pc = "run"
  /\ call[x].kind \notin Writes
  /\ Continue(x, call[x].kind, call[x].left - 1)
  /\ GiveBack(Held(x))

\* SELECT ... FOR UPDATE, or UPDATE.  While another transaction has the row, the
\* statement waits, and keeps its connection.
LockRow(x, c) ==
  /\ call[x].pc = "run"
  /\ call[x].kind \in Writes
  /\ conn[c] = x
  /\ row = Free
  /\ row' = c
  /\ Goto(x, "locked")
  /\ UNCHANGED conn

\* Mutant of NextStatement: createOrderItem goes to s.db in place of tx.
OnThePool(x) == Goto(x, "wait")

\* Every statement of Create, Cancel and CancelStale goes to tx.
NextStatement(x) == Goto(x, "items")

Items(x) ==
  /\ call[x].pc = "locked"
  /\ call[x].kind = "create"
  /\ NextStatement(x)
  /\ UNCHANGED <<conn, row>>

Commit(x) ==
  /\ call[x].pc = IF call[x].kind = "create" THEN "items" ELSE "locked"
  /\ Return(x)
  /\ GiveBack(Held(x))

\* ErrDuplicateIdempotencyKey: the deferred Rollback runs first, then the handler
\* looks the order up.
Duplicate(x) ==
  /\ call[x].pc = "locked"
  /\ call[x].kind = "create"
  /\ Continue(x, "order", Queries["order"])
  /\ GiveBack(Held(x))

\* Nothing is stale: CancelStale returns before it has locked the row.
NothingStale(x) ==
  /\ call[x].pc = "run"
  /\ call[x].kind = "stale"
  /\ Return(x)
  /\ Leave(x)

\* Ping gets no context, and nothing ends its wait.
HasDeadline(x) == ~(call[x].kind = "health" /\ call[x].left = 1)

\* The context of a call ends while it waits for a connection.
GiveUp(x) ==
  /\ call[x].pc = "wait"
  /\ HasDeadline(x)
  /\ Return(x)
  /\ UNCHANGED <<conn, row>>

\* A refusal, an error, or the end of the context.  The deferred Rollback gives the
\* connection back, unless awaitDone has begun to when the context ends first;
\* CancelStale defers none.
Fail(x) ==
  /\ call[x].pc \in {"run", "locked", "items"}
  /\ Return(x)
  /\ \/ call[x].kind # "stale" /\ GiveBack(Held(x))
     \/ call[x].kind \in Writes /\ Leave(x)

\* Mutant of RolledBack: the context of CancelStale is never cancelled.
NeverRolledBack(c) == UNCHANGED <<conn, row>>

RolledBack(c) == GiveBack({c})

\* Tx.awaitDone of database/sql.
AwaitDone(c) ==
  /\ conn[c] = Abandoned
  /\ RolledBack(c)
  /\ UNCHANGED call

-----------------------------------------------------------------------------

Work(x) ==
  QueryDone(x) \/ Items(x) \/ Commit(x) \/ Duplicate(x) \/ NothingStale(x)

Next ==
  \/ \E x \in Calls, kind \in Kinds : Begin(x, kind)
  \/ \E x \in Calls, c \in Conns : Acquire(x, c) \/ LockRow(x, c)
  \/ \E x \in Calls : Work(x) \/ GiveUp(x) \/ Fail(x)
  \/ \E c \in Conns : AwaitDone(c)

Spec == Init /\ [][Next]_vars

\* PostgreSQL answers, and database/sql rolls back: weak fairness.  A connection
\* goes to a waiting call chosen at random, a row to the first that waits: strong
\* fairness.  No context has to end: nothing is assumed of GiveUp and Fail.
Fairness ==
  /\ \A x \in Calls :
       /\ WF_vars(Work(x))
       /\ SF_vars(\E c \in Conns : Acquire(x, c))
       /\ SF_vars(\E c \in Conns : LockRow(x, c))
  /\ \A c \in Conns : WF_vars(AwaitDone(c))

FairSpec == Spec /\ Fairness

-----------------------------------------------------------------------------

\* Every variable has its type.
TypeOK ==
  /\ conn \in [Conns -> Calls \cup {Free, Abandoned}]
  /\ row \in Conns \cup {Free}
  /\ call \in [Calls -> CallState]

Running(x) == call[x].pc \in {"run", "locked", "items"}

\* A call that waits for a connection has none, and no transaction of its own open
\* (Create runs all its statements in its transaction, and its look-up after it);
\* a call that runs has one, and a call that has returned has none.
NoHoldAndWait ==
  \A x \in Calls :
    /\ ~Running(x) => Held(x) = {}
    /\ Running(x) => \E c \in Conns : Held(x) = {c}

\* The inductive invariant: a call under way has a query to make.
IInv ==
  /\ TypeOK
  /\ \A x \in Calls : call[x].pc # "idle" => call[x].left > 0
  /\ NoHoldAndWait

\* Every call ends, Ping without a deadline too, and though calls wait for
\* connections and for the row at once; none depends on another's context ending.
CallsServed == \A x \in Calls : call[x].pc # "idle" ~> call[x].pc = "idle"
=============================================================================
