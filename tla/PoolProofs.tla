----------------------------- MODULE PoolProofs ------------------------------
(***************************************************************************)
(* No call waits for a connection while it keeps another, for any number   *)
(* of requests, janitors and connections: the pool cannot be used up by    *)
(* calls that wait for each other.                                         *)
(***************************************************************************)
EXTENDS Pool, TLAPS

\* The fields of a call.
LEMMA CallFields ==
  ASSUME TypeOK, NEW x \in Calls
  PROVE  /\ call[x] \in CallState
         /\ call[x].pc \in {"idle", "wait", "run", "locked", "items"}
         /\ call[x].kind \in Kinds
         /\ call[x].left \in 0 .. 2
BY DEF TypeOK, CallState

\* A call that keeps its connections, and still has some to make if it goes on.
LEMMA Moves ==
  ASSUME IInv, NEW x \in Calls, NEW q \in CallState, UNCHANGED conn,
         call' = [call EXCEPT ![x] = q], row' \in Conns \cup {Free},
         q.pc # "idle" => q.left > 0,
         q.pc \in {"run", "locked", "items"} <=> Running(x)
  PROVE  IInv'
<1>1. /\ call'[x] = q /\ call' \in [Calls -> CallState]
      /\ \A y \in Calls : y # x => call'[y] = call[y]
  BY DEF IInv, TypeOK
<1>2. \A y \in Calls : Running(y)' = Running(y)
  BY <1>1 DEF Running
<1>3. \A y \in Calls : Held(y)' = Held(y)
  BY DEF Held
<1>4. QED
  BY <1>1, <1>2, <1>3 DEF IInv, TypeOK, NoHoldAndWait

\* A call whose connections all go, to the pool or to awaitDone.
LEMMA LetsGo ==
  ASSUME IInv, NEW x \in Calls, NEW q \in CallState, GiveBack(Held(x)) \/ Leave(x),
         call' = [call EXCEPT ![x] = q],
         q.pc \in {"idle", "wait"}, q.pc = "wait" => q.left > 0
  PROVE  IInv'
<1>1. /\ call'[x] = q /\ call' \in [Calls -> CallState]
      /\ \A y \in Calls : y # x => call'[y] = call[y]
  BY DEF IInv, TypeOK
<1>2. /\ \A c \in Conns : conn'[c] = IF conn[c] = x THEN conn'[c] ELSE conn[c]
      /\ \A c \in Conns : conn[c] = x => conn'[c] \in {Free, Abandoned}
      /\ conn' \in [Conns -> Calls \cup {Free, Abandoned}]
      /\ row' \in Conns \cup {Free}
  BY DEF IInv, TypeOK, GiveBack, Leave, Held
<1>3. Held(x)' = {}
  BY <1>2, PoolAssumption DEF Held
<1>4. \A y \in Calls : y # x => Held(y)' = Held(y)
  BY <1>2, PoolAssumption DEF Held
<1>5. TypeOK'
  BY <1>1, <1>2 DEF TypeOK
<1>6. ASSUME NEW y \in Calls
      PROVE  /\ (call[y].pc # "idle" => call[y].left > 0)'
             /\ (~Running(y) => Held(y) = {})'
             /\ (Running(y) => \E c \in Conns : Held(y) = {c})'
  <2>1. CASE y = x
    BY <2>1, <1>1, <1>3 DEF Running
  <2>2. CASE y # x
    <3>1. Running(y)' = Running(y) /\ Held(y)' = Held(y) /\ call'[y] = call[y]
      BY <2>2, <1>1, <1>4 DEF Running
    <3>2. QED
      BY <3>1 DEF IInv, NoHoldAndWait
  <2>3. QED
    BY <2>1, <2>2
<1>7. QED
  BY <1>5, <1>6 DEF IInv, NoHoldAndWait

\* What Continue leaves of a call.
LEMMA Continued ==
  ASSUME NEW x \in Calls, NEW kind \in Kinds, NEW n \in 0 .. 2, Continue(x, kind, n)
  PROVE  \E q \in CallState :
           /\ call' = [call EXCEPT ![x] = q]
           /\ q.pc \in {"idle", "wait"} /\ (q.pc = "wait" => q.left > 0)
           /\ n = 0 => q.pc = "idle"
<1>1. CASE n = 0
  <2>1. [pc |-> "idle", kind |-> kind, left |-> 0] \in CallState
    BY DEF CallState
  <2>2. QED
    BY <2>1, <1>1 DEF Continue
<1>2. CASE n # 0
  <2>1. [pc |-> "wait", kind |-> kind, left |-> n] \in CallState /\ n > 0
    BY <1>2 DEF CallState
  <2>2. QED
    BY <2>1, <1>2 DEF Continue
<1>3. QED
  BY <1>1, <1>2

-----------------------------------------------------------------------------
(* The steps                                                               *)

LEMMA BeginInv ==
  ASSUME IInv, NEW x \in Calls, NEW kind \in Kinds, Begin(x, kind)
  PROVE  IInv'
<1> DEFINE q == [pc |-> "wait", kind |-> kind, left |-> Queries[kind]]
<1>1. Queries[kind] \in 1 .. 2
  BY DEF Queries, Kinds
<1>2. /\ q \in CallState /\ q.pc = "wait" /\ q.left > 0
      /\ call' = [call EXCEPT ![x] = q]
      /\ UNCHANGED conn /\ row' \in Conns \cup {Free} /\ ~Running(x)
  BY <1>1 DEF Begin, CallState, IInv, TypeOK, Running
<1> HIDE DEF q
<1>3. QED
  BY <1>2, Moves

LEMMA AcquireInv ==
  ASSUME IInv, NEW x \in Calls, NEW c \in Conns, Acquire(x, c)
  PROVE  IInv'
<1>1. /\ call[x].pc = "wait" /\ conn[c] = Free /\ row' = row
      /\ conn' = [conn EXCEPT ![c] = x]
      /\ call' = [call EXCEPT ![x].pc = "run"]
  BY DEF Acquire, Goto
<1>2. /\ [call[x] EXCEPT !.pc = "run"] \in CallState
      /\ [call[x] EXCEPT !.pc = "run"].pc = "run"
      /\ [call[x] EXCEPT !.pc = "run"].left = call[x].left
  BY CallFields DEF IInv, CallState
<1>3. /\ call' \in [Calls -> CallState]
      /\ call'[x].pc = "run" /\ call'[x].left = call[x].left
      /\ \A y \in Calls : y # x => call'[y] = call[y]
  BY <1>1, <1>2 DEF IInv, TypeOK
<1>4. TypeOK'
  BY <1>1, <1>3 DEF IInv, TypeOK
<1>5. Held(x) = {}
  BY <1>1 DEF IInv, NoHoldAndWait, Running
<1>6. /\ conn'[c] = x
      /\ \A d \in Conns : d # c => conn'[d] = conn[d]
  BY <1>1 DEF IInv, TypeOK
<1>7. Held(x)' = {c}
  BY <1>5, <1>6 DEF Held
<1>8. \A y \in Calls : y # x => Held(y)' = Held(y)
  BY <1>1, <1>6, PoolAssumption DEF Held
<1>9. ASSUME NEW y \in Calls
      PROVE  /\ (call[y].pc # "idle" => call[y].left > 0)'
             /\ (~Running(y) => Held(y) = {})'
             /\ (Running(y) => \E d \in Conns : Held(y) = {d})'
  <2>1. CASE y = x
    BY <2>1, <1>1, <1>3, <1>7 DEF Running, IInv
  <2>2. CASE y # x
    <3>1. Running(y)' = Running(y) /\ Held(y)' = Held(y) /\ call'[y] = call[y]
      BY <2>2, <1>3, <1>8 DEF Running
    <3>2. QED
      BY <3>1 DEF IInv, NoHoldAndWait
  <2>3. QED
    BY <2>1, <2>2
<1>10. QED
  BY <1>4, <1>9 DEF IInv, NoHoldAndWait

\* A statement inside the call's transaction.
LEMMA StatementInv ==
  ASSUME IInv, NEW x \in Calls, (\E c \in Conns : LockRow(x, c)) \/ Items(x)
  PROVE  IInv'
<1>1. PICK pc \in {"locked", "items"} :
        /\ call' = [call EXCEPT ![x].pc = pc]
        /\ UNCHANGED conn /\ row' \in Conns \cup {Free}
        /\ call[x].pc \in {"run", "locked"}
  BY DEF LockRow, Items, NextStatement, Goto, IInv, TypeOK
<1> DEFINE q == [call[x] EXCEPT !.pc = pc]
<1>2. q \in CallState /\ q.pc = pc /\ q.left = call[x].left
  BY CallFields DEF IInv, CallState
<1>3. Running(x) /\ call[x].left > 0 /\ call' = [call EXCEPT ![x] = q]
  BY <1>1 DEF Running, IInv
<1> HIDE DEF q
<1>4. QED
  BY <1>1, <1>2, <1>3, Moves

\* The end of a call, or of one of its queries.
LEMMA EndInv ==
  ASSUME IInv, NEW x \in Calls,
         QueryDone(x) \/ Commit(x) \/ Duplicate(x) \/ NothingStale(x) \/ Fail(x)
  PROVE  IInv'
<1>1. GiveBack(Held(x)) \/ Leave(x)
  BY DEF QueryDone, Commit, Duplicate, NothingStale, Fail
<1>2. PICK q \in CallState :
        /\ call' = [call EXCEPT ![x] = q]
        /\ q.pc \in {"idle", "wait"} /\ (q.pc = "wait" => q.left > 0)
  <2>1. CASE Return(x)
    BY <2>1, CallFields, Continued DEF Return, IInv
  <2>2. CASE QueryDone(x)
    <3>1. /\ call[x].left > 0 /\ call[x].left \in 0 .. 2 /\ call[x].kind \in Kinds
          /\ Continue(x, call[x].kind, call[x].left - 1)
      BY <2>2, CallFields DEF QueryDone, IInv
    <3>2. PICK kind \in Kinds, n \in 0 .. 2 : Continue(x, kind, n)
      BY <3>1
    <3>3. QED
      BY <3>2, Continued
  <2>3. CASE Duplicate(x)
    <3>1. Continue(x, "order", Queries["order"]) /\ "order" \in Kinds
          /\ Queries["order"] \in 0 .. 2
      BY <2>3 DEF Duplicate, Queries, Kinds
    <3>2. QED
      BY <3>1, Continued
  <2>4. QED
    BY <2>1, <2>2, <2>3 DEF Commit, NothingStale, Fail
<1>3. QED
  BY <1>1, <1>2, LetsGo

LEMMA GiveUpInv ==
  ASSUME IInv, NEW x \in Calls, GiveUp(x)
  PROVE  IInv'
<1>1. PICK q \in CallState : q.pc = "idle" /\ call' = [call EXCEPT ![x] = q]
  BY Continued, CallFields DEF GiveUp, Return, IInv
<1>2. ~Running(x) /\ UNCHANGED conn /\ row' \in Conns \cup {Free}
  BY DEF GiveUp, Running, IInv, TypeOK
<1>3. QED
  BY <1>1, <1>2, Moves

LEMMA AwaitDoneInv ==
  ASSUME IInv, NEW c \in Conns, AwaitDone(c)
  PROVE  IInv'
<1>1. /\ conn[c] = Abandoned /\ UNCHANGED call
      /\ conn' = [d \in Conns |-> IF d \in {c} THEN Free ELSE conn[d]]
      /\ row' = IF row \in {c} THEN Free ELSE row
  BY DEF AwaitDone, RolledBack, GiveBack
<1>2. conn \in [Conns -> Calls \cup {Free, Abandoned}] /\ row \in Conns \cup {Free}
  BY DEF IInv, TypeOK
<1>3. /\ \A d \in Conns : conn'[d] = IF d = c THEN Free ELSE conn[d]
      /\ conn' \in [Conns -> Calls \cup {Free, Abandoned}]
      /\ row' \in Conns \cup {Free}
  BY <1>1, <1>2
<1>4. \A y \in Calls : Held(y)' = Held(y) /\ Running(y)' = Running(y)
  BY <1>1, <1>3, PoolAssumption DEF Held, Running
<1>5. QED
  BY <1>1, <1>3, <1>4 DEF IInv, TypeOK, NoHoldAndWait

LEMMA InitInv == Init => IInv
<1> SUFFICES ASSUME Init PROVE IInv
  OBVIOUS
<1>1. \A x \in Calls : call[x] \in CallState /\ call[x].pc = "idle"
  BY DEF Init
<1>2. \A x \in Calls : Held(x) = {}
  BY PoolAssumption DEF Init, Held
<1>3. TypeOK
  BY DEF Init, TypeOK
<1>4. QED
  BY <1>1, <1>2, <1>3 DEF IInv, NoHoldAndWait, Running

LEMMA StepInv == IInv /\ [Next]_vars => IInv'
<1> SUFFICES ASSUME IInv, [Next]_vars PROVE IInv'
  OBVIOUS
<1>1. CASE UNCHANGED vars
  BY <1>1 DEF vars, IInv, TypeOK, NoHoldAndWait, Held, Running
<1>2. CASE Next
  BY <1>2, BeginInv, AcquireInv, StatementInv, EndInv, GiveUpInv, AwaitDoneInv
  DEF Next, Work
<1>3. QED
  BY <1>1, <1>2

\* A call under way has a query to make and one connection exactly while it runs, for
\* any MAX_OPEN_CONNS and any number of callers that time out, give up or wait.
THEOREM PoolInvariant == Spec => []IInv
BY InitInv, StepInv, PTL DEF Spec

\* A call of internal/store that waits for a connection of the pool has none, and one
\* that has returned has given its own back.
THEOREM PoolNoHoldAndWait == Spec => []NoHoldAndWait
<1>1. IInv => NoHoldAndWait
  BY DEF IInv
<1>2. QED
  BY <1>1, PoolInvariant, PTL
=============================================================================
