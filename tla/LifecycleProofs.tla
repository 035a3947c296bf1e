-------------------------- MODULE LifecycleProofs ---------------------------
(***************************************************************************)
(* A clean stop is clean, for any number of requests: IInv of Lifecycle is *)
(* inductive.                                                              *)
(***************************************************************************)
EXTENDS Lifecycle, TLAPS

LEMMA InitInv == Init => IInv
BY DEF Init, IInv, TypeOK, InFlight

\* Requests come in only before Shutdown, and only leave after.
LEMMA RequestInv ==
  ASSUME IInv, NEW r \in Requests, Accept(r) \/ Answer(r)
  PROVE  IInv'
<1>1. CASE Accept(r)
  BY <1>1 DEF IInv, TypeOK, Accept, InFlight, Returned
<1>2. CASE Answer(r)
  <2>1. TypeOK'
    BY <1>2 DEF IInv, TypeOK, Answer
  <2>2. InFlight' \subseteq InFlight
    BY <1>2 DEF IInv, TypeOK, Answer, InFlight
  <2>3. QED
    BY <1>2, <2>1, <2>2 DEF IInv, Answer
<1>3. QED
  BY <1>1, <1>2

\* The goroutine that shuts the server down.
LEMMA NotifierInv ==
  ASSUME IInv, Signal \/ ShutdownDone \/ ShutdownExpires
  PROVE  IInv'
<1>1. CASE Signal
  BY <1>1 DEF IInv, TypeOK, Signal, InFlight
<1>2. CASE ShutdownDone
  BY <1>2 DEF IInv, TypeOK, ShutdownDone, Drained, InFlight
<1>3. CASE ShutdownExpires
  BY <1>3 DEF IInv, TypeOK, ShutdownExpires, InFlight
<1>4. QED
  BY <1>1, <1>2, <1>3

\* run asks the janitor to stop only after a nil, and returns nil only after that.
LEMMA RunInv ==
  ASSUME IInv, ListenFails \/ ServerClosed \/ ReceiveOutcome \/ StopJanitor
  PROVE  IInv'
<1>1. CASE ListenFails
  BY <1>1 DEF IInv, TypeOK, ListenFails, InFlight
<1>2. CASE ServerClosed
  BY <1>2 DEF IInv, TypeOK, ServerClosed, InFlight
<1>3. CASE ReceiveOutcome
  BY <1>3 DEF IInv, TypeOK, ReceiveOutcome, InFlight
<1>4. CASE StopJanitor
  BY <1>4 DEF IInv, TypeOK, StopJanitor, InFlight
<1>5. QED
  BY <1>1, <1>2, <1>3, <1>4

\* A stopped janitor starts no round.
LEMMA JanitorInv ==
  ASSUME IInv, TickerFires \/ StartRound \/ EndRound
  PROVE  IInv'
<1>1. CASE TickerFires
  BY <1>1 DEF IInv, TypeOK, TickerFires, InFlight
<1>2. CASE StartRound
  BY <1>2 DEF IInv, TypeOK, StartRound, InFlight
<1>3. CASE EndRound
  BY <1>3 DEF IInv, TypeOK, EndRound, InFlight
<1>4. QED
  BY <1>1, <1>2, <1>3

LEMMA StepInv == IInv /\ [Next]_vars => IInv'
<1> SUFFICES ASSUME IInv, [Next]_vars PROVE IInv'
  OBVIOUS
<1>1. CASE Exited \/ UNCHANGED vars
  BY <1>1 DEF Exited, vars, IInv, TypeOK, InFlight
<1>2. CASE ~(Exited \/ UNCHANGED vars)
  BY <1>2, RequestInv, NotifierInv, RunInv, JanitorInv DEF Next
<1>3. QED
  BY <1>1, <1>2

LEMMA Inductive == Spec => []IInv
BY InitInv, StepInv, PTL DEF Spec

\* Every variable has its type, and a janitor never takes a tick that is not there.
THEOREM LifecycleTypeOK == Spec => []TypeOK
<1>1. IInv => TypeOK
  BY DEF IInv
<1>2. QED
  BY <1>1, Inductive, PTL

\* run returns nil only with every accepted request answered and the janitor
\* between two rounds, whatever comes with or after the signal.
THEOREM LifecycleCleanStop == Spec => []CleanStop
<1>1. IInv => CleanStop
  BY DEF IInv, CleanStop
<1>2. QED
  BY <1>1, Inductive, PTL
=============================================================================
