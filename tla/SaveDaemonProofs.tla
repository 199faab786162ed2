-------------------------- MODULE SaveDaemonProofs --------------------------
(***************************************************************************)
(* Proofs about SaveDaemon for every set of intervals and every width of   *)
(* the counters: where the worker is follows from the flags, and the       *)
(* daemon implements the safety part of PeriodicSaver.                      *)
(***************************************************************************)
EXTENDS SaveDaemon, TLAPS

\* The inductive invariant: a stop in progress has requested the stop of a
\* running daemon; only a requested stop ends the worker.
IInv ==
  /\ TypeOK
  /\ WorkerWhileRunning
  /\ owner # "idle" => running /\ stop_requested
  /\ running => worker # "none"
  /\ running /\ stop_requested => owner # "idle"

\* A counter that wraps around keeps to its values.
LEMMA IncrementType ==
  \A n \in 0 .. Counts - 1 : Increment(n) \in 0 .. Counts - 1
BY CountsAssumption DEF Increment

\* The daemon starts with the invariant.
LEMMA InitIInv == Init => IInv
<1> SUFFICES ASSUME Init PROVE IInv
  OBVIOUS
<1>1. 0 \in 0 .. Counts - 1 /\ 0 \in 0 .. MaxInterval
  BY IntervalAssumption, CountsAssumption
<1>2. TypeOK
  BY <1>1, Zenon DEF Init, TypeOK, Place
<1> QED
  BY <1>2, Zenon DEF Init, IInv, WorkerWhileRunning

\* Every action of the owner, the worker and the other threads keeps it.
LEMMA NextIInv == IInv /\ [Next]_vars => IInv'
<1> SUFFICES ASSUME IInv, [Next]_vars PROVE IInv'
  OBVIOUS
<1> USE DEF IInv, TypeOK, WorkerWhileRunning, Place, settings, counters, clocks
<1>1. CASE start
  BY <1>1, Zenon DEF start
<1>2. CASE stop
  BY <1>2 DEF stop
<1>3. CASE StopNotify
  BY <1>3 DEF StopNotify, Notified
<1>4. CASE StopJoin
  BY <1>4, Zenon DEF StopJoin
<1>5. CASE trigger_save
  BY <1>5 DEF trigger_save, Notified
<1>6. CASE set_interval
  BY <1>6 DEF set_interval
<1>7. CASE Begin
  BY <1>7, IntervalAssumption DEF Begin
<1>8. CASE Test
  BY <1>8 DEF Test
<1>9. CASE EnterWait
  BY <1>9, IntervalAssumption DEF EnterWait
<1>10. CASE Timeout \/ SpuriousWake
  BY <1>10 DEF Timeout, SpuriousWake
<1>11. CASE Decide
  BY <1>11 DEF Decide
<1>12. CASE perform_save
  BY <1>12, IncrementType DEF perform_save
<1>13. CASE SleepEnds
  BY <1>13 DEF SleepEnds
<1>14. CASE EndBody
  BY <1>14, IntervalAssumption DEF EndBody
<1>15. CASE Tick
  BY <1>15, IntervalAssumption DEF Tick
<1>16. CASE UNCHANGED vars
  BY <1>16 DEF vars
<1> QED
  BY <1>1, <1>2, <1>3, <1>4, <1>5, <1>6, <1>7, <1>8, <1>9, <1>10, <1>11, <1>12,
     <1>13, <1>14, <1>15, <1>16 DEF Next, Owner, Worker

\* In every behaviour of the daemon.
LEMMA AlwaysIInv == Spec => []IInv
BY InitIInv, NextIInv, PTL DEF Spec

\* A daemon that is not running has no thread, so start never replaces one
\* that was not joined; one that runs unasked to stop has a worker in its loop.
THEOREM WorkerFollowsFlags == Spec => []WorkerWhileRunning
<1>1. IInv => WorkerWhileRunning
  BY DEF IInv
<1> QED
  BY <1>1, AlwaysIInv, PTL
-----------------------------------------------------------------------------
\* The initial daemon is a saver that is off.
LEMMA InitSaver == Init => Saver!Init
BY DEF Init, Saver!Init

\* Every step of the daemon is a step of the saver or changes nothing it shows.
LEMMA NextSaver == IInv /\ [Next]_vars => [Saver!Next]_Saver!vars
<1> SUFFICES ASSUME IInv, [Next]_vars PROVE [Saver!Next]_Saver!vars
  OBVIOUS
<1> USE DEF IInv, TypeOK, WorkerWhileRunning, settings, counters, Saver!vars
<1>1. CASE start
  BY <1>1 DEF start, Saver!Next, Saver!TurnOn
<1>2. CASE stop
  BY <1>2 DEF stop, Saver!Next, Saver!AskToStop
<1>3. CASE StopNotify \/ trigger_save
  BY <1>3 DEF StopNotify, trigger_save, Notified
<1>4. CASE StopJoin
  BY <1>4 DEF StopJoin, Saver!Next, Saver!TurnOff
<1>5. CASE Decide
  BY <1>5 DEF Decide, Saver!Next, Saver!BeginSave
<1>6. CASE perform_save
  BY <1>6 DEF perform_save, Increment, Saver!Next, Saver!EndSave, Saver!Count
<1>7. CASE Begin \/ Test \/ EnterWait \/ Timeout \/ SpuriousWake \/ SleepEnds \/ EndBody
  BY <1>7 DEF Begin, Test, EnterWait, Timeout, SpuriousWake, SleepEnds, EndBody
<1>8. CASE set_interval \/ Tick \/ UNCHANGED vars
  BY <1>8 DEF set_interval, Tick, vars
<1> QED
  BY <1>1, <1>2, <1>3, <1>4, <1>5, <1>6, <1>7, <1>8 DEF Next, Owner, Worker

\* The daemon, with its unlocked notifications and its waits without a
\* predicate, implements the saver: no save begins after a stop was requested,
\* none overlaps another, stop returns with none running, each is counted once.
THEOREM ImplementsSafeSaver == Spec => Saver!Safe
BY InitSaver, NextSaver, AlwaysIInv, PTL DEF Spec, Saver!Safe
=============================================================================
