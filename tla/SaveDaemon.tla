------------------------------ MODULE SaveDaemon ------------------------------
(***************************************************************************)
(* The save daemon of save_daemon.cpp: a worker thread that waits on a     *)
(* condition variable, without a predicate, and saves; the thread that     *)
(* owns the daemon and calls start and stop; and any thread that calls     *)
(* trigger_save or set_interval.                                            *)
(*                                                                         *)
(* stop and trigger_save notify without holding the mutex, so a            *)
(* notification finds the worker waiting or is lost.  The worker holds the *)
(* mutex from the return of wait_for to the end of the loop body, the save *)
(* and the sleep after a failed one included.  Time passes in ticks.  The  *)
(* only daemon the server makes (main.cpp:150) has no event publisher; the *)
(* server itself calls start alone, and the class is modelled as a whole.  *)
(***************************************************************************)
EXTENDS Integers

CONSTANTS Interval,         \* values of save_interval, in ticks
          MaxInterval,      \* time since the last save is not told apart past it
          Counts            \* values a counter can hold: 2^32 in the code

ASSUME IntervalAssumption ==
  /\ MaxInterval \in Nat
  /\ Interval # {} /\ Interval \subseteq 1 .. MaxInterval
ASSUME CountsAssumption == Counts \in Nat \ {0}

VARIABLES running, stop_requested,
          save_interval,
          successful_saves, failed_saves,
          since,            \* ticks since last_save_time
          left,             \* ticks to the deadline of wait_for
          worker,           \* where worker_loop is
          owner             \* where stop is

settings == <<running, stop_requested, save_interval>>
counters == <<successful_saves, failed_saves>>
clocks == <<since, left>>
vars == <<settings, counters, clocks, worker, owner>>

\* none: no thread; begin: spawned; test: at the loop condition; enter: the
\* condition held, the mutex is not taken yet; wait: in wait_for; woken: to
\* take the mutex again; save: in save_function; sleep: after a failure;
\* saved: perform_save returned; done: worker_loop returned.
Place == {"none", "begin", "test", "enter", "wait", "woken", "save", "sleep", "saved", "done"}

\* Every component of the state keeps its type.
TypeOK ==
  /\ running \in BOOLEAN /\ stop_requested \in BOOLEAN
  /\ save_interval \in Interval
  /\ successful_saves \in 0 .. Counts - 1 /\ failed_saves \in 0 .. Counts - 1
  /\ since \in 0 .. MaxInterval /\ left \in 0 .. MaxInterval
  /\ worker \in Place
  /\ owner \in {"idle", "notify", "join"}

Init ==
  /\ running = FALSE /\ stop_requested = FALSE
  /\ save_interval \in Interval
  /\ successful_saves = 0 /\ failed_saves = 0
  /\ since = 0 /\ left = 0
  /\ worker = "none"
  /\ owner = "idle"

MutexHeld == worker \in {"save", "sleep", "saved"}

\* atomic<int>::operator++, which wraps around.
Increment(n) == IF n = Counts - 1 THEN 0 ELSE n + 1

\* cv.notify_all(): reaches a worker that is waiting, and nobody else.
Notified == IF worker = "wait" THEN "woken" ELSE worker
-----------------------------------------------------------------------------
(* The owner. *)

start ==
  /\ owner = "idle" /\ ~running
  /\ stop_requested' = FALSE /\ running' = TRUE
  /\ worker' = "begin"
  /\ UNCHANGED <<save_interval, counters, clocks, owner>>

stop ==
  /\ owner = "idle" /\ running
  /\ stop_requested' = TRUE
  /\ owner' = "notify"
  /\ UNCHANGED <<running, save_interval, counters, clocks, worker>>

StopNotify ==
  /\ owner = "notify"
  /\ worker' = Notified
  /\ owner' = "join"
  /\ UNCHANGED <<settings, counters, clocks>>

\* Bug: stop returns without joining the worker.
StopJoin_Detach ==
  /\ owner = "join"
  /\ running' = FALSE
  /\ owner' = "idle"
  /\ UNCHANGED <<stop_requested, save_interval, counters, clocks, worker>>

StopJoin ==
  /\ owner = "join" /\ worker = "done"
  /\ worker' = "none"
  /\ running' = FALSE
  /\ owner' = "idle"
  /\ UNCHANGED <<stop_requested, save_interval, counters, clocks>>
-----------------------------------------------------------------------------
(* Any thread. *)

trigger_save ==
  /\ worker' = Notified
  /\ UNCHANGED <<settings, counters, clocks, owner>>

set_interval ==
  /\ ~MutexHeld
  /\ save_interval' \in Interval
  /\ UNCHANGED <<running, stop_requested, counters, clocks, worker, owner>>
-----------------------------------------------------------------------------
(* The worker. *)

Begin ==
  /\ worker = "begin"
  /\ since' = 0
  /\ worker' = "test"
  /\ UNCHANGED <<settings, counters, left, owner>>

Test ==
  /\ worker = "test"
  /\ worker' = IF stop_requested THEN "done" ELSE "enter"
  /\ UNCHANGED <<settings, counters, clocks, owner>>

EnterWait ==
  /\ worker = "enter"
  /\ left' = save_interval
  /\ worker' = "wait"
  /\ UNCHANGED <<settings, counters, since, owner>>

\* Bug: wait instead of wait_for.
Timeout_Never ==
  /\ worker = "wait" /\ left = 0 /\ left' = 1
  /\ UNCHANGED <<settings, counters, since, worker, owner>>

Timeout ==
  /\ worker = "wait" /\ left = 0
  /\ worker' = "woken"
  /\ UNCHANGED <<settings, counters, clocks, owner>>

\* A condition variable may return without a notification.
SpuriousWake ==
  /\ worker = "wait" /\ left > 0
  /\ worker' = "woken"
  /\ UNCHANGED <<settings, counters, clocks, owner>>

\* wait_for answers no_timeout if it returns before its deadline.
Due == since >= save_interval \/ left > 0

\* Bug: no look at stop_requested after the wait.
Decide_NoStop ==
  /\ worker = "woken"
  /\ worker' = IF Due THEN "save" ELSE "test"
  /\ UNCHANGED <<settings, counters, clocks, owner>>

Decide ==
  /\ worker = "woken"
  /\ worker' = IF stop_requested THEN "done" ELSE IF Due THEN "save" ELSE "test"
  /\ UNCHANGED <<settings, counters, clocks, owner>>

perform_save ==
  /\ worker = "save"
  /\ \/ /\ successful_saves' = Increment(successful_saves)
        /\ worker' = "saved"
        /\ UNCHANGED failed_saves
     \/ /\ failed_saves' = Increment(failed_saves)
        /\ worker' \in {"sleep", "saved"}       \* false, or an exception
        /\ UNCHANGED successful_saves
  /\ UNCHANGED <<settings, clocks, owner>>

SleepEnds ==
  /\ worker = "sleep"
  /\ worker' = "saved"
  /\ UNCHANGED <<settings, counters, clocks, owner>>

EndBody ==
  /\ worker = "saved"
  /\ since' = 0
  /\ worker' = "test"
  /\ UNCHANGED <<settings, counters, left, owner>>

Tick ==
  /\ since < MaxInterval \/ left > 0
  /\ since' = IF since < MaxInterval THEN since + 1 ELSE since
  /\ left' = IF left > 0 THEN left - 1 ELSE 0
  /\ UNCHANGED <<settings, counters, worker, owner>>
-----------------------------------------------------------------------------
Owner == start \/ stop \/ StopNotify \/ StopJoin
Worker == \/ Begin \/ Test \/ EnterWait \/ Timeout \/ SpuriousWake \/ Decide
          \/ perform_save \/ SleepEnds \/ EndBody
Next == Owner \/ Worker \/ trigger_save \/ set_interval \/ Tick

Spec == Init /\ [][Next]_vars

\* The worker is scheduled, its save and its sleep end, its wait times out and
\* time passes; stop, once called, runs on.
Fairness ==
  /\ WF_vars(Begin \/ Test \/ EnterWait \/ Decide \/ SleepEnds \/ EndBody)
  /\ WF_vars(perform_save) /\ WF_vars(Timeout) /\ WF_vars(Tick)
  /\ WF_vars(StopNotify) /\ WF_vars(StopJoin)

FairSpec == Spec /\ Fairness
-----------------------------------------------------------------------------
(* Properties. *)

\* start never replaces a thread that was not joined (std::thread would end
\* the program): a daemon that is not running has none.  And while it runs and
\* nobody asked it to stop, its worker has not left worker_loop.
WorkerWhileRunning ==
  /\ ~running => worker = "none"
  /\ running /\ ~stop_requested => worker \notin {"none", "done"}

\* stop returns, also when its notification falls between the worker's look
\* at stop_requested and its wait, where nobody hears it.
StopReturns == (owner = "notify") ~> (owner = "idle")

\* The promise this daemon makes; BeginSave is the worker's decision.
Saver == INSTANCE PeriodicSaver WITH
  phase <- IF ~running THEN "off" ELSE IF stop_requested THEN "stopping" ELSE "on",
  busy <- worker = "save",
  ok <- successful_saves,
  bad <- failed_saves

\* The worker, its lost notifications and its timeouts implement the promise:
\* saves do not overlap or begin after stop, are counted once, and keep coming
\* while the daemon runs, however often set_interval moves the interval
\* (save_daemon.cpp 44-66).
ImplementsSaver == Saver!Spec
=============================================================================
