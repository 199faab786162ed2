---------------------------- MODULE PeriodicSaver ----------------------------
(***************************************************************************)
(* What a background saver promises to whoever starts and stops it:        *)
(* saves never overlap, none begins once a stop was requested, stop        *)
(* returns only when no save is running and then none can happen, and      *)
(* every finished save is counted.  SaveDaemon implements it.              *)
(***************************************************************************)
EXTENDS Integers

CONSTANT Counts             \* values a counter can hold

VARIABLES phase,            \* "off", "on" or "stopping"
          busy,             \* a save is running
          ok, bad           \* saves that succeeded, that failed

vars == <<phase, busy, ok, bad>>

Count(n) == IF n = Counts - 1 THEN 0 ELSE n + 1

Init == phase = "off" /\ busy = FALSE /\ ok = 0 /\ bad = 0

TurnOn ==
  /\ phase = "off" /\ ~busy
  /\ phase' = "on"
  /\ UNCHANGED <<busy, ok, bad>>

AskToStop ==
  /\ phase = "on"
  /\ phase' = "stopping"
  /\ UNCHANGED <<busy, ok, bad>>

TurnOff ==
  /\ phase = "stopping" /\ ~busy
  /\ phase' = "off"
  /\ UNCHANGED <<busy, ok, bad>>

BeginSave ==
  /\ phase = "on" /\ ~busy
  /\ busy' = TRUE
  /\ UNCHANGED <<phase, ok, bad>>

EndSave ==
  /\ busy /\ phase # "off"
  /\ busy' = FALSE
  /\ \/ ok' = Count(ok) /\ bad' = bad
     \/ bad' = Count(bad) /\ ok' = ok
  /\ UNCHANGED phase

Next == TurnOn \/ AskToStop \/ TurnOff \/ BeginSave \/ EndSave

Safe == Init /\ [][Next]_vars

\* It keeps saving while it is on, and a stop that was asked for comes about.
Live ==
  /\ (phase = "on") ~> (busy \/ phase # "on")
  /\ busy ~> ~busy
  /\ (phase = "stopping") ~> (phase = "off")

Spec == Safe /\ Live
=============================================================================
