---------------------------- MODULE MCSaveDaemon ----------------------------
(* A small instance of SaveDaemon: three intervals, two-bit counters. *)
EXTENDS SaveDaemon

MCInterval == {1, 2, 3}
MCCounts == 2 ^ 2
=============================================================================
