---------------------------- MODULE MCScanRun ----------------------------
(* Small instances of ScanRun for TLC. *)
EXTENDS ScanRun, TLC

CONSTANTS w1, w2, p1

OneWorker == {w1}
NoWorker == {}
TwoWorkers == {w1, w2}
OneSweeper == {p1}
=============================================================================
