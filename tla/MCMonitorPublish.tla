-------------------------- MODULE MCMonitorPublish --------------------------
(* Instances of MonitorPublish for TLC. *)
EXTENDS MonitorPublish

CONSTANTS p1, p2, l1

OneProc == {p1}
TwoProc == {p1, p2}
OneLevel == {l1}
=============================================================================
