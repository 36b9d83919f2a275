--------------------------- MODULE MCSyncSessions ---------------------------
(***************************************************************************)
(* Instances of SyncSessions for TLC.                                      *)
(***************************************************************************)
EXTENDS SyncSessions, TLC

CONSTANTS s1, s2, s3, w1, w2

\* One process serves every session.
OneProcess == [s \in Sessions |-> w1]

\* Sessions s1 and s2 are served by different processes.
TwoProcesses == [s \in Sessions |-> IF s = s1 THEN w1 ELSE w2]
=============================================================================
