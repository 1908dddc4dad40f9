---------------------------- MODULE MCAlmaImport ----------------------------
(* AlmaImport with an incremental job of two files, a full one of one file, a *)
(* ReCAP one of none, a job that bibdata does not import and a webhook that   *)
(* is not a JOB_END.                                                          *)
EXTENDS AlmaImport, TLC

CONSTANTS incr, full, recap, other, started, f1, f2, f3

Files == [m \in Msg |-> IF m = incr THEN {f1, f2} \cap File ELSE IF m = full THEN {f3} ELSE {}]

Symmetry == Permutations({f1, f2})
============================================================================
