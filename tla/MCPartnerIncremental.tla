------------------------ MODULE MCPartnerIncremental ------------------------
(* PartnerIncremental with two records. *)
EXTENDS PartnerIncremental

CONSTANTS r1, r2
============================================================================
