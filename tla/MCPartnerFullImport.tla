------------------------ MODULE MCPartnerFullImport ------------------------
(* PartnerFullImport with one or two institutions; in Good exports the first *)
(* version is public, and the others too or not.                             *)
EXTENDS PartnerFullImport, TLC

CONSTANTS nypl, cul, t1, t2, t3, t4, t5

Sizes == [i \in Institution |-> IF i = nypl THEN 2 ELSE 1]
AllGood == Institution \X Version
LaterGood == {z \in Institution \X Version : z[2] > 0}

Symmetry == Permutations(Task)
============================================================================
