-------------------------- MODULE MCThesesHarvest --------------------------
(* The old DSpace has a thesis, the new one a collection of three and an     *)
(* empty one; another may be deposited with the first and with the three.    *)
EXTENDS ThesesHarvest

CONSTANTS old, new, empty, t1, t2, t3, t4, t5, t6

Homes == [t \in Thesis |-> IF t \in {t1, t2} THEN old ELSE new]
Places == [t \in Thesis |-> CASE t \in {t1, t3} -> 0 [] t = t4 -> 1 [] t = t5 -> 2
                               [] OTHER -> Absent]
============================================================================
