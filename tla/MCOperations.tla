----------------------------- MODULE MCOperations -----------------------------
(* A full dump of two files and the increments of three days, the first of them *)
(* without files; a rebuild and two increments; the callers of                  *)
(* app/adapters/alma_adapter with their options.                                *)
EXTENDS Operations

Days == [full |-> 0, tuesday |-> 1, wednesday |-> 2, thursday |-> 3]
MCStart == [e \in Event |-> Days[e]]
MCPlace == [e \in Event |-> IF e = "full" THEN 3 ELSE MCStart[e]]
MCType == [e \in Event |-> IF e = "full" THEN "full_dump" ELSE "changed_records"]
MCFiles == [e \in Event |-> CASE e = "full" -> {"1", "2"} [] e = "tuesday" -> {} [] OTHER -> {"1"}]

MCOptions == [many    |-> [timeout |-> 20],
              items   |-> [timeout |-> 10],
              holding |-> [timeout |-> 10, enable_loggable |-> 1],
              user    |-> [enable_loggable |-> 1]]
MCDefault == [timeout |-> 5, enable_loggable |-> 0]
===============================================================================
