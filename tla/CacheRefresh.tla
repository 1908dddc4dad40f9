---------------------------- MODULE CacheRefresh ----------------------------
(***************************************************************************)
(* What the theses cache promises: a task either gives up and leaves the   *)
(* file alone, or rewrites it with everything that was in the repositories *)
(* when it started, and nothing that is not in them.                       *)
(***************************************************************************)
CONSTANTS
    Thesis,   \* the documents the repositories may hold
    Torn      \* the content of a file that is being written

VARIABLES
    source,   \* the theses in the repositories
    must,     \* those that were there when the task began
    cache,    \* what the file holds: a set of theses, or Torn
    job       \* where the task is

vars == <<source, must, cache, job>>

Init ==
    /\ source \subseteq Thesis
    /\ must = {} /\ cache = {}
    /\ job = "idle"

Deposit ==
    /\ source' \in SUBSET Thesis /\ source \subseteq source'
    /\ UNCHANGED <<must, cache, job>>

Start ==
    /\ job = "idle" /\ job' = "running"
    /\ must' = source
    /\ UNCHANGED <<source, cache>>

GiveUp ==
    /\ job = "running" /\ job' = "idle"
    /\ UNCHANGED <<source, must, cache>>

Rewrite ==
    /\ job = "running" /\ job' = "writing"
    /\ cache' = Torn
    /\ UNCHANGED <<source, must>>

Publish ==
    /\ job = "writing" /\ job' = "idle"
    /\ cache' \in SUBSET source /\ must \subseteq cache'
    /\ UNCHANGED <<source, must>>

Die ==
    /\ job = "writing" /\ job' = "idle"
    /\ UNCHANGED <<source, must, cache>>

Next == Deposit \/ Start \/ GiveUp \/ Rewrite \/ Publish \/ Die

Spec == Init /\ [][Next]_vars
=============================================================================
