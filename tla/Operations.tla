------------------------------ MODULE Operations ------------------------------
(***************************************************************************)
(* What goes on around the pipeline: the weekly deletion of events, the    *)
(* rebuild of the catalog with the promotion of its index manager, and the *)
(* requests to Alma.  They share nothing of what these modules keep, so    *)
(* that a behaviour has one of the three.                                  *)
(***************************************************************************)
EXTENDS EventRetention, RebuildSwap, AlmaExecute

operationsVars == <<vars, swapVars, callVars>>

OperationsInit == Init /\ SwapInit /\ CallInit

DeleteEvents == SwapInit /\ CallInit /\ Next /\ UNCHANGED <<swapVars, callVars>>

RebuildCatalog == Init /\ CallInit /\ SwapNext /\ UNCHANGED <<vars, callVars>>

CallAlma == Init /\ SwapInit /\ CallNext /\ UNCHANGED <<vars, swapVars>>

OperationsNext == DeleteEvents \/ RebuildCatalog \/ CallAlma

OperationsSpec == OperationsInit /\ [][OperationsNext]_operationsVars /\ Fairness /\ SwapFairness
==============================================================================
