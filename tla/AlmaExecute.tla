----------------------------- MODULE AlmaExecute -----------------------------
(***************************************************************************)
(* AlmaAdapter::Execute: a request to Alma under options of its own, which *)
(* are saved, set and restored one by one in Alma.configuration, a global  *)
(* of the process that all threads of the web server share.                *)
(***************************************************************************)
CONSTANTS
    Thread,   \* the threads of the web server
    Option,   \* the options of Alma.configuration that callers change
    Caller,   \* the methods that call Execute
    Options,  \* Options[c]: the options of a caller and their values
    Default,  \* Default[k]: the value the initializer leaves
    Value, Unset, NoCaller

ASSUME ExecuteAssumption ==
    /\ Default \in [Option -> Value] /\ Unset \notin Value
    /\ \A c \in Caller : DOMAIN Options[c] \subseteq Option
    /\ \A c \in Caller : \A k \in DOMAIN Options[c] : Options[c][k] \in Value

VARIABLES
    config,   \* Alma.configuration
    call,     \* what each thread is doing; todo: the options its loop has not reached
    crossed   \* the options that two calls ever changed at once

callVars == <<config, call, crossed>>

CallAt(pc, caller, todo, original) == [pc |-> pc, caller |-> caller, todo |-> todo, original |-> original]

NothingSaved == [k \in Option |-> Unset]
NoCall == CallAt("idle", NoCaller, {}, NothingSaved)

\* The options of the call of a thread, none if there is no call.
Keys(t) == IF call[t].pc = "idle" THEN {} ELSE DOMAIN Options[call[t].caller]

CallInit ==
    /\ config = Default
    /\ call = [t \in Thread |-> NoCall]
    /\ crossed = {}

Goes(t, step) == call' = [call EXCEPT ![t] = step]

Begin(t, c) ==
    /\ call[t].pc = "idle"
    /\ Goes(t, CallAt("save", c, DOMAIN Options[c], NothingSaved))
    /\ crossed' = crossed \cup (DOMAIN Options[c] \cap UNION {Keys(u) : u \in Thread})
    /\ UNCHANGED config

\* One round of the first loop; the order of the options changes nothing.
Save(t, k) ==
    /\ call[t].pc = "save" /\ k \in call[t].todo
    /\ Goes(t, CallAt("save", call[t].caller, call[t].todo \ {k}, [call[t].original EXCEPT ![k] = config[k]]))
    /\ UNCHANGED <<config, crossed>>

Saved(t) ==
    /\ call[t].pc = "save" /\ call[t].todo = {}
    /\ Goes(t, CallAt("set", call[t].caller, Keys(t), call[t].original))
    /\ UNCHANGED <<config, crossed>>

Set(t, k) ==
    /\ call[t].pc = "set" /\ k \in call[t].todo
    /\ config' = [config EXCEPT ![k] = Options[call[t].caller][k]]
    /\ Goes(t, CallAt("set", call[t].caller, call[t].todo \ {k}, call[t].original))
    /\ UNCHANGED crossed

IsSet(t) ==
    /\ call[t].pc = "set" /\ call[t].todo = {}
    /\ Goes(t, CallAt("request", call[t].caller, {}, call[t].original))
    /\ UNCHANGED <<config, crossed>>

\* Mutant: an early return or an error leaves the options as they are.
RequestUnensured(t) ==
    /\ call[t].pc = "request"
    /\ \E pc \in {"restore", "idle"} :
          Goes(t, IF pc = "idle" THEN NoCall ELSE CallAt(pc, call[t].caller, Keys(t), call[t].original))
    /\ UNCHANGED <<config, crossed>>

\* The block ends with a value, an early return or an error: ensure comes next in each case.
Request(t) ==
    /\ call[t].pc = "request"
    /\ Goes(t, CallAt("restore", call[t].caller, Keys(t), call[t].original))
    /\ UNCHANGED <<config, crossed>>

Restore(t, k) ==
    /\ call[t].pc = "restore" /\ k \in call[t].todo
    /\ config' = [config EXCEPT ![k] = call[t].original[k]]
    /\ Goes(t, CallAt("restore", call[t].caller, call[t].todo \ {k}, call[t].original))
    /\ UNCHANGED crossed

End(t) ==
    /\ call[t].pc = "restore" /\ call[t].todo = {}
    /\ Goes(t, NoCall)
    /\ UNCHANGED <<config, crossed>>

Step(t) ==
    \/ \E c \in Caller : Begin(t, c)
    \/ \E k \in Option : Save(t, k) \/ Set(t, k) \/ Restore(t, k)
    \/ Saved(t) \/ IsSet(t) \/ Request(t) \/ End(t)

CallNext == \E t \in Thread : Step(t)

CallSpec == CallInit /\ [][CallNext]_callVars

---------------------------------------------------------------------------
(* Properties. *)

\* An option that no two calls ever changed at once has the caller's value during its request
\* and its default whenever no call changes it, however the request ends, and whatever becomes
\* of the other options of the same calls: enable_loggable is safe while timeouts leak.
Undisturbed ==
    \A k \in Option \ crossed :
       /\ (\A t \in Thread : k \notin Keys(t)) => config[k] = Default[k]
       /\ \A t \in Thread : k \in Keys(t) /\ call[t].pc = "request" => config[k] = Options[call[t].caller][k]
=============================================================================
