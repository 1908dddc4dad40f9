----------------------------- MODULE RebuildSwap -----------------------------
(***************************************************************************)
(* The rebuild of the catalog: reindex! into the rebuild collection, rake  *)
(* index_manager:promote_rebuild_manager, which exchanges the URLs of two  *)
(* index managers in three saves, and the swap of the Solr aliases that is *)
(* done by hand right after it, while imports go on and jobs hold the URL  *)
(* they were given.  The claims on a manager, the order of its dumps and   *)
(* crashes of its jobs are in IndexManager: here it goes from each dump to *)
(* the next.                                                               *)
(***************************************************************************)
EXTENDS Integers

CONSTANTS
    Row,       \* the managers index_managers may have; their number bounds them
    PartFile,      \* the files of each dump
    NoRow,
    MaxDump,   \* bound on the incremental dumps, 1 to MaxDump; dump 0 is the full one
    MaxRakeKills   \* bound on the rake processes killed

Collection == {"production1", "production2"}
Nil == -1

VARIABLES
    newest,    \* the last dump imported
    managers,      \* index_managers, and the workflow of each
    alias,     \* the collection behind each alias
    contents,  \* the files indexed into each collection
    operator,  \* the promotion: how far it is, and the two objects of the rake
    rebuilt,   \* the rebuild collection was indexed for the promotion to come
    mixed,     \* the promoted manager has written before the aliases were swapped
    rakeKills

swapVars == <<newest, managers, alias, contents, operator, rebuilt, mixed, rakeKills>>

\* url: solr_collection; pc: the workflow; dump, to, todo: the dump being indexed, the URL its
\* jobs were given and the files left.
ManagerRow(url, last, pc) == [url |-> url, last |-> last, pc |-> pc, dump |-> Nil, to |-> "none", todo |-> {}]

Absent == ManagerRow("none", Nil, "rest")
AtStep(pc, old, new) == [pc |-> pc, old |-> old, new |-> new]

Production == CHOOSE r \in Row : TRUE

SwapInit ==
    /\ newest = 0
    /\ managers = [r \in Row |-> IF r = Production THEN ManagerRow("prod", 0, "rest") ELSE Absent]
    /\ alias = [prod |-> "production1", rebuild |-> "production2"]
    /\ contents = [production1 |-> {0} \X PartFile, production2 |-> {}]
    /\ operator = AtStep("idle", NoRow, NoRow)
    /\ rebuilt = FALSE /\ mixed = FALSE /\ rakeKills = 0

---------------------------------------------------------------------------
(* The managers. *)

With(url) == {r \in Row : managers[r].url = url}

\* IndexManager.for: the row of the URL, or a new one.
For(url) == IF With(url) # {} THEN With(url) ELSE With("none")

NewDump ==
    /\ newest < MaxDump
    /\ newest' = newest + 1
    /\ UNCHANGED <<managers, alias, contents, operator, rebuilt, mixed, rakeKills>>

\* index_remaining!, up to its batch.
IndexRemaining(url) ==
    /\ \E r \in For(url) :
          /\ managers[r].pc = "rest" /\ managers[r].last < newest
          /\ managers' = [managers EXCEPT ![r].url = url, ![r].pc = "walking"]
    /\ UNCHANGED <<newest, alias, contents, operator, rebuilt, mixed, rakeKills>>

\* index_next_dump!, of RemainingDumpsJob or on_success.
StartDump(r) ==
    /\ managers[r].pc = "walking" /\ managers[r].last < newest
    /\ managers' = [managers EXCEPT ![r].pc = "indexing", ![r].dump = managers[r].last + 1,
                            ![r].to = managers[r].url, ![r].todo = PartFile]
    /\ UNCHANGED <<newest, alias, contents, operator, rebuilt, mixed, rakeKills>>

Promoting == operator.pc \in {"promoted", "saved"}

\* A DumpFileJob; one that was given "temp" for a URL fails whenever it is retried.
DumpFileJob(r, f) ==
    /\ managers[r].pc = "indexing" /\ f \in managers[r].todo /\ managers[r].to \in DOMAIN alias
    /\ contents' = [contents EXCEPT ![alias[managers[r].to]] = @ \cup {<<managers[r].dump, f>>}]
    /\ managers' = [managers EXCEPT ![r].todo = @ \ {f}]
    /\ mixed' = (mixed \/ (Promoting /\ managers[r].url = "prod"))
    /\ UNCHANGED <<newest, alias, operator, rebuilt, rakeKills>>

OnSuccess(r) ==
    /\ managers[r].pc = "indexing" /\ managers[r].todo = {}
    /\ managers' = [managers EXCEPT ![r] = ManagerRow(managers[r].url, managers[r].dump, "walking")]
    /\ UNCHANGED <<newest, alias, contents, operator, rebuilt, mixed, rakeKills>>

IndexedRemaining(r) ==
    /\ managers[r].pc = "walking" /\ managers[r].last = newest
    /\ managers' = [managers EXCEPT ![r].pc = "rest"]
    /\ UNCHANGED <<newest, alias, contents, operator, rebuilt, mixed, rakeKills>>

---------------------------------------------------------------------------
(* The operator, one step after the other. *)

\* rake liberate:full into the rebuild collection.
Rebuild ==
    /\ operator.pc = "idle" /\ ~rebuilt
    /\ \E r \in For("rebuild") :
          /\ managers[r].pc = "rest"
          /\ managers' = [managers EXCEPT ![r] = ManagerRow("rebuild", Nil, "walking")]
    /\ contents' = [contents EXCEPT ![alias.rebuild] = {}]
    /\ rebuilt' = TRUE
    /\ UNCHANGED <<newest, alias, operator, mixed, rakeKills>>

\* rake liberate:incremental into it.
IndexLatest == operator.pc = "idle" /\ rebuilt /\ IndexRemaining("rebuild")

\* The rake finds the two managers, once the rebuild one is done.
Load ==
    /\ operator.pc = "idle" /\ rebuilt
    /\ \E old \in For("prod"), new \in With("rebuild") :
          managers[new].pc = "rest" /\ operator' = AtStep("loaded", old, new)
    /\ UNCHANGED <<newest, managers, alias, contents, rebuilt, mixed, rakeKills>>

\* One save of the rake; the unique index refuses a URL that another row has, and the rake fails.
SaveUrl(from, to, r, url) ==
    /\ operator.pc = from
    /\ IF With(url) \subseteq {r}
       THEN managers' = [managers EXCEPT ![r].url = url] /\ operator' = [operator EXCEPT !.pc = to]
       ELSE operator' = AtStep("idle", NoRow, NoRow) /\ UNCHANGED managers
    /\ UNCHANGED <<newest, alias, contents, rebuilt, mixed, rakeKills>>

SetAside == SaveUrl("loaded", "aside", operator.old, "temp")
Promote == SaveUrl("aside", "promoted", operator.new, "prod")
Demote == SaveUrl("promoted", "saved", operator.old, "rebuild")

\* Mutant: the aliases are swapped before the managers.
SwapAliasFirst ==
    /\ operator.pc \in {"loaded", "saved"}
    /\ alias' = [prod |-> alias.rebuild, rebuild |-> alias.prod]
    /\ operator' = AtStep("idle", NoRow, NoRow) /\ rebuilt' = FALSE
    /\ UNCHANGED <<newest, managers, contents, mixed, rakeKills>>

\* cap alias:swap of pul_solr.
SwapAlias ==
    /\ operator.pc = "saved"
    /\ alias' = [prod |-> alias.rebuild, rebuild |-> alias.prod]
    /\ operator' = AtStep("idle", NoRow, NoRow) /\ rebuilt' = FALSE
    /\ UNCHANGED <<newest, managers, contents, mixed, rakeKills>>

\* The rake is killed: before the rebuild manager is promoted it is run again, after that the
\* operator goes on.
KillRake ==
    /\ operator.pc \in {"loaded", "aside", "promoted"} /\ rakeKills < MaxRakeKills
    /\ operator' = IF operator.pc = "promoted" THEN [operator EXCEPT !.pc = "saved"]
                   ELSE AtStep("idle", NoRow, NoRow)
    /\ rakeKills' = rakeKills + 1
    /\ UNCHANGED <<newest, managers, alias, contents, rebuilt, mixed>>

---------------------------------------------------------------------------

Workflow(r) == StartDump(r) \/ (\E f \in PartFile : DumpFileJob(r, f)) \/ OnSuccess(r) \/ IndexedRemaining(r)
Rake == SetAside \/ Promote \/ Demote
Operator == Rebuild \/ IndexLatest \/ Load \/ Rake \/ SwapAlias

SwapNext ==
    \/ NewDump \/ IndexRemaining("prod")
    \/ \E r \in Row : Workflow(r)
    \/ Operator \/ KillRake

SwapSpec == SwapInit /\ [][SwapNext]_swapVars

\* Jobs and the operator go on; every import calls index_remaining!, and there are new ones.
SwapFairness ==
    /\ \A r \in Row : WF_swapVars(Workflow(r))
    /\ WF_swapVars(IndexRemaining("prod")) /\ WF_swapVars(Rake) /\ WF_swapVars(SwapAlias)

SwapFairSpec == SwapSpec /\ SwapFairness

---------------------------------------------------------------------------
(* Properties. *)

UpTo(dump) == (0 .. dump) \X PartFile

\* What the production manager has completed is in the collection that readers see, through any
\* number of rebuilds and promotions, failed or killed ones too, and whatever jobs of the other
\* managers still write: unless the promoted manager wrote before the aliases were swapped.
ProductionComplete ==
    ~mixed /\ ~Promoting => \A r \in With("prod") : UpTo(managers[r].last) \subseteq contents[alias.prod]

\* Every dump reaches the readers and stays, although each promotion puts another manager in
\* charge, which may be behind, and a failed one puts a new manager there.
ProductionFresh == <>[](~mixed => UpTo(newest) \subseteq contents[alias.prod])
=============================================================================
