----------------------------- MODULE SolrWriter -----------------------------
(***************************************************************************)
(* One run of traject over a file of MARC records                          *)
(* (marc_to_solr/lib/traject_config.rb): records are mapped one after the  *)
(* other and put into the queue of Traject::PulSolrJsonWriter, whose       *)
(* threads send them to Solr in batches, and one by one when a batch fails.*)
(* Records marked as deleted are deleted by SolrDeleter at the end.        *)
(* Traject itself is external: its thread pool keeps what its threads      *)
(* raise until somebody asks for it.                                       *)
(***************************************************************************)
EXTENDS Naturals, Sequences, FiniteSets

CONSTANTS
    File,           \* the records of the file, in order
    Kind,           \* what becomes of each: see Good and the sets after it
    BatchSize,
    Threads,        \* the threads of the writer
    MaxSkipped      \* solr_writer.max_skipped

Records == {File[i] : i \in DOMAIN File}
Good        == {r \in Records : Kind[r] = "good"}
Unencodable == {r \in Records : Kind[r] = "unencodable"}    \* JSON::GeneratorError
Deleted     == {r \in Records : Kind[r] = "deleted"}        \* leader[5] = "d"
Invalid     == {r \in Records : Kind[r] = "invalid"}        \* invalid byte sequence in UTF-8

ASSUME WriterAssumption ==
    /\ File \in Seq(Records)
    /\ Kind \in [Records -> {"good", "unencodable", "deleted", "invalid"}]
    /\ BatchSize \in Nat \ {0} /\ MaxSkipped \in Nat

VARIABLES
    phase,      \* off, mapping, closing, deleting, or how traject ended: ok, with FATAL on
                \* stderr (fatal), or neither well nor with FATAL (unheard)
    next,       \* the record that is mapped next
    queue,      \* the records put since the last batch
    batches,    \* the batches that wait for a thread
    single,     \* what each thread has yet to send one by one
    skipped,    \* the records counted as skipped
    raised,     \* the pool holds an exception
    deletedIds, \* the records to delete
    solr,       \* the records in the collection
    undeleted   \* a deletion failed twice: Solr refused it (notified), or timed out (silent)

writerVars == <<phase, next, queue, batches, single, skipped, raised, deletedIds, solr, undeleted>>

\* A new process, for the collection docs.
WriterOff(docs) ==
    /\ phase = "off" /\ next = 1 /\ queue = {} /\ batches = {}
    /\ single = [t \in Threads |-> {}]
    /\ skipped = 0 /\ raised = FALSE /\ deletedIds = {}
    /\ solr = docs /\ undeleted = "no"

\* The process is gone, with all it held.
Reset ==
    /\ next' = 1 /\ queue' = {} /\ batches' = {}
    /\ single' = [t \in Threads |-> {}]
    /\ skipped' = 0 /\ raised' = FALSE /\ deletedIds' = {}

Ends(how) == phase' = how /\ Reset

---------------------------------------------------------------------------
(* Mapping. *)

\* put raises what the pool collected, then drains the queue into a batch once it is full.
Put(r) ==
    LET full == Cardinality(queue \cup {r}) >= BatchSize
    IN  /\ queue' = IF full THEN {} ELSE queue \cup {r}
        /\ batches' = IF full THEN batches \cup {queue \cup {r}} ELSE batches
        /\ UNCHANGED deletedIds

\* A record with invalid bytes is skipped by mapping_rescue, without being counted.
Map ==
    /\ phase = "mapping" /\ next <= Len(File)
    /\ LET r == File[next]
       IN  CASE r \in Deleted -> deletedIds' = deletedIds \cup {r} /\ UNCHANGED <<queue, batches>>
             [] r \in Invalid -> UNCHANGED <<queue, batches, deletedIds>>
             [] OTHER -> ~raised /\ Put(r)
    /\ next' = next + 1
    /\ UNCHANGED <<phase, single, skipped, raised, solr, undeleted>>

\* put meets an exception of the pool, or a record cannot be mapped: mapping_rescue raises.
MapFails ==
    /\ phase = "mapping" /\ next <= Len(File)
    /\ File[next] \notin Deleted \cup Invalid
    /\ Ends("fatal")
    /\ UNCHANGED <<solr, undeleted>>

\* The file breaks off: what is there is all there is.
BreakOff ==
    /\ phase = "mapping" /\ next <= Len(File)
    /\ next' = Len(File) + 1
    /\ UNCHANGED <<phase, queue, batches, single, skipped, raised, deletedIds, solr, undeleted>>

\* close sends off the rest, unless the pool has an exception.
Close ==
    /\ phase = "mapping" /\ next > Len(File)
    /\ IF raised THEN Ends("fatal")
       ELSE /\ phase' = "closing"
            /\ queue' = {}
            /\ batches' = IF queue = {} THEN batches ELSE batches \cup {queue}
            /\ UNCHANGED <<next, single, skipped, raised, deletedIds>>
    /\ UNCHANGED <<solr, undeleted>>

---------------------------------------------------------------------------
(* The threads of the pool: send_batch and send_single. *)

Free(t) == single[t] = {}

\* JSON is generated before anything is sent.
BatchSent(t, b) ==
    /\ Free(t) /\ b \cap Unencodable = {}
    /\ batches' = batches \ {b}
    /\ solr' = solr \cup b
    /\ UNCHANGED <<phase, next, queue, single, skipped, raised, deletedIds, undeleted>>

\* A batch that cannot be generated, or that Solr refuses or does not answer (it may have
\* taken it all the same), is sent record by record.
BatchFails(t, b) ==
    /\ Free(t)
    /\ batches' = batches \ {b}
    /\ single' = [single EXCEPT ![t] = b]
    /\ \/ UNCHANGED solr
       \/ b \cap Unencodable = {} /\ solr' = solr \cup b
    /\ UNCHANGED <<phase, next, queue, skipped, raised, deletedIds, undeleted>>

SingleSent(t, r) ==
    /\ r \in single[t]
    /\ single' = [single EXCEPT ![t] = @ \ {r}]
    /\ solr' = IF r \in Unencodable THEN solr ELSE solr \cup {r}
    /\ UNCHANGED <<phase, next, queue, batches, skipped, raised, deletedIds, undeleted>>

\* A refusal or a timeout is counted, and one too many raises: the thread leaves the rest.
\* A request that timed out may have been served.
SingleRefused(t, r) ==
    /\ r \in single[t] \ Unencodable
    /\ solr' \in {solr, solr \cup {r}}
    /\ skipped' = skipped + 1
    /\ IF skipped' > MaxSkipped
       THEN raised' = TRUE /\ single' = [single EXCEPT ![t] = {}]
       ELSE single' = [single EXCEPT ![t] = @ \ {r}] /\ UNCHANGED raised
    /\ UNCHANGED <<phase, next, queue, batches, deletedIds, undeleted>>

\* Any other error of the connection is not rescued.
SingleRaises(t, r) ==
    /\ r \in single[t] \ Unencodable
    /\ raised' = TRUE
    /\ single' = [single EXCEPT ![t] = {}]
    /\ UNCHANGED <<phase, next, queue, batches, skipped, deletedIds, solr, undeleted>>

Send(t) ==
    \/ \E b \in batches : BatchSent(t, b) \/ BatchFails(t, b)
    \/ \E r \in single[t] : SingleSent(t, r) \/ SingleRefused(t, r) \/ SingleRaises(t, r)

Idle == batches = {} /\ \A t \in Threads : Free(t)

\* Mutant: close does not look again after it has waited for the threads.
ShutDownUnchecked ==
    /\ phase = "closing" /\ Idle
    /\ phase' = "deleting"
    /\ UNCHANGED <<next, queue, batches, single, skipped, raised, deletedIds, solr, undeleted>>

\* The pool is shut down once its threads are done, and asked again for exceptions.
ShutDown ==
    /\ phase = "closing" /\ Idle
    /\ IF raised THEN Ends("fatal")
       ELSE phase' = "deleting" /\ UNCHANGED <<next, queue, batches, single, skipped, raised, deletedIds>>
    /\ UNCHANGED <<solr, undeleted>>

---------------------------------------------------------------------------
(* after_processing: SolrDeleter. *)

Delete ==
    /\ phase = "deleting"
    /\ solr' = solr \ deletedIds
    /\ Ends("ok")
    /\ UNCHANGED undeleted

\* A batch is tried twice; after two timeouts nobody is told.
DeleteFails ==
    /\ phase = "deleting" /\ deletedIds # {}
    /\ undeleted' \in {"notified", "silent"}
    /\ Ends("ok")
    /\ UNCHANGED solr

\* Faraday raises when it cannot connect.
DeleteRaises ==
    /\ phase = "deleting" /\ deletedIds # {}
    /\ Ends("fatal")
    /\ UNCHANGED <<solr, undeleted>>

WriterStep ==
    \/ Map \/ MapFails \/ Close
    \/ phase \in {"mapping", "closing"} /\ \E t \in Threads : Send(t)
    \/ ShutDown
    \/ Delete \/ DeleteFails \/ DeleteRaises
=============================================================================
