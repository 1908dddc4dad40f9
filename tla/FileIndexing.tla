---------------------------- MODULE FileIndexing ----------------------------
(***************************************************************************)
(* Index::DumpFileJob: app/services/alma/indexer/dump_file_indexer.rb on a *)
(* DumpFile, and Alma::Indexer, which runs traject on the plain file, in a *)
(* process of its own, and raises only when it fails with FATAL on stderr: *)
(* one that is killed says nothing, and its file counts as indexed.  Each  *)
(* job writes to a collection of its own.  One traject runs at a time: two *)
(* of them share nothing but the file, and the other steps of the jobs     *)
(* interleave with it.                                                     *)
(***************************************************************************)
EXTENDS DumpFileStorage, SolrWriter

CONSTANT Nobody     \* no job's traject runs

ASSUME NobodyAssumption == Nobody \notin Job

VARIABLES
    reader,     \* the job whose traject runs, or Nobody
    left,       \* the collection as the last traject of each job found and left it
    unsure,     \* the jobs whose last traject left deletions undone
    unheard     \* the jobs whose last traject ended neither well nor with FATAL

vars == <<storageVars, writerVars, reader, left, unsure, unheard>>

Init ==
    /\ StorageInit
    /\ WriterOff({})
    /\ reader = Nobody
    /\ left = [j \in Job |-> Deleted]
    /\ unsure = {} /\ unheard = {}

JobStep(j) ==
    /\ Step(j)
    /\ UNCHANGED <<writerVars, reader, left, unsure, unheard>>

TakeStep(j) ==
    /\ Take(j)
    /\ UNCHANGED <<writerVars, reader, left, unsure, unheard>>

\* Open3.capture3: a new process.  What an earlier try has written is not counted on: the
\* collection is as it was, with the old versions of the deleted records.
StartTraject(j) ==
    /\ job[j] = "traject" /\ reader = Nobody
    /\ reader' = j
    /\ phase' = "mapping"
    /\ solr' = Deleted /\ undeleted' = "no"
    /\ UNCHANGED <<next, queue, batches, single, skipped, raised, deletedIds>>
    /\ UNCHANGED <<storageVars, left, unsure, unheard>>

\* Traject reads on; a torn plain file breaks off.
RunTraject ==
    /\ reader # Nobody
    /\ \/ WriterStep
       \/ row # "tar" /\ plain = "torn" /\ BreakOff
    /\ UNCHANGED <<storageVars, reader, left, unsure, unheard>>

\* The process of traject alone is killed, or fails before it has a logger.
KillTraject ==
    /\ phase \in {"mapping", "closing", "deleting"}
    /\ kills < MaxKills /\ kills' = kills + 1
    /\ Ends("unheard")
    /\ UNCHANGED <<row, plain, gz, job, tries, shared, parted>>
    /\ UNCHANGED <<solr, undeleted, reader, left, unsure, unheard>>

\* The process has ended.  Without FATAL the job goes on, whatever the exit status.
EndTraject(j) ==
    /\ reader = j /\ phase \in {"ok", "fatal", "unheard"}
    /\ TrajectEnds(j, phase = "fatal")
    /\ IF phase = "fatal" THEN UNCHANGED <<left, unsure, unheard>>
       ELSE /\ left' = [left EXCEPT ![j] = solr]
            /\ unsure' = IF undeleted = "no" THEN unsure \ {j} ELSE unsure \cup {j}
            /\ unheard' = IF phase = "ok" THEN unheard \ {j} ELSE unheard \cup {j}
    /\ reader' = Nobody
    /\ phase' = "off" /\ solr' = {} /\ undeleted' = "no" /\ Reset

\* The process of the job dies, and traject with it.
KillJob(j) ==
    /\ Kill(j)
    /\ IF reader = j
       THEN reader' = Nobody /\ phase' = "off" /\ solr' = {} /\ undeleted' = "no" /\ Reset
       ELSE UNCHANGED <<writerVars, reader>>
    /\ UNCHANGED <<left, unsure, unheard>>

\* Nothing is left to do.
Finished == (\A j \in Job : job[j] \in Ended) /\ UNCHANGED vars

Next ==
    \/ \E j \in Job : TakeStep(j) \/ JobStep(j) \/ StartTraject(j) \/ EndTraject(j) \/ KillJob(j)
    \/ RunTraject \/ KillTraject
    \/ Finished

Spec == Init /\ [][Next]_vars

---------------------------------------------------------------------------

\* A job that ends done has indexed its file, unless its last traject was not heard of: at
\* most MaxSkipped of the good records are not in its collection, whichever thread of traject
\* met the errors, before, during or after the last put, and the deleted records are gone,
\* unless Solr refused their deletion, or timed out, twice.  An earlier traject that was not
\* heard of does no harm, nor does a file that a job unzipped before it died.
SuccessAccounts ==
    ~shared => \A j \in Job \ unheard :
        job[j] = "done" =>
            /\ Cardinality(Good \ left[j]) <= MaxSkipped
            /\ Deleted \cap left[j] = {} \/ j \in unsure
=============================================================================
