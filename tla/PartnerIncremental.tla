------------------------- MODULE PartnerIncremental -------------------------
(***************************************************************************)
(* The daily increments of the ReCAP partners' records. At 6:00 a cron job *)
(* creates a dump and a Sidekiq job that downloads what SCSB has put on S3 *)
(* since the dump before it; at 6:30 scsb:latest indexes the last dump.    *)
(* scsb:full indexes the full dump and the increments after it.            *)
(* app/models/dump.rb, app/models/scsb/partner_updates/*.rb,               *)
(* app/services/index_functions.rb, lib/tasks/scsb.rake.                   *)
(*                                                                         *)
(* Time is the number of objects on S3: object k is an update or a delete  *)
(* of one record, last modified at time k, and a zip of one file.          *)
(***************************************************************************)
EXTENDS Integers, Sequences, FiniteSets

CONSTANTS
    Rec,
    MaxObjects,  \* bound on the objects SCSB exports
    MaxDumps,    \* bound on the runs of partner_update
    MaxTasks,    \* bound on the runs of the scsb tasks
    MaxKills,    \* bound on the processes killed
    Schedules    \* the days of this instance, see schedule

ASSUME BoundAssumption ==
    /\ MaxObjects \in Nat /\ MaxDumps \in Nat /\ MaxTasks \in Nat /\ MaxKills \in Nat
    /\ Schedules \subseteq {"cron", "manual", "failing"}

\* On "cron" days partner_update, its import and scsb:latest follow each other, each done
\* before the next begins, no process is killed, and SCSB changes a record at most once
\* between two dumps; on "manual" days scsb:full may take the place of scsb:latest. On
\* "failing" days imports overlap and are killed, and nothing is said of Solr.
VARIABLES
    schedule,
    s3,      \* the objects, in the order of last_modified
    dumps,   \* the partner_recap dumps, in the order of their ids
    jobs,    \* the Incremental job of each dump
    zips,    \* zips in the update directory
    dir,     \* unpacked files in the update directory
    full,    \* time of the export in the latest partner_recap_full dump, -1 if none
    tasks,   \* scsb tasks started
    todo,    \* dumps the running scsb task has still to process, 0 for the full one
    index,   \* DumpFileJobs: <<task, object>>, object 0 for the full dump
    solr,    \* the update of each record in Solr, 0 if none
    kills

importVars == <<dumps, jobs, zips, dir>>
indexVars == <<full, tasks, todo, index, solr>>
vars == <<schedule, s3, importVars, indexVars, kills>>

Time == 0..MaxObjects
Object == [rec : Rec, kind : {"update", "delete"}]
Dump == [created : Time, since : Time, files : SUBSET Time, generated : Time, delete_ids : SUBSET Rec]
Job == [pc : {"created", "queued", "updates", "attach", "deletes", "ids", "done", "dead"},
        zips : SUBSET Time, files : SUBSET Time, current : Time]

Idle(pc) == [pc |-> pc, zips |-> {}, files |-> {}, current |-> 0]

Now == Len(s3)
Dumps == 1..Len(dumps)
Latest(ks) == CHOOSE k \in ks : \A j \in ks : j <= k
Earliest(ks) == CHOOSE k \in ks : \A j \in ks : k <= j

\* Object of the last update of r at time p, 0 if it has been deleted since.
Truth(r, p) ==
    LET ks == {k \in 1..p : s3[k].rec = r} IN
    IF ks # {} /\ s3[Latest(ks)].kind = "update" THEN Latest(ks) ELSE 0

Listed(kind, since) == {k \in 1..Now : s3[k].kind = kind /\ k > since}

\* Dump d is there and its job has come to one of these lines.
At(d, pcs) == d \in Dumps /\ jobs[d].pc \in pcs

\* Every import and every indexing job has come to its end.
Finished(d) == jobs[d].pc \in {"done", "dead"}
Drained == (\A d \in Dumps : Finished(d)) /\ todo = <<>> /\ index = {}

InOrder(n) == schedule # "failing" => Drained /\ tasks = n

---------------------------------------------------------------------------
(* SCSB and partner_update. *)

LastCreated == IF dumps = <<>> THEN 0 ELSE dumps[Len(dumps)].created

\* SCSB deletes records it has exported.
Export(r, kind) ==
    /\ Now < MaxObjects
    /\ kind = "delete" => Truth(r, Now) # 0
    /\ schedule # "failing" => \A k \in 1..Now : s3[k].rec = r => k <= LastCreated
    /\ s3' = Append(s3, [rec |-> r, kind |-> kind])
    /\ UNCHANGED <<schedule, importVars, indexVars, kills>>

NewDump(since) ==
    /\ dumps' = Append(dumps, [created |-> Now, since |-> since, files |-> {},
                               generated |-> 0, delete_ids |-> {}])
    /\ jobs' = Append(jobs, Idle("created"))

\* Mutant: the timestamp is read after the dump is created.
PartnerUpdateLate ==
    /\ Len(dumps) < MaxDumps /\ InOrder(Len(dumps))
    /\ NewDump(Now)
    /\ UNCHANGED <<schedule, s3, zips, dir, indexVars, kills>>

\* Dump.partner_update reads the creation date of the last dump and creates the next.
PartnerUpdate ==
    /\ Len(dumps) < MaxDumps /\ InOrder(Len(dumps))
    /\ NewDump(LastCreated)
    /\ UNCHANGED <<schedule, s3, zips, dir, indexVars, kills>>

Enqueue(d) ==
    /\ At(d, {"created"})
    /\ jobs' = [jobs EXCEPT ![d] = Idle("queued")]
    /\ UNCHANGED <<schedule, s3, dumps, zips, dir, indexVars, kills>>

---------------------------------------------------------------------------
(* Import::Partner::Incremental. *)

\* Mutant: last_modified >= timestamp_filter.
DownloadUpdatesFrom(d) ==
    /\ At(d, {"queued"})
    /\ LET new == Listed("update", dumps[d].since - 1) IN
        /\ jobs' = [jobs EXCEPT ![d] = [Idle("updates") EXCEPT !.zips = new]]
        /\ zips' = zips \cup new
    /\ UNCHANGED <<schedule, s3, dumps, dir, indexVars, kills>>

DownloadUpdates(d) ==
    /\ At(d, {"queued"})
    /\ LET new == Listed("update", dumps[d].since) IN
        /\ jobs' = [jobs EXCEPT ![d] = [Idle("updates") EXCEPT !.zips = new]]
        /\ zips' = zips \cup new
    /\ UNCHANGED <<schedule, s3, dumps, dir, indexVars, kills>>

\* The zip is opened, its entry extracted to a new file, and the zip unlinked.
Unzip(d, k) ==
    /\ At(d, {"updates", "deletes"})
    /\ k \in jobs[d].zips /\ k \in zips /\ k \notin dir
    /\ jobs' = [jobs EXCEPT ![d].zips = @ \ {k}, ![d].files = @ \cup {k}]
    /\ zips' = zips \ {k}
    /\ dir' = dir \cup {k}
    /\ UNCHANGED <<schedule, s3, dumps, indexVars, kills>>

\* Mutant: the xml file stays.
ProcessUpdateKept(d, k) ==
    /\ At(d, {"updates"}) /\ jobs[d].zips = {}
    /\ k \in jobs[d].files /\ k \in dir
    /\ jobs' = [jobs EXCEPT ![d].pc = "attach", ![d].current = k]
    /\ UNCHANGED <<schedule, s3, dumps, zips, dir, indexVars, kills>>

\* When all are unzipped: the records of the next xml file are written, the file unlinked.
ProcessUpdate(d, k) ==
    /\ At(d, {"updates"}) /\ jobs[d].zips = {}
    /\ k \in jobs[d].files /\ k \in dir
    /\ jobs' = [jobs EXCEPT ![d].pc = "attach", ![d].current = k]
    /\ dir' = dir \ {k}
    /\ UNCHANGED <<schedule, s3, dumps, zips, indexVars, kills>>

AttachUpdate(d) ==
    /\ At(d, {"attach"})
    /\ dumps' = [dumps EXCEPT ![d].files = @ \cup {jobs[d].current}]
    /\ jobs' = [jobs EXCEPT ![d].pc = "updates", ![d].files = @ \ {jobs[d].current}]
    /\ UNCHANGED <<schedule, s3, zips, dir, indexVars, kills>>

\* Dump.generated_date, the earliest date in the file names, then the download of deletes.
DownloadDeletes(d) ==
    /\ At(d, {"updates"}) /\ jobs[d].zips = {} /\ jobs[d].files = {}
    /\ dumps' = [dumps EXCEPT ![d].generated = IF dumps[d].files = {} THEN 0
                                               ELSE Earliest(dumps[d].files)]
    /\ LET new == Listed("delete", dumps[d].since) IN
        /\ jobs' = [jobs EXCEPT ![d] = [Idle("deletes") EXCEPT !.zips = new]]
        /\ zips' = zips \cup new
    /\ UNCHANGED <<schedule, s3, dir, indexVars, kills>>

\* The json files are read and unlinked.
ReadDeletes(d) ==
    /\ At(d, {"deletes"}) /\ jobs[d].zips = {} /\ jobs[d].files \subseteq dir
    /\ dir' = dir \ jobs[d].files
    /\ jobs' = [jobs EXCEPT ![d].pc = "ids"]
    /\ UNCHANGED <<schedule, s3, dumps, zips, indexVars, kills>>

SaveDeletes(d) ==
    /\ At(d, {"ids"})
    /\ dumps' = [dumps EXCEPT ![d].delete_ids = {s3[k].rec : k \in jobs[d].files}]
    /\ jobs' = [jobs EXCEPT ![d] = Idle("done")]
    /\ UNCHANGED <<schedule, s3, zips, dir, indexVars, kills>>

\* Zip::DestinationExistsError, or a file that another job has unlinked: Sidekiq runs the
\* job again from its first line, or has done so often enough.
Raise(d) ==
    /\ \/ /\ At(d, {"updates", "deletes"})
          /\ \E k \in jobs[d].zips : k \notin zips \/ k \in dir
       \/ /\ At(d, {"updates", "deletes"}) /\ jobs[d].zips = {}
          /\ ~(jobs[d].files \subseteq dir)
    /\ \E pc \in {"queued", "dead"} : jobs' = [jobs EXCEPT ![d] = Idle(pc)]
    /\ UNCHANGED <<schedule, s3, dumps, zips, dir, indexVars, kills>>

\* The process is killed: before perform_async there is no job, later super_fetch puts
\* it back on its queue.
Kill(d) ==
    /\ schedule = "failing" /\ kills < MaxKills /\ kills' = kills + 1
    /\ \/ At(d, {"created"}) /\ jobs' = [jobs EXCEPT ![d] = Idle("dead")]
       \/ /\ At(d, {"updates", "attach", "deletes", "ids"})
          /\ jobs' = [jobs EXCEPT ![d] = Idle("queued")]
    /\ UNCHANGED <<schedule, s3, dumps, zips, dir, indexVars>>

---------------------------------------------------------------------------
(* The scsb tasks: IndexFunctions.process_scsb_dumps. *)

\* PartnerFullImport ends with an export of this moment.
ImportFull ==
    /\ schedule = "manual" /\ full = -1 /\ full' = Now
    /\ UNCHANGED <<schedule, s3, importVars, tasks, todo, index, solr, kills>>

StartTask(list) ==
    /\ schedule # "failing" /\ tasks < MaxTasks /\ todo = <<>>
    /\ tasks' = tasks + 1
    /\ todo' = list
    /\ UNCHANGED <<schedule, s3, importVars, full, index, kills>>

DumpAt(d) == [dump |-> d, step |-> "push", ids |-> IF d = 0 THEN {} ELSE dumps[d].delete_ids]

\* Mutant: Dump.partner_recap.first.
ScsbLatestFirst ==
    dumps # <<>> /\ InOrder(Len(dumps) - 1) /\ StartTask(<<DumpAt(1)>>)
    /\ UNCHANGED solr

\* scsb:latest takes the last dump.
ScsbLatest ==
    dumps # <<>> /\ InOrder(Len(dumps) - 1) /\ StartTask(<<DumpAt(Len(dumps))>>)
    /\ UNCHANGED solr

\* scsb:full takes the full dump and the increments generated since, for a collection
\* that has been emptied.
Subsequent ==
    LET upTo[n \in 0..Len(dumps)] ==
            IF n = 0 THEN <<>>
            ELSE IF dumps[n].generated > 0 /\ dumps[n].generated >= full THEN Append(upTo[n - 1], n)
            ELSE upTo[n - 1]
    IN  upTo[Len(dumps)]

ScsbFull ==
    /\ full >= 0 /\ InOrder(Len(dumps) - 1)
    /\ StartTask(<<DumpAt(0)>> \o [i \in DOMAIN Subsequent |-> DumpAt(Subsequent[i])])
    /\ solr' = [r \in Rec |-> 0]

\* A job for each file of the next dump.
PushFiles ==
    /\ todo # <<>> /\ todo[1].step = "push"
    /\ LET d == todo[1].dump IN
       index' = index \cup {tasks} \X (IF d = 0 THEN {0} ELSE dumps[d].files)
    /\ todo' = [todo EXCEPT ![1].step = "delete"]
    /\ UNCHANGED <<schedule, s3, importVars, full, tasks, solr, kills>>

\* delete_by_id, with the ids the dump had when it was loaded.
DeleteIds ==
    /\ todo # <<>> /\ todo[1].step = "delete"
    /\ solr' = [r \in Rec |-> IF r \in todo[1].ids THEN 0 ELSE solr[r]]
    /\ todo' = Tail(todo)
    /\ UNCHANGED <<schedule, s3, importVars, full, tasks, index, kills>>

\* Index::DumpFileJob.
IndexFile(j) ==
    /\ j \in index /\ index' = index \ {j}
    /\ solr' = [r \in Rec |->
           IF j[2] = 0 THEN IF Truth(r, full) # 0 THEN Truth(r, full) ELSE solr[r]
           ELSE IF s3[j[2]].rec = r THEN j[2] ELSE solr[r]]
    /\ UNCHANGED <<schedule, s3, importVars, full, tasks, todo, kills>>

---------------------------------------------------------------------------
Init ==
    /\ schedule \in Schedules
    /\ s3 = <<>> /\ dumps = <<>> /\ jobs = <<>>
    /\ zips = {} /\ dir = {}
    /\ full = -1 /\ tasks = 0 /\ todo = <<>> /\ index = {}
    /\ solr = [r \in Rec |-> 0]
    /\ kills = 0

RunJob(d) ==
    \/ DownloadUpdates(d) \/ DownloadDeletes(d)
    \/ \E k \in 1..MaxObjects : Unzip(d, k) \/ ProcessUpdate(d, k)
    \/ AttachUpdate(d) \/ ReadDeletes(d) \/ SaveDeletes(d) \/ Raise(d)

Next ==
    \/ \E r \in Rec, kind \in {"update", "delete"} : Export(r, kind)
    \/ PartnerUpdate
    \/ \E d \in 1..MaxDumps : Enqueue(d) \/ RunJob(d) \/ Kill(d)
    \/ ImportFull \/ ScsbLatest \/ ScsbFull
    \/ PushFiles \/ DeleteIds \/ \E j \in index : IndexFile(j)

Spec == Init /\ [][Next]_vars

\* The cron job ends its task, and Sidekiq keeps running the jobs.
FairSpec == Spec /\ \A d \in 1..MaxDumps : WF_vars(Enqueue(d) \/ RunJob(d))

---------------------------------------------------------------------------
(* Properties. *)

\* Types; a dump starts when the one before it was created, and its files are updates
\* since then.
TypeOK ==
    /\ schedule \in Schedules
    /\ s3 \in Seq(Object) /\ Now <= MaxObjects
    /\ dumps \in Seq(Dump) /\ Len(dumps) <= MaxDumps
    /\ jobs \in Seq(Job) /\ Len(jobs) = Len(dumps)
    /\ zips \subseteq Time /\ dir \subseteq Time
    /\ full \in -1..MaxObjects
    /\ tasks \in 0..MaxTasks /\ index \subseteq (1..tasks) \X Time
    /\ solr \in [Rec -> Time] /\ kills \in 0..MaxKills
    /\ \A d \in Dumps :
        /\ dumps[d].since = (IF d = 1 THEN 0 ELSE dumps[d - 1].created)
        /\ dumps[d].files \subseteq Listed("update", dumps[d].since)

\* What SCSB exported before dump d is in one of the first d dumps.
Covered(d) ==
    \A k \in 1..dumps[d].created : \E e \in 1..d :
        IF s3[k].kind = "update" THEN k \in dumps[e].files
        ELSE k > dumps[e].since /\ s3[k].rec \in dumps[e].delete_ids

\* If no import has failed so far, no object between two dumps is lost, however the jobs
\* of several dumps overlap in the update directory or are killed and run again
\* (Dump.incremental_update_timestamp, Update#process_partner_updates).
NothingMissed ==
    \A d \in Dumps : (\A e \in 1..d : jobs[e].pc = "done") => Covered(d)

\* Every record is in Solr as SCSB had it when the last dump was created, or later.
UpToDate ==
    \A r \in Rec :
        \/ solr[r] = Truth(r, LastCreated)
        \/ \E k \in LastCreated + 1..Now : s3[k].rec = r

\* A task that had dumps to process or jobs to run has now done everything.
TaskEnds == (todo # <<>> \/ index # {}) /\ Drained'

\* From day to day scsb:latest keeps Solr up to date, although a download takes in objects
\* that are newer than its dump and come again with the next one (config/schedule.rb:
\* "Daily recap shared collection update to Solr").
LatestInSync == [][schedule = "cron" /\ TaskEnds => UpToDate']_vars

\* An import on an ordinary day ends: what one leaves in the update directory never stops
\* the next, whose window may hold the same objects.
EventuallyDone ==
    \A d \in 1..MaxDumps :
        (schedule # "failing" /\ d \in Dumps) ~> At(d, {"done"})
============================================================================
