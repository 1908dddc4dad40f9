--------------------------- MODULE IndexManager ---------------------------
(***************************************************************************)
(* The IndexManager row of one Solr collection, the Sidekiq batches that   *)
(* walk through the Alma dumps (IndexManager::Workflow,                    *)
(* Index::RemainingDumpsJob, Index::DumpFileJob) and the Solr collection   *)
(* they write.  app/models/index_manager.rb, app/jobs/index.               *)
(*                                                                         *)
(* A process that runs index_remaining!, reindex! or index_next_dump! is a *)
(* Caller; a job or a batch callback is a step of its batch.  Each reads   *)
(* the row into an object, works on that object and saves it later: other  *)
(* processes run in between.  A dump file is identified by its dump and    *)
(* the one record it holds.                                                *)
(***************************************************************************)
EXTENDS Integers, FiniteSets

CONSTANTS
    Dump,        \* dumps.id of the Alma dumps
    Record,      \* bibliographic records, one per dump file
    Caller,      \* processes that call the manager: import jobs, rake, console
    Bid,         \* batch ids; their number bounds the batches open at once
    MaxWorkflows,\* bound on the overall batches open at once
    NoDump,      \* a nil foreign key to dumps
    NoBid,       \* a nil parent_bid
    Full,        \* the dumps of dump_type full_dump; the others are changed_records
    Start,       \* events.start of the dump's event, in ticks
    Second,      \* ticks in a second
    Contents,    \* the records whose files Alma exports with the dump
    Version,     \* Version[d][r]: the version of r that dump d carries
    Preloaded,   \* dumps imported, with all their files, before the behaviour begins
    Announced,   \* dumps whose files are still being downloaded when the behaviour begins
    Ops,         \* the entry points the callers use in this instance
    MaxCrashes   \* bound on the jobs killed and run again

ASSUME DumpAssumption ==
    /\ NoDump \notin Dump
    /\ Full \subseteq Dump
    /\ Preloaded \subseteq Dump /\ Announced \subseteq Dump
    /\ Start \in [Dump -> Nat]
    /\ Second \in Nat \ {0}
    /\ Contents \in [Dump -> SUBSET Record]

ASSUME BidAssumption == NoBid \notin Bid

ASSUME VersionAssumption == Version \in [Dump -> [Record -> Nat \ {0}]]

ASSUME BoundAssumption ==
    /\ MaxCrashes \in Nat
    /\ MaxWorkflows \in Nat
    /\ Ops \subseteq {"remaining", "reindex", "next"}

VARIABLES
    created,     \* dumps with a row in the database
    attached,    \* attached[d]: the dump files attached to d, by record
    row,         \* the index_managers row of the collection
    batch,       \* the Sidekiq batches and the job or callback each is running
    caller,      \* what each calling process holds in memory
    solr,        \* version of each record in the collection, 0 if absent
    indexed,     \* dump files written to the collection since it was last wiped
    crashes      \* jobs killed so far

vars == <<created, attached, row, batch, caller, solr, indexed, crashes>>

---------------------------------------------------------------------------
(* The rows and objects. *)

DumpRef == Dump \cup {NoDump}

\* last: last_dump_completed, dip: dump_in_progress, inp: in_progress.
Row == [last : DumpRef, dip : DumpRef, inp : BOOLEAN]

EmptyRow == [last |-> NoDump, dip |-> NoDump, inp |-> FALSE]

\* An IndexManager object: the row it was loaded from (or last saved), its own
\* last_dump_completed (next_incremental may move it) and the memoized next_dump.
Object == [base : Row, last : DumpRef, next : DumpRef]

NoObject == [base |-> EmptyRow, last |-> NoDump, next |-> NoDump]

\* ActiveRecord's save writes only the attributes that differ from the loaded ones.
Save(base, obj) ==
    [last |-> IF obj.last # base.last THEN obj.last ELSE row.last,
     dip  |-> IF obj.dip # base.dip THEN obj.dip ELSE row.dip,
     inp  |-> IF obj.inp # base.inp THEN obj.inp ELSE row.inp]

Batch == [kind : {"free", "overall", "dump"},
          step : {"queued", "found", "advance", "save", "push", "ack", "waiting", "closing"},
          parent : Bid \cup {NoBid},
          dump : DumpRef,
          pending : SUBSET Record,
          obj : Object]

FreeBatch == [kind |-> "free", step |-> "waiting", parent |-> NoBid,
              dump |-> NoDump, pending |-> {}, obj |-> NoObject]

\* The catch-up batch of index_remaining!, holding one RemainingDumpsJob.
OverallBatch == [FreeBatch EXCEPT !.kind = "overall", !.step = "queued"]

\* The batch of generate_batch: one DumpFileJob per file of d, a success callback.
DumpBatch(d, p) == [FreeBatch EXCEPT !.kind = "dump", !.step = "queued",
                                     !.parent = p, !.dump = d, !.pending = attached[d]]

Open(b) == batch[b].kind # "free"

Free == {b \in Bid : ~Open(b)}

NewBid == CHOOSE b \in Free : TRUE

Workflows == {b \in Bid : batch[b].kind = "overall"}

Children(b) == {c \in Bid : Open(c) /\ batch[c].parent = b}

---------------------------------------------------------------------------
(* Which dump comes next. *)

Incrementals == created \ Full

Earliest(S) == {d \in S : \A e \in S : Start[d] <= Start[e]}

Latest(S) == {d \in S : \A e \in S : Start[e] <= Start[d]}

RecentFullDump == Latest(created \cap Full)

FirstIncremental == Earliest(Incrementals)

\* Time#to_s drops the fraction of the second.
TruncatedStart(d) == Start[d] - (Start[d] % Second)

PreviousToFullIncremental(d) == Latest({e \in Incrementals : Start[e] < TruncatedStart(d)})

\* Mutant: without where.not(id: last_dump_completed.id).
AfterWithSelf(d) == {e \in Incrementals : Start[e] >= Start[d]}

After(d) == {e \in Incrementals \ {d} : Start[e] >= Start[d]}

\* Where next_incremental may have moved last_dump_completed to: d itself, or a dump
\* with no dump files that only such dumps precede.
SkippedTo(d) == {d} \cup {m \in After(d) :
                            \A e \in After(d) : Start[e] <= Start[m] => attached[e] = {}}

\* The pairs <<next dump, last_dump_completed of the object>> next_incremental can
\* return; there is one at most unless two dumps have the same start.
NextIncremental(d) == {p \in Dump \X Dump : /\ p[2] \in SkippedTo(d)
                                            /\ p[1] \in Earliest(After(p[2]))
                                            /\ attached[p[1]] # {}}

\* Mutant: a collection with no dump starts from the first incremental dump.
NextDumpFromFirst(last) ==
    IF last # NoDump THEN NextIncremental(last) ELSE FirstIncremental \X {NoDump}

NextDump(last) ==
    IF last \in Full
    THEN LET previous == PreviousToFullIncremental(last)
         IN  IF previous # {} THEN previous \X {last} ELSE NextIncremental(last)
    ELSE IF last # NoDump
    THEN NextIncremental(last)
    ELSE (IF RecentFullDump # {} THEN RecentFullDump ELSE FirstIncremental) \X {NoDump}

\* The object after find and a next_dump that returned n.
Loaded(base, n) == [base |-> base, last |-> n[2], next |-> n[1]]

---------------------------------------------------------------------------
(* The dumps: AlmaDumpFactory creates the row, Import::Alma attaches the   *)
(* downloaded files to it one at a time.                                   *)

CreateDump(d) ==
    /\ d \notin created
    /\ created' = created \cup {d}
    /\ UNCHANGED <<attached, row, batch, caller, solr, indexed, crashes>>

AttachDumpFile(d, r) ==
    /\ d \in created
    /\ r \in Contents[d] \ attached[d]
    /\ attached' = [attached EXCEPT ![d] = @ \cup {r}]
    /\ UNCHANGED <<created, row, batch, caller, solr, indexed, crashes>>

---------------------------------------------------------------------------
(* The callers. *)

\* index_remaining!, up to its early return.
CheckRemaining(c) ==
    /\ "remaining" \in Ops
    /\ caller[c].pc = "idle"
    /\ ~row.inp
    /\ \E n \in NextDump(row.last) :
          caller' = [caller EXCEPT ![c] = [pc |-> "enqueue", obj |-> Loaded(row, n)]]
    /\ UNCHANGED <<created, attached, row, batch, solr, indexed, crashes>>

\* The rest of index_remaining!: save! and the overall batch.
EnqueueRemaining(c) ==
    LET obj == caller[c].obj
    IN  /\ caller[c].pc = "enqueue"
        /\ Free # {}
        /\ Cardinality(Workflows) < MaxWorkflows
        /\ row' = Save(obj.base, [obj.base EXCEPT !.last = obj.last])
        /\ batch' = [batch EXCEPT ![NewBid] = OverallBatch]
        /\ caller' = [caller EXCEPT ![c] = [pc |-> "idle", obj |-> NoObject]]
        /\ UNCHANGED <<created, attached, solr, indexed, crashes>>

\* reindex!: the in_progress? check, the save of a nil last_dump_completed, then
\* wipe! and the check of index_remaining!, which trusts the object in memory.
CheckReindex(c) ==
    /\ "reindex" \in Ops
    /\ caller[c].pc = "idle"
    /\ ~row.inp
    /\ caller' = [caller EXCEPT ![c] = [pc |-> "reset", obj |-> [NoObject EXCEPT !.base = row]]]
    /\ UNCHANGED <<created, attached, row, batch, solr, indexed, crashes>>

ResetLastDump(c) ==
    LET base == caller[c].obj.base
    IN  /\ caller[c].pc = "reset"
        /\ row' = Save(base, [base EXCEPT !.last = NoDump])
        /\ caller' = [caller EXCEPT ![c] =
                        [pc |-> "wipe", obj |-> [NoObject EXCEPT !.base = [base EXCEPT !.last = NoDump]]]]
        /\ UNCHANGED <<created, attached, batch, solr, indexed, crashes>>

Wipe(c) ==
    /\ caller[c].pc = "wipe"
    /\ solr' = [r \in Record |-> 0]
    /\ indexed' = {}
    /\ \/ /\ NextDump(NoDump) = {}
          /\ caller' = [caller EXCEPT ![c] = [pc |-> "idle", obj |-> NoObject]]
       \/ \E n \in NextDump(NoDump) :
             caller' = [caller EXCEPT ![c] = [pc |-> "enqueue", obj |-> Loaded(caller[c].obj.base, n)]]
    /\ UNCHANGED <<created, attached, row, batch, crashes>>

---------------------------------------------------------------------------
(* index_next_dump!, run by a RemainingDumpsJob, by a success callback or  *)
(* straight from a console: the save, then the batch of dump files.        *)

SavedNext(obj) == Save(obj.base, [last |-> obj.last, dip |-> obj.next, inp |-> TRUE])

FindNext(c) ==
    /\ "next" \in Ops
    /\ caller[c].pc = "idle"
    /\ \E n \in NextDump(row.last) :
          caller' = [caller EXCEPT ![c] = [pc |-> "save", obj |-> Loaded(row, n)]]
    /\ UNCHANGED <<created, attached, row, batch, solr, indexed, crashes>>

CallerSaveNext(c) ==
    /\ caller[c].pc = "save"
    /\ row' = SavedNext(caller[c].obj)
    /\ caller' = [caller EXCEPT ![c].pc = "push"]
    /\ UNCHANGED <<created, attached, batch, solr, indexed, crashes>>

CallerPushNext(c) ==
    /\ caller[c].pc = "push"
    /\ Free # {}
    /\ batch' = [batch EXCEPT ![NewBid] = DumpBatch(caller[c].obj.next, NoBid)]
    /\ caller' = [caller EXCEPT ![c] = [pc |-> "idle", obj |-> NoObject]]
    /\ UNCHANGED <<created, attached, row, solr, indexed, crashes>>

JobSaveNext(b) ==
    /\ batch[b].step = "save"
    /\ row' = SavedNext(batch[b].obj)
    /\ batch' = [batch EXCEPT ![b].step = "push"]
    /\ UNCHANGED <<created, attached, caller, solr, indexed, crashes>>

\* The new batch is a child of the overall batch whose job or child pushes it.
JobPushNext(b) ==
    LET overall == IF batch[b].kind = "overall" THEN b ELSE batch[b].parent
    IN  /\ batch[b].step = "push"
        /\ Free # {}
        /\ batch' = [batch EXCEPT ![b].step = "ack", ![b].obj = NoObject,
                                  ![NewBid] = DumpBatch(batch[b].obj.next, overall)]
        /\ UNCHANGED <<created, attached, row, caller, solr, indexed, crashes>>

\* Sidekiq takes the finished job or callback off its queue.
Ack(b) ==
    /\ batch[b].step = "ack"
    /\ batch' = [batch EXCEPT ![b] = IF batch[b].kind = "overall"
                                     THEN [OverallBatch EXCEPT !.step = "waiting"]
                                     ELSE FreeBatch]
    /\ UNCHANGED <<created, attached, row, caller, solr, indexed, crashes>>

---------------------------------------------------------------------------
(* The jobs and callbacks. *)

\* RemainingDumpsJob#perform, up to index_next_dump!.
RemainingDumpsJob(b) ==
    /\ batch[b].kind = "overall" /\ batch[b].step = "queued"
    /\ \/ /\ NextDump(row.last) = {}
          /\ batch' = [batch EXCEPT ![b].step = "waiting"]
       \/ \E n \in NextDump(row.last) :
             batch' = [batch EXCEPT ![b].step = "save", ![b].obj = Loaded(row, n)]
    /\ UNCHANGED <<created, attached, row, caller, solr, indexed, crashes>>

\* DumpFileJob#perform: the file's record goes to Solr and the job leaves the batch.
DumpFileJob(b, r) ==
    /\ r \in batch[b].pending
    /\ solr' = [solr EXCEPT ![r] = Version[batch[b].dump][r]]
    /\ indexed' = indexed \cup {<<batch[b].dump, r>>}
    /\ batch' = [batch EXCEPT ![b].pending = @ \ {r}]
    /\ UNCHANGED <<created, attached, row, caller, crashes>>

\* Workflow#on_success, once the last file of the dump is indexed: the row is read.
FindManager(b) ==
    /\ batch[b].kind = "dump" /\ batch[b].step = "queued"
    /\ batch[b].pending = {}
    /\ batch' = [batch EXCEPT ![b].step = "found", ![b].obj = [NoObject EXCEPT !.base = row]]
    /\ UNCHANGED <<created, attached, row, caller, solr, indexed, crashes>>

\* The dump is recorded as completed.
OnSuccess(b) ==
    LET base == batch[b].obj.base
        done == [base EXCEPT !.last = batch[b].dump, !.dip = NoDump]
    IN  /\ batch[b].step = "found"
        /\ row' = Save(base, done)
        /\ batch' = [batch EXCEPT ![b].step = "advance",
                                  ![b].obj = [NoObject EXCEPT !.base = done, !.last = done.last]]
        /\ UNCHANGED <<created, attached, caller, solr, indexed, crashes>>

\* Mutant: the callback reads last_dump_completed again before it asks for the next dump.
AdvanceFromRow(b) ==
    LET obj == batch[b].obj
    IN  /\ batch[b].step = "advance"
        /\ batch[b].parent # NoBid
        /\ \/ /\ NextDump(row.last) = {}
              /\ batch' = [batch EXCEPT ![b] = FreeBatch]
           \/ \E n \in NextDump(row.last) :
                 batch' = [batch EXCEPT ![b].step = "save", ![b].obj = Loaded(row, n)]
        /\ UNCHANGED <<created, attached, row, caller, solr, indexed, crashes>>

\* The rest of on_success, under a parent batch: stop, or go on to index_next_dump!.
Advance(b) ==
    LET obj == batch[b].obj
    IN  /\ batch[b].step = "advance"
        /\ batch[b].parent # NoBid
        /\ \/ /\ NextDump(obj.last) = {}
              /\ batch' = [batch EXCEPT ![b] = FreeBatch]
           \/ \E n \in NextDump(obj.last) :
                 batch' = [batch EXCEPT ![b].step = "save", ![b].obj = Loaded(obj.base, n)]
        /\ UNCHANGED <<created, attached, row, caller, solr, indexed, crashes>>

\* Mutant: in_progress is left as it was.
FinishWithoutReset(b) ==
    /\ batch[b].step = "advance"
    /\ batch[b].parent = NoBid
    /\ batch' = [batch EXCEPT ![b] = FreeBatch]
    /\ UNCHANGED <<created, attached, row, caller, solr, indexed, crashes>>

\* The rest of on_success for a batch with no parent.
Finish(b) ==
    LET base == batch[b].obj.base
    IN  /\ batch[b].step = "advance"
        /\ batch[b].parent = NoBid
        /\ row' = Save(base, [base EXCEPT !.inp = FALSE])
        /\ batch' = [batch EXCEPT ![b] = FreeBatch]
        /\ UNCHANGED <<created, attached, caller, solr, indexed, crashes>>

\* Workflow#indexed_remaining: once the job and every child batch have succeeded, the
\* row is read and Solr is told to commit; the row is saved when Solr has answered.
IndexedRemaining(b) ==
    /\ batch[b].kind = "overall" /\ batch[b].step = "waiting"
    /\ Children(b) = {}
    /\ batch' = [batch EXCEPT ![b].step = "closing", ![b].obj = [NoObject EXCEPT !.base = row]]
    /\ UNCHANGED <<created, attached, row, caller, solr, indexed, crashes>>

CloseRemaining(b) ==
    LET base == batch[b].obj.base
    IN  /\ batch[b].step = "closing"
        /\ row' = Save(base, [base EXCEPT !.dip = NoDump, !.inp = FALSE])
        /\ batch' = [batch EXCEPT ![b] = FreeBatch]
        /\ UNCHANGED <<created, attached, caller, solr, indexed, crashes>>

---------------------------------------------------------------------------
(* super_fetch puts the job or callback of a killed process back on its    *)
(* queue: it runs again from its first line.                               *)

Restarted(bt) ==
    IF bt.step = "closing" THEN [OverallBatch EXCEPT !.step = "waiting"]
    ELSE [bt EXCEPT !.step = "queued", !.obj = NoObject]

CrashJob(b) ==
    /\ crashes < MaxCrashes
    /\ batch[b].step \in {"found", "advance", "save", "push", "ack", "closing"}
    /\ crashes' = crashes + 1
    /\ batch' = [batch EXCEPT ![b] = Restarted(batch[b])]
    /\ UNCHANGED <<created, attached, row, caller, solr, indexed>>

\* A DumpFileJob killed after its file reached Solr stays in its batch.
CrashDumpFileJob(b, r) ==
    /\ crashes < MaxCrashes
    /\ r \in batch[b].pending
    /\ crashes' = crashes + 1
    /\ solr' = [solr EXCEPT ![r] = Version[batch[b].dump][r]]
    /\ indexed' = indexed \cup {<<batch[b].dump, r>>}
    /\ UNCHANGED <<created, attached, row, batch, caller>>

---------------------------------------------------------------------------
(* The specification. *)

Init ==
    /\ created = Preloaded \cup Announced
    /\ attached = [d \in Dump |-> IF d \in Preloaded THEN Contents[d] ELSE {}]
    /\ row = EmptyRow
    /\ batch = [b \in Bid |-> FreeBatch]
    /\ caller = [c \in Caller |-> [pc |-> "idle", obj |-> NoObject]]
    /\ solr = [r \in Record |-> 0]
    /\ indexed = {}
    /\ crashes = 0

DumpStep(d) == CreateDump(d) \/ \E r \in Record : AttachDumpFile(d, r)

CallerStarts(c) == CheckRemaining(c) \/ CheckReindex(c) \/ FindNext(c)

CallerContinues(c) ==
    \/ EnqueueRemaining(c)
    \/ ResetLastDump(c) \/ Wipe(c)
    \/ CallerSaveNext(c) \/ CallerPushNext(c)

JobStep(b) ==
    \/ RemainingDumpsJob(b)
    \/ \E r \in Record : DumpFileJob(b, r)
    \/ FindManager(b) \/ OnSuccess(b) \/ Advance(b) \/ Finish(b)
    \/ JobSaveNext(b) \/ JobPushNext(b) \/ Ack(b)
    \/ IndexedRemaining(b) \/ CloseRemaining(b)

Crash(b) == CrashJob(b) \/ \E r \in Record : CrashDumpFileJob(b, r)

Next ==
    \/ \E d \in Dump : DumpStep(d)
    \/ \E c \in Caller : CallerStarts(c) \/ CallerContinues(c)
    \/ \E b \in Bid : JobStep(b) \/ Crash(b)

Spec == Init /\ [][Next]_vars

\* Sidekiq keeps running the queued jobs, a process that is past its check goes on, the
\* downloads finish, and the daily import calls index_remaining! again.
FairSpec ==
    /\ Spec
    /\ \A b \in Bid : WF_vars(JobStep(b))
    /\ \A c \in Caller : WF_vars(CallerContinues(c)) /\ WF_vars(CheckRemaining(c))
    /\ \A d \in Dump : WF_vars(DumpStep(d))

---------------------------------------------------------------------------
(* Properties. *)

\* The database, Sidekiq and Solr hold values of their types.
TypeOK ==
    /\ created \subseteq Dump
    /\ attached \in [Dump -> SUBSET Record]
    /\ row \in Row
    /\ batch \in [Bid -> Batch]
    /\ caller \in [Caller -> [pc : {"idle", "enqueue", "reset", "wipe", "save", "push"},
                              obj : Object]]
    /\ solr \in [Record -> Nat]
    /\ indexed \subseteq Dump \X Record
    /\ crashes \in Nat

\* Each step of a batch belongs to its kind of batch and has the object it works on.
BatchOK(bt) ==
    /\ bt.kind = "free" => bt = FreeBatch
    /\ bt.kind = "overall" => bt.parent = NoBid /\ bt.pending = {} /\ bt.step \notin {"found", "advance"}
    /\ bt.kind = "dump" => bt.dump \in Dump /\ bt.step \notin {"waiting", "closing"}
    /\ bt.kind = "dump" /\ bt.parent = NoBid => bt.step \in {"queued", "found", "advance"}
    /\ bt.step \in {"save", "push"} => bt.obj.next \in Dump

\* A batch that may be the parent of another: an overall batch that still waits for it.
Waits(bt) == bt.kind = "overall" /\ bt.step # "closing"

\* The batches bs, each well formed, each child with a parent that waits for it.
WellFormed(bs) ==
    \A b \in Bid : /\ BatchOK(bs[b])
                   /\ bs[b].kind = "dump" /\ bs[b].parent # NoBid => Waits(bs[bs[b].parent])

BatchesOK == WellFormed(batch)

CallersOK == \A c \in Caller : caller[c].pc \in {"save", "push"} => caller[c].obj.next \in Dump

\* The batches whose last callback will write in_progress = false.
ClearsInProgress(b) ==
    \/ /\ batch[b].kind = "overall"
       /\ batch[b].step = "closing" => batch[b].obj.base.inp
    \/ /\ batch[b].kind = "dump" /\ batch[b].parent = NoBid
       /\ batch[b].step \in {"found", "advance"} => batch[b].obj.base.inp

\* The batches that will write a nil dump_in_progress.
ClearsDump(b) ==
    \/ /\ batch[b].kind = "overall"
       /\ batch[b].step = "closing" => batch[b].obj.base.dip # NoDump
    \/ /\ batch[b].kind = "dump" /\ batch[b].parent = NoBid /\ batch[b].step \in {"queued", "found"}
       /\ batch[b].step = "found" => batch[b].obj.base.dip # NoDump

AboutToPush == \E c \in Caller : caller[c].pc = "push"

\* Whatever the row claims, some open batch is going to take back.
ClaimsHeld ==
    /\ row.inp => AboutToPush \/ \E b \in Bid : ClearsInProgress(b)
    /\ row.dip # NoDump => AboutToPush \/ \E b \in Bid : ClearsDump(b)

\* The inductive invariant behind NeverStuck.
IInv == TypeOK /\ BatchesOK /\ CallersOK /\ ClaimsHeld

\* No batch is open and no caller is between its check and its last step.
Quiet == Free = Bid /\ \A c \in Caller : caller[c].pc = "idle"

\* The manager is never left claiming work nobody does: when every batch has finished,
\* whatever overlapped and whatever was run twice, in_progress is false and
\* dump_in_progress is nil, so the next index_remaining! is not refused.
NeverStuck == Quiet => ~row.inp /\ row.dip = NoDump

\* Overlapping and repeated workflows converge: when every batch has finished, no record
\* is older in Solr than an incremental dump that was indexed into it and that
\* last_dump_completed has reached.
NoStaleRecord ==
    Quiet /\ row.last # NoDump =>
        \A d \in Dump \ Full, r \in Record :
            <<d, r>> \in indexed /\ Start[d] <= Start[row.last] => solr[r] >= Version[d][r]

\* "Once the full dump is finished indexing, the IndexManager will queue up dump files for
\* each relevant incremental dumps until all the Alma records are indexed"
\* (docs/indexing.md): at rest, every attached file of the incremental dumps since the
\* recent full dump, up to last_dump_completed, has been indexed.
AllRecordsIndexed ==
    Quiet /\ row.last # NoDump =>
        \A d \in Incrementals :
            /\ \A f \in RecentFullDump : Start[f] <= Start[d]
            /\ Start[d] <= Start[row.last]
            => \A r \in attached[d] : <<d, r>> \in indexed

\* "wipes solr and queues up a full reindex into it" (index_manager_spec.rb): at rest with
\* some dump completed, every record of the recent full dump is in Solr.
FullDumpIsIn ==
    Quiet /\ row.last # NoDump =>
        \A f \in RecentFullDump : \A r \in attached[f] : solr[r] # 0

\* Catching up: once the dumps stop coming, the manager ends at rest with no dump left.
EventuallyCaughtUp == <>[](~row.inp /\ NextDump(row.last) = {})
============================================================================
