# Formal models of bibdata

bibdata moves bibliographic records into Princeton's catalog: it takes the dumps that Alma
publishes and the exports of the ReCAP partners (SCSB), keeps them as dump files, and
indexes them into Solr, beside the senior theses of DSpace and the ephemera of Figgy. It also
answers HTTP requests about items, patrons and locations.
The modules here model the part whose mistakes last: the pipeline from a webhook or a cron
job to the records in Solr. It is built of Sidekiq jobs, batches and callbacks that share
one database, one directory and one Solr collection, and that are killed and run again; of
traject with its writer threads; and of a Rust library that harvests and describes records.

* [System](#system): components, state, hazards
* [Modules](#modules): which module models which code, and how
* [Runs](#runs): what is checked, the bounds and the fairness
* [Proofs](#proofs): what is proved, from what, along which argument
* [Behaviours met on the way](#behaviours-met-on-the-way)
* [Limits](#limits), [Not modelled](#not-modelled) and [Plan](#plan)

## System

| Component | State | Operations | What is hard |
|---|---|---|---|
| Webhook monitor and SQS poller (`webhook_monitor/`, `aws_sqs_poller.rb`) | SQS queue, `events`, `dumps` | receive a webhook, record the event, create the dump, enqueue the import | duplicates, redelivery, three commits for one message |
| Alma import (`jobs/import/alma.rb`) | `dump_files`, local copies | download, wait, attach, index | retries from the first line over what an earlier run left |
| Index manager (`index_manager.rb`, `jobs/index/`) | one `index_managers` row per Solr collection, nested Sidekiq batches | `index_remaining!`, `reindex!`, `index_next_dump!`, `on_success`, `indexed_remaining` | check-then-act on a row, stale objects, callbacks run twice, dumps arriving during a workflow |
| Partner full import (`jobs/import/partner/`, `partner_updates/full.rb`) | event, batches, update directory, dump files | validate csv, download, unzip, process xml | nested batches, newest file on S3, files left behind |
| Partner increments (`dump.rb`, `partner_updates/incremental.rb`, `update.rb`) | partner dumps, update directory | `partner_update`, import, deletions | windows that meet, overlapping jobs in one directory |
| SCSB index tasks (`index_functions.rb`, `scsb.rake`) | Solr | `scsb:latest`, `scsb:full` | deletions at once, additions later |
| Dump file storage (`dump_file.rb`, `dump_file_indexer.rb`, `indexer.rb`) | path in the row, plain file, `.gz` | unzip, index, zip | an error or a kill between any two of file, file and row |
| Event retention (`delete_events_job.rb`, callbacks) | events, dumps, files | delete what is old | foreign keys that refuse after the files are gone, a transaction that does not cover them, managers on their way through the dumps |
| Rebuild and promotion (`index_manager.rake`, by hand) | two manager rows, two Solr aliases | rebuild, exchange the managers, swap the aliases | three saves without a transaction, jobs that hold an old URL |
| Solr writer and deleter (`marc_to_solr/lib`) | queue, thread pool, skip counter | put, send a batch, send singly, close, delete | errors in a thread nobody is waiting for, time-outs |
| Alma adapter (`adapters/`) | `Alma.configuration`, one for the process | calls with options of their own | threads that save and restore each other's values |
| Theses (`theses/`, `fetcher.rb`) | two temporary files, the cache | page through collections in parallel, merge | pages that shift, retries inside retries, a failed half |
| Ephemera (`ephemera/`, `solr/index.rs`) | none | list, read each folder, post | pages that shift, one folder that fails, one entry that does not parse |
| Numismatics (`numismatics_indexer.rb`, `jobs/index/numismatics*.rb`) | one batch | page, slice, send, commit | coins edited after they were read, a slice that is refused, a job that runs twice |
| Locations data | three tables | delete all, fill again | failure in the middle |
| HTTP API, administration | tables | requests | little: no shared state between requests |
| Field mappings (traject, Rust) | none | one record to Solr fields | embargoes, private items, loans, two shapes of metadata |
| Figgy cache (`figgy_marc`) | one Redis key | write whole, read whole | staleness of a day |

How they interact:

```
Alma --webhook--> lambda --SQS--> poller --perform_async--> Import::Alma --index_remaining!--> IndexManager --batches--> traject --> Solr
SCSB --S3--> partner_update (cron) --> Import::Partner::Incremental ... scsb:latest (cron) --DumpFileJob--> traject --> Solr
SCSB --S3--> Import::Partner::Full --batches--> dump files ... scsb:full --DumpFileJob--> traject --> Solr
DumpFileJob: unzip -> traject (map -> put -> writer threads -> Solr; then deletions) -> zip
DSpace (old, new) --theses:cache_theses--> temporary files --> theses cache --> traject
Figgy --ephemera:full_reindex--> documents --> Solr
Figgy --NumismaticsJob--batch of slices--> rebuild collection; edits --sneakers--> production collection
operator: reindex! into rebuild --> promote_rebuild_manager --> alias swap --> sneakers
cron, weekly: delete:events --> DeleteEventsJob --> rows and files
```

What would make each of them correct:

* **Poller and Alma import**: a webhook is imported once, however often it is posted or
  delivered; a finished import is complete and its files are whole; nothing is forgotten.
* **Index manager**: it never rests claiming to be in progress, for the next
  `index_remaining!` would then do nothing, for ever; it indexes every dump; a newer version of
  a record is not overwritten for good by an older one; the full dump is never skipped.
* **Partner full import**: no file is attached before its institution's csv was found good;
  a successful event is complete and leaves nothing behind for the next run to trip over.
* **Partner increments**: no object on S3 falls between two dumps; an import ends; Solr follows
  SCSB from day to day.
* **Dump files**: a job never destroys the only copy of a file, and the row names a file that is there.
* **Traject's run**: a job that ends well has written all but the tolerated few records and made its
  deletions, although it looks for nothing but the word FATAL. The code does not keep this where traject ends
  badly without that word (see [below](#behaviours-met-on-the-way)): the property speaks of the other runs.
* **Theses**: the cache is replaced by all the theses or not at all; a retry neither skips nor repeats a
  page; an embargo hides the text until its day and leaves no trace after it.
* **Ephemera**: Solr takes a harvest whole; a bad entry costs its folder nothing else.
* **Event retention**: files and rows go together; nothing recent goes; what is old goes in the end; a manager
  on its way leaves out nothing recent.
* **Rebuild and promotion**: what the production manager has completed is what readers see, through every promotion.
* **Alma adapter**: a call has its options, and leaves none behind.
* **Numismatics**: the new production collection has every coin, and no edit is lost.
* **MARC holdings**: no trace of a private item; a loan does not move a record to another library.

`PROJECT.json` lists every component, and under `hazards` the lines where each of these can go
wrong, with the properties that watch them.

## Modules

| Module | Code | Extended by |
|---|---|---|
| `IndexManager` | `index_manager.rb`, `jobs/index/*.rb` | `MCIndexManager`, `IndexManagerProofs` |
| `AlmaImport` | `webhook_monitor/src/index.rb`, `aws_sqs_poller.rb`, `jobs/import/alma.rb` | `MCAlmaImport`, `AlmaImportProofs` |
| `PartnerFullImport` | `jobs/import/partner/*.rb`, `partner_updates/full.rb` | `MCPartnerFullImport`, `PartnerFullImportProofs` |
| `DumpFileStorage` | `dump_file.rb`, `dump_file_indexer.rb`, `dump_file_job.rb` | `FileIndexing` |
| `SolrWriter` | `pul_solr_json_writer.rb`, `solr_deleter.rb`, `traject_config.rb` | `FileIndexing` |
| `FileIndexing` | the two composed by `indexer.rb` | `MCFileIndexing`, `FileIndexingProofs` |
| `CacheRefresh` | abstract: what the theses cache promises | instantiated by `ThesesHarvest` |
| `ThesesHarvest` | `theses/{dataspace,legacy_dataspace}/{collection,community}.rs`, `fetcher.rb` | `MCThesesHarvest`, `ThesesHarvestProofs` |
| `EphemeraIndexing` | `ephemera/*.rs`, `solr/{ephemera_solr_mapping,index}.rs`, `ephemera.rake` | `Records` |
| `ThesisDocument` | `theses/**/document*`, `embargo.rs`, `holdings.rs`, `solr/dataspace_solr_mapping.rs` | `Records` |
| `MarcHoldings` | `marc/holdings/{holding_location,library,partner}.rs`, `marc/scsb/*.rs` | `Records` |
| `Subsequences` | the filters of both, in a form that proofs can use | `Records`, `RecordsProofs` |
| `NumismaticsIndexing` | `numismatics_indexer.rb`, `jobs/index/numismatics*.rb` | `Records` |
| `Records` | the last four in one state machine | `MCRecords`, `RecordsProofs` |
| `PartnerIncremental` | `dump.rb`, `partner_updates/{update,incremental}.rb`, `s3_bucket.rb`, `index_functions.rb`, `scsb.rake` | `MCPartnerIncremental`, `PartnerIncrementalProofs` |
| `EventRetention` | `delete_events_job.rb`, `event.rb`, `dump.rb`, `dump_file.rb` (callbacks), `events_controller.rb`, `marc_liberation.rake` | `Operations`, `OperationsProofs` |
| `AlmaExecute` | `adapters/alma_adapter/execute.rb` | `Operations`, `OperationsProofs` |
| `RebuildSwap` | `index_manager.rake`, `index_manager.rb`, the procedure of `docs/indexing.md` | `Operations`, `OperationsProofs` |
| `Operations` | the last three in one state machine | `MCOperations`, `OperationsProofs` |

A process is modelled by what it holds in memory and the line it has reached; an action runs
from one effect that others can see (a commit, a push to Redis, a request to Solr, a change in a
directory) to the next. A killed job runs again from its first line, as Sidekiq's super_fetch
does. `Records` and `Operations` put systems that share no state beside each other in one state machine: a behaviour has one of
them, since each step of one asks the others to be as they began, and nothing fair is enabled in a system that has not begun, so that its
fairness asks nothing of the others. Definitions whose comment begins with "Mutant:" are plausible mistakes, used to test that the
properties notice them; nothing else refers to them.

### IndexManager

`row` is the `index_managers` row (`last`, `dip`, `inp` for `last_dump_completed`,
`dump_in_progress`, `in_progress`). `caller[c]` is a process in `index_remaining!`, `reindex!` or
`index_next_dump!`, with the object it loaded; `batch[b]` is a Sidekiq batch: `"overall"` for the
catch-up batch and its `RemainingDumpsJob`, `"dump"` for the batch of one dump with its pending
`DumpFileJob`s and its callback. `Save` is ActiveRecord's save: it writes only the attributes that
differ from the loaded ones, which is what makes stale objects interesting. The callback of a dump's batch
reads the row in `FindManager` and saves in `OnSuccess`, and what another workflow saves between the two stays unless the
callback changes it.

`NextDump` returns the pairs *(next dump, last_dump_completed afterwards)*, because
`next_incremental` moves the attribute of the object past dumps without files while it looks.
`Start` is in ticks and `Second` the ticks in a second: `previous_to_full_incremental`
formats the time with `to_s` and so truncates it. Solr is the version of each record. The dumps are there from the start with
their files (`Preloaded`) or without (`Announced`: `Import::Alma` is still downloading them), or the poller creates them later.

### AlmaImport

The event, the dump and the job of a message carry its name. `PollEvent`, `PollDump`,
`PollEnqueue` and `PollDelete` are the four effects of handling a message; `PollerFails` stops the
poller between any two of them and the message is delivered again. `StartDownload` creates the row
and empties the local copy, `FinishDownload` completes it, `WaitDownloads` is the SFTP loop,
`AttachFile` and `IndexImport` the rest of `perform`. `ImportFails` is an error or a kill at any
line.

### PartnerFullImport

A `task` is a job, a callback or the batch of the xml jobs of a zip; the overall batch of a run is
the set of its tasks. `ExtractEntry`, `Extracted` and `EntryExists` are the loop of `unzip_file` with
its rescue. `xml` and `out` hold the entry of the zip each file was written from, negative
if it is truncated, so that a file with the right name and the wrong contents is seen.

### PartnerIncremental

Time is the number of objects on S3; object *k* is an update or a deletion of one record, last
modified at time *k*. A dump keeps the window of its import, its files, the earliest date of
its files and its deleted ids. The variable `schedule`, chosen in `Init`, says what kind of day
it is:

* `"cron"`: import, index, next day; SCSB changes a record at most once between two dumps;
* `"manual"`: the same, with a full import and `scsb:full` in the place of `scsb:latest`;
* `"failing"`: imports overlap, are killed and run again; Solr is left out.

The restriction on ordinary days is about what the code cannot promise: two updates of a record in
one dump are indexed by two jobs in any order.

### DumpFileStorage, SolrWriter and FileIndexing

`DumpFileStorage` has one action per effect of `unzip` and `zip` on the disk or the row: a file is opened
(and so emptied), written, the other deleted, the path saved. `plain` and `gz` are missing, torn or whole.
`Fails` is Sidekiq's retry after an exception (`SaveFails`: of the save after a deletion), `Kill` the death of the process, after which super_fetch runs the
job again from its first line. `shared` remembers that two jobs worked on the file at once,
`parted` that a job was killed, or its save failed, between a deletion and the save: the exceptions that the properties make.

`SolrWriter` is one traject process. `Map` is `each_record` with `mapping_rescue`; `Put`, `Close` and `ShutDown` ask the
pool for what its threads raised (`raised`), as `raise_collected_exception!` does at these three places
and no other. `BatchFails` covers a refusal, an error and a time-out that Solr served all the same.

`FileIndexing` composes them: a job in `"traject"` starts a process, `RunTraject` is a step of it, and `EndTraject`
is `index_file`'s look at stderr. `KillTraject` ends the process without a FATAL while its job lives: a signal, the kernel's
out-of-memory killer, an error before traject has a logger. The job then ends as after a good run, and `unheard` remembers it. A process reads the file while it maps, so a plain file that another try left
torn breaks off. `left[j]` is the collection as the last run of job *j* left it.

### ThesesHarvest and CacheRefresh

`worker[c]` is the reading of collection *c* by a rayon task: its page and its attempt. `place[t]` is the
position at which DSpace lists thesis *t*; `Deposit` inserts one and moves the ones behind it. `GetPage` asks whether
the response says there are more pages, `GetOffset` (the old DSpace) goes on until a page is empty. A failed
collection ends the task once the threads that are reading are through, as `try_reduce` does. A temporary file or the cache
is `Torn` from its creation to its last write.

`CacheRefresh` is the promise: a task gives up, or rewrites the cache with everything that was there when it
started and nothing that is not there; the cache is torn only while it is rewritten or after a kill then.
`ThesesHarvest` implements it (`ImplementsCacheRefresh`) under the mapping of `source` to the listed theses and of `job`
to the three kinds of phases.

### EphemeraIndexing, ThesisDocument, MarcHoldings and Records

`EphemeraIndexing` is the rake task: `ReadPage`, then `ReadFolder` or `RefuseFolder` for each folder, `CombineChunks`, `Post`.
The number of pages is that of the first response. `PostRefused` is an answer the code does not look at; with more
folders than `ChunkSize` the body is two arrays with a comma between them. `FolderDocument` keeps the fields that depend
on vocabularies, missing values or parsing.

`ThesisDocument` and `MarcHoldings` are operators named after the functions they stand for. A document is a record of the
fields of `DataspaceDocument`, a MARC field one of its subfields; strings are compared, never taken apart, and what a
string means (a date, a year, a department) is a function given as a constant. `Records` reads any record of
the bounded sets in its first step, or harvests folders (`Harvest`) or coins (`HarvestCoins`).

### EventRetention

An event stands for its row, its dump and its dump files. A `task` is what an actor does: the job of a dump type, or a request
of the events page (`Visitor`). `SelectIds`, `FindEvents`, `Destroy` and `JobEnds` are the lines of the job; `Destroy` opens
the transaction of one event, `DestroyFile` is the callback of one file, whose deletion from disk no rollback undoes, and the
transaction ends in `Commit`, `Refuse` (a foreign key of `index_managers`), `Deadlocked` (two actors delete one event) or `Kill`. `spoiled`
remembers what was rolled back. `older_than` is the one of the rake, however late the job runs. The index managers are reduced to their two pointers
and the order in which they visit dumps, with dumps without files passed over as `next_incremental` does.

### AlmaExecute

One round of one of the three loops of `execute` is an action (`Save`, `Set`, `Restore`): another thread may run
between any two. `Request` is the block, which may end with a value, an early return or an error, all of which reach `ensure`.
`crossed` remembers the options that two open calls had in common. `Options` are the sets of options the adapter's
methods pass.

### RebuildSwap

`managers` are the rows of `index_managers` with the state of their workflow. The steps that `IndexManager` takes apart are one action
each here, since the module is about whose they are. A dump is indexed by jobs that were given `to`, the URL of the manager when
they were pushed, and write to the collection that `alias` names when they run. `SetAside`, `Promote` and `Demote` are the three saves of the
rake; each fails, and the rake with it, if another row has the URL. `mixed` remembers a promoted manager that wrote while the
aliases were still the old ones. `index_manager:initialize` is left out: its query joins an association that `Dump` does not have.

### NumismaticsIndexing

`FetchPage`, `ReadCoin`, `PassOver` and `NextPage` are the lazy enumeration; `PushBatch` pushes the jobs when the block of the
batch ends. A slice is sent at once (`SendSlice`), or, once Solr has refused it, coin by coin, and each of these may fail. `JobRestarts` and
`SliceRestarts` are errors and kills at any line; a job killed after the push makes a second batch. The operator's part is that of
`docs/indexing.md`: sneakers stops before and starts after the job and the swap.

## Runs

Every property of a passing run is also violated by a mutant of a mapped definition (listed in
`PROJECT.json`), so none of them holds vacuously. The type invariants, which theorems
state, are not checked again by a run, but for that of `PartnerIncremental`.

| Run | Instance | Checks |
|---|---|---|
| `arrival` | a full dump between two incrementals, the files of the last arriving during the workflow, two workflows, one killed job; states that differ in `dump_in_progress` alone are taken for one | `NoStaleRecord`, `FullDumpIsIn` |
| `console` | `index_remaining!`, `reindex!` and a parentless `index_next_dump!`, three batches, one killed job; states that differ in Solr or in what no step reads any more of an object are taken for one | `NeverStuck` |
| `catch_up` | an incremental dump arriving, two workflows that one caller begins, the second perhaps before the job of the first has run, five batches, fairness | `EventuallyCaughtUp` |
| `skipped_dump` | a full dump and two incremental dumps after it, the first of them seen before its files are attached | `AllRecordsIndexed` **violated** |
| `alma_import` | an import of two files, an unconfigured job and a webhook that is no JOB_END, each posted twice; one stop of the poller, one retry; fairness | `DoneIsComplete`, `PartialOnlyInRetry`, `RowsPerRun`, `OneImport`, `EventuallyImported` |
| `partner_full` | two institutions, one with two files, no failure, fairness | `SuccessIsComplete`, `SuccessIsTidy`, `EventuallySucceeds` |
| `partner_gate` | one institution, two runs, a second export, one kill | `ValidatedFirst` |
| `partner_incremental` | two records, two objects, two dumps, all three schedules, one kill; fairness | `TypeOK`, `NothingMissed`, `LatestInSync`, `EventuallyDone` |
| `theses` | an old collection of one thesis, a new one of three and an empty one, pages of two, two deposits, two threads, one retry, two failures, one kill, two tasks; fairness | `SuccessIsComplete`, `OncePerThesis`, `ImplementsCacheRefresh`, `EventuallyEnds` |
| `records` | all theses of up to three pairs out of twelve, all mixes of embargo, terms, rights, walk-in, location and year on three days; all MARC records of a holding and up to two items; four folders, pages of one, chunks of two, two changes, four failures, two tasks; three coins, two to a page and two to a slice, two edits or withdrawals, two failures or kills; fairness | `SameThesis`, `EmbargoLifts`, `OneAvailability`, `PrivateItemsHidden`, `LoansKeepLibraries`, `QuietListingIsWhole`, `CoinsUpToDate`, `WholeHarvest`, `EphemeraEnds` |
| `operations` | a full dump of two files and the increments of three days, the first without files, a retention of two days, two jobs, one request, one index manager, one kill; or three manager rows, two increments of a file, rebuilds and promotions without bound, one killed rake; or two threads with the four sets of options of the adapter; fairness | `FilesGoWithRows`, `RecentIsWhole`, `NoneLeftOut`, `OldEventsGo`, `ProductionComplete`, `ProductionFresh`, `Undisturbed` |
| `indexing` | two jobs with a retry each, one kill of a job or of its traject alone, failing saves, a file of five records of every kind, batches of two, two writer threads, one tolerated skip | `FileKept`, `RowNamesFile`, `SuccessAccounts` |

Why the bounds are enough. The hazards of the index manager need two workflows and a third
party (a dump, a kill or a full dump) between them; two dumps give a workflow one dump to be in the
middle of and one to go on to. An import needs two files so that one is done while the other is not,
and two posts for a duplicate. A zip needs a second entry for the increment of its file name to matter. Two
dumps with one object in each window, or both in one, give every position of an object relative
to a creation and a download. Three theses on pages of two, and a deposit before them, move a thesis over the
border of a page in both directions, and two failures exceed one retry. Four failures exceed the three requests
for a folder. Five records in batches of two give full batches, a last one of one record and one with an unencodable
record; one tolerated skip and two threads let the pool raise before, during and after the last put. An event of `EventRetention` is imported on its day. Two days of retention in three make an event recent, old, and old while its job
waits; two files let a deletion be cut in the middle. Three rows are what the rake needs to meet a third manager. A page and a slice of two cut three coins into a whole and a
rest, and two failures refuse a slice and then one of its coins, or kill the job before and after its push. A larger instance of `PartnerIncremental` (one record, three
objects; 1.1 million states) was checked once with the same result. Symmetry over batches, callers,
tasks and jobs is used only in runs without temporal properties. Two runs compare states by a view. `arrival` leaves out `dump_in_progress` (`WithoutDip`):
no guard reads it, nor do the properties of that run. `console` leaves out the records in Solr, and of an object in memory what no later step reads (`WithoutSolr`,
`StillRead`): an object that has been saved is asked for its next dump alone. What is left decides every step and the property.

Fairness. Sidekiq takes every queued job some time, so steps of jobs, callbacks and batches are
weakly fair; a process that is past its check goes on; the poller is a service that is restarted; an
import calls `index_remaining!` at least daily, so `CheckRemaining` is weakly fair in `catch_up`. New
webhooks, exports, dumps' creation by cron, kills and console calls are never fair, except that an
announced dump is created and its files are attached in `catch_up`. In `theses` every thread that runs goes on, and
in `records` Figgy and Solr answer every request, with whatever answer: the HTTP clients have no time limit of
their own, so a server that never answers would hold these tasks for ever. In `operations` the
rake comes every week, and jobs and a request that has begun go on; days, imports and index managers need not. Jobs of the managers go on there too, the daily
import calls `index_remaining!`, and a rake that has begun and the swap after it go on; nobody has to begin a rebuild. Failures are never fair.

`CHECK_DEADLOCK FALSE`: each of these systems comes to rest when the bounded input is used up, and in `operations` a manager may be left with jobs
that never succeed (see below). `indexing` checks deadlock: its jobs end, and `Finished` is the only step after that.

### What the violation shows

`skipped_dump`: `docs/indexing.md:87-90` has `index_remaining!` queue up the incremental dumps that follow a full dump
"until all the Alma records are indexed". The poller creates a dump's row before `Import::Alma` has files to
attach. In the run the full dump is done and two incremental dumps follow it, the first of them without its files so far: `next_incremental`
(`index_manager.rb:95-97`) moves `last_dump_completed` past it in memory, finds the second, and the save with which that one is begun or done
makes the move final. The first dump's files are attached afterwards and no workflow ever comes back for them. Moving past a last dump without files is not
saved, since nothing follows (lines 51 and 113 return), and an `index_remaining!` after its download finds it. A collection without any full dump has
a second way to the same end, outside this run: `first_incremental` does not look at files and returns such a dump, which is recorded as an empty
batch.

## Proofs

All theorems are of the form `Spec => []Inv`, `Spec => [][A]_vars` or, for the refinement,
`Spec => Refresh!Spec`, for any sets of dumps,
records, callers, batches, messages, files, institutions, runs, tasks, theses, folders and jobs, and for any bounds; they
use the `ASSUME`s of the modules, which TLC evaluates in the runs, and where it is said below a hypothesis of their own, which is what the run
that checks the property assumes in its instance. The constants need not be finite, unless a guard
compares the size of a set, as the bound on workflows does.

* **`IndexManagerProofs`**: `TypeCorrect` and `ManagerNeverStuck` (`Spec => []NeverStuck`).
  `NeverStuck` is not inductive: it speaks only of quiet states. `IInv` adds that batches are
  well formed (each child has a parent that still waits for it) and `ClaimsHeld`: if the row claims
  progress, a caller is about to push a batch, or some open batch will take the claim back. The point of
  `ClearsInProgress` and `ClearsDump` is the partial save: a closing callback that loaded the row
  when the attribute was already false will not write it, so it is no holder of the claim. One lemma per
  action shows that a holder gives the claim up only by clearing it or by handing it to a
  new batch.
  `WorkflowsConverge` (`NoStaleRecord`) and `FullDumpFirst` (`FullDumpIsIn`) follow what is on its way: for each dump that an overall
  batch has passed, its files are in Solr, or pending in an open batch, and behind a file with an older version of a record
  there is still one with the newer. Hypotheses: no two dumps start at once and a later dump has the later version of a record (otherwise there is no
  newer one to speak of), nobody calls `index_next_dump!` from a console, which indexes the next dump beside the workflow; for the full dump, that
  it is there from the beginning, full dumps do not start at once, and there is no `reindex!`, which can lose it (see below).
* **`AlmaImportProofs`**: `TypeCorrect`, `ImportComplete` (`DoneIsComplete`), `ImportedOnce`
  (`OneImport`), `ListedOncePerRun` (`RowsPerRun`) and `OnlyRetriesEmpty` (`PartialOnlyInRetry`). The invariant follows the order of `perform`: after the wait every copy is whole and
  each file is attached or about to be (`WaitedIsWhole`), after the call of `index_remaining!`
  nothing is missing (`ReturnedIsComplete`). For the poller, the message being handled is the head
  of the queue and a message without an event has no job (`PollerOK`), so that a redelivered message is
  a duplicate before it can start a job. `RowsOfRuns` counts a file's rows: one for each run that failed, and one for the run that downloads
  it, an orphan until it is attached.
* **`PartnerFullImportProofs`**: `TypeCorrect` and `FilesAreValidatedFirst` (`ValidatedFirst`).
  Each task carries the evidence of the step before it (`Valid`): a csv job that is past its check, a
  download and a group of xml jobs each imply a good metadata row of their run and institution. Rows are
  never removed, so evidence survives every other step (`StillValid`).
  `SuccessCompletes` (`SuccessIsComplete`) and `SuccessTidies` (`SuccessIsTidy`) are about a run that is alone and is not killed, the hypotheses of both:
  `ProgressInv` accounts for every entry of a zip at each line of the loop of `unzip_file`, and for every file in the directory by the task that
  will remove it.

* **`ThesesHarvestProofs`**: `TypeCorrect`, `HarvestComplete` (`SuccessIsComplete`), `ReadOnceEach` (`OncePerThesis`), `GivenUpLate` and
  `CacheRefreshed`, the refinement. `IInv` says that the positions of a collection are `0 .. size - 1` (`PositionsOK`), that
  what a thread has passed is in its list (`ReadSoFar`: a deposit only moves theses to later positions, so nothing that must be
  read can slip behind the thread), and that the temporary files of the repositories this task has read hold all that must be
  there (`FilesOK`: an old file is never merged, since both are written before the merge). Each action is then a step of
  `CacheRefresh` or leaves it alone.
* **`RecordsProofs`**: for any vocabularies, dates, pages and slices.
  * Ephemera: `RecordsHarvests`, that a behaviour of `Records` is one of `EphemeraIndexing` and one of `NumismaticsIndexing`; `ListingRead`
    (`QuietListingIsWhole`) from the invariant that the ids are the pages read so far, and `HarvestPosted` (`WholeHarvest`) from the
    invariant that the documents are those of the first ids. Both hold for any page size, chunk size and number of failures.
  * Coins: `CoinsRight` (`CoinsUpToDate`), for any collection without duplicates, any edits, withdrawals, failures and kills. `CoinInv` follows a coin through
    the pages (each that is listed before the page is read, handed out, or excepted by `moved`), the slices (`Slice`: what is to be sent is what was listed), and the
    events that sneakers has still to handle once it runs again.
  * Theses: `EmbargoesLift` (`EmbargoLifts`), for any list of metadata, dates and terms. The legacy document is a fold over
    the pairs, written as a recursive function; the proof finds the least counterexample instead of an induction (`LegacySteps`).
    `AvailabilityAgrees` (`OneAvailability`), on the assumption that `None` is not a pair. `MovesUnchanged` (`SameThesis`): each field of the old
    document is None or the values of its key that are not null (`LegacyField`), which is what the new one makes of the list.
  * Holdings: `LoansLeaveLibraries` (`LoansKeepLibraries`), for any MARC record. `SameCode` shows that the location of a holding is the same once its
    first item is back, and the lists of libraries follow without anything being said of how they are filtered. `PrivateItemsLeaveNoTrace` (`PrivateItemsHidden`), for any MARC record.
  * Both of the last properties of lists use `Chosen` of `Subsequences`, the part of a sequence at some positions, as a recursive function: `SelectSeq` is opaque to
    the prover. `ChosenSteps` and `ChosenAppend` say what it gives for any sequence.
* **`FileIndexingProofs`**: `CopyKept` (`FileKept`) and `RowKept` (`RowNamesFile`), for any number of jobs, retries and kills.
  `StorageInv` says what each job expects of row and disk at its line (`Expects`), that jobs do not run at once
  unless `shared` remembers it (`Alone`), and that whatever the row names is whole or gone with the other copy whole
  (`RowOrOther`). It holds whatever traject does, since the proof uses only that traject leaves the storage alone.
  `DoneAccounts` (`SuccessAccounts`): `AccountInv` says where each good record that is not in Solr is: not yet read, queued, with a thread, in a batch that is
  being retried one by one, counted as skipped, or behind an exception that one of the three places will raise; and that no more are lost
  than are counted, with `Cardinality` over any set of records. The theorem is about the jobs whose traject did not end badly without a FATAL
  (`Job \ unheard`); of the others the code knows nothing, and nothing is proved.
* **`PartnerIncrementalProofs`**: `TypeCorrect` and `WindowsLoseNothing` (`NothingMissed`). The windows meet (`WindowsMeet`: each object lies in the window of one of the dumps), and at each line of `perform` what the
  job still holds and its dump together have the updates of its window, later the deletions too (`JobOK`). What happens in the directory plays no part: a job that does not find its files raises and lists them again.
  `LatestFollows` (`LatestInSync`, an action property): `SyncInv` adds, for cron days, that dumps, imports and tasks take turns (`Alternate`), that the directory holds what the
  last job holds and nothing else, so that it never raises (`Clean`), that a record changes once between two dumps (`OnceBetween`), and that Solr has what a record
  was at the last dump or will get it from a pending file or deletion (`SolrFollows`). The heart is `SettledIs`: for a record that has not changed since the dump, any
  file or deletion the dump has of it, even one that came after its window, agrees with what it was, so that the order of the jobs does not matter.
* **`OperationsProofs`**: `PartsAlone`: a behaviour of the composition is one of each part, so that what is proved of the parts holds of it.
  * Deletion of events: `FilesAndRows` (`FilesGoWithRows`), `RecentKept` (`RecentIsWhole`) and `NoDumpLeftOut` (`NoneLeftOut`), an action property, for any retention, any number of dump
    types, managers, requests and kills. `RetentionInv` adds that no job's `older_than` is later than today less the retention (`JobsAreLate`), that a transaction deletes only what is
    old or was asked for, and that the files it has passed are gone (`PassedAreGone`). For `NoneLeftOut` the lemma `StepsOverNone` says that `next_incremental`, which passes over
    dumps without files and takes the earliest of the rest, steps over no dump with files that is there, and `RecentIsWhole` that what is recent is there.
  * Rebuild and promotion: `ReadersKeepDumps` (`ProductionComplete`), for any managers, dumps, files, rebuilds and killed rakes. `SwapInv` follows the manager of each URL (`Wrote`: what it has
    completed, and the part of the dump it is at, is in the collection of the alias), the rebuild manager up to its promotion, at rest from the moment the rake has found it (`LoadedOK`), and the promoted one up
    to the swap of the aliases (`PromotedOK`: no row has the URL of the rebuild manager, so that the last save cannot be refused).
  * Options of Alma: `UndisturbedOptions` (`Undisturbed`), for any threads, options and callers. `ExecuteInv` says that an option not in `crossed` belongs to at most one open
    call (`OneCall`), that it has the value that the line of that call implies, and that what the call has saved of it is the default (`Follows`).

Only model-checked: every liveness property (`EventuallyCaughtUp`, `EventuallyImported`,
`EventuallySucceeds`, `EventuallyDone`, `EventuallyEnds`, `EphemeraEnds`, `OldEventsGo`, `ProductionFresh`), which the prover cannot treat together with fairness. Every other property of a passing run is stated by a theorem.

## Behaviours met on the way

Known from the models, without a run of their own:

* Two callers that read `in_progress = false` at the same time open two overall batches.
  Solr converges (`NoStaleRecord`), at twice the work.
* Two dumps whose events start in the same instant are each other's next dump, for ever:
  `next_incremental` excludes only the last dump itself. The instances give dumps different starts.
* `reindex!` that passes its check beside a running workflow can lose the full dump: the workflow's
  callback writes `last_dump_completed` after the reset.
* A poller that stops between the event and the job drops the message: it comes back as a duplicate.
  `EventuallyImported` excludes exactly this case (`Dropped`). `docs/missing_events.md` and
  `docs/event_with_empty_dump.md` describe the repair.
* An incremental import that dies takes its window with it: the next window starts where the
  last dump was created, not where the last import succeeded. `NothingMissed` speaks of the windows
  before the first failure.
* The zip that is imported may be newer than the csv that was validated: each is the newest of its
  moment, although the batch is named "Ensure there are no private records included" (`start_workflow_job.rb:11`).
* `scsb.rake:19` promises the full set "and any subsequent incrementals". A dump of deletions alone has no file, hence no
  `generated_date`, and `subsequent_partner_incrementals` never returns it: a record deleted since the full dump is in Solr
  again after `scsb:full`.
* `indexer.rb:12` raises if traject failed and wrote the word FATAL. A traject that is killed by itself, or that fails before it has a logger (a mistake in its
  configuration, a shell that does not find it), writes no such word: the job logs "Successfully indexed file" (`indexer.rb:16`), counts as done and
  is not retried, whatever is missing from Solr (`unheard`, which `SuccessAccounts` excepts).
* A console or rake that dies between the save of `index_next_dump!` and its push of a batch (`index_manager.rb:38-39`) leaves `in_progress` set, and
  every later `index_remaining!` does nothing. In `IndexManager` only jobs are killed, which run again, so `NeverStuck` does not speak of it.
* `docs/theses.md` has the theses of 2012 and before held by the library; one without location, rights or walk-in gets no holding. `OneAvailability` compares the
  fields of a document with one another and not with that sentence.
* Two jobs that index one SCSB file at once (for two collections) can delete both its copies; `FileKept` and `RowNamesFile`
  except it (`shared`).
* A kill or a failed save after the deletion of a copy leaves a row without a file; every later job on it
  raises (`parted`).
* A deletion that fails twice is given up, after two time-outs without a notice.
* More than a thousand ephemera folders are posted as `[...],[...]`, which is not JSON, and the task reports success: Solr's
  answer is not looked at. A folder that was withdrawn stays in Solr until the collection is deleted and indexed again.
* A key whose values are all null is an empty field in a thesis of the new DSpace and no field in one of the old: with
  `dc.rights.accessRights` or `pu.location` that decides whether a thesis before 2013 is in the library (`SameThesis` excepts it).
* A thesis whose lift date does not parse is offered in full, under a note that it is "currently under embargo".
* The rescue of `Zip::DestinationExistsError` (`full.rb`) says that an existing file is "not a
  problem. Should just move to the next entry". It skips `file_increment += 1`, so the next entry gets the
  same name, is rescued too, and so on to the end; the event is still successful. `SuccessIsComplete` holds without kills only.
* The weekly task is to "delete old events, dumps, and files on disk" (`config/schedule.rb:53`). `Event.destroy(ids)` goes through
  the events in turn, and the rescue for the one that an index manager points to is outside: the old events behind it stay, each week again.
  An idle rebuild manager points to its last dump for good. `OldEventsGo` speaks of the types of dump that no manager points to like that.
* `execute.rb:30` says "Restore the options to their original values". A call that begins while another is open takes the other's
  options for the original ones and leaves them behind: the timeout of one request then holds for all that follow (`crossed`).
* `promote_rebuild_manager`: an import between the first two saves finds no production manager and creates one; the unique index then
  refuses the second save, and the row at `temp` the first save of every later run.
* An import that is killed after it unpacked a file cannot be retried until the directory is cleaned by
  hand (`docs/scsb/file-exists-work-around.md`).
* A dump that the promoted manager indexes between the rake and the swap of the aliases goes to the old production collection and is missing from the
  new one, although the manager has it as completed (`mixed`, which `ProductionComplete` and `ProductionFresh` except).
* A production manager that starts a dump while its row says `temp` gives that URL to its jobs. They fail whenever they are retried, the manager stays in progress, and
  the next `reindex!` of that row is refused.
* A coin that is withdrawn from Figgy while the pages are read moves the coins behind it up, and one of them is never read (`moved`).
* A deletion that is refused or cut short leaves an event whose files are gone: a manager that comes to such a dump cannot finish it (`docs/dump_fails_to_index.md` has it
  passed over by hand).

## Limits

Abstracted: file contents (missing, torn, whole, or the entry they came from), the MARC clean-up of
`process_record`, log and error texts, Solr's commits, S3 errors other than a missing
file. The first window of partner increments (yesterday) is everything so far. Sidekiq, SQS,
ActiveRecord's partial writes, S3, SFTP, DSpace, Figgy and Solr are external and modelled from how the code uses
them; these definitions are marked so in `PROJECT.json`.

In `FileIndexing` one traject runs at a time, since two share nothing but the file; a traject dies with its job's process, since one that lived on would only write
the same records again; what an earlier try of a job wrote
is not counted on; a tar archive has one entry and is never torn. `Records` reads one record in a behaviour: the mappings
share no state. The titles, names and notes that are copied from a record to its document as they are, or wrapped in a
fixed text, are left out.

## Not modelled

The HTTP API and the administration pages: no shared state between requests, and each reshapes one answer. The remaining field
mappings of traject and of the Rust crate (dates, genres, formats, subjects, titles, names): pure functions of one field
by case analysis, whose reference definition would be the code again. The ISO 639 and location tables: data; the
tables of languages are five sixths of the lines of the Rust crate, which is why the share of lines the map
covers stays small whatever is modelled. The Figgy cache: one key written and read whole. The rest of the Alma adapter
reshapes answers; `NumismaticsIndexer.full_index` has no caller; `index_manager:initialize` raises. The location tables are emptied and filled by a task run by hand, without a transaction: a hazard
listed without a property, since a failure in the middle leaves what the code says it leaves.

## Plan

Done in this order: the index manager, since every record passes through it; what feeds it (Alma
import); the partner imports, where files are shared between jobs; the file and the run of traject under every job; the
harvests of the Rust library and the documents they make; then what goes on around the pipeline: retention, the rebuild with its promotion, the
coins, and the options of the Alma adapter.

Next:

1. `Pipeline`: `AlmaImport` composed with an abstract catch-up service (every dump attached is
   eventually indexed), and `IndexManager` shown to implement that service under the condition that
   files are attached before the dump is looked at; `FileIndexing` as the implementation of its `DumpFileJob`.
2. Theorems with fewer hypotheses: what `NoStaleRecord` and `SuccessIsComplete` become when runs overlap or a run is killed.
