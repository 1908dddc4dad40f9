----------------------------- MODULE AlmaImport -----------------------------
(***************************************************************************)
(* From an Alma webhook to dump files on disk: the webhook lambda puts     *)
(* JOB_END messages on an SQS FIFO queue, AwsSqsPoller records each one    *)
(* as an Event and a Dump and enqueues Import::Alma, which downloads the   *)
(* exported files by SFTP and attaches them to the dump.                   *)
(* webhook_monitor/src/index.rb, app/services/aws_sqs_poller.rb,           *)
(* app/jobs/import/alma.rb.                                                *)
(*                                                                         *)
(* An event, its dump and its import job are named by the message they     *)
(* come from; a dump file by the remote file it is downloaded from.        *)
(***************************************************************************)
EXTENDS Integers, Sequences, FiniteSets

CONSTANTS
    Msg,         \* bodies of the webhooks Alma posts
    JobEnd,      \* those whose action is JOB_END
    Configured,  \* those of a job named in config/alma.yml
    Incremental, \* those whose dump_file_type is updated_records
    File,        \* remote files
    Exported,    \* Exported[m]: the files the job of m left on the SFTP server
    MaxPosts,    \* bound on the times Alma posts one webhook
    MaxStops,    \* bound on the failures of the poller
    MaxRetries   \* Sidekiq's retries of an import job before it is dead

ASSUME MsgAssumption ==
    /\ JobEnd \subseteq Msg /\ Configured \subseteq Msg /\ Incremental \subseteq Configured
    /\ Exported \in [Msg -> SUBSET File]
    /\ \A m, n \in Msg : m # n => Exported[m] \cap Exported[n] = {}

ASSUME BoundAssumption == MaxPosts \in Nat /\ MaxStops \in Nat /\ MaxRetries \in Nat

VARIABLES
    posts,       \* times each webhook has been posted
    queue,       \* the SQS FIFO queue, one message group
    poller,      \* the step the poller has reached with the head of the queue
    stops,       \* failures of the poller so far
    events,      \* messages with an Event
    dumps,       \* messages with a Dump
    job,         \* the import job of each message
    orphans,     \* DumpFile rows of each file with no dump
    attached,    \* DumpFile rows of each file attached to the dump
    disk,        \* the local copy of each file
    indexing     \* messages whose import called index_remaining!

pollVars == <<posts, queue, poller, stops, events, dumps>>
fileVars == <<orphans, attached, disk, indexing>>
vars == <<pollVars, job, fileVars>>

\* started: files of this run with a DumpFile row and a download; retries: failed runs.
Job == [pc : {"none", "queued", "download", "attach", "returned", "done", "dead"},
        started : SUBSET File,
        mine : SUBSET File,
        retries : Nat]

NoJob == [pc |-> "none", started |-> {}, mine |-> {}, retries |-> 0]

---------------------------------------------------------------------------
(* The webhook lambda and the poller. *)

\* MessageHandler#run for a signed webhook.
PostWebhook(m) ==
    /\ posts[m] < MaxPosts
    /\ posts' = [posts EXCEPT ![m] = @ + 1]
    /\ queue' = IF m \in JobEnd THEN Append(queue, m) ELSE queue
    /\ UNCHANGED <<poller, stops, events, dumps, job, fileVars>>

\* The poller deletes the message when its block returns.
Delete == queue' = Tail(queue) /\ poller' = "idle"

\* Mutant: a job that is not configured raises, and its message stays on the queue.
PollUnknownRaises ==
    /\ poller = "idle" /\ queue # <<>>
    /\ Head(queue) \notin Configured
    /\ UNCHANGED vars

\* The message of a job that is not configured is skipped.
PollIgnored ==
    /\ poller = "idle" /\ queue # <<>>
    /\ Head(queue) \notin Configured
    /\ Delete
    /\ UNCHANGED <<posts, stops, events, dumps, job, fileVars>>

\* Event.create!: message_body is unique; AlmaDuplicateEventError is rescued.
PollDuplicate ==
    /\ poller = "idle" /\ queue # <<>>
    /\ Head(queue) \in Configured \cap events
    /\ Delete
    /\ UNCHANGED <<posts, stops, events, dumps, job, fileVars>>

\* Mutant: Event without the uniqueness of message_body.
PollEventAgain ==
    /\ poller = "idle" /\ queue # <<>>
    /\ Head(queue) \in Configured
    /\ events' = events \cup {Head(queue)}
    /\ poller' = "event"
    /\ UNCHANGED <<posts, queue, stops, dumps, job, fileVars>>

PollEvent ==
    /\ poller = "idle" /\ queue # <<>>
    /\ Head(queue) \in Configured \ events
    /\ events' = events \cup {Head(queue)}
    /\ poller' = "event"
    /\ UNCHANGED <<posts, queue, stops, dumps, job, fileVars>>

\* Dump.create, in a transaction of its own.
PollDump ==
    /\ poller = "event"
    /\ dumps' = dumps \cup {Head(queue)}
    /\ poller' = "dump"
    /\ UNCHANGED <<posts, queue, stops, events, job, fileVars>>

\* Import::Alma.perform_async.
PollEnqueue ==
    /\ poller = "dump"
    /\ job' = [job EXCEPT ![Head(queue)].pc = "queued"]
    /\ poller' = "enqueued"
    /\ UNCHANGED <<posts, queue, stops, events, dumps, fileVars>>

PollDelete ==
    /\ poller = "enqueued"
    /\ Delete
    /\ UNCHANGED <<posts, stops, events, dumps, job, fileVars>>

\* The process is killed, or the database or Redis refuses: the message stays on the
\* queue and is received again.
PollerFails ==
    /\ poller # "idle" /\ stops < MaxStops
    /\ stops' = stops + 1
    /\ poller' = "idle"
    /\ UNCHANGED <<posts, queue, events, dumps, job, fileVars>>

---------------------------------------------------------------------------
(* The import job. *)

StartImport(m) ==
    /\ job[m].pc = "queued"
    /\ job' = [job EXCEPT ![m].pc = "download", ![m].started = {}, ![m].mine = {}]
    /\ UNCHANGED <<pollVars, fileVars>>

\* files_for, for the next remote path: DumpFile.create, then transfer_file, which
\* empties a local copy that is already there and starts the download.
StartDownload(m, f) ==
    /\ job[m].pc = "download"
    /\ f \in Exported[m] \ job[m].started
    /\ job' = [job EXCEPT ![m].started = @ \cup {f}]
    /\ orphans' = [orphans EXCEPT ![f] = @ + 1]
    /\ disk' = [disk EXCEPT ![f] = "partial"]
    /\ UNCHANGED <<pollVars, attached, indexing>>

\* The downloads run side by side while the session is open.
FinishDownload(m, f) ==
    /\ job[m].pc = "download"
    /\ f \in job[m].started /\ disk[f] = "partial"
    /\ disk' = [disk EXCEPT ![f] = "whole"]
    /\ UNCHANGED <<pollVars, job, orphans, attached, indexing>>

\* Mutant: without downloads.each(&:wait).
NoWait(m) ==
    /\ job[m].pc = "download" /\ job[m].started = Exported[m]
    /\ job' = [job EXCEPT ![m].pc = "attach", ![m].mine = Exported[m]]
    /\ UNCHANGED <<pollVars, fileVars>>

\* downloads.each(&:wait): every download has ended, and files_for returns its rows.
WaitDownloads(m) ==
    /\ job[m].pc = "download" /\ job[m].started = Exported[m]
    /\ \A f \in Exported[m] : disk[f] = "whole"
    /\ job' = [job EXCEPT ![m].pc = "attach", ![m].mine = Exported[m]]
    /\ UNCHANGED <<pollVars, fileVars>>

\* dump.dump_files << file, for the next row of this run.
AttachFile(m, f) ==
    /\ job[m].pc = "attach" /\ f \in job[m].mine
    /\ job' = [job EXCEPT ![m].mine = @ \ {f}]
    /\ orphans' = [orphans EXCEPT ![f] = @ - 1]
    /\ attached' = [attached EXCEPT ![f] = @ + 1]
    /\ UNCHANGED <<pollVars, disk, indexing>>

\* dump.save and, for an incremental dump, index_remaining!.
IndexImport(m) ==
    /\ job[m].pc = "attach" /\ job[m].mine = {}
    /\ job' = [job EXCEPT ![m].pc = "returned"]
    /\ indexing' = IF m \in Incremental THEN indexing \cup {m} ELSE indexing
    /\ UNCHANGED <<pollVars, orphans, attached, disk>>

\* Sidekiq acknowledges the job.
AckImport(m) ==
    /\ job[m].pc = "returned"
    /\ job' = [job EXCEPT ![m].pc = "done"]
    /\ UNCHANGED <<pollVars, fileVars>>

\* The job raises or its process is killed: its downloads stop, and Sidekiq runs it again
\* from its first line, or moves it to the dead set.
ImportFails(m) ==
    /\ job[m].pc \in {"download", "attach", "returned"}
    /\ job' = [job EXCEPT ![m].pc = IF job[m].retries < MaxRetries THEN "queued" ELSE "dead",
                          ![m].retries = @ + 1]
    /\ UNCHANGED <<pollVars, fileVars>>

---------------------------------------------------------------------------
Init ==
    /\ posts = [m \in Msg |-> 0]
    /\ queue = <<>>
    /\ poller = "idle"
    /\ stops = 0
    /\ events = {} /\ dumps = {}
    /\ job = [m \in Msg |-> NoJob]
    /\ orphans = [f \in File |-> 0]
    /\ attached = [f \in File |-> 0]
    /\ disk = [f \in File |-> "absent"]
    /\ indexing = {}

Poll == PollIgnored \/ PollDuplicate \/ PollEvent \/ PollDump \/ PollEnqueue \/ PollDelete

Import(m) ==
    \/ StartImport(m)
    \/ \E f \in File : StartDownload(m, f) \/ FinishDownload(m, f) \/ AttachFile(m, f)
    \/ WaitDownloads(m) \/ IndexImport(m) \/ AckImport(m)

Next ==
    \/ \E m \in Msg : PostWebhook(m)
    \/ Poll \/ PollerFails
    \/ \E m \in Msg : Import(m) \/ ImportFails(m)

Spec == Init /\ [][Next]_vars

\* The poller daemon and the Sidekiq workers are restarted and keep running.
FairSpec == Spec /\ WF_vars(Poll) /\ \A m \in Msg : WF_vars(Import(m))

---------------------------------------------------------------------------
(* Properties. *)

\* Types of the queue, the tables, the jobs and the local files.
TypeOK ==
    /\ posts \in [Msg -> 0..MaxPosts]
    /\ queue \in Seq(JobEnd)
    /\ poller \in {"idle", "event", "dump", "enqueued"}
    /\ stops \in 0..MaxStops
    /\ events \subseteq Configured /\ dumps \subseteq events
    /\ job \in [Msg -> Job]
    /\ orphans \in [File -> Int] /\ attached \in [File -> Nat]
    /\ disk \in [File -> {"absent", "partial", "whole"}]
    /\ indexing \subseteq Incremental

\* A finished import has attached every file that its Alma job exported, the local copies
\* are whole and indexing was asked for if they are incremental, whatever failed and was
\* retried on the way (Import::Alma#perform).
DoneIsComplete ==
    \A m \in Msg : job[m].pc = "done" =>
        /\ \A f \in Exported[m] : attached[f] > 0 /\ disk[f] = "whole"
        /\ m \in Incremental => m \in indexing

\* A webhook that Alma posts again, or that SQS delivers again, never starts a second
\* import over the files of the first (AlmaDumpFactory#dump_event).
OneImport ==
    [][\A m \in Msg : job[m].pc # "none" /\ job'[m].pc = "queued" /\ job[m].pc # "queued"
           => job'[m].retries = job[m].retries + 1]_vars

\* A dump file that indexing can reach has a whole local copy unless its job is a retry,
\* which empties the copies its earlier run attached (AlmaDownloader#transfer_file).
PartialOnlyInRetry ==
    \A m \in Msg : \A f \in Exported[m] :
        attached[f] > 0 /\ disk[f] # "whole" =>
            job[m].retries > 0 /\ job[m].pc \in {"queued", "download", "dead"}

\* A dump lists a file at most once for each run of its job (Import::Alma#perform attaches
\* fresh rows on every run).
RowsPerRun ==
    \A m \in Msg : \A f \in Exported[m] :
        0 <= orphans[f] /\ orphans[f] + attached[f] <= job[m].retries + 1

Dropped(m) == stops > 0 /\ m \in events /\ job[m].pc = "none"

\* Every JOB_END webhook of a configured job is imported, or its import ends in the dead
\* set after its retries, unless the poller stopped after it had recorded the event
\* (AlmaDumpFactory#dump_event: the message comes back as a duplicate and is dropped).
EventuallyImported ==
    \A m \in JobEnd \cap Configured :
        posts[m] > 0 ~> (job[m].pc \in {"done", "dead"} \/ Dropped(m))
============================================================================
