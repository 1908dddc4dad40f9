-------------------------- MODULE AlmaImportProofs --------------------------
(***************************************************************************)
(* What holds of the Alma import for every set of webhooks and files and   *)
(* for any number of failures: the types, that a finished import is        *)
(* complete, that a webhook is imported by one job only, and which rows    *)
(* its runs leave, with which files.                                       *)
(***************************************************************************)
EXTENDS AlmaImport, TLAPS

\* The message being handled stays at the head of the queue and has an event from its
\* first step on; a message without an event has no job, nor has one whose event was
\* just created.
PollerOK ==
    /\ poller # "idle" => queue # <<>> /\ Head(queue) \in events
    /\ poller \in {"event", "dump"} => job[Head(queue)].pc = "none"
    /\ \A m \in Msg : m \notin events => job[m].pc = "none"

\* From the wait on, the copies of a run are whole and each file is attached or about to be.
WaitedIsWhole ==
    \A m \in Msg : job[m].pc = "attach" =>
        \A f \in Exported[m] : disk[f] = "whole" /\ (f \in job[m].mine \/ attached[f] > 0)

\* So is a run that has called index_remaining!.
ReturnedIsComplete ==
    \A m \in Msg : job[m].pc = "returned" =>
        /\ \A f \in Exported[m] : attached[f] > 0 /\ disk[f] = "whole"
        /\ m \in Incremental => m \in indexing

IInv == TypeOK /\ PollerOK /\ WaitedIsWhole /\ ReturnedIsComplete /\ DoneIsComplete

FileInv == WaitedIsWhole /\ ReturnedIsComplete /\ DoneIsComplete

LEMMA InitIInv == Init => IInv
BY MsgAssumption, BoundAssumption
DEF Init, IInv, TypeOK, PollerOK, WaitedIsWhole, ReturnedIsComplete, DoneIsComplete, Job, NoJob

\* A message at the end of the queue does not change its head.
LEMMA HeadKept == ASSUME NEW S, NEW q \in Seq(S), NEW m \in S, q # <<>>
                  PROVE  Append(q, m) # <<>> /\ Head(Append(q, m)) = Head(q)
OBVIOUS

LEMMA HeadTyped == ASSUME NEW S, NEW q \in Seq(S), q # <<>>
                   PROVE  Head(q) \in S /\ Tail(q) \in Seq(S)
OBVIOUS

LEMMA PostWebhookIInv == ASSUME IInv, NEW m \in Msg, PostWebhook(m) PROVE IInv'
<1>1. TypeOK'
  BY MsgAssumption, BoundAssumption DEF IInv, TypeOK, PostWebhook, fileVars
<1>2. PollerOK'
  <2>1. CASE poller = "idle"
    BY <2>1 DEF IInv, PollerOK, PostWebhook, fileVars
  <2>2. CASE poller # "idle"
    <3>1. queue \in Seq(JobEnd) /\ queue # <<>>
      BY <2>2 DEF IInv, TypeOK, PollerOK
    <3>2. queue' # <<>> /\ Head(queue') = Head(queue)
      BY <3>1, HeadKept DEF PostWebhook
    <3> QED  BY <3>1, <3>2, <2>2 DEF IInv, PollerOK, PostWebhook, fileVars
  <2> QED  BY <2>1, <2>2
<1>3. FileInv'
  BY DEF IInv, FileInv, WaitedIsWhole, ReturnedIsComplete, DoneIsComplete, PostWebhook, fileVars
<1> QED  BY <1>1, <1>2, <1>3 DEF IInv, FileInv

LEMMA PollIInv == ASSUME IInv, Poll \/ PollerFails PROVE IInv'
<1> USE DEF fileVars
<1>0. TypeOK /\ PollerOK
  BY DEF IInv
<1>1. CASE (PollIgnored \/ PollDuplicate \/ PollDelete \/ PollerFails)
  <2>a. queue # <<>> /\ queue \in Seq(JobEnd)
    BY <1>0, <1>1 DEF TypeOK, PollerOK, PollIgnored, PollDuplicate, PollDelete, PollerFails
  <2>b. queue' \in Seq(JobEnd)
    BY <1>1, <2>a, HeadTyped DEF PollIgnored, PollDuplicate, PollDelete, PollerFails, Delete
  <2>c. stops' \in 0..MaxStops /\ poller' = "idle"
    BY <1>0, <1>1, BoundAssumption
    DEF TypeOK, PollIgnored, PollDuplicate, PollDelete, PollerFails, Delete
  <2>1. TypeOK'
    BY <1>0, <1>1, <2>b, <2>c
    DEF TypeOK, PollIgnored, PollDuplicate, PollDelete, PollerFails, Delete
  <2>2. PollerOK'
    BY <1>0, <1>1 DEF PollerOK, PollIgnored, PollDuplicate, PollDelete, PollerFails, Delete
  <2>3. FileInv'
    BY <1>1 DEF IInv, FileInv, WaitedIsWhole, ReturnedIsComplete, DoneIsComplete,
                PollIgnored, PollDuplicate, PollDelete, PollerFails, Delete
  <2> QED  BY <2>1, <2>2, <2>3 DEF IInv, FileInv
<1>2. CASE PollEvent
  <2>1. Head(queue) \in Configured \cap Msg
    BY <1>2, MsgAssumption DEF PollEvent
  <2>2. TypeOK'
    BY <1>0, <1>2, <2>1 DEF TypeOK, PollEvent
  <2>3. PollerOK'
    BY <1>0, <1>2, <2>1 DEF PollerOK, PollEvent
  <2>4. FileInv'
    BY <1>2 DEF IInv, FileInv, WaitedIsWhole, ReturnedIsComplete, DoneIsComplete, PollEvent
  <2> QED  BY <2>2, <2>3, <2>4 DEF IInv, FileInv
<1>3. CASE PollDump
  <2>1. TypeOK'
    BY <1>0, <1>3 DEF TypeOK, PollerOK, PollDump
  <2>2. PollerOK'
    BY <1>0, <1>3 DEF PollerOK, PollDump
  <2>3. FileInv'
    BY <1>3 DEF IInv, FileInv, WaitedIsWhole, ReturnedIsComplete, DoneIsComplete, PollDump
  <2> QED  BY <2>1, <2>2, <2>3 DEF IInv, FileInv
<1>4. CASE PollEnqueue
  <2>1. Head(queue) \in events /\ Head(queue) \in Msg
    BY <1>0, <1>4, MsgAssumption DEF TypeOK, PollerOK, PollEnqueue
  <2>2. job' \in [Msg -> Job]
    BY <1>0, <1>4, <2>1 DEF TypeOK, PollEnqueue, Job
  <2>3. \A n \in Msg : job'[n].pc = "queued" \/ job'[n] = job[n]
    BY <1>0, <1>4, <2>1 DEF TypeOK, PollEnqueue, Job
  <2>4. TypeOK'
    BY <1>0, <1>4, <2>2 DEF TypeOK, PollEnqueue
  <2>5. PollerOK'
    <3>1. \A n \in Msg : n # Head(queue) => job'[n] = job[n]
      BY <1>0, <1>4 DEF TypeOK, PollEnqueue
    <3> QED  BY <1>0, <1>4, <2>1, <3>1 DEF PollerOK, PollEnqueue
  <2>6. FileInv'
    BY <1>4, <2>3
    DEF IInv, FileInv, WaitedIsWhole, ReturnedIsComplete, DoneIsComplete, PollEnqueue
  <2> QED  BY <2>4, <2>5, <2>6 DEF IInv, FileInv
<1> QED  BY <1>1, <1>2, <1>3, <1>4 DEF Poll

\* A step of the job of m leaves PollerOK alone as m has an event.
LEMMA JobPollerOK ==
    ASSUME IInv, NEW m \in Msg, job[m].pc # "none", UNCHANGED pollVars,
           \A n \in Msg : n # m => job'[n] = job[n]
    PROVE  PollerOK'
<1>1. m \in events
  BY DEF IInv, PollerOK
<1>2. poller \in {"event", "dump"} => Head(queue) \in Msg /\ Head(queue) # m
  BY MsgAssumption DEF IInv, PollerOK, TypeOK
<1> QED  BY <1>1, <1>2 DEF IInv, PollerOK, pollVars

LEMMA ImportIInv == ASSUME IInv, NEW m \in Msg, Import(m) \/ ImportFails(m) PROVE IInv'
<1> USE DEF fileVars
<1>0. TypeOK /\ job[m] \in Job /\ Exported[m] \subseteq File
  BY MsgAssumption DEF IInv, TypeOK
<1>a. job[m].pc # "none" /\ UNCHANGED pollVars
  BY DEF Import, StartImport, StartDownload, FinishDownload, AttachFile, WaitDownloads,
         IndexImport, AckImport, ImportFails
<1>b. (\A n \in Msg : n # m => job'[n] = job[n]) /\ job' \in [Msg -> Job]
  <2>1. \A n \in Msg : n # m => job'[n] = job[n]
    BY <1>0 DEF TypeOK, Import, StartImport, StartDownload, FinishDownload, AttachFile,
         WaitDownloads, IndexImport, AckImport, ImportFails
  <2>2. job'[m] \in Job
    <3>1. ASSUME NEW f \in File, StartDownload(m, f) PROVE job'[m] \in Job
      <4>1. job'[m] = [job[m] EXCEPT !.started = @ \cup {f}]
        BY <1>0, <3>1 DEF TypeOK, StartDownload
      <4> QED  BY <1>0, <4>1 DEF Job
    <3>2. ASSUME NEW f \in File, FinishDownload(m, f) PROVE job'[m] \in Job
      BY <1>0, <3>2 DEF FinishDownload
    <3>3. ASSUME NEW f \in File, AttachFile(m, f) PROVE job'[m] \in Job
      <4>1. job'[m] = [job[m] EXCEPT !.mine = @ \ {f}]
        BY <1>0, <3>3 DEF TypeOK, AttachFile
      <4> QED  BY <1>0, <4>1 DEF Job
    <3>4. CASE StartImport(m)
      <4>1. job'[m] = [job[m] EXCEPT !.pc = "download", !.started = {}, !.mine = {}]
        BY <1>0, <3>4 DEF TypeOK, StartImport
      <4> QED  BY <1>0, <4>1 DEF Job
    <3>5. CASE WaitDownloads(m)
      <4>1. job'[m] = [job[m] EXCEPT !.pc = "attach", !.mine = Exported[m]]
        BY <1>0, <3>5 DEF TypeOK, WaitDownloads
      <4> QED  BY <1>0, <4>1 DEF Job
    <3>6. CASE IndexImport(m)
      <4>1. job'[m] = [job[m] EXCEPT !.pc = "returned"]
        BY <1>0, <3>6 DEF TypeOK, IndexImport
      <4> QED  BY <1>0, <4>1 DEF Job
    <3>7. CASE AckImport(m)
      <4>1. job'[m] = [job[m] EXCEPT !.pc = "done"]
        BY <1>0, <3>7 DEF TypeOK, AckImport
      <4> QED  BY <1>0, <4>1 DEF Job
    <3>8. CASE ImportFails(m)
      <4>1. PICK p \in {"queued", "dead"} :
                job'[m] = [job[m] EXCEPT !.pc = p, !.retries = @ + 1]
        BY <1>0, <3>8 DEF TypeOK, ImportFails
      <4>2. job[m].retries + 1 \in Nat
        BY <1>0 DEF Job
      <4> QED  BY <1>0, <4>1, <4>2 DEF Job
    <3> QED  BY <3>1, <3>2, <3>3, <3>4, <3>5, <3>6, <3>7, <3>8 DEF Import
  <2>3. job' = [job EXCEPT ![m] = job'[m]]
    BY <1>0 DEF TypeOK, Import, StartImport, StartDownload, FinishDownload, AttachFile,
         WaitDownloads, IndexImport, AckImport, ImportFails
  <2> QED  BY <1>0, <2>1, <2>2, <2>3 DEF TypeOK
<1>c. PollerOK'
  BY <1>a, <1>b, JobPollerOK
<1>1. CASE StartImport(m) \/ ImportFails(m)
  <2>1. TypeOK'
    BY <1>0, <1>1, <1>b, <1>a DEF TypeOK, StartImport, ImportFails, pollVars
  <2>2. job'[m].pc \in {"download", "queued", "dead"}
    BY <1>0, <1>1 DEF TypeOK, Job, StartImport, ImportFails
  <2>3. FileInv'
    BY <1>1, <1>b, <2>2 DEF IInv, FileInv, WaitedIsWhole, ReturnedIsComplete, DoneIsComplete,
         StartImport, ImportFails
  <2> QED  BY <1>c, <2>1, <2>3 DEF IInv, FileInv
<1>2. CASE \E f \in File : StartDownload(m, f) \/ FinishDownload(m, f)
  <2> PICK f \in File : StartDownload(m, f) \/ FinishDownload(m, f)
    BY <1>2
  <2>a. orphans' \in [File -> Int]
    BY <1>0 DEF TypeOK, StartDownload, FinishDownload
  <2>b. disk' \in [File -> {"absent", "partial", "whole"}]
    BY <1>0 DEF TypeOK, StartDownload, FinishDownload
  <2>1. TypeOK'
    BY <1>0, <1>b, <1>a, <2>a, <2>b DEF TypeOK, StartDownload, FinishDownload, pollVars
  <2>2. job'[m].pc = "download"
    BY <1>0 DEF TypeOK, Job, StartDownload, FinishDownload
  <2>3. \A n \in Msg \ {m} : \A g \in Exported[n] : disk'[g] = disk[g] \/ disk'[g] = "whole"
    BY <1>0, MsgAssumption DEF TypeOK, StartDownload, FinishDownload
  <2>4. UNCHANGED <<attached, indexing>>
    BY DEF StartDownload, FinishDownload
  <2>5. FileInv'
    BY <1>b, <2>2, <2>3, <2>4
    DEF IInv, FileInv, WaitedIsWhole, ReturnedIsComplete, DoneIsComplete
  <2> QED  BY <1>c, <2>1, <2>5 DEF IInv, FileInv
<1>3. CASE WaitDownloads(m)
  <2>1. TypeOK'
    BY <1>0, <1>3, <1>b, <1>a DEF TypeOK, WaitDownloads, pollVars
  <2>2. job'[m].pc = "attach" /\ job'[m].mine = Exported[m]
    BY <1>0, <1>3 DEF TypeOK, Job, WaitDownloads
  <2>3. FileInv'
    BY <1>3, <1>b, <2>2
    DEF IInv, FileInv, WaitedIsWhole, ReturnedIsComplete, DoneIsComplete, WaitDownloads
  <2> QED  BY <1>c, <2>1, <2>3 DEF IInv, FileInv
<1>4. CASE \E f \in File : AttachFile(m, f)
  <2> PICK f \in File : AttachFile(m, f)
    BY <1>4
  <2>1. TypeOK'
    BY <1>0, <1>b, <1>a DEF TypeOK, AttachFile, pollVars
  <2>2. job'[m].pc = "attach" /\ job'[m].mine = job[m].mine \ {f}
    BY <1>0 DEF TypeOK, Job, AttachFile
  <2>3. (\A g \in File : attached[g] > 0 => attached'[g] > 0) /\ attached'[f] > 0
    BY <1>0 DEF TypeOK, AttachFile
  <2>4. UNCHANGED <<disk, indexing>> /\ job[m].pc = "attach"
    BY DEF AttachFile
  <2>5. \A n \in Msg : Exported[n] \subseteq File
    BY MsgAssumption
  <2>6. FileInv'
    BY <1>b, <2>2, <2>3, <2>4, <2>5
    DEF IInv, FileInv, WaitedIsWhole, ReturnedIsComplete, DoneIsComplete
  <2> QED  BY <1>c, <2>1, <2>6 DEF IInv, FileInv
<1>5. CASE IndexImport(m) \/ AckImport(m)
  <2>1. TypeOK'
    BY <1>0, <1>5, <1>b, <1>a DEF TypeOK, IndexImport, AckImport, pollVars
  <2>2. \/ /\ job[m].pc = "attach" /\ job[m].mine = {} /\ job'[m].pc = "returned"
           /\ m \in Incremental => m \in indexing'
        \/ job[m].pc = "returned" /\ job'[m].pc = "done"
    BY <1>0, <1>5 DEF TypeOK, Job, IndexImport, AckImport
  <2>3. UNCHANGED <<attached, disk>> /\ indexing \subseteq indexing'
    BY <1>5 DEF IndexImport, AckImport
  <2>4. FileInv'
    BY <1>b, <2>2, <2>3
    DEF IInv, FileInv, WaitedIsWhole, ReturnedIsComplete, DoneIsComplete
  <2> QED  BY <1>c, <2>1, <2>4 DEF IInv, FileInv
<1> QED  BY <1>1, <1>2, <1>3, <1>4, <1>5 DEF Import

LEMMA NextIInv == IInv /\ [Next]_vars => IInv'
<1> SUFFICES ASSUME IInv, [Next]_vars PROVE IInv'
  OBVIOUS
<1>1. CASE UNCHANGED vars
  BY <1>1 DEF IInv, TypeOK, PollerOK, WaitedIsWhole, ReturnedIsComplete, DoneIsComplete,
              vars, pollVars, fileVars
<1>2. CASE Next
  BY <1>2, PostWebhookIInv, PollIInv, ImportIInv DEF Next
<1> QED  BY <1>1, <1>2

\* The types of the queue, the tables, the jobs and the files (the rows and columns that
\* Event, Dump and DumpFile write, and the job's local state).
THEOREM TypeCorrect == Spec => []TypeOK
<1>1. IInv => TypeOK
  BY DEF IInv
<1> QED  BY <1>1, InitIInv, NextIInv, PTL DEF Spec

\* Whatever is delivered twice, fails and is retried, an import that Sidekiq has
\* acknowledged has its dump complete and on disk (Import::Alma#perform).
THEOREM ImportComplete == Spec => []DoneIsComplete
<1>1. IInv => DoneIsComplete
  BY DEF IInv
<1> QED  BY <1>1, InitIInv, NextIInv, PTL DEF Spec

\* A webhook is given one import job, which only its own retries start again
\* (AlmaDumpFactory#dump_event rejects the second event).
THEOREM ImportedOnce == Spec => OneImport
<1> DEFINE Step == \A m \in Msg :
              job[m].pc # "none" /\ job'[m].pc = "queued" /\ job[m].pc # "queued"
                  => job'[m].retries = job[m].retries + 1
<1>1. IInv /\ [Next]_vars => [Step]_vars
  <2> SUFFICES ASSUME IInv, Next, NEW m \in Msg,
                      job[m].pc # "none", job'[m].pc = "queued", job[m].pc # "queued"
               PROVE  job'[m].retries = job[m].retries + 1
    BY DEF vars
  <2>0. job \in [Msg -> Job] /\ job[m] \in Job
    BY DEF IInv, TypeOK
  <2>1. ASSUME NEW n \in Msg, PostWebhook(n) PROVE FALSE
    BY <2>1 DEF PostWebhook
  <2>2. CASE Poll \/ PollerFails
    <3>1. PollEnqueue
      BY <2>2 DEF Poll, PollIgnored, PollDuplicate, PollEvent, PollDump, PollDelete, PollerFails
    <3>2. Head(queue) # m
      BY <3>1 DEF IInv, PollerOK, PollEnqueue
    <3> QED  BY <3>1, <3>2, <2>0 DEF PollEnqueue
  <2>3. ASSUME NEW n \in Msg, Import(n) PROVE FALSE
    <3>1. job'[n].pc # "queued" /\ \A k \in Msg \ {n} : job'[k] = job[k]
      BY <2>0, <2>3 DEF Job, Import, StartImport, StartDownload, FinishDownload, AttachFile,
           WaitDownloads, IndexImport, AckImport
    <3> QED  BY <3>1
  <2>4. ASSUME NEW n \in Msg, ImportFails(n) PROVE job'[m].retries = job[m].retries + 1
    BY <2>0, <2>4 DEF Job, ImportFails
  <2> QED  BY <2>1, <2>2, <2>3, <2>4 DEF Next
<1> QED  BY <1>1, InitIInv, NextIInv, PTL DEF Spec, OneImport

---------------------------------------------------------------------------
(* The rows of a dump and its copies. *)

\* The rows of a file that the runs of job j have left: one for each failed run, and one for
\* the run that goes on once it has started the download, which is no dump's until it is
\* attached.
RowsOfRuns(j, f) ==
    LET rows == orphans[f] + attached[f]
    IN  /\ orphans[f] >= 0
        /\ j.pc = "none" => j.retries = 0
        /\ j.pc \in {"none", "queued", "dead"} => rows <= j.retries
        /\ j.pc = "download" =>
              IF f \in j.started THEN rows <= j.retries + 1 /\ orphans[f] > 0 ELSE rows <= j.retries
        /\ j.pc \in {"attach", "returned", "done"} => rows <= j.retries + 1
        /\ j.pc = "attach" /\ f \in j.mine => orphans[f] > 0

RowsOK ==
    \A m \in Msg : job[m].mine \subseteq Exported[m] /\ \A f \in Exported[m] : RowsOfRuns(job[m], f)

LEMMA InitRowsOK == Init => RowsOK
BY MsgAssumption DEF Init, RowsOK, RowsOfRuns, NoJob

\* Only a job's own steps and the poller touch it, only its own steps the rows of its files.
LEMMA OthersRows ==
    ASSUME IInv, RowsOK, NEW m \in Msg,
           \A n \in Msg \ {m} : job'[n] = job[n],
           \A f \in File \ Exported[m] : orphans'[f] = orphans[f] /\ attached'[f] = attached[f],
           job'[m].mine \subseteq Exported[m], \A f \in Exported[m] : RowsOfRuns(job[m], f)'
    PROVE  RowsOK'
<1> SUFFICES ASSUME NEW n \in Msg \ {m}, NEW f \in Exported[n] PROVE RowsOfRuns(job[n], f)'
  BY DEF RowsOK
<1>1. f \in File \ Exported[m]
  BY MsgAssumption
<1>2. orphans'[f] = orphans[f] /\ attached'[f] = attached[f] /\ job'[n] = job[n]
  BY <1>1
<1> QED  BY <1>2 DEF RowsOK, RowsOfRuns

LEMMA ImportRowsOK ==
    ASSUME IInv, RowsOK, NEW m \in Msg, Import(m) \/ ImportFails(m)
    PROVE  RowsOK'
<1>0. /\ job \in [Msg -> Job] /\ job[m] \in Job /\ job[m].retries \in Nat /\ Exported[m] \subseteq File
      /\ orphans \in [File -> Int] /\ attached \in [File -> Nat]
      /\ \A f \in Exported[m] : orphans[f] \in Int /\ attached[f] \in Nat /\ RowsOfRuns(job[m], f)
      /\ job[m].mine \subseteq Exported[m]
  BY MsgAssumption DEF IInv, TypeOK, RowsOK, Job
<1>1. \A n \in Msg \ {m} : job'[n] = job[n]
  BY <1>0 DEF Import, StartImport, StartDownload, FinishDownload, AttachFile, WaitDownloads,
              IndexImport, AckImport, ImportFails, fileVars
<1>2. SUFFICES /\ \A f \in File \ Exported[m] : orphans'[f] = orphans[f] /\ attached'[f] = attached[f]
               /\ job'[m].mine \subseteq Exported[m]
               /\ \A f \in Exported[m] : RowsOfRuns(job[m], f)'
  BY <1>1, OthersRows
<1>3. ASSUME NEW f \in File, StartDownload(m, f)
      PROVE  /\ \A g \in File \ Exported[m] : orphans'[g] = orphans[g] /\ attached'[g] = attached[g]
             /\ job'[m].mine \subseteq Exported[m]
             /\ \A g \in Exported[m] : RowsOfRuns(job[m], g)'
  <2>1. /\ job'[m] = [job[m] EXCEPT !.started = @ \cup {f}] /\ job[m].pc = "download"
        /\ f \in Exported[m] \ job[m].started /\ attached' = attached
        /\ orphans'[f] = orphans[f] + 1 /\ \A g \in File \ {f} : orphans'[g] = orphans[g]
    BY <1>0, <1>3 DEF StartDownload
  <2>2. job'[m].pc = "download" /\ job'[m].mine = job[m].mine /\ job'[m].retries = job[m].retries
        /\ job'[m].started = job[m].started \cup {f}
    BY <1>0, <2>1 DEF Job
  <2>3. ASSUME NEW g \in Exported[m] \ {f} PROVE RowsOfRuns(job[m], g)'
    BY <1>0, <2>1, <2>2 DEF RowsOfRuns
  <2>4. RowsOfRuns(job[m], f)'
    BY <1>0, <2>1, <2>2 DEF RowsOfRuns
  <2> QED  BY <1>0, <2>1, <2>2, <2>3, <2>4
<1>4. ASSUME NEW f \in File, AttachFile(m, f)
      PROVE  /\ \A g \in File \ Exported[m] : orphans'[g] = orphans[g] /\ attached'[g] = attached[g]
             /\ job'[m].mine \subseteq Exported[m]
             /\ \A g \in Exported[m] : RowsOfRuns(job[m], g)'
  <2>1. /\ job'[m] = [job[m] EXCEPT !.mine = @ \ {f}] /\ job[m].pc = "attach" /\ f \in job[m].mine
        /\ orphans'[f] = orphans[f] - 1 /\ attached'[f] = attached[f] + 1
        /\ \A g \in File \ {f} : orphans'[g] = orphans[g] /\ attached'[g] = attached[g]
    BY <1>0, <1>4 DEF AttachFile
  <2>2. job'[m].pc = "attach" /\ job'[m].mine = job[m].mine \ {f} /\ job'[m].retries = job[m].retries
    BY <1>0, <2>1 DEF Job
  <2>3. ASSUME NEW g \in Exported[m] \ {f} PROVE RowsOfRuns(job[m], g)'
    BY <1>0, <2>1, <2>2 DEF RowsOfRuns
  <2>4. RowsOfRuns(job[m], f)'
    BY <1>0, <2>1, <2>2 DEF RowsOfRuns
  <2> QED  BY <1>0, <2>1, <2>2, <2>3, <2>4
<1>5. CASE (\E f \in File : FinishDownload(m, f)) \/ AckImport(m) \/ IndexImport(m)
           \/ WaitDownloads(m) \/ StartImport(m) \/ ImportFails(m)
  <2>1. orphans' = orphans /\ attached' = attached
    BY <1>5 DEF FinishDownload, AckImport, IndexImport, WaitDownloads, StartImport, ImportFails, fileVars
  <2>2. \/ job'[m] = job[m]
        \/ job[m].pc = "returned" /\ job'[m] = [job[m] EXCEPT !.pc = "done"]
        \/ job[m].pc = "attach" /\ job[m].mine = {} /\ job'[m] = [job[m] EXCEPT !.pc = "returned"]
        \/ /\ job[m].pc = "download" /\ job[m].started = Exported[m]
           /\ job'[m] = [job[m] EXCEPT !.pc = "attach", !.mine = Exported[m]]
        \/ job[m].pc = "queued" /\ job'[m] = [job[m] EXCEPT !.pc = "download", !.started = {}, !.mine = {}]
        \/ /\ job[m].pc \in {"download", "attach", "returned"}
           /\ \E p \in {"queued", "dead"} : job'[m] = [job[m] EXCEPT !.pc = p, !.retries = @ + 1]
    BY <1>0, <1>5 DEF FinishDownload, AckImport, IndexImport, WaitDownloads, StartImport, ImportFails
  <2>3. job'[m].mine \subseteq Exported[m]
    BY <1>0, <2>2 DEF Job
  <2>4. ASSUME NEW g \in Exported[m] PROVE RowsOfRuns(job[m], g)'
    <3>1. orphans[g] \in Int /\ attached[g] \in Nat /\ RowsOfRuns(job[m], g) /\ job[m].retries \in Nat
      BY <1>0
    <3>2. CASE job'[m] = job[m]
      BY <2>1, <3>1, <3>2 DEF RowsOfRuns
    <3>3. CASE job[m].pc = "returned" /\ job'[m] = [job[m] EXCEPT !.pc = "done"]
      <4>1. job'[m].pc = "done" /\ job'[m].retries = job[m].retries BY <1>0, <3>3 DEF Job
      <4> QED  BY <2>1, <3>1, <3>3, <4>1 DEF RowsOfRuns
    <3>4. CASE job[m].pc = "attach" /\ job'[m] = [job[m] EXCEPT !.pc = "returned"]
      <4>1. job'[m].pc = "returned" /\ job'[m].retries = job[m].retries BY <1>0, <3>4 DEF Job
      <4> QED  BY <2>1, <3>1, <3>4, <4>1 DEF RowsOfRuns
    <3>5. CASE /\ job[m].pc = "download" /\ job[m].started = Exported[m]
               /\ job'[m] = [job[m] EXCEPT !.pc = "attach", !.mine = Exported[m]]
      <4>1. job'[m].pc = "attach" /\ job'[m].retries = job[m].retries BY <1>0, <3>5 DEF Job
      <4> QED  BY <2>1, <3>1, <3>5, <4>1 DEF RowsOfRuns
    <3>6. CASE job[m].pc = "queued" /\ job'[m] = [job[m] EXCEPT !.pc = "download", !.started = {}, !.mine = {}]
      <4>1. job'[m].pc = "download" /\ job'[m].retries = job[m].retries /\ job'[m].started = {}
        BY <1>0, <3>6 DEF Job
      <4> QED  BY <2>1, <3>1, <3>6, <4>1 DEF RowsOfRuns
    <3>7. ASSUME job[m].pc \in {"download", "attach", "returned"}, NEW p \in {"queued", "dead"},
                 job'[m] = [job[m] EXCEPT !.pc = p, !.retries = @ + 1]
          PROVE  RowsOfRuns(job[m], g)'
      <4>1. job'[m].pc = p /\ job'[m].retries = job[m].retries + 1 BY <1>0, <3>7 DEF Job
      <4>2. orphans[g] + attached[g] <= job[m].retries + 1 /\ orphans[g] >= 0
        BY <3>1, <3>7 DEF RowsOfRuns
      <4> QED  BY <2>1, <3>1, <4>1, <4>2 DEF RowsOfRuns
    <3> QED  BY <2>2, <3>2, <3>3, <3>4, <3>5, <3>6, <3>7
  <2> QED  BY <2>1, <2>3, <2>4
<1> QED  BY <1>3, <1>4, <1>5 DEF Import

LEMMA PollRowsOK == ASSUME IInv, RowsOK, NEW m \in Msg, Poll \/ PollerFails \/ PostWebhook(m) PROVE RowsOK'
<1>1. UNCHANGED fileVars
  BY DEF Poll, PollIgnored, PollDuplicate, PollEvent, PollDump, PollEnqueue, PollDelete, PollerFails, PostWebhook
<1>2. CASE PollEnqueue
  <2>1. Head(queue) \in Msg /\ job[Head(queue)].pc = "none" /\ job \in [Msg -> Job]
    BY <1>2, MsgAssumption DEF IInv, TypeOK, PollerOK, PollEnqueue
  <2>2. \A n \in Msg : \/ job'[n] = job[n]
                       \/ job[n].pc = "none" /\ job'[n] = [job[n] EXCEPT !.pc = "queued"]
    BY <1>2, <2>1 DEF PollEnqueue
  <2>3. ASSUME NEW n \in Msg PROVE (job[n].mine \subseteq Exported[n] /\ \A f \in Exported[n] : RowsOfRuns(job[n], f))'
    BY <1>1, <2>1, <2>2 DEF RowsOK, RowsOfRuns, fileVars, Job
  <2> QED  BY <2>3 DEF RowsOK
<1>3. CASE ~PollEnqueue
  BY <1>1, <1>3 DEF RowsOK, RowsOfRuns, fileVars, Poll, PollIgnored, PollDuplicate, PollEvent, PollDump, PollDelete,
                    PollerFails, PostWebhook
<1> QED  BY <1>2, <1>3

\* The rows follow the runs in every reachable state.
LEMMA RowsInvariant == Spec => [](IInv /\ RowsOK)
<1>1. IInv /\ RowsOK /\ [Next]_vars => RowsOK'
  <2> SUFFICES ASSUME IInv, RowsOK, [Next]_vars PROVE RowsOK'
    OBVIOUS
  <2>1. CASE UNCHANGED vars
    BY <2>1 DEF RowsOK, RowsOfRuns, vars, fileVars
  <2>2. CASE Msg = {}
    BY <2>2 DEF RowsOK
  <2>3. CASE Next /\ Msg # {}
    BY <2>3, ImportRowsOK, PollRowsOK DEF Next
  <2> QED  BY <2>1, <2>2, <2>3
<1> QED  BY <1>1, InitIInv, NextIInv, InitRowsOK, PTL DEF Spec

\* Every run attaches rows of its own, and a failed one leaves its own behind: a dump lists a
\* file no more often than its job ran (Import::Alma#perform).
THEOREM ListedOncePerRun == Spec => []RowsPerRun
<1>1. IInv /\ RowsOK => RowsPerRun
  <2> SUFFICES ASSUME IInv, RowsOK, NEW m \in Msg, NEW f \in Exported[m]
               PROVE  0 <= orphans[f] /\ orphans[f] + attached[f] <= job[m].retries + 1
    BY DEF RowsPerRun
  <2>1. f \in File /\ orphans[f] \in Int /\ attached[f] \in Nat /\ job[m] \in Job /\ job[m].retries \in Nat
    BY MsgAssumption DEF IInv, TypeOK, Job
  <2>2. RowsOfRuns(job[m], f)
    BY DEF RowsOK
  <2> QED  BY <2>1, <2>2 DEF RowsOfRuns, Job
<1> QED  BY <1>1, RowsInvariant, PTL

\* A copy that indexing can reach is emptied by a retry only: a first run has no row in its dump
\* until all its copies are whole (AlmaDownloader#transfer_file).
THEOREM OnlyRetriesEmpty == Spec => []PartialOnlyInRetry
<1>1. IInv /\ RowsOK => PartialOnlyInRetry
  <2> SUFFICES ASSUME IInv, RowsOK, NEW m \in Msg, NEW f \in Exported[m], attached[f] > 0, disk[f] # "whole"
               PROVE  job[m].retries > 0 /\ job[m].pc \in {"queued", "download", "dead"}
    BY DEF PartialOnlyInRetry
  <2>1. f \in File /\ orphans[f] \in Int /\ attached[f] \in Nat /\ job[m] \in Job /\ job[m].retries \in Nat
    BY MsgAssumption DEF IInv, TypeOK, Job
  <2>2. RowsOfRuns(job[m], f)
    BY DEF RowsOK
  <2>3. job[m].pc \in {"none", "queued", "download", "dead"}
    BY <2>1 DEF IInv, WaitedIsWhole, ReturnedIsComplete, DoneIsComplete, Job
  <2> QED  BY <2>1, <2>2, <2>3 DEF RowsOfRuns
<1> QED  BY <1>1, RowsInvariant, PTL
============================================================================
