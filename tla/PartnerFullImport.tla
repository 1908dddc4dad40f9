------------------------- MODULE PartnerFullImport -------------------------
(***************************************************************************)
(* The full import of the ReCAP partners' records: Import::Partner::Full   *)
(* opens an overall Sidekiq batch; for each institution a job validates    *)
(* the metadata csv, its success callback adds a job that downloads and    *)
(* unzips the big zip, and that job adds a batch with one job per xml      *)
(* file. When everything has succeeded the event is marked successful.     *)
(* app/jobs/import/partner/*.rb, app/models/scsb/partner_updates/full.rb.  *)
(*                                                                         *)
(* A task is a job or a callback, or the batch of xml jobs of a zip. The   *)
(* overall batch of a run is the set of its tasks. Entry k of a zip is k,  *)
(* a truncated copy of it -k, and 0 is no file.                            *)
(***************************************************************************)
EXTENDS Integers, FiniteSets

CONSTANTS
    Institution,
    Run,         \* performances of Import::Partner::Full
    Task,        \* identities for tasks
    Entries,     \* Entries[i]: number of files in the zip of i
    Good,        \* <<institution, version>> pairs with the expected group ids
    MaxExports,  \* bound on the exports that replace the first one on S3
    MaxKills     \* bound on the processes killed

ASSUME EntriesAssumption == Entries \in [Institution -> Nat \ {0}]
ASSUME BoundAssumption == MaxExports \in Nat /\ MaxKills \in Nat

VARIABLES
    latest,    \* version of the newest export of each institution on S3
    full,      \* the event of each run
    task,      \* the tasks
    metas,     \* metadata rows of the dumps: <<run, institution, version>>
    zips,      \* zips in the update directory
    xml,       \* xml files in the update directory
    out,       \* processed xml files in SCSB_FILE_DIR
    rows,      \* DumpFile rows of the dump of each run
    kills

disk == <<zips, xml, out>>
vars == <<latest, full, task, metas, disk, rows, kills>>

Version == 0..MaxExports
Zip == Institution \X Version

\* <<i, v, n>> stands for "#{file_prefix}#{filename}_#{n}.xml".
Number == UNION {1..Entries[i] : i \in Institution}
Target == UNION {{i} \X Version \X (1..Entries[i]) : i \in Institution}

Free == [kind |-> "free"]
StartTask == [kind : {"start"}, run : Run, step : {"queued", "pushed"}]
CsvTask == [kind : {"csv"}, run : Run, inst : Institution, ver : Version,
            step : {"queued", "attached", "validated", "pushed", "dead"}]
DownloadTask == [kind : {"download"}, run : Run, inst : Institution, ver : Version,
                 step : {"queued", "unzip", "extracting", "pushed"},
                 next : Nat, inc : Nat, xmls : SUBSET Number]
GroupTask == [kind : {"group"}, run : Run, inst : Institution, ver : Version,
              jobs : [Number -> {"none", "queued", "written", "attached", "done", "dead"}]]

Start(r) == [kind |-> "start", run |-> r, step |-> "queued"]
Csv(r, i) == [kind |-> "csv", run |-> r, inst |-> i, ver |-> 0, step |-> "queued"]
Download(r, i) == [kind |-> "download", run |-> r, inst |-> i, ver |-> 0, step |-> "queued",
                   next |-> 1, inc |-> 1, xmls |-> {}]
Group(r, i, v, ns) == [kind |-> "group", run |-> r, inst |-> i, ver |-> v,
                       jobs |-> [n \in Number |-> IF n \in ns THEN "queued" ELSE "none"]]

Is(t, kind, step) == task[t].kind = kind /\ task[t].step = step
FreeTasks == {t \in Task : task[t] = Free}
Open(r) == {t \in Task : task[t] # Free /\ task[t].run = r}
Name(t, n) == <<task[t].inst, task[t].ver, n>>

---------------------------------------------------------------------------
(* SCSB and Import::Partner::Full. *)

NewExport(i) ==
    /\ latest[i] < MaxExports
    /\ latest' = [latest EXCEPT ![i] = @ + 1]
    /\ UNCHANGED <<full, task, metas, disk, rows, kills>>

\* Full#perform: delete_stale_files, then the event and its dump.
CreateDump(r) ==
    /\ full[r] = "none"
    /\ zips' = {} /\ xml' = [f \in Target |-> 0]
    /\ full' = [full EXCEPT ![r] = "created"]
    /\ UNCHANGED <<latest, task, metas, out, rows, kills>>

OpenOverall(r) ==
    /\ full[r] = "created"
    /\ \E t \in FreeTasks : task' = [task EXCEPT ![t] = Start(r)]
    /\ full' = [full EXCEPT ![r] = "open"]
    /\ UNCHANGED <<latest, metas, disk, rows, kills>>

\* StartWorkflowJob: a batch with a ValidateCsvJob for each institution.
StartWorkflow(t) ==
    /\ Is(t, "start", "queued")
    /\ \E new \in [Institution -> FreeTasks] :
        /\ \A i, j \in Institution : i # j => new[i] # new[j]
        /\ task' = [u \in Task |->
               IF u = t THEN [task[t] EXCEPT !.step = "pushed"]
               ELSE IF \E i \in Institution : new[i] = u
               THEN Csv(task[t].run, CHOOSE i \in Institution : new[i] = u)
               ELSE task[u]]
    /\ UNCHANGED <<latest, full, metas, disk, rows, kills>>

\* A job or callback that has pushed its jobs is acknowledged.
Ack(t) ==
    /\ task[t].kind \in {"start", "csv", "download"} /\ task[t].step = "pushed"
    /\ task' = [task EXCEPT ![t] = Free]
    /\ UNCHANGED <<latest, full, metas, disk, rows, kills>>

---------------------------------------------------------------------------
(* ValidateCsvJob and its success callback. *)

\* The newest csv is downloaded, moved, attached to the dump and unlinked.
AttachCsv(t) ==
    /\ Is(t, "csv", "queued")
    /\ LET i == task[t].inst IN
        /\ task' = [task EXCEPT ![t].step = "attached", ![t].ver = latest[i]]
        /\ metas' = metas \cup {<<task[t].run, i, latest[i]>>}
    /\ UNCHANGED <<latest, full, disk, rows, kills>>

GoodCsv(t) == <<task[t].inst, task[t].ver>> \in Good

\* Mutant: the group ids are not looked at.
AnyCsvMatches(t) ==
    /\ Is(t, "csv", "attached")
    /\ task' = [task EXCEPT ![t].step = "validated"]
    /\ UNCHANGED <<latest, full, metas, disk, rows, kills>>

\* Mutant: a csv with the expected group ids raises too.
EveryCsvRaises(t) ==
    /\ Is(t, "csv", "attached")
    /\ \E step \in {"queued", "dead"} : task' = [task EXCEPT ![t].step = step]
    /\ UNCHANGED <<latest, full, metas, disk, rows, kills>>

CsvMatches(t) ==
    /\ Is(t, "csv", "attached") /\ GoodCsv(t)
    /\ task' = [task EXCEPT ![t].step = "validated"]
    /\ UNCHANGED <<latest, full, metas, disk, rows, kills>>

\* The job raises: Sidekiq retries it, or has retried it enough.
CsvRaises(t) ==
    /\ Is(t, "csv", "attached") /\ ~GoodCsv(t)
    /\ \E step \in {"queued", "dead"} : task' = [task EXCEPT ![t].step = step]
    /\ UNCHANGED <<latest, full, metas, disk, rows, kills>>

\* FullCallbacks#validate_csv_success adds the download to the overall batch.
CsvSuccess(t) ==
    /\ Is(t, "csv", "validated")
    /\ \E u \in FreeTasks :
        task' = [task EXCEPT ![t].step = "pushed", ![u] = Download(task[t].run, task[t].inst)]
    /\ UNCHANGED <<latest, full, metas, disk, rows, kills>>

---------------------------------------------------------------------------
(* DownloadFullFileJob. *)

\* The newest zip is downloaded and opened.
DownloadZip(t) ==
    /\ Is(t, "download", "queued")
    /\ LET i == task[t].inst IN
        /\ task' = [task EXCEPT ![t].step = "unzip", ![t].ver = latest[i],
                                ![t].next = 1, ![t].inc = 1, ![t].xmls = {}]
        /\ zips' = zips \cup {<<i, latest[i]>>}
    /\ UNCHANGED <<latest, full, metas, xml, out, rows, kills>>

\* entry.extract opens the target, which must not exist, and writes the entry to it.
ExtractEntry(t) ==
    /\ Is(t, "download", "unzip") /\ task[t].next <= Entries[task[t].inst]
    /\ xml[Name(t, task[t].inc)] = 0
    /\ xml' = [xml EXCEPT ![Name(t, task[t].inc)] = -task[t].next]
    /\ task' = [task EXCEPT ![t].step = "extracting", ![t].xmls = @ \cup {task[t].inc}]
    /\ UNCHANGED <<latest, full, metas, zips, out, rows, kills>>

\* Mutant: file_increment += 1 is missing.
ExtractedSameName(t) ==
    /\ Is(t, "download", "extracting")
    /\ xml' = [xml EXCEPT ![Name(t, task[t].inc)] = task[t].next]
    /\ task' = [task EXCEPT ![t].step = "unzip", ![t].next = @ + 1]
    /\ UNCHANGED <<latest, full, metas, zips, out, rows, kills>>

Extracted(t) ==
    /\ Is(t, "download", "extracting")
    /\ xml' = [xml EXCEPT ![Name(t, task[t].inc)] = task[t].next]
    /\ task' = [task EXCEPT ![t].step = "unzip", ![t].next = @ + 1, ![t].inc = @ + 1]
    /\ UNCHANGED <<latest, full, metas, zips, out, rows, kills>>

\* DestinationExistsError is rescued, and file_increment += 1 is skipped.
EntryExists(t) ==
    /\ Is(t, "download", "unzip") /\ task[t].next <= Entries[task[t].inst]
    /\ xml[Name(t, task[t].inc)] # 0
    /\ task' = [task EXCEPT ![t].next = @ + 1, ![t].xmls = @ \cup {task[t].inc}]
    /\ UNCHANGED <<latest, full, metas, disk, rows, kills>>

\* A batch with a ProcessXmlFileJob for each name.
PushXmlJobs(t) ==
    /\ Is(t, "download", "unzip") /\ task[t].next > Entries[task[t].inst]
    /\ \E u \in FreeTasks :
        task' = [task EXCEPT ![t].step = "pushed",
                             ![u] = Group(task[t].run, task[t].inst, task[t].ver, task[t].xmls)]
    /\ UNCHANGED <<latest, full, metas, disk, rows, kills>>

---------------------------------------------------------------------------
(* ProcessXmlFileJob for file n of the group t. *)

InGroup(t, n, state) ==
    task[t].kind = "group" /\ task[t].jobs[n] = state

\* The records are processed into a file of the same name, up to where the reader stops.
WriteXml(t, n) ==
    /\ InGroup(t, n, "queued") /\ xml[Name(t, n)] # 0
    /\ out' = [out EXCEPT ![Name(t, n)] = xml[Name(t, n)]]
    /\ task' = [task EXCEPT ![t].jobs[n] = "written"]
    /\ UNCHANGED <<latest, full, metas, zips, xml, rows, kills>>

\* The xml file is gone: every retry raises.
XmlJobDies(t, n) ==
    /\ InGroup(t, n, "queued") /\ xml[Name(t, n)] = 0
    /\ task' = [task EXCEPT ![t].jobs[n] = "dead"]
    /\ UNCHANGED <<latest, full, metas, disk, rows, kills>>

\* Dump.attach_dump_file.
AttachXml(t, n) ==
    /\ InGroup(t, n, "written")
    /\ rows' = [rows EXCEPT ![task[t].run][Name(t, n)] = @ + 1]
    /\ task' = [task EXCEPT ![t].jobs[n] = "attached"]
    /\ UNCHANGED <<latest, full, metas, disk, kills>>

UnlinkXml(t, n) ==
    /\ InGroup(t, n, "attached")
    /\ xml' = [xml EXCEPT ![Name(t, n)] = 0]
    /\ task' = [task EXCEPT ![t].jobs[n] = "done"]
    /\ UNCHANGED <<latest, full, metas, zips, out, rows, kills>>

\* Mutant: the zip stays.
GroupSuccessKeepsZip(t) ==
    /\ task[t].kind = "group" /\ \A n \in Number : task[t].jobs[n] \in {"none", "done"}
    /\ task' = [task EXCEPT ![t] = Free]
    /\ UNCHANGED <<latest, full, metas, disk, rows, kills>>

\* FullCallbacks#process_xml_file_success.
GroupSuccess(t) ==
    /\ task[t].kind = "group" /\ \A n \in Number : task[t].jobs[n] \in {"none", "done"}
    /\ zips' = zips \ {<<task[t].inst, task[t].ver>>}
    /\ task' = [task EXCEPT ![t] = Free]
    /\ UNCHANGED <<latest, full, metas, xml, out, rows, kills>>

\* FullCallbacks#overall_success.
OverallSuccess(r) ==
    /\ full[r] = "open" /\ Open(r) = {}
    /\ full' = [full EXCEPT ![r] = "success"]
    /\ UNCHANGED <<latest, task, metas, disk, rows, kills>>

---------------------------------------------------------------------------
(* super_fetch puts the job or callback of a killed process back on its    *)
(* queue; Full runs again with another event.                              *)

KillTask(t) ==
    /\ kills < MaxKills /\ kills' = kills + 1
    /\ \/ /\ task[t].kind \in {"start", "download"} /\ task[t].step # "queued"
          /\ task' = [task EXCEPT ![t].step = "queued"]
       \/ /\ Is(t, "csv", "attached")
          /\ task' = [task EXCEPT ![t].step = "queued"]
       \/ /\ Is(t, "csv", "pushed")
          /\ task' = [task EXCEPT ![t].step = "validated"]
       \/ \E n \in Number :
            /\ InGroup(t, n, "written") \/ InGroup(t, n, "attached")
            /\ task' = [task EXCEPT ![t].jobs[n] = "queued"]
    /\ UNCHANGED <<latest, full, metas, disk, rows>>

KillFull(r) ==
    /\ kills < MaxKills /\ kills' = kills + 1
    /\ full[r] = "created"
    /\ full' = [full EXCEPT ![r] = "abandoned"]
    /\ UNCHANGED <<latest, task, metas, disk, rows>>

---------------------------------------------------------------------------
Init ==
    /\ latest = [i \in Institution |-> 0]
    /\ full = [r \in Run |-> "none"]
    /\ task = [t \in Task |-> Free]
    /\ metas = {} /\ zips = {}
    /\ xml = [f \in Target |-> 0] /\ out = [f \in Target |-> 0]
    /\ rows = [r \in Run |-> [f \in Target |-> 0]]
    /\ kills = 0

XmlJob(t) ==
    \E n \in Number :
        WriteXml(t, n) \/ XmlJobDies(t, n) \/ AttachXml(t, n) \/ UnlinkXml(t, n)

RunTask(t) ==
    \/ StartWorkflow(t) \/ Ack(t)
    \/ AttachCsv(t) \/ CsvMatches(t) \/ CsvRaises(t) \/ CsvSuccess(t)
    \/ DownloadZip(t) \/ ExtractEntry(t) \/ Extracted(t) \/ EntryExists(t) \/ PushXmlJobs(t)
    \/ XmlJob(t) \/ GroupSuccess(t)

Next ==
    \/ \E i \in Institution : NewExport(i)
    \/ \E r \in Run : CreateDump(r) \/ OpenOverall(r) \/ OverallSuccess(r) \/ KillFull(r)
    \/ \E t \in Task : RunTask(t) \/ KillTask(t)

Spec == Init /\ [][Next]_vars

\* Sidekiq keeps taking jobs and callbacks; a task slot stands for any of them.
FairSpec == Spec /\ \A r \in Run : WF_vars(OpenOverall(r) \/ OverallSuccess(r))
                 /\ \A t \in Task : WF_vars(RunTask(t))

---------------------------------------------------------------------------
(* Properties. *)

\* Types of the events, the tasks and the files; an unzip is never ahead of its zip.
TypeOK ==
    /\ latest \in [Institution -> Version]
    /\ full \in [Run -> {"none", "created", "open", "abandoned", "success"}]
    /\ task \in [Task -> {Free} \cup StartTask \cup CsvTask \cup DownloadTask \cup GroupTask]
    /\ metas \subseteq Run \X Institution \X Version
    /\ zips \subseteq Zip
    /\ xml \in [Target -> Int] /\ out \in [Target -> Int]
    /\ rows \in [Run -> [Target -> Nat]]
    /\ kills \in 0..MaxKills
    /\ \A t \in Task : task[t].kind = "download" =>
           /\ 1 <= task[t].inc /\ task[t].inc <= task[t].next
           /\ task[t].next <= Entries[task[t].inst] + 1
           /\ task[t].step = "extracting" => task[t].next <= Entries[task[t].inst]

\* No file of an institution is attached to a dump unless that dump also has a metadata
\* csv of the institution with the expected group ids, whatever is killed or run twice
\* (ValidateCsvJob before DownloadFullFileJob).
ValidatedFirst ==
    \A r \in Run : \A f \in Target : rows[r][f] > 0 =>
        \E v \in Version : <<r, f[1], v>> \in metas /\ <<f[1], v>> \in Good

\* A successful event has, for each institution, every entry of some export of it in a
\* file of its dump (docs/scsb/dump_files.md: the event is marked successful once all of
\* the unzipped files are processed).
SuccessIsComplete ==
    \A r \in Run : full[r] = "success" =>
        \A i \in Institution : \E v \in Version : \A e \in 1..Entries[i] :
            \E n \in 1..Entries[i] : rows[r][<<i, v, n>>] > 0 /\ out[<<i, v, n>>] = e

\* A successful event leaves no zip and no xml file in the update directory, which the
\* next run would trip over (process_xml_file_success, ProcessXmlFileJob).
SuccessIsTidy ==
    (\E r \in Run : full[r] = "success") => zips = {} /\ \A f \in Target : xml[f] = 0

\* With good csvs and no kill, a run that opened its batch ends in success.
EventuallySucceeds ==
    \A r \in Run : full[r] = "open" ~> full[r] = "success"
============================================================================
