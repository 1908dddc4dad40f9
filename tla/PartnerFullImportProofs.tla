---------------------- MODULE PartnerFullImportProofs ----------------------
(***************************************************************************)
(* For every set of institutions, runs and exports, however often a        *)
(* process is killed and however runs overlap: the types, and that no file *)
(* is attached before a metadata csv of its institution has passed.  For a *)
(* lone run that nothing kills, ProgressInv says what the task that has an *)
(* institution in hand has done, so that a run that succeeds is complete   *)
(* and leaves the update directory empty.                                  *)
(***************************************************************************)
EXTENDS PartnerFullImport, TLAPS

AnyTask == {Free} \cup StartTask \cup CsvTask \cup DownloadTask \cup GroupTask

\* An unzip is never ahead of its zip.
Behind(tk) == tk.kind = "download" =>
    /\ 1 <= tk.inc /\ tk.inc <= tk.next
    /\ tk.next <= Entries[tk.inst] + 1
    /\ tk.step = "extracting" => tk.next <= Entries[tk.inst]

TasksOK == task \in [Task -> AnyTask] /\ \A t \in Task : Behind(task[t])

OthersOK ==
    /\ latest \in [Institution -> Version]
    /\ full \in [Run -> {"none", "created", "open", "abandoned", "success"}]
    /\ metas \subseteq Run \X Institution \X Version
    /\ zips \subseteq Zip
    /\ xml \in [Target -> Int] /\ out \in [Target -> Int]
    /\ rows \in [Run -> [Target -> Nat]]
    /\ kills \in 0..MaxKills

\* One of the metadata rows ms is of a csv of i for r with the expected group ids.
HasGood(r, i, ms) == \E v \in Version : <<r, i, v>> \in ms /\ <<i, v>> \in Good

\* A csv job past its attachment has a row; whatever comes after it has a good one.
Valid(tk, ms) ==
    /\ tk.kind = "csv" /\ tk.step = "attached" => <<tk.run, tk.inst, tk.ver>> \in ms
    /\ tk.kind = "csv" /\ tk.step \in {"validated", "pushed"} => HasGood(tk.run, tk.inst, ms)
    /\ tk.kind \in {"download", "group"} => HasGood(tk.run, tk.inst, ms)

TasksValid == \A t \in Task : Valid(task[t], metas)

IInv == TasksOK /\ OthersOK /\ TasksValid /\ ValidatedFirst

---------------------------------------------------------------------------
LEMMA TypeParts == TypeOK <=> TasksOK /\ OthersOK
BY DEF TypeOK, TasksOK, OthersOK, AnyTask, Behind

LEMMA Numbers == ASSUME NEW i \in Institution
                 PROVE  Entries[i] \in Nat /\ Entries[i] >= 1 /\ 1..Entries[i] \subseteq Number
BY EntriesAssumption DEF Number

\* A task of a kind has the fields of that kind.
LEMMA Kinds == ASSUME NEW tk \in AnyTask
               PROVE  /\ tk.kind = "start" => tk \in StartTask
                      /\ tk.kind = "csv" => tk \in CsvTask
                      /\ tk.kind = "download" => tk \in DownloadTask
                      /\ tk.kind = "group" => tk \in GroupTask
BY DEF AnyTask, Free, StartTask, CsvTask, DownloadTask, GroupTask

\* Rows are never taken away from a dump, so a task that was valid stays valid.
LEMMA StillValid == ASSUME NEW ms, NEW more, ms \subseteq more, NEW tk, Valid(tk, ms)
                    PROVE  Valid(tk, more)
BY DEF Valid, HasGood

LEMMA FirstKept == ASSUME ValidatedFirst, metas \subseteq metas', UNCHANGED rows
                   PROVE  ValidatedFirst'
BY DEF ValidatedFirst

\* Putting a file at any place keeps the table of files typed, and so for one more row.
LEMMA PutFile == ASSUME NEW h \in [Target -> Int], NEW f, NEW x \in Int
                 PROVE  [h EXCEPT ![f] = x] \in [Target -> Int]
<1>1. CASE f \in Target
  BY <1>1
<1>2. CASE f \notin Target
  BY <1>2
<1> QED  BY <1>1, <1>2

LEMMA PutRow == ASSUME NEW h \in [Run -> [Target -> Nat]], NEW r \in Run, NEW f \in Target
                PROVE  [h EXCEPT ![r][f] = @ + 1] \in [Run -> [Target -> Nat]]
<1>1. h[r] \in [Target -> Nat] /\ h[r][f] + 1 \in Nat
  OBVIOUS
<1>2. [h[r] EXCEPT ![f] = @ + 1] \in [Target -> Nat]
  BY <1>1
<1> QED  BY <1>2

\* Giving one task a new value.
LEMMA OneTask ==
    ASSUME IInv, NEW t \in Task, NEW w \in AnyTask, task' = [task EXCEPT ![t] = w],
           Behind(w), Valid(w, metas'), metas \subseteq metas', OthersOK', ValidatedFirst'
    PROVE  IInv'
<1>1. \A u \in Task : task'[u] = IF u = t THEN w ELSE task[u]
  BY DEF IInv, TasksOK
<1>2. TasksOK'
  BY <1>1 DEF IInv, TasksOK, Behind
<1>3. TasksValid'
  BY <1>1, StillValid DEF IInv, TasksValid
<1> QED  BY <1>2, <1>3 DEF IInv

\* Giving one task a new value and starting another.
LEMMA TwoTasks ==
    ASSUME IInv, NEW t \in Task, NEW w \in AnyTask, NEW u \in Task, NEW x \in AnyTask, t # u,
           task' = [task EXCEPT ![t] = w, ![u] = x],
           Behind(w), Behind(x), Valid(w, metas), Valid(x, metas),
           UNCHANGED <<latest, full, metas, disk, rows, kills>>
    PROVE  IInv'
<1>1. \A y \in Task : task'[y] = IF y = u THEN x ELSE IF y = t THEN w ELSE task[y]
  BY DEF IInv, TasksOK
<1>2. task' \in [Task -> AnyTask]
  BY DEF IInv, TasksOK
<1>3. TasksOK'
  BY <1>1, <1>2 DEF IInv, TasksOK, Behind
<1>4. TasksValid'
  BY <1>1, StillValid DEF IInv, TasksValid
<1>5. OthersOK' /\ ValidatedFirst'
  BY FirstKept DEF IInv, OthersOK, disk
<1> QED  BY <1>3, <1>4, <1>5 DEF IInv

---------------------------------------------------------------------------
LEMMA InitIInv == Init => IInv
<1> SUFFICES ASSUME Init PROVE IInv
  OBVIOUS
<1>1. \A t \in Task : task[t] = Free
  BY DEF Init
<1>2. TasksOK
  BY <1>1 DEF Init, TasksOK, AnyTask, Behind, Free
<1>3. OthersOK
  BY BoundAssumption DEF Init, OthersOK, Version
<1>4. TasksValid
  BY <1>1 DEF TasksValid, Valid, Free
<1>5. ValidatedFirst
  BY DEF Init, ValidatedFirst
<1> QED  BY <1>2, <1>3, <1>4, <1>5 DEF IInv

\* S3 and the event rows.
LEMMA EventIInv ==
    ASSUME IInv,
           \/ \E i \in Institution : NewExport(i)
           \/ \E r \in Run : CreateDump(r) \/ OverallSuccess(r) \/ KillFull(r)
    PROVE  IInv'
<1> USE DEF disk
<1>0. UNCHANGED <<task, metas, rows>>
  BY DEF NewExport, CreateDump, OverallSuccess, KillFull
<1>1. TasksOK' /\ TasksValid' /\ ValidatedFirst'
  <2>1. TasksOK'
    BY <1>0 DEF IInv, TasksOK, Behind
  <2>2. TasksValid'
    BY <1>0 DEF IInv, TasksValid, Valid, HasGood
  <2> QED  BY <1>0, <2>1, <2>2, FirstKept DEF IInv
<1>2. OthersOK'
  <2>1. ASSUME NEW i \in Institution, NewExport(i) PROVE OthersOK'
    <3>1. latest[i] + 1 \in Version
      BY <2>1, BoundAssumption DEF IInv, OthersOK, NewExport, Version
    <3> QED  BY <2>1, <3>1 DEF IInv, OthersOK, NewExport
  <2>2. ASSUME NEW r \in Run, CreateDump(r) PROVE OthersOK'
    BY <2>2 DEF IInv, OthersOK, CreateDump
  <2>3. ASSUME NEW r \in Run, OverallSuccess(r) PROVE OthersOK'
    BY <2>3 DEF IInv, OthersOK, OverallSuccess
  <2>4. ASSUME NEW r \in Run, KillFull(r) PROVE OthersOK'
    <3>1. kills' \in 0..MaxKills
      BY <2>4, BoundAssumption DEF IInv, OthersOK, KillFull
    <3> QED  BY <2>4, <3>1 DEF IInv, OthersOK, KillFull
  <2> QED  BY <2>1, <2>2, <2>3, <2>4
<1> QED  BY <1>1, <1>2 DEF IInv

LEMMA OpenOverallIInv == ASSUME IInv, NEW r \in Run, OpenOverall(r) PROVE IInv'
<1> USE DEF disk
<1>1. PICK t \in FreeTasks : task' = [task EXCEPT ![t] = Start(r)]
  BY DEF OpenOverall
<1>2. Start(r) \in AnyTask /\ Behind(Start(r)) /\ Valid(Start(r), metas')
  BY DEF Start, AnyTask, StartTask, Behind, Valid
<1>3. OthersOK' /\ metas \subseteq metas' /\ ValidatedFirst'
  BY FirstKept DEF IInv, OthersOK, OpenOverall
<1> QED  BY <1>1, <1>2, <1>3, OneTask DEF FreeTasks

LEMMA StartWorkflowIInv == ASSUME IInv, NEW t \in Task, StartWorkflow(t) PROVE IInv'
<1> USE DEF disk
<1>0. UNCHANGED <<latest, full, metas, disk, rows, kills>>
  BY DEF StartWorkflow
<1>1. task[t] \in StartTask
  BY Kinds DEF IInv, TasksOK, StartWorkflow, Is
<1>2. ASSUME NEW u \in Task
      PROVE  \/ task'[u] = task[u]
             \/ task'[u] \in StartTask
             \/ \E i \in Institution : task'[u] = Csv(task[t].run, i)
  <2>1. PICK new \in [Institution -> FreeTasks] :
            task' = [x \in Task |->
               IF x = t THEN [task[t] EXCEPT !.step = "pushed"]
               ELSE IF \E i \in Institution : new[i] = x
               THEN Csv(task[t].run, CHOOSE i \in Institution : new[i] = x)
               ELSE task[x]]
    BY DEF StartWorkflow
  <2>2. [task[t] EXCEPT !.step = "pushed"] \in StartTask
    BY <1>1 DEF StartTask
  <2> QED  BY <2>1, <2>2
<1>3. \A i \in Institution : /\ Csv(task[t].run, i) \in CsvTask
                             /\ Behind(Csv(task[t].run, i)) /\ Valid(Csv(task[t].run, i), metas')
  BY <1>1, BoundAssumption DEF Csv, CsvTask, StartTask, Version, Behind, Valid
<1>4. \A x \in StartTask : Behind(x) /\ Valid(x, metas')
  BY DEF StartTask, Behind, Valid
<1>5. \A u \in Task : task'[u] \in AnyTask /\ Behind(task'[u])
  BY <1>2, <1>3, <1>4 DEF IInv, TasksOK, AnyTask
<1>6. task' = [u \in Task |-> task'[u]]
  BY DEF StartWorkflow
<1>7. TasksOK'
  BY <1>5, <1>6 DEF TasksOK, Behind
<1>8. TasksValid'
  BY <1>0, <1>2, <1>3, <1>4, StillValid DEF IInv, TasksValid
<1> QED  BY <1>0, <1>7, <1>8, FirstKept DEF IInv, OthersOK

LEMMA AckIInv == ASSUME IInv, NEW t \in Task, Ack(t) \/ GroupSuccess(t) PROVE IInv'
<1> USE DEF disk
<1>1. Free \in AnyTask /\ Behind(Free) /\ Valid(Free, metas')
  BY DEF Free, AnyTask, Behind, Valid
<1>2. OthersOK' /\ metas \subseteq metas' /\ ValidatedFirst'
  BY FirstKept DEF IInv, OthersOK, Ack, GroupSuccess
<1>3. task' = [task EXCEPT ![t] = Free]
  BY DEF Ack, GroupSuccess
<1> QED  BY <1>1, <1>2, <1>3, OneTask

LEMMA CsvIInv ==
    ASSUME IInv, NEW t \in Task, AttachCsv(t) \/ CsvMatches(t) \/ CsvRaises(t)
    PROVE  IInv'
<1> USE DEF disk
<1>0. task[t] \in CsvTask /\ OthersOK
  BY Kinds DEF IInv, TasksOK, AttachCsv, CsvMatches, CsvRaises, Is
<1>1. CASE AttachCsv(t)
  <2> DEFINE w == [task[t] EXCEPT !.step = "attached", !.ver = latest[task[t].inst]]
  <2>1. w \in CsvTask /\ w.step = "attached" /\ w.kind = "csv" /\ w.run = task[t].run
        /\ w.inst = task[t].inst /\ w.ver = latest[task[t].inst]
    BY <1>0 DEF CsvTask, OthersOK
  <2>2. metas' = metas \cup {<<w.run, w.inst, w.ver>>}
    BY <1>1, <2>1 DEF AttachCsv
  <2>3. Valid(w, metas') /\ Behind(w) /\ w \in AnyTask
    BY <2>1, <2>2 DEF Valid, Behind, AnyTask
  <2>4. <<w.run, w.inst, w.ver>> \in Run \X Institution \X Version
    BY <2>1 DEF CsvTask
  <2>5. OthersOK' /\ ValidatedFirst'
    BY <1>0, <1>1, <2>2, <2>4, FirstKept DEF IInv, OthersOK, AttachCsv
  <2>6. task' = [task EXCEPT ![t] = w]
    BY <1>1 DEF AttachCsv
  <2> QED  BY <2>2, <2>3, <2>5, <2>6, OneTask
<1>2. CASE CsvMatches(t)
  <2> DEFINE w == [task[t] EXCEPT !.step = "validated"]
  <2>1. w \in CsvTask /\ w.step = "validated" /\ w.kind = "csv" /\ w.run = task[t].run
        /\ w.inst = task[t].inst
    BY <1>0 DEF CsvTask
  <2>2. HasGood(w.run, w.inst, metas)
    <3>1. Valid(task[t], metas)
      BY DEF IInv, TasksValid
    <3>2. <<task[t].run, task[t].inst, task[t].ver>> \in metas
      BY <1>2, <3>1 DEF Valid, CsvMatches, Is
    <3> QED  BY <1>0, <1>2, <2>1, <3>2 DEF HasGood, CsvMatches, GoodCsv, CsvTask
  <2>3. OthersOK' /\ metas \subseteq metas' /\ ValidatedFirst'
    BY <1>0, <1>2, FirstKept DEF IInv, OthersOK, CsvMatches
  <2>4. Valid(w, metas) /\ Behind(w) /\ w \in AnyTask
    BY <2>1, <2>2 DEF Valid, Behind, AnyTask
  <2>5. Valid(w, metas')
    BY <2>3, <2>4, StillValid
  <2>6. task' = [task EXCEPT ![t] = w]
    BY <1>2 DEF CsvMatches
  <2> QED  BY <2>3, <2>4, <2>5, <2>6, OneTask
<1>3. CASE CsvRaises(t)
  <2>1. PICK s \in {"queued", "dead"} : task' = [task EXCEPT ![t].step = s]
    BY <1>3 DEF CsvRaises
  <2> DEFINE w == [task[t] EXCEPT !.step = s]
  <2>2. w \in CsvTask /\ w.step = s
    BY <1>0 DEF CsvTask
  <2>3. OthersOK' /\ metas \subseteq metas' /\ ValidatedFirst'
    BY <1>0, <1>3, FirstKept DEF IInv, OthersOK, CsvRaises
  <2>4. Valid(w, metas') /\ Behind(w) /\ w \in AnyTask
    BY <2>2 DEF Valid, Behind, AnyTask, CsvTask
  <2> QED  BY <2>1, <2>3, <2>4, OneTask
<1> QED  BY <1>1, <1>2, <1>3

LEMMA CsvSuccessIInv == ASSUME IInv, NEW t \in Task, CsvSuccess(t) PROVE IInv'
<1>1. PICK u \in FreeTasks :
        task' = [task EXCEPT ![t].step = "pushed", ![u] = Download(task[t].run, task[t].inst)]
  BY DEF CsvSuccess
<1> DEFINE w == [task[t] EXCEPT !.step = "pushed"]
           x == Download(task[t].run, task[t].inst)
<1>2. task[t] \in CsvTask /\ task[t].step = "validated"
  BY Kinds DEF IInv, TasksOK, CsvSuccess, Is
<1>3. t # u /\ u \in Task
  BY <1>2 DEF FreeTasks, Free, CsvTask
<1>4. HasGood(task[t].run, task[t].inst, metas)
  BY <1>2 DEF IInv, TasksValid, Valid, CsvTask
<1>5. w \in AnyTask /\ Behind(w) /\ Valid(w, metas)
  BY <1>2, <1>4 DEF AnyTask, CsvTask, Behind, Valid
<1>6. task[t].run \in Run /\ task[t].inst \in Institution
  BY <1>2 DEF CsvTask
<1>7. x \in AnyTask /\ Valid(x, metas)
  BY <1>4, <1>6, BoundAssumption DEF AnyTask, DownloadTask, Valid, Download, Version
<1>8. Behind(x)
  BY <1>6, Numbers DEF Behind, Download
<1>9. UNCHANGED <<latest, full, metas, disk, rows, kills>>
  BY DEF CsvSuccess
<1>10. task' = [task EXCEPT ![t] = w, ![u] = x]
  BY <1>1
<1> HIDE DEF w, x
<1> QED  BY <1>3, <1>5, <1>7, <1>8, <1>9, <1>10, TwoTasks

LEMMA PushXmlJobsIInv == ASSUME IInv, NEW t \in Task, PushXmlJobs(t) PROVE IInv'
<1> DEFINE w == [task[t] EXCEPT !.step = "pushed"]
           x == Group(task[t].run, task[t].inst, task[t].ver, task[t].xmls)
<1>1. PICK u \in FreeTasks : task' = [task EXCEPT ![t] = w, ![u] = x]
  BY DEF PushXmlJobs
<1>2. task[t] \in DownloadTask
  BY Kinds DEF IInv, TasksOK, PushXmlJobs, Is
<1>3. t # u /\ u \in Task
  BY <1>2 DEF FreeTasks, Free, DownloadTask
<1>4. HasGood(task[t].run, task[t].inst, metas) /\ Behind(task[t])
  BY <1>2 DEF IInv, TasksValid, TasksOK, Valid, DownloadTask
<1>5. w \in AnyTask /\ Valid(w, metas)
  BY <1>2, <1>4 DEF AnyTask, DownloadTask, Valid
<1>6. Behind(w)
  BY <1>2, <1>4 DEF Behind, DownloadTask
<1>7. x \in AnyTask /\ Behind(x) /\ Valid(x, metas)
  BY <1>2, <1>4 DEF AnyTask, DownloadTask, GroupTask, Group, Behind, Valid
<1>8. UNCHANGED <<latest, full, metas, disk, rows, kills>>
  BY DEF PushXmlJobs
<1> HIDE DEF w, x
<1> QED  BY <1>1, <1>3, <1>5, <1>6, <1>7, <1>8, TwoTasks

\* A download stays valid and typed while its fields advance.
LEMMA DownloadAdvances ==
    ASSUME NEW d \in DownloadTask, NEW w \in DownloadTask, Valid(d, metas),
           w.run = d.run, w.inst = d.inst
    PROVE  w \in AnyTask /\ Valid(w, metas)
BY DEF DownloadTask, Valid, AnyTask

LEMMA DownloadIInv ==
    ASSUME IInv, NEW t \in Task,
           DownloadZip(t) \/ ExtractEntry(t) \/ Extracted(t) \/ EntryExists(t)
    PROVE  IInv'
<1> USE DEF disk
<1> DEFINE d == task[t]
<1>1. d \in DownloadTask
  BY Kinds DEF IInv, TasksOK, DownloadZip, ExtractEntry, Extracted, EntryExists, Is
<1>2. Valid(d, metas) /\ Behind(d) /\ OthersOK
  BY DEF IInv, TasksValid, TasksOK
<1>3. metas \subseteq metas' /\ ValidatedFirst' /\ metas' = metas
  BY FirstKept DEF IInv, DownloadZip, ExtractEntry, Extracted, EntryExists
<1>4. d.inst \in Institution /\ Entries[d.inst] \in Nat /\ 1..Entries[d.inst] \subseteq Number
      /\ d.inc \in Nat /\ d.next \in Nat
  BY <1>1, Numbers DEF DownloadTask
<1>5. 1 <= d.inc /\ d.inc <= d.next /\ d.next <= Entries[d.inst] + 1
      /\ (d.step = "extracting" => d.next <= Entries[d.inst])
  BY <1>1, <1>2 DEF Behind, DownloadTask
<1>6. CASE DownloadZip(t)
  <2> DEFINE w == [d EXCEPT !.step = "unzip", !.ver = latest[d.inst],
                            !.next = 1, !.inc = 1, !.xmls = {}]
  <2>1. latest[d.inst] \in Version
    BY <1>2, <1>4 DEF OthersOK
  <2>2. w \in DownloadTask /\ w.run = d.run /\ w.inst = d.inst /\ Behind(w)
    <3>1. w \in DownloadTask /\ w.run = d.run /\ w.inst = d.inst
          /\ w.next = 1 /\ w.inc = 1 /\ w.step = "unzip"
      BY <1>1, <2>1 DEF DownloadTask
    <3>2. Entries[d.inst] >= 1
      BY <1>4, Numbers
    <3> QED  BY <1>4, <3>1, <3>2 DEF Behind
  <2>3. OthersOK'
    <3>1. zips' \subseteq Zip
      BY <1>2, <1>4, <1>6, <2>1 DEF OthersOK, Zip, DownloadZip
    <3> QED  BY <1>2, <1>6, <3>1 DEF OthersOK, DownloadZip
  <2>4. task' = [task EXCEPT ![t] = w]
    BY <1>6 DEF DownloadZip
  <2> HIDE DEF w, d
  <2> QED  BY <1>1, <1>2, <1>3, <2>2, <2>3, <2>4, DownloadAdvances, OneTask
<1>7. CASE ExtractEntry(t)
  <2> DEFINE w == [d EXCEPT !.step = "extracting", !.xmls = @ \cup {d.inc}]
  <2>1. d.next <= Entries[d.inst]
    BY <1>7 DEF ExtractEntry
  <2>2. d.inc \in Number
    BY <1>4, <1>5, <2>1
  <2>3. w \in DownloadTask /\ w.run = d.run /\ w.inst = d.inst
        /\ w.next = d.next /\ w.inc = d.inc
    BY <1>1, <2>2 DEF DownloadTask
  <2>4. Behind(w)
    BY <1>5, <2>1, <2>3 DEF Behind
  <2>5. OthersOK'
    <3>1. -d.next \in Int
      BY <1>4
    <3>2. xml' = [xml EXCEPT ![Name(t, d.inc)] = -d.next]
      BY <1>7 DEF ExtractEntry
    <3>3. xml' \in [Target -> Int]
      BY <1>2, <3>1, <3>2, PutFile DEF OthersOK
    <3> QED  BY <1>2, <1>7, <3>3 DEF OthersOK, ExtractEntry
  <2>6. task' = [task EXCEPT ![t] = w]
    BY <1>7 DEF ExtractEntry
  <2> HIDE DEF w, d
  <2> QED  BY <1>1, <1>2, <1>3, <2>3, <2>4, <2>5, <2>6, DownloadAdvances, OneTask
<1>8. CASE Extracted(t)
  <2> DEFINE w == [d EXCEPT !.step = "unzip", !.next = @ + 1, !.inc = @ + 1]
  <2>1. d.next <= Entries[d.inst] /\ d.next + 1 \in Nat /\ d.inc + 1 \in Nat
    BY <1>4, <1>5, <1>8 DEF Extracted, Is
  <2>2. w \in DownloadTask /\ w.run = d.run /\ w.inst = d.inst
        /\ w.next = d.next + 1 /\ w.inc = d.inc + 1 /\ w.step = "unzip"
    BY <1>1, <2>1 DEF DownloadTask
  <2>3. Behind(w)
    BY <1>4, <1>5, <2>1, <2>2 DEF Behind
  <2>4. OthersOK'
    <3>1. xml' = [xml EXCEPT ![Name(t, d.inc)] = d.next]
      BY <1>8 DEF Extracted
    <3>2. xml' \in [Target -> Int]
      BY <1>2, <1>4, <3>1, PutFile DEF OthersOK
    <3> QED  BY <1>2, <1>8, <3>2 DEF OthersOK, Extracted
  <2>5. task' = [task EXCEPT ![t] = w]
    BY <1>8 DEF Extracted
  <2> HIDE DEF w, d
  <2> QED  BY <1>1, <1>2, <1>3, <2>2, <2>3, <2>4, <2>5, DownloadAdvances, OneTask
<1>9. CASE EntryExists(t)
  <2> DEFINE w == [d EXCEPT !.next = @ + 1, !.xmls = @ \cup {d.inc}]
  <2>1. d.next <= Entries[d.inst] /\ d.next + 1 \in Nat /\ d.step = "unzip"
    BY <1>4, <1>9 DEF EntryExists, Is
  <2>2. d.inc \in Number
    BY <1>4, <1>5, <2>1
  <2>3. w \in DownloadTask /\ w.run = d.run /\ w.inst = d.inst
        /\ w.next = d.next + 1 /\ w.inc = d.inc /\ w.step = "unzip"
    BY <1>1, <2>1, <2>2 DEF DownloadTask
  <2>4. Behind(w)
    BY <1>4, <1>5, <2>1, <2>3 DEF Behind
  <2>5. OthersOK'
    BY <1>2, <1>9 DEF OthersOK, EntryExists
  <2>6. task' = [task EXCEPT ![t] = w]
    BY <1>9 DEF EntryExists
  <2> HIDE DEF w, d
  <2> QED  BY <1>1, <1>2, <1>3, <2>3, <2>4, <2>5, <2>6, DownloadAdvances, OneTask
<1> QED  BY <1>6, <1>7, <1>8, <1>9

\* One xml job of a group changes its state.
LEMMA GroupAdvances ==
    ASSUME NEW g \in GroupTask, NEW n \in Number, Valid(g, metas),
           NEW state \in {"none", "queued", "written", "attached", "done", "dead"}
    PROVE  LET w == [g EXCEPT !.jobs[n] = state]
           IN  w \in AnyTask /\ Behind(w) /\ Valid(w, metas)
<1> DEFINE w == [g EXCEPT !.jobs[n] = state]
<1>1. w \in GroupTask /\ w.run = g.run /\ w.inst = g.inst
  BY DEF GroupTask
<1> QED  BY <1>1 DEF GroupTask, Valid, Behind, AnyTask

LEMMA XmlJobIInv == ASSUME IInv, NEW t \in Task, XmlJob(t) PROVE IInv'
<1> USE DEF disk
<1>1. PICK n \in Number : WriteXml(t, n) \/ XmlJobDies(t, n) \/ AttachXml(t, n) \/ UnlinkXml(t, n)
  BY DEF XmlJob
<1>2. task[t] \in GroupTask
  BY <1>1, Kinds DEF IInv, TasksOK, WriteXml, XmlJobDies, AttachXml, UnlinkXml, InGroup
<1>3. PICK state \in {"none", "queued", "written", "attached", "done", "dead"} :
          task' = [task EXCEPT ![t].jobs[n] = state]
  BY <1>1 DEF WriteXml, XmlJobDies, AttachXml, UnlinkXml
<1>4. Valid(task[t], metas) /\ OthersOK
  BY DEF IInv, TasksValid
<1> DEFINE w == [task[t] EXCEPT !.jobs[n] = state]
<1>5. w \in AnyTask /\ Behind(w) /\ Valid(w, metas)
  BY <1>2, <1>4, GroupAdvances
<1>6. metas' = metas
  BY <1>1 DEF WriteXml, XmlJobDies, AttachXml, UnlinkXml
<1>7. task' = [task EXCEPT ![t] = w]
  BY <1>3
<1>8. OthersOK' /\ ValidatedFirst'
  <2>1. CASE AttachXml(t, n)
    <3> DEFINE r == task[t].run
               f == Name(t, n)
    <3>0. r \in Run
      BY <1>2 DEF GroupTask
    <3>1. rows' = [rows EXCEPT ![r][f] = @ + 1]
      BY <2>1 DEF AttachXml
    <3>2. rows' \in [Run -> [Target -> Nat]]
      <4>1. CASE f \in Target
        BY <1>4, <3>0, <3>1, <4>1, PutRow DEF OthersOK
      <4>2. CASE f \notin Target
        <5>1. rows' = rows
          <6>1. rows[r] \in [Target -> Nat]
            BY <1>4, <3>0 DEF OthersOK
          <6>2. [rows[r] EXCEPT ![f] = @ + 1] = rows[r]
            BY <4>2, <6>1
          <6> QED  BY <1>4, <3>0, <3>1, <6>2 DEF OthersOK
        <5> QED  BY <1>4, <5>1 DEF OthersOK
      <4> QED  BY <4>1, <4>2
    <3>3. OthersOK'
      BY <1>4, <2>1, <3>2 DEF OthersOK, AttachXml
    <3>4. HasGood(task[t].run, f[1], metas)
      BY <1>2, <1>4 DEF Valid, GroupTask, Name
    <3>5. ASSUME NEW q \in Run, NEW g \in Target, rows'[q][g] > 0
          PROVE  \E v \in Version : <<q, g[1], v>> \in metas /\ <<g[1], v>> \in Good
      <4>1. CASE q = r /\ g = f
        BY <3>4, <4>1 DEF HasGood
      <4>2. CASE ~(q = r /\ g = f)
        <5>1. rows'[q][g] = rows[q][g]
          BY <1>4, <3>1, <4>2 DEF OthersOK
        <5> QED  BY <3>5, <5>1 DEF IInv, ValidatedFirst
      <4> QED  BY <4>1, <4>2
    <3> QED  BY <1>6, <3>3, <3>5 DEF ValidatedFirst
  <2>2. CASE WriteXml(t, n)
    <3>1. out' \in [Target -> Int]
      <4>1. out' = [out EXCEPT ![Name(t, n)] = xml[Name(t, n)]]
        BY <2>2 DEF WriteXml
      <4>2. CASE Name(t, n) \in Target
        BY <1>4, <4>1, <4>2 DEF OthersOK
      <4>3. CASE Name(t, n) \notin Target
        BY <1>4, <4>1, <4>3 DEF OthersOK
      <4> QED  BY <4>2, <4>3
    <3> QED  BY <1>4, <2>2, <3>1, FirstKept DEF IInv, OthersOK, WriteXml
  <2>3. CASE XmlJobDies(t, n)
    BY <1>4, <2>3, FirstKept DEF IInv, OthersOK, XmlJobDies
  <2>4. CASE UnlinkXml(t, n)
    <3>1. xml' \in [Target -> Int]
      BY <1>4, <2>4, PutFile DEF OthersOK, UnlinkXml
    <3> QED  BY <1>4, <2>4, <3>1, FirstKept DEF IInv, OthersOK, UnlinkXml
  <2> QED  BY <1>1, <2>1, <2>2, <2>3, <2>4
<1> HIDE DEF w
<1> QED  BY <1>5, <1>6, <1>7, <1>8, OneTask

LEMMA KillTaskIInv == ASSUME IInv, NEW t \in Task, KillTask(t) PROVE IInv'
<1> USE DEF disk
<1>1. OthersOK' /\ metas' = metas /\ ValidatedFirst'
  <2>1. kills' \in 0..MaxKills
    BY BoundAssumption DEF IInv, OthersOK, KillTask
  <2> QED  BY <2>1, FirstKept DEF IInv, OthersOK, KillTask
<1>2. task[t] \in AnyTask /\ Valid(task[t], metas) /\ Behind(task[t])
  BY DEF IInv, TasksOK, TasksValid
<1>3. ASSUME task[t].kind \in {"start", "download"}, task' = [task EXCEPT ![t].step = "queued"]
      PROVE  IInv'
  <2> DEFINE w == [task[t] EXCEPT !.step = "queued"]
  <2>1. CASE task[t].kind = "start"
    <3>1. w \in StartTask
      BY <1>2, <2>1, Kinds DEF StartTask
    <3>2. w \in AnyTask /\ Behind(w) /\ Valid(w, metas)
      BY <3>1 DEF AnyTask, StartTask, Behind, Valid
    <3>3. task' = [task EXCEPT ![t] = w]
      BY <1>3
    <3> HIDE DEF w
    <3> QED  BY <1>1, <3>2, <3>3, OneTask
  <2>2. CASE task[t].kind = "download"
    <3>1. task[t] \in DownloadTask
      BY <1>2, <2>2, Kinds
    <3>2. w \in DownloadTask /\ w.run = task[t].run /\ w.inst = task[t].inst
          /\ w.step = "queued" /\ w.inc = task[t].inc /\ w.next = task[t].next
      BY <3>1 DEF DownloadTask
    <3>3. Behind(w)
      BY <1>2, <2>2, <3>2 DEF Behind
    <3>4. task' = [task EXCEPT ![t] = w]
      BY <1>3
    <3> HIDE DEF w
    <3> QED  BY <1>1, <1>2, <3>1, <3>2, <3>3, <3>4, DownloadAdvances, OneTask
  <2> QED  BY <1>3, <2>1, <2>2
<1>4. ASSUME NEW s \in {"queued", "validated"}, task[t].kind = "csv",
             task[t].step = "pushed" \/ s = "queued", task' = [task EXCEPT ![t].step = s]
      PROVE  IInv'
  <2> DEFINE w == [task[t] EXCEPT !.step = s]
  <2>1. w \in CsvTask /\ w.step = s /\ w.run = task[t].run /\ w.inst = task[t].inst
    BY <1>2, <1>4, Kinds DEF CsvTask
  <2>2. w \in AnyTask /\ Behind(w) /\ Valid(w, metas)
    BY <1>2, <1>4, <2>1 DEF AnyTask, CsvTask, Behind, Valid
  <2>3. task' = [task EXCEPT ![t] = w]
    BY <1>4
  <2> HIDE DEF w
  <2> QED  BY <1>1, <2>2, <2>3, OneTask
<1>5. ASSUME NEW n \in Number, task[t].kind = "group",
             task' = [task EXCEPT ![t].jobs[n] = "queued"]
      PROVE  IInv'
  <2> DEFINE w == [task[t] EXCEPT !.jobs[n] = "queued"]
  <2>1. w \in AnyTask /\ Behind(w) /\ Valid(w, metas)
    BY <1>2, <1>5, Kinds, GroupAdvances
  <2>2. task' = [task EXCEPT ![t] = w]
    BY <1>5
  <2> HIDE DEF w
  <2> QED  BY <1>1, <2>1, <2>2, OneTask
<1> QED  BY <1>3, <1>4, <1>5 DEF KillTask, Is, InGroup

---------------------------------------------------------------------------
LEMMA NextIInv == IInv /\ [Next]_vars => IInv'
<1> SUFFICES ASSUME IInv, [Next]_vars PROVE IInv'
  OBVIOUS
<1>1. CASE UNCHANGED vars
  BY <1>1 DEF IInv, TasksOK, Behind, OthersOK, TasksValid, Valid, HasGood, ValidatedFirst,
              vars, disk
<1>2. CASE Next
  BY <1>2, EventIInv, OpenOverallIInv, StartWorkflowIInv, AckIInv, CsvIInv, CsvSuccessIInv,
     PushXmlJobsIInv, DownloadIInv, XmlJobIInv, KillTaskIInv
  DEF Next, RunTask
<1> QED  BY <1>1, <1>2

\* The types of the event rows, the Sidekiq tasks and the files of the full import, and
\* that file_increment is never ahead of the entries of the zip (unzip_file).
THEOREM TypeCorrect == Spec => []TypeOK
<1>1. IInv => TypeOK
  BY TypeParts DEF IInv
<1> QED  BY <1>1, InitIInv, NextIInv, PTL DEF Spec

\* However runs overlap and whatever is killed and run again, a file of an institution is
\* only attached to a dump that has a metadata csv of it with the expected group ids
\* (validate_csv_success is what starts the download).
THEOREM FilesAreValidatedFirst == Spec => []ValidatedFirst
<1>1. IInv => ValidatedFirst
  BY DEF IInv
<1> QED  BY <1>1, InitIInv, NextIInv, PTL DEF Spec
---------------------------------------------------------------------------
(* What has been done when a lone run that nothing kills has succeeded.    *)

\* The task t has institution i in hand.
Has(t, i) ==
    /\ task[t].kind \in {"csv", "download", "group"} /\ task[t].inst = i
    /\ task[t].kind = "group" \/ task[t].step # "pushed"

\* Nothing of version v of institution i is in the update directory.
NoFiles(i, v) == <<i, v>> \notin zips /\ \A n \in 1..Entries[i] : xml[<<i, v, n>>] = 0

\* The first entries of the zip are files of the same numbers, and the other names are free;
\* the one being extracted is in the way of nothing else.
Unzipped(tk) ==
    /\ tk.inc = tk.next
    /\ \A n \in Number : n \in tk.xmls <=> n < tk.next \/ (n = tk.next /\ tk.step = "extracting")
    /\ \A n \in 1..Entries[tk.inst] :
           /\ n < tk.next => xml[<<tk.inst, tk.ver, n>>] = n
           /\ n > tk.next \/ (n = tk.next /\ tk.step = "unzip") => xml[<<tk.inst, tk.ver, n>>] = 0

\* How far the file of entry n has come, for each xml job.
Processed(tk) ==
    \A n \in Number :
        /\ n \notin 1..Entries[tk.inst] => tk.jobs[n] = "none"
        /\ n \in 1..Entries[tk.inst] =>
               /\ tk.jobs[n] \in {"queued", "written", "attached", "done"}
               /\ xml[<<tk.inst, tk.ver, n>>] = IF tk.jobs[n] = "done" THEN 0 ELSE n
               /\ tk.jobs[n] # "queued" => out[<<tk.inst, tk.ver, n>>] = n
               /\ tk.jobs[n] \in {"attached", "done"} => rows[tk.run][<<tk.inst, tk.ver, n>>] > 0

\* What the task that has an institution in hand has done.
Doing(tk) ==
    /\ tk.kind = "csv" \/ (tk.kind = "download" /\ tk.step = "queued") =>
           \A v \in Version : NoFiles(tk.inst, v)
    /\ tk.kind = "download" /\ tk.step \in {"unzip", "extracting"} => Unzipped(tk)
    /\ tk.kind = "group" => Processed(tk)
    /\ \A v \in Version : tk.kind \in {"download", "group"} /\ v # tk.ver => NoFiles(tk.inst, v)

\* The run has not added its jobs yet.
Unstarted ==
    \/ \A r \in Run : full[r] \in {"none", "created"}
    \/ \E t \in Task : Is(t, "start", "queued")

\* Every entry of some export of i is in a file of the dump.
Complete(i) ==
    \A r \in Run : \E v \in Version : \A e \in 1..Entries[i] :
        rows[r][<<i, v, e>>] > 0 /\ out[<<i, v, e>>] = e

\* An institution is before its turn, or done with, or in the hands of one task.
InstOK(i) ==
    \/ /\ \A t \in Task : ~Has(t, i)
       /\ \A v \in Version : NoFiles(i, v)
       /\ Unstarted \/ Complete(i)
    \/ \E t \in Task : Has(t, i) /\ Doing(task[t]) /\ \A u \in Task : Has(u, i) => u = t

\* The start task is the first one of its batch, and the batch is empty until it is opened,
\* and again once it has succeeded.
StartFirst ==
    /\ \A t, u \in Task : Is(t, "start", "queued") /\ u # t => task[u] = Free
    /\ \A r \in Run : full[r] # "open" => \A t \in Task : task[t] = Free

ProgressInv == StartFirst /\ \A i \in Institution : InstOK(i)

\* The files of institution i and their rows are left alone.
Same(i) ==
    \A v \in Version :
        /\ <<i, v>> \in zips' <=> <<i, v>> \in zips
        /\ \A n \in 1..Entries[i] :
               /\ xml'[<<i, v, n>>] = xml[<<i, v, n>>] /\ out'[<<i, v, n>>] = out[<<i, v, n>>]
               /\ \A r \in Run : rows'[r][<<i, v, n>>] = rows[r][<<i, v, n>>]

---------------------------------------------------------------------------

LEMMA Targets == \A i \in Institution, v \in Version : \A n \in 1..Entries[i] : <<i, v, n>> \in Target
<1> SUFFICES ASSUME NEW i \in Institution, NEW v \in Version, NEW n \in 1..Entries[i]
             PROVE  <<i, v, n>> \in Target
  OBVIOUS
<1>1. <<i, v, n>> \in {i} \X Version \X (1..Entries[i])
  OBVIOUS
<1> QED  BY <1>1 DEF Target

\* Who has an institution in hand is a task of a kind that has its fields.
LEMMA HasTyped ==
    ASSUME TasksOK, NEW t \in Task, NEW i, Has(t, i)
    PROVE  /\ task[t].run \in Run /\ task[t].inst \in Institution /\ task[t].ver \in Version
           /\ task[t] # Free /\ ~Is(t, "start", "queued")
<1>1. task[t] \in CsvTask \/ task[t] \in DownloadTask \/ task[t] \in GroupTask
  BY Kinds DEF TasksOK, Has
<1> QED  BY <1>1 DEF CsvTask, DownloadTask, GroupTask, Free, Is, Has

LEMMA FreeHasNot == ASSUME NEW t \in Task, task[t].kind \in {"free", "start"} PROVE \A i : ~Has(t, i)
BY DEF Has

LEMMA Kept ==
    ASSUME TasksOK, NEW i \in Institution, InstOK(i), Same(i),
           \A t \in Task : (Has(t, i)' <=> Has(t, i)) /\ (Has(t, i) => task'[t] = task[t]),
           Unstarted => Unstarted'
    PROVE  InstOK(i)'
<1>1. \A v \in Version : NoFiles(i, v) => NoFiles(i, v)'
  BY DEF NoFiles, Same
<1>2. Complete(i) => Complete(i)'
  <2> SUFFICES ASSUME Complete(i), NEW r \in Run
               PROVE  \E v \in Version : \A e \in 1..Entries[i] :
                          rows'[r][<<i, v, e>>] > 0 /\ out'[<<i, v, e>>] = e
    BY DEF Complete
  <2>1. PICK v \in Version : \A e \in 1..Entries[i] : rows[r][<<i, v, e>>] > 0 /\ out[<<i, v, e>>] = e
    BY DEF Complete
  <2>2. \A e \in 1..Entries[i] : rows'[r][<<i, v, e>>] = rows[r][<<i, v, e>>] /\ out'[<<i, v, e>>] = out[<<i, v, e>>]
    BY DEF Same
  <2> QED  BY <2>1, <2>2
<1>3. CASE \A t \in Task : ~Has(t, i)
  BY <1>1, <1>2, <1>3 DEF InstOK
<1>4. CASE \E t \in Task : Has(t, i) /\ Doing(task[t]) /\ \A u \in Task : Has(u, i) => u = t
  <2>1. PICK t \in Task : Has(t, i) /\ Doing(task[t]) /\ \A u \in Task : Has(u, i) => u = t
    BY <1>4
  <2>2. task'[t] = task[t] /\ task[t].inst = i /\ task[t].ver \in Version /\ task[t].run \in Run
    BY <2>1, HasTyped DEF Has
  <2>3. Doing(task[t])'
    <3> DEFINE tk == task[t]
    <3>0. \A n \in 1..Entries[i] : LET f == <<tk.inst, tk.ver, n>> IN
              xml'[f] = xml[f] /\ out'[f] = out[f] /\ rows'[tk.run][f] = rows[tk.run][f]
      BY <2>2 DEF Same
    <3>1. ASSUME Unzipped(task[t]) PROVE Unzipped(task[t])'
      <4>1. \A n \in 1..Entries[i] :
               /\ n < tk.next => xml'[<<tk.inst, tk.ver, n>>] = n
               /\ n > tk.next \/ (n = tk.next /\ tk.step = "unzip") => xml'[<<tk.inst, tk.ver, n>>] = 0
        BY <2>2, <3>0, <3>1 DEF Unzipped
      <4> QED  BY <2>2, <3>1, <4>1 DEF Unzipped
    <3>2. Processed(task[t]) => Processed(task[t])'
      BY <2>2, <3>0 DEF Processed
    <3> QED  BY <1>1, <2>1, <2>2, <3>1, <3>2 DEF Doing
  <2> QED  BY <2>1, <2>3 DEF InstOK
<1> QED  BY <1>3, <1>4 DEF InstOK

\* While a task has an institution in hand, the batch is open and started.
LEMMA InHand ==
    ASSUME TasksOK, StartFirst, NEW t \in Task, task[t] # Free, ~Is(t, "start", "queued")
    PROVE  /\ \A r \in Run : full[r] = "open"
           /\ \A u \in Task : ~Is(u, "start", "queued")
           /\ ~Unstarted
<1>1. \A r \in Run : full[r] = "open"
  BY DEF StartFirst
<1>2. \A u \in Task : ~Is(u, "start", "queued")
  BY DEF StartFirst
<1>3. task[t].run \in Run
  BY DEF TasksOK, AnyTask, StartTask, CsvTask, DownloadTask, GroupTask
<1> QED  BY <1>1, <1>2, <1>3 DEF Unstarted

\* The task t, which has institution j in hand, goes on with it, or u takes over.
LEMMA GoesOn ==
    ASSUME TasksOK, ProgressInv, UNCHANGED full, NEW j \in Institution,
           NEW t \in Task, NEW u \in Task, Has(t, j), u = t \/ task[u] = Free,
           \A x \in Task : x # t /\ x # u => task'[x] = task[x],
           Has(u, j)', Doing(task[u])',
           u # t => task'[t].kind # "start" /\ \A i \in Institution : ~Has(t, i)',
           \A i \in Institution : i # j => Same(i)
    PROVE  ProgressInv'
<1>1. /\ \A r \in Run : full[r] = "open"
      /\ \A x \in Task : ~Is(x, "start", "queued")
      /\ ~Unstarted
  BY InHand, HasTyped DEF ProgressInv
<1>2. \A x \in Task : ~Is(x, "start", "queued")'
  BY <1>1 DEF Is, Has
<1>3. StartFirst'
  BY <1>1, <1>2 DEF StartFirst
<1>4. \A i \in Institution : i # j => ~Has(t, i) /\ ~Has(u, i) /\ ~Has(t, i)' /\ ~Has(u, i)'
  BY FreeHasNot DEF Has, Free
<1>5. ASSUME NEW i \in Institution, i # j PROVE InstOK(i)'
  <2>1. \A x \in Task : (Has(x, i)' <=> Has(x, i)) /\ (Has(x, i) => task'[x] = task[x])
    BY <1>4, <1>5 DEF Has
  <2>2. InstOK(i) /\ Same(i)
    BY <1>5 DEF ProgressInv
  <2> QED  BY <1>1, <2>1, <2>2, Kept
<1>6. InstOK(j)'
  <2>1. \A x \in Task : Has(x, j) => x = t
    BY DEF ProgressInv, InstOK
  <2>2. \A x \in Task : Has(x, j)' => x = u
    BY <2>1 DEF Has
  <2> QED  BY <2>2 DEF InstOK
<1> QED  BY <1>3, <1>5, <1>6 DEF ProgressInv

\* A step that leaves the directory and the rows alone.
LEMMA SameFiles == ASSUME UNCHANGED <<disk, rows>> PROVE \A i : Same(i)
BY DEF disk, Same

LEMMA Mine ==
    ASSUME TasksOK, ProgressInv, NEW t \in Task, NEW j, Has(t, j)
    PROVE  j \in Institution /\ Doing(task[t]) /\ \A u \in Task : Has(u, j) => u = t
<1>1. j \in Institution
  BY HasTyped DEF Has
<1> QED  BY <1>1 DEF ProgressInv, InstOK

\* The task t moves on with its institution, and leaves the files of the others alone.
LEMMA MovesOn ==
    ASSUME TasksOK, ProgressInv, UNCHANGED full, NEW t \in Task, NEW j, Has(t, j), NEW w,
           task' = [task EXCEPT ![t] = w],
           w.kind = "group" \/ (w.kind \in {"csv", "download"} /\ w.step # "pushed"), w.inst = j,
           Doing(task[t])',
           \A i \in Institution : i # j => Same(i)
    PROVE  ProgressInv'
<1>1. j \in Institution
  BY Mine
<1>2. task'[t] = w /\ \A x \in Task : x # t => task'[x] = task[x]
  BY DEF TasksOK
<1>3. Has(t, j)'
  BY <1>2 DEF Has
<1> QED  BY <1>1, <1>2, <1>3, GoesOn

LEMMA CsvProgress ==
    ASSUME IInv, ProgressInv, NEW t \in Task, AttachCsv(t) \/ CsvMatches(t) \/ CsvRaises(t)
    PROVE  ProgressInv'
<1>0. PICK j : j = task[t].inst
  OBVIOUS
<1>1. task[t].kind = "csv" /\ task[t].step \in {"queued", "attached"} /\ Has(t, j) /\ TasksOK
  BY <1>0 DEF AttachCsv, CsvMatches, CsvRaises, Is, Has, IInv
<1>2. task[t] \in CsvTask
  BY <1>0, <1>1, Kinds DEF TasksOK
<1>3. UNCHANGED <<disk, rows, full>>
  BY DEF AttachCsv, CsvMatches, CsvRaises
<1>4. PICK w : /\ task' = [task EXCEPT ![t] = w] /\ w \in CsvTask /\ w.step # "pushed"
               /\ w.inst = j /\ w.kind = "csv"
  <2>1. CASE AttachCsv(t)
    <3> DEFINE w == [task[t] EXCEPT !.step = "attached", !.ver = latest[j]]
    <3>1. latest[j] \in Version
      BY <1>0, <1>2 DEF IInv, OthersOK, CsvTask
    <3>2. w \in CsvTask /\ w.step # "pushed" /\ w.inst = j /\ w.kind = "csv"
      BY <1>0, <1>2, <3>1 DEF CsvTask
    <3>3. task' = [task EXCEPT ![t] = w]
      BY <1>0, <2>1 DEF AttachCsv
    <3> HIDE DEF w
    <3> QED  BY <3>2, <3>3
  <2>2. CASE CsvMatches(t) \/ CsvRaises(t)
    <3>1. PICK s \in {"queued", "dead", "validated"} : task' = [task EXCEPT ![t].step = s]
      BY <2>2 DEF CsvMatches, CsvRaises
    <3> DEFINE w == [task[t] EXCEPT !.step = s]
    <3>2. w \in CsvTask /\ w.step # "pushed" /\ w.inst = j /\ w.kind = "csv"
      BY <1>0, <1>2 DEF CsvTask
    <3>3. task' = [task EXCEPT ![t] = w]
      BY <3>1
    <3> HIDE DEF w
    <3> QED  BY <3>2, <3>3
  <2> QED  BY <2>1, <2>2
<1>5. \A v \in Version : NoFiles(j, v)
  BY <1>0, <1>1, Mine DEF Doing
<1>6. Doing(task[t])'
  <2>1. task'[t] = w
    BY <1>1, <1>4 DEF TasksOK
  <2>2. \A v \in Version : NoFiles(j, v)'
    BY <1>3, <1>5 DEF NoFiles, disk
  <2> QED  BY <1>4, <2>1, <2>2 DEF Doing
<1> QED  BY <1>1, <1>3, <1>4, <1>6, SameFiles, MovesOn

LEMMA CsvSuccessProgress ==
    ASSUME IInv, ProgressInv, NEW t \in Task, CsvSuccess(t)
    PROVE  ProgressInv'
<1>0. PICK j : j = task[t].inst
  OBVIOUS
<1>1. task[t].kind = "csv" /\ task[t].step = "validated" /\ Has(t, j) /\ TasksOK
  BY <1>0 DEF CsvSuccess, Is, Has, IInv
<1>2. task[t] \in CsvTask
  BY <1>0, <1>1, Kinds DEF TasksOK
<1>3. UNCHANGED <<disk, rows, full>>
  BY DEF CsvSuccess
<1>4. PICK u \in FreeTasks : task' = [task EXCEPT ![t].step = "pushed", ![u] = Download(task[t].run, j)]
  BY <1>0 DEF CsvSuccess
<1>5. u \in Task /\ task[u] = Free /\ u # t
  BY <1>1 DEF FreeTasks, Free
<1>6. /\ task'[u] = Download(task[t].run, j)
      /\ task'[t].kind = "csv" /\ task'[t].step = "pushed"
      /\ \A x \in Task : x # t /\ x # u => task'[x] = task[x]
  BY <1>0, <1>1, <1>2, <1>4, <1>5 DEF TasksOK, CsvTask
<1>7. Has(u, j)' /\ \A i \in Institution : ~Has(t, i)'
  BY <1>6 DEF Has, Download
<1>8. \A v \in Version : NoFiles(j, v)'
  <2>1. \A v \in Version : NoFiles(j, v)
    BY <1>0, <1>1, Mine DEF Doing
  <2> QED  BY <1>3, <2>1 DEF NoFiles, disk
<1>9. Doing(task[u])'
  BY <1>6, <1>8 DEF Doing, Download
<1> QED  BY <1>1, <1>3, <1>5, <1>6, <1>7, <1>9, Mine, SameFiles, GoesOn

LEMMA PushProgress ==
    ASSUME IInv, ProgressInv, NEW t \in Task, PushXmlJobs(t)
    PROVE  ProgressInv'
<1>0. PICK d, j : d = task[t] /\ j = task[t].inst
  OBVIOUS
<1>1. d.kind = "download" /\ d.step = "unzip" /\ d.next > Entries[j] /\ Has(t, j) /\ TasksOK
  BY <1>0 DEF PushXmlJobs, Is, Has, IInv
<1>2. d \in DownloadTask /\ j \in Institution
  BY <1>0, <1>1, Kinds DEF TasksOK, DownloadTask
<1>3. UNCHANGED <<disk, rows, full>>
  BY DEF PushXmlJobs
<1>4. PICK u \in FreeTasks :
          task' = [task EXCEPT ![t].step = "pushed", ![u] = Group(d.run, j, d.ver, d.xmls)]
  BY <1>0 DEF PushXmlJobs
<1>5. u \in Task /\ task[u] = Free /\ u # t
  BY <1>0, <1>1 DEF FreeTasks, Free
<1>6. /\ task'[u] = Group(d.run, j, d.ver, d.xmls)
      /\ task'[t].kind = "download" /\ task'[t].step = "pushed"
      /\ \A x \in Task : x # t /\ x # u => task'[x] = task[x]
  BY <1>0, <1>1, <1>2, <1>4, <1>5 DEF TasksOK, DownloadTask
<1>7. Has(u, j)' /\ \A i \in Institution : ~Has(t, i)'
  BY <1>6 DEF Has, Group
<1>8. Unzipped(d) /\ \A v \in Version : v # d.ver => NoFiles(j, v)
  BY <1>0, <1>1, Mine DEF Doing
<1>9. d.next = Entries[j] + 1 /\ Entries[j] \in Nat /\ Number \subseteq Nat \ {0}
  <2>1. Behind(d)
    BY <1>0, <1>1 DEF TasksOK
  <2>2. Number \subseteq Nat \ {0}
    BY EntriesAssumption DEF Number
  <2> QED  BY <1>0, <1>1, <1>2, <2>1, <2>2, Numbers DEF Behind, DownloadTask
<1>10. \A n \in Number : n \in d.xmls <=> n \in 1..Entries[j]
  BY <1>0, <1>1, <1>8, <1>9 DEF Unzipped
<1>11. \A n \in 1..Entries[j] : xml'[<<j, d.ver, n>>] = n
  BY <1>0, <1>3, <1>8, <1>9 DEF Unzipped, disk
<1>12. Processed(task[u])'
  <2> DEFINE g == Group(d.run, j, d.ver, d.xmls)
  <2>1. g.inst = j /\ g.ver = d.ver /\ g.run = d.run
        /\ \A n \in Number : g.jobs[n] = IF n \in 1..Entries[j] THEN "queued" ELSE "none"
    BY <1>10 DEF Group
  <2>2. g = task'[u]
    BY <1>6
  <2> HIDE DEF g
  <2> QED  BY <1>11, <2>1, <2>2 DEF Processed
<1>13. \A v \in Version : v # d.ver => NoFiles(j, v)'
  BY <1>3, <1>8 DEF NoFiles, disk
<1>14. Doing(task[u])'
  BY <1>6, <1>12, <1>13 DEF Doing, Group
<1> QED  BY <1>1, <1>2, <1>3, <1>5, <1>6, <1>7, <1>14, SameFiles, GoesOn

\* A file that is written or deleted is one of the task's own institution.
LEMMA OthersSame ==
    ASSUME OthersOK, NEW j, NEW v, NEW n, UNCHANGED <<zips, out, rows>>, NEW x,
           xml' = [xml EXCEPT ![<<j, v, n>>] = x]
    PROVE  \A i \in Institution : i # j => Same(i)
<1> SUFFICES ASSUME NEW i \in Institution, i # j PROVE Same(i)
  OBVIOUS
<1>1. \A w \in Version, m \in 1..Entries[i] : xml'[<<i, w, m>>] = xml[<<i, w, m>>]
  BY Targets DEF OthersOK
<1> QED  BY <1>1 DEF Same

LEMMA DownloadProgress ==
    ASSUME IInv, ProgressInv, NEW t \in Task,
           DownloadZip(t) \/ ExtractEntry(t) \/ Extracted(t) \/ EntryExists(t)
    PROVE  ProgressInv'
<1>0. PICK d, j : d = task[t] /\ j = d.inst
  OBVIOUS
<1>1. /\ d.kind = "download" /\ d.step # "pushed" /\ Has(t, j) /\ TasksOK /\ OthersOK
      /\ UNCHANGED <<full, out, rows>>
  BY <1>0 DEF DownloadZip, ExtractEntry, Extracted, EntryExists, Is, Has, IInv, disk
<1>2. d \in DownloadTask /\ Behind(d)
  BY <1>0, <1>1, Kinds DEF TasksOK
<1>3. /\ j \in Institution /\ Doing(d) /\ d.ver \in Version /\ Entries[j] \in Nat /\ 1..Entries[j] \subseteq Number
      /\ (\A n \in Number : n \in Nat /\ n >= 1) /\ d.next \in Nat /\ d.inc \in Nat
  <2>1. \A n \in Number : n \in Nat /\ n >= 1
    BY EntriesAssumption DEF Number
  <2> QED  BY <1>0, <1>1, <1>2, <2>1, Mine, Numbers DEF DownloadTask
<1>4. \A n \in 1..Entries[j], v \in Version : <<j, v, n>> \in Target
  BY <1>3, Targets
<1>5. CASE DownloadZip(t)
  <2>1. PICK w : w = [d EXCEPT !.step = "unzip", !.ver = latest[j], !.next = 1, !.inc = 1, !.xmls = {}]
    OBVIOUS
  <2>2. /\ task' = [task EXCEPT ![t] = w] /\ w.kind = "download" /\ w.step = "unzip" /\ w.inst = j
        /\ w.next = 1 /\ w.inc = 1 /\ w.xmls = {} /\ w.ver = latest[j]
    BY <1>0, <1>1, <1>2, <1>5, <2>1 DEF DownloadZip, DownloadTask
  <2>3. latest[j] \in Version
    BY <1>1, <1>3 DEF OthersOK
  <2>4. \A v \in Version : NoFiles(j, v)
    BY <1>0, <1>1, <1>5 , <1>3 DEF Doing, DownloadZip, Is
  <2>5. xml' = xml /\ zips' = zips \cup {<<j, latest[j]>>}
    BY <1>0, <1>5 DEF DownloadZip
  <2>6. task'[t] = w
    BY <1>1, <2>2 DEF TasksOK
  <2>7. Unzipped(task[t])'
    <3>1. \A n \in 1..Entries[j] : xml'[<<j, latest[j], n>>] = 0
      BY <2>3, <2>4, <2>5 DEF NoFiles
    <3>2. w.step # "extracting" /\ \A n \in Number : ~(n < 1)
      BY <1>3, <2>2
    <3>3. \A n \in 1..Entries[j] : ~(n < 1)
      BY <1>3
    <3> QED  BY <2>2, <2>6, <3>1, <3>2, <3>3 DEF Unzipped
  <2>8. \A v \in Version : v # latest[j] => NoFiles(j, v)'
    BY <2>4, <2>5 DEF NoFiles
  <2>9. Doing(task[t])'
    BY <2>2, <2>6, <2>7, <2>8 DEF Doing
  <2>10. \A i \in Institution : i # j => Same(i)
    BY <1>1, <2>5 DEF Same
  <2> QED  BY <1>1, <2>2, <2>9, <2>10, MovesOn
<1>6. CASE ExtractEntry(t)
  <2>1. PICK w : w = [d EXCEPT !.step = "extracting", !.xmls = @ \cup {d.inc}]
    OBVIOUS
  <2>2. /\ task' = [task EXCEPT ![t] = w] /\ w.kind = "download" /\ w.step = "extracting" /\ w.inst = j
        /\ w.next = d.next /\ w.inc = d.inc /\ w.xmls = d.xmls \cup {d.inc} /\ w.ver = d.ver
    BY <1>0, <1>1, <1>2, <1>6, <2>1 DEF ExtractEntry, DownloadTask
  <2>3. d.step = "unzip" /\ d.next <= Entries[j] /\ xml' = [xml EXCEPT ![<<j, d.ver, d.inc>>] = -d.next]
        /\ zips' = zips
    BY <1>0, <1>6 DEF ExtractEntry, Is, Name
  <2>4. Unzipped(d) /\ d.inc = d.next /\ \A v \in Version : v # d.ver => NoFiles(j, v)
    BY <1>0, <1>1, <1>3, <2>3 DEF Doing, Unzipped
  <2>5. task'[t] = w
    BY <1>1, <2>2 DEF TasksOK
  <2>6. \A n \in 1..Entries[j] : n # d.next => xml'[<<j, d.ver, n>>] = xml[<<j, d.ver, n>>]
    BY <1>1, <1>3, <1>4, <2>3, <2>4 DEF OthersOK
  <2>7. Unzipped(task[t])'
    <3>1. \A n \in Number : n \in w.xmls <=> n < w.next \/ (n = w.next /\ w.step = "extracting")
      BY <1>3, <2>2, <2>3, <2>4 DEF Unzipped
    <3>2. \A n \in 1..Entries[j] :
               /\ n < w.next => xml'[<<j, d.ver, n>>] = n
               /\ n > w.next => xml'[<<j, d.ver, n>>] = 0
      BY <1>0, <1>3, <2>2, <2>4, <2>6 DEF Unzipped
    <3> QED  BY <2>2, <2>4, <2>5, <3>1, <3>2 DEF Unzipped
  <2>8. \A v \in Version : v # d.ver => NoFiles(j, v)'
    <3>1. \A v \in Version, n \in 1..Entries[j] : v # d.ver => xml'[<<j, v, n>>] = xml[<<j, v, n>>]
      BY <1>1, <1>4, <2>3 DEF OthersOK
    <3> QED  BY <2>3, <2>4, <3>1 DEF NoFiles
  <2>9. Doing(task[t])'
    BY <2>2, <2>5, <2>7, <2>8 DEF Doing
  <2>10. \A i \in Institution : i # j => Same(i)
    BY <1>1, <2>3, OthersSame
  <2> QED  BY <1>1, <2>2, <2>9, <2>10, MovesOn
<1>7. CASE Extracted(t)
  <2>1. PICK w : w = [d EXCEPT !.step = "unzip", !.next = @ + 1, !.inc = @ + 1]
    OBVIOUS
  <2>2. /\ task' = [task EXCEPT ![t] = w] /\ w.kind = "download" /\ w.step = "unzip" /\ w.inst = j
        /\ w.next = d.next + 1 /\ w.inc = d.inc + 1 /\ w.xmls = d.xmls /\ w.ver = d.ver
    BY <1>0, <1>1, <1>2, <1>7, <2>1 DEF Extracted, DownloadTask
  <2>3. d.step = "extracting" /\ xml' = [xml EXCEPT ![<<j, d.ver, d.inc>>] = d.next] /\ zips' = zips
    BY <1>0, <1>7 DEF Extracted, Is, Name
  <2>4. /\ Unzipped(d) /\ d.inc = d.next /\ d.next <= Entries[j] /\ d.next >= 1
        /\ \A v \in Version : v # d.ver => NoFiles(j, v)
    BY <1>0, <1>1, <1>2, <1>3, <2>3 DEF Doing, Unzipped, Behind
  <2>5. task'[t] = w
    BY <1>1, <2>2 DEF TasksOK
  <2>6. \A n \in 1..Entries[j] : n # d.next => xml'[<<j, d.ver, n>>] = xml[<<j, d.ver, n>>]
    BY <1>1, <1>3, <1>4, <2>3, <2>4 DEF OthersOK
  <2>11. xml'[<<j, d.ver, d.next>>] = d.next
    BY <1>1, <1>3, <1>4, <2>3, <2>4 DEF OthersOK
  <2>7. Unzipped(task[t])'
    <3>0. \A n \in Number : n \in d.xmls <=> n < d.next \/ n = d.next
      BY <2>3, <2>4 DEF Unzipped
    <3>1. \A n \in Number : n \in w.xmls <=> n < w.next
      <4>1. \A n \in Number : n < d.next \/ n = d.next <=> n < d.next + 1
        BY <1>3
      <4> QED  BY <2>2, <3>0, <4>1
    <3>2. \A n \in 1..Entries[j] :
               /\ n < w.next => xml'[<<j, d.ver, n>>] = n
               /\ n >= w.next => xml'[<<j, d.ver, n>>] = 0
      BY <1>0, <1>3, <2>2, <2>4, <2>6, <2>11 DEF Unzipped
    <3>3. \A n \in 1..Entries[j] : n > w.next \/ n = w.next => n >= w.next
      BY <1>3, <2>2
    <3> QED  BY <2>2, <2>4, <2>5, <3>1, <3>2, <3>3 DEF Unzipped
  <2>8. \A v \in Version : v # d.ver => NoFiles(j, v)'
    <3>1. \A v \in Version, n \in 1..Entries[j] : v # d.ver => xml'[<<j, v, n>>] = xml[<<j, v, n>>]
      BY <1>1, <1>4, <2>3 DEF OthersOK
    <3> QED  BY <2>3, <2>4, <3>1 DEF NoFiles
  <2>9. Doing(task[t])'
    BY <2>2, <2>5, <2>7, <2>8 DEF Doing
  <2>10. \A i \in Institution : i # j => Same(i)
    BY <1>1, <2>3, OthersSame
  <2> QED  BY <1>1, <2>2, <2>9, <2>10, MovesOn
\* No name is in the way.
<1>8. CASE EntryExists(t)
  <2>1. d.step = "unzip" /\ d.next <= Entries[j] /\ xml[<<j, d.ver, d.inc>>] # 0
    BY <1>0, <1>8 DEF EntryExists, Is, Name
  <2>2. Unzipped(d) /\ d.next \in 1..Entries[j]
    BY <1>0, <1>1, <1>2, <1>3, <2>1 DEF Doing, Behind
  <2> QED  BY <1>0, <2>1, <2>2 DEF Unzipped
<1> QED  BY <1>5, <1>6, <1>7, <1>8

LEMMA XmlProgress ==
    ASSUME IInv, ProgressInv, NEW t \in Task, XmlJob(t)
    PROVE  ProgressInv'
<1>0. PICK g, j : g = task[t] /\ j = g.inst
  OBVIOUS
<1>1. PICK n \in Number : WriteXml(t, n) \/ XmlJobDies(t, n) \/ AttachXml(t, n) \/ UnlinkXml(t, n)
  BY DEF XmlJob
<1>2. /\ g.kind = "group" /\ Has(t, j) /\ TasksOK /\ OthersOK
      /\ UNCHANGED <<full, zips>>
  BY <1>0, <1>1 DEF WriteXml, XmlJobDies, AttachXml, UnlinkXml, InGroup, Has, IInv, disk
<1>3. g \in GroupTask /\ j \in Institution /\ Processed(g) /\ g.ver \in Version /\ g.run \in Run
      /\ \A v \in Version : v # g.ver => NoFiles(j, v)
  BY <1>0, <1>2, Kinds, Mine DEF TasksOK, Doing, GroupTask
<1>4. g.jobs[n] \in {"queued", "written", "attached"}
  BY <1>0, <1>1 DEF WriteXml, XmlJobDies, AttachXml, UnlinkXml, InGroup
<1>5. n \in 1..Entries[j] /\ 1..Entries[j] \subseteq Number /\ n # 0 /\ xml[<<j, g.ver, n>>] = n
  <2>1. n # 0
    BY EntriesAssumption DEF Number
  <2> QED  BY <1>0, <1>3, <1>4, <2>1, Numbers DEF Processed
<1> DEFINE f(i, v, m) == <<i, v, m>>
<1>6. \A i \in Institution, v \in Version : \A m \in 1..Entries[i] : f(i, v, m) \in Target
  BY Targets
<1>7. ~XmlJobDies(t, n)
  BY <1>0, <1>5 DEF XmlJobDies, Name
<1>8. PICK state \in {"written", "attached", "done"} :
        /\ task' = [task EXCEPT ![t].jobs[n] = state]
        /\ state \in {"attached", "done"} =>
               g.jobs[n] = "attached" \/ rows' = [rows EXCEPT ![g.run][<<j, g.ver, n>>] = @ + 1]
        /\ rows' = rows \/ rows' = [rows EXCEPT ![g.run][<<j, g.ver, n>>] = @ + 1]
        /\ xml' = IF state = "done" THEN [xml EXCEPT ![<<j, g.ver, n>>] = 0] ELSE xml
        /\ g.jobs[n] = "queued" => out' = [out EXCEPT ![<<j, g.ver, n>>] = n]
        /\ g.jobs[n] # "queued" => out' = out
        /\ out' = out \/ out' = [out EXCEPT ![<<j, g.ver, n>>] = n]
  BY <1>0, <1>1, <1>5, <1>7 DEF WriteXml, AttachXml, UnlinkXml, InGroup, Name, disk
<1>9. \A i \in Institution, v \in Version : \A m \in 1..Entries[i] : f(i, v, m) # <<j, g.ver, n>> =>
          /\ xml'[f(i, v, m)] = xml[f(i, v, m)] /\ out'[f(i, v, m)] = out[f(i, v, m)]
          /\ \A r \in Run : rows'[r][f(i, v, m)] = rows[r][f(i, v, m)]
  <2> SUFFICES ASSUME NEW i \in Institution, NEW v \in Version, NEW m \in 1..Entries[i],
                      <<i, v, m>> # <<j, g.ver, n>>
               PROVE  /\ xml'[<<i, v, m>>] = xml[<<i, v, m>>] /\ out'[<<i, v, m>>] = out[<<i, v, m>>]
                      /\ \A r \in Run : rows'[r][<<i, v, m>>] = rows[r][<<i, v, m>>]
    OBVIOUS
  <2>1. <<i, v, m>> \in Target
    BY <1>6
  <2>2. xml'[<<i, v, m>>] = xml[<<i, v, m>>] /\ out'[<<i, v, m>>] = out[<<i, v, m>>]
    BY <1>2, <1>8, <2>1 DEF OthersOK
  <2>3. ASSUME NEW r \in Run PROVE rows'[r][<<i, v, m>>] = rows[r][<<i, v, m>>]
    <3>1. rows[r] \in [Target -> Nat]
      BY <1>2 DEF OthersOK
    <3>2. CASE rows' = [rows EXCEPT ![g.run][<<j, g.ver, n>>] = @ + 1]
      <4>1. rows'[r] = IF r = g.run THEN [rows[r] EXCEPT ![<<j, g.ver, n>>] = @ + 1] ELSE rows[r]
        BY <1>2, <3>2 DEF OthersOK
      <4> QED  BY <2>1, <3>1, <4>1
    <3> QED  BY <1>8, <3>2
  <2> QED  BY <2>2, <2>3
<1>10. <<j, g.ver, n>> \in Target
  BY <1>3, <1>5, <1>6
<1>11. /\ xml'[<<j, g.ver, n>>] = IF state = "done" THEN 0 ELSE n
       /\ out'[<<j, g.ver, n>>] = n
       /\ state \in {"attached", "done"} => rows'[g.run][<<j, g.ver, n>>] > 0
  <2>1. xml'[<<j, g.ver, n>>] = IF state = "done" THEN 0 ELSE n
    BY <1>2, <1>5, <1>8, <1>10 DEF OthersOK
  <2>2. out'[<<j, g.ver, n>>] = n
    BY <1>0, <1>2, <1>3, <1>5, <1>8, <1>10 DEF OthersOK, Processed
  <2>3. g.jobs[n] = "attached" => rows[g.run][<<j, g.ver, n>>] > 0
    BY <1>0, <1>3, <1>5 DEF Processed
  <2>4. rows[g.run] \in [Target -> Nat] /\ rows[g.run][<<j, g.ver, n>>] \in Nat
    BY <1>2, <1>3, <1>10 DEF OthersOK
  <2>5. rows'[g.run][<<j, g.ver, n>>] = rows[g.run][<<j, g.ver, n>>]
        \/ rows'[g.run][<<j, g.ver, n>>] = rows[g.run][<<j, g.ver, n>>] + 1
    BY <1>2, <1>3, <1>8, <1>10, <2>4 DEF OthersOK
  <2>6. rows' = [rows EXCEPT ![g.run][<<j, g.ver, n>>] = @ + 1] =>
            rows'[g.run][<<j, g.ver, n>>] = rows[g.run][<<j, g.ver, n>>] + 1
    BY <1>2, <1>3, <1>10, <2>4 DEF OthersOK
  <2> QED  BY <1>8, <2>1, <2>2, <2>3, <2>4, <2>5, <2>6
<1>12. PICK w : w = [g EXCEPT !.jobs[n] = state]
  OBVIOUS
<1>13. /\ task' = [task EXCEPT ![t] = w] /\ w.kind = "group" /\ w.inst = j /\ w.ver = g.ver /\ w.run = g.run
       /\ w.jobs[n] = state /\ \A m \in Number : m # n => w.jobs[m] = g.jobs[m]
  BY <1>0, <1>2, <1>3, <1>8, <1>12 DEF GroupTask
<1>14. task'[t] = w
  BY <1>2, <1>13 DEF TasksOK
<1>15. Processed(task[t])'
  <2> SUFFICES ASSUME NEW m \in Number
               PROVE  /\ m \notin 1..Entries[j] => w.jobs[m] = "none"
                      /\ m \in 1..Entries[j] =>
                            /\ w.jobs[m] \in {"queued", "written", "attached", "done"}
                            /\ xml'[<<j, g.ver, m>>] = IF w.jobs[m] = "done" THEN 0 ELSE m
                            /\ w.jobs[m] # "queued" => out'[<<j, g.ver, m>>] = m
                            /\ w.jobs[m] \in {"attached", "done"} => rows'[g.run][<<j, g.ver, m>>] > 0
    BY <1>13, <1>14 DEF Processed
  <2>1. CASE m = n
    BY <1>5, <1>11, <1>13, <2>1
  <2>2. CASE m # n
    BY <1>0, <1>3, <1>9, <1>13, <2>2 DEF Processed
  <2> QED  BY <2>1, <2>2
<1>16. \A v \in Version : v # g.ver => NoFiles(j, v)'
  BY <1>2, <1>3, <1>9 DEF NoFiles
<1>17. Doing(task[t])'
  BY <1>13, <1>14, <1>15, <1>16 DEF Doing
<1>18. \A i \in Institution : i # j => Same(i)
  BY <1>2, <1>9 DEF Same
<1> QED  BY <1>2, <1>13, <1>17, <1>18, MovesOn

\* The success callback of the xml jobs deletes the last file of the institution.
LEMMA GroupProgress ==
    ASSUME IInv, ProgressInv, NEW t \in Task, GroupSuccess(t), \A r, s \in Run : r = s
    PROVE  ProgressInv'
<1>0. PICK g, j : g = task[t] /\ j = g.inst
  OBVIOUS
<1>1. /\ g.kind = "group" /\ Has(t, j) /\ TasksOK /\ OthersOK
      /\ UNCHANGED <<full, xml, out, rows>> /\ zips' = zips \ {<<j, g.ver>>}
      /\ task' = [task EXCEPT ![t] = Free] /\ \A n \in Number : g.jobs[n] \in {"none", "done"}
  BY <1>0 DEF GroupSuccess, Has, IInv
<1>2. /\ g \in GroupTask /\ j \in Institution /\ Processed(g) /\ g.ver \in Version /\ g.run \in Run
      /\ \A v \in Version : v # g.ver => NoFiles(j, v)
      /\ \A u \in Task : Has(u, j) => u = t
  BY <1>0, <1>1, Kinds, Mine DEF TasksOK, Doing, GroupTask
<1>3. task'[t] = Free /\ \A u \in Task : u # t => task'[u] = task[u]
  BY <1>1 DEF TasksOK
<1>4. \A n \in 1..Entries[j] :
          xml[<<j, g.ver, n>>] = 0 /\ out[<<j, g.ver, n>>] = n /\ rows[g.run][<<j, g.ver, n>>] > 0
  <2>1. \A n \in 1..Entries[j] : n \in Number /\ g.jobs[n] = "done"
    BY <1>0, <1>1, <1>2, Numbers DEF Processed
  <2> QED  BY <1>0, <2>1, <1>2 DEF Processed
<1>5. \A v \in Version : NoFiles(j, v)'
  BY <1>1, <1>2, <1>4 DEF NoFiles
<1>6. Complete(j)'
  <2>1. \A r \in Run : r = g.run
    BY <1>2
  <2> QED  BY <1>1, <1>2, <1>4, <2>1 DEF Complete
<1>7. /\ \A r \in Run : full[r] = "open"
      /\ \A u \in Task : ~Is(u, "start", "queued")
      /\ ~Unstarted
  BY <1>1, InHand, HasTyped DEF ProgressInv
<1>8. StartFirst'
  <2>1. \A u \in Task : ~Is(u, "start", "queued")'
    BY <1>3, <1>7 DEF Is, Free
  <2> QED  BY <1>1, <1>7, <2>1 DEF StartFirst
<1>9. \A u \in Task : ~Has(u, j)'
  BY <1>2, <1>3 DEF Has, Free
<1>10. ASSUME NEW i \in Institution, i # j PROVE InstOK(i)'
  <2>1. ~Has(t, i) /\ ~Has(t, i)'
    BY <1>0, <1>3, <1>10 DEF Has, Free
  <2>2. \A u \in Task : (Has(u, i)' <=> Has(u, i)) /\ (Has(u, i) => task'[u] = task[u])
    BY <1>3, <2>1 DEF Has
  <2>3. Same(i)
    BY <1>1, <1>10 DEF Same
  <2> QED  BY <1>1, <1>7, <2>2, <2>3, Kept DEF ProgressInv
<1>11. InstOK(j)'
  BY <1>5, <1>6, <1>9 DEF InstOK
<1> QED  BY <1>8, <1>10, <1>11 DEF ProgressInv

LEMMA AckProgress ==
    ASSUME IInv, ProgressInv, NEW t \in Task, Ack(t)
    PROVE  ProgressInv'
<1>1. /\ task[t].kind \in {"start", "csv", "download"} /\ task[t].step = "pushed" /\ TasksOK
      /\ task' = [task EXCEPT ![t] = Free] /\ UNCHANGED <<full, disk, rows>>
  BY DEF Ack, IInv
<1>2. task'[t] = Free /\ \A u \in Task : u # t => task'[u] = task[u]
  BY <1>1 DEF TasksOK
<1>3. /\ \A r \in Run : full[r] = "open"
      /\ \A u \in Task : ~Is(u, "start", "queued")
      /\ ~Unstarted
  BY <1>1, InHand DEF ProgressInv, Is, Free
<1>4. StartFirst'
  <2>1. \A u \in Task : ~Is(u, "start", "queued")'
    BY <1>2, <1>3 DEF Is, Free
  <2> QED  BY <1>1, <1>3, <2>1 DEF StartFirst
<1>5. ASSUME NEW i \in Institution PROVE InstOK(i)'
  <2>0. ~Has(t, i) /\ ~Has(t, i)'
    BY <1>1, <1>2 DEF Has, Free
  <2>1. \A u \in Task : (Has(u, i)' <=> Has(u, i)) /\ (Has(u, i) => task'[u] = task[u])
    BY <1>2, <2>0 DEF Has
  <2> QED  BY <1>1, <1>3, <2>1, SameFiles, Kept DEF ProgressInv
<1> QED  BY <1>4, <1>5 DEF ProgressInv

\* S3 and the event of the run; with MaxKills = 0, KillFull is never taken.
LEMMA EventProgress ==
    ASSUME IInv, ProgressInv, \A r, s \in Run : r = s,
           \/ \E i \in Institution : NewExport(i)
           \/ \E r \in Run : CreateDump(r) \/ OverallSuccess(r)
    PROVE  ProgressInv'
<1>1. UNCHANGED task /\ TasksOK
  BY DEF NewExport, CreateDump, OverallSuccess, IInv
<1>2. \A t \in Task : \A i : Has(t, i)' <=> Has(t, i)
  BY <1>1 DEF Has
<1>3. ASSUME NEW i \in Institution, NewExport(i) PROVE ProgressInv'
  <2>1. UNCHANGED <<full, disk, rows>>
    BY <1>3 DEF NewExport
  <2>2. StartFirst' /\ Unstarted' = Unstarted
    BY <1>1, <2>1 DEF ProgressInv, StartFirst, Unstarted, Is
  <2> QED  BY <1>1, <1>2, <2>1, <2>2, SameFiles, Kept DEF ProgressInv
<1>4. ASSUME NEW r \in Run, CreateDump(r) \/ OverallSuccess(r)
      PROVE  /\ \A t \in Task : task[t] = Free
             /\ StartFirst' /\ \A t \in Task : \A i : ~Has(t, i) /\ ~Has(t, i)'
  <2>1. \A t \in Task : task[t] = Free
    <3>1. CASE full[r] # "open"
      BY <3>1 DEF ProgressInv, StartFirst
    <3>2. CASE full[r] = "open"
      <4>1. Open(r) = {}
        BY <1>4, <3>2 DEF CreateDump, OverallSuccess
      <4>2. \A t \in Task : task[t] # Free => task[t].run \in Run
        BY <1>1 DEF TasksOK, AnyTask, StartTask, CsvTask, DownloadTask, GroupTask
      <4> QED  BY <4>1, <4>2 DEF Open
    <3> QED  BY <3>1, <3>2
  <2>2. StartFirst'
    BY <1>1, <2>1 DEF StartFirst
  <2> QED  BY <1>2, <2>1, <2>2 DEF Has, Free
<1>5. ASSUME NEW r \in Run, CreateDump(r) PROVE ProgressInv'
  <2>1. zips' = {} /\ xml' = [f \in Target |-> 0] /\ full' = [full EXCEPT ![r] = "created"]
    BY <1>5 DEF CreateDump
  <2>2. \A s \in Run : full'[s] = "created"
    BY <2>1 DEF IInv, OthersOK
  <2>3. \A i \in Institution, v \in Version : NoFiles(i, v)'
    BY <2>1, Targets DEF NoFiles
  <2>4. \A i \in Institution : InstOK(i)'
    BY <1>4, <1>5, <2>2, <2>3 DEF InstOK, Unstarted
  <2> QED  BY <1>4, <1>5, <2>4 DEF ProgressInv
<1>6. ASSUME NEW r \in Run, OverallSuccess(r) PROVE ProgressInv'
  <2>1. full[r] = "open" /\ UNCHANGED <<disk, rows>>
    BY <1>6 DEF OverallSuccess
  <2>2. ~Unstarted
    BY <1>4, <1>6, <2>1 DEF Unstarted, Is, Free
  <2> QED  BY <1>1, <1>2, <1>4, <1>6, <2>1, <2>2, SameFiles, Kept DEF ProgressInv
<1> QED  BY <1>3, <1>5, <1>6

LEMMA OpenProgress ==
    ASSUME IInv, ProgressInv, NEW r \in Run, OpenOverall(r), \A q, s \in Run : q = s
    PROVE  ProgressInv'
<1>1. full[r] = "created" /\ UNCHANGED <<disk, rows>> /\ full' = [full EXCEPT ![r] = "open"]
  BY DEF OpenOverall
<1>2. \A t \in Task : task[t] = Free
  BY <1>1 DEF ProgressInv, StartFirst
<1>3. PICK t \in Task : task' = [task EXCEPT ![t] = Start(r)]
  BY DEF OpenOverall, FreeTasks
<1>4. task'[t] = Start(r) /\ \A u \in Task : u # t => task'[u] = Free
  BY <1>2, <1>3 DEF IInv, TasksOK
<1>5. \A s \in Run : full'[s] = "open"
  BY <1>1 DEF IInv, OthersOK
<1>6. StartFirst' /\ Unstarted'
  BY <1>4, <1>5 DEF StartFirst, Unstarted, Is, Start, Free
<1>7. \A u \in Task : \A i : ~Has(u, i) /\ ~Has(u, i)'
  BY <1>2, <1>4 DEF Has, Start, Free
<1>8. \A i \in Institution, v \in Version : NoFiles(i, v)'
  BY <1>1, <1>7 DEF ProgressInv, InstOK, NoFiles, disk
<1>9. \A i \in Institution : InstOK(i)'
  BY <1>6, <1>7, <1>8 DEF InstOK
<1> QED  BY <1>6, <1>9 DEF ProgressInv

LEMMA StartProgress ==
    ASSUME IInv, ProgressInv, NEW t \in Task, StartWorkflow(t)
    PROVE  ProgressInv'
<1>1. Is(t, "start", "queued") /\ UNCHANGED <<full, disk, rows>> /\ TasksOK
  BY DEF StartWorkflow, IInv
<1>2. /\ \A u \in Task : u # t => task[u] = Free
      /\ \A r \in Run : full[r] = "open"
  BY <1>1 DEF ProgressInv, StartFirst, Is, Free
<1>3. PICK new \in [Institution -> FreeTasks] :
        /\ \A i, j \in Institution : i # j => new[i] # new[j]
        /\ task' = [x \in Task |->
               IF x = t THEN [task[t] EXCEPT !.step = "pushed"]
               ELSE IF \E i \in Institution : new[i] = x
               THEN Csv(task[t].run, CHOOSE i \in Institution : new[i] = x)
               ELSE task[x]]
  BY DEF StartWorkflow
<1>4. \A i \in Institution : new[i] \in Task /\ new[i] # t
  BY <1>1 DEF FreeTasks, Is, Free
<1>5. \A i \in Institution : task'[new[i]] = Csv(task[t].run, i)
  <2> SUFFICES ASSUME NEW i \in Institution PROVE task'[new[i]] = Csv(task[t].run, i)
    OBVIOUS
  <2>1. (CHOOSE k \in Institution : new[k] = new[i]) = i
    BY <1>3
  <2> QED  BY <1>3, <1>4, <2>1
<1>6. task'[t].kind = "start" /\ task'[t].step = "pushed"
  <2>1. task[t] \in StartTask
    BY <1>1, Kinds DEF TasksOK, Is
  <2>2. task'[t] = [task[t] EXCEPT !.step = "pushed"]
    BY <1>3
  <2> QED  BY <2>1, <2>2 DEF StartTask
<1>7. \A u \in Task : u # t /\ (\A i \in Institution : new[i] # u) => task'[u] = Free
  BY <1>2, <1>3
<1>8. ASSUME NEW u \in Task
       PROVE  u = t \/ task'[u] = Free
                \/ \E i \in Institution : u = new[i] /\ task'[u] = Csv(task[t].run, i)
  BY <1>5, <1>7
<1>9. \A u \in Task : ~Is(u, "start", "queued")'
  <2> SUFFICES ASSUME NEW u \in Task PROVE ~(task'[u].kind = "start" /\ task'[u].step = "queued")
    BY DEF Is
  <2>1. CASE u = t
    BY <1>6, <2>1
  <2>2. CASE task'[u] = Free
    BY <2>2 DEF Free
  <2>3. ASSUME NEW i \in Institution, task'[u] = Csv(task[t].run, i) PROVE task'[u].kind = "csv"
    BY <2>3 DEF Csv
  <2> QED  BY <1>8, <2>1, <2>2, <2>3
<1>10. StartFirst'
  BY <1>1, <1>2, <1>9 DEF StartFirst
<1>11. \A u \in Task : \A i : ~Has(u, i)
  BY <1>1, <1>2 DEF Has, Is, Free
<1>12. ASSUME NEW i \in Institution PROVE InstOK(i)'
  <2>1. \A v \in Version : NoFiles(i, v)'
    BY <1>1, <1>11 DEF ProgressInv, InstOK, NoFiles, disk
  <2>2. Has(new[i], i)' /\ Doing(task[new[i]])'
    <3>1. PICK u \in Task : u = new[i]
      BY <1>4
    <3>2. task'[u] = Csv(task[t].run, i)
      BY <1>5, <3>1
    <3>3. Has(u, i)' /\ Doing(task[u])'
      BY <2>1, <3>2 DEF Has, Doing, Csv
    <3> QED  BY <3>1, <3>3
  <2>3. \A u \in Task : Has(u, i)' => u = new[i]
    <3> SUFFICES ASSUME NEW u \in Task, Has(u, i)' PROVE u = new[i]
      OBVIOUS
    <3>1. u # t /\ task'[u] # Free
      BY <1>6 DEF Has, Free
    <3>2. PICK k \in Institution : u = new[k] /\ task'[u] = Csv(task[t].run, k)
      BY <1>8, <3>1
    <3>3. k = i
      BY <3>2 DEF Has, Csv
    <3> QED  BY <3>2, <3>3
  <2> QED  BY <1>4, <2>2, <2>3 DEF InstOK
<1> QED  BY <1>10, <1>12 DEF ProgressInv

LEMMA InitProgress == Init => ProgressInv
<1> SUFFICES ASSUME Init PROVE ProgressInv
  OBVIOUS
<1>1. \A t \in Task : task[t] = Free
  BY DEF Init
<1>2. StartFirst
  BY <1>1 DEF StartFirst
<1>3. \A i \in Institution, v \in Version : NoFiles(i, v)
  BY Targets DEF Init, NoFiles
<1>4. \A t \in Task : \A i : ~Has(t, i)
  BY <1>1 DEF Has, Free
<1>5. Unstarted
  BY DEF Init, Unstarted
<1> QED  BY <1>2, <1>3, <1>4, <1>5 DEF ProgressInv, InstOK

LEMMA NextProgress ==
    ASSUME MaxKills = 0, \A r, s \in Run : r = s, IInv, ProgressInv, [Next]_vars
    PROVE  ProgressInv'
<1>1. CASE UNCHANGED vars
  <2>1. UNCHANGED <<task, full, disk, rows>>
    BY <1>1 DEF vars
  <2>2. \A t \in Task : \A i : Has(t, i)' <=> Has(t, i)
    BY <2>1 DEF Has
  <2>3. StartFirst' /\ Unstarted' = Unstarted
    BY <2>1 DEF ProgressInv, StartFirst, Unstarted, Is
  <2> QED  BY <2>1, <2>2, <2>3, SameFiles, Kept DEF ProgressInv, IInv
<1>2. CASE Next
  <2>1. ~(kills < MaxKills)
    BY DEF IInv, OthersOK
  <2> QED
    BY <1>2, <2>1, EventProgress, OpenProgress, StartProgress, AckProgress, CsvProgress, CsvSuccessProgress,
       DownloadProgress, PushProgress, XmlProgress, GroupProgress
    DEF Next, RunTask, KillTask, KillFull
<1> QED  BY <1>1, <1>2

\* A run that nobody kills, the only one, has attached every entry of an export of each
\* institution when it succeeds: no xml job and no zip is left out between the batches, however
\* many institutions there are and whenever SCSB exports again.
THEOREM SuccessCompletes ==
    ASSUME MaxKills = 0, \A r, s \in Run : r = s
    PROVE  Spec => []SuccessIsComplete
<1>1. ProgressInv => SuccessIsComplete
  <2> SUFFICES ASSUME ProgressInv, NEW r \in Run, full[r] = "success", NEW i \in Institution
               PROVE  \E v \in Version : \A e \in 1..Entries[i] : \E n \in 1..Entries[i] :
                          rows[r][<<i, v, n>>] > 0 /\ out[<<i, v, n>>] = e
    BY DEF SuccessIsComplete
  <2>1. \A t \in Task : task[t] = Free
    BY DEF ProgressInv, StartFirst
  <2>2. ~Unstarted /\ \A t \in Task : ~Has(t, i)
    BY <2>1 DEF Unstarted, Is, Has, Free
  <2>3. Complete(i)
    BY <2>2 DEF ProgressInv, InstOK
  <2>4. PICK v \in Version : \A e \in 1..Entries[i] : rows[r][<<i, v, e>>] > 0 /\ out[<<i, v, e>>] = e
    BY <2>3 DEF Complete
  <2> QED  BY <2>4
<1> QED  BY <1>1, InitIInv, NextIInv, InitProgress, NextProgress, PTL DEF Spec

\* The same run leaves no zip and no xml file of any institution behind.
THEOREM SuccessTidies ==
    ASSUME MaxKills = 0, \A r, s \in Run : r = s
    PROVE  Spec => []SuccessIsTidy
<1>1. IInv /\ ProgressInv => SuccessIsTidy
  <2> SUFFICES ASSUME IInv, ProgressInv, NEW r \in Run, full[r] = "success"
               PROVE  zips = {} /\ \A f \in Target : xml[f] = 0
    BY DEF SuccessIsTidy
  <2>1. \A t \in Task : task[t] = Free
    BY DEF ProgressInv, StartFirst
  <2>2. \A i \in Institution, t \in Task : ~Has(t, i)
    BY <2>1 DEF Has, Free
  <2>3. \A i \in Institution, v \in Version : NoFiles(i, v)
    BY <2>2 DEF ProgressInv, InstOK
  <2>4. zips = {}
    BY <2>3 DEF IInv, OthersOK, Zip, NoFiles
  <2>5. ASSUME NEW f \in Target PROVE xml[f] = 0
    <3>1. PICK i \in Institution : f \in {i} \X Version \X (1..Entries[i])
      BY DEF Target
    <3>2. PICK v \in Version, n \in 1..Entries[i] : f = <<i, v, n>>
      BY <3>1
    <3> QED  BY <2>3, <3>2 DEF NoFiles
  <2> QED  BY <2>4, <2>5
<1> QED  BY <1>1, InitIInv, NextIInv, InitProgress, NextProgress, PTL DEF Spec
============================================================================
