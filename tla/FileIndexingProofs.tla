------------------------- MODULE FileIndexingProofs -------------------------
(***************************************************************************)
(* Proofs about the file of a DumpFile, for any number of jobs, retries    *)
(* and kills and whatever traject does: a whole copy of the file is always *)
(* kept, and only a kill in the gap between the deletion of a copy and the *)
(* save of the path, or an error of that save, parts the row from it.  The *)
(* inductive invariant, StorageInv, says what the disk holds at each step  *)
(* of the one job that works.  On top of it, AccountInv says what a run of *)
(* traject accounts for, at each of its steps and whatever its threads     *)
(* have raised, so that a job that ends done has indexed its file, unless  *)
(* its last traject ended without a word.                                  *)
(***************************************************************************)
EXTENDS FileIndexing, FiniteSetTheorems, TLAPS

USE DEF Running, Ended, Unzipping, Zipping, Reading, Content

LEMMA StorageInitially == StorageInit => StorageInv
<1> SUFFICES ASSUME StorageInit PROVE StorageInv OBVIOUS
<1>1. \A j \in Job : job[j] = "waiting" BY DEF StorageInit
<1>2. StorageTypeOK
  <2>1. tries \in [Job -> 0 .. MaxRetries] BY StorageAssumption DEF StorageInit
  <2>2. kills \in 0 .. MaxKills BY StorageAssumption DEF StorageInit
  <2> QED BY <2>1, <2>2 DEF StorageInit, StorageTypeOK
<1>3. Alone BY <1>1 DEF Alone
<1>4. RowOrOther /\ PartedInTheGap BY DEF StorageInit, RowOrOther, PartedInTheGap, RowWhole
<1>5. \A j \in Job : Expects(job[j]) BY <1>1 DEF Expects
<1> QED BY <1>2, <1>3, <1>4, <1>5 DEF StorageInv

\* Each step keeps the types.
LEMMA TypesKept ==
    ASSUME StorageTypeOK, NEW j \in Job,
           Take(j) \/ Step(j) \/ Kill(j) \/ \E fatal \in BOOLEAN : TrajectEnds(j, fatal)
    PROVE  StorageTypeOK'
<1> USE StorageAssumption DEF StorageTypeOK
<1>1. CASE Take(j) BY <1>1 DEF Take
<1>2. CASE Kill(j) BY <1>2 DEF Kill
<1>3. CASE \E fatal \in BOOLEAN : TrajectEnds(j, fatal) BY <1>3 DEF TrajectEnds, Goes, Fails, Raises, Raises
<1>4. CASE Step(j)
  <2>1. CASE OpenPlain(j) BY <2>1 DEF OpenPlain, Goes, Fails, Raises, Raises
  <2>2. CASE WritePlain(j) BY <2>2 DEF WritePlain, Goes, Fails, Raises, Raises
  <2>3. CASE DeleteGz(j) BY <2>3 DEF DeleteGz, Goes, Fails, Raises, Raises
  <2>4. CASE SavePlain(j) BY <2>4 DEF SavePlain, Goes
  <2>5. CASE Open(j) BY <2>5 DEF Open, Goes, Fails, Raises, Raises
  <2>6. CASE OpenTar(j) BY <2>6 DEF OpenTar, Goes
  <2>7. CASE OpenGz(j) BY <2>7 DEF OpenGz, Goes, Fails, Raises, Raises
  <2>8. CASE WriteGz(j) BY <2>8 DEF WriteGz, Goes
  <2>9. CASE DeletePlain(j) BY <2>9 DEF DeletePlain, Goes, Fails, Raises, Raises
  <2>10. CASE SaveGz(j) BY <2>10 DEF SaveGz, Goes
  <2>11. CASE SaveFails(j) BY <2>11 DEF SaveFails, Raises
  <2> QED BY <1>4, <2>1, <2>2, <2>3, <2>4, <2>5, <2>6, <2>7, <2>8, <2>9, <2>10, <2>11 DEF Step
<1> QED BY <1>1, <1>2, <1>3, <1>4

\* The one job that works keeps the disk as it expects it.
LEMMA DiskKept ==
    ASSUME StorageInv, NEW j \in Job, ~shared',
           Take(j) \/ Step(j) \/ Kill(j) \/ \E fatal \in BOOLEAN : TrajectEnds(j, fatal)
    PROVE  Alone' /\ RowOrOther' /\ PartedInTheGap' /\ \A k \in Job : Expects(job[k])'
<1> USE DEF StorageTypeOK, Alone, RowOrOther, PartedInTheGap, RowWhole, Expects
<1>0. ~shared /\ StorageTypeOK /\ Alone /\ RowOrOther /\ PartedInTheGap /\ \A k \in Job : Expects(job[k])
  <2>1. ~shared
    BY DEF StorageInv, Take, Step, Kill, TrajectEnds, OpenPlain, WritePlain, DeleteGz, SavePlain, Open,
           OpenTar, OpenGz, WriteGz, DeletePlain, SaveGz, SaveFails, Goes, Fails, Raises, Raises
  <2> QED BY <2>1 DEF StorageInv
<1>1. CASE Take(j) BY <1>0, <1>1 DEF Take
<1>2. CASE Kill(j) BY <1>0, <1>2 DEF Kill
<1>3. CASE \E fatal \in BOOLEAN : TrajectEnds(j, fatal) BY <1>0, <1>3 DEF TrajectEnds, Goes, Fails, Raises, Raises
<1>4. CASE Step(j)
  <2>1. CASE OpenPlain(j) BY <1>0, <2>1 DEF OpenPlain, Goes, Fails, Raises, Raises
  <2>2. CASE WritePlain(j) BY <1>0, <2>2 DEF WritePlain, Goes, Fails, Raises, Raises
  <2>3. CASE DeleteGz(j)
    <3>1. job' = [job EXCEPT ![j] = "cut"] /\ gz' = "missing" /\ UNCHANGED <<row, plain, parted>>
      BY <1>0, <2>3 DEF DeleteGz, Goes
    <3>2. row = "gz" /\ plain = "whole" /\ job[j] = "unzipped" BY <1>0, <2>3 DEF DeleteGz
    <3>3. Alone' BY <1>0, <3>1, <3>2
    <3>4. PartedInTheGap' BY <1>0, <3>1
    <3>5. \A k \in Job : Expects(job[k])' BY <1>0, <3>1, <3>2
    <3> QED BY <3>1, <3>2, <3>3, <3>4, <3>5
  <2>4. CASE SavePlain(j) BY <1>0, <2>4 DEF SavePlain, Goes
  <2>5. CASE Open(j) BY <1>0, <2>5 DEF Open, Goes, Fails, Raises, Raises
  <2>6. CASE OpenTar(j) BY <1>0, <2>6 DEF OpenTar, Goes
  <2>7. CASE OpenGz(j) BY <1>0, <2>7 DEF OpenGz, Goes, Fails, Raises, Raises
  <2>8. CASE WriteGz(j) BY <1>0, <2>8 DEF WriteGz, Goes
  <2>9. CASE DeletePlain(j) BY <1>0, <2>9 DEF DeletePlain, Goes, Fails, Raises, Raises
  <2>10. CASE SaveGz(j) BY <1>0, <2>10 DEF SaveGz, Goes
  <2>11. CASE SaveFails(j) BY <1>0, <2>11 DEF SaveFails, Raises
  <2> QED BY <1>4, <2>1, <2>2, <2>3, <2>4, <2>5, <2>6, <2>7, <2>8, <2>9, <2>10, <2>11 DEF Step
<1> QED BY <1>1, <1>2, <1>3, <1>4

\* Every step of the composition is a step of one job on the storage, or leaves it alone.
LEMMA StorageStep ==
    ASSUME [Next]_vars
    PROVE  \/ UNCHANGED storageVars \/ KillTraject
           \/ \E j \in Job : Take(j) \/ Step(j) \/ Kill(j) \/ \E fatal \in BOOLEAN : TrajectEnds(j, fatal)
BY DEF Next, vars, TakeStep, JobStep, StartTraject, RunTraject, EndTraject, KillTraject, KillJob, Finished

LEMMA StorageInductive ==
    ASSUME StorageInv, [Next]_vars
    PROVE  StorageInv'
<1>1. CASE UNCHANGED storageVars
  BY <1>1 DEF StorageInv, storageVars, StorageTypeOK, Alone, RowOrOther, PartedInTheGap, RowWhole, Expects
<1>2. ASSUME NEW j \in Job,
             Take(j) \/ Step(j) \/ Kill(j) \/ \E fatal \in BOOLEAN : TrajectEnds(j, fatal)
      PROVE  StorageInv'
  BY <1>2, TypesKept, DiskKept DEF StorageInv
<1>3. CASE KillTraject
  <2>1. UNCHANGED <<row, plain, gz, job, tries, shared, parted>> /\ kills < MaxKills /\ kills' = kills + 1
    BY <1>3 DEF KillTraject
  <2>2. StorageTypeOK'
    BY <2>1, StorageAssumption DEF StorageInv, StorageTypeOK
  <2> QED
    BY <2>1, <2>2 DEF StorageInv, Alone, RowOrOther, PartedInTheGap, RowWhole, Expects
<1> QED BY <1>1, <1>2, <1>3, StorageStep

LEMMA StorageInvariant == Spec => []StorageInv
<1>1. Init => StorageInv BY StorageInitially DEF Init
<1> QED BY <1>1, StorageInductive, PTL DEF Spec

\* A whole copy of the file is on disk at all times, whatever fails and whoever is killed, as
\* long as no two jobs work on it at once.
THEOREM CopyKept == Spec => []FileKept
<1>1. StorageInv => FileKept BY DEF StorageInv, StorageTypeOK, RowOrOther, FileKept
<1> QED BY <1>1, StorageInvariant, PTL

\* Between jobs the row names a whole file, unless a job was killed, or its save failed, in the gap.
THEOREM RowKept == Spec => []RowNamesFile
<1>1. StorageInv => RowNamesFile
  BY DEF StorageInv, StorageTypeOK, PartedInTheGap, RowWhole, RowNamesFile
<1> QED BY <1>1, StorageInvariant, PTL
---------------------------------------------------------------------------
(* What one run of traject accounts for.                                   *)

\* The records mapped so far, those on their way to Solr, and the good ones that are lost.
Mapped == {File[i] : i \in 1 .. next - 1}
InTransit == {r \in Records : \/ r \in queue
                              \/ \E b \in batches : r \in b
                              \/ \E t \in Threads : r \in single[t]}
Lost == (Good \cap Mapped) \ (solr \cup InTransit)

Busy == {"mapping", "closing", "deleting"}

\* Nothing is lost without being counted, as long as the pool holds no exception.
Counted ==
    phase \in Busy /\ ~raised => skipped <= MaxSkipped /\ Cardinality(Lost) <= skipped

\* A closing run has mapped its file; a deleting one has sent it, with no exception left.
PhaseOK ==
    /\ phase \in {"closing", "deleting"} => next = Len(File) + 1 /\ queue = {}
    /\ phase = "deleting" => ~raised /\ Idle
    /\ phase \in Busy => Deleted \cap Mapped \subseteq deletedIds /\ deletedIds \subseteq Deleted

\* What SuccessAccounts asks of the collection docs of a run.
Accounted(docs, failed) ==
    /\ Cardinality(Good \ docs) <= MaxSkipped
    /\ Deleted \cap docs = {} \/ failed

WriterTypes ==
    /\ phase \in Busy \cup {"off", "ok", "fatal", "unheard"}
    /\ next \in 1 .. Len(File) + 1
    /\ skipped \in Nat /\ raised \in BOOLEAN
    /\ queue \subseteq Records /\ batches \subseteq SUBSET Records
    /\ single \in [Threads -> SUBSET Records]

WriterInv ==
    /\ WriterTypes /\ Counted /\ PhaseOK
    /\ phase = "ok" => Accounted(solr, undeleted # "no")

\* A writer that has read and sent nothing.
Blank ==
    /\ next = 1 /\ queue = {} /\ batches = {} /\ single = [t \in Threads |-> {}]
    /\ skipped = 0 /\ raised = FALSE /\ deletedIds = {}

\* The traject that runs is that of a job that waits for it.
ReaderOK ==
    /\ reader # Nobody => reader \in Job /\ job[reader] = "traject"
    /\ reader = Nobody => phase = "off" /\ Blank

\* The jobs past a traject that was heard of have indexed their file.
JobsAccounted ==
    \A j \in Job \ unheard : job[j] \in Zipping \cup {"done"} => Accounted(left[j], j \in unsure)

AccountInv ==
    /\ StorageInv /\ ReaderOK /\ DOMAIN left = Job
    /\ ~shared => WriterInv /\ JobsAccounted

---------------------------------------------------------------------------

LEMMA RecordsFinite ==
    /\ IsFiniteSet(Records)
    /\ Len(File) \in Nat /\ DOMAIN File = 1 .. Len(File) /\ File \in [1 .. Len(File) -> Records]
<1>1. /\ Len(File) \in Nat /\ DOMAIN File = 1 .. Len(File) /\ File \in [1 .. Len(File) -> Records]
  BY WriterAssumption
<1>2. File \in Surjection(1 .. Len(File), Records)
  BY <1>1 DEF Surjection, Records
<1>3. IsFiniteSet(1 .. Len(File))
  BY <1>1, FS_Interval
<1> QED
  BY <1>1, <1>2, <1>3, FS_Surjection

\* A set of good records is finite, and no larger than what it is part of.
LEMMA Counts ==
    ASSUME NEW S \in SUBSET Good
    PROVE  /\ IsFiniteSet(S) /\ Cardinality(S) \in Nat
           /\ \A T \in SUBSET S : Cardinality(T) <= Cardinality(S)
           /\ \A T \in SUBSET Good : \A r :
                 T \subseteq S \cup {r} => Cardinality(T) <= Cardinality(S) + 1
<1>1. \A T \in SUBSET Good : IsFiniteSet(T) /\ Cardinality(T) \in Nat
  BY RecordsFinite, FS_Subset, FS_CardinalityType DEF Good
<1>2. \A T \in SUBSET S : Cardinality(T) <= Cardinality(S)
  BY <1>1, FS_Subset
<1>3. ASSUME NEW T \in SUBSET Good, NEW r, T \subseteq S \cup {r}
      PROVE  Cardinality(T) <= Cardinality(S) + 1
  <2>1. /\ IsFiniteSet(S \cup {r})
        /\ Cardinality(S \cup {r}) = Cardinality(S) \/ Cardinality(S \cup {r}) = Cardinality(S) + 1
    BY <1>1, FS_AddElement
  <2>2. Cardinality(T) <= Cardinality(S \cup {r})
    BY <1>3, <2>1, FS_Subset
  <2> QED
    BY <1>1, <2>1, <2>2
<1> QED
  BY <1>1, <1>2, <1>3

LEMMA LostGood == Lost \subseteq Good /\ Lost' \subseteq Good
  BY DEF Lost

\* A step that loses nothing more keeps the count.
LEMMA NothingLost ==
    ASSUME WriterInv, phase \in Busy, ~raised, Lost' \subseteq Lost, skipped' = skipped
    PROVE  Counted'
<1>1. Cardinality(Lost) <= skipped /\ skipped <= MaxSkipped /\ skipped \in Nat
  BY DEF WriterInv, Counted, WriterTypes
<1>2. Cardinality(Lost') <= Cardinality(Lost) /\ Cardinality(Lost) \in Nat /\ Cardinality(Lost') \in Nat
  BY LostGood, Counts
<1> QED
  BY <1>1, <1>2 DEF Counted

LEMMA MapKeeps ==
    ASSUME WriterInv, Map
    PROVE  WriterInv'
<1> USE DEF WriterInv
<1>1. /\ phase = "mapping" /\ next \in 1 .. Len(File) /\ next' = next + 1
      /\ UNCHANGED <<phase, single, skipped, raised, solr, undeleted>>
  BY RecordsFinite DEF Map, WriterTypes
<1> DEFINE r == File[next]
<1>2. Mapped' = Mapped \cup {r} /\ r \in Records
  BY <1>1, RecordsFinite DEF Mapped
<1>3. ASSUME queue' \subseteq Records, batches' \subseteq SUBSET Records PROVE WriterTypes'
  <2>1. next + 1 \in 1 .. Len(File) + 1
    BY <1>1, RecordsFinite
  <2> QED
    BY <1>1, <1>3, <2>1 DEF WriterTypes
<1>4. CASE r \in Deleted
  <2>1. deletedIds' = deletedIds \cup {r} /\ UNCHANGED <<queue, batches>>
    BY <1>4 DEF Map, Deleted, Invalid
  <2>2. Lost' \subseteq Lost
    BY <1>1, <1>2, <1>4, <2>1 DEF Lost, InTransit, Good, Deleted
  <2>3. Counted'
    BY <1>1, <2>2, NothingLost DEF Counted, Busy
  <2>4. PhaseOK'
    BY <1>1, <1>2, <1>4, <2>1 DEF PhaseOK, Busy
  <2> QED
    BY <1>1, <1>3, <2>1, <2>3, <2>4 DEF WriterTypes
<1>5. CASE r \in Invalid
  <2>1. UNCHANGED <<queue, batches, deletedIds>> /\ r \notin Good \cup Deleted
    BY <1>5 DEF Map, Good, Deleted, Invalid
  <2>2. Lost' \subseteq Lost
    BY <1>1, <1>2, <2>1 DEF Lost, InTransit
  <2>3. Counted'
    BY <1>1, <2>2, NothingLost DEF Counted, Busy
  <2>4. PhaseOK'
    BY <1>1, <1>2, <2>1 DEF PhaseOK, Busy
  <2> QED
    BY <1>1, <1>3, <2>1, <2>3, <2>4 DEF WriterTypes
<1>6. CASE r \notin Deleted \cup Invalid
  <2>1. ~raised /\ Put(r)
    BY <1>6 DEF Map
  <2>2. /\ deletedIds' = deletedIds
        /\ \/ queue' = {} /\ batches' = batches \cup {queue \cup {r}}
           \/ queue' = queue \cup {r} /\ batches' = batches
    BY <2>1 DEF Put
  <2>7. \A s : s \in InTransit \/ s = r => s \in InTransit'
    BY <1>1, <1>2, <2>2 DEF InTransit
  <2>3. Lost' \subseteq Lost
    BY <1>1, <1>2, <2>7 DEF Lost
  <2>4. Counted'
    BY <1>1, <2>1, <2>3, NothingLost DEF Busy
  <2>5. PhaseOK'
    BY <1>1, <1>2, <1>6, <2>2 DEF PhaseOK, Busy
  <2>6. WriterTypes'
    BY <1>2, <1>3, <2>2 DEF WriterTypes
  <2> QED
    BY <1>1, <2>4, <2>5, <2>6
<1> QED
  BY <1>4, <1>5, <1>6

LEMMA BlankTypes ==
    1 \in 1 .. Len(File) + 1 /\ [t \in Threads |-> {}] \in [Threads -> SUBSET Records]
  BY RecordsFinite

\* A run that ends badly accounts for nothing.
LEMMA BadEndKeeps ==
    ASSUME WriterInv, NEW how \in {"fatal", "unheard"}, Ends(how)
    PROVE  WriterInv'
<1>1. phase' = how /\ next' = 1 /\ skipped' = 0 /\ raised' = FALSE /\ queue' = {} /\ batches' = {}
      /\ single' = [t \in Threads |-> {}]
  BY DEF Ends, Reset
<1>2. WriterTypes'
  BY <1>1, BlankTypes DEF WriterTypes
<1> QED
  BY <1>1, <1>2 DEF WriterInv, Counted, PhaseOK, Busy

LEMMA CloseKeeps ==
    ASSUME WriterInv, Close, ~raised
    PROVE  WriterInv'
<1>1. /\ phase = "mapping" /\ phase' = "closing" /\ queue' = {} /\ next = Len(File) + 1
      /\ batches' = (IF queue = {} THEN batches ELSE batches \cup {queue})
      /\ UNCHANGED <<next, single, skipped, raised, deletedIds, solr, undeleted>>
  BY RecordsFinite DEF Close, WriterInv, WriterTypes
<1>2. InTransit' = InTransit /\ Mapped' = Mapped
  <2> QED
    BY <1>1 DEF InTransit, Mapped
<1>3. Counted'
  BY <1>1, <1>2, NothingLost DEF Lost, Busy
<1>4. PhaseOK'
  BY <1>1, <1>2 DEF WriterInv, PhaseOK, Busy
<1> QED
  BY <1>1, <1>3, <1>4 DEF WriterInv, WriterTypes, Busy

LEMMA SendKeeps ==
    ASSUME WriterInv, phase \in {"mapping", "closing"}, NEW t \in Threads, Send(t)
    PROVE  WriterInv'
<1> USE DEF WriterInv
<1>1. UNCHANGED <<phase, next, queue, deletedIds, undeleted>> /\ Mapped' = Mapped
  BY DEF Send, BatchSent, BatchFails, SingleSent, SingleRefused, SingleRaises, Mapped
<1>2. PhaseOK'
  BY <1>1 DEF PhaseOK, Busy
<1>3. single \in [Threads -> SUBSET Records] /\ batches \subseteq SUBSET Records /\ skipped \in Nat
  BY DEF WriterTypes
<1>4. ASSUME NEW b \in batches, BatchSent(t, b) PROVE WriterTypes' /\ Counted'
  <2>1. batches' = batches \ {b} /\ solr' = solr \cup b /\ UNCHANGED <<single, skipped, raised>>
    BY <1>4 DEF BatchSent
  <2>2. InTransit \subseteq InTransit' \cup b
    BY <1>1, <2>1 DEF InTransit
  <2>3. Lost' \subseteq Lost
    BY <1>1, <2>1, <2>2 DEF Lost
  <2>4. Counted'
    BY <1>1, <2>1, <2>3, NothingLost DEF Counted, Busy
  <2> QED
    BY <1>1, <2>1, <2>4 DEF WriterTypes
<1>5. ASSUME NEW b \in batches, BatchFails(t, b) PROVE WriterTypes' /\ Counted'
  <2>1. /\ single[t] = {} /\ batches' = batches \ {b} /\ single' = [single EXCEPT ![t] = b]
        /\ solr \subseteq solr' /\ UNCHANGED <<skipped, raised>>
    BY <1>5 DEF BatchFails, Free
  <2>2. single'[t] = b /\ \A u \in Threads : u # t => single'[u] = single[u]
    BY <1>3, <2>1
  <2>3. InTransit \subseteq InTransit'
    BY <1>1, <2>1, <2>2, RecordsFinite DEF InTransit, WriterTypes
  <2>4. Lost' \subseteq Lost
    BY <1>1, <2>1, <2>3 DEF Lost
  <2>5. Counted'
    BY <1>1, <2>1, <2>4, NothingLost DEF Counted, Busy
  <2> QED
    BY <1>1, <1>3, <2>1, <2>5 DEF WriterTypes
<1>6. ASSUME NEW r \in single[t], NEW left0 \in SUBSET single[t], single[t] \ {r} \subseteq left0,
             single' = [single EXCEPT ![t] = left0], batches' = batches
      PROVE  InTransit \subseteq InTransit' \cup {r}
  <2>1. single'[t] = left0 /\ \A u \in Threads : u # t => single'[u] = single[u]
    BY <1>3, <1>6
  <2> QED
    BY <1>1, <1>6, <2>1, RecordsFinite DEF InTransit, WriterTypes
<1>7. ASSUME NEW r \in single[t], SingleSent(t, r) PROVE WriterTypes' /\ Counted'
  <2>1. /\ single' = [single EXCEPT ![t] = single[t] \ {r}] /\ UNCHANGED <<batches, skipped, raised>>
        /\ solr' = (IF r \in Unencodable THEN solr ELSE solr \cup {r})
    BY <1>7 DEF SingleSent
  <2>2. InTransit \subseteq InTransit' \cup {r}
    BY <1>6, <2>1
  <2>3. r \in Unencodable => r \notin Good
    BY DEF Unencodable, Good
  <2>4. Lost' \subseteq Lost
    BY <1>1, <2>1, <2>2, <2>3 DEF Lost
  <2>5. Counted'
    BY <1>1, <2>1, <2>4, NothingLost DEF Counted, Busy
  <2> QED
    BY <1>1, <1>3, <2>1, <2>5 DEF WriterTypes
<1>8. ASSUME NEW r \in single[t], SingleRefused(t, r) PROVE WriterTypes' /\ Counted'
  <2>1. /\ skipped' = skipped + 1 /\ batches' = batches /\ solr \subseteq solr'
        /\ \/ skipped' > MaxSkipped /\ raised' = TRUE /\ single' = [single EXCEPT ![t] = {}]
           \/ /\ ~(skipped' > MaxSkipped) /\ single' = [single EXCEPT ![t] = single[t] \ {r}]
              /\ raised' = raised
    BY <1>8 DEF SingleRefused
  <2>2. WriterTypes'
    <3>1. single' \in [Threads -> SUBSET Records] /\ skipped' \in Nat
      BY <1>3, <2>1
    <3>2. raised' \in BOOLEAN
      BY <2>1 DEF WriterTypes
    <3> QED
      BY <1>1, <2>1, <3>1, <3>2 DEF WriterTypes
  <2>3. CASE raised' = TRUE
    BY <2>2, <2>3 DEF Counted
  <2>4. CASE raised' = FALSE
    <3>1. raised = FALSE /\ ~(skipped' > MaxSkipped) /\ single' = [single EXCEPT ![t] = single[t] \ {r}]
      BY <2>1, <2>4
    <3>2. InTransit \subseteq InTransit' \cup {r}
      BY <1>6, <2>1, <3>1
    <3>3. Lost' \subseteq Lost \cup {r}
      BY <1>1, <2>1, <3>2 DEF Lost
    <3>4. Cardinality(Lost') <= Cardinality(Lost) + 1 /\ Cardinality(Lost) \in Nat /\ Cardinality(Lost') \in Nat
      BY <3>3, LostGood, Counts
    <3>5. Cardinality(Lost) <= skipped
      BY <3>1 DEF Counted, Busy
    <3>6. Cardinality(Lost') <= skipped'
      BY <1>3, <2>1, <3>4, <3>5
    <3>7. skipped' <= MaxSkipped
      BY <1>3, <2>1, <3>1, WriterAssumption
    <3> QED
      BY <2>2, <3>6, <3>7 DEF Counted
  <2> QED
    BY <2>2, <2>3, <2>4 DEF WriterTypes
<1>9. ASSUME NEW r \in single[t], SingleRaises(t, r) PROVE WriterTypes' /\ Counted'
  BY <1>1, <1>3, <1>9 DEF SingleRaises, WriterTypes, Counted
<1>10. WriterTypes' /\ Counted'
  BY <1>4, <1>5, <1>7, <1>8, <1>9 DEF Send
<1> QED
  BY <1>1, <1>2, <1>10

\* The pool is empty once it is shut down, and nothing that was put is lost uncounted.
LEMMA ShutDownKeeps ==
    ASSUME WriterInv, ShutDown, ~raised
    PROVE  WriterInv'
<1>1. /\ phase = "closing" /\ Idle /\ phase' = "deleting"
      /\ UNCHANGED <<next, queue, batches, single, skipped, raised, deletedIds, solr, undeleted>>
  BY DEF ShutDown
<1>2. Lost' = Lost /\ Mapped' = Mapped
  BY <1>1 DEF Lost, InTransit, Mapped
<1>3. Counted'
  BY <1>1, <1>2, NothingLost DEF Busy
<1>4. PhaseOK'
  BY <1>1, <1>2 DEF WriterInv, PhaseOK, Busy, Idle, Free
<1> QED
  BY <1>1, <1>3, <1>4 DEF WriterInv, WriterTypes, Busy

LEMMA DeletingKeeps ==
    ASSUME WriterInv, Delete \/ DeleteFails
    PROVE  WriterInv'
<1>1. phase = "deleting" /\ Ends("ok")
  BY DEF Delete, DeleteFails
<1>2. /\ next = Len(File) + 1 /\ queue = {} /\ ~raised /\ Idle
      /\ Deleted \cap Mapped \subseteq deletedIds /\ deletedIds \subseteq Deleted
      /\ skipped <= MaxSkipped /\ Cardinality(Lost) <= skipped /\ skipped \in Nat
  BY <1>1 DEF WriterInv, WriterTypes, PhaseOK, Counted, Busy
<1>3. Mapped = Records
  BY <1>2, RecordsFinite DEF Mapped, Records
<1>4. InTransit = {}
  BY <1>2 DEF InTransit, Idle, Free
<1>5. Lost = Good \ solr
  BY <1>3, <1>4 DEF Lost, Good
<1>6. Good \ solr' = Good \ solr
  BY <1>2 DEF Delete, DeleteFails, Good, Deleted
<1>7. Cardinality(Good \ solr') <= MaxSkipped
  <2>1. Cardinality(Lost) \in Nat
    BY LostGood, Counts
  <2>2. Cardinality(Lost) <= MaxSkipped
    BY <1>2, <2>1, WriterAssumption
  <2> QED
    BY <1>5, <1>6, <2>2
<1>8. Deleted \cap solr' = {} \/ undeleted' # "no"
  BY <1>2, <1>3 DEF Delete, DeleteFails, Deleted
<1>9. phase' = "ok" /\ next' = 1 /\ skipped' = 0 /\ raised' = FALSE /\ queue' = {} /\ batches' = {}
      /\ single' = [t \in Threads |-> {}]
  BY <1>1 DEF Ends, Reset
<1>10. WriterTypes'
  BY <1>9, BlankTypes DEF WriterTypes
<1> QED
  BY <1>7, <1>8, <1>9, <1>10 DEF WriterInv, Counted, PhaseOK, Accounted, Busy

LEMMA WriterKeeps ==
    ASSUME WriterInv, WriterStep
    PROVE  WriterInv'
<1>1. ASSUME Ends("fatal") PROVE WriterInv'
  BY <1>1, BadEndKeeps
<1>2. CASE Close
  BY <1>1, <1>2, CloseKeeps DEF Close
<1>3. CASE ShutDown
  BY <1>1, <1>3, ShutDownKeeps DEF ShutDown
<1>4. CASE MapFails \/ DeleteRaises
  BY <1>1, <1>4 DEF MapFails, DeleteRaises
<1> QED
  BY <1>2, <1>3, <1>4, MapKeeps, SendKeeps, DeletingKeeps DEF WriterStep

---------------------------------------------------------------------------
(* The jobs around it.                                                     *)

\* The job whose traject runs is left alone by the storage steps of any job.
LEMMA StorageStepsApart ==
    ASSUME StorageInv, NEW j \in Job, Take(j) \/ Step(j)
    PROVE  \A k \in Job :
               /\ job[k] = "traject" => job'[k] = "traject"
               /\ job'[k] \in Zipping \cup {"done"} => job[k] \in Zipping \cup {"done"}
<1>1. job \in [Job -> Running \cup Ended \cup {"waiting"}] /\ row \in {"plain", "gz", "tar"}
  BY DEF StorageInv, StorageTypeOK
<1> SUFFICES ASSUME NEW k \in Job
             PROVE  /\ job[k] = "traject" => job'[k] = "traject"
                    /\ job'[k] \in Zipping \cup {"done"} => job[k] \in Zipping \cup {"done"}
  OBVIOUS
<1>2. CASE k # j
  <2>1. job'[k] = job[k]
    BY <1>1, <1>2 DEF Take, Step, OpenPlain, WritePlain, DeleteGz, SavePlain, Open, OpenTar, OpenGz, WriteGz,
       DeletePlain, SaveGz, SaveFails, Goes, Fails, Raises, Raises
  <2> QED
    BY <2>1
<1>3. CASE k = j
  <2>1. ASSUME NEW pc, job' = [job EXCEPT ![j] = pc] PROVE job'[k] = pc
    BY <1>1, <1>3, <2>1
  <2>2. CASE Take(j)
    <3>1. job[j] = "waiting" /\ (\/ job' = [job EXCEPT ![j] = "unzip"]
                                 \/ job' = [job EXCEPT ![j] = "open"]
                                 \/ job' = [job EXCEPT ![j] = "openTar"])
      BY <1>1, <2>2 DEF Take
    <3> QED
      BY <1>3, <2>1, <3>1
  <2>3. CASE Step(j)
    <3>1. ASSUME Fails(j) PROVE job'[k] \in {"waiting", "dead"}
      BY <2>1, <3>1 DEF Fails, Raises
    <3>2. CASE OpenPlain(j) \/ WritePlain(j) \/ DeleteGz(j) \/ SavePlain(j) \/ Open(j) \/ OpenTar(j)
      BY <1>3, <2>1, <3>1, <3>2 DEF OpenPlain, WritePlain, DeleteGz, SavePlain, Open, OpenTar, Goes
    <3>3. CASE OpenGz(j) \/ WriteGz(j) \/ DeletePlain(j) \/ SaveGz(j)
      BY <1>3, <2>1, <3>1, <3>3 DEF OpenGz, WriteGz, DeletePlain, SaveGz, SaveFails, Goes
    <3>4. CASE SaveFails(j)
      BY <1>3, <2>1, <3>4 DEF SaveFails, Raises
    <3> QED
      BY <2>3, <3>2, <3>3, <3>4 DEF Step
  <2> QED
    BY <2>2, <2>3
<1> QED
  BY <1>2, <1>3

LEMMA WriterStarts ==
    ASSUME phase \in {"off", "mapping"}, Blank
    PROVE  WriterInv
<1> USE DEF Blank
<1>1. WriterTypes
  BY BlankTypes DEF WriterTypes, Busy
<1>2. Mapped = {} /\ Lost = {}
  BY DEF Mapped, Lost
<1>3. Cardinality({}) = 0
  BY FS_EmptySet
<1> QED
  BY <1>1, <1>2, <1>3, WriterAssumption DEF WriterInv, Counted, PhaseOK, Busy

LEMMA WriterStartsAgain ==
    ASSUME phase' \in {"off", "mapping"}, Blank'
    PROVE  WriterInv'
<1> USE DEF Blank
<1>1. WriterTypes'
  BY BlankTypes DEF WriterTypes, Busy
<1>2. Mapped' = {} /\ Lost' = {}
  BY DEF Mapped, Lost
<1>3. Cardinality({}) = 0
  BY FS_EmptySet
<1> QED
  BY <1>1, <1>2, <1>3, WriterAssumption DEF WriterInv, Counted, PhaseOK, Busy

LEMMA AccountsInitially == Init => AccountInv
<1> SUFFICES ASSUME Init PROVE AccountInv
  OBVIOUS
<1>1. StorageInv /\ ReaderOK
  BY StorageInitially DEF Init, ReaderOK, WriterOff, Blank
<1>2. WriterInv
  BY WriterStarts DEF Init, WriterOff, Blank
<1>3. JobsAccounted
  <2>1. \A j \in Job : job[j] = "waiting"
    BY DEF Init, StorageInit
  <2> QED
    BY <2>1 DEF JobsAccounted
<1>4. DOMAIN left = Job
  BY DEF Init
<1> QED
  BY <1>1, <1>2, <1>3, <1>4 DEF AccountInv

LEMMA AccountsKept ==
    ASSUME AccountInv, [Next]_vars
    PROVE  AccountInv'
<1>1. StorageInv' /\ StorageInv /\ ReaderOK
  BY StorageInductive DEF AccountInv
<1>2. job \in [Job -> Running \cup Ended \cup {"waiting"}]
  BY <1>1 DEF StorageInv, StorageTypeOK
<1> DEFINE Goal == ReaderOK' /\ (~shared' => ~shared /\ WriterInv' /\ JobsAccounted')
<1>13. DOMAIN left = Job /\ DOMAIN left' = Job
  BY DEF AccountInv, Next, vars, TakeStep, JobStep, StartTraject, RunTraject, EndTraject, KillTraject, KillJob, Finished
<1>3. SUFFICES Goal
  BY <1>1, <1>13 DEF AccountInv
<1>4. shared => shared'
  BY DEF Next, vars, TakeStep, JobStep, StartTraject, RunTraject, EndTraject, KillTraject, KillJob, Finished,
         Take, Step, Kill, TrajectEnds, storageVars, OpenPlain, WritePlain, DeleteGz, SavePlain,
         Open, OpenTar, OpenGz, WriteGz, DeletePlain, SaveGz, SaveFails, Goes, Fails, Raises, Raises
<1>5. ~shared => WriterInv /\ JobsAccounted
  BY DEF AccountInv
<1>6. ASSUME UNCHANGED writerVars PROVE WriterInv' <=> WriterInv
  BY <1>6 DEF writerVars, WriterInv, WriterTypes, Counted, PhaseOK, Accounted, Lost, InTransit, Mapped,
              Idle, Free
<1>7. ASSUME NEW j \in Job, TakeStep(j) \/ JobStep(j) PROVE Goal
  <2>1. (Take(j) \/ Step(j)) /\ UNCHANGED <<writerVars, reader, left, unsure, unheard>>
    BY <1>7 DEF TakeStep, JobStep
  <2>2. ReaderOK'
    BY <1>1, <2>1, StorageStepsApart DEF ReaderOK, writerVars, Blank
  <2>3. ~shared => JobsAccounted'
    BY <1>1, <1>5, <2>1, StorageStepsApart DEF JobsAccounted, Accounted
  <2> QED
    BY <1>4, <1>5, <1>6, <2>1, <2>2, <2>3
<1>8. ASSUME NEW j \in Job, StartTraject(j) PROVE Goal
  <2>1. /\ job[j] = "traject" /\ reader = Nobody /\ reader' = j /\ phase' = "mapping"
        /\ UNCHANGED <<next, queue, batches, single, skipped, raised, deletedIds>>
        /\ UNCHANGED <<storageVars, left, unsure, unheard>>
    BY <1>8 DEF StartTraject
  <2>2. WriterInv'
    BY <1>1, <2>1, WriterStartsAgain DEF ReaderOK, Blank
  <2>3. ReaderOK'
    BY <2>1, NobodyAssumption DEF ReaderOK, storageVars
  <2>4. ~shared => JobsAccounted'
    BY <1>5, <2>1 DEF JobsAccounted, Accounted, storageVars
  <2> QED
    BY <1>4, <2>2, <2>3, <2>4
<1>9. CASE RunTraject
  <2>1. /\ reader # Nobody /\ UNCHANGED <<storageVars, reader, left, unsure, unheard>>
        /\ WriterStep \/ (row # "tar" /\ plain = "torn" /\ BreakOff)
    BY <1>9 DEF RunTraject
  <2>2. ~shared => ~(row # "tar" /\ plain = "torn")
    BY <1>1, <2>1 DEF ReaderOK, StorageInv, Expects
  <2>3. ReaderOK'
    BY <1>1, <2>1 DEF ReaderOK, storageVars
  <2>4. ~shared => JobsAccounted'
    BY <1>5, <2>1 DEF JobsAccounted, Accounted, storageVars
  <2> QED
    BY <1>4, <1>5, <2>1, <2>2, <2>3, <2>4, WriterKeeps
<1>10. ASSUME NEW j \in Job, EndTraject(j) PROVE Goal
  <2>1. /\ reader = j /\ phase \in {"ok", "fatal", "unheard"} /\ TrajectEnds(j, phase = "fatal")
        /\ reader' = Nobody /\ phase' = "off" /\ Reset
    BY <1>10 DEF EndTraject
  <2>2. WriterInv' /\ ReaderOK'
    BY <2>1, WriterStartsAgain DEF ReaderOK, Reset, Blank
  <2>3. \A k \in Job : k # j => job'[k] = job[k]
    BY <1>2, <2>1 DEF TrajectEnds, Goes, Fails, Raises, Raises
  <2>4. CASE phase # "fatal"
    <3>1. /\ left' = [left EXCEPT ![j] = solr]
          /\ unsure' = IF undeleted = "no" THEN unsure \ {j} ELSE unsure \cup {j}
          /\ unheard' = IF phase = "ok" THEN unheard \ {j} ELSE unheard \cup {j}
      BY <1>10, <2>4 DEF EndTraject
    <3>2. ~shared /\ phase = "ok" => Accounted(solr, undeleted # "no")
      BY <1>5 DEF WriterInv
    <3>3. ASSUME ~shared, NEW k \in Job \ unheard', job'[k] \in Zipping \cup {"done"}
          PROVE  Accounted(left'[k], k \in unsure')
      <4>1. CASE k = j
        <5>1. left'[j] = solr
          BY <1>13, <3>1
        <5>2. undeleted # "no" => j \in unsure'
          BY <3>1
        <5>3. phase = "ok"
          BY <2>1, <3>1, <3>3, <4>1
        <5> QED
          BY <3>2, <3>3, <4>1, <5>1, <5>2, <5>3 DEF Accounted
      <4>2. CASE k # j
        <5>1. left'[k] = left[k] /\ (k \in unsure' <=> k \in unsure) /\ k \notin unheard
          BY <1>13, <3>1, <3>3, <4>2
        <5>2. job[k] \in Zipping \cup {"done"}
          BY <2>3, <3>3, <4>2
        <5>3. Accounted(left[k], k \in unsure)
          BY <1>5, <3>3, <5>1, <5>2 DEF JobsAccounted
        <5> QED
          BY <5>1, <5>3 DEF Accounted
      <4> QED
        BY <4>1, <4>2
    <3> QED
      BY <1>4, <2>2, <3>3 DEF JobsAccounted, Accounted
  <2>5. CASE phase = "fatal"
    <3>0. Fails(j)
      BY <2>1, <2>5 DEF TrajectEnds
    <3>3. job'[j] \in {"waiting", "dead"}
      BY <1>2, <3>0 DEF Fails, Raises
    <3>1. UNCHANGED <<left, unsure, unheard>> /\ job'[j] \notin Zipping \cup {"done"}
      BY <1>10, <2>5, <3>3 DEF EndTraject
    <3>2. ~shared => JobsAccounted'
      BY <1>5, <2>3, <3>1 DEF JobsAccounted, Accounted
    <3> QED
      BY <1>4, <2>2, <3>2
  <2> QED
    BY <2>1, <2>4, <2>5
<1>14. CASE KillTraject
  <2>1. /\ phase \in Busy /\ Ends("unheard") /\ phase' = "unheard"
        /\ UNCHANGED <<job, shared, row, reader, left, unsure, unheard>>
    BY <1>14 DEF KillTraject, Ends, Busy
  <2>2. ReaderOK'
    BY <1>1, <2>1 DEF ReaderOK, Busy
  <2>3. ~shared => JobsAccounted'
    BY <1>5, <2>1 DEF JobsAccounted, Accounted
  <2> QED
    BY <1>4, <1>5, <2>1, <2>2, <2>3, BadEndKeeps
<1>11. ASSUME NEW j \in Job, KillJob(j) PROVE Goal
  <2>1. Kill(j) /\ UNCHANGED <<left, unsure, unheard>>
    BY <1>11 DEF KillJob
  <2>2. job' = [job EXCEPT ![j] = "waiting"]
    BY <2>1 DEF Kill
  <2>6. \A k \in Job : job'[k] = job[k] \/ job'[k] = "waiting"
    BY <1>2, <2>2
  <2>7. \A k \in Job : job'[k] \in Zipping \cup {"done"} => job[k] \in Zipping \cup {"done"}
    BY <2>6
  <2>3. ~shared => JobsAccounted'
    BY <1>5, <2>1, <2>7 DEF JobsAccounted, Accounted
  <2>4. CASE reader = j
    <3>1. reader' = Nobody /\ phase' = "off" /\ Reset
      BY <1>11, <2>4 DEF KillJob
    <3>2. WriterInv' /\ ReaderOK'
      BY <3>1, WriterStartsAgain DEF ReaderOK, Reset, Blank
    <3> QED
      BY <1>4, <2>3, <3>2
  <2>5. CASE reader # j
    <3>1. UNCHANGED <<writerVars, reader>>
      BY <1>11, <2>5 DEF KillJob
    <3>2. ReaderOK'
      BY <1>1, <1>2, <2>2, <2>5, <3>1 DEF ReaderOK, Blank, writerVars
    <3> QED
      BY <1>4, <1>5, <1>6, <2>3, <3>1, <3>2
  <2> QED
    BY <2>4, <2>5
<1>12. CASE UNCHANGED vars
  <2>1. UNCHANGED <<writerVars, storageVars, reader, left, unsure, unheard>>
    BY <1>12 DEF vars
  <2>2. ReaderOK'
    BY <1>1, <2>1 DEF ReaderOK, Blank, writerVars, storageVars
  <2>3. ~shared => JobsAccounted'
    BY <1>5, <2>1 DEF JobsAccounted, Accounted, storageVars
  <2> QED
    BY <1>4, <1>5, <1>6, <2>1, <2>2, <2>3
<1> QED
  BY <1>7, <1>8, <1>9, <1>10, <1>11, <1>12, <1>14 DEF Next, Finished

\* A job that ends done has indexed its file, unless its last traject ended neither well nor
\* with FATAL: at most MaxSkipped good records are missing from its collection, and the deleted records are gone unless their deletion failed twice - for
\* any file, batch size and number of threads, whatever the threads of traject raise and
\* whenever, wherever the jobs fail, are tried again or are killed, their traject with them or
\* alone, while no two share the file.
THEOREM DoneAccounts == Spec => []SuccessAccounts
<1>1. AccountInv => SuccessAccounts
  BY DEF AccountInv, JobsAccounted, Accounted, SuccessAccounts
<1> QED
  BY <1>1, AccountsInitially, AccountsKept, PTL DEF Spec
=============================================================================
