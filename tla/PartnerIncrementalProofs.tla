---------------------- MODULE PartnerIncrementalProofs ----------------------
(***************************************************************************)
(* For any records, objects and dumps: no object that SCSB exports between *)
(* two dumps is lost, however the imports overlap and are killed, and on   *)
(* cron days scsb:latest keeps Solr as SCSB had the records.               *)
(***************************************************************************)
EXTENDS PartnerIncremental, WellFoundedInduction, TLAPS

\* What dump d has to take in: the objects between the dump before it and itself.
Window(kind, d) == {k \in 1..dumps[d].created : s3[k].kind = kind /\ k > dumps[d].since}

\* The objects, dumps and jobs hold values of their types.
ImportTypes ==
    /\ s3 \in Seq(Object) /\ Now <= MaxObjects
    /\ dumps \in Seq(Dump) /\ jobs \in Seq(Job) /\ Len(jobs) = Len(dumps)
    /\ \A d \in Dumps : dumps[d].created <= Now

\* The windows of the first d dumps meet.
WindowsMeet ==
    \A d \in Dumps : \A k \in 1..dumps[d].created :
        \E e \in 1..d : dumps[e].since < k /\ k <= dumps[e].created

\* What a job still holds, and what its dump has, at each line of perform.
Holds(d) == jobs[d].zips \cup jobs[d].files

JobOK(d) ==
    /\ jobs[d].pc \in {"updates", "attach"} =>
          /\ Holds(d) \subseteq 1..Now
          /\ Window("update", d) \subseteq Holds(d) \cup dumps[d].files
    /\ jobs[d].pc = "attach" => jobs[d].current \in jobs[d].files
    /\ jobs[d].pc \in {"deletes", "ids", "done"} => Window("update", d) \subseteq dumps[d].files
    /\ jobs[d].pc \in {"deletes", "ids"} =>
          Holds(d) \subseteq 1..Now /\ Window("delete", d) \subseteq Holds(d)
    /\ jobs[d].pc = "ids" => jobs[d].zips = {}
    /\ jobs[d].pc = "done" => \A k \in Window("delete", d) : s3[k].rec \in dumps[d].delete_ids

ImportInv == ImportTypes /\ WindowsMeet /\ \A d \in Dumps : JobOK(d)

LEMMA LeastExists == ASSUME NEW T, T \subseteq Nat, T # {}
                     PROVE  \E x \in T : \A y \in T : x <= y
<1> DEFINE R == {p \in Nat \X Nat : p[1] < p[2]}
<1>1. IsWellFoundedOn(R, Nat)
  BY NatLessThanWellFounded DEF OpToRel
<1>2. \A x, y \in Nat : <<y, x>> \in R <=> y < x
  OBVIOUS
<1> HIDE DEF R
<1>3. \E x \in T : \A y \in T : ~(<<y, x>> \in R)
  BY <1>1, WFMin
<1>4. PICK x \in T : \A y \in T : ~(<<y, x>> \in R)
  BY <1>3
<1>5. ASSUME NEW y \in T PROVE x <= y
  <2>1. x \in Nat /\ y \in Nat OBVIOUS
  <2>2. ~(y < x) BY <1>2, <1>4, <2>1
  <2> QED BY <2>1, <2>2
<1> QED BY <1>5

LEMMA EarliestType == ASSUME NEW T, T \subseteq Nat, T # {}
                      PROVE  Earliest(T) \in T
  BY LeastExists DEF Earliest

---------------------------------------------------------------------------

LEMMA ImportTyped ==
    ASSUME ImportTypes
    PROVE  /\ Len(dumps) \in Nat /\ Now \in Nat /\ Now \in Time
           /\ \A k \in 1..Now : s3[k] \in Object
           /\ \A d \in Dumps : dumps[d] \in Dump /\ jobs[d] \in Job
           /\ \A d \in Dumps : dumps[d].created \in Nat /\ dumps[d].created <= Now /\ dumps[d].since \in Nat
<1>1. Len(dumps) \in Nat /\ Now \in Nat /\ Now <= MaxObjects BY DEF ImportTypes, Now
<1>2. \A k \in 1..Now : s3[k] \in Object BY DEF ImportTypes, Now
<1>3. \A d \in Dumps : dumps[d] \in Dump /\ jobs[d] \in Job BY DEF ImportTypes, Dumps
<1>4. \A d \in Dumps : dumps[d].created \in Nat /\ dumps[d].since \in Nat
  BY <1>3, BoundAssumption DEF Dump, Time
<1> QED BY <1>1, <1>2, <1>3, <1>4, BoundAssumption DEF ImportTypes, Time

LEMMA ImportStarts == Init => ImportInv
  BY BoundAssumption DEF Init, ImportInv, ImportTypes, WindowsMeet, Now, Dumps

\* SCSB exports an object: the windows are behind it.
LEMMA ExportStep ==
    ASSUME ImportInv, NEW r \in Rec, NEW kind \in {"update", "delete"}, Export(r, kind)
    PROVE  ImportInv'
<1>1. /\ s3' = Append(s3, [rec |-> r, kind |-> kind]) /\ Now < MaxObjects /\ dumps' = dumps /\ jobs' = jobs
  BY DEF Export, importVars
<1>2. /\ s3' \in Seq(Object) /\ Now' = Now + 1 /\ Now \in Nat
      /\ \A k \in 1..Now : s3'[k] = s3[k]
  BY <1>1 DEF ImportInv, ImportTypes, Object, Now
<1>3. Dumps' = Dumps BY <1>1 DEF Dumps
<1>4. \A d \in Dumps : dumps[d].created \in Nat /\ dumps[d].created <= Now
  BY ImportTyped DEF ImportInv
<1>5. ImportTypes' BY <1>1, <1>2, <1>3, <1>4, BoundAssumption DEF ImportInv, ImportTypes
<1>6. \A d \in Dumps, kd \in {"update", "delete"} : Window(kd, d)' = Window(kd, d)
  <2> SUFFICES ASSUME NEW d \in Dumps, NEW kd \in {"update", "delete"} PROVE Window(kd, d)' = Window(kd, d)
    OBVIOUS
  <2>1. \A k \in 1..dumps[d].created : k \in 1..Now /\ s3'[k] = s3[k] BY <1>2, <1>4
  <2> QED BY <1>1, <2>1 DEF Window
<1>7. WindowsMeet' BY <1>1, <1>3 DEF ImportInv, WindowsMeet
<1>8. ASSUME NEW d \in Dumps PROVE JobOK(d)'
  <2>1. JobOK(d) /\ \A k \in Window("delete", d) : s3'[k] = s3[k]
    BY <1>2, <1>4 DEF ImportInv, Window
  <2>2. Holds(d)' = Holds(d) BY <1>1 DEF Holds
  <2>3. Window("update", d)' = Window("update", d) /\ Window("delete", d)' = Window("delete", d) BY <1>6
  <2>4. 1..Now \subseteq 1..Now' BY <1>2
  <2> HIDE DEF Holds, Window
  <2> QED BY <1>1, <2>1, <2>2, <2>3, <2>4 DEF JobOK
<1> QED BY <1>3, <1>5, <1>7, <1>8 DEF ImportInv

\* A dump begins where the one before it was created.
LEMMA PartnerUpdateStep == ASSUME ImportInv, PartnerUpdate PROVE ImportInv'
<1> DEFINE new == [created |-> Now, since |-> LastCreated, files |-> {}, generated |-> 0, delete_ids |-> {}]
           n == Len(dumps) + 1
<1>1. dumps' = Append(dumps, new) /\ jobs' = Append(jobs, Idle("created")) /\ s3' = s3
  BY DEF PartnerUpdate, NewDump
<1>2. Now \in Time /\ Len(dumps) \in Nat /\ LastCreated \in Time /\ LastCreated <= Now
  <2>1. CASE dumps = <<>> BY <2>1, ImportTyped, BoundAssumption DEF ImportInv, LastCreated, Time
  <2>2. CASE dumps # <<>>
    <3>1. Len(dumps) \in Dumps BY <2>2 DEF ImportInv, ImportTypes, Dumps
    <3>2. dumps[Len(dumps)] \in Dump BY <3>1, ImportTyped DEF ImportInv
    <3> QED BY <2>2, <3>1, <3>2, ImportTyped DEF ImportInv, LastCreated, Dump
  <2> QED BY <2>1, <2>2
<1>3. new \in Dump /\ Idle("created") \in Job
  BY <1>2, BoundAssumption DEF Dump, Job, Idle, Time
<1>4. /\ Now' = Now /\ Dumps' = Dumps \cup {n} /\ Len(dumps') = n
      /\ \A d \in Dumps : dumps'[d] = dumps[d] /\ jobs'[d] = jobs[d]
      /\ dumps'[n] = new /\ jobs'[n] = Idle("created")
  BY <1>1, <1>2, <1>3 DEF ImportInv, ImportTypes, Now, Dumps
<1>5. ImportTypes'
  <2>1. dumps' \in Seq(Dump) /\ jobs' \in Seq(Job) /\ Len(jobs') = Len(dumps')
    BY <1>1, <1>3 DEF ImportInv, ImportTypes
  <2>2. s3' \in Seq(Object) /\ Now' <= MaxObjects BY <1>1, <1>4 DEF ImportInv, ImportTypes
  <2>3. \A d \in Dumps' : dumps'[d].created <= Now'
    BY <1>2, <1>4 DEF ImportInv, ImportTypes, Time
  <2> QED BY <2>1, <2>2, <2>3 DEF ImportTypes
<1>6. WindowsMeet'
  <2>1. ASSUME NEW d \in Dumps, NEW k \in 1..dumps[d].created
        PROVE  \E e \in 1..d : dumps'[e].since < k /\ k <= dumps'[e].created
    <3>1. PICK e \in 1..d : dumps[e].since < k /\ k <= dumps[e].created
      BY DEF ImportInv, WindowsMeet
    <3>2. e \in Dumps BY <1>2, <3>1 DEF Dumps
    <3> QED BY <1>4, <3>1, <3>2
  <2>2. ASSUME NEW k \in 1..Now
        PROVE  \E e \in 1..n : dumps'[e].since < k /\ k <= dumps'[e].created
    <3>1. CASE LastCreated < k BY <1>2, <1>4, <3>1
    <3>2. CASE k <= LastCreated
      <4>1. dumps # <<>> /\ LastCreated = dumps[Len(dumps)].created /\ Len(dumps) \in Dumps
        BY <1>2, <3>2 DEF LastCreated, Dumps, ImportInv, ImportTypes
      <4>2. PICK e \in 1..Len(dumps) : dumps'[e].since < k /\ k <= dumps'[e].created
        BY <1>2, <2>1, <3>2, <4>1 DEF Time
      <4> QED BY <1>2, <4>2
    <3> QED BY <1>2, <3>1, <3>2 DEF Time
  <2> QED BY <1>4, <2>1, <2>2 DEF WindowsMeet
<1>7. ASSUME NEW d \in Dumps' PROVE JobOK(d)'
  <2>1. CASE d \in Dumps
    <3>1. JobOK(d) /\ dumps'[d] = dumps[d] /\ jobs'[d] = jobs[d] BY <1>4, <2>1 DEF ImportInv
    <3> QED BY <1>1, <1>4, <3>1 DEF JobOK, Window, Holds
  <2>2. CASE d = n BY <1>4, <2>2 DEF JobOK, Idle
  <2> QED BY <1>4, <2>1, <2>2
<1> QED BY <1>5, <1>6, <1>7 DEF ImportInv

\* A step of one job that leaves the objects and the windows alone keeps the invariant, if it
\* keeps what the job holds.
LEMMA OneJob ==
    ASSUME ImportInv, NEW d \in Dumps, NEW job \in Job, NEW dump \in Dump,
           s3' = s3, jobs' = [jobs EXCEPT ![d] = job], dumps' = [dumps EXCEPT ![d] = dump],
           dump.created = dumps[d].created, dump.since = dumps[d].since,
           (jobs'[d] = job /\ dumps'[d] = dump /\ Window("update", d)' = Window("update", d)
              /\ Window("delete", d)' = Window("delete", d) /\ Now' = Now) => JobOK(d)'
    PROVE  ImportInv'
<1>1. /\ Len(dumps) \in Nat /\ Now' = Now /\ Dumps' = Dumps
      /\ dumps' \in Seq(Dump) /\ jobs' \in Seq(Job) /\ Len(jobs') = Len(dumps')
      /\ jobs'[d] = job /\ dumps'[d] = dump
      /\ \A e \in Dumps \ {d} : dumps'[e] = dumps[e] /\ jobs'[e] = jobs[e]
  BY DEF ImportInv, ImportTypes, Dumps, Now
<1>2. \A e \in Dumps : dumps'[e].created = dumps[e].created /\ dumps'[e].since = dumps[e].since
  BY <1>1
<1>3. ImportTypes' BY <1>1, <1>2 DEF ImportInv, ImportTypes
<1>4. WindowsMeet'
  <2> SUFFICES ASSUME NEW n \in Dumps, NEW k \in 1..dumps[n].created
               PROVE  \E e \in 1..n : dumps'[e].since < k /\ k <= dumps'[e].created
    BY <1>1, <1>2 DEF WindowsMeet
  <2>1. PICK e \in 1..n : dumps[e].since < k /\ k <= dumps[e].created
    BY DEF ImportInv, WindowsMeet
  <2>2. e \in Dumps BY <1>1 DEF Dumps
  <2> QED BY <1>2, <2>1, <2>2
<1>5. \A e \in Dumps, kind \in {"update", "delete"} : Window(kind, e)' = Window(kind, e)
  BY <1>2 DEF Window
<1>6. JobOK(d)' BY <1>1, <1>5
<1>7. ASSUME NEW e \in Dumps \ {d} PROVE JobOK(e)'
  <2>1. JobOK(e) /\ dumps'[e] = dumps[e] /\ jobs'[e] = jobs[e] BY <1>1 DEF ImportInv
  <2>2. Window("update", e)' = Window("update", e) /\ Window("delete", e)' = Window("delete", e) BY <1>5
  <2>3. Holds(e)' = Holds(e) BY <2>1 DEF Holds
  <2> HIDE DEF Holds, Window
  <2> QED BY <1>1, <2>1, <2>2, <2>3 DEF JobOK
<1> QED BY <1>1, <1>3, <1>4, <1>6, <1>7 DEF ImportInv

\* What a job may list: all there is of a kind in its window, and what has come since.
LEMMA ListedCovers ==
    ASSUME ImportInv, NEW d \in Dumps, NEW kind \in {"update", "delete"}
    PROVE  /\ Window(kind, d) \subseteq Listed(kind, dumps[d].since)
           /\ Listed(kind, dumps[d].since) \subseteq 1..Now
           /\ Listed(kind, dumps[d].since) \in SUBSET Time
<1>1. dumps[d].created \in Nat /\ dumps[d].created <= Now /\ Now \in Time
  BY ImportTyped DEF ImportInv
<1> QED BY <1>1, BoundAssumption DEF Window, Listed, Time

\* A job that starts again, or gives up, holds nothing.
LEMMA RestartStep ==
    ASSUME ImportInv, NEW d \in Dumps, NEW pc \in {"queued", "dead"},
           jobs' = [jobs EXCEPT ![d] = Idle(pc)], s3' = s3, dumps' = dumps
    PROVE  ImportInv'
<1>1. Idle(pc) \in Job BY BoundAssumption DEF Idle, Job, Time
<1>2. dumps[d] \in Dump /\ dumps' = [dumps EXCEPT ![d] = dumps[d]]
  BY ImportTyped DEF ImportInv, ImportTypes, Dumps
<1>3. jobs'[d] = Idle(pc) => JobOK(d)' BY DEF JobOK, Idle
<1> QED BY <1>1, <1>2, <1>3, OneJob

LEMMA DownloadUpdatesStep == ASSUME ImportInv, NEW d \in Dumps, DownloadUpdates(d) PROVE ImportInv'
<1> DEFINE job == [Idle("updates") EXCEPT !.zips = Listed("update", dumps[d].since)]
<1>1. s3' = s3 /\ dumps' = dumps /\ jobs' = [jobs EXCEPT ![d] = job]
  BY DEF DownloadUpdates
<1>2. dumps[d] \in Dump /\ dumps' = [dumps EXCEPT ![d] = dumps[d]]
  BY <1>1, ImportTyped DEF ImportInv, ImportTypes, Dumps
<1>3. job \in Job /\ job.pc = "updates" /\ job.zips = Listed("update", dumps[d].since) /\ job.files = {}
  BY ListedCovers, BoundAssumption DEF Idle, Job, Time
<1> HIDE DEF job
<1>4. (jobs'[d] = job /\ Window("update", d)' = Window("update", d) /\ Now' = Now) => JobOK(d)'
  BY <1>3, ListedCovers DEF JobOK, Holds
<1> QED BY <1>1, <1>2, <1>3, <1>4, OneJob

LEMMA UnzipStep == ASSUME ImportInv, NEW d \in Dumps, NEW k, Unzip(d, k) PROVE ImportInv'
<1> DEFINE job == [jobs[d] EXCEPT !.zips = @ \ {k}, !.files = @ \cup {k}]
<1>1. /\ s3' = s3 /\ dumps' = dumps /\ jobs' = [jobs EXCEPT ![d].zips = @ \ {k}, ![d].files = @ \cup {k}]
      /\ jobs[d].pc \in {"updates", "deletes"} /\ k \in jobs[d].zips
  BY DEF Unzip, At
<1>2. dumps[d] \in Dump /\ jobs[d] \in Job /\ dumps' = [dumps EXCEPT ![d] = dumps[d]]
  BY <1>1, ImportTyped DEF ImportInv, ImportTypes, Dumps
<1>3. job \in Job /\ job.pc = jobs[d].pc /\ job.zips \cup job.files = Holds(d)
  BY <1>1, <1>2 DEF Job, Holds
<1>4. jobs' = [jobs EXCEPT ![d] = job] BY <1>1 DEF ImportInv, ImportTypes, Dumps
<1> HIDE DEF job
<1>5. JobOK(d) BY DEF ImportInv
<1>6. ASSUME jobs'[d] = job, dumps'[d] = dumps[d], Window("update", d)' = Window("update", d),
             Window("delete", d)' = Window("delete", d), Now' = Now
      PROVE  JobOK(d)'
  <2>1. Holds(d)' = Holds(d) BY <1>3, <1>6 DEF Holds
  <2> HIDE DEF Holds, Window
  <2> QED BY <1>1, <1>3, <1>5, <1>6, <2>1 DEF JobOK
<1> QED BY <1>1, <1>2, <1>3, <1>4, <1>6, OneJob

LEMMA ProcessUpdateStep == ASSUME ImportInv, NEW d \in Dumps, NEW k, ProcessUpdate(d, k) PROVE ImportInv'
<1> DEFINE job == [jobs[d] EXCEPT !.pc = "attach", !.current = k]
<1>1. /\ s3' = s3 /\ dumps' = dumps /\ jobs' = [jobs EXCEPT ![d].pc = "attach", ![d].current = k]
      /\ jobs[d].pc = "updates" /\ k \in jobs[d].files
  BY DEF ProcessUpdate, At
<1>2. dumps[d] \in Dump /\ jobs[d] \in Job /\ dumps' = [dumps EXCEPT ![d] = dumps[d]]
  BY <1>1, ImportTyped DEF ImportInv, ImportTypes, Dumps
<1>3. job \in Job /\ job.pc = "attach" /\ job.zips = jobs[d].zips /\ job.files = jobs[d].files /\ job.current = k
  BY <1>1, <1>2 DEF Job
<1>4. jobs' = [jobs EXCEPT ![d] = job] BY <1>1 DEF ImportInv, ImportTypes, Dumps
<1> HIDE DEF job
<1>5. JobOK(d) BY DEF ImportInv
<1>6. ASSUME jobs'[d] = job, dumps'[d] = dumps[d], Window("update", d)' = Window("update", d), Now' = Now
      PROVE  JobOK(d)'
  <2>1. Holds(d)' = Holds(d) BY <1>3, <1>6 DEF Holds
  <2> HIDE DEF Holds, Window
  <2> QED BY <1>1, <1>3, <1>5, <1>6, <2>1 DEF JobOK
<1> QED BY <1>1, <1>2, <1>3, <1>4, <1>6, OneJob

LEMMA AttachUpdateStep == ASSUME ImportInv, NEW d \in Dumps, AttachUpdate(d) PROVE ImportInv'
<1> DEFINE job == [jobs[d] EXCEPT !.pc = "updates", !.files = @ \ {jobs[d].current}]
           dump == [dumps[d] EXCEPT !.files = @ \cup {jobs[d].current}]
<1>1. /\ s3' = s3 /\ dumps' = [dumps EXCEPT ![d].files = @ \cup {jobs[d].current}]
      /\ jobs' = [jobs EXCEPT ![d].pc = "updates", ![d].files = @ \ {jobs[d].current}]
      /\ jobs[d].pc = "attach"
  BY DEF AttachUpdate, At
<1>2. dumps[d] \in Dump /\ jobs[d] \in Job BY ImportTyped DEF ImportInv
<1>3. /\ job \in Job /\ job.pc = "updates" /\ job.zips = jobs[d].zips
      /\ job.files = jobs[d].files \ {jobs[d].current}
  BY <1>2 DEF Job
<1>4. /\ dump \in Dump /\ dump.created = dumps[d].created /\ dump.since = dumps[d].since
      /\ dump.files = dumps[d].files \cup {jobs[d].current}
  BY <1>2 DEF Dump, Job
<1>5. jobs' = [jobs EXCEPT ![d] = job] /\ dumps' = [dumps EXCEPT ![d] = dump]
  BY <1>1 DEF ImportInv, ImportTypes, Dumps
<1> HIDE DEF job, dump
<1>6. JobOK(d) BY DEF ImportInv
<1>7. ASSUME jobs'[d] = job, dumps'[d] = dump, Window("update", d)' = Window("update", d), Now' = Now
      PROVE  JobOK(d)'
  <2>1. Holds(d) \subseteq Holds(d)' \cup dumps'[d].files /\ Holds(d)' \subseteq Holds(d)
        /\ dumps[d].files \subseteq dumps'[d].files
    BY <1>3, <1>4, <1>7 DEF Holds
  <2> HIDE DEF Holds, Window
  <2> QED BY <1>1, <1>3, <1>6, <1>7, <2>1 DEF JobOK
<1>8. s3' = s3 /\ dump.created = dumps[d].created /\ dump.since = dumps[d].since BY <1>1, <1>4
<1> QED BY <1>3, <1>4, <1>5, <1>7, <1>8, OneJob

LEMMA DownloadDeletesStep == ASSUME ImportInv, NEW d \in Dumps, DownloadDeletes(d) PROVE ImportInv'
<1> DEFINE job == [Idle("deletes") EXCEPT !.zips = Listed("delete", dumps[d].since)]
           date == IF dumps[d].files = {} THEN 0 ELSE Earliest(dumps[d].files)
           dump == [dumps[d] EXCEPT !.generated = date]
<1>1. /\ s3' = s3 /\ dumps' = [dumps EXCEPT ![d].generated = date] /\ jobs' = [jobs EXCEPT ![d] = job]
      /\ jobs[d].pc = "updates" /\ Holds(d) = {}
  BY DEF DownloadDeletes, At, Holds
<1>2. dumps[d] \in Dump BY ImportTyped DEF ImportInv
<1>3. date \in Time
  <2>1. dumps[d].files \subseteq Time /\ 0 \in Time /\ Time \subseteq Nat
    BY <1>2, BoundAssumption DEF Dump, Time
  <2> QED BY <2>1, EarliestType
<1> HIDE DEF date
<1>4. job \in Job /\ job.pc = "deletes" /\ job.zips = Listed("delete", dumps[d].since) /\ job.files = {}
  BY ListedCovers, BoundAssumption DEF Idle, Job, Time
<1>5. /\ dump \in Dump /\ dump.created = dumps[d].created /\ dump.since = dumps[d].since
      /\ dump.files = dumps[d].files
  BY <1>2, <1>3 DEF Dump
<1>6. dumps' = [dumps EXCEPT ![d] = dump] BY <1>1 DEF ImportInv, ImportTypes, Dumps
<1> HIDE DEF job, dump
<1>7. JobOK(d) BY DEF ImportInv
<1>8. ASSUME jobs'[d] = job, dumps'[d] = dump, Window("update", d)' = Window("update", d),
             Window("delete", d)' = Window("delete", d), Now' = Now
      PROVE  JobOK(d)'
  <2>1. Holds(d)' = Listed("delete", dumps[d].since) BY <1>4, <1>8 DEF Holds
  <2>2. Window("delete", d) \subseteq Holds(d)' /\ Holds(d)' \subseteq 1..Now BY <2>1, ListedCovers
  <2>3. Window("update", d) \subseteq dumps'[d].files BY <1>1, <1>5, <1>7, <1>8 DEF JobOK
  <2> HIDE DEF Holds, Window
  <2> QED BY <1>4, <1>8, <2>2, <2>3 DEF JobOK
<1> QED BY <1>1, <1>4, <1>5, <1>6, <1>8, OneJob

LEMMA ReadDeletesStep == ASSUME ImportInv, NEW d \in Dumps, ReadDeletes(d) PROVE ImportInv'
<1> DEFINE job == [jobs[d] EXCEPT !.pc = "ids"]
<1>1. /\ s3' = s3 /\ dumps' = dumps /\ jobs' = [jobs EXCEPT ![d].pc = "ids"]
      /\ jobs[d].pc = "deletes" /\ jobs[d].zips = {}
  BY DEF ReadDeletes, At
<1>2. dumps[d] \in Dump /\ jobs[d] \in Job /\ dumps' = [dumps EXCEPT ![d] = dumps[d]]
  BY <1>1, ImportTyped DEF ImportInv, ImportTypes, Dumps
<1>3. job \in Job /\ job.pc = "ids" /\ job.zips = {} /\ job.files = jobs[d].files
  BY <1>1, <1>2 DEF Job
<1>4. jobs' = [jobs EXCEPT ![d] = job] BY <1>1 DEF ImportInv, ImportTypes, Dumps
<1> HIDE DEF job
<1>5. JobOK(d) BY DEF ImportInv
<1>6. ASSUME jobs'[d] = job, dumps'[d] = dumps[d], Window("update", d)' = Window("update", d),
             Window("delete", d)' = Window("delete", d), Now' = Now
      PROVE  JobOK(d)'
  <2>1. Holds(d)' = Holds(d) BY <1>1, <1>3, <1>6 DEF Holds
  <2> HIDE DEF Holds, Window
  <2> QED BY <1>1, <1>3, <1>5, <1>6, <2>1 DEF JobOK
<1> QED BY <1>1, <1>2, <1>3, <1>4, <1>6, OneJob

LEMMA SaveDeletesStep == ASSUME ImportInv, NEW d \in Dumps, SaveDeletes(d) PROVE ImportInv'
<1> DEFINE ids == {s3[k].rec : k \in jobs[d].files}
           dump == [dumps[d] EXCEPT !.delete_ids = ids]
<1>1. /\ s3' = s3 /\ dumps' = [dumps EXCEPT ![d].delete_ids = ids] /\ jobs' = [jobs EXCEPT ![d] = Idle("done")]
      /\ jobs[d].pc = "ids"
  BY DEF SaveDeletes, At
<1>2. dumps[d] \in Dump /\ JobOK(d) BY ImportTyped DEF ImportInv
<1>3. jobs[d].zips = {} /\ Holds(d) = jobs[d].files /\ Holds(d) \subseteq 1..Now /\ Window("delete", d) \subseteq Holds(d)
      /\ Window("update", d) \subseteq dumps[d].files
  BY <1>1, <1>2 DEF JobOK, Holds
<1>4. ids \subseteq Rec
  <2>1. \A k \in 1..Now : s3[k].rec \in Rec BY ImportTyped DEF ImportInv, Object
  <2> QED BY <1>3, <2>1
<1>5. \A k \in Window("delete", d) : s3[k].rec \in ids BY <1>3
<1> HIDE DEF ids
<1>6. /\ dump \in Dump /\ dump.created = dumps[d].created /\ dump.since = dumps[d].since
      /\ dump.files = dumps[d].files /\ dump.delete_ids = ids
  BY <1>2, <1>4 DEF Dump
<1>7. dumps' = [dumps EXCEPT ![d] = dump] BY <1>1 DEF ImportInv, ImportTypes, Dumps
<1>8. Idle("done") \in Job BY BoundAssumption DEF Idle, Job, Time
<1> HIDE DEF dump
<1>9. ASSUME jobs'[d] = Idle("done"), dumps'[d] = dump, Window("update", d)' = Window("update", d),
             Window("delete", d)' = Window("delete", d)
      PROVE  JobOK(d)'
  BY <1>1, <1>3, <1>5, <1>6, <1>9 DEF JobOK, Idle
<1> QED BY <1>1, <1>6, <1>7, <1>8, <1>9, OneJob

LEMMA ImportInvariant == Spec => []ImportInv
<1>1. ImportInv /\ [Next]_vars => ImportInv'
  <2> SUFFICES ASSUME ImportInv, [Next]_vars PROVE ImportInv'
    OBVIOUS
  <2>1. ASSUME UNCHANGED <<s3, dumps, jobs>> PROVE ImportInv'
    BY <2>1 DEF ImportInv, ImportTypes, WindowsMeet, JobOK, Window, Holds, Dumps, Now
  <2>2. ASSUME NEW d \in 1..MaxDumps, Enqueue(d) \/ RunJob(d) \/ Kill(d) PROVE ImportInv'
    <3>1. d \in Dumps
      BY <2>2 DEF Enqueue, RunJob, Kill, At, DownloadUpdates, DownloadDeletes, Unzip, ProcessUpdate, AttachUpdate,
                  ReadDeletes, SaveDeletes, Raise
    <3>2. CASE Enqueue(d) \/ Raise(d) \/ Kill(d)
      <4>1. s3' = s3 /\ dumps' = dumps /\ \E pc \in {"queued", "dead"} : jobs' = [jobs EXCEPT ![d] = Idle(pc)]
        BY <3>2 DEF Enqueue, Raise, Kill
      <4> QED BY <3>1, <4>1, RestartStep
    <3>3. CASE \E k \in 1..MaxObjects : Unzip(d, k) \/ ProcessUpdate(d, k)
      BY <3>1, <3>3, UnzipStep, ProcessUpdateStep
    <3>4. CASE DownloadUpdates(d) \/ DownloadDeletes(d) \/ AttachUpdate(d) \/ ReadDeletes(d) \/ SaveDeletes(d)
      BY <3>1, <3>4, DownloadUpdatesStep, DownloadDeletesStep, AttachUpdateStep, ReadDeletesStep, SaveDeletesStep
    <3> QED BY <2>2, <3>2, <3>3, <3>4 DEF RunJob
  <2>3. CASE ImportFull \/ ScsbLatest \/ ScsbFull \/ PushFiles \/ DeleteIds \/ (\E j \in index : IndexFile(j)) \/ UNCHANGED vars
    BY <2>1, <2>3 DEF ImportFull, ScsbLatest, ScsbFull, StartTask, PushFiles, DeleteIds, IndexFile, importVars, vars
  <2>4. CASE PartnerUpdate \/ \E r \in Rec, kind \in {"update", "delete"} : Export(r, kind)
    BY <2>4, PartnerUpdateStep, ExportStep
  <2> QED BY <2>2, <2>3, <2>4 DEF Next
<1> QED BY <1>1, ImportStarts, PTL DEF Spec

\* For any records, objects, dumps and kills: as long as no import has failed, what SCSB exported
\* before a dump is in one of the dumps up to it (Dump.incremental_update_timestamp).
THEOREM WindowsLoseNothing == Spec => []NothingMissed
<1>1. ImportInv => NothingMissed
  <2> SUFFICES ASSUME ImportInv, NEW d \in Dumps, \A e \in 1..d : jobs[e].pc = "done",
                      NEW k \in 1..dumps[d].created
               PROVE  \E e \in 1..d : IF s3[k].kind = "update" THEN k \in dumps[e].files
                                      ELSE k > dumps[e].since /\ s3[k].rec \in dumps[e].delete_ids
    BY DEF NothingMissed, Covered
  <2>1. PICK e \in 1..d : dumps[e].since < k /\ k <= dumps[e].created
    BY DEF ImportInv, WindowsMeet
  <2>2. e \in Dumps /\ jobs[e].pc = "done" /\ JobOK(e)
    BY <2>1, ImportTyped DEF ImportInv, Dumps
  <2>3. k \in 1..Now /\ k \in 1..dumps[e].created /\ dumps[e].since \in Nat
    BY <2>1, <2>2, ImportTyped DEF ImportInv
  <2>4. s3[k].kind \in {"update", "delete"}
    BY <2>3, ImportTyped DEF ImportInv, Object
  <2>5. k \in Window(s3[k].kind, e)
    BY <2>1, <2>3 DEF Window
  <2> QED BY <2>1, <2>2, <2>3, <2>4, <2>5 DEF JobOK
<1> QED BY <1>1, ImportInvariant, PTL

---------------------------------------------------------------------------
(* The types, with those of what the tasks have still to do. *)

Entry == [dump : Nat, step : {"push", "delete"}, ids : SUBSET Rec]

\* What a job holds, and what its dump has, come from the listing since the dump before it.
FilesFrom(job, dump) ==
    /\ dump.files \subseteq Listed("update", dump.since)
    /\ job.pc \in {"updates", "attach"} => job.zips \cup job.files \subseteq Listed("update", dump.since)
    /\ job.pc \in {"deletes", "ids"} => job.zips \cup job.files \subseteq Listed("delete", dump.since)
    /\ \A r \in dump.delete_ids : \E k \in Listed("delete", dump.since) : s3[k].rec = r

FilesOK(d) ==
    /\ dumps[d].since = (IF d = 1 THEN 0 ELSE dumps[d - 1].created)
    /\ FilesFrom(jobs[d], dumps[d])

DumpTypes ==
    /\ Len(dumps) <= MaxDumps /\ zips \subseteq Time /\ dir \subseteq Time
    /\ \A d \in Dumps : FilesOK(d)

TaskTypes ==
    /\ full \in -1..MaxObjects /\ tasks \in 0..MaxTasks
    /\ todo \in Seq(Entry) /\ \A i \in 1..Len(todo) : todo[i].dump \in 0..Len(dumps)
    /\ todo # <<>> => tasks > 0
    /\ index \subseteq (1..tasks) \X Time
    /\ solr \in [Rec -> Time]

TypeInv ==
    /\ ImportInv /\ DumpTypes /\ TaskTypes
    /\ schedule \in Schedules /\ kills \in 0..MaxKills

LEMMA GreatestExists == ASSUME NEW n \in Int, NEW T, T \subseteq 1..n, T # {}
                        PROVE  \E x \in T : \A y \in T : y <= x
<1> DEFINE D == {n - x : x \in T}
<1>1. D \subseteq Nat /\ D # {}
  <2>1. \A x \in T : x \in Int /\ n - x \in Nat
    OBVIOUS
  <2> QED BY <2>1
<1> HIDE DEF D
<1>2. PICK m \in D : \A y \in D : m <= y BY <1>1, LeastExists
<1>3. PICK x \in T : m = n - x BY DEF D
<1>4. \A y \in T : n - x <= n - y BY <1>2, <1>3 DEF D
<1>5. T \subseteq Int OBVIOUS
<1>6. ASSUME NEW y \in T PROVE y <= x BY <1>4, <1>5
<1> QED BY <1>6

\* The last update of a record is an object, or none.
LEMMA TruthType == ASSUME NEW r, NEW p \in -1..MaxObjects PROVE Truth(r, p) \in Time
<1> DEFINE ks == {k \in 1..p : s3[k].rec = r}
<1>1. ks \subseteq 1..p /\ p \in Int /\ 1..p \subseteq Time /\ 0 \in Time BY BoundAssumption DEF Time
<1>2. ks # {} => Latest(ks) \in ks BY <1>1, GreatestExists DEF Latest
<1> QED BY <1>1, <1>2 DEF Truth


\* The dumps taken by scsb:full out of the first n.
Taken(n, list) ==
    list = [i \in 0..n |->
        IF i = 0 THEN <<>>
        ELSE IF dumps[i].generated > 0 /\ dumps[i].generated >= full THEN Append(list[i - 1], i)
        ELSE list[i - 1]]

LEMMA TakenExists == ASSUME NEW n \in Nat PROVE \E list : Taken(n, list)
<1> DEFINE Lacking == {k \in Nat : ~ \E list : Taken(k, list)}
<1>1. SUFFICES ASSUME Lacking # {} PROVE FALSE
  OBVIOUS
<1>2. PICK k \in Lacking : \A j \in Lacking : k <= j
  <2>1. Lacking \subseteq Nat
    OBVIOUS
  <2> HIDE DEF Lacking
  <2> QED BY <1>1, <2>1, LeastExists
<1>3. CASE k = 0
  <2>1. Taken(0, [i \in 0..0 |-> <<>>])
    BY DEF Taken
  <2> QED BY <1>3, <2>1
<1>4. CASE k # 0
  <2>1. k - 1 \in Nat /\ k - 1 \notin Lacking
    <3>1. k - 1 \in Nat /\ ~(k <= k - 1)
      BY <1>4
    <3> HIDE DEF Lacking
    <3> QED BY <1>2, <3>1
  <2>2. PICK list : Taken(k - 1, list)
    BY <2>1
  <2> DEFINE P(i) == dumps[i].generated > 0 /\ dumps[i].generated >= full
             next == [i \in 0..k |-> IF i = k THEN IF P(k) THEN Append(list[k - 1], k) ELSE list[k - 1]
                                     ELSE list[i]]
  <2>3. list = [i \in 0..k - 1 |-> IF i = 0 THEN <<>> ELSE IF P(i) THEN Append(list[i - 1], i) ELSE list[i - 1]]
    BY <2>2 DEF Taken
  <2> HIDE DEF P
  <2>4. ASSUME NEW i \in 0..k
        PROVE  next[i] = IF i = 0 THEN <<>> ELSE IF P(i) THEN Append(next[i - 1], i) ELSE next[i - 1]
    <3>1. CASE i = k
      <4>1. k - 1 \in 0..k /\ k - 1 # k
        BY <1>4, <2>1
      <4>2. next[k - 1] = list[k - 1]
        BY <4>1
      <4> QED BY <1>4, <3>1, <4>1, <4>2
    <3>2. CASE i # k /\ i # 0
      <4>1. next[i] = list[i] /\ i \in 0..k - 1 /\ i - 1 \in 0..k /\ i - 1 # k
        BY <3>2
      <4>2. next[i - 1] = list[i - 1]
        BY <4>1
      <4>3. list[i] = IF P(i) THEN Append(list[i - 1], i) ELSE list[i - 1]
        BY <2>3, <3>2, <4>1
      <4> QED BY <3>2, <4>1, <4>2, <4>3
    <3>3. CASE i # k /\ i = 0
      <4>1. 0 \in 0..k - 1 /\ next[0] = list[0]
        BY <1>4, <3>3
      <4> QED BY <2>3, <3>3, <4>1
    <3> QED BY <3>1, <3>2, <3>3
  <2>5. next = [i \in 0..k |-> IF i = 0 THEN <<>> ELSE IF P(i) THEN Append(next[i - 1], i) ELSE next[i - 1]]
    BY <2>4
  <2>6. Taken(k, next)
    BY <2>5 DEF Taken, P
  <2> QED BY <2>6
<1> QED BY <1>3, <1>4

\* scsb:full takes dumps that are there.
LEMMA SubsequentType == ASSUME Len(dumps) \in Nat PROVE Subsequent \in Seq(Dumps)
<1> DEFINE N == Len(dumps)
           P(i) == dumps[i].generated > 0 /\ dumps[i].generated >= full
           chosen == CHOOSE list : list = [i \in 0..N |->
                         IF i = 0 THEN <<>>
                         ELSE IF dumps[i].generated > 0 /\ dumps[i].generated >= full THEN Append(list[i - 1], i)
                         ELSE list[i - 1]]
<1>1. \E list : list = [i \in 0..N |-> IF i = 0 THEN <<>>
                         ELSE IF dumps[i].generated > 0 /\ dumps[i].generated >= full THEN Append(list[i - 1], i)
                         ELSE list[i - 1]]
  BY TakenExists DEF Taken
<1>2. chosen = [i \in 0..N |-> IF i = 0 THEN <<>> ELSE IF P(i) THEN Append(chosen[i - 1], i) ELSE chosen[i - 1]]
  BY <1>1, Zenon
<1>3. Subsequent = chosen[N]
  BY Zenon DEF Subsequent
<1> HIDE DEF chosen, P
<1> DEFINE Bad == {i \in 0..N : chosen[i] \notin Seq(Dumps)}
<1>4. Bad = {}
  <2> SUFFICES ASSUME Bad # {} PROVE FALSE
    OBVIOUS
  <2>1. Bad \subseteq Nat OBVIOUS
  <2> HIDE DEF Bad
  <2>2. PICK i \in Bad : \A j \in Bad : i <= j BY <2>1, LeastExists
  <2> USE DEF Bad
  <2>3. i \in 0..N /\ chosen[i] \notin Seq(Dumps) BY <2>2
  <2>4. CASE i = 0 BY <1>2, <2>3, <2>4
  <2>5. CASE i # 0
    <3>1. i - 1 \in 0..N /\ ~(i <= i - 1) /\ i \in Dumps BY <2>3, <2>5 DEF Dumps
    <3>2. chosen[i - 1] \in Seq(Dumps) BY <2>2, <3>1
    <3>3. chosen[i] = IF P(i) THEN Append(chosen[i - 1], i) ELSE chosen[i - 1] BY <1>2, <2>3, <2>5
    <3>4. Append(chosen[i - 1], i) \in Seq(Dumps) BY <3>1, <3>2
    <3> QED BY <2>3, <3>2, <3>3, <3>4
  <2> QED BY <2>4, <2>5
<1> QED BY <1>3, <1>4

LEMMA TypesStart == Init => TypeInv
  BY ImportStarts, BoundAssumption DEF Init, TypeInv, DumpTypes, TaskTypes, Dumps, Time

\* The dumps of a step that only tasks take part in.
LEMMA DumpsUnchanged ==
    ASSUME DumpTypes, UNCHANGED <<s3, dumps, jobs, zips, dir>> PROVE DumpTypes'
  BY DEF DumpTypes, FilesOK, FilesFrom, Listed, Dumps, Now

LEMMA TasksUnchanged ==
    ASSUME TaskTypes, Len(dumps) \in Nat, Len(dumps)' \in Nat, Len(dumps) <= Len(dumps)', UNCHANGED indexVars
    PROVE  TaskTypes'
  BY DEF TaskTypes, indexVars

LEMMA ExportTypes ==
    ASSUME TypeInv, ImportInv', NEW r \in Rec, NEW kind \in {"update", "delete"}, Export(r, kind)
    PROVE  TypeInv'
<1>1. /\ s3' = Append(s3, [rec |-> r, kind |-> kind])
      /\ UNCHANGED <<schedule, dumps, jobs, zips, dir, indexVars, kills>>
  BY DEF Export, importVars
<1>2. Now' = Now + 1 /\ Now \in Nat /\ \A k \in 1..Now : s3'[k] = s3[k]
  BY <1>1 DEF TypeInv, ImportInv, ImportTypes, Object, Now
<1>3. ASSUME NEW since, NEW kd PROVE /\ Listed(kd, since) \subseteq Listed(kd, since)'
                                    /\ \A k \in Listed(kd, since) : s3'[k] = s3[k]
  BY <1>2 DEF Listed
<1>4. DumpTypes'
  <2>1. ASSUME NEW d \in Dumps PROVE FilesOK(d)'
    <3>1. FilesOK(d) BY DEF TypeInv, DumpTypes
    <3>2. /\ Listed("update", dumps[d].since) \subseteq Listed("update", dumps[d].since)'
          /\ Listed("delete", dumps[d].since) \subseteq Listed("delete", dumps[d].since)'
          /\ \A k \in Listed("delete", dumps[d].since) : s3'[k] = s3[k]
      BY <1>1, <1>3
    <3> QED BY <1>1, <3>1, <3>2 DEF FilesOK, FilesFrom
  <2> QED BY <1>1, <2>1 DEF TypeInv, DumpTypes, Dumps
<1>5. TaskTypes' BY <1>1, TasksUnchanged, ImportTyped DEF TypeInv, ImportInv
<1> QED BY <1>1, <1>4, <1>5 DEF TypeInv

LEMMA PartnerUpdateTypes == ASSUME TypeInv, ImportInv', PartnerUpdate PROVE TypeInv'
<1> DEFINE n == Len(dumps) + 1
           new == [created |-> Now, since |-> LastCreated, files |-> {}, generated |-> 0, delete_ids |-> {}]
<1>1. /\ dumps' = Append(dumps, new) /\ jobs' = Append(jobs, Idle("created")) /\ Len(dumps) < MaxDumps
      /\ UNCHANGED <<schedule, s3, zips, dir, indexVars, kills>>
  BY DEF PartnerUpdate, NewDump
<1>2. Len(dumps) \in Nat /\ Len(jobs) = Len(dumps) BY ImportTyped DEF TypeInv, ImportInv, ImportTypes
<1>3. /\ Len(dumps') = n /\ Dumps' = Dumps \cup {n} /\ dumps'[n] = new /\ jobs'[n] = Idle("created")
      /\ \A d \in Dumps : dumps'[d] = dumps[d] /\ jobs'[d] = jobs[d]
  BY <1>1, <1>2 DEF TypeInv, ImportInv, ImportTypes, Dumps
<1>4. n = 1 <=> dumps = <<>> BY <1>2 DEF TypeInv, ImportInv, ImportTypes
<1>5. new.since = IF n = 1 THEN 0 ELSE dumps'[n - 1].created
  <2>1. n # 1 => n - 1 \in Dumps /\ n - 1 = Len(dumps) BY <1>2 DEF Dumps
  <2> QED BY <1>3, <1>4, <2>1 DEF LastCreated
<1>6. ASSUME NEW d \in Dumps' PROVE FilesOK(d)'
  <2>1. CASE d = n BY <1>3, <1>5, <2>1 DEF FilesOK, FilesFrom, Idle
  <2>2. CASE d \in Dumps
    <3>1. FilesOK(d) BY <2>2 DEF TypeInv, DumpTypes
    <3>2. d # 1 => d - 1 \in Dumps BY <1>2, <2>2 DEF Dumps
    <3>3. /\ dumps'[d] = dumps[d] /\ jobs'[d] = jobs[d]
          /\ d # 1 => dumps'[d - 1] = dumps[d - 1]
      BY <1>3, <2>2, <3>2
    <3>4. FilesFrom(jobs[d], dumps[d])' BY <1>1, <3>1, <3>3 DEF FilesOK, FilesFrom, Listed, Now
    <3> QED BY <3>1, <3>3, <3>4 DEF FilesOK
  <2> QED BY <1>3, <2>1, <2>2
<1>7. DumpTypes' BY <1>1, <1>2, <1>3, <1>6, BoundAssumption DEF TypeInv, DumpTypes
<1>8. TaskTypes' BY <1>1, <1>2, <1>3, TasksUnchanged DEF TypeInv
<1> QED BY <1>1, <1>7, <1>8 DEF TypeInv

\* A step of one job: the files of its dump and what it holds come from the listing.
LEMMA OneJobTypes ==
    ASSUME TypeInv, ImportInv', NEW d \in Dumps, NEW job, NEW dump,
           jobs' = [jobs EXCEPT ![d] = job], dumps' = [dumps EXCEPT ![d] = dump],
           UNCHANGED <<s3, schedule, indexVars>>, kills' \in 0..MaxKills, zips' \subseteq Time, dir' \subseteq Time,
           dump.created = dumps[d].created, dump.since = dumps[d].since, FilesFrom(job, dump)
    PROVE  TypeInv'
<1>1. /\ Len(dumps) \in Nat /\ Dumps' = Dumps /\ Len(dumps') = Len(dumps)
      /\ dumps'[d] = dump /\ jobs'[d] = job
      /\ \A e \in Dumps \ {d} : dumps'[e] = dumps[e] /\ jobs'[e] = jobs[e]
  BY DEF TypeInv, ImportInv, ImportTypes, Dumps
<1>2. \A e \in Dumps : dumps'[e].created = dumps[e].created /\ dumps'[e].since = dumps[e].since BY <1>1
<1>3. ASSUME NEW e \in Dumps PROVE FilesOK(e)'
  <2>1. FilesOK(e) BY DEF TypeInv, DumpTypes
  <2>2. e # 1 => e - 1 \in Dumps BY <1>1 DEF Dumps
  <2>3. dumps'[e].since = IF e = 1 THEN 0 ELSE dumps'[e - 1].created BY <1>2, <2>1, <2>2 DEF FilesOK
  <2>4. FilesFrom(jobs'[e], dumps'[e]) BY <1>1, <2>1 DEF FilesOK
  <2>5. FilesFrom(jobs[e], dumps[e])'
    BY <2>4 DEF FilesFrom, Listed, Now
  <2> QED BY <2>3, <2>5 DEF FilesOK
<1>4. DumpTypes' BY <1>1, <1>3 DEF TypeInv, DumpTypes
<1>5. TaskTypes' BY <1>1, TasksUnchanged DEF TypeInv
<1> QED BY <1>4, <1>5 DEF TypeInv

LEMMA OneJobStep ==
    ASSUME TypeInv, ImportInv', NEW d \in Dumps, Enqueue(d) \/ RunJob(d) \/ Kill(d) PROVE TypeInv'
<1> DEFINE since == dumps[d].since
<1>1. /\ dumps[d] \in Dump /\ jobs[d] \in Job /\ FilesFrom(jobs[d], dumps[d]) /\ JobOK(d)
      /\ zips \subseteq Time /\ dir \subseteq Time /\ kills \in 0..MaxKills
  BY ImportTyped DEF TypeInv, ImportInv, DumpTypes, FilesOK
<1>2. dumps = [dumps EXCEPT ![d] = dumps[d]] /\ jobs = [jobs EXCEPT ![d] = jobs[d]]
  BY DEF TypeInv, ImportInv, ImportTypes, Dumps
<1>3. \A kind \in {"update", "delete"} : Listed(kind, since) \in SUBSET Time
  BY ListedCovers DEF TypeInv
<1>4. Holds(d) \subseteq Time
  BY <1>1, BoundAssumption DEF Job, Holds
<1>5. CASE Enqueue(d) \/ Raise(d) \/ Kill(d)
  <2>1. /\ \E pc \in {"queued", "dead"} : jobs' = [jobs EXCEPT ![d] = Idle(pc)]
        /\ UNCHANGED <<s3, schedule, dumps, zips, dir, indexVars>> /\ kills' \in 0..MaxKills
    BY <1>1, <1>5, BoundAssumption DEF Enqueue, Raise, Kill
  <2>2. PICK pc \in {"queued", "dead"} : jobs' = [jobs EXCEPT ![d] = Idle(pc)] BY <2>1
  <2>3. FilesFrom(Idle(pc), dumps[d]) BY <1>1 DEF Idle, FilesFrom
  <2>4. dumps' = [dumps EXCEPT ![d] = dumps[d]] BY <1>2, <2>1
  <2> QED BY <1>1, <2>1, <2>2, <2>3, <2>4, OneJobTypes
<1>6. CASE DownloadUpdates(d)
  <2> DEFINE job == [Idle("updates") EXCEPT !.zips = Listed("update", since)]
  <2>1. /\ jobs' = [jobs EXCEPT ![d] = job] /\ zips' = zips \cup Listed("update", since)
        /\ UNCHANGED <<s3, schedule, dumps, dir, indexVars, kills>>
    BY <1>6 DEF DownloadUpdates
  <2>2. job.pc = "updates" /\ job.zips \cup job.files = Listed("update", since) BY DEF Idle
  <2> HIDE DEF job
  <2>3. FilesFrom(job, dumps[d]) BY <1>1, <2>2 DEF FilesFrom
  <2>4. dumps' = [dumps EXCEPT ![d] = dumps[d]] BY <1>2, <2>1
  <2> QED BY <1>1, <1>3, <2>1, <2>3, <2>4, OneJobTypes
<1>7. CASE DownloadDeletes(d)
  <2> DEFINE job == [Idle("deletes") EXCEPT !.zips = Listed("delete", since)]
             dump == [dumps[d] EXCEPT !.generated = IF dumps[d].files = {} THEN 0 ELSE Earliest(dumps[d].files)]
  <2>1. /\ jobs' = [jobs EXCEPT ![d] = job] /\ zips' = zips \cup Listed("delete", since)
        /\ dumps' = [dumps EXCEPT ![d].generated = IF dumps[d].files = {} THEN 0 ELSE Earliest(dumps[d].files)]
        /\ UNCHANGED <<s3, schedule, dir, indexVars, kills>>
    BY <1>7 DEF DownloadDeletes
  <2>2. job.pc = "deletes" /\ job.zips \cup job.files = Listed("delete", since) BY DEF Idle
  <2>3. /\ dump.created = dumps[d].created /\ dump.since = since /\ dump.files = dumps[d].files
        /\ dump.delete_ids = dumps[d].delete_ids
    BY <1>1 DEF Dump
  <2>4. dumps' = [dumps EXCEPT ![d] = dump] BY <2>1 DEF TypeInv, ImportInv, ImportTypes, Dumps
  <2> HIDE DEF job, dump
  <2>5. FilesFrom(job, dump) BY <1>1, <2>2, <2>3 DEF FilesFrom
  <2> QED BY <1>1, <1>3, <2>1, <2>3, <2>4, <2>5, OneJobTypes
<1>8. ASSUME NEW k \in 1..MaxObjects, Unzip(d, k) PROVE TypeInv'
  <2> DEFINE job == [jobs[d] EXCEPT !.zips = @ \ {k}, !.files = @ \cup {k}]
  <2>1. /\ jobs' = [jobs EXCEPT ![d].zips = @ \ {k}, ![d].files = @ \cup {k}] /\ k \in jobs[d].zips
        /\ zips' = zips \ {k} /\ dir' = dir \cup {k}
        /\ UNCHANGED <<s3, schedule, dumps, indexVars, kills>>
    BY <1>8 DEF Unzip
  <2>2. job.pc = jobs[d].pc /\ job.zips \cup job.files = Holds(d) BY <1>1, <2>1 DEF Job, Holds
  <2>3. jobs' = [jobs EXCEPT ![d] = job] BY <2>1 DEF TypeInv, ImportInv, ImportTypes, Dumps
  <2>4. zips' \subseteq Time /\ dir' \subseteq Time BY <1>1, <1>4, <2>1 DEF Holds
  <2>5. kills' \in 0..MaxKills /\ UNCHANGED <<s3, schedule, indexVars>> BY <1>1, <2>1
  <2>6. dumps' = [dumps EXCEPT ![d] = dumps[d]] BY <1>2, <2>1
  <2> HIDE DEF job
  <2>7. FilesFrom(job, dumps[d]) BY <1>1, <2>2 DEF FilesFrom, Holds
  <2> QED BY <2>3, <2>4, <2>5, <2>6, <2>7, OneJobTypes
<1>9. ASSUME NEW k \in 1..MaxObjects, ProcessUpdate(d, k) PROVE TypeInv'
  <2> DEFINE job == [jobs[d] EXCEPT !.pc = "attach", !.current = k]
  <2>1. /\ jobs' = [jobs EXCEPT ![d].pc = "attach", ![d].current = k] /\ jobs[d].pc = "updates"
        /\ dir' = dir \ {k}
        /\ UNCHANGED <<s3, schedule, dumps, zips, indexVars, kills>>
    BY <1>9 DEF ProcessUpdate, At
  <2>2. job.pc = "attach" /\ job.zips \cup job.files = Holds(d) BY <1>1 DEF Job, Holds
  <2>3. jobs' = [jobs EXCEPT ![d] = job] BY <2>1 DEF TypeInv, ImportInv, ImportTypes, Dumps
  <2> HIDE DEF job
  <2>4. FilesFrom(job, dumps[d]) BY <1>1, <2>1, <2>2 DEF FilesFrom, Holds
  <2>5. dumps' = [dumps EXCEPT ![d] = dumps[d]] BY <1>2, <2>1
  <2> QED BY <1>1, <2>1, <2>3, <2>4, <2>5, OneJobTypes
<1>10. CASE AttachUpdate(d)
  <2> DEFINE job == [jobs[d] EXCEPT !.pc = "updates", !.files = @ \ {jobs[d].current}]
             dump == [dumps[d] EXCEPT !.files = @ \cup {jobs[d].current}]
  <2>1. /\ jobs' = [jobs EXCEPT ![d].pc = "updates", ![d].files = @ \ {jobs[d].current}] /\ jobs[d].pc = "attach"
        /\ dumps' = [dumps EXCEPT ![d].files = @ \cup {jobs[d].current}]
        /\ UNCHANGED <<s3, schedule, zips, dir, indexVars, kills>>
    BY <1>10 DEF AttachUpdate, At
  <2>2. job.pc = "updates" /\ job.zips \cup job.files \subseteq Holds(d) BY <1>1 DEF Job, Holds
  <2>3. jobs[d].current \in Holds(d) /\ Holds(d) \subseteq Listed("update", since)
    BY <1>1, <2>1 DEF JobOK, FilesFrom, Holds
  <2>4. /\ dump.created = dumps[d].created /\ dump.since = since
        /\ dump.files = dumps[d].files \cup {jobs[d].current} /\ dump.delete_ids = dumps[d].delete_ids
    BY <1>1 DEF Dump
  <2>5. jobs' = [jobs EXCEPT ![d] = job] /\ dumps' = [dumps EXCEPT ![d] = dump]
    BY <2>1 DEF TypeInv, ImportInv, ImportTypes, Dumps
  <2> HIDE DEF job, dump
  <2>6. FilesFrom(job, dump) BY <1>1, <2>2, <2>3, <2>4 DEF FilesFrom
  <2> QED BY <1>1, <2>1, <2>4, <2>5, <2>6, OneJobTypes
<1>11. CASE ReadDeletes(d)
  <2> DEFINE job == [jobs[d] EXCEPT !.pc = "ids"]
  <2>1. /\ jobs' = [jobs EXCEPT ![d].pc = "ids"] /\ dir' = dir \ jobs[d].files
        /\ UNCHANGED <<s3, schedule, dumps, zips, indexVars, kills>>
    BY <1>11 DEF ReadDeletes
  <2>2. job.pc = "ids" /\ job.zips \cup job.files = Holds(d) /\ jobs[d].pc = "deletes"
    BY <1>1, <1>11 DEF Job, Holds, ReadDeletes, At
  <2>3. jobs' = [jobs EXCEPT ![d] = job] BY <2>1 DEF TypeInv, ImportInv, ImportTypes, Dumps
  <2> HIDE DEF job
  <2>4. FilesFrom(job, dumps[d]) BY <1>1, <2>2 DEF FilesFrom, Holds
  <2>5. dumps' = [dumps EXCEPT ![d] = dumps[d]] BY <1>2, <2>1
  <2> QED BY <1>1, <2>1, <2>3, <2>4, <2>5, OneJobTypes
<1>12. CASE SaveDeletes(d)
  <2> DEFINE dump == [dumps[d] EXCEPT !.delete_ids = {s3[k].rec : k \in jobs[d].files}]
  <2>1. /\ dumps' = [dumps EXCEPT ![d].delete_ids = {s3[k].rec : k \in jobs[d].files}]
        /\ jobs' = [jobs EXCEPT ![d] = Idle("done")]
        /\ UNCHANGED <<s3, schedule, zips, dir, indexVars, kills>>
    BY <1>12 DEF SaveDeletes
  <2>2. /\ dump.created = dumps[d].created /\ dump.since = since /\ dump.files = dumps[d].files
        /\ dump.delete_ids = {s3[k].rec : k \in jobs[d].files}
    BY <1>1 DEF Dump
  <2>3. dumps' = [dumps EXCEPT ![d] = dump] BY <2>1 DEF TypeInv, ImportInv, ImportTypes, Dumps
  <2>4. jobs[d].pc = "ids" BY <1>12 DEF SaveDeletes, At
  <2> HIDE DEF dump
  <2>5. FilesFrom(Idle("done"), dump) BY <1>1, <2>2, <2>4 DEF FilesFrom, Idle
  <2> QED BY <1>1, <2>1, <2>2, <2>3, <2>5, OneJobTypes
<1> QED BY <1>5, <1>6, <1>7, <1>8, <1>9, <1>10, <1>11, <1>12 DEF RunJob

\* The steps of the tasks.
LEMMA TaskStep ==
    ASSUME TypeInv, ImportInv',
           ImportFull \/ ScsbLatest \/ ScsbFull \/ PushFiles \/ DeleteIds \/ (\E j \in index : IndexFile(j))
    PROVE  TypeInv'
<1>1. /\ UNCHANGED <<schedule, s3, dumps, jobs, zips, dir, kills>>
  BY DEF ImportFull, ScsbLatest, ScsbFull, StartTask, PushFiles, DeleteIds, IndexFile, importVars
<1>2. DumpTypes' BY <1>1, DumpsUnchanged DEF TypeInv
<1>3. /\ Len(dumps) \in Nat /\ Now \in Time /\ TaskTypes /\ Len(dumps') = Len(dumps)
      /\ \A d \in Dumps : dumps[d] \in Dump
      /\ 0 \in Time /\ \A r \in Rec, j \in Time : solr[r] \in Time
      /\ tasks \in Nat
  BY <1>1, ImportTyped, BoundAssumption DEF TypeInv, ImportInv, TaskTypes, Time
<1>4. \A d \in 0..Len(dumps) : DumpAt(d) \in Entry /\ DumpAt(d).dump = d
  <2> TAKE d \in 0..Len(dumps)
  <2>1. d # 0 => dumps[d] \in Dump BY <1>3 DEF Dumps
  <2>2. d # 0 => dumps[d].delete_ids \in SUBSET Rec BY <2>1 DEF Dump
  <2> QED BY <2>2 DEF DumpAt, Entry
<1>5. CASE ImportFull
  <2>1. full' = Now /\ UNCHANGED <<tasks, todo, index, solr>> BY <1>5 DEF ImportFull
  <2> QED BY <1>1, <1>2, <1>3, <2>1, BoundAssumption DEF TypeInv, TaskTypes, Time
<1>6. ASSUME NEW list \in Seq(Entry), \A i \in 1..Len(list) : list[i].dump \in 0..Len(dumps),
             StartTask(list), solr' \in [Rec -> Time]
      PROVE  TypeInv'
  <2>1. tasks < MaxTasks /\ tasks' = tasks + 1 /\ todo' = list /\ UNCHANGED <<full, index>>
    BY <1>6 DEF StartTask
  <2>2. (1..tasks) \X Time \subseteq (1..tasks') \X Time BY <1>3, <2>1
  <2>3. index' \subseteq (1..tasks') \X Time BY <1>3, <2>1, <2>2 DEF TaskTypes
  <2>4. tasks' \in 0..MaxTasks /\ tasks' > 0 BY <1>3, <2>1, BoundAssumption
  <2> QED BY <1>1, <1>2, <1>3, <1>6, <2>1, <2>3, <2>4 DEF TypeInv, TaskTypes
<1>7. CASE ScsbLatest
  <2>1. StartTask(<<DumpAt(Len(dumps))>>) /\ solr' = solr BY <1>7 DEF ScsbLatest
  <2>2. DumpAt(Len(dumps)) \in Entry /\ DumpAt(Len(dumps)).dump \in 0..Len(dumps) BY <1>3, <1>4
  <2> DEFINE list == <<DumpAt(Len(dumps))>>
  <2>3. list \in Seq(Entry) /\ Len(list) = 1 /\ list[1].dump \in 0..Len(dumps) BY <2>2
  <2>4. solr' \in [Rec -> Time] BY <1>3, <2>1 DEF TaskTypes
  <2> HIDE DEF list
  <2>5. \A i \in 1..Len(list) : list[i].dump \in 0..Len(dumps)
    <3> TAKE i \in 1..Len(list)
    <3>1. i = 1 BY <2>3
    <3> QED BY <2>3, <3>1
  <2>6. StartTask(list) BY <2>1 DEF list
  <2> QED BY <1>6, <2>3, <2>4, <2>5, <2>6
<1>8. CASE ScsbFull
  <2> DEFINE list == [i \in DOMAIN Subsequent |-> DumpAt(Subsequent[i])]
  <2>1. StartTask(<<DumpAt(0)>> \o list) /\ solr' = [r \in Rec |-> 0] BY <1>8 DEF ScsbFull
  <2>2. Subsequent \in Seq(Dumps) BY <1>3, SubsequentType
  <2>3. \A i \in DOMAIN Subsequent : Subsequent[i] \in 0..Len(dumps) BY <2>2 DEF Dumps
  <2>4. list \in Seq(Entry) /\ \A i \in 1..Len(list) : list[i].dump \in 0..Len(dumps)
    BY <1>4, <2>2, <2>3
  <2>5. <<DumpAt(0)>> \in Seq(Entry) /\ Len(<<DumpAt(0)>>) = 1 /\ DumpAt(0).dump = 0 BY <1>3, <1>4
  <2> HIDE DEF list
  <2>6. <<DumpAt(0)>> \o list \in Seq(Entry) BY <2>4, <2>5
  <2>7. \A i \in 1..Len(<<DumpAt(0)>> \o list) : (<<DumpAt(0)>> \o list)[i].dump \in 0..Len(dumps)
    BY <1>3, <2>4, <2>5
  <2>8. solr' \in [Rec -> Time] BY <1>3, <2>1
  <2> QED BY <1>6, <2>1, <2>6, <2>7, <2>8
<1>9. CASE PushFiles
  <2> DEFINE files == IF todo[1].dump = 0 THEN {0} ELSE dumps[todo[1].dump].files
  <2>1. /\ todo # <<>> /\ index' = index \cup {tasks} \X files
        /\ todo' = [todo EXCEPT ![1].step = "delete"] /\ UNCHANGED <<full, tasks, solr>>
    BY <1>9 DEF PushFiles
  <2>2. 1 \in 1..Len(todo) /\ todo[1] \in Entry BY <1>3, <2>1 DEF TaskTypes
  <2>3. todo[1].dump # 0 => dumps[todo[1].dump] \in Dump BY <1>3, <2>2 DEF TaskTypes, Dumps
  <2>4. files \subseteq Time BY <1>3, <2>3 DEF Dump
  <2> HIDE DEF files
  <2>5. tasks \in 1..tasks BY <1>3, <2>1 DEF TaskTypes
  <2>6. index' \subseteq (1..tasks) \X Time BY <1>3, <2>1, <2>4, <2>5 DEF TaskTypes
  <2>7. [todo[1] EXCEPT !.step = "delete"] \in Entry /\ [todo[1] EXCEPT !.step = "delete"].dump = todo[1].dump
    BY <2>2 DEF Entry
  <2>8. todo' \in Seq(Entry) /\ \A i \in 1..Len(todo') : todo'[i].dump \in 0..Len(dumps)
    BY <1>3, <2>1, <2>2, <2>7 DEF TaskTypes
  <2> QED BY <1>1, <1>2, <1>3, <2>1, <2>6, <2>8 DEF TypeInv, TaskTypes
<1>10. CASE DeleteIds
  <2>1. /\ todo # <<>> /\ solr' = [r \in Rec |-> IF r \in todo[1].ids THEN 0 ELSE solr[r]]
        /\ todo' = Tail(todo) /\ UNCHANGED <<full, tasks, index>>
    BY <1>10 DEF DeleteIds
  <2>2. todo' \in Seq(Entry) /\ \A i \in 1..Len(todo') : todo'[i] = todo[i + 1] /\ i + 1 \in 1..Len(todo)
    BY <1>3, <2>1 DEF TaskTypes
  <2>3. solr' \in [Rec -> Time] BY <1>3, <2>1
  <2> QED BY <1>1, <1>2, <1>3, <2>1, <2>2, <2>3 DEF TypeInv, TaskTypes
<1>11. ASSUME NEW j \in index, IndexFile(j) PROVE TypeInv'
  <2>1. /\ index' = index \ {j} /\ UNCHANGED <<full, tasks, todo>>
        /\ solr' = [r \in Rec |->
                IF j[2] = 0 THEN IF Truth(r, full) # 0 THEN Truth(r, full) ELSE solr[r]
                ELSE IF s3[j[2]].rec = r THEN j[2] ELSE solr[r]]
    BY <1>11 DEF IndexFile
  <2>2. j[2] \in Time /\ \A r \in Rec : Truth(r, full) \in Time BY <1>3, TruthType DEF TaskTypes
  <2>3. solr' \in [Rec -> Time] BY <1>3, <2>1, <2>2
  <2> QED BY <1>1, <1>2, <1>3, <2>1, <2>3 DEF TypeInv, TaskTypes
<1> QED BY <1>5, <1>7, <1>8, <1>9, <1>10, <1>11

LEMMA TypesStep == ASSUME ImportInv', TypeInv, [Next]_vars PROVE TypeInv'
<1>1. CASE UNCHANGED vars
  <2>1. UNCHANGED <<schedule, s3, dumps, jobs, zips, dir, kills, indexVars>> BY <1>1 DEF vars, importVars
  <2>2. DumpTypes' BY <2>1, DumpsUnchanged DEF TypeInv
  <2>3. TaskTypes' BY <2>1, TasksUnchanged, ImportTyped DEF TypeInv, ImportInv
  <2> QED BY <2>1, <2>2, <2>3 DEF TypeInv
<1>2. ASSUME NEW d \in 1..MaxDumps, Enqueue(d) \/ RunJob(d) \/ Kill(d) PROVE TypeInv'
  <2>1. d \in Dumps
    BY <1>2 DEF Enqueue, RunJob, Kill, At, DownloadUpdates, DownloadDeletes, Unzip, ProcessUpdate, AttachUpdate,
                ReadDeletes, SaveDeletes, Raise
  <2> QED BY <1>2, <2>1, OneJobStep
<1>3. CASE ImportFull \/ ScsbLatest \/ ScsbFull \/ PushFiles \/ DeleteIds \/ (\E j \in index : IndexFile(j))
  BY <1>3, TaskStep
<1>4. CASE PartnerUpdate \/ \E r \in Rec, kind \in {"update", "delete"} : Export(r, kind)
  BY <1>4, PartnerUpdateTypes, ExportTypes
<1> QED BY <1>1, <1>2, <1>3, <1>4 DEF Next

LEMMA TypesHold == Spec => []TypeInv
<1>1. ImportInv /\ ImportInv' /\ TypeInv /\ [Next]_vars => TypeInv'
  BY TypesStep
<1> QED BY <1>1, TypesStart, ImportInvariant, PTL DEF Spec

\* For any records, objects, dumps and schedules: what the tasks and jobs hold has its type, a dump
\* starts when the one before it was created, and its files are updates since then.
THEOREM TypeCorrect == Spec => []TypeOK
<1>1. TypeInv => TypeOK
  BY DEF TypeInv, ImportInv, ImportTypes, DumpTypes, FilesOK, FilesFrom, TaskTypes, TypeOK
<1> QED BY <1>1, TypesHold, PTL

---------------------------------------------------------------------------
(* Solr follows SCSB on cron days. *)

\* A record that SCSB has changed since time p.
Changed(r, p) == \E k \in p + 1..Now : s3[k].rec = r

LastDump == dumps[Len(dumps)]

\* The update directory holds what the job of the last dump holds, and nothing else.
Clean ==
    /\ dumps = <<>> => zips = {} /\ dir = {}
    /\ dumps # <<>> =>
        LET job == jobs[Len(dumps)] IN
        /\ job.pc # "dead" /\ (job.pc = "attach" => job.zips = {}) /\ job.zips \cap job.files = {}
        /\ zips = IF job.pc \in {"updates", "deletes"} THEN job.zips ELSE {}
        /\ dir = IF job.pc \in {"updates", "deletes"} THEN job.files
                 ELSE IF job.pc = "attach" THEN job.files \ {job.current} ELSE {}

\* A dump, its import and its task follow each other.
Alternate ==
    /\ tasks \in {Len(dumps) - 1, Len(dumps)}
    /\ \A d \in Dumps : d < Len(dumps) \/ tasks = Len(dumps) => jobs[d].pc = "done"
    /\ tasks < Len(dumps) => todo = <<>> /\ index = {}

\* The task is about the last dump.
TaskOfLast ==
    /\ full = -1
    /\ todo # <<>> => Len(todo) = 1 /\ todo[1].dump = Len(dumps) /\ todo[1].ids = LastDump.delete_ids
    /\ todo # <<>> /\ todo[1].step = "push" => index = {}
    /\ \A j \in index : j[2] \in LastDump.files

\* A record changes once between two dumps.
OnceBetween ==
    /\ \A i, j \in LastCreated + 1..Now : s3[i].rec = s3[j].rec => i = j
    /\ dumps # <<>> =>
          /\ LastDump.since <= LastDump.created
          /\ \A i, j \in LastDump.since + 1..LastDump.created : s3[i].rec = s3[j].rec => i = j

PendingFiles == IF todo # <<>> /\ todo[1].step = "push" THEN LastDump.files ELSE {j[2] : j \in index}

\* Solr has what a record was at the dump that was indexed last, or will have it.
SolrFollows ==
    \A r \in Rec, p \in Time :
        /\ tasks < Len(dumps) /\ p = LastDump.since => Changed(r, p) \/ solr[r] = Truth(r, p)
        /\ tasks = Len(dumps) /\ p = LastCreated =>
              \/ Changed(r, p) \/ solr[r] = Truth(r, p)
              \/ Truth(r, p) \in PendingFiles
              \/ todo # <<>> /\ r \in todo[1].ids

SyncInv == schedule = "cron" => Clean /\ Alternate /\ TaskOfLast /\ OnceBetween /\ SolrFollows

\* The latest of a set with a greatest element.
LEMMA LatestIs == ASSUME NEW T \in SUBSET Int, NEW k \in T, \A j \in T : j <= k PROVE Latest(T) = k
<1>1. ASSUME NEW i \in T, \A j \in T : j <= i PROVE i = k
  <2>1. i \in Int /\ k \in Int /\ i <= k /\ k <= i BY <1>1
  <2> QED BY <2>1
<1> QED BY <1>1 DEF Latest

LEMMA TruthIs ==
    ASSUME NEW r, NEW p \in Nat, NEW k \in 1..p, s3[k].rec = r, \A j \in 1..p : s3[j].rec = r => j <= k
    PROVE  Truth(r, p) = IF s3[k].kind = "update" THEN k ELSE 0
<1> DEFINE ks == {j \in 1..p : s3[j].rec = r}
<1>1. ks \in SUBSET Int /\ k \in ks /\ \A j \in ks : j <= k OBVIOUS
<1>2. Latest(ks) = k BY <1>1, LatestIs
<1> QED BY <1>1, <1>2 DEF Truth

LEMMA TruthHas ==
    ASSUME NEW r, NEW p \in Time, Truth(r, p) # 0
    PROVE  Truth(r, p) \in 1..p /\ s3[Truth(r, p)].rec = r
<1> DEFINE ks == {k \in 1..p : s3[k].rec = r}
<1>1. ks \subseteq 1..p /\ p \in Int BY BoundAssumption DEF Time
<1>2. ks # {} => Latest(ks) \in ks BY <1>1, GreatestExists DEF Latest
<1> QED BY <1>1, <1>2 DEF Truth

LEMMA TruthKept ==
    ASSUME NEW r, NEW p \in Nat, NEW q \in Nat, p <= q, \A k \in p + 1..q : s3[k].rec # r
    PROVE  Truth(r, q) = Truth(r, p)
<1>1. {k \in 1..q : s3[k].rec = r} = {k \in 1..p : s3[k].rec = r} OBVIOUS
<1> QED BY <1>1 DEF Truth

\* The objects that are there keep their places.
LEMMA TruthSame ==
    ASSUME NEW r, NEW p \in Nat, \A k \in 1..p : s3'[k] = s3[k]
    PROVE  Truth(r, p)' = Truth(r, p)
<1> DEFINE ks == {k \in 1..p : s3[k].rec = r}
           ls == {k \in 1..p : s3'[k].rec = r}
<1>1. ls = ks OBVIOUS
<1>2. ks # {} => Latest(ks) \in ks
  <2>1. ks \subseteq 1..p /\ p \in Int OBVIOUS
  <2> HIDE DEF ks
  <2> QED BY <2>1, GreatestExists DEF Latest
<1>3. Truth(r, p) = IF ks # {} /\ s3[Latest(ks)].kind = "update" THEN Latest(ks) ELSE 0 BY DEF Truth
<1>4. Truth(r, p)' = IF ls # {} /\ s3'[Latest(ls)].kind = "update" THEN Latest(ls) ELSE 0 BY DEF Truth, Latest
<1> QED BY <1>1, <1>2, <1>3, <1>4

\* The last dump, when there is one.
LEMMA LastTyped ==
    ASSUME TypeInv
    PROVE  /\ Len(dumps) \in Nat /\ Now \in Nat /\ tasks \in Nat /\ Len(jobs) = Len(dumps) /\ Len(todo) \in Nat
           /\ LastCreated \in Time /\ LastCreated <= Now /\ Time \subseteq Nat
           /\ dumps = <<>> <=> Len(dumps) = 0
           /\ dumps # <<>> =>
                 /\ Len(dumps) \in Dumps /\ LastDump \in Dump /\ LastCreated = LastDump.created
                 /\ LastDump.since \in Time
                 /\ FilesFrom(jobs[Len(dumps)], LastDump) /\ JobOK(Len(dumps))
<1>1. Len(dumps) \in Nat /\ Now \in Time /\ Len(jobs) = Len(dumps) /\ Time \subseteq Nat /\ 0 \in Time
      /\ tasks \in Nat /\ Len(todo) \in Nat
  BY ImportTyped, BoundAssumption DEF TypeInv, ImportInv, ImportTypes, TaskTypes, Time
<1>2. dumps = <<>> <=> Len(dumps) = 0 BY DEF TypeInv, ImportInv, ImportTypes
<1>3. ASSUME dumps # <<>>
      PROVE  /\ Len(dumps) \in Dumps /\ LastDump \in Dump /\ LastCreated = LastDump.created
             /\ LastCreated <= Now /\ LastCreated \in Time /\ LastDump.since \in Time
             /\ FilesFrom(jobs[Len(dumps)], LastDump) /\ JobOK(Len(dumps))
  <2>1. Len(dumps) \in Dumps BY <1>1, <1>2, <1>3 DEF Dumps
  <2>2. LastDump \in Dump /\ LastDump.created <= Now BY <2>1, ImportTyped DEF TypeInv, ImportInv, LastDump
  <2>3. FilesOK(Len(dumps)) /\ JobOK(Len(dumps)) BY <2>1 DEF TypeInv, DumpTypes, ImportInv
  <2>4. LastCreated = LastDump.created BY <1>3 DEF LastCreated, LastDump
  <2> QED BY <2>1, <2>2, <2>3, <2>4 DEF FilesOK, LastDump, Dump
<1>4. dumps = <<>> => LastCreated = 0 BY DEF LastCreated
<1> QED BY <1>1, <1>2, <1>3, <1>4

\* A record that is as it was at the last dump changed once since the dump before.
LEMMA SettledIs ==
    ASSUME TypeInv, OnceBetween, dumps # <<>>, NEW p, p = LastCreated, NEW r, ~Changed(r, p),
           NEW k \in 1..Now, k > LastDump.since, s3[k].rec = r
    PROVE  Truth(r, p) = IF s3[k].kind = "update" THEN k ELSE 0
<1>1. /\ p \in Nat /\ Now \in Nat /\ p <= Now /\ LastDump.since \in Nat /\ p = LastDump.created /\ LastDump.since <= p
      /\ \A i, j \in LastDump.since + 1..p : s3[i].rec = s3[j].rec => i = j
  BY LastTyped DEF OnceBetween
<1>2. k <= p BY <1>1 DEF Changed
<1>3. \A j \in 1..p : s3[j].rec = r => j <= k BY <1>1, <1>2
<1> QED BY <1>1, <1>2, <1>3, TruthIs

LEMMA FileIsTruth ==
    ASSUME TypeInv, OnceBetween, dumps # <<>>, NEW p, p = LastCreated, NEW k \in LastDump.files, ~Changed(s3[k].rec, p)
    PROVE  Truth(s3[k].rec, p) = k
<1>1. k \in 1..Now /\ k > LastDump.since /\ s3[k].kind = "update" BY LastTyped DEF FilesFrom, Listed
<1> QED BY <1>1, SettledIs

LEMMA DeleteIsTruth ==
    ASSUME TypeInv, OnceBetween, dumps # <<>>, NEW p, p = LastCreated, NEW r \in LastDump.delete_ids, ~Changed(r, p)
    PROVE  Truth(r, p) = 0
<1>1. PICK k \in Listed("delete", LastDump.since) : s3[k].rec = r BY LastTyped DEF FilesFrom
<1>2. k \in 1..Now /\ k > LastDump.since /\ s3[k].kind = "delete" BY <1>1 DEF Listed
<1> QED BY <1>1, <1>2, SettledIs

LEMMA SyncStarts == Init => SyncInv
<1> SUFFICES ASSUME Init PROVE SyncInv
  OBVIOUS
<1>1. /\ s3 = <<>> /\ dumps = <<>> /\ Len(dumps) = 0 /\ Now = 0 /\ zips = {} /\ dir = {} /\ full = -1 /\ tasks = 0
      /\ todo = <<>> /\ index = {} /\ solr = [r \in Rec |-> 0] /\ LastCreated = 0 /\ Dumps = {}
  BY DEF Init, Now, LastCreated, Dumps
<1>2. \A r : Truth(r, 0) = 0 BY DEF Truth
<1>3. Clean BY <1>1 DEF Clean
<1>4. Alternate BY <1>1 DEF Alternate
<1>5. TaskOfLast BY <1>1 DEF TaskOfLast
<1>6. OnceBetween BY <1>1 DEF OnceBetween
<1>7. SolrFollows BY <1>1, <1>2 DEF SolrFollows
<1> QED BY <1>3, <1>4, <1>5, <1>6, <1>7 DEF SyncInv

\* The invariant on a cron day.
CronInv == TypeInv /\ schedule = "cron" /\ Clean /\ Alternate /\ TaskOfLast /\ OnceBetween /\ SolrFollows

\* SCSB exports an object: its record has changed.
LEMMA ExportSync ==
    ASSUME CronInv, TypeInv', NEW r \in Rec, NEW kind \in {"update", "delete"}, Export(r, kind)
    PROVE  CronInv'
<1>1. /\ s3' = Append(s3, [rec |-> r, kind |-> kind])
      /\ UNCHANGED <<schedule, dumps, jobs, zips, dir, full, tasks, todo, index, solr>>
      /\ \A k \in 1..Now : s3[k].rec = r => k <= LastCreated
  BY DEF Export, importVars, indexVars, CronInv
<1>2. Now' = Now + 1 /\ Now \in Nat /\ s3'[Now + 1].rec = r /\ \A k \in 1..Now : s3'[k] = s3[k]
  BY <1>1 DEF CronInv, TypeInv, ImportInv, ImportTypes, Object, Now
<1>3. /\ LastCreated' = LastCreated /\ LastCreated \in Nat /\ LastCreated <= Now
      /\ LastDump' = LastDump /\ Dumps' = Dumps
      /\ dumps # <<>> => LastDump.since \in Nat /\ LastDump.created = LastCreated
  BY <1>1, LastTyped DEF CronInv, LastCreated, LastDump, Dumps
<1>4. Clean' /\ Alternate' /\ TaskOfLast'
  BY <1>1, <1>3 DEF CronInv, Clean, Alternate, TaskOfLast
<1>5. OnceBetween'
  <2>1. \A i, j \in LastCreated + 1..Now' : s3'[i].rec = s3'[j].rec => i = j
    <3> SUFFICES ASSUME NEW i \in LastCreated + 1..Now', NEW j \in LastCreated + 1..Now', s3'[i].rec = s3'[j].rec
                 PROVE  i = j
      OBVIOUS
    <3>0. \A k, l \in LastCreated + 1..Now : s3[k].rec = s3[l].rec => k = l BY DEF CronInv, OnceBetween
    <3>1. CASE i \in 1..Now /\ j \in 1..Now
      <4>1. i \in LastCreated + 1..Now /\ j \in LastCreated + 1..Now /\ s3'[i] = s3[i] /\ s3'[j] = s3[j]
        BY <1>2, <1>3, <3>1
      <4> QED BY <3>0, <4>1
    <3>2. ASSUME NEW k \in LastCreated + 1..Now PROVE s3'[k].rec # r
      <4>1. k \in 1..Now /\ ~(k <= LastCreated) BY <1>2, <1>3
      <4> QED BY <1>1, <1>2, <4>1
    <3>3. CASE i = Now + 1 /\ j \in 1..Now BY <1>2, <1>3, <3>2, <3>3
    <3>4. CASE i \in 1..Now /\ j = Now + 1 BY <1>2, <1>3, <3>2, <3>4
    <3> QED BY <1>2, <1>3, <3>1, <3>3, <3>4
  <2>2. ASSUME dumps # <<>>
        PROVE  /\ LastDump.since <= LastDump.created
               /\ \A i, j \in LastDump.since + 1..LastDump.created : s3'[i].rec = s3'[j].rec => i = j
    BY <1>2, <1>3, <2>2 DEF CronInv, OnceBetween
  <2> QED BY <1>1, <1>3, <2>1, <2>2 DEF OnceBetween
<1>6. ASSUME NEW q, NEW p \in Time, Changed(q, p) PROVE Changed(q, p)'
  <2>1. PICK k \in p + 1..Now : s3[k].rec = q BY <1>6 DEF Changed
  <2>2. p \in Nat BY BoundAssumption DEF Time
  <2>3. k \in p + 1..Now' /\ s3'[k].rec = q BY <1>2, <2>1, <2>2
  <2> QED BY <2>3 DEF Changed
<1>7. ASSUME NEW q, NEW p \in Time, p <= Now PROVE Truth(q, p)' = Truth(q, p)
  BY <1>2, <1>7, TruthSame, BoundAssumption DEF Time
<1>8. PendingFiles' = PendingFiles BY <1>1, <1>3 DEF PendingFiles
<1>9. tasks < Len(dumps) => LastDump.since <= Now
  BY <1>3, LastTyped DEF CronInv, OnceBetween
<1>10. SolrFollows'
  <2> SUFFICES ASSUME NEW q \in Rec, NEW p \in Time
               PROVE  /\ tasks < Len(dumps) /\ p = LastDump.since => Changed(q, p)' \/ solr[q] = Truth(q, p)'
                      /\ tasks = Len(dumps) /\ p = LastCreated =>
                            \/ Changed(q, p)' \/ solr[q] = Truth(q, p)'
                            \/ Truth(q, p)' \in PendingFiles
                            \/ todo # <<>> /\ q \in todo[1].ids
    BY <1>1, <1>3, <1>8 DEF SolrFollows
  <2> QED BY <1>3, <1>6, <1>7, <1>9 DEF CronInv, SolrFollows
<1> QED BY <1>1, <1>4, <1>5, <1>10 DEF CronInv

\* When all is done, Solr has what the records were at the last dump.
LEMMA AllIndexed ==
    ASSUME CronInv, tasks = Len(dumps), todo = <<>>, index = {}, NEW r \in Rec, NEW p, p = LastCreated, ~Changed(r, p)
    PROVE  solr[r] = Truth(r, p)
<1>1. PendingFiles = {} BY DEF PendingFiles
<1>2. p \in Time BY LastTyped DEF CronInv
<1> QED BY <1>1, <1>2 DEF CronInv, SolrFollows

LEMMA PartnerUpdateSync == ASSUME CronInv, TypeInv', PartnerUpdate PROVE CronInv'
<1> DEFINE n == Len(dumps) + 1
           new == [created |-> Now, since |-> LastCreated, files |-> {}, generated |-> 0, delete_ids |-> {}]
<1>1. /\ dumps' = Append(dumps, new) /\ jobs' = Append(jobs, Idle("created"))
      /\ UNCHANGED <<schedule, s3, zips, dir, full, tasks, todo, index, solr>>
      /\ \A d \in Dumps : Finished(d)
      /\ todo = <<>> /\ index = {} /\ tasks = Len(dumps)
  BY DEF PartnerUpdate, NewDump, InOrder, Drained, indexVars, CronInv
<1>2. Len(dumps) \in Nat /\ Len(jobs) = Len(dumps) /\ Now \in Nat /\ LastCreated \in Nat /\ LastCreated <= Now
  BY LastTyped DEF CronInv
<1>3. /\ Len(dumps') = n /\ dumps' # <<>> /\ Dumps' = Dumps \cup {n}
      /\ dumps'[n] = new /\ jobs'[n] = Idle("created")
      /\ \A d \in Dumps : dumps'[d] = dumps[d] /\ jobs'[d] = jobs[d]
  BY <1>1, <1>2 DEF CronInv, TypeInv, ImportInv, ImportTypes, Dumps
<1>4. LastDump' = new /\ LastCreated' = Now /\ Now' = Now BY <1>1, <1>3 DEF LastDump, LastCreated, Now
<1>5. \A d \in Dumps : jobs[d].pc = "done" BY <1>1 DEF CronInv, Alternate
<1>6. zips = {} /\ dir = {}
  <2>1. dumps # <<>> => jobs[Len(dumps)].pc = "done" BY <1>5, LastTyped DEF CronInv
  <2>2. CASE dumps = <<>> BY <2>2 DEF CronInv, Clean
  <2>3. CASE dumps # <<>> BY <2>1, <2>3 DEF CronInv, Clean
  <2> QED BY <2>2, <2>3
<1>7. Clean'
  <2>1. jobs'[Len(dumps')] = Idle("created") /\ dumps' # <<>> /\ zips' = {} /\ dir' = {} BY <1>1, <1>3, <1>6
  <2>2. Idle("created").pc = "created" /\ Idle("created").zips = {} BY DEF Idle
  <2> QED BY <2>1, <2>2 DEF Clean
<1>8. Alternate'
  <2>1. tasks' = Len(dumps') - 1 /\ todo' = <<>> /\ index' = {} /\ n # n - 1 /\ Len(dumps) = n - 1 BY <1>1, <1>2, <1>3
  <2>2. ASSUME NEW d \in Dumps', d < Len(dumps') PROVE jobs'[d].pc = "done"
    <3>1. d \in Dumps BY <1>2, <1>3, <2>2
    <3> QED BY <1>3, <1>5, <3>1
  <2> HIDE DEF n
  <2> QED BY <1>3, <2>1, <2>2 DEF Alternate
<1>9. TaskOfLast' BY <1>1 DEF TaskOfLast, CronInv
<1>10. OnceBetween'
  BY <1>1, <1>2, <1>4 DEF OnceBetween, CronInv
<1>11. SolrFollows'
  <2> SUFFICES ASSUME NEW r \in Rec, NEW p \in Time, p = LastCreated, ~Changed(r, p)'
               PROVE  solr[r] = Truth(r, p)'
    BY <1>1, <1>2, <1>3, <1>4 DEF SolrFollows
  <2>1. ~Changed(r, p) /\ Truth(r, p)' = Truth(r, p) BY <1>1, <1>4 DEF Changed, Truth
  <2> QED BY <1>1, <2>1, AllIndexed
<1> QED BY <1>1, <1>7, <1>8, <1>9, <1>10, <1>11 DEF CronInv

\* Only the job of the last dump is at work, while no task is.
LEMMA OnlyLast ==
    ASSUME CronInv, NEW d \in Dumps, jobs[d].pc # "done"
    PROVE  /\ d = Len(dumps) /\ tasks < Len(dumps) /\ todo = <<>> /\ index = {} /\ dumps # <<>>
           /\ jobs[d] \in Job /\ dumps[d] \in Dump
<1>1. d \in Nat /\ d <= Len(dumps) /\ Len(dumps) \in Nat /\ tasks \in Nat BY LastTyped DEF CronInv, Dumps
<1>2. d = Len(dumps) /\ tasks # Len(dumps) BY <1>1 DEF CronInv, Alternate
<1>3. tasks < Len(dumps) BY <1>1, <1>2 DEF CronInv, Alternate
<1> QED BY <1>1, <1>2, <1>3, LastTyped, ImportTyped DEF CronInv, Alternate, TypeInv, ImportInv

\* A step of that job.
LEMMA LastJobSync ==
    ASSUME CronInv, TypeInv', NEW d \in Dumps, jobs[d].pc # "done", NEW job, NEW dump,
           jobs' = [jobs EXCEPT ![d] = job], dumps' = [dumps EXCEPT ![d] = dump],
           UNCHANGED <<s3, schedule, indexVars>>,
           dump.created = dumps[d].created, dump.since = dumps[d].since,
           job.pc # "dead", job.pc = "attach" => job.zips = {}, job.zips \cap job.files = {},
           zips' = (IF job.pc \in {"updates", "deletes"} THEN job.zips ELSE {}),
           dir' = (IF job.pc \in {"updates", "deletes"} THEN job.files
                   ELSE IF job.pc = "attach" THEN job.files \ {job.current} ELSE {})
    PROVE  CronInv'
<1>1. d = Len(dumps) /\ tasks < Len(dumps) /\ todo = <<>> /\ index = {} /\ dumps # <<>> BY OnlyLast
<1>2. /\ Len(dumps) \in Nat /\ Len(dumps') = Len(dumps) /\ dumps' # <<>> /\ Dumps' = Dumps
      /\ dumps'[d] = dump /\ jobs'[d] = job
      /\ \A e \in Dumps \ {d} : jobs'[e] = jobs[e]
  BY <1>1 DEF CronInv, TypeInv, ImportInv, ImportTypes, Dumps
<1>3. /\ LastDump' = dump /\ LastDump'.since = LastDump.since /\ LastDump'.created = LastDump.created
      /\ LastCreated' = LastCreated /\ Now' = Now
      /\ UNCHANGED <<full, tasks, todo, index, solr>>
  BY <1>1, <1>2 DEF LastDump, LastCreated, Now, indexVars
<1>4. Clean' BY <1>1, <1>2 DEF Clean
<1>5. Alternate'
  <2>1. \A e \in Dumps : e < Len(dumps) => e # d BY <1>1, <1>2
  <2>2. tasks # Len(dumps) BY <1>1, LastTyped DEF CronInv
  <2> QED BY <1>1, <1>2, <1>3, <2>1, <2>2 DEF Alternate, CronInv
<1>6. TaskOfLast' BY <1>1, <1>3 DEF TaskOfLast, CronInv
<1>7. OnceBetween' BY <1>1, <1>3 DEF OnceBetween, CronInv
<1>8. SolrFollows'
  <2>1. \A r, p : Changed(r, p)' = Changed(r, p) BY <1>3 DEF Changed
  <2>2. \A r, p : Truth(r, p)' = Truth(r, p) BY DEF Truth
  <2>3. tasks # Len(dumps) BY <1>1, LastTyped DEF CronInv
  <2> QED BY <1>1, <1>2, <1>3, <2>1, <2>2, <2>3 DEF SolrFollows, CronInv
<1> QED BY <1>4, <1>5, <1>6, <1>7, <1>8 DEF CronInv

\* What the directory holds while the last job is at work.
LEMMA DirectoryIs ==
    ASSUME CronInv, NEW d \in Dumps, jobs[d].pc # "done"
    PROVE  /\ jobs[d].pc # "dead" /\ (jobs[d].pc = "attach" => jobs[d].zips = {})
           /\ jobs[d].zips \cap jobs[d].files = {}
           /\ zips = (IF jobs[d].pc \in {"updates", "deletes"} THEN jobs[d].zips ELSE {})
           /\ dir = (IF jobs[d].pc \in {"updates", "deletes"} THEN jobs[d].files
                     ELSE IF jobs[d].pc = "attach" THEN jobs[d].files \ {jobs[d].current} ELSE {})
  BY OnlyLast DEF CronInv, Clean

LEMMA JobSync ==
    ASSUME CronInv, TypeInv', NEW d \in Dumps, Enqueue(d) \/ RunJob(d) \/ Kill(d) PROVE CronInv'
<1>1. jobs[d].pc # "done"
  BY DEF Enqueue, RunJob, Kill, At, DownloadUpdates, DownloadDeletes, Unzip, ProcessUpdate, AttachUpdate,
         ReadDeletes, SaveDeletes, Raise
<1>2. /\ jobs[d] \in Job /\ dumps[d] \in Dump /\ d \in Dumps /\ JobOK(d)
      /\ dumps = [dumps EXCEPT ![d] = dumps[d]]
  BY <1>1, OnlyLast DEF CronInv, TypeInv, ImportInv, ImportTypes, Dumps
<1>3. ~Kill(d) BY DEF Kill, CronInv
<1>4. ~Raise(d) BY <1>1, DirectoryIs DEF Raise, At
<1>5. CASE Enqueue(d)
  <2>1. jobs' = [jobs EXCEPT ![d] = Idle("queued")] /\ UNCHANGED <<schedule, s3, dumps, zips, dir, indexVars>>
        /\ jobs[d].pc = "created"
    BY <1>5 DEF Enqueue, At
  <2>2. zips' = {} /\ dir' = {} BY <1>1, <2>1, DirectoryIs
  <2>3. Idle("queued").pc = "queued" /\ Idle("queued").zips = {} BY DEF Idle
  <2> QED BY <1>1, <1>2, <2>1, <2>2, <2>3, LastJobSync
<1>6. CASE DownloadUpdates(d)
  <2> DEFINE job == [Idle("updates") EXCEPT !.zips = Listed("update", dumps[d].since)]
  <2>1. /\ jobs' = [jobs EXCEPT ![d] = job] /\ zips' = zips \cup Listed("update", dumps[d].since)
        /\ UNCHANGED <<s3, schedule, dumps, dir, indexVars>> /\ jobs[d].pc = "queued"
    BY <1>6 DEF DownloadUpdates, At
  <2>2. job.pc = "updates" /\ job.zips = Listed("update", dumps[d].since) /\ job.files = {} BY DEF Idle
  <2>3. zips = {} /\ dir = {} BY <1>1, <2>1, DirectoryIs
  <2> HIDE DEF job
  <2>4. zips' = job.zips /\ dir' = job.files BY <2>1, <2>2, <2>3
  <2> QED BY <1>1, <1>2, <2>1, <2>2, <2>4, LastJobSync
<1>7. CASE DownloadDeletes(d)
  <2> DEFINE job == [Idle("deletes") EXCEPT !.zips = Listed("delete", dumps[d].since)]
             dump == [dumps[d] EXCEPT !.generated = IF dumps[d].files = {} THEN 0 ELSE Earliest(dumps[d].files)]
  <2>1. /\ jobs' = [jobs EXCEPT ![d] = job] /\ zips' = zips \cup Listed("delete", dumps[d].since)
        /\ dumps' = [dumps EXCEPT ![d].generated = IF dumps[d].files = {} THEN 0 ELSE Earliest(dumps[d].files)]
        /\ UNCHANGED <<s3, schedule, dir, indexVars>>
        /\ jobs[d].pc = "updates" /\ jobs[d].zips = {} /\ jobs[d].files = {}
    BY <1>7 DEF DownloadDeletes, At
  <2>2. job.pc = "deletes" /\ job.zips = Listed("delete", dumps[d].since) /\ job.files = {} BY DEF Idle
  <2>3. zips = {} /\ dir = {} BY <1>1, <2>1, DirectoryIs
  <2>4. dump.created = dumps[d].created /\ dump.since = dumps[d].since BY <1>2 DEF Dump
  <2>5. dumps' = [dumps EXCEPT ![d] = dump] BY <2>1 DEF CronInv, TypeInv, ImportInv, ImportTypes, Dumps
  <2> HIDE DEF job, dump
  <2>6. zips' = job.zips /\ dir' = job.files BY <2>1, <2>2, <2>3
  <2> QED BY <1>1, <2>1, <2>2, <2>4, <2>5, <2>6, LastJobSync
<1>8. ASSUME NEW k \in 1..MaxObjects, Unzip(d, k) PROVE CronInv'
  <2> DEFINE job == [jobs[d] EXCEPT !.zips = @ \ {k}, !.files = @ \cup {k}]
  <2>1. /\ jobs' = [jobs EXCEPT ![d].zips = @ \ {k}, ![d].files = @ \cup {k}]
        /\ zips' = zips \ {k} /\ dir' = dir \cup {k}
        /\ UNCHANGED <<s3, schedule, dumps, indexVars>>
        /\ jobs[d].pc \in {"updates", "deletes"}
    BY <1>8 DEF Unzip, At
  <2>2. job.pc = jobs[d].pc /\ job.zips = jobs[d].zips \ {k} /\ job.files = jobs[d].files \cup {k} BY <1>2 DEF Job
  <2>3. jobs' = [jobs EXCEPT ![d] = job] BY <2>1 DEF CronInv, TypeInv, ImportInv, ImportTypes, Dumps
  <2>4. zips = jobs[d].zips /\ dir = jobs[d].files BY <1>1, <2>1, DirectoryIs
  <2> HIDE DEF job
  <2>5. zips' = job.zips /\ dir' = job.files BY <2>1, <2>2, <2>4
  <2>6. dumps' = [dumps EXCEPT ![d] = dumps[d]] /\ UNCHANGED <<s3, schedule, indexVars>> BY <1>2, <2>1
  <2>7. job.pc \in {"updates", "deletes"} /\ job.zips \cap job.files = {} BY <1>1, <2>1, <2>2, DirectoryIs
  <2> QED BY <1>1, <2>3, <2>5, <2>6, <2>7, LastJobSync
<1>9. ASSUME NEW k \in 1..MaxObjects, ProcessUpdate(d, k) PROVE CronInv'
  <2> DEFINE job == [jobs[d] EXCEPT !.pc = "attach", !.current = k]
  <2>1. /\ jobs' = [jobs EXCEPT ![d].pc = "attach", ![d].current = k]
        /\ jobs[d].pc = "updates" /\ jobs[d].zips = {} /\ dir' = dir \ {k}
        /\ UNCHANGED <<s3, schedule, dumps, zips, indexVars>>
    BY <1>9 DEF ProcessUpdate, At
  <2>2. job.pc = "attach" /\ job.zips = jobs[d].zips /\ job.files = jobs[d].files /\ job.current = k BY <1>2 DEF Job
  <2>3. jobs' = [jobs EXCEPT ![d] = job] BY <2>1 DEF CronInv, TypeInv, ImportInv, ImportTypes, Dumps
  <2>4. zips = {} /\ dir = jobs[d].files BY <1>1, <2>1, DirectoryIs
  <2> HIDE DEF job
  <2>5. zips' = {} /\ dir' = job.files \ {job.current} /\ job.zips = {} BY <2>1, <2>2, <2>4
  <2>6. dumps' = [dumps EXCEPT ![d] = dumps[d]] /\ UNCHANGED <<s3, schedule, indexVars>> BY <1>2, <2>1
  <2>7. /\ job.pc # "dead" /\ job.zips = {} /\ job.zips \cap job.files = {}
        /\ zips' = (IF job.pc \in {"updates", "deletes"} THEN job.zips ELSE {})
        /\ dir' = (IF job.pc \in {"updates", "deletes"} THEN job.files
                   ELSE IF job.pc = "attach" THEN job.files \ {job.current} ELSE {})
    BY <2>2, <2>5
  <2> QED BY <1>1, <2>3, <2>6, <2>7, LastJobSync
<1>10. CASE AttachUpdate(d)
  <2> DEFINE job == [jobs[d] EXCEPT !.pc = "updates", !.files = @ \ {jobs[d].current}]
             dump == [dumps[d] EXCEPT !.files = @ \cup {jobs[d].current}]
  <2>1. /\ jobs' = [jobs EXCEPT ![d].pc = "updates", ![d].files = @ \ {jobs[d].current}] /\ jobs[d].pc = "attach"
        /\ dumps' = [dumps EXCEPT ![d].files = @ \cup {jobs[d].current}]
        /\ UNCHANGED <<s3, schedule, zips, dir, indexVars>>
    BY <1>10 DEF AttachUpdate, At
  <2>2. job.pc = "updates" /\ job.zips = jobs[d].zips /\ job.files = jobs[d].files \ {jobs[d].current} BY <1>2 DEF Job
  <2>3. dump.created = dumps[d].created /\ dump.since = dumps[d].since BY <1>2 DEF Dump
  <2>4. jobs' = [jobs EXCEPT ![d] = job] /\ dumps' = [dumps EXCEPT ![d] = dump]
    BY <2>1 DEF CronInv, TypeInv, ImportInv, ImportTypes, Dumps
  <2>5. zips = {} /\ jobs[d].zips = {} /\ dir = jobs[d].files \ {jobs[d].current} BY <1>1, <2>1, DirectoryIs
  <2> HIDE DEF job, dump
  <2>6. zips' = job.zips /\ dir' = job.files /\ job.zips \cap job.files = {} BY <2>1, <2>2, <2>5
  <2>7. UNCHANGED <<s3, schedule, indexVars>> BY <2>1
  <2> QED BY <1>1, <2>2, <2>3, <2>4, <2>6, <2>7, LastJobSync
<1>11. CASE ReadDeletes(d)
  <2> DEFINE job == [jobs[d] EXCEPT !.pc = "ids"]
  <2>1. /\ jobs' = [jobs EXCEPT ![d].pc = "ids"] /\ dir' = dir \ jobs[d].files
        /\ jobs[d].pc = "deletes" /\ jobs[d].zips = {}
        /\ UNCHANGED <<s3, schedule, dumps, zips, indexVars>>
    BY <1>11 DEF ReadDeletes, At
  <2>2. job.pc = "ids" /\ job.zips = {} BY <1>2, <2>1 DEF Job
  <2>3. jobs' = [jobs EXCEPT ![d] = job] BY <2>1 DEF CronInv, TypeInv, ImportInv, ImportTypes, Dumps
  <2>4. zips = {} /\ dir = jobs[d].files BY <1>1, <2>1, DirectoryIs
  <2> HIDE DEF job
  <2>5. zips' = {} /\ dir' = {} BY <2>1, <2>4
  <2>6. dumps' = [dumps EXCEPT ![d] = dumps[d]] /\ UNCHANGED <<s3, schedule, indexVars>> BY <1>2, <2>1
  <2> QED BY <1>1, <2>2, <2>3, <2>5, <2>6, LastJobSync
<1>12. CASE SaveDeletes(d)
  <2> DEFINE dump == [dumps[d] EXCEPT !.delete_ids = {s3[k].rec : k \in jobs[d].files}]
  <2>1. /\ dumps' = [dumps EXCEPT ![d].delete_ids = {s3[k].rec : k \in jobs[d].files}]
        /\ jobs' = [jobs EXCEPT ![d] = Idle("done")] /\ jobs[d].pc = "ids"
        /\ UNCHANGED <<s3, schedule, zips, dir, indexVars>>
    BY <1>12 DEF SaveDeletes, At
  <2>2. dump.created = dumps[d].created /\ dump.since = dumps[d].since BY <1>2 DEF Dump
  <2>3. dumps' = [dumps EXCEPT ![d] = dump] BY <2>1 DEF CronInv, TypeInv, ImportInv, ImportTypes, Dumps
  <2>4. Idle("done").pc = "done" /\ Idle("done").zips = {} BY DEF Idle
  <2>5. zips' = {} /\ dir' = {} BY <1>1, <2>1, DirectoryIs
  <2> HIDE DEF dump
  <2> QED BY <1>1, <2>1, <2>2, <2>3, <2>4, <2>5, LastJobSync
<1> QED BY <1>3, <1>4, <1>5, <1>6, <1>7, <1>8, <1>9, <1>10, <1>11, <1>12 DEF RunJob

LEMMA ScsbLatestSync == ASSUME CronInv, TypeInv', ScsbLatest PROVE CronInv'
<1>1. /\ dumps # <<>> /\ Drained /\ tasks = Len(dumps) - 1 /\ tasks' = tasks + 1
      /\ todo' = <<DumpAt(Len(dumps))>>
      /\ UNCHANGED <<schedule, s3, dumps, jobs, zips, dir, full, index, solr>>
  BY DEF ScsbLatest, InOrder, StartTask, CronInv, importVars
<1> DEFINE n == Len(dumps)
<1>2. /\ n \in Nat /\ n # 0 /\ n \in Dumps /\ tasks' = n /\ tasks < n /\ LastCreated = LastDump.created
      /\ LastDump.since \in Time /\ LastCreated \in Time /\ LastDump.since \in Nat /\ LastCreated \in Nat
      /\ LastCreated <= Now /\ Now \in Nat /\ LastDump.since <= LastCreated /\ JobOK(n)
      /\ \A k \in 1..Now : s3[k] \in Object
  BY <1>1, LastTyped, ImportTyped DEF CronInv, OnceBetween, TypeInv, ImportInv
<1>3. /\ todo' # <<>> /\ Len(todo') = 1 /\ todo'[1].dump = n /\ todo'[1].ids = LastDump.delete_ids
      /\ todo'[1].step = "push" /\ index' = {}
  BY <1>1, <1>2 DEF DumpAt, LastDump, Drained
<1>4. LastDump' = LastDump /\ LastCreated' = LastCreated /\ Now' = Now /\ Dumps' = Dumps
  BY <1>1 DEF LastDump, LastCreated, Now, Dumps
<1>5. \A d \in Dumps : jobs[d].pc = "done"
  <2>1. \A d \in Dumps : jobs[d].pc # "dead"
    <3> SUFFICES ASSUME NEW d \in Dumps, jobs[d].pc = "dead" PROVE FALSE
      OBVIOUS
    <3> QED BY DirectoryIs
  <2> QED BY <1>1, <2>1 DEF Drained, Finished
<1>6. Clean' BY <1>1 DEF Clean, CronInv
<1>7. Alternate' BY <1>1, <1>2, <1>4, <1>5 DEF Alternate
<1>8. TaskOfLast' BY <1>1, <1>3, <1>4 DEF TaskOfLast, CronInv
<1>9. OnceBetween' BY <1>1, <1>4 DEF OnceBetween, CronInv
<1>10. SolrFollows'
  <2> SUFFICES ASSUME NEW r \in Rec, NEW p \in Time, p = LastCreated, ~Changed(r, p)
               PROVE  \/ solr[r] = Truth(r, p) \/ Truth(r, p) \in LastDump.files
                      \/ r \in LastDump.delete_ids
    <3>1. PendingFiles' = LastDump.files BY <1>3, <1>4 DEF PendingFiles
    <3>2. \A r, p : Changed(r, p)' = Changed(r, p) /\ Truth(r, p)' = Truth(r, p)
      BY <1>1, <1>4 DEF Changed, Truth
    <3>3. ~(tasks' < Len(dumps')) BY <1>1, <1>2
    <3> QED BY <1>1, <1>3, <1>4, <3>1, <3>2, <3>3 DEF SolrFollows
  <2> DEFINE since == LastDump.since
  <2>1. CASE Changed(r, since)
    <3>1. PICK k \in since + 1..Now : s3[k].rec = r BY <2>1 DEF Changed
    <3>2. k <= p /\ k \in 1..Now /\ k \in 1..LastDump.created /\ k > since BY <1>2, <3>1 DEF Changed
    <3>3. Truth(r, p) = IF s3[k].kind = "update" THEN k ELSE 0
      BY <1>1, <3>1, <3>2, SettledIs DEF CronInv
    <3>4. s3[k].kind \in {"update", "delete"} BY <1>2, <3>2 DEF Object
    <3>5. k \in Window(s3[k].kind, n) BY <3>2 DEF Window, LastDump
    <3>6. jobs[n].pc = "done" BY <1>2, <1>5
    <3>7. s3[k].kind = "update" => k \in LastDump.files BY <1>2, <3>5, <3>6 DEF JobOK, LastDump
    <3>8. s3[k].kind = "delete" => r \in LastDump.delete_ids BY <1>2, <3>1, <3>5, <3>6 DEF JobOK, LastDump
    <3> QED BY <3>3, <3>4, <3>7, <3>8
  <2>2. CASE ~Changed(r, since)
    <3>1. solr[r] = Truth(r, since) BY <1>2, <2>2 DEF CronInv, SolrFollows
    <3>2. \A k \in since + 1..p : s3[k].rec # r BY <1>2, <2>2 DEF Changed
    <3>3. Truth(r, p) = Truth(r, since) BY <1>2, <3>2, TruthKept
    <3> QED BY <3>1, <3>3
  <2> QED BY <2>1, <2>2
<1> QED BY <1>1, <1>6, <1>7, <1>8, <1>9, <1>10 DEF CronInv

\* A step of the task on the last dump.
LEMMA TaskSync ==
    ASSUME CronInv, TypeInv', tasks = Len(dumps), dumps # <<>>,
           UNCHANGED <<schedule, s3, dumps, jobs, zips, dir, full, tasks>>, TaskOfLast',
           \A r \in Rec, p \in Time : p = LastCreated /\ ~Changed(r, p) =>
              /\ solr[r] = Truth(r, p) => solr'[r] = Truth(r, p)
              /\ Truth(r, p) \in PendingFiles => solr'[r] = Truth(r, p) \/ Truth(r, p) \in PendingFiles'
              /\ todo # <<>> /\ r \in todo[1].ids =>
                    solr'[r] = Truth(r, p) \/ (todo' # <<>> /\ r \in todo'[1].ids)
    PROVE  CronInv'
<1>1. LastDump' = LastDump /\ LastCreated' = LastCreated /\ Now' = Now /\ Dumps' = Dumps
  BY DEF LastDump, LastCreated, Now, Dumps
<1>2. Clean' /\ OnceBetween' BY <1>1 DEF Clean, OnceBetween, CronInv
<1>3. Len(dumps) \in Nat BY LastTyped DEF CronInv
<1>4. Alternate' BY <1>1, <1>3 DEF Alternate, CronInv
<1>5. \A r, p : Changed(r, p)' = Changed(r, p) /\ Truth(r, p)' = Truth(r, p) BY <1>1 DEF Changed, Truth
<1>6. SolrFollows'
  <2> SUFFICES ASSUME NEW r \in Rec, NEW p \in Time, p = LastCreated, ~Changed(r, p)
               PROVE  \/ solr'[r] = Truth(r, p) \/ Truth(r, p) \in PendingFiles'
                      \/ todo' # <<>> /\ r \in todo'[1].ids
    BY <1>1, <1>3, <1>5 DEF SolrFollows
  <2> QED BY DEF SolrFollows, CronInv
<1> QED BY <1>2, <1>4, <1>6 DEF CronInv

\* What is pending is what the records are.
LEMMA TaskAtWork ==
    ASSUME CronInv, todo # <<>> \/ index # {}
    PROVE  /\ tasks = Len(dumps) /\ dumps # <<>>
           /\ PendingFiles \subseteq LastDump.files
           /\ todo # <<>> => todo[1].ids = LastDump.delete_ids /\ Len(todo) = 1 /\ todo[1].dump = Len(dumps)
<1>1. Len(dumps) \in Nat /\ tasks \in Nat BY LastTyped DEF CronInv
<1>2. tasks = Len(dumps) BY <1>1 DEF CronInv, Alternate
<1>3. tasks > 0
  <2>1. index # {} => tasks \in Nat /\ 1..tasks # {} BY <1>1 DEF CronInv, TypeInv, TaskTypes
  <2> QED BY <2>1 DEF CronInv, TypeInv, TaskTypes
<1>4. dumps # <<>> BY <1>1, <1>2, <1>3, LastTyped DEF CronInv
<1> QED BY <1>2, <1>4 DEF CronInv, TaskOfLast, PendingFiles

LEMMA PushFilesSync == ASSUME CronInv, TypeInv', PushFiles PROVE CronInv'
<1> DEFINE d == todo[1].dump
<1>1. /\ todo # <<>> /\ todo[1].step = "push" /\ todo' = [todo EXCEPT ![1].step = "delete"]
      /\ index' = index \cup {tasks} \X (IF d = 0 THEN {0} ELSE dumps[d].files)
      /\ UNCHANGED <<schedule, s3, dumps, jobs, zips, dir, full, tasks, solr>>
  BY DEF PushFiles, importVars
<1>2. /\ tasks = Len(dumps) /\ dumps # <<>> /\ d = Len(dumps) /\ d # 0 /\ dumps[d] = LastDump /\ Len(todo) = 1
      /\ todo[1] \in Entry /\ todo[1].ids = LastDump.delete_ids /\ todo \in Seq(Entry) /\ index = {}
  BY <1>1, TaskAtWork, LastTyped DEF CronInv, LastDump, TypeInv, TaskTypes, TaskOfLast
<1>3. index' = {tasks} \X LastDump.files BY <1>1, <1>2
<1> HIDE DEF d
<1>4. todo' # <<>> /\ Len(todo') = 1 /\ todo'[1].dump = todo[1].dump /\ todo'[1].ids = todo[1].ids
      /\ todo'[1].step = "delete"
  BY <1>1, <1>2 DEF Entry
<1>5. LastDump' = LastDump BY <1>1 DEF LastDump
<1>6. TaskOfLast'
  BY <1>1, <1>2, <1>3, <1>4, <1>5, TaskAtWork DEF TaskOfLast, CronInv
<1>7. PendingFiles' = LastDump.files /\ PendingFiles = LastDump.files
  <2>1. PendingFiles' = {j[2] : j \in index'} BY <1>4 DEF PendingFiles
  <2>2. {j[2] : j \in {tasks} \X LastDump.files} = LastDump.files
    <3> DEFINE pairs == {tasks} \X LastDump.files
    <3>1. \A k \in LastDump.files : \E j \in pairs : k = j[2]
      <4> TAKE k \in LastDump.files
      <4>1. <<tasks, k>> \in pairs /\ <<tasks, k>>[2] = k OBVIOUS
      <4> QED BY <4>1
    <3>2. \A j \in pairs : j[2] \in LastDump.files OBVIOUS
    <3> HIDE DEF pairs
    <3>3. {j[2] : j \in pairs} = LastDump.files BY <3>1, <3>2
    <3> QED BY <3>3 DEF pairs
  <2> QED BY <1>1, <1>3, <2>1, <2>2 DEF PendingFiles
<1> QED BY <1>1, <1>2, <1>4, <1>6, <1>7, TaskSync

LEMMA DeleteIdsSync == ASSUME CronInv, TypeInv', DeleteIds PROVE CronInv'
<1>1. /\ todo # <<>> /\ todo[1].step = "delete" /\ todo' = Tail(todo)
      /\ solr' = [r \in Rec |-> IF r \in todo[1].ids THEN 0 ELSE solr[r]]
      /\ UNCHANGED <<schedule, s3, dumps, jobs, zips, dir, full, tasks, index>>
  BY DEF DeleteIds, importVars
<1>2. tasks = Len(dumps) /\ dumps # <<>> /\ todo[1].ids = LastDump.delete_ids /\ Len(todo) = 1
  BY <1>1, TaskAtWork
<1>3. todo' = <<>> BY <1>1, <1>2 DEF CronInv, TypeInv, TaskTypes
<1>4. LastDump' = LastDump BY <1>1 DEF LastDump
<1>5. TaskOfLast' BY <1>1, <1>3, <1>4 DEF TaskOfLast, CronInv
<1>6. PendingFiles' = PendingFiles BY <1>1, <1>3 DEF PendingFiles
<1>7. ASSUME NEW r \in Rec, NEW p \in Time, p = LastCreated, ~Changed(r, p), r \in todo[1].ids
      PROVE  Truth(r, p) = 0
  BY <1>2, <1>7, DeleteIsTruth DEF CronInv
<1>8. \A r \in Rec : solr'[r] = IF r \in todo[1].ids THEN 0 ELSE solr[r] BY <1>1
<1> QED BY <1>1, <1>2, <1>5, <1>6, <1>7, <1>8, TaskSync

LEMMA IndexFileSync == ASSUME CronInv, TypeInv', NEW j \in index, IndexFile(j) PROVE CronInv'
<1>1. /\ index' = index \ {j}
      /\ solr' = [r \in Rec |->
             IF j[2] = 0 THEN IF Truth(r, full) # 0 THEN Truth(r, full) ELSE solr[r]
             ELSE IF s3[j[2]].rec = r THEN j[2] ELSE solr[r]]
      /\ UNCHANGED <<schedule, s3, dumps, jobs, zips, dir, full, tasks, todo>>
  BY DEF IndexFile, importVars
<1>2. tasks = Len(dumps) /\ dumps # <<>> /\ j[2] \in LastDump.files /\ 0 \notin LastDump.files
  BY TaskAtWork, LastTyped DEF CronInv, TaskOfLast, FilesFrom, Listed
<1>3. \A r \in Rec : solr'[r] = IF s3[j[2]].rec = r THEN j[2] ELSE solr[r] BY <1>1, <1>2
<1>4. LastDump' = LastDump BY <1>1 DEF LastDump
<1>5. TaskOfLast' BY <1>1, <1>4 DEF TaskOfLast, CronInv
<1>6. ~(todo # <<>> /\ todo[1].step = "push") BY DEF CronInv, TaskOfLast
<1>7. PendingFiles = {i[2] : i \in index} /\ PendingFiles' = {i[2] : i \in index \ {j}} BY <1>1, <1>6 DEF PendingFiles
<1>8. ASSUME NEW r \in Rec, NEW p \in Time, p = LastCreated, ~Changed(r, p)
      PROVE  /\ solr[r] = Truth(r, p) => solr'[r] = Truth(r, p)
             /\ Truth(r, p) \in PendingFiles => solr'[r] = Truth(r, p) \/ Truth(r, p) \in PendingFiles'
  <2>1. s3[j[2]].rec = r => Truth(r, p) = j[2] BY <1>2, <1>8, FileIsTruth DEF CronInv
  <2>2. ASSUME Truth(r, p) \in PendingFiles, Truth(r, p) \notin PendingFiles' PROVE Truth(r, p) = j[2]
    BY <1>7, <2>2
  <2>3. ASSUME Truth(r, p) = j[2] PROVE s3[j[2]].rec = r
    <3>1. Truth(r, p) # 0 BY <1>2, <2>3
    <3> QED BY <2>3, <3>1, TruthHas
  <2> QED BY <1>3, <2>1, <2>2, <2>3
<1> QED BY <1>1, <1>2, <1>5, <1>8, TaskSync

\* On a cron day every step keeps the invariant, and a task goes on until it has done everything.
LEMMA CronStep ==
    ASSUME CronInv, TypeInv', [Next]_vars
    PROVE  CronInv' /\ (todo # <<>> \/ index # {} => tasks' = Len(dumps)')
<1>1. CASE UNCHANGED vars
  <2>1. UNCHANGED <<schedule, s3, dumps, jobs, zips, dir, full, tasks, todo, index, solr>>
    BY <1>1 DEF vars, importVars, indexVars
  <2>2. LastDump' = LastDump /\ LastCreated' = LastCreated /\ Now' = Now /\ Dumps' = Dumps /\ PendingFiles' = PendingFiles
    BY <2>1 DEF LastDump, LastCreated, Now, Dumps, PendingFiles
  <2>3. Clean' BY <2>1 DEF CronInv, Clean
  <2>4. Alternate' /\ TaskOfLast' /\ OnceBetween' BY <2>1, <2>2 DEF CronInv, Alternate, TaskOfLast, OnceBetween
  <2>5. \A r, p : Changed(r, p)' = Changed(r, p) /\ Truth(r, p)' = Truth(r, p) BY <2>1, <2>2 DEF Changed, Truth
  <2>6. SolrFollows' BY <2>1, <2>2, <2>5 DEF CronInv, SolrFollows
  <2>7. CronInv' BY <2>1, <2>3, <2>4, <2>6 DEF CronInv
  <2> QED BY <2>1, <2>7, TaskAtWork
<1>2. ASSUME NEW d \in 1..MaxDumps, Enqueue(d) \/ RunJob(d) \/ Kill(d)
      PROVE  CronInv' /\ (todo # <<>> \/ index # {} => tasks' = Len(dumps)')
  <2>1. d \in Dumps /\ jobs[d].pc # "done"
    BY <1>2 DEF Enqueue, RunJob, Kill, At, DownloadUpdates, DownloadDeletes, Unzip, ProcessUpdate, AttachUpdate,
                ReadDeletes, SaveDeletes, Raise
  <2> QED BY <1>2, <2>1, JobSync, OnlyLast
<1>3. CASE ImportFull \/ ScsbFull
  <2>1. Len(dumps) \in Nat BY LastTyped DEF CronInv
  <2> QED BY <1>3, <2>1 DEF ImportFull, ScsbFull, CronInv, TaskOfLast
<1>4. CASE ScsbLatest
  BY <1>4, ScsbLatestSync DEF ScsbLatest, InOrder, Drained, CronInv
<1>5. CASE PushFiles \/ DeleteIds \/ \E j \in index : IndexFile(j)
  <2>1. CronInv' BY <1>5, PushFilesSync, DeleteIdsSync, IndexFileSync
  <2>2. tasks' = tasks /\ dumps' = dumps BY <1>5 DEF PushFiles, DeleteIds, IndexFile, importVars
  <2> QED BY <2>1, <2>2, TaskAtWork
<1>6. CASE PartnerUpdate
  BY <1>6, PartnerUpdateSync DEF PartnerUpdate, InOrder, Drained, CronInv
<1>7. CASE \E r \in Rec, kind \in {"update", "delete"} : Export(r, kind)
  <2>1. CronInv' BY <1>7, ExportSync
  <2>2. UNCHANGED <<tasks, dumps>> BY <1>7 DEF Export, importVars, indexVars
  <2> QED BY <2>1, <2>2, TaskAtWork
<1> QED BY <1>1, <1>2, <1>3, <1>4, <1>5, <1>6, <1>7 DEF Next

\* For any records, objects and dumps: when scsb:latest and its jobs have ended on a cron day, every
\* record is in Solr as SCSB had it when the last dump was created, or has changed since.
THEOREM LatestFollows == Spec => LatestInSync
<1> DEFINE Even == schedule = "cron" /\ Drained /\ tasks = Len(dumps) => UpToDate
           SyncTyped == TypeInv /\ SyncInv
<1>1. SyncTyped => Even
  <2> SUFFICES ASSUME SyncTyped, schedule = "cron", Drained, tasks = Len(dumps), NEW r \in Rec, ~Changed(r, LastCreated)
               PROVE  solr[r] = Truth(r, LastCreated)
    BY DEF UpToDate, Changed
  <2>1. CronInv /\ todo = <<>> /\ index = {} BY DEF CronInv, SyncInv, Drained
  <2> QED BY <2>1, AllIndexed
<1>2. ASSUME SyncTyped, TypeInv', [Next]_vars, schedule = "cron"
      PROVE  SyncTyped' /\ (TaskEnds => schedule' = "cron" /\ Drained' /\ tasks' = Len(dumps)')
  <2>1. CronInv BY <1>2 DEF CronInv, SyncInv
  <2>2. CronInv' /\ (todo # <<>> \/ index # {} => tasks' = Len(dumps)') BY <1>2, <2>1, CronStep
  <2> QED BY <2>2 DEF CronInv, SyncInv, TaskEnds
<1>3. ASSUME SyncTyped, TypeInv', [Next]_vars, schedule # "cron" PROVE SyncTyped'
  <2>1. schedule' = schedule
    BY <1>3 DEF Next, vars, Export, PartnerUpdate, Enqueue, RunJob, Kill, DownloadUpdates, DownloadDeletes, Unzip,
                ProcessUpdate, AttachUpdate, ReadDeletes, SaveDeletes, Raise, ImportFull, ScsbLatest, ScsbFull,
                StartTask, PushFiles, DeleteIds, IndexFile
  <2> QED BY <1>3, <2>1 DEF SyncInv
<1>4. SyncTyped /\ TypeInv' /\ [Next]_vars =>
        SyncTyped' /\ (schedule = "cron" /\ TaskEnds => (schedule = "cron" /\ Drained /\ tasks = Len(dumps))')
  BY <1>2, <1>3
<1>5. Init => SyncTyped BY TypesStart, SyncStarts
<1> QED BY <1>1, <1>4, <1>5, TypesHold, PTL DEF Spec, LatestInSync

=============================================================================
