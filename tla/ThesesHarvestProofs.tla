------------------------ MODULE ThesesHarvestProofs ------------------------
(***************************************************************************)
(* The task of ThesesHarvest implements CacheRefresh and reads no thesis   *)
(* twice, for any repositories, page size, number of threads and failures. *)
(***************************************************************************)
EXTENDS ThesesHarvest, FiniteSetTheorems, TLAPS

LEMMA ProductOfSucc == ASSUME NEW p \in Nat, NEW s \in Nat
                       PROVE  (p + 1) * s = p * s + s /\ p * s \in Nat
  BY SMT

---------------------------------------------------------------------------
(* The initial state. *)

LEMMA InitTypes == Init => TypeOK
<1> SUFFICES ASSUME Init PROVE TypeOK
  OBVIOUS
<1>1. size \in [Collection -> Nat]
  <2> SUFFICES ASSUME NEW c \in Collection
               PROVE  Cardinality({t \in Thesis : Home[t] = c /\ Shelf[t] # Absent}) \in Nat
    BY DEF Init
  <2>1. IsFiniteSet({t \in Thesis : Home[t] = c /\ Shelf[t] # Absent})
    BY RepositoryAssumption, FS_Subset DEF RepositoryAssumption
  <2> QED BY <2>1, FS_CardinalityType
<1>2. place \in [Thesis -> Nat \cup {Absent}]
  BY RepositoryAssumption DEF Init, RepositoryAssumption
<1>3. worker \in [Collection -> Worker]
  BY BoundAssumption DEF Init, Worker, Idle, BoundAssumption
<1>4. temp \in [Repo -> (SUBSET Thesis) \cup {Torn, NoFile}]
  BY DEF Init
<1>5. got \in [Thesis -> Nat] /\ cache \in (SUBSET Thesis) \cup {Torn} /\ must \subseteq Thesis
  BY DEF Init
<1>6. failures \in 0..MaxFailures /\ kills \in 0..MaxKills /\ runs \in 0..MaxRuns
  BY BoundAssumption DEF Init, BoundAssumption
<1>7. phase \in {"idle", "listing", "reading", "creating", "writing", "merging",
                 "rewriting", "done", "unlisted", "aborted"} /\ repo \in Repo
  BY DEF Init, Repo
<1> QED BY <1>1, <1>2, <1>3, <1>4, <1>5, <1>6, <1>7 DEF TypeOK

LEMMA InitPositions == Init => PositionsOK
<1> SUFFICES ASSUME Init, NEW c \in Collection
             PROVE  {place[t] : t \in InCollection(c)} = 0..(size[c] - 1)
  BY DEF PositionsOK
<1> DEFINE shelved == {t \in Thesis : Home[t] = c /\ Shelf[t] # Absent}
<1>1. InCollection(c) = shelved
  BY DEF Init, InCollection, Listed
<1>2. {Shelf[t] : t \in shelved} = 0..(Cardinality(shelved) - 1)
  BY RepositoryAssumption DEF RepositoryAssumption
<1>3. size[c] = Cardinality(shelved)
  BY DEF Init
<1> HIDE DEF shelved
<1> QED BY <1>1, <1>2, <1>3 DEF Init

LEMMA InitIInv == Init => IInv
<1> SUFFICES ASSUME Init PROVE IInv
  OBVIOUS
<1>1. ReadSoFar
  BY RepositoryAssumption DEF Init, ReadSoFar, Listed
<1>2. FilesOK
  BY RepositoryAssumption DEF Init, FilesOK, RepositoryAssumption, Repo
<1> QED BY <1>1, <1>2, InitTypes, InitPositions DEF IInv

---------------------------------------------------------------------------
(* Types. *)

LEMMA TypeTask == IInv /\ TaskStep => TypeOK'
<1> SUFFICES ASSUME IInv, TaskStep PROVE TypeOK'
  OBVIOUS
<1> USE DEF IInv, TypeOK, bounds, server
<1>1. CASE GetCollectionList
  <2>1. worker' \in [Collection -> Worker]
    BY <1>1, BoundAssumption DEF GetCollectionList, Waiting, Idle, Worker, BoundAssumption
  <2> QED BY <1>1, <2>1 DEF GetCollectionList
<1>2. CASE JoinLists
  BY <1>2 DEF JoinLists
<1>3. CASE ReadingFails
  BY <1>3 DEF ReadingFails
<1>4. CASE CreateFile
  <2>1. temp' \in [Repo -> (SUBSET Thesis) \cup {Torn, NoFile}]
    BY <1>4 DEF CreateFile
  <2> QED BY <1>4, <2>1 DEF CreateFile
<1>5. CASE WriteFile
  <2>1. Documents \in SUBSET Thesis
    BY DEF Documents
  <2>2. temp' \in [Repo -> (SUBSET Thesis) \cup {Torn, NoFile}]
    BY <1>5, <2>1 DEF WriteFile
  <2>3. repo' \in Repo /\ phase' \in {"listing", "merging"}
    BY <1>5 DEF WriteFile, Repo
  <2> QED BY <1>5, <2>2, <2>3 DEF WriteFile
<1>6. CASE Merge
  <2>1. cache' \in (SUBSET Thesis) \cup {Torn} /\ phase' \in {"rewriting", "aborted"}
    BY <1>6 DEF Merge
  <2> QED BY <1>6, <2>1 DEF Merge
<1>7. CASE RewriteCache
  <2>1. Holds("legacy") /\ Holds("dataspace")
    BY <1>7 DEF RewriteCache, FilesOK
  <2>2. cache' \in SUBSET Thesis
    BY <1>7, <2>1 DEF RewriteCache, Holds
  <2> QED BY <1>7, <2>2 DEF RewriteCache
<1> QED BY <1>1, <1>2, <1>3, <1>4, <1>5, <1>6, <1>7 DEF TaskStep

LEMMA TypeCollection ==
  ASSUME IInv, NEW c \in Collection, ReadStep(c) \/ RequestFails(c)
  PROVE  TypeOK'
<1> USE DEF IInv, TypeOK, bounds, server
<1> DEFINE w == worker[c]
<1>1. w \in Worker
  OBVIOUS
<1>2. /\ w.st \in {"idle", "waiting", "reading", "done", "failed"}
      /\ w.page \in Nat /\ w.attempt \in 0..Retries /\ Retries \in Nat
  BY <1>1, BoundAssumption DEF Worker, BoundAssumption
<1>3. ASSUME NEW x \in {"idle", "waiting", "reading", "done", "failed"}
      PROVE  [worker EXCEPT ![c].st = x] \in [Collection -> Worker]
  BY <1>1 DEF Worker
<1>4. NextPage(c) \in [Collection -> Worker]
  <2>1. [st |-> "reading", page |-> w.page + 1, attempt |-> 0] \in Worker
    BY <1>2 DEF Worker
  <2> QED BY <2>1 DEF NextPage
<1>5. ASSUME w.attempt < Retries
      PROVE  [worker EXCEPT ![c].attempt = @ + 1] \in [Collection -> Worker]
  <2>1. w.attempt + 1 \in 0..Retries
    BY <1>2, <1>5
  <2> QED BY <1>1, <2>1 DEF Worker
<1>6. ASSUME NEW ts, Append(ts) PROVE got' \in [Thesis -> Nat]
  BY <1>6 DEF Append
<1> HIDE DEF w
<1>7. CASE BeginCollection(c)
  <2>1. worker' \in [Collection -> Worker]
    BY <1>7, <1>3 DEF BeginCollection
  <2> QED BY <1>7, <2>1 DEF BeginCollection
<1>8. CASE GetPage(c)
  <2>1. worker' \in [Collection -> Worker]
    BY <1>8, <1>3, <1>4 DEF GetPage
  <2>2. got' \in [Thesis -> Nat]
    BY <1>8, <1>6 DEF GetPage
  <2> QED BY <1>8, <2>1, <2>2 DEF GetPage
<1>9. CASE GetOffset(c)
  <2>1. worker' \in [Collection -> Worker]
    BY <1>9, <1>3, <1>4 DEF GetOffset
  <2>2. got' \in [Thesis -> Nat]
    BY <1>9, <1>6 DEF GetOffset
  <2> QED BY <1>9, <2>1, <2>2 DEF GetOffset
<1>10. CASE RequestFails(c)
  <2>1. worker' \in [Collection -> Worker]
    BY <1>10, <1>3, <1>5 DEF RequestFails, w
  <2>2. failures' \in 0..MaxFailures
    BY <1>10, BoundAssumption DEF RequestFails, BoundAssumption
  <2> QED BY <1>10, <2>1, <2>2 DEF RequestFails
<1> QED BY <1>7, <1>8, <1>9, <1>10 DEF ReadStep

LEMMA TypeNext == IInv /\ [Next]_vars => TypeOK'
<1> SUFFICES ASSUME IInv, [Next]_vars PROVE TypeOK'
  OBVIOUS
<1> USE DEF IInv, TypeOK, bounds, server
<1>1. ASSUME NEW t \in Thesis, NEW k \in 0..Cardinality(Thesis), Deposit(t, k) PROVE TypeOK'
  <2>1. k \in Nat
    BY <1>1 DEF Deposit
  <2>2. Home[t] \in Collection
    BY RepositoryAssumption DEF RepositoryAssumption
  <2>3. place' \in [Thesis -> Nat \cup {Absent}]
    BY <1>1, <2>1 DEF Deposit
  <2>4. size' \in [Collection -> Nat]
    BY <1>1, <2>2 DEF Deposit
  <2> QED BY <1>1, <2>3, <2>4 DEF Deposit
<1>2. CASE Start
  <2>1. must' \subseteq Thesis
    BY <1>2 DEF Start, Listed
  <2>2. worker' \in [Collection -> Worker]
    BY <1>2, BoundAssumption DEF Start, Idle, Worker, BoundAssumption
  <2>3. runs' \in 0..MaxRuns
    BY <1>2, BoundAssumption DEF Start, BoundAssumption
  <2> QED BY <1>2, <2>1, <2>2, <2>3 DEF Start, Repo
<1>3. CASE CollectionListFails
  BY <1>3, BoundAssumption DEF CollectionListFails, BoundAssumption
<1>4. CASE WriteFails
  BY <1>4, BoundAssumption DEF WriteFails, BoundAssumption
<1>5. CASE Kill
  <2>1. worker' \in [Collection -> Worker]
    BY <1>5, BoundAssumption DEF Kill, Idle, Worker, BoundAssumption
  <2> QED BY <1>5, <2>1, BoundAssumption DEF Kill, BoundAssumption
<1>6. CASE UNCHANGED vars
  BY <1>6 DEF vars
<1> HIDE DEF IInv, TypeOK
<1> QED BY <1>1, <1>2, <1>3, <1>4, <1>5, <1>6, TypeTask, TypeCollection DEF Next

---------------------------------------------------------------------------
(* Positions: a deposit makes room for itself, nothing else moves. *)

LEMMA PlaceInSize ==
  ASSUME TypeOK, PositionsOK, NEW t \in Listed
  PROVE  place[t] \in 0..(size[Home[t]] - 1) /\ place[t] \in Nat /\ size[Home[t]] \in Nat
<1>1. t \in Thesis /\ Home[t] \in Collection
  BY RepositoryAssumption DEF Listed, RepositoryAssumption
<1>2. t \in InCollection(Home[t])
  BY DEF InCollection
<1>3. place[t] \in {place[u] : u \in InCollection(Home[t])}
  BY <1>2
<1>4. place[t] \in 0..(size[Home[t]] - 1)
  BY <1>1, <1>3 DEF PositionsOK
<1>5. size[Home[t]] \in Nat
  BY <1>1 DEF TypeOK
<1> QED BY <1>4, <1>5

LEMMA DepositPositions ==
  ASSUME IInv, NEW t \in Thesis, NEW k \in 0..Cardinality(Thesis), Deposit(t, k)
  PROVE  PositionsOK'
<1> SUFFICES ASSUME NEW c \in Collection
             PROVE  {place'[u] : u \in InCollection(c)'} = 0..(size'[c] - 1)
  BY DEF PositionsOK
<1> USE DEF IInv
<1>1. /\ Home[t] \in Collection /\ size[c] \in Nat
      /\ place[t] = Absent /\ Absent \notin Nat /\ k \in 0..size[Home[t]]
      /\ \A u \in Thesis : place[u] \in Nat \cup {Absent}
  BY RepositoryAssumption DEF RepositoryAssumption, Deposit, TypeOK
<1>2. place' = [u \in Thesis |->
                   IF u = t THEN k
                   ELSE IF Home[u] = Home[t] /\ place[u] # Absent /\ place[u] >= k
                   THEN place[u] + 1 ELSE place[u]]
  BY DEF Deposit
<1>3. {place[u] : u \in InCollection(c)} = 0..(size[c] - 1)
  BY DEF PositionsOK
<1>4. \A u \in Thesis : place'[u] # Absent <=> u = t \/ place[u] # Absent
  BY <1>1, <1>2
<1>5. \A u \in InCollection(c)' : u \in Thesis /\ Home[u] = c /\ (u = t \/ u \in InCollection(c))
  BY <1>4 DEF InCollection, Listed
<1>6. \A u \in InCollection(c) : u \in Thesis /\ u \in InCollection(c)' /\ Home[u] = c
                                  /\ place[u] \in Nat /\ u # t /\ place[u] # Absent
  BY <1>1, <1>4 DEF InCollection, Listed
<1>7. CASE c # Home[t]
  <2>1. size'[c] = size[c]
    BY <1>7, <1>1 DEF Deposit, TypeOK
  <2>2. InCollection(c)' = InCollection(c)
    BY <1>5, <1>6, <1>7
  <2>3. \A u \in InCollection(c) : place'[u] = place[u]
    BY <1>2, <1>6, <1>7
  <2> QED BY <1>3, <2>1, <2>2, <2>3
<1>8. CASE c = Home[t]
  <2>1. size'[c] = size[c] + 1
    BY <1>8, <1>1 DEF Deposit, TypeOK
  <2>2. t \in InCollection(c)' /\ place'[t] = k /\ k \in 0..size[c]
    BY <1>1, <1>2, <1>4, <1>8 DEF InCollection, Listed
  <2>3. ASSUME NEW u \in InCollection(c)
        PROVE  /\ place[u] \in 0..(size[c] - 1)
               /\ place[u] < k => place'[u] = place[u]
               /\ place[u] >= k => place'[u] = place[u] + 1
    <3>1. place[u] \in {place[v] : v \in InCollection(c)}
      OBVIOUS
    <3> QED BY <3>1, <1>1, <1>2, <1>3, <1>6, <1>8
  <2>4. ASSUME NEW u \in InCollection(c)' PROVE place'[u] \in 0..size[c]
    <3>1. CASE u = t
      BY <3>1, <2>2
    <3>2. CASE u \in InCollection(c)
      BY <3>2, <2>2, <2>3, <1>1
    <3> QED BY <3>1, <3>2, <1>5
  <2>5. ASSUME NEW n \in 0..size[c] PROVE \E u \in InCollection(c)' : place'[u] = n
    <3>1. CASE n = k
      BY <3>1, <2>2
    <3>2. CASE n < k
      <4>1. n \in 0..(size[c] - 1)
        BY <3>2, <2>2, <1>1
      <4>2. PICK u \in InCollection(c) : place[u] = n
        BY <4>1, <1>3
      <4> QED BY <4>2, <2>3, <3>2, <1>6
    <3>3. CASE n > k
      <4>1. n - 1 \in 0..(size[c] - 1) /\ n - 1 >= k
        BY <3>3, <2>2, <1>1
      <4>2. PICK u \in InCollection(c) : place[u] = n - 1
        BY <4>1, <1>3
      <4>3. place'[u] = n
        BY <4>1, <4>2, <2>3
      <4> QED BY <4>3, <1>6
    <3> QED BY <3>1, <3>2, <3>3, <2>2
  <2>6. size'[c] - 1 = size[c]
    BY <2>1, <1>1
  <2> QED BY <2>4, <2>5, <2>6
<1> QED BY <1>7, <1>8

LEMMA PositionsNext == IInv /\ [Next]_vars => PositionsOK'
<1> SUFFICES ASSUME IInv, [Next]_vars PROVE PositionsOK'
  OBVIOUS
<1>1. ASSUME NEW t \in Thesis, NEW k \in 0..Cardinality(Thesis), Deposit(t, k) PROVE PositionsOK'
  BY <1>1, DepositPositions
<1>2. ASSUME UNCHANGED server PROVE PositionsOK'
  BY <1>2 DEF IInv, PositionsOK, server, InCollection, Listed
<1>3. (\E t \in Thesis, k \in 0..Cardinality(Thesis) : Deposit(t, k)) \/ UNCHANGED server
  BY DEF Next, TaskStep, ReadStep, vars, server, Start, GetCollectionList, JoinLists, ReadingFails,
         CreateFile, WriteFile, Merge, RewriteCache, CollectionListFails, WriteFails, Kill,
         BeginCollection, GetPage, GetOffset, RequestFails
<1> QED BY <1>1, <1>2, <1>3

---------------------------------------------------------------------------
(* What the threads have passed. *)

Passed(t) == LET w == worker[Home[t]] IN w.st = "done" \/ place[t] < w.page * PageSize

LEMMA MustTypes ==
  ASSUME IInv, NEW t \in must
  PROVE  /\ t \in Thesis /\ t \in Listed /\ Home[t] \in Collection
         /\ place[t] \in Nat /\ got[t] \in Nat
         /\ worker[Home[t]].page \in Nat /\ size[Home[t]] \in Nat
         /\ place[t] <= size[Home[t]] - 1
         /\ Passed(t) => got[t] > 0
<1>1. t \in Thesis /\ t \in Listed /\ Home[t] \in Collection
  BY RepositoryAssumption DEF IInv, TypeOK, ReadSoFar, RepositoryAssumption
<1>2. place[t] \in 0..(size[Home[t]] - 1) /\ place[t] \in Nat /\ size[Home[t]] \in Nat
  BY <1>1, PlaceInSize DEF IInv
<1>3. got[t] \in Nat /\ worker[Home[t]].page \in Nat
  BY <1>1 DEF IInv, TypeOK, Worker
<1>4. Passed(t) => got[t] > 0
  BY DEF IInv, ReadSoFar, Passed
<1> QED BY <1>1, <1>2, <1>3, <1>4

LEMMA DepositReads ==
  ASSUME IInv, NEW t \in Thesis, NEW k \in 0..Cardinality(Thesis), Deposit(t, k)
  PROVE  ReadSoFar'
<1>1. /\ place[t] = Absent /\ Absent \notin Nat /\ k \in Nat /\ PageSize \in Nat
      /\ \A u \in Thesis : place[u] \in Nat \cup {Absent}
  BY RepositoryAssumption, BoundAssumption
     DEF RepositoryAssumption, BoundAssumption, Deposit, IInv, TypeOK
<1>2. /\ place' = [u \in Thesis |->
                      IF u = t THEN k
                      ELSE IF Home[u] = Home[t] /\ place[u] # Absent /\ place[u] >= k
                      THEN place[u] + 1 ELSE place[u]]
      /\ UNCHANGED <<worker, got, must>>
  BY DEF Deposit
<1>3. Listed \subseteq Listed'
  BY <1>1, <1>2 DEF Listed
<1>4. ASSUME NEW u \in must, Passed(u)' PROVE got[u] > 0
  <2>1. /\ u \in Thesis /\ u \in Listed /\ Home[u] \in Collection /\ place[u] \in Nat
        /\ worker[Home[u]].page \in Nat /\ (Passed(u) => got[u] > 0)
    BY MustTypes
  <2>2. place'[u] \in Nat /\ place[u] <= place'[u]
    BY <1>1, <1>2, <2>1 DEF Listed
  <2>3. worker[Home[u]].page * PageSize \in Nat
    BY <1>1, <2>1, ProductOfSucc
  <2>4. Passed(u)
    BY <1>2, <1>4, <2>1, <2>2, <2>3 DEF Passed
  <2> QED BY <2>1, <2>4
<1> QED BY <1>2, <1>3, <1>4 DEF IInv, ReadSoFar, Passed

\* A request moves one thread by one page, and appends that page.
LEMMA PageReads ==
  ASSUME IInv, NEW c \in Collection, GetPage(c) \/ GetOffset(c)
  PROVE  ReadSoFar'
<1> DEFINE p == worker[c].page
           page == Listing(c, p * PageSize)
<1>1. worker[c] \in Worker /\ worker \in [Collection -> Worker] /\ got \in [Thesis -> Nat]
  BY DEF IInv, TypeOK
<1>2. p \in Nat /\ PageSize \in Nat \ {0} /\ p * PageSize \in Nat /\ size[c] \in Nat
      /\ (p + 1) * PageSize = p * PageSize + PageSize
  BY <1>1, BoundAssumption, ProductOfSucc DEF Worker, BoundAssumption, IInv, TypeOK
<1>3. got' = [t \in Thesis |-> IF t \in page THEN got[t] + 1 ELSE got[t]]
      /\ UNCHANGED <<server, must>>
  BY DEF GetPage, GetOffset, Append
<1>4. \/ page # {} /\ worker' = NextPage(c)
      \/ worker' = NextPage(c) /\ HasNext(c, p)
      \/ worker' = [worker EXCEPT ![c].st = "done"] /\ (page = {} \/ ~HasNext(c, p))
  BY DEF GetPage, GetOffset
<1>5. \A t \in Thesis : got[t] > 0 \/ t \in page => got'[t] > 0
  BY <1>1, <1>3
<1>6. \A t \in Thesis : got'[t] > 0 => t \in Listed
  BY <1>1, <1>3 DEF IInv, ReadSoFar, Listing
<1>7. ASSUME NEW t \in must, Passed(t)' PROVE got'[t] > 0
  <2>1. /\ t \in Thesis /\ t \in Listed /\ Home[t] \in Collection
        /\ place[t] \in Nat /\ (Passed(t) => got[t] > 0) /\ place[t] <= size[Home[t]] - 1
    BY MustTypes
  <2>2. CASE Home[t] # c
    <3>1. worker'[Home[t]] = worker[Home[t]]
      BY <1>1, <1>4, <2>1, <2>2 DEF NextPage
    <3> QED BY <1>3, <1>5, <1>7, <2>1, <3>1 DEF Passed, server
  <2>3. CASE Home[t] = c /\ p * PageSize <= place[t] /\ place[t] < p * PageSize + PageSize
    <3>1. t \in page
      BY <2>1, <2>3 DEF Listing
    <3> QED BY <1>5, <2>1, <3>1
  <2>4. CASE Home[t] = c /\ place[t] < p * PageSize
    BY <1>5, <2>1, <2>4 DEF Passed
  <2>5. CASE Home[t] = c /\ place[t] >= p * PageSize + PageSize
    <3>1. worker' # NextPage(c)
      <4> SUFFICES ASSUME worker' = NextPage(c) PROVE FALSE
        OBVIOUS
      <4>1. worker'[c].st = "reading" /\ worker'[c].page = p + 1
        BY <1>1 DEF NextPage
      <4>2. place[t] < (p + 1) * PageSize
        BY <1>3, <1>7, <2>5, <4>1 DEF Passed, server
      <4> QED BY <4>2, <1>2, <2>1, <2>5
    <3>2. HasNext(c, p)
      BY <1>2, <2>1, <2>5 DEF HasNext
    <3>3. page = {}
      BY <1>4, <3>1, <3>2
    <3>4. p * PageSize \in 0..(size[c] - 1)
      BY <1>2, <2>1, <2>5
    <3>5. PICK u \in InCollection(c) : place[u] = p * PageSize
      BY <3>4 DEF IInv, PositionsOK
    <3>6. u \in page
      BY <1>2, <3>5 DEF Listing, InCollection
    <3> QED BY <3>3, <3>6
  <2> QED BY <1>2, <2>1, <2>2, <2>3, <2>4, <2>5
<1>8. Listed' = Listed
  BY <1>3 DEF Listed, server
<1> QED BY <1>3, <1>6, <1>7, <1>8 DEF IInv, ReadSoFar, Passed, server

LEMMA ReadNext == IInv /\ [Next]_vars => ReadSoFar'
<1> SUFFICES ASSUME IInv, [Next]_vars PROVE ReadSoFar'
  OBVIOUS
<1>1. ASSUME NEW t \in Thesis, NEW k \in 0..Cardinality(Thesis), Deposit(t, k) PROVE ReadSoFar'
  BY <1>1, DepositReads
<1>2. ASSUME NEW c \in Collection, GetPage(c) \/ GetOffset(c) PROVE ReadSoFar'
  BY <1>2, PageReads
<1>3. ASSUME UNCHANGED <<server, got, must>>,
             \A c \in Collection : \/ worker'[c].st # "done" /\ worker'[c].page = 0
                                   \/ worker'[c] = worker[c]
                                   \/ worker'[c].st # "done" /\ worker'[c].page = worker[c].page
      PROVE  ReadSoFar'
  <2>1. Listed' = Listed
    BY <1>3 DEF Listed, server
  <2>2. ASSUME NEW t \in must, Passed(t)' PROVE got[t] > 0
    <3>1. Home[t] \in Collection /\ place[t] \in Nat /\ (Passed(t) => got[t] > 0)
      BY MustTypes
    <3>2. 0 * PageSize = 0
      BY BoundAssumption DEF BoundAssumption
    <3>3. worker'[Home[t]].st = "done" \/ place[t] < worker'[Home[t]].page * PageSize
      BY <2>2, <1>3 DEF Passed, server
    <3>4. ~(worker'[Home[t]].st # "done" /\ worker'[Home[t]].page = 0)
      BY <3>1, <3>2, <3>3
    <3>5. Passed(t)
      BY <1>3, <3>1, <3>3, <3>4 DEF Passed
    <3> QED BY <3>1, <3>5
  <2> QED BY <1>3, <2>1, <2>2 DEF IInv, ReadSoFar, Passed, server
<1>4. CASE Start
  <2>1. must' = Listed /\ Listed' = Listed
    BY <1>4 DEF Start, Listed, server
  <2>2. ASSUME NEW t \in Thesis PROVE got'[t] = 0
    BY <1>4 DEF Start
  <2>3. ASSUME NEW t \in Listed, Passed(t)' PROVE FALSE
    <3>1. t \in Thesis /\ Home[t] \in Collection /\ place[t] \in Nat
      BY RepositoryAssumption DEF Listed, IInv, TypeOK, RepositoryAssumption
    <3>2. worker'[Home[t]] = Idle /\ place' = place
      BY <1>4, <3>1 DEF Start, server
    <3>3. place[t] < 0 * PageSize
      BY <2>3, <3>2 DEF Passed, Idle
    <3> QED BY <3>1, <3>3, BoundAssumption DEF BoundAssumption
  <2> QED BY <2>1, <2>2, <2>3 DEF ReadSoFar, Passed
<1>5. CASE GetCollectionList
  <2>1. \A c \in Collection : worker'[c] = Waiting \/ worker'[c] = worker[c]
    BY <1>5 DEF GetCollectionList
  <2> QED BY <1>3, <1>5, <2>1 DEF GetCollectionList, Waiting, Idle
<1>6. ASSUME NEW c \in Collection, BeginCollection(c) \/ RequestFails(c) PROVE ReadSoFar'
  <2>1. \A d \in Collection \ {c} : worker'[d] = worker[d]
    BY <1>6 DEF BeginCollection, RequestFails, IInv, TypeOK
  <2>2. worker[c] \in Worker /\ worker \in [Collection -> Worker]
    BY DEF IInv, TypeOK
  <2>3. worker'[c].st # "done" /\ worker'[c].page = worker[c].page
    BY <1>6, <2>2 DEF BeginCollection, RequestFails, Worker
  <2> QED BY <1>3, <1>6, <2>1, <2>3 DEF BeginCollection, RequestFails
<1>7. CASE Kill
  <2>1. \A c \in Collection : worker'[c] = Idle
    BY <1>7 DEF Kill
  <2> QED BY <1>3, <1>7, <2>1 DEF Kill, Idle
<1>8. ASSUME UNCHANGED <<server, got, must, worker>> PROVE ReadSoFar'
  BY <1>3, <1>8
<1>9. CASE JoinLists \/ ReadingFails \/ CreateFile \/ WriteFile \/ Merge \/ RewriteCache
           \/ CollectionListFails \/ WriteFails \/ UNCHANGED vars
  BY <1>8, <1>9 DEF JoinLists, ReadingFails, CreateFile, WriteFile, Merge, RewriteCache,
                    CollectionListFails, WriteFails, vars
<1> QED BY <1>1, <1>2, <1>4, <1>5, <1>6, <1>7, <1>9 DEF Next, TaskStep, ReadStep

---------------------------------------------------------------------------
(* The files. *)

\* A repository all of whose collections are read holds all it must.
LEMMA DocumentsHold ==
  ASSUME IInv, \A c \in Of(repo) : worker[c].st = "done"
  PROVE  /\ Documents \in SUBSET Thesis /\ Documents \subseteq Listed
         /\ {t \in must : Home[t] \in Of(repo)} \subseteq Documents
<1>1. Documents \in SUBSET Thesis /\ Documents \subseteq Listed
  BY DEF Documents, IInv, ReadSoFar
<1>2. ASSUME NEW t \in must, Home[t] \in Of(repo) PROVE t \in Documents
  <2>1. t \in Thesis /\ (Passed(t) => got[t] > 0)
    BY MustTypes
  <2> QED BY <1>2, <2>1 DEF Documents, Passed
<1> QED BY <1>1, <1>2

LEMMA WriteFileFiles == IInv /\ WriteFile => FilesOK'
<1> SUFFICES ASSUME IInv, WriteFile PROVE FilesOK'
  OBVIOUS
<1>1. /\ Documents \in SUBSET Thesis /\ Documents \subseteq Listed
      /\ {t \in must : Home[t] \in Of(repo)} \subseteq Documents
  BY DocumentsHold DEF WriteFile, IInv, FilesOK
<1>2. /\ temp' = [temp EXCEPT ![repo] = Documents] /\ temp \in [Repo -> (SUBSET Thesis) \cup {Torn, NoFile}]
      /\ must' = must /\ Listed' = Listed /\ repo \in Repo
  BY DEF WriteFile, IInv, TypeOK, server, Listed
<1>3. \A r \in Repo : temp'[r] \in SUBSET Thesis => temp'[r] \subseteq Listed'
  BY <1>1, <1>2 DEF IInv, FilesOK
<1>4. CASE repo = "legacy"
  <2>1. temp'["legacy"] = Documents /\ phase' = "listing"
    BY <1>2, <1>4 DEF WriteFile
  <2>2. Holds("legacy")'
    BY <1>1, <1>2, <1>4, <2>1 DEF Holds
  <2> QED BY <1>3, <2>1, <2>2 DEF FilesOK
<1>5. CASE repo = "dataspace"
  <2>1. temp'["dataspace"] = Documents /\ temp'["legacy"] = temp["legacy"] /\ phase' = "merging"
    BY <1>2, <1>5 DEF WriteFile, Repo
  <2>2. Holds("dataspace")'
    BY <1>1, <1>2, <1>5, <2>1 DEF Holds
  <2>3. Holds("legacy")
    BY <1>5 DEF WriteFile, IInv, FilesOK
  <2>4. Holds("legacy")'
    BY <1>2, <2>1, <2>3 DEF Holds
  <2> QED BY <1>3, <2>1, <2>2, <2>4 DEF FilesOK
<1> QED BY <1>2, <1>4, <1>5 DEF Repo

LEMMA CreateFileFiles == IInv /\ CreateFile => FilesOK'
<1> SUFFICES ASSUME IInv, CreateFile PROVE FilesOK'
  OBVIOUS
<1>1. /\ temp' = [temp EXCEPT ![repo] = Torn] /\ temp \in [Repo -> (SUBSET Thesis) \cup {Torn, NoFile}]
      /\ must' = must /\ Listed' = Listed /\ repo' = repo /\ worker' = worker
      /\ phase = "creating" /\ phase' = "writing" /\ Torn \notin SUBSET Thesis
  BY RepositoryAssumption DEF CreateFile, IInv, TypeOK, server, Listed, RepositoryAssumption
<1>2. \A r \in Repo : temp'[r] \in SUBSET Thesis => temp'[r] \subseteq Listed'
  BY <1>1 DEF IInv, FilesOK
<1>3. ASSUME repo = "dataspace" PROVE Holds("legacy")'
  <2>1. temp'["legacy"] = temp["legacy"]
    BY <1>1, <1>3 DEF Repo
  <2>2. Holds("legacy")
    BY <1>1, <1>3 DEF IInv, FilesOK
  <2> QED BY <1>1, <2>1, <2>2 DEF Holds
<1>4. \A c \in Of(repo') : worker'[c].st = "done"
  BY <1>1 DEF IInv, FilesOK
<1> QED BY <1>1, <1>2, <1>3, <1>4 DEF FilesOK

LEMMA RewriteCacheFiles == IInv /\ RewriteCache => FilesOK' /\ cache' \in SUBSET Listed /\ must \subseteq cache'
<1> SUFFICES ASSUME IInv, RewriteCache
             PROVE  FilesOK' /\ cache' \in SUBSET Listed /\ must \subseteq cache'
  OBVIOUS
<1>1. Holds("legacy") /\ Holds("dataspace")
  BY DEF RewriteCache, IInv, FilesOK
<1>2. temp["legacy"] \subseteq Listed /\ temp["dataspace"] \subseteq Listed
  BY <1>1 DEF Holds, IInv, FilesOK, Repo
<1>3. ASSUME NEW t \in must PROVE t \in temp["legacy"] \cup temp["dataspace"]
  <2>1. Home[t] \in Of("legacy") \/ Home[t] \in Of("dataspace")
    BY MustTypes DEF Of
  <2> QED BY <1>1, <2>1 DEF Holds
<1>4. must \subseteq cache' /\ cache' \in SUBSET Listed
  BY <1>2, <1>3 DEF RewriteCache
<1>5. FilesOK'
  BY <1>4 DEF RewriteCache, IInv, FilesOK, server, Listed
<1> QED BY <1>4, <1>5

LEMMA FilesNext == IInv /\ [Next]_vars => FilesOK'
<1> SUFFICES ASSUME IInv, [Next]_vars PROVE FilesOK'
  OBVIOUS
<1> USE DEF server, bounds
<1>1. ASSUME NEW t \in Thesis, NEW k \in 0..Cardinality(Thesis), Deposit(t, k) PROVE FilesOK'
  <2>1. Listed \subseteq Listed'
    BY <1>1, RepositoryAssumption DEF Deposit, Listed, IInv, TypeOK, RepositoryAssumption
  <2>2. UNCHANGED <<phase, repo, worker, temp, cache, must>>
    BY <1>1 DEF Deposit
  <2> QED BY <2>1, <2>2 DEF IInv, FilesOK, Holds
<1>2. CASE Start
  <2>1. phase' = "listing" /\ repo' = "legacy" /\ temp' = temp /\ Listed' = Listed
    BY <1>2 DEF Start, Listed
  <2> QED BY <2>1 DEF IInv, FilesOK
<1>3. CASE GetCollectionList
  <2>1. phase = "listing" /\ phase' = "reading" /\ UNCHANGED <<place, repo, temp, must>>
    BY <1>3 DEF GetCollectionList
  <2> QED BY <2>1 DEF IInv, FilesOK, Holds, Listed
<1>4. CASE JoinLists
  BY <1>4 DEF JoinLists, IInv, FilesOK, Holds, Listed
<1>5. CASE CollectionListFails \/ ReadingFails \/ WriteFails \/ Kill
  <2>1. phase' \in {"unlisted", "aborted", "idle"} /\ UNCHANGED <<place, temp>>
    BY <1>5 DEF CollectionListFails, ReadingFails, WriteFails, Kill
  <2> QED BY <2>1 DEF IInv, FilesOK, Listed
<1>6. CASE Merge
  <2>1. /\ phase = "merging" /\ phase' \in {"rewriting", "aborted"}
        /\ UNCHANGED <<place, repo, worker, temp, must>>
    BY <1>6 DEF Merge
  <2> QED BY <2>1 DEF IInv, FilesOK, Holds, Listed
<1>7. CASE CreateFile \/ WriteFile \/ RewriteCache
  BY <1>7, CreateFileFiles, WriteFileFiles, RewriteCacheFiles
<1>8. ASSUME NEW c \in Collection, ReadStep(c) \/ RequestFails(c) PROVE FilesOK'
  <2>1. UNCHANGED <<place, phase, repo, temp, cache, must>>
    BY <1>8 DEF ReadStep, BeginCollection, GetPage, GetOffset, RequestFails
  <2>2. worker[c].st # "done"
    BY <1>8 DEF ReadStep, BeginCollection, GetPage, GetOffset, RequestFails
  <2>3. ASSUME NEW d \in Collection \ {c} PROVE worker'[d] = worker[d]
    BY <1>8 DEF ReadStep, BeginCollection, GetPage, GetOffset, RequestFails, NextPage, IInv, TypeOK
  <2>4. ASSUME phase \in {"creating", "writing"}, NEW d \in Of(repo) PROVE worker'[d].st = "done"
    <3>1. worker[d].st = "done" /\ d \in Collection
      BY <2>4, RepositoryAssumption DEF IInv, FilesOK, Of, RepositoryAssumption
    <3> QED BY <2>2, <2>3, <3>1
  <2> QED BY <2>1, <2>4 DEF IInv, FilesOK, Holds, Listed
<1>9. CASE UNCHANGED vars
  BY <1>9 DEF vars, IInv, FilesOK, Holds, Listed
<1> QED BY <1>1, <1>2, <1>3, <1>4, <1>5, <1>6, <1>7, <1>8, <1>9 DEF Next, TaskStep

---------------------------------------------------------------------------
(* The theorems. *)

LEMMA Invariance == Spec => []IInv
<1>1. IInv /\ [Next]_vars => IInv'
  BY TypeNext, PositionsNext, ReadNext, FilesNext DEF IInv
<1> QED BY InitIInv, <1>1, PTL DEF Spec

\* The types hold throughout.
THEOREM TypeCorrect == Spec => []TypeOK
<1>1. IInv => TypeOK
  BY DEF IInv
<1> QED BY Invariance, <1>1, PTL

\* For any repositories, page size and number of threads, whatever fails and whatever is
\* deposited meanwhile: a task that ends well has put every thesis into the cache.
THEOREM HarvestComplete == Spec => []SuccessIsComplete
<1>1. IInv => SuccessIsComplete
  BY DEF IInv, FilesOK, SuccessIsComplete
<1> QED BY Invariance, <1>1, PTL

\* Each request that is repeated has failed before.
Counted == /\ failures \in Nat
           /\ \A c \in Collection : /\ worker[c].attempt <= failures
                                    /\ worker[c].st = "failed" => failures > Retries

LEMMA CountedNext == IInv /\ Counted /\ [Next]_vars => Counted'
<1> SUFFICES ASSUME IInv, Counted, [Next]_vars PROVE Counted'
  OBVIOUS
<1> USE DEF bounds, server
<1>1. worker \in [Collection -> Worker] /\ Retries \in Nat /\ failures \in Nat
      /\ \A c \in Collection : worker[c] \in Worker /\ worker[c].attempt \in Nat
  BY BoundAssumption DEF BoundAssumption, IInv, TypeOK, Worker
<1>2. ASSUME failures' \in {failures, failures + 1},
             \A c \in Collection : worker'[c] = worker[c] \/ (worker'[c].attempt = 0 /\ worker'[c].st # "failed")
      PROVE  Counted'
  BY <1>1, <1>2 DEF Counted
<1>3. CASE Start \/ GetCollectionList \/ Kill
  <2>1. \A c \in Collection : worker'[c] \in {Idle, Waiting, worker[c]}
    BY <1>3 DEF Start, GetCollectionList, Kill
  <2>2. failures' = failures
    BY <1>3 DEF Start, GetCollectionList, Kill
  <2> QED BY <1>2, <2>1, <2>2 DEF Idle, Waiting
<1>4. ASSUME NEW c \in Collection, BeginCollection(c) \/ GetPage(c) \/ GetOffset(c) PROVE Counted'
  <2>1. \A d \in Collection \ {c} : worker'[d] = worker[d]
    BY <1>1, <1>4 DEF BeginCollection, GetPage, GetOffset, NextPage
  <2>2. worker'[c].st # "failed" /\ worker'[c].attempt \in {0, worker[c].attempt}
    BY <1>1, <1>4 DEF BeginCollection, GetPage, GetOffset, NextPage, Worker
  <2>3. failures' = failures
    BY <1>4 DEF BeginCollection, GetPage, GetOffset
  <2> QED BY <1>1, <2>1, <2>2, <2>3 DEF Counted
<1>5. ASSUME NEW c \in Collection, RequestFails(c) PROVE Counted'
  <2>1. \A d \in Collection \ {c} : worker'[d] = worker[d]
    BY <1>1, <1>5 DEF RequestFails
  <2>2. failures' = failures + 1
    BY <1>5 DEF RequestFails
  <2>3. CASE worker[c].attempt < Retries
    <3>1. worker'[c].attempt = worker[c].attempt + 1 /\ worker'[c].st = "reading"
      BY <1>1, <1>5, <2>3 DEF RequestFails, Worker
    <3> QED BY <1>1, <2>1, <2>2, <3>1 DEF Counted
  <2>4. CASE ~(worker[c].attempt < Retries)
    <3>1. worker'[c].attempt = worker[c].attempt
      BY <1>1, <1>5, <2>4 DEF RequestFails, Worker
    <3> QED BY <1>1, <2>1, <2>2, <2>4, <3>1 DEF Counted
  <2> QED BY <2>3, <2>4
<1>6. CASE JoinLists \/ ReadingFails \/ CreateFile \/ WriteFile \/ Merge \/ RewriteCache
           \/ CollectionListFails \/ WriteFails \/ UNCHANGED vars
           \/ \E t \in Thesis, k \in 0..Cardinality(Thesis) : Deposit(t, k)
  BY <1>2, <1>6 DEF JoinLists, ReadingFails, CreateFile, WriteFile, Merge, RewriteCache,
                    CollectionListFails, WriteFails, Deposit, vars
<1> QED BY <1>3, <1>4, <1>5, <1>6 DEF Next, TaskStep, ReadStep

\* For any number of attempts, threads and failures, no collection is given up before
\* more requests failed than a page is asked for again.
THEOREM GivenUpLate == Spec => []GivesUpLate
<1>1. Init => Counted
  BY BoundAssumption DEF Init, Counted, Idle, BoundAssumption
<1>2. Counted => GivesUpLate
  BY DEF Counted, GivesUpLate
<1> QED BY Invariance, CountedNext, <1>1, <1>2, PTL DEF Spec

---------------------------------------------------------------------------
(* No thesis twice. *)

\* The collections a task has not come to have nothing in the lists, a thread has nothing from its
\* page on there, and no thesis is there twice, unless one was deposited since the task began.
\* A killed task leaves its lists to the next one, which empties them.
ReadOnce(t) ==
    LET w == worker[Home[t]]
    IN  /\ got[t] <= 1
        /\ w.st = "waiting" \/ (w.st = "idle" /\ phase # "idle") => got[t] = 0
        /\ w.st = "reading" /\ got[t] > 0 => place[t] < w.page * PageSize

OnceOK ==
    /\ phase = "listing" => \A c \in Of(repo) : worker[c].st = "idle"
    /\ repo = "legacy" => \A c \in Of("dataspace") : worker[c].st = "idle"
    /\ Listed = must => \A t \in Thesis : ReadOnce(t)

LEMMA PageOnce ==
  ASSUME IInv, OnceOK, NEW c \in Collection, GetPage(c) \/ GetOffset(c)
  PROVE  OnceOK'
<1> DEFINE p == worker[c].page
           page == Listing(c, p * PageSize)
<1>1. worker[c] \in Worker /\ worker \in [Collection -> Worker] /\ got \in [Thesis -> Nat]
  BY DEF IInv, TypeOK
<1>2. p \in Nat /\ PageSize \in Nat \ {0} /\ p * PageSize \in Nat
      /\ (p + 1) * PageSize = p * PageSize + PageSize
  BY <1>1, BoundAssumption, ProductOfSucc DEF Worker, BoundAssumption
<1>3. got' = [t \in Thesis |-> IF t \in page THEN got[t] + 1 ELSE got[t]]
      /\ UNCHANGED <<server, phase, repo, must>> /\ worker[c].st = "reading"
  BY DEF GetPage, GetOffset, Append
<1>4. /\ \A d \in Collection \ {c} : worker'[d] = worker[d]
      /\ \/ worker'[c].st = "done"
         \/ worker'[c].st = "reading" /\ worker'[c].page = p + 1
  <2>1. worker' = NextPage(c) \/ worker' = [worker EXCEPT ![c].st = "done"]
    BY DEF GetPage, GetOffset
  <2>2. CASE worker' = NextPage(c)
    BY <1>1, <2>2 DEF NextPage
  <2>3. CASE worker' = [worker EXCEPT ![c].st = "done"]
    BY <1>1, <2>3 DEF Worker
  <2> QED BY <2>1, <2>2, <2>3
<1>5. ASSUME Listed = must, NEW t \in Thesis PROVE ReadOnce(t)'
  <2>1. ReadOnce(t) /\ place' = place /\ phase' = phase /\ got[t] \in Nat /\ Home[t] \in Collection
    BY <1>1, <1>3, <1>5, RepositoryAssumption DEF OnceOK, server, RepositoryAssumption
  <2>2. CASE Home[t] # c
    <3>1. t \notin page /\ got'[t] = got[t] /\ worker'[Home[t]] = worker[Home[t]]
      BY <1>3, <1>4, <2>1, <2>2 DEF Listing
    <3> QED BY <2>1, <3>1 DEF ReadOnce
  <2>3. CASE Home[t] = c /\ t \in page
    <3>1. place[t] \in Nat /\ p * PageSize <= place[t] /\ place[t] < p * PageSize + PageSize
      BY <1>2, <2>3 DEF Listing, Listed, IInv, TypeOK
    <3>2. got[t] = 0
      BY <1>2, <1>3, <2>1, <2>3, <3>1 DEF ReadOnce
    <3>3. got'[t] = 1
      BY <1>3, <2>3, <3>2
    <3> QED BY <1>2, <1>4, <2>1, <2>3, <3>1, <3>3 DEF ReadOnce
  <2>4. CASE Home[t] = c /\ t \notin page
    <3>1. got'[t] = got[t]
      BY <1>3, <2>4
    <3>2. got[t] > 0 => place[t] \in Nat /\ place[t] < p * PageSize
      BY <1>3, <2>1, <2>4 DEF ReadOnce, IInv, ReadSoFar, Listed, TypeOK
    <3> QED BY <1>2, <1>4, <2>1, <2>4, <3>1, <3>2 DEF ReadOnce
  <2> QED BY <2>2, <2>3, <2>4
<1>6. (Listed = must)' => Listed = must
  BY <1>3 DEF Listed, server
<1>7. (phase = "listing" => \A d \in Of(repo) : worker[d].st = "idle")'
      /\ (repo = "legacy" => \A d \in Of("dataspace") : worker[d].st = "idle")'
  <2>1. \A r \in Repo : Of(r) \subseteq Collection
    BY RepositoryAssumption DEF Of, RepositoryAssumption
  <2> QED BY <1>3, <1>4, <2>1 DEF OnceOK, IInv, TypeOK, Repo
<1> QED BY <1>5, <1>6, <1>7 DEF OnceOK

LEMMA OnceNext == IInv /\ OnceOK /\ [Next]_vars => OnceOK'
<1> SUFFICES ASSUME IInv, OnceOK, [Next]_vars PROVE OnceOK'
  OBVIOUS
<1> USE DEF bounds, server
<1>1. /\ worker \in [Collection -> Worker] /\ repo \in Repo
      /\ \A r \in Repo : Of(r) \subseteq Collection
      /\ \A t \in Thesis : Home[t] \in Collection
      /\ Of("legacy") \cap Of("dataspace") = {}
  BY RepositoryAssumption DEF IInv, TypeOK, Of, RepositoryAssumption
<1>2. ASSUME NEW t \in Thesis, NEW k \in 0..Cardinality(Thesis), Deposit(t, k) PROVE OnceOK'
  <2>1. t \in Listed' /\ t \notin Listed /\ must \subseteq Listed
        /\ UNCHANGED <<phase, repo, worker, must>>
    BY <1>2, RepositoryAssumption DEF Deposit, Listed, IInv, ReadSoFar, RepositoryAssumption
  <2>2. Listed' # must'
    BY <2>1
  <2> QED BY <2>1, <2>2 DEF OnceOK
<1>3. CASE Start
  <2>1. \A c \in Collection : worker'[c].st = "idle"
    BY <1>3 DEF Start, Idle
  <2>2. \A t \in Thesis : got'[t] = 0
    BY <1>3 DEF Start
  <2> QED BY <1>1, <1>3, <2>1, <2>2 DEF Start, OnceOK, ReadOnce, Repo
<1>4. CASE GetCollectionList
  <2>1. \A c \in Collection : worker'[c] = IF c \in Of(repo) THEN Waiting ELSE worker[c]
    BY <1>4 DEF GetCollectionList
  <2>2. /\ phase = "listing" /\ phase' = "reading" /\ UNCHANGED <<place, repo, got, must>>
        /\ \A c \in Of(repo) : worker[c].st = "idle"
    BY <1>4 DEF GetCollectionList, OnceOK
  <2>3. ASSUME Listed = must, NEW t \in Thesis PROVE ReadOnce(t)'
    <3>1. ReadOnce(t) /\ Home[t] \in Collection
      BY <1>1, <2>3 DEF OnceOK
    <3>2. CASE Home[t] \in Of(repo)
      <4>1. worker'[Home[t]].st = "waiting" /\ got[t] = 0
        BY <2>1, <2>2, <3>1, <3>2 DEF Waiting, Idle, ReadOnce
      <4> QED BY <2>2, <4>1 DEF ReadOnce
    <3>3. CASE Home[t] \notin Of(repo)
      <4>1. worker'[Home[t]] = worker[Home[t]]
        BY <2>1, <3>1, <3>3
      <4> QED BY <2>2, <3>1, <4>1 DEF ReadOnce
    <3> QED BY <3>2, <3>3
  <2>4. (repo = "legacy" => \A d \in Of("dataspace") : worker[d].st = "idle")'
    BY <1>1, <2>1, <2>2 DEF OnceOK, Repo
  <2>5. (Listed = must)' => Listed = must
    BY <2>2 DEF Listed
  <2> QED BY <2>2, <2>3, <2>4, <2>5 DEF OnceOK
<1>5. ASSUME NEW c \in Collection, BeginCollection(c) \/ RequestFails(c) PROVE OnceOK'
  <2>1. \A d \in Collection \ {c} : worker'[d] = worker[d]
    BY <1>1, <1>5 DEF BeginCollection, RequestFails
  <2>2. /\ worker'[c].page = worker[c].page
        /\ \/ worker[c].st = "waiting" /\ worker'[c].st = "reading"
           \/ worker[c].st = "reading" /\ worker'[c].st \in {"reading", "failed"}
    BY <1>1, <1>5 DEF BeginCollection, RequestFails, Worker
  <2>3. UNCHANGED <<place, phase, repo, got, must>>
    BY <1>5 DEF BeginCollection, RequestFails
  <2>4. ASSUME Listed = must, NEW t \in Thesis PROVE ReadOnce(t)'
    <3>1. ReadOnce(t) /\ got[t] \in Nat
      BY <2>4 DEF OnceOK, IInv, TypeOK
    <3> QED BY <1>1, <2>1, <2>2, <2>3, <3>1 DEF ReadOnce
  <2>5. \A d \in Collection : worker[d].st = "idle" => worker'[d].st = "idle"
    BY <2>1, <2>2
  <2>6. (Listed = must)' => Listed = must
    BY <2>3 DEF Listed
  <2> QED BY <1>1, <2>3, <2>4, <2>5, <2>6 DEF OnceOK, Repo
<1>6. CASE Kill
  <2>1. \A c \in Collection : worker'[c].st = "idle"
    BY <1>6 DEF Kill, Idle
  <2>2. phase' = "idle" /\ UNCHANGED <<place, repo, got, must>>
    BY <1>6 DEF Kill
  <2> QED BY <1>1, <2>1, <2>2 DEF OnceOK, ReadOnce, Listed, Repo
<1>7. CASE WriteFile
  <2>1. /\ UNCHANGED <<place, worker, got, must>> /\ phase = "writing" /\ phase' # "idle"
        /\ repo' = "dataspace" /\ (phase' = "listing" => repo = "legacy")
    BY <1>1, <1>7 DEF WriteFile, Repo
  <2> QED BY <2>1 DEF OnceOK, ReadOnce, Listed
<1>8. CASE JoinLists \/ ReadingFails \/ CreateFile \/ Merge \/ RewriteCache
           \/ CollectionListFails \/ WriteFails
  <2>1. /\ UNCHANGED <<place, worker, got, must, repo>> /\ phase # "idle" /\ phase' \notin {"idle", "listing"}
    BY <1>8 DEF JoinLists, ReadingFails, CreateFile, Merge, RewriteCache, CollectionListFails, WriteFails
  <2> QED BY <2>1 DEF OnceOK, ReadOnce, Listed
<1>9. CASE UNCHANGED vars
  BY <1>9 DEF vars, OnceOK, ReadOnce, Listed
<1> QED BY <1>2, <1>3, <1>4, <1>5, <1>6, <1>7, <1>8, <1>9, PageOnce DEF Next, TaskStep, ReadStep

\* Whatever is asked for again, in however many threads: a page is appended once, and no page
\* after it is read by the request that failed too.
THEOREM ReadOnceEach == Spec => []OncePerThesis
<1>1. Init => OnceOK
  BY RepositoryAssumption DEF Init, OnceOK, ReadOnce, Idle, Of, RepositoryAssumption
<1>2. OnceOK => OncePerThesis
  BY DEF OnceOK, ReadOnce, OncePerThesis
<1> QED BY Invariance, OnceNext, <1>1, <1>2, PTL DEF Spec

---------------------------------------------------------------------------
(* The refinement. *)

\* The task implements CacheRefresh: its steps are steps of the promise, or leave it be.
THEOREM CacheRefreshed == Spec => ImplementsCacheRefresh
<1> DEFINE job == IF phase = "rewriting" THEN "writing"
                  ELSE IF phase \in {"idle", "done", "unlisted", "aborted"} THEN "idle" ELSE "running"
<1>1. Init => Refresh!Init
  BY DEF Init, Refresh!Init, Listed
<1>2. IInv /\ [Next]_vars => [Refresh!Next]_(Refresh!vars)
  <2> SUFFICES ASSUME IInv, [Next]_vars PROVE [Refresh!Next]_(Refresh!vars)
    OBVIOUS
  <2> USE DEF server, bounds
  <2>1. ASSUME UNCHANGED <<place, must, cache>>, job' = job PROVE UNCHANGED Refresh!vars
    BY <2>1 DEF Refresh!vars, Listed
  <2>2. ASSUME NEW t \in Thesis, NEW k \in 0..Cardinality(Thesis), Deposit(t, k) PROVE Refresh!Next
    <3>1. Listed \subseteq Listed' /\ Listed' \in SUBSET Thesis
      BY <2>2, RepositoryAssumption DEF Deposit, Listed, IInv, TypeOK, RepositoryAssumption
    <3> QED BY <2>2, <3>1 DEF Deposit, Refresh!Next, Refresh!Deposit
  <2>3. CASE Start
    BY <2>3 DEF Start, Refresh!Next, Refresh!Start, Listed
  <2>4. CASE RewriteCache
    <3>1. cache' \in SUBSET Listed /\ must \subseteq cache'
      BY <2>4, RewriteCacheFiles
    <3> QED BY <2>4, <3>1 DEF RewriteCache, Refresh!Next, Refresh!Publish, Listed
  <2>5. CASE Merge
    BY <2>5 DEF Merge, Refresh!Next, Refresh!Rewrite, Refresh!GiveUp, Listed
  <2>6. CASE CollectionListFails \/ ReadingFails \/ WriteFails
    <3>1. /\ phase \in {"listing", "reading", "creating", "writing"} /\ phase' \in {"unlisted", "aborted"}
          /\ UNCHANGED <<place, must, cache>>
      BY <2>6 DEF CollectionListFails, ReadingFails, WriteFails
    <3> QED BY <3>1 DEF Refresh!Next, Refresh!GiveUp, Listed
  <2>7. CASE Kill
    BY <2>7 DEF Kill, Refresh!Next, Refresh!GiveUp, Refresh!Die, Listed, IInv, TypeOK
  <2>8. CASE GetCollectionList \/ JoinLists \/ CreateFile \/ WriteFile
    BY <2>1, <2>8 DEF GetCollectionList, JoinLists, CreateFile, WriteFile
  <2>9. ASSUME NEW c \in Collection, ReadStep(c) \/ RequestFails(c) PROVE UNCHANGED Refresh!vars
    BY <2>1, <2>9 DEF ReadStep, BeginCollection, GetPage, GetOffset, RequestFails
  <2>10. CASE UNCHANGED vars
    BY <2>1, <2>10 DEF vars
  <2> QED BY <2>2, <2>3, <2>4, <2>5, <2>6, <2>7, <2>8, <2>9, <2>10
          DEF Next, TaskStep
<1> QED BY Invariance, <1>1, <1>2, PTL DEF Spec, Refresh!Spec, ImplementsCacheRefresh
============================================================================
