--------------------------- MODULE ThesesHarvest ---------------------------
(***************************************************************************)
(* rake theses:cache_theses: all the theses of the old and of the new      *)
(* DSpace are read, collection by collection and page by page, into a file *)
(* each, and the two files are merged into the theses cache.               *)
(* lib/bibdata_rs/src/theses/{dataspace,legacy_dataspace} and              *)
(* lib/bibdata_rs/theses/fetcher.rb.                                       *)
(*                                                                         *)
(* A collection is read by one task of the rayon thread pool.  The         *)
(* librarians deposit theses meanwhile, which moves the ones listed behind *)
(* them to later pages.                                                    *)
(***************************************************************************)
EXTENDS Integers, FiniteSets

CONSTANTS
    Thesis,       \* the documents the repositories may hold
    Collection,   \* the collections of the senior theses community
    Legacy,       \* those of the old DSpace
    Home,         \* Home[t]: the collection of t
    Shelf,        \* Shelf[t]: where t is listed at first, Absent if it is not there yet
    Absent,
    PageSize,     \* rest_limit
    Retries,      \* THESES_RETRY_ATTEMPTS
    Threads,      \* threads of the pool
    Torn,         \* the content of a file that is being written: no set of theses
    NoFile,       \* what stands for a file that was never created
    MaxFailures,  \* bound on the requests that fail
    MaxKills,     \* bound on the tasks killed
    MaxRuns       \* bound on the tasks started

ASSUME RepositoryAssumption ==
    /\ Legacy \subseteq Collection
    /\ Home \in [Thesis -> Collection]
    /\ Absent \notin Nat
    /\ Shelf \in [Thesis -> Nat \cup {Absent}]
    /\ IsFiniteSet(Thesis)
    /\ \A c \in Collection :
          LET shelved == {t \in Thesis : Home[t] = c /\ Shelf[t] # Absent}
          IN  {Shelf[t] : t \in shelved} = 0..(Cardinality(shelved) - 1)
    /\ Torn \notin SUBSET Thesis /\ NoFile \notin SUBSET Thesis

ASSUME BoundAssumption ==
    /\ PageSize \in Nat \ {0} /\ Retries \in Nat /\ Threads \in Nat \ {0}
    /\ MaxFailures \in Nat /\ MaxKills \in Nat /\ MaxRuns \in Nat

VARIABLES
    place,     \* place[t]: where the repository lists t in its collection, from 0
    size,      \* size[c]: number of theses in c
    phase,     \* where the task is
    repo,      \* the repository it is reading or has read last
    worker,    \* the reading of each collection
    got,       \* got[t]: how many times t was appended to the documents of this run
    temp,      \* the temporary file of each repository
    cache,     \* the theses cache
    must,      \* the theses there when the task began
    failures, kills, runs

server == <<place, size>>
bounds == <<failures, kills, runs>>
vars == <<server, phase, repo, worker, got, temp, cache, must, bounds>>

Repo == {"legacy", "dataspace"}
Of(r) == IF r = "legacy" THEN Legacy ELSE Collection \ Legacy
Listed == {t \in Thesis : place[t] # Absent}

Idle == [st |-> "idle", page |-> 0, attempt |-> 0]
Waiting == [Idle EXCEPT !.st = "waiting"]
Worker == [st : {"idle", "waiting", "reading", "done", "failed"}, page : Nat, attempt : 0..Retries]

---------------------------------------------------------------------------
(* The repositories. *)

\* A new thesis is listed at position k; what was there and behind moves up by one.
Deposit(t, k) ==
    LET c == Home[t]
    IN  /\ place[t] = Absent
        /\ k \in 0..size[c]
        /\ place' = [u \in Thesis |->
                        IF u = t THEN k
                        ELSE IF Home[u] = c /\ place[u] # Absent /\ place[u] >= k
                        THEN place[u] + 1 ELSE place[u]]
        /\ size' = [size EXCEPT ![c] = @ + 1]
        /\ UNCHANGED <<phase, repo, worker, got, temp, cache, must, bounds>>

\* The theses of c that are listed from position first on, PageSize at most.
Listing(c, first) ==
    {t \in Listed : Home[t] = c /\ first <= place[t] /\ place[t] < first + PageSize}

\* number + 1 < totalPages in the response for page p; the server counts the pages.
HasNext(c, p) == (p + 1) * PageSize < size[c]

---------------------------------------------------------------------------
(* The list of collections: asked for once, without a retry. *)

Start ==
    /\ phase \in {"idle", "done", "unlisted", "aborted"}
    /\ runs < MaxRuns /\ runs' = runs + 1
    /\ phase' = "listing" /\ repo' = "legacy"
    /\ worker' = [c \in Collection |-> Idle]
    /\ got' = [t \in Thesis |-> 0]
    /\ must' = Listed
    /\ UNCHANGED <<server, temp, cache, failures, kills>>

GetCollectionList ==
    /\ phase = "listing" /\ phase' = "reading"
    /\ worker' = [c \in Collection |-> IF c \in Of(repo) THEN Waiting ELSE worker[c]]
    /\ UNCHANGED <<server, repo, got, temp, cache, must, bounds>>

CollectionListFails ==
    /\ phase = "listing" /\ phase' = "unlisted"
    /\ failures < MaxFailures /\ failures' = failures + 1
    /\ UNCHANGED <<server, repo, worker, got, temp, cache, must, kills, runs>>

---------------------------------------------------------------------------
(* The pages of a collection, read by a thread of the pool. *)

Reading == {c \in Collection : worker[c].st = "reading"}

BeginCollection(c) ==
    /\ phase = "reading" /\ worker[c].st = "waiting"
    /\ Cardinality(Reading) < Threads
    /\ worker' = [worker EXCEPT ![c].st = "reading"]
    /\ UNCHANGED <<server, phase, repo, got, temp, cache, must, bounds>>

Append(ts) == got' = [t \in Thesis |-> IF t \in ts THEN got[t] + 1 ELSE got[t]]

NextPage(c) == [worker EXCEPT ![c] = [st |-> "reading", page |-> @.page + 1, attempt |-> 0]]

\* Mutant: the call that failed goes on with the page when its retry has read it.
GetPageTwice(c) ==
    /\ worker[c].st = "reading" /\ c \notin Legacy
    /\ Append(Listing(c, worker[c].page * PageSize))
    /\ worker' = IF worker[c].attempt > 0 THEN [worker EXCEPT ![c].attempt = 0]
                 ELSE IF HasNext(c, worker[c].page) THEN NextPage(c)
                 ELSE [worker EXCEPT ![c].st = "done"]
    /\ UNCHANGED <<server, phase, repo, temp, cache, must, bounds>>

\* The new DSpace: the response says which page it is and how many there are.
GetPage(c) ==
    /\ worker[c].st = "reading" /\ c \notin Legacy
    /\ Append(Listing(c, worker[c].page * PageSize))
    /\ worker' = IF HasNext(c, worker[c].page)
                 THEN NextPage(c)
                 ELSE [worker EXCEPT ![c].st = "done"]
    /\ UNCHANGED <<server, phase, repo, temp, cache, must, bounds>>

\* The old DSpace: the offset grows until a page is empty.
GetOffset(c) ==
    /\ worker[c].st = "reading" /\ c \in Legacy
    /\ LET page == Listing(c, worker[c].page * PageSize)
       IN  /\ Append(page)
           /\ worker' = IF page # {} THEN NextPage(c) ELSE [worker EXCEPT ![c].st = "done"]
    /\ UNCHANGED <<server, phase, repo, temp, cache, must, bounds>>

\* No answer, or none that parses: the page is asked for again, or the collection fails.
RequestFails(c) ==
    /\ worker[c].st = "reading"
    /\ failures < MaxFailures /\ failures' = failures + 1
    /\ worker' = IF worker[c].attempt < Retries
                 THEN [worker EXCEPT ![c].attempt = @ + 1]
                 ELSE [worker EXCEPT ![c].st = "failed"]
    /\ UNCHANGED <<server, phase, repo, got, temp, cache, must, kills, runs>>

\* try_reduce: the lists are joined when all were read.
JoinLists ==
    /\ phase = "reading" /\ phase' = "creating"
    /\ \A c \in Of(repo) : worker[c].st = "done"
    /\ UNCHANGED <<server, repo, worker, got, temp, cache, must, bounds>>

\* Mutant: the task goes on until no collection was read.
ReadingFailsAll ==
    /\ phase = "reading" /\ phase' = "aborted"
    /\ Reading = {}
    /\ \A c \in Of(repo) : worker[c].st = "failed"
    /\ UNCHANGED <<server, repo, worker, got, temp, cache, must, bounds>>

\* try_reduce: the first error is the result once the threads that are reading are through.
ReadingFails ==
    /\ phase = "reading" /\ phase' = "aborted"
    /\ Reading = {}
    /\ \E c \in Of(repo) : worker[c].st = "failed"
    /\ UNCHANGED <<server, repo, worker, got, temp, cache, must, bounds>>

---------------------------------------------------------------------------
(* The files. *)

CreateFile ==
    /\ phase = "creating" /\ phase' = "writing"
    /\ temp' = [temp EXCEPT ![repo] = Torn]
    /\ UNCHANGED <<server, repo, worker, got, cache, must, bounds>>

\* The documents of the repository, as Solr documents.
Documents == {t \in Thesis : got[t] > 0 /\ Home[t] \in Of(repo)}

\* to_writer_pretty and flush; then the new DSpace, or the merge.
WriteFile ==
    /\ phase = "writing"
    /\ temp' = [temp EXCEPT ![repo] = Documents]
    /\ IF repo = "legacy" THEN phase' = "listing" /\ repo' = "dataspace"
                          ELSE phase' = "merging" /\ UNCHANGED repo
    /\ UNCHANGED <<server, worker, got, cache, must, bounds>>

\* Mutant: an error of the new DSpace is logged, and the merge takes the file there is.
WriteFailsMerges ==
    /\ phase \in {"creating", "writing"} /\ phase' = "merging"
    /\ failures < MaxFailures /\ failures' = failures + 1
    /\ UNCHANGED <<server, repo, worker, got, temp, cache, must, kills, runs>>

\* The disk is full, or the path cannot be opened: the task raises.
WriteFails ==
    /\ phase \in {"creating", "writing"} /\ phase' = "aborted"
    /\ failures < MaxFailures /\ failures' = failures + 1
    /\ UNCHANGED <<server, repo, worker, got, temp, cache, must, kills, runs>>

Parses(file) == file \notin {Torn, NoFile}

\* Fetcher.merge_theses_json: both files are read and parsed, and the cache is opened.
Merge ==
    /\ phase = "merging"
    /\ IF \A r \in Repo : Parses(temp[r])
       THEN phase' = "rewriting" /\ cache' = Torn
       ELSE phase' = "aborted" /\ UNCHANGED cache
    /\ UNCHANGED <<server, repo, worker, got, temp, must, bounds>>

\* Mutant: the file of the new DSpace alone.
RewriteCacheNewOnly ==
    /\ phase = "rewriting" /\ phase' = "done"
    /\ cache' = temp["dataspace"]
    /\ UNCHANGED <<server, repo, worker, got, temp, must, bounds>>

RewriteCache ==
    /\ phase = "rewriting" /\ phase' = "done"
    /\ cache' = temp["legacy"] \cup temp["dataspace"]
    /\ UNCHANGED <<server, repo, worker, got, temp, must, bounds>>

Kill ==
    /\ phase \notin {"idle", "done", "unlisted", "aborted"} /\ phase' = "idle"
    /\ kills < MaxKills /\ kills' = kills + 1
    /\ worker' = [c \in Collection |-> Idle]
    /\ UNCHANGED <<server, repo, got, temp, cache, must, failures, runs>>

---------------------------------------------------------------------------
Init ==
    /\ place = Shelf
    /\ size = [c \in Collection |-> Cardinality({t \in Thesis : Home[t] = c /\ Shelf[t] # Absent})]
    /\ phase = "idle" /\ repo = "legacy"
    /\ worker = [c \in Collection |-> Idle]
    /\ got = [t \in Thesis |-> 0]
    /\ temp = [r \in Repo |-> NoFile]
    /\ cache = {} /\ must = {}
    /\ failures = 0 /\ kills = 0 /\ runs = 0

TaskStep ==
    \/ GetCollectionList \/ JoinLists \/ ReadingFails
    \/ CreateFile \/ WriteFile \/ Merge \/ RewriteCache

ReadStep(c) == BeginCollection(c) \/ GetPage(c) \/ GetOffset(c)

Next ==
    \/ \E t \in Thesis : \E k \in 0..Cardinality(Thesis) : Deposit(t, k)
    \/ Start \/ TaskStep
    \/ CollectionListFails \/ WriteFails \/ Kill
    \/ \E c \in Collection : ReadStep(c) \/ RequestFails(c)

Spec == Init /\ [][Next]_vars

\* A running task goes on, each of its threads too.
FairSpec == Spec /\ WF_vars(TaskStep) /\ \A c \in Collection : WF_vars(ReadStep(c))

---------------------------------------------------------------------------
(* Properties. *)

InCollection(c) == {t \in Listed : Home[t] = c}

\* Each collection lists its theses at the positions 0 to size - 1.
PositionsOK == \A c \in Collection : {place[t] : t \in InCollection(c)} = 0..(size[c] - 1)

\* The types of the repositories, the threads and the files.
TypeOK ==
    /\ place \in [Thesis -> Nat \cup {Absent}] /\ size \in [Collection -> Nat]
    /\ phase \in {"idle", "listing", "reading", "creating", "writing", "merging",
                  "rewriting", "done", "unlisted", "aborted"}
    /\ repo \in Repo
    /\ worker \in [Collection -> Worker]
    /\ got \in [Thesis -> Nat]
    /\ temp \in [Repo -> (SUBSET Thesis) \cup {Torn, NoFile}]
    /\ cache \in (SUBSET Thesis) \cup {Torn}
    /\ must \subseteq Thesis
    /\ failures \in 0..MaxFailures /\ kills \in 0..MaxKills /\ runs \in 0..MaxRuns

\* What a thread has passed is in the lists; what was there stays there.
ReadSoFar ==
    /\ must \subseteq Listed
    /\ \A t \in Thesis : got[t] > 0 => t \in Listed
    /\ \A t \in must : LET w == worker[Home[t]]
                      IN  w.st = "done" \/ place[t] < w.page * PageSize => got[t] > 0

\* The temporary files hold theses that are there, and those of the repositories this
\* task has read hold all that must be there.
Holds(r) == temp[r] \in SUBSET Thesis /\ {t \in must : Home[t] \in Of(r)} \subseteq temp[r]

FilesOK ==
    /\ \A r \in Repo : temp[r] \in SUBSET Thesis => temp[r] \subseteq Listed
    /\ phase \in {"creating", "writing"} => \A c \in Of(repo) : worker[c].st = "done"
    /\ phase \in {"listing", "reading", "creating", "writing"} /\ repo = "dataspace" => Holds("legacy")
    /\ phase \in {"merging", "rewriting"} => Holds("legacy") /\ Holds("dataspace")
    /\ phase = "done" => must \subseteq cache

\* The inductive invariant behind the refinement.
IInv == TypeOK /\ PositionsOK /\ ReadSoFar /\ FilesOK

\* A finished task has every thesis that was in either repository when it began in the
\* cache, whatever requests failed and were repeated, whatever was deposited meanwhile,
\* and whatever files an earlier task left.
SuccessIsComplete == phase = "done" => must \subseteq cache

\* Unless something was deposited since the task began, no thesis is in the lists twice:
\* the page a retry reads is not appended by the request that failed too, nor are the
\* pages after it.
OncePerThesis == Listed = must => \A t \in Thesis : got[t] <= 1

\* "retries on error" (collection.rs): no collection is given up before more requests
\* failed than a page is asked for again.
GivesUpLate == \A c \in Collection : worker[c].st = "failed" => failures > Retries

\* The task keeps what CacheRefresh promises: it replaces the cache by all there was, or
\* leaves it as it is; a cache is torn only while it is rewritten, or after a kill then.
Refresh == INSTANCE CacheRefresh WITH
    source <- Listed,
    job <- IF phase = "rewriting" THEN "writing"
           ELSE IF phase \in {"idle", "done", "unlisted", "aborted"} THEN "idle" ELSE "running"

ImplementsCacheRefresh == Refresh!Spec

\* A task that started ends, with an error or with the cache.
EventuallyEnds ==
    phase = "listing" ~> phase \in {"idle", "done", "unlisted", "aborted"}
============================================================================
