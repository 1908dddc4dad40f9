------------------------- MODULE NumismaticsIndexing -------------------------
(***************************************************************************)
(* Index::NumismaticsJob, Index::NumismaticsBatchJob and                   *)
(* NumismaticsIndexer: the coins of Figgy are listed page by page and read *)
(* one at a time; slices of them are sent to the rebuild collection by     *)
(* jobs of a batch, whose callback commits.  docs/indexing.md has the      *)
(* sneakers workers, which send each edited coin to the production         *)
(* collection, stopped before and started after the rebuild collection is  *)
(* made the production one.                                                *)
(***************************************************************************)
EXTENDS Integers, Sequences, SequencesExt

CONSTANTS
    Coin,         \* the coins that are open and complete in Figgy
    CoinListing,      \* all of them, in the order in which Figgy lists them
    CoinsPerPage,      \* coins on a page
    CoinsPerSlice,    \* coins in a slice
    MaxEdits,     \* bound on the coins edited and withdrawn
    MaxCoinFailures   \* bound on the requests that fail and the processes killed

ASSUME NumismaticsAssumption ==
    /\ CoinListing \in Seq(Coin)
    /\ \A i, j \in DOMAIN CoinListing : CoinListing[i] = CoinListing[j] => i = j
    /\ {CoinsPerPage, CoinsPerSlice} \subseteq Nat \ {0}

VARIABLES
    listed,    \* what Figgy lists
    version,   \* the version of each coin in Figgy
    messages,  \* the edits that sneakers has not seen yet
    stage,     \* of the operator: "before", "indexing", "swapped"
    job,       \* the NumismaticsJob: how far it is, its page and the coins it has read
    slices,    \* the NumismaticsBatchJobs of all batches
    batches,   \* the batches whose callback has not run
    collection,      \* what is in the collection of the job, 0 if absent
    committed, \* what readers see of it
    dropped,   \* the coins that were given up with a warning
    moved,     \* was a coin withdrawn while the pages were read?
    edits, coinFailures

coinVars == <<listed, version, messages, stage, job, slices, batches, collection, committed, dropped, moved, edits, coinFailures>>

\* coins: those of the page that are still to be read; more: does a page follow?
At(pc, page, coins, more, docs) == [pc |-> pc, page |-> page, coins |-> coins, more |-> more, docs |-> docs]
StartJob == At("fetch", 1, <<>>, TRUE, <<>>)

CoinInit ==
    /\ listed = CoinListing /\ version = [c \in Coin |-> 1] /\ messages = <<>>
    /\ stage = "before" /\ job = At("none", 0, <<>>, FALSE, <<>>) /\ slices = {} /\ batches = {}
    /\ collection = [c \in Coin |-> 0] /\ committed = collection
    /\ dropped = {} /\ moved = FALSE /\ edits = 0 /\ coinFailures = 0

figgy == <<listed, version, messages, edits>>
index == <<slices, batches, collection, committed>>

---------------------------------------------------------------------------
(* Figgy and sneakers.  A message carries the coin as it is. *)

Doc(c) == [coin |-> c, version |-> version[c]]

Edit(c) ==
    /\ edits < MaxEdits /\ Contains(listed, c)
    /\ version' = [version EXCEPT ![c] = @ + 1]
    /\ messages' = Append(messages, [coin |-> c, version |-> version'[c]])
    /\ edits' = edits + 1
    /\ UNCHANGED <<listed, stage, job, index, dropped, moved, coinFailures>>

\* The coins that follow move up; what sneakers does with a deletion is left out.
WithdrawCoin(k) ==
    /\ edits < MaxEdits
    /\ listed' = RemoveAt(listed, k)
    /\ moved' = (moved \/ job.pc \in {"fetch", "read"})
    /\ edits' = edits + 1
    /\ UNCHANGED <<version, messages, stage, job, index, dropped, coinFailures>>

\* Sneakers sends to the production collection, which is another one at first.
Sneakers ==
    /\ stage \in {"before", "swapped"} /\ messages # <<>>
    /\ messages' = Tail(messages)
    /\ collection' = IF stage = "swapped" THEN [collection EXCEPT ![Head(messages).coin] = Head(messages).version] ELSE collection
    /\ UNCHANGED <<listed, version, stage, job, slices, batches, committed, dropped, moved, edits, coinFailures>>

\* The operator stops sneakers, then runs rake numismatics:index:full.
Enqueue ==
    /\ stage = "before"
    /\ stage' = "indexing" /\ job' = StartJob
    /\ UNCHANGED <<figgy, index, dropped, moved, coinFailures>>

\* The aliases are swapped when the jobs are done, then sneakers is started.
Swap ==
    /\ stage = "indexing" /\ job.pc = "done" /\ batches = {}
    /\ stage' = "swapped"
    /\ UNCHANGED <<figgy, job, index, dropped, moved, coinFailures>>

---------------------------------------------------------------------------
(* The NumismaticsJob. *)

Part(seq, size, n) == SubSeq(seq, (n - 1) * size + 1, IF Len(seq) < n * size THEN Len(seq) ELSE n * size)

FetchPage ==
    /\ job.pc = "fetch"
    /\ job' = At("read", job.page, Part(listed, CoinsPerPage, job.page), Len(listed) > job.page * CoinsPerPage, job.docs)
    /\ UNCHANGED <<figgy, stage, index, dropped, moved, coinFailures>>

ReadCoin ==
    /\ job.pc = "read" /\ job.coins # <<>>
    /\ job' = [job EXCEPT !.coins = Tail(@), !.docs = Append(@, Doc(Head(job.coins)))]
    /\ UNCHANGED <<figgy, stage, index, dropped, moved, coinFailures>>

\* A coin that Figgy does not serve is passed over with a warning.
PassOver ==
    /\ job.pc = "read" /\ job.coins # <<>> /\ coinFailures < MaxCoinFailures
    /\ job' = [job EXCEPT !.coins = Tail(@)]
    /\ dropped' = dropped \cup {Head(job.coins)} /\ coinFailures' = coinFailures + 1
    /\ UNCHANGED <<figgy, stage, index, moved>>

NextPage ==
    /\ job.pc = "read" /\ job.coins = <<>> /\ job.more
    /\ job' = At("fetch", job.page + 1, <<>>, TRUE, job.docs)
    /\ UNCHANGED <<figgy, stage, index, dropped, moved, coinFailures>>

\* each_slice
Slices(docs) == {Part(docs, CoinsPerSlice, n) : n \in 1 .. ((Len(docs) + CoinsPerSlice - 1) \div CoinsPerSlice)}

\* The jobs of a batch are pushed at the end of its block.  Each is sent at once, or, once Solr
\* has refused that, one coin at a time: left are the coins that follow.
PushBatch ==
    /\ job.pc = "read" /\ job.coins = <<>> /\ ~job.more
    /\ slices' = slices \cup
          {[batch |-> coinFailures, docs |-> docs, at_once |-> TRUE, left |-> docs] : docs \in Slices(job.docs)}
    /\ batches' = batches \cup {coinFailures}
    /\ job' = At("pushed", 0, <<>>, FALSE, <<>>)
    /\ UNCHANGED <<figgy, stage, collection, committed, dropped, moved, coinFailures>>

Acknowledge ==
    /\ job.pc = "pushed"
    /\ job' = [job EXCEPT !.pc = "done"]
    /\ UNCHANGED <<figgy, stage, index, dropped, moved, coinFailures>>

\* A page that Figgy does not serve is an error of the job, which runs again, as after a kill.
JobRestarts ==
    /\ job.pc \in {"fetch", "read", "pushed"} /\ coinFailures < MaxCoinFailures
    /\ job' = StartJob
    /\ coinFailures' = coinFailures + 1
    /\ UNCHANGED <<figgy, stage, index, dropped, moved>>

---------------------------------------------------------------------------
(* The NumismaticsBatchJobs. *)

Replace(s, t) == slices' = (slices \ {s}) \cup t

SendSlice(s) ==
    /\ s.at_once
    /\ collection' = [c \in Coin |->
                  LET mine == {i \in DOMAIN s.docs : s.docs[i].coin = c}
                  IN  IF mine = {} THEN collection[c] ELSE s.docs[CHOOSE i \in mine : \A j \in mine : j <= i].version]
    /\ Replace(s, {})
    /\ UNCHANGED <<figgy, stage, job, batches, committed, dropped, moved, coinFailures>>

\* Mutant: a slice that Solr refuses is given up.
SliceRefusedForGood(s) ==
    /\ s.at_once /\ coinFailures < MaxCoinFailures
    /\ Replace(s, {}) /\ coinFailures' = coinFailures + 1
    /\ UNCHANGED <<figgy, stage, job, batches, collection, committed, dropped, moved>>

\* RSolr::Error::Http
SliceRefused(s) ==
    /\ s.at_once /\ coinFailures < MaxCoinFailures
    /\ Replace(s, {[s EXCEPT !.at_once = FALSE]}) /\ coinFailures' = coinFailures + 1
    /\ UNCHANGED <<figgy, stage, job, batches, collection, committed, dropped, moved>>

Behind(s) == IF Len(s.left) = 1 THEN {} ELSE {[s EXCEPT !.left = Tail(@)]}

SendCoin(s) ==
    /\ ~s.at_once
    /\ collection' = [collection EXCEPT ![Head(s.left).coin] = Head(s.left).version]
    /\ Replace(s, Behind(s))
    /\ UNCHANGED <<figgy, stage, job, batches, committed, dropped, moved, coinFailures>>

CoinRefused(s) ==
    /\ ~s.at_once /\ coinFailures < MaxCoinFailures
    /\ dropped' = dropped \cup {Head(s.left).coin} /\ coinFailures' = coinFailures + 1
    /\ Replace(s, Behind(s))
    /\ UNCHANGED <<figgy, stage, job, batches, collection, committed, moved>>

\* An error that nobody rescues, or a kill: the slice is sent again, with the coins as they were read.
SliceRestarts(s) ==
    /\ ~s.at_once /\ coinFailures < MaxCoinFailures
    /\ Replace(s, {[s EXCEPT !.at_once = TRUE, !.left = s.docs]}) /\ coinFailures' = coinFailures + 1
    /\ UNCHANGED <<figgy, stage, job, batches, collection, committed, dropped, moved>>

\* on_success of the batch.
OnSuccess(b) ==
    /\ b \in batches /\ \A s \in slices : s.batch # b
    /\ committed' = collection
    /\ batches' = batches \ {b}
    /\ UNCHANGED <<figgy, stage, job, slices, collection, dropped, moved, coinFailures>>

---------------------------------------------------------------------------

Job == FetchPage \/ ReadCoin \/ PassOver \/ NextPage \/ PushBatch \/ Acknowledge \/ JobRestarts
BatchJob(s) == SendSlice(s) \/ SliceRefused(s) \/ SendCoin(s) \/ CoinRefused(s) \/ SliceRestarts(s)

CoinNext ==
    \/ \E c \in Coin : Edit(c)
    \/ \E k \in DOMAIN listed : WithdrawCoin(k)
    \/ Sneakers \/ Enqueue \/ Swap
    \/ Job
    \/ \E s \in slices : BatchJob(s)
    \/ \E b \in batches : OnSuccess(b)

CoinSpec == CoinInit /\ [][CoinNext]_coinVars

---------------------------------------------------------------------------
(* Properties. *)

\* The coins the job answers for: those that are listed and were not given up with a warning, if
\* none was withdrawn while the pages were read, which makes a page begin further on.
Due == IF moved THEN {} ELSE {c \in Coin : Contains(listed, c)} \ dropped

\* When the collection goes into production readers see every coin there, and "any updates
\* that come through after the full index has been generated will be included in the new index
\* and not lost": once sneakers has caught up every coin is as it is in Figgy, whatever was
\* killed, run twice, refused or cut into pages and slices, although slices carry what was read
\* long before and are sent again.
CoinsUpToDate ==
    stage = "swapped" =>
        \A c \in Due : committed[c] # 0 /\ (messages = <<>> => collection[c] = version[c])
=============================================================================
