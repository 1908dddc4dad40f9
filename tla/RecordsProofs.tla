--------------------------- MODULE RecordsProofs ---------------------------
(***************************************************************************)
(* The records of Figgy and of DSpace, whatever they are and however they  *)
(* are cut into pages, chunks and slices: the catalog takes a harvest of   *)
(* ephemera whole, and a listing that does not change is read whole; the   *)
(* coins of a collection that goes into production are those of Figgy; a   *)
(* thesis is offered where all its fields say, and from the day on which   *)
(* its embargo lifts, and stays the same when it moves; a loan and a       *)
(* private item change nothing in the holdings.                            *)
(***************************************************************************)
EXTENDS Records, SequenceTheorems, WellFoundedInduction, TLAPS

\* A set of numbers has a least one.
LEMMA LeastExists == ASSUME NEW T, T \subseteq Nat, T # {}
                     PROVE  \E x \in T : \A y \in T : x <= y
<1> DEFINE R == {p \in Nat \X Nat : p[1] < p[2]}
<1>1. IsWellFoundedOn(R, Nat)
  BY NatLessThanWellFounded DEF OpToRel
<1>2. \A x, y \in Nat : <<y, x>> \in R <=> y < x
  OBVIOUS
<1> HIDE DEF R
<1>3. PICK x \in T : \A y \in T : ~(<<y, x>> \in R)
  BY <1>1, WFMin
<1>4. \A y \in T : ~(y < x)
  BY <1>2, <1>3
<1> QED
  BY <1>4

---------------------------------------------------------------------------
(* The ephemera. *)

Document == {FolderDocument(Item[f]) : f \in Folder}

HarvestType ==
    /\ listing \in Seq(Folder) /\ ids \in Seq(Folder) /\ docs \in Seq(Document)
    /\ phase \in {"idle", "listing", "reading", "posting", "failed", "succeeded"}
    /\ page \in Nat /\ total \in Nat

\* The documents made so far are those of the first folders listed.
DocsFollowIds ==
    /\ Len(docs) <= Len(ids)
    /\ \A i \in 1..Len(docs) : docs[i] = FolderDocument(Item[ids[i]])
    /\ phase = "listing" => docs = <<>>
    /\ phase = "posting" => Len(docs) = Len(ids)

Upto(p) == IF p * PerPage < Len(listing) THEN p * PerPage ELSE Len(listing)

\* The pages read so far are the beginning of the listing.
PagesFollowListing ==
    quiet =>
       /\ phase = "listing" =>
             /\ ids = SubSeq(listing, 1, Upto(page))
             /\ page # 0 => page < total /\ total = Pages
       /\ phase \in {"reading", "posting", "succeeded"} => ids = listing

EphemeraInv == HarvestType /\ DocsFollowIds /\ PagesFollowListing

\* The pages cover the listing, and no page but the last is short of it.
LEMMA PagesCover ==
    ASSUME NEW l \in Nat, NEW p \in Nat \ {0}, NEW n \in Nat
    PROVE  LET q == (l + p - 1) \div p
           IN  /\ q \in Nat
               /\ n >= q => n * p >= l
               /\ n < q => n * p < l
<1> DEFINE q == (l + p - 1) \div p
           r == (l + p - 1) % p
<1>1. /\ q \in Int /\ r \in 0..(p - 1) /\ l + p - 1 = p * q + r
  BY Z3
<1>2. q >= 0
  <2>1. SUFFICES ASSUME q <= -1 PROVE FALSE
    BY <1>1, SMT
  <2>2. p * q <= p * (-1)
    BY <2>1, <1>1, Z3
  <2> QED BY <1>1, <2>2, Z3
<1>3. ASSUME n >= q PROVE n * p >= l
  <2>1. p * n >= p * q
    BY <1>3, <1>1, <1>2, Z3
  <2> QED BY <1>1, <2>1, Z3
<1>4. ASSUME n < q PROVE n * p < l
  <2>1. p * q >= p * (n + 1)
    BY <1>4, <1>1, <1>2, Z3
  <2> QED BY <1>1, <2>1, Z3
<1> QED BY <1>1, <1>2, <1>3, <1>4

\* Any page of the listing is a sequence of folders.
LEMMA PageType ==
    ASSUME HarvestType, NEW n \in Nat \ {0} PROVE PageOf(n) \in Seq(Folder)
<1>1. Len(listing) \in Nat /\ PerPage \in Nat \ {0} /\ listing \in Seq(Folder)
  BY EphemeraAssumption DEF EphemeraAssumption, HarvestType
<1>2. (n - 1) * PerPage \in Nat /\ n * PerPage \in Nat
  BY <1>1, Z3
<1> DEFINE from == (n - 1) * PerPage + 1
           to == IF n * PerPage < Len(listing) THEN n * PerPage ELSE Len(listing)
<1>3. from \in Nat /\ from >= 1 /\ to \in Nat /\ to <= Len(listing)
  BY <1>1, <1>2
<1> HIDE DEF from, to
<1>4. SubSeq(listing, from, to) \in Seq(Folder)
  <2>1. \A i \in from..to : listing[i] \in Folder
    BY <1>1, <1>3
  <2> QED BY <1>1, <1>3, <2>1
<1> QED BY <1>4 DEF PageOf, from, to

\* Reading the next page adds the next part of the listing.
LEMMA PageExtends ==
    ASSUME HarvestType, NEW p \in Nat, p * PerPage < Len(listing) \/ p = 0
    PROVE  /\ PageOf(p + 1) \in Seq(Folder)
           /\ SubSeq(listing, 1, Upto(p)) \o PageOf(p + 1) = SubSeq(listing, 1, Upto(p + 1))
<1> DEFINE l == Len(listing)
<1>1. l \in Nat /\ PerPage \in Nat \ {0} /\ listing \in Seq(Folder)
  BY EphemeraAssumption DEF EphemeraAssumption, HarvestType
<1>2. p * PerPage \in Nat /\ (p + 1) * PerPage = p * PerPage + PerPage
  BY <1>1, Z3
<1>3. p * PerPage <= l
  BY <1>1, <1>2, Z3
<1>4. Upto(p) = p * PerPage
  BY <1>1, <1>2, <1>3 DEF Upto
<1>5. Upto(p + 1) \in Upto(p)..l
  BY <1>1, <1>2, <1>3, <1>4 DEF Upto
<1>6. PageOf(p + 1) = SubSeq(listing, Upto(p) + 1, Upto(p + 1))
  <2>1. ((p + 1) - 1) * PerPage = p * PerPage
    BY <1>1, Z3
  <2> QED BY <1>2, <1>4, <2>1 DEF PageOf, Upto
<1>7. Upto(p) \in 0..l
  BY <1>1, <1>2, <1>3, <1>4
<1>8. PageOf(p + 1) \in Seq(Folder)
  BY PageType
<1>9. SubSeq(listing, 1, Upto(p)) \o SubSeq(listing, Upto(p) + 1, Upto(p + 1))
         = SubSeq(listing, 1, Upto(p + 1))
  <2>1. /\ 1 \in 1..Len(listing) + 1 /\ Upto(p) \in 1 - 1..Len(listing)
        /\ Upto(p + 1) \in Upto(p)..Len(listing)
    BY <1>1, <1>5, <1>7
  <2> QED BY <1>1, <2>1, ConcatAdjacentSubSeq
<1> QED BY <1>6, <1>8, <1>9

---------------------------------------------------------------------------
(* The invariant. *)

LEMMA InitEphemera == Init => EphemeraInv
<1> SUFFICES ASSUME Init PROVE EphemeraInv
  OBVIOUS
<1>1. HarvestType
  BY EphemeraAssumption DEF EphemeraAssumption, Init, HarvestType
<1>2. DocsFollowIds
  BY DEF Init, DocsFollowIds
<1>3. PagesFollowListing
  BY DEF Init, PagesFollowListing
<1> QED BY <1>1, <1>2, <1>3 DEF EphemeraInv

\* The librarians' steps leave the task alone, and end the quiet.
LEMMA FiggyStep ==
    ASSUME EphemeraInv, listing' \in Seq(Folder), UNCHANGED task, quiet' = FALSE
    PROVE  EphemeraInv'
<1>1. HarvestType'
  BY DEF EphemeraInv, HarvestType, task
<1>2. DocsFollowIds'
  BY DEF EphemeraInv, DocsFollowIds, task
<1>3. PagesFollowListing'
  BY DEF PagesFollowListing
<1> QED BY <1>1, <1>2, <1>3 DEF EphemeraInv

LEMMA ReadPageStep == EphemeraInv /\ ReadPage => EphemeraInv'
<1> SUFFICES ASSUME EphemeraInv, ReadPage PROVE EphemeraInv'
  OBVIOUS
<1> USE DEF EphemeraInv
<1>0. Len(listing) \in Nat /\ PerPage \in Nat \ {0} /\ page \in Nat /\ total \in Nat
  BY EphemeraAssumption DEF EphemeraAssumption, HarvestType
<1>1. PageOf(page + 1) \in Seq(Folder)
  BY <1>0, PageType
<1>2. /\ Pages \in Nat
      /\ \A n \in Nat : /\ n >= Pages => n * PerPage >= Len(listing)
                        /\ n < Pages => n * PerPage < Len(listing)
  BY <1>0, PagesCover DEF Pages
<1>3. HarvestType'
  BY <1>0, <1>1, <1>2, ConcatProperties DEF ReadPage, HarvestType
<1>4. DocsFollowIds'
  BY <1>3, EmptySeq DEF ReadPage, DocsFollowIds, HarvestType
<1>5. ASSUME quiet PROVE ids' = SubSeq(listing, 1, Upto(page + 1))
  <2>1. page * PerPage < Len(listing) \/ page = 0
    BY <1>0, <1>2, <1>5 DEF PagesFollowListing, ReadPage
  <2>2. ids = SubSeq(listing, 1, Upto(page))
    BY <1>5 DEF PagesFollowListing, ReadPage
  <2> QED BY <1>0, <2>1, <2>2, PageExtends DEF ReadPage
<1>6. ASSUME quiet, page + 1 >= total' PROVE ids' = listing
  <2>1. total' = Pages
    BY <1>6 DEF ReadPage, PagesFollowListing
  <2>2. (page + 1) * PerPage >= Len(listing)
    BY <1>0, <1>2, <1>6, <2>1
  <2>3. Upto(page + 1) = Len(listing)
    <3>1. (page + 1) * PerPage \in Nat
      BY <1>0, Z3
    <3> QED BY <1>0, <2>2, <3>1 DEF Upto
  <2> QED BY <1>5, <1>6, <2>3, SubSeqFull DEF HarvestType
<1>7. PagesFollowListing'
  <2> SUFFICES ASSUME quiet' PROVE PagesFollowListing'
    BY DEF PagesFollowListing
  <2>1. /\ quiet /\ listing' = listing /\ page' = page + 1
        /\ Upto(page)' = Upto(page + 1) /\ Pages' = Pages
    BY DEF ReadPage, Upto, Pages
  <2>2. total' = Pages
    BY <2>1 DEF ReadPage, PagesFollowListing
  <2>3. CASE page + 1 < total'
    <3>1. phase' = "listing"
      BY <2>1, <2>3 DEF ReadPage
    <3>2. ids' = SubSeq(listing', 1, Upto(page)')
      BY <1>5, <2>1
    <3> QED BY <2>1, <2>2, <2>3, <3>1, <3>2 DEF PagesFollowListing
  <2>4. CASE ~(page + 1 < total')
    <3>1. phase' = "reading"
      BY <2>1, <2>4 DEF ReadPage
    <3>2. ids' = listing'
      BY <1>0, <1>2, <1>6, <2>1, <2>2, <2>4
    <3> QED BY <3>1, <3>2 DEF PagesFollowListing
  <2> QED BY <2>3, <2>4
<1> QED BY <1>3, <1>4, <1>7

LEMMA ReadFolderStep == EphemeraInv /\ ReadFolder => EphemeraInv'
<1> SUFFICES ASSUME EphemeraInv, ReadFolder PROVE EphemeraInv'
  OBVIOUS
<1> USE DEF EphemeraInv
<1> DEFINE doc == FolderDocument(Item[ids[Len(docs) + 1]])
<1>0. docs \in Seq(Document) /\ ids \in Seq(Folder) /\ Len(docs) \in Nat /\ Len(ids) \in Nat
  BY DEF HarvestType
<1>1. doc \in Document
  BY <1>0 DEF ReadFolder, Document
<1>2. docs' = docs \/ docs' = Append(docs, doc)
  BY DEF ReadFolder
<1> HIDE DEF doc
<1>3. HarvestType'
  BY <1>0, <1>1, <1>2, AppendProperties DEF ReadFolder, HarvestType
<1>4. DocsFollowIds'
  <2>1. Len(docs') <= Len(ids')
    BY <1>0, <1>1, <1>2, AppendProperties DEF ReadFolder, DocsFollowIds
  <2>2. ASSUME NEW i \in 1..Len(docs') PROVE docs'[i] = FolderDocument(Item[ids'[i]])
    <3>1. CASE i \in 1..Len(docs)
      <4>1. docs'[i] = docs[i]
        BY <1>0, <1>1, <1>2, <3>1, AppendProperties
      <4> QED BY <3>1, <4>1 DEF ReadFolder, DocsFollowIds
    <3>2. CASE i = Len(docs) + 1
      <4>1. docs'[i] = doc
        BY <1>0, <1>1, <1>2, <2>2, <3>2, AppendProperties
      <4> QED BY <3>2, <4>1 DEF ReadFolder, doc
    <3> QED BY <1>0, <1>1, <1>2, <2>2, <3>1, <3>2, AppendProperties
  <2>3. phase' \in {"reading", "failed"}
    BY DEF ReadFolder
  <2> QED BY <2>1, <2>2, <2>3 DEF DocsFollowIds
<1>5. PagesFollowListing'
  BY DEF ReadFolder, PagesFollowListing, Upto, Pages
<1> QED BY <1>3, <1>4, <1>5

\* The steps that read nothing.
LEMMA OtherStep ==
    EphemeraInv /\ (Start \/ RefuseFolder \/ RequestFails \/ CombineChunks \/ Post \/ PostRefused)
       => EphemeraInv'
<1> SUFFICES ASSUME EphemeraInv,
                    Start \/ RefuseFolder \/ RequestFails \/ CombineChunks \/ Post \/ PostRefused
             PROVE  EphemeraInv'
  OBVIOUS
<1> USE DEF EphemeraInv
<1>1. HarvestType'
  <2>1. CASE Start
    BY <2>1, EmptySeq DEF HarvestType, Start
  <2>2. CASE RefuseFolder \/ RequestFails
    BY <2>2 DEF HarvestType, RefuseFolder, RequestFails
  <2>3. CASE CombineChunks \/ Post \/ PostRefused
    BY <2>3 DEF HarvestType, CombineChunks, Post, PostRefused
  <2> QED BY <2>1, <2>2, <2>3
<1>2. DocsFollowIds'
  <2>1. CASE Start
    BY <2>1 DEF Start, DocsFollowIds
  <2>2. CASE RefuseFolder \/ RequestFails \/ CombineChunks \/ Post \/ PostRefused
    BY <2>2 DEF DocsFollowIds, RefuseFolder, RequestFails, CombineChunks, Post, PostRefused
  <2> QED BY <2>1, <2>2
<1>3. PagesFollowListing'
  <2>1. CASE Start
    <3>1. ids' = <<>> /\ page' = 0 /\ listing' = listing /\ phase' = "listing"
      BY <2>1 DEF Start
    <3>2. Upto(page)' = 0
      BY <3>1, EphemeraAssumption DEF EphemeraAssumption, Upto, HarvestType
    <3>3. SubSeq(listing', 1, Upto(page)') = <<>>
      BY <3>1, <3>2, SubSeqEmpty DEF HarvestType
    <3> QED BY <3>1, <3>3 DEF PagesFollowListing
  <2>2. CASE RefuseFolder \/ RequestFails
    BY <2>2 DEF PagesFollowListing, RefuseFolder, RequestFails, Upto, Pages
  <2>3. CASE CombineChunks \/ Post \/ PostRefused
    BY <2>3 DEF PagesFollowListing, CombineChunks, Post, PostRefused, Upto, Pages
  <2> QED BY <2>1, <2>2, <2>3
<1> QED BY <1>1, <1>2, <1>3

LEMMA EphemeraStep == EphemeraInv /\ [Next]_ephemeraVars => EphemeraInv'
<1> SUFFICES ASSUME EphemeraInv, [Next]_ephemeraVars PROVE EphemeraInv'
  OBVIOUS
<1>0. listing \in Seq(Folder)
  BY DEF EphemeraInv, HarvestType
<1>1. ASSUME NEW k \in 1..Len(listing), Withdraw(k) PROVE EphemeraInv'
  <2>1. listing' = RemoveAt(listing, k)
    BY <1>1 DEF Withdraw
  <2>2. SubSeq(listing, 1, k - 1) \in Seq(Folder) /\ SubSeq(listing, k + 1, Len(listing)) \in Seq(Folder)
    BY <1>0
  <2>3. listing' \in Seq(Folder)
    BY <2>1, <2>2, ConcatProperties DEF RemoveAt
  <2> QED BY <1>1, <2>3, FiggyStep DEF Withdraw
<1>2. ASSUME NEW f \in Folder, NEW k \in 1..(Len(listing) + 1), Complete(f, k) PROVE EphemeraInv'
  <2>1. listing' = InsertAt(listing, k, f)
    BY <1>2 DEF Complete
  <2>2. /\ SubSeq(listing, 1, k - 1) \in Seq(Folder) /\ <<f>> \in Seq(Folder)
        /\ SubSeq(listing, k, Len(listing)) \in Seq(Folder)
    BY <1>0
  <2>3. listing' \in Seq(Folder)
    BY <2>1, <2>2, ConcatProperties DEF InsertAt
  <2> QED BY <1>2, <2>3, FiggyStep DEF Complete
<1>3. CASE ReadPage
  BY <1>3, ReadPageStep
<1>4. CASE ReadFolder
  BY <1>4, ReadFolderStep
<1>5. CASE Start \/ RefuseFolder \/ RequestFails \/ CombineChunks \/ Post \/ PostRefused
  BY <1>5, OtherStep
<1>6. CASE UNCHANGED ephemeraVars
  BY <1>6 DEF ephemeraVars, task, EphemeraInv, HarvestType, DocsFollowIds, PagesFollowListing, Upto, Pages
<1> QED BY <1>1, <1>2, <1>3, <1>4, <1>5, <1>6 DEF Next

LEMMA EphemeraAlways == Spec => []EphemeraInv
  BY InitEphemera, EphemeraStep, PTL DEF Spec

---------------------------------------------------------------------------

\* Read page by page, a listing that stays the same is read whole and once
\* (read_ephemera_folders).
THEOREM ListingRead == Spec => []QuietListingIsWhole
<1>1. EphemeraInv => QuietListingIsWhole
  BY DEF EphemeraInv, PagesFollowListing, QuietListingIsWhole
<1> QED BY <1>1, EphemeraAlways, PTL

\* What a post changes in Solr, it changes for every folder listed (chunk_read_id and
\* json_ephemera_document give up a harvest that misses a folder).
THEOREM HarvestPosted == Spec => WholeHarvest
<1> DEFINE Whole == solr' # solr /\ Len(ids) <= ChunkSize =>
                       /\ Len(docs) = Len(ids)
                       /\ \A i \in DOMAIN ids : solr'[ids[i]] = FolderDocument(Item[ids[i]])
<1>1. ASSUME EphemeraInv, Next PROVE Whole
  <2> SUFFICES ASSUME solr' # solr, Len(ids) <= ChunkSize PROVE Whole
    OBVIOUS
  <2> USE DEF EphemeraInv
  <2>1. Post
    BY <1>1 DEF Next, Withdraw, Complete, Start, ReadPage, ReadFolder, RefuseFolder, RequestFails,
                CombineChunks, PostRefused
  <2>2. Len(docs) = Len(ids) /\ ids \in Seq(Folder) /\ solr' = Indexed(Len(docs))
    BY <1>1, <2>1 DEF Post, DocsFollowIds, HarvestType
  <2>3. ASSUME NEW i \in DOMAIN ids PROVE solr'[ids[i]] = FolderDocument(Item[ids[i]])
    <3> DEFINE at == {j \in 1..Len(docs) : ids[j] = ids[i]}
               j0 == CHOOSE j \in at : TRUE
    <3>1. ids[i] \in Folder /\ i \in at
      BY <2>2, <2>3
    <3>2. j0 \in at
      BY <3>1
    <3>3. solr'[ids[i]] = docs[j0]
      BY <2>2, <3>1 DEF Indexed
    <3> HIDE DEF j0
    <3>4. docs[j0] = FolderDocument(Item[ids[j0]]) /\ ids[j0] = ids[i]
      BY <1>1, <3>2 DEF DocsFollowIds
    <3> QED BY <3>3, <3>4
  <2> QED BY <2>2, <2>3
<1>2. ASSUME EphemeraInv, [Next]_ephemeraVars PROVE [Whole]_ephemeraVars
  BY <1>1, <1>2
<1> QED BY <1>2, EphemeraAlways, PTL DEF Spec, WholeHarvest

---------------------------------------------------------------------------
(* The coins.  What is read of a coin is what Figgy has unless an edit of it   *)
(* is on its way, and what the job has read goes through slices to readers.    *)

\* A coin as it was at some time.
CoinDoc == [coin : Coin, version : Nat \ {0}]

JobPC == {"none", "fetch", "read", "pushed", "done"}
Slice == [batch : Nat, docs : Seq(CoinDoc), at_once : BOOLEAN, left : Seq(CoinDoc)]

CoinTypes ==
    /\ listed \in Seq(Coin) /\ version \in [Coin -> Nat \ {0}] /\ messages \in Seq(CoinDoc)
    /\ stage \in {"before", "indexing", "swapped"}
    /\ job \in [pc : JobPC, page : Nat, coins : Seq(Coin), more : BOOLEAN, docs : Seq(CoinDoc)]
    /\ slices \subseteq Slice
    /\ collection \in [Coin -> Nat] /\ committed \in [Coin -> Nat] /\ coinFailures \in Nat

\* A slice still has coins to send, and is sent whole again from the start.
SlicesOK ==
    \A s \in slices :
        /\ s.batch \in batches /\ s.left # <<>>
        /\ s.at_once => s.left = s.docs
        /\ \A i \in DOMAIN s.left : \E j \in DOMAIN s.docs : s.left[i] = s.docs[j]

\* The stages of the operator.
StagesOK ==
    /\ stage = "before" => slices = {} /\ job.pc = "none" /\ \A c \in Coin : collection[c] = 0
    /\ stage = "swapped" => job.pc = "done" /\ slices = {} /\ batches = {}
    /\ job.pc \notin {"fetch", "read"} => job.docs = <<>>

\* Sneakers has yet to see an edit of c.
Pending(c) == \E i \in DOMAIN messages : messages[i].coin = c

\* What was read of a coin is what Figgy has, or an edit of it will come.
Fresh(c, v) == v = version[c] \/ Pending(c)

AllFresh ==
    /\ \A i \in DOMAIN job.docs : Fresh(job.docs[i].coin, job.docs[i].version)
    /\ \A s \in slices : \A i \in DOMAIN s.docs : Fresh(s.docs[i].coin, s.docs[i].version)
    /\ \A c \in Coin : collection[c] # 0 => Fresh(c, collection[c])

\* The last edit of a coin carries the coin as it is.
LastIsCurrent ==
    \A i \in DOMAIN messages :
        (\A j \in DOMAIN messages : j > i => messages[j].coin # messages[i].coin)
           => messages[i].version = version[messages[i].coin]

\* The job has read c, or has given it up.
Seen(c) == c \in dropped \/ \E i \in DOMAIN job.docs : job.docs[i].coin = c

\* The job has seen the pages before this one, or will have with the coins of this page.
PagesSeen ==
    /\ job.pc \in {"fetch", "read"} => job.page >= 1
    /\ job.pc = "fetch" /\ ~moved =>
          \A i \in DOMAIN listed : i <= (job.page - 1) * CoinsPerPage => Seen(listed[i])
    /\ job.pc = "read" /\ ~moved =>
          /\ \A i \in DOMAIN listed : i <= job.page * CoinsPerPage =>
                Seen(listed[i]) \/ \E k \in DOMAIN job.coins : job.coins[k] = listed[i]
          /\ ~job.more => Len(listed) <= job.page * CoinsPerPage

\* A slice has c to send.
ToSend(c) == \E s \in slices : \E i \in DOMAIN s.left : s.left[i].coin = c

\* What the job has pushed is seen by readers, or a callback will show it.
PushedIsSent ==
    job.pc \in {"pushed", "done"} =>
        \A c \in Due : committed[c] # 0 \/ (batches # {} /\ (collection[c] # 0 \/ ToSend(c)))

\* What readers see is in the collection.
CommittedIsSent == \A c \in Coin : committed[c] # 0 => collection[c] # 0

CoinInv ==
    /\ CoinTypes /\ SlicesOK /\ StagesOK /\ AllFresh /\ LastIsCurrent
    /\ PagesSeen /\ PushedIsSent /\ CommittedIsSent

\* A part of a sequence has elements of it, and has those at its places.
PartFacts(S, seq, size, n) ==
    LET part == Part(seq, size, n)
        skip == (n - 1) * size
    IN  /\ part \in Seq(S) /\ skip \in Nat /\ n * size = skip + size
        /\ \A i \in DOMAIN part : skip + i \in DOMAIN seq /\ part[i] = seq[skip + i]
        /\ \A i \in DOMAIN seq : skip < i /\ i <= n * size =>
              i - skip \in DOMAIN part /\ part[i - skip] = seq[i]

LEMMA PartOf ==
    ASSUME NEW S, NEW seq \in Seq(S), NEW size \in Nat \ {0}, NEW n \in Nat \ {0}
    PROVE  PartFacts(S, seq, size, n)
<1>1. /\ (n - 1) * size \in Nat /\ n * size = (n - 1) * size + size
      /\ Len(seq) \in Nat /\ DOMAIN seq = 1 .. Len(seq)
  BY Z3
<1> DEFINE from == (n - 1) * size + 1
           to == IF Len(seq) < n * size THEN Len(seq) ELSE n * size
           part == SubSeq(seq, from, to)
<1>2. from \in Int /\ to \in Int /\ from >= 1 /\ to <= Len(seq) /\ to >= 0
  BY <1>1
<1>3. \A i \in from .. to : seq[i] \in S
  BY <1>1, <1>2, ElementOfSeq
<1>4. Part(seq, size, n) = part
  BY DEF Part
<1> HIDE DEF to
<1>5. /\ part \in Seq(S) /\ Len(part) = IF from <= to THEN to - from + 1 ELSE 0
      /\ \A i \in 1 .. to - from + 1 : part[i] = seq[from + i - 1]
  BY <1>2, <1>3, SubSeqProperties
<1>6. DOMAIN part = 1 .. Len(part)
  BY <1>5
<1>7. ASSUME NEW i \in DOMAIN part
      PROVE (n - 1) * size + i \in DOMAIN seq /\ part[i] = seq[(n - 1) * size + i]
  <2>1. from <= to /\ i \in 1 .. to - from + 1
    BY <1>2, <1>5, <1>6
  <2>2. from + i - 1 = (n - 1) * size + i
    BY <1>1, <2>1, <1>2
  <2>3. part[i] = seq[from + i - 1]
    BY <1>5, <2>1
  <2>4. from + i - 1 \in 1 .. Len(seq)
    BY <1>1, <1>2, <2>1
  <2> QED BY <1>1, <2>2, <2>3, <2>4
<1>8. ASSUME NEW i \in DOMAIN seq, (n - 1) * size < i, i <= n * size
      PROVE i - (n - 1) * size \in DOMAIN part /\ part[i - (n - 1) * size] = seq[i]
  <2>1. i <= to
    BY <1>1, <1>8 DEF to
  <2>2. i - (n - 1) * size \in 1 .. to - from + 1 /\ from <= to
    BY <1>1, <1>2, <1>8, <2>1
  <2>3. from + (i - (n - 1) * size) - 1 = i
    BY <1>1, <2>2
  <2> QED BY <1>2, <1>5, <1>6, <2>2, <2>3
<1> QED BY <1>1, <1>4, <1>5, <1>7, <1>8 DEF PartFacts

\* The slices have the documents and nothing else, and none is empty.
LEMMA SlicesCover ==
    ASSUME NEW all \in Seq(CoinDoc)
    PROVE  /\ \A part \in Slices(all) :
                 /\ part \in Seq(CoinDoc) /\ part # <<>>
                 /\ \A i \in DOMAIN part : \E j \in DOMAIN all : part[i] = all[j]
           /\ \A j \in DOMAIN all : \E part \in Slices(all) : \E i \in DOMAIN part : part[i] = all[j]
<1> DEFINE p == CoinsPerSlice
           l == Len(all)
           q == (l + p - 1) \div p
<1>1. p \in Nat \ {0} /\ l \in Nat /\ DOMAIN all = 1 .. l
  BY NumismaticsAssumption DEF NumismaticsAssumption
<1>2. q \in Nat /\ \A n \in Nat : (n >= q => n * p >= l) /\ (n < q => n * p < l)
  BY <1>1, PagesCover
<1>3. Slices(all) = {Part(all, p, n) : n \in 1 .. q}
  BY DEF Slices
<1> HIDE DEF q
<1>0. \A n \in Nat \ {0} : PartFacts(CoinDoc, all, p, n)
  BY <1>1, PartOf
<1>4. ASSUME NEW part \in Slices(all)
      PROVE /\ part \in Seq(CoinDoc) /\ part # <<>>
            /\ \A i \in DOMAIN part : \E j \in DOMAIN all : part[i] = all[j]
  <2>1. PICK n \in 1 .. q : part = Part(all, p, n)
    BY <1>3
  <2>2. n \in Nat \ {0} /\ n - 1 \in Nat /\ n - 1 < q
    BY <1>2, <2>1
  <2>3. (n - 1) * p < l
    BY <1>2, <2>2
  <2>4. /\ part \in Seq(CoinDoc)
        /\ (n - 1) * p \in Nat /\ n * p = (n - 1) * p + p
        /\ \A i \in DOMAIN part : (n - 1) * p + i \in DOMAIN all /\ part[i] = all[(n - 1) * p + i]
        /\ \A i \in DOMAIN all : (n - 1) * p < i /\ i <= n * p => i - (n - 1) * p \in DOMAIN part
    BY <1>0, <2>1, <2>2 DEF PartFacts
  <2>5. (n - 1) * p + 1 \in DOMAIN all /\ (n - 1) * p + 1 <= n * p
    BY <1>1, <2>3, <2>4
  <2>6. (n - 1) * p + 1 - (n - 1) * p \in DOMAIN part
    BY <2>4, <2>5
  <2> QED BY <2>4, <2>6
<1>5. ASSUME NEW j \in DOMAIN all
      PROVE \E part \in Slices(all) : \E i \in DOMAIN part : part[i] = all[j]
  <2> DEFINE n == (j + p - 1) \div p
  <2>1. j \in Nat /\ j >= 1 /\ j <= l
    BY <1>1
  <2>2. n \in Nat /\ \A k \in Nat : (k >= n => k * p >= j) /\ (k < n => k * p < j)
    BY <1>1, <2>1, PagesCover
  <2> HIDE DEF n
  <2>3. n # 0
    <3>1. n * p >= j
      BY <2>2
    <3> QED BY <1>1, <2>1, <3>1
  <2>4. n <= q
    <3>1. SUFFICES ASSUME q < n PROVE FALSE
      BY <1>2, <2>2
    <3>2. q * p < j /\ q * p >= l
      BY <1>2, <2>2, <3>1
    <3>3. q * p \in Nat
      BY <1>1, <1>2, Z3
    <3> QED BY <1>1, <2>1, <3>2, <3>3
  <2>5. (n - 1) * p < j /\ j <= n * p
    <3>1. n - 1 \in Nat /\ n - 1 < n
      BY <2>2, <2>3
    <3>2. n * p \in Nat
      BY <1>1, <2>2, Z3
    <3> QED BY <2>2, <2>1, <3>1, <3>2
  <2>6. \E i \in DOMAIN Part(all, p, n) : Part(all, p, n)[i] = all[j]
    BY <1>0, <2>2, <2>3, <2>5 DEF PartFacts
  <2>7. Part(all, p, n) \in Slices(all)
    BY <1>2, <1>3, <2>2, <2>3, <2>4
  <2> QED BY <2>6, <2>7
<1> QED BY <1>4, <1>5

\* A set of places has a last one.
LEMMA LastExists ==
    ASSUME NEW l \in Nat, NEW T, T \subseteq 1 .. l, T # {}
    PROVE  \E x \in T : \A y \in T : y <= x
<1> DEFINE U == {l - x : x \in T}
<1>1. U \subseteq Nat /\ U # {}
  <2>1. ASSUME NEW x \in T PROVE l - x \in Nat
    OBVIOUS
  <2> QED BY ONLY <2>1, T # {}
<1>2. PICK u \in U : \A v \in U : u <= v
  <2> HIDE DEF U
  <2> QED BY <1>1, LeastExists
<1>3. PICK x \in T : u = l - x
  OBVIOUS
<1>4. ASSUME NEW y \in T PROVE y <= x
  <2>1. l - x <= l - y
    BY <1>2, <1>3
  <2> QED BY <2>1
<1> QED BY <1>4

USE DEF JobPC

\* The types of the fields.
LEMMA CoinFields ==
    ASSUME CoinTypes
    PROVE  /\ \A m \in CoinDoc : m.coin \in Coin /\ m.version \in Nat /\ m.version # 0
           /\ job.pc \in JobPC /\ job.page \in Nat /\ job.coins \in Seq(Coin) /\ job.more \in BOOLEAN
           /\ job.docs \in Seq(CoinDoc) /\ \A i \in DOMAIN job.docs : job.docs[i] \in CoinDoc
           /\ \A s \in slices :
                 /\ s.batch \in Nat /\ s.docs \in Seq(CoinDoc) /\ s.left \in Seq(CoinDoc)
                 /\ \A i \in DOMAIN s.docs : s.docs[i] \in CoinDoc
                 /\ \A i \in DOMAIN s.left : s.left[i] \in CoinDoc
<1>1. \A m \in CoinDoc : m.coin \in Coin /\ m.version \in Nat /\ m.version # 0
  BY DEF CoinDoc
<1>2. \A q \in Seq(CoinDoc) : \A i \in DOMAIN q : q[i] \in CoinDoc
  OBVIOUS
<1>3. /\ job.pc \in JobPC /\ job.page \in Nat /\ job.coins \in Seq(Coin) /\ job.more \in BOOLEAN
      /\ job.docs \in Seq(CoinDoc)
  BY DEF CoinTypes
<1>4. ASSUME NEW s \in slices PROVE s.batch \in Nat /\ s.docs \in Seq(CoinDoc) /\ s.left \in Seq(CoinDoc)
  BY DEF CoinTypes, Slice
<1> QED BY <1>1, <1>2, <1>3, <1>4

LEMMA InitCoins == CoinInit => CoinInv
<1> SUFFICES ASSUME CoinInit PROVE CoinInv
  OBVIOUS
<1> USE DEF CoinInit, At
<1>1. CoinTypes
  <2>1. listed \in Seq(Coin) /\ version \in [Coin -> Nat \ {0}] /\ messages \in Seq(CoinDoc)
    BY NumismaticsAssumption, EmptySeq DEF NumismaticsAssumption
  <2> QED BY <2>1, EmptySeq DEF CoinTypes
<1>2. SlicesOK /\ StagesOK
  BY DEF SlicesOK, StagesOK
<1>3. AllFresh /\ LastIsCurrent
  BY EmptySeq DEF AllFresh, LastIsCurrent
<1>4. PagesSeen /\ PushedIsSent /\ CommittedIsSent
  BY DEF PagesSeen, PushedIsSent, CommittedIsSent
<1> QED BY <1>1, <1>2, <1>3, <1>4 DEF CoinInv

LEMMA EditStep == ASSUME CoinInv, NEW c \in Coin, Edit(c) PROVE CoinInv'
<1> USE DEF CoinInv, Edit, figgy, index
<1> DEFINE m == [coin |-> c, version |-> version[c] + 1]
<1>1. /\ m \in CoinDoc /\ messages \in Seq(CoinDoc) /\ messages' = Append(messages, m)
      /\ version' = [version EXCEPT ![c] = version[c] + 1] /\ version \in [Coin -> Nat \ {0}]
  BY DEF CoinTypes, CoinDoc
<1> HIDE DEF m
<1>2. /\ messages' \in Seq(CoinDoc) /\ Len(messages') = Len(messages) + 1
      /\ Len(messages) \in Nat /\ DOMAIN messages = 1 .. Len(messages)
      /\ DOMAIN messages' = 1 .. Len(messages) + 1
      /\ \A i \in 1 .. Len(messages) : messages'[i] = messages[i]
      /\ messages'[Len(messages) + 1] = m
  BY <1>1, AppendProperties, LenProperties
<1>3. m.coin = c /\ m.version = version'[c]
  BY <1>1 DEF m
<1>4. CoinTypes'
  BY <1>1, <1>2 DEF CoinTypes
<1>5. SlicesOK' /\ StagesOK'
  BY DEF SlicesOK, StagesOK
<1>6. ASSUME NEW d \in Coin, NEW v, Fresh(d, v) PROVE Fresh(d, v)'
  <2>1. CASE d = c
    BY <1>2, <1>3, <2>1 DEF Fresh, Pending
  <2>2. CASE d # c
    <3>1. version'[d] = version[d]
      BY <1>1, <2>2
    <3>2. Pending(d) => Pending(d)'
      BY <1>2 DEF Pending
    <3> QED BY <1>6, <3>1, <3>2 DEF Fresh
  <2> QED BY <2>1, <2>2
<1>7. AllFresh'
  <2>1. /\ \A i \in DOMAIN job.docs : job.docs[i].coin \in Coin
        /\ \A s \in slices : \A i \in DOMAIN s.docs : s.docs[i].coin \in Coin
    BY CoinFields
  <2> QED BY <1>6, <2>1 DEF AllFresh
<1>8. LastIsCurrent'
  <2> SUFFICES ASSUME NEW i \in DOMAIN messages',
                      \A j \in DOMAIN messages' : j > i => messages'[j].coin # messages'[i].coin
               PROVE  messages'[i].version = version'[messages'[i].coin]
    BY DEF LastIsCurrent
  <2>1. CASE i = Len(messages) + 1
    BY <1>2, <1>3, <2>1
  <2>2. CASE i # Len(messages) + 1
    <3>1. i \in 1 .. Len(messages) /\ messages'[i] = messages[i] /\ messages[i] \in CoinDoc
      BY <1>1, <1>2, <2>2
    <3>2. messages[i].coin # c
      BY <1>2, <1>3, <3>1
    <3>3. ASSUME NEW j \in DOMAIN messages, j > i PROVE messages[j].coin # messages[i].coin
      BY <1>2, <3>1, <3>3
    <3>4. messages[i].version = version[messages[i].coin]
      BY <1>2, <3>1, <3>3 DEF LastIsCurrent
    <3>5. messages[i].coin \in Coin
      BY <3>1, CoinFields
    <3> QED BY <1>1, <3>1, <3>2, <3>4, <3>5
  <2> QED BY <2>1, <2>2
<1>9. PagesSeen' /\ PushedIsSent' /\ CommittedIsSent'
  BY DEF PagesSeen, PushedIsSent, CommittedIsSent, Seen, Due, ToSend
<1> QED BY <1>4, <1>5, <1>7, <1>8, <1>9

LEMMA WithdrawStep == ASSUME CoinInv, NEW k \in DOMAIN listed, WithdrawCoin(k) PROVE CoinInv'
<1> USE DEF CoinInv, WithdrawCoin, figgy, index
<1>1. listed \in Seq(Coin) /\ Len(listed) \in Nat /\ k \in 1 .. Len(listed)
  <2>1. listed \in Seq(Coin)
    BY DEF CoinTypes
  <2> QED BY <2>1, LenProperties
<1> DEFINE a == SubSeq(listed, 1, k - 1)
           b == SubSeq(listed, k + 1, Len(listed))
<1>2. /\ a \in Seq(Coin) /\ \A i \in 1 .. Len(a) : \E j \in 1 .. Len(listed) : a[i] = listed[j]
  BY <1>1, SubSeqProperties
<1>3. /\ b \in Seq(Coin) /\ \A i \in 1 .. Len(b) : \E j \in 1 .. Len(listed) : b[i] = listed[j]
  <2>1. \A i \in k + 1 .. Len(listed) : listed[i] \in Coin
    BY <1>1
  <2>2. /\ b \in Seq(Coin) /\ Len(b) = IF k + 1 <= Len(listed) THEN Len(listed) - (k + 1) + 1 ELSE 0
        /\ \A i \in 1 .. Len(listed) - (k + 1) + 1 : b[i] = listed[k + 1 + i - 1]
    BY <1>1, <2>1, SubSeqProperties
  <2>3. ASSUME NEW i \in 1 .. Len(b) PROVE \E j \in 1 .. Len(listed) : b[i] = listed[j]
    <3> HIDE DEF b
    <3>1. i \in 1 .. Len(listed) - (k + 1) + 1
      BY <1>1, <2>2
    <3>2. k + 1 + i - 1 \in 1 .. Len(listed)
      BY <1>1, <3>1
    <3> QED BY <2>2, <3>1, <3>2
  <2> QED BY <2>2, <2>3
<1>4. listed' = a \o b
  BY DEF RemoveAt
<1> HIDE DEF a, b
<1>5. /\ listed' \in Seq(Coin) /\ Len(a) \in Nat /\ Len(b) \in Nat /\ Len(listed') = Len(a) + Len(b)
      /\ \A i \in 1 .. Len(a) + Len(b) : listed'[i] = IF i <= Len(a) THEN a[i] ELSE b[i - Len(a)]
  BY <1>2, <1>3, <1>4, ConcatProperties
<1>6. ASSUME NEW c, Contains(listed, c)' PROVE Contains(listed, c)
  <2>1. PICK i \in 1 .. Len(a) + Len(b) : listed'[i] = c
    BY <1>5, <1>6 DEF Contains
  <2>2. CASE i <= Len(a)
    <3>1. i \in 1 .. Len(a) /\ c = a[i]
      BY <1>5, <2>1, <2>2
    <3> QED BY <1>2, <3>1 DEF Contains
  <2>3. CASE ~(i <= Len(a))
    <3>1. i - Len(a) \in 1 .. Len(b) /\ c = b[i - Len(a)]
      BY <1>5, <2>1, <2>3
    <3> QED BY <1>3, <3>1 DEF Contains
  <2> QED BY <2>2, <2>3
<1>7. CoinTypes' /\ SlicesOK' /\ StagesOK'
  BY <1>5 DEF CoinTypes, SlicesOK, StagesOK
<1>8. AllFresh' /\ LastIsCurrent'
  BY DEF AllFresh, LastIsCurrent, Fresh, Pending
<1>9. PagesSeen'
  BY DEF PagesSeen
<1>10. PushedIsSent'
  <2>1. \A c \in Due' : c \in Due
    BY <1>6 DEF Due
  <2> QED BY <2>1 DEF PushedIsSent, ToSend
<1>11. CommittedIsSent'
  BY DEF CommittedIsSent
<1> QED BY <1>7, <1>8, <1>9, <1>10, <1>11

LEMMA SneakersStep == ASSUME CoinInv, Sneakers PROVE CoinInv'
<1> USE DEF CoinInv, Sneakers, figgy, index
<1> DEFINE h == Head(messages)
<1>1. /\ messages \in Seq(CoinDoc) /\ messages # <<>> /\ version \in [Coin -> Nat \ {0}]
      /\ collection \in [Coin -> Nat] /\ messages' = Tail(messages)
  BY DEF CoinTypes
<1>2. /\ h \in CoinDoc /\ messages' \in Seq(CoinDoc) /\ Len(messages') = Len(messages) - 1
      /\ \A i \in 1 .. Len(messages') : messages'[i] = messages[i + 1]
      /\ Len(messages) \in Nat \ {0} /\ DOMAIN messages = 1 .. Len(messages)
      /\ DOMAIN messages' = 1 .. Len(messages) - 1 /\ h = messages[1]
  <2>1. /\ h \in CoinDoc /\ Tail(messages) \in Seq(CoinDoc) /\ Len(Tail(messages)) = Len(messages) - 1
        /\ \A i \in 1 .. Len(Tail(messages)) : Tail(messages)[i] = messages[i + 1]
    BY <1>1, HeadTailProperties
  <2>2. Len(messages) \in Nat \ {0} /\ DOMAIN messages = 1 .. Len(messages)
    BY <1>1, LenProperties, EmptySeq
  <2>3. h = messages[1]
    BY <1>1
  <2> QED BY <1>1, <2>1, <2>2, <2>3, LenProperties
<1> HIDE DEF h
<1>3. collection' = IF stage = "swapped" THEN [collection EXCEPT ![h.coin] = h.version] ELSE collection
  BY DEF h
<1>4. CoinTypes'
  BY <1>1, <1>2, <1>3, CoinFields DEF CoinTypes
<1>5. SlicesOK' /\ StagesOK'
  BY <1>3 DEF SlicesOK, StagesOK
<1>6. slices = {} /\ job.docs = <<>> /\ batches' = batches
  BY DEF StagesOK
<1>7. AllFresh'
  <2> SUFFICES ASSUME NEW c \in Coin, collection'[c] # 0 PROVE Fresh(c, collection[c])'
    BY <1>6, EmptySeq DEF AllFresh
  <2>1. stage = "swapped"
    BY <1>3 DEF StagesOK
  <2>2. CASE c = h.coin
    <3>1. collection'[c] = h.version
      BY <1>1, <1>3, <2>1, <2>2
    <3>2. CASE \E j \in 1 .. Len(messages) : j > 1 /\ messages[j].coin = c
      <4>1. PICK j \in 1 .. Len(messages) : j > 1 /\ messages[j].coin = c
        BY <3>2
      <4>2. j - 1 \in 1 .. Len(messages) - 1 /\ messages'[j - 1] = messages[j]
        BY <1>2, <4>1
      <4> QED BY <1>2, <4>1, <4>2 DEF Fresh, Pending
    <3>3. CASE ~ \E j \in 1 .. Len(messages) : j > 1 /\ messages[j].coin = c
      <4>1. h.version = version[h.coin]
        BY <1>2, <2>2, <3>3 DEF LastIsCurrent
      <4> QED BY <2>2, <3>1, <4>1 DEF Fresh
    <3> QED BY <3>2, <3>3
  <2>3. CASE c # h.coin
    <3>1. collection'[c] = collection[c] /\ Fresh(c, collection[c])
      BY <1>1, <1>3, <2>1, <2>3 DEF AllFresh
    <3>2. CASE Pending(c)
      <4>1. PICK j \in 1 .. Len(messages) : messages[j].coin = c
        BY <1>2, <3>2 DEF Pending
      <4>2. j # 1
        BY <1>2, <2>3, <4>1
      <4>3. j - 1 \in 1 .. Len(messages) - 1 /\ messages'[j - 1] = messages[j]
        BY <1>2, <4>1, <4>2
      <4> QED BY <1>2, <4>1, <4>3 DEF Fresh, Pending
    <3> QED BY <3>1, <3>2 DEF Fresh
  <2> QED BY <2>2, <2>3
<1>8. LastIsCurrent'
  <2> SUFFICES ASSUME NEW i \in DOMAIN messages',
                      \A j \in DOMAIN messages' : j > i => messages'[j].coin # messages'[i].coin
               PROVE  messages'[i].version = version[messages'[i].coin]
    BY DEF LastIsCurrent
  <2>1. i + 1 \in 1 .. Len(messages) /\ messages'[i] = messages[i + 1]
    BY <1>2
  <2>2. ASSUME NEW j \in 1 .. Len(messages), j > i + 1 PROVE messages[j].coin # messages[i + 1].coin
    <3>1. j - 1 \in 1 .. Len(messages) - 1 /\ j - 1 > i /\ messages'[j - 1] = messages[j]
      BY <1>2, <2>2
    <3> QED BY <2>1, <3>1
  <2> QED BY <1>2, <2>1, <2>2 DEF LastIsCurrent
<1>9. PagesSeen'
  BY DEF PagesSeen, Seen
<1>10. ASSUME NEW c \in Coin, collection[c] # 0 PROVE collection'[c] # 0
  BY <1>1, <1>2, <1>3, <1>10, CoinFields
<1>11. PushedIsSent' /\ CommittedIsSent'
  BY <1>10 DEF PushedIsSent, CommittedIsSent, Due, ToSend
<1> QED BY <1>4, <1>5, <1>7, <1>8, <1>9, <1>11

LEMMA OperatorStep == ASSUME CoinInv, Enqueue \/ Swap PROVE CoinInv'
<1> USE DEF CoinInv, figgy, index
<1>1. CASE Enqueue
  <2> USE <1>1 DEF Enqueue, StartJob, At
  <2>1. job' = [pc |-> "fetch", page |-> 1, coins |-> <<>>, more |-> TRUE, docs |-> <<>>]
    OBVIOUS
  <2>2. CoinTypes'
    BY <2>1, EmptySeq DEF CoinTypes
  <2>3. SlicesOK' /\ StagesOK'
    BY <2>1 DEF SlicesOK, StagesOK
  <2>4. AllFresh' /\ LastIsCurrent'
    BY <2>1, EmptySeq DEF AllFresh, LastIsCurrent, Fresh, Pending
  <2>5. PagesSeen'
    <3>1. (1 - 1) * CoinsPerPage = 0
      BY NumismaticsAssumption, Z3 DEF NumismaticsAssumption
    <3>2. \A i \in DOMAIN listed : ~(i <= 0)
      BY DEF CoinTypes
    <3> QED BY <2>1, <3>1, <3>2 DEF PagesSeen
  <2>6. PushedIsSent' /\ CommittedIsSent'
    BY <2>1 DEF PushedIsSent, CommittedIsSent
  <2> QED BY <2>2, <2>3, <2>4, <2>5, <2>6
<1>2. CASE Swap
  <2> USE <1>2 DEF Swap
  <2>1. slices = {}
    BY DEF SlicesOK
  <2>2. CoinTypes' /\ SlicesOK' /\ StagesOK'
    BY <2>1 DEF CoinTypes, SlicesOK, StagesOK
  <2>3. AllFresh' /\ LastIsCurrent'
    BY DEF AllFresh, LastIsCurrent, Fresh, Pending
  <2>4. PagesSeen' /\ PushedIsSent' /\ CommittedIsSent'
    BY DEF PagesSeen, PushedIsSent, CommittedIsSent, Seen, Due, ToSend
  <2> QED BY <2>2, <2>3, <2>4
<1> QED BY <1>1, <1>2

LEMMA AtType ==
    ASSUME NEW pc \in JobPC, NEW p \in Nat, NEW coins \in Seq(Coin), NEW more \in BOOLEAN, NEW all \in Seq(CoinDoc)
    PROVE  At(pc, p, coins, more, all) \in [pc : JobPC, page : Nat, coins : Seq(Coin), more : BOOLEAN, docs : Seq(CoinDoc)]
BY DEF At

\* While the job reads, a step that leaves its documents fresh has only the pages to account for.
LEMMA ReadingStep ==
    ASSUME CoinInv, UNCHANGED <<figgy, stage, index, moved>>, job.pc \in {"fetch", "read", "pushed"},
           job'.pc \in {"fetch", "read"}, coinFailures' \in Nat,
           job' \in [pc : JobPC, page : Nat, coins : Seq(Coin), more : BOOLEAN, docs : Seq(CoinDoc)],
           \A i \in DOMAIN job'.docs : Fresh(job'.docs[i].coin, job'.docs[i].version),
           PagesSeen'
    PROVE  CoinInv'
<1> USE DEF CoinInv, figgy, index
<1>1. CoinTypes'
  BY DEF CoinTypes
<1>2. SlicesOK' /\ StagesOK'
  BY DEF SlicesOK, StagesOK
<1>3. \A c, v : Fresh(c, v)' <=> Fresh(c, v)
  BY DEF Fresh, Pending
<1>4. (\A i \in DOMAIN job.docs : Fresh(job.docs[i].coin, job.docs[i].version))'
  BY DEF Fresh, Pending
<1>5. AllFresh' /\ LastIsCurrent'
  BY <1>3, <1>4 DEF AllFresh, LastIsCurrent
<1>6. PushedIsSent' /\ CommittedIsSent'
  BY DEF PushedIsSent, CommittedIsSent
<1> QED BY <1>1, <1>2, <1>5, <1>6

LEMMA FetchPageStep == ASSUME CoinInv, FetchPage PROVE CoinInv'
<1> DEFINE n == job.page
           coins == Part(listed, CoinsPerPage, n)
<1> USE DEF FetchPage
<1>0. /\ CoinTypes /\ AllFresh /\ PagesSeen /\ listed \in Seq(Coin) /\ coinFailures \in Nat
      /\ CoinsPerPage \in Nat \ {0} /\ n \in Nat \ {0}
  BY CoinFields, NumismaticsAssumption DEF CoinInv, CoinTypes, PagesSeen, NumismaticsAssumption
<1>1. /\ job'.pc = "read" /\ job'.page = n /\ job'.coins = coins /\ job'.docs = job.docs
      /\ job'.more = (Len(listed) > n * CoinsPerPage)
      /\ job' = [pc |-> "read", page |-> n, coins |-> coins, more |-> Len(listed) > n * CoinsPerPage, docs |-> job.docs]
  BY DEF At
<1>2. PartFacts(Coin, listed, CoinsPerPage, n)
  BY <1>0, PartOf
<1>3. /\ coins \in Seq(Coin) /\ (n - 1) * CoinsPerPage \in Nat /\ n * CoinsPerPage \in Nat
      /\ \A i \in DOMAIN listed : (n - 1) * CoinsPerPage < i /\ i <= n * CoinsPerPage =>
             i - (n - 1) * CoinsPerPage \in DOMAIN coins /\ coins[i - (n - 1) * CoinsPerPage] = listed[i]
  BY <1>0, <1>2 DEF PartFacts
<1>4. Len(listed) \in Nat /\ DOMAIN listed = 1 .. Len(listed)
  BY <1>0
<1> HIDE DEF coins
<1>5. ASSUME ~moved, NEW i \in DOMAIN listed, i <= n * CoinsPerPage
      PROVE  Seen(listed[i])' \/ \E k \in DOMAIN coins : coins[k] = listed[i]
  <2>1. CASE i <= (n - 1) * CoinsPerPage
    <3>1. Seen(listed[i])
      BY <1>0, <1>5, <2>1 DEF PagesSeen
    <3> QED BY <1>1, <3>1 DEF Seen, figgy
  <2>2. CASE ~(i <= (n - 1) * CoinsPerPage)
    BY <1>3, <1>4, <1>5, <2>2
  <2> QED BY <2>1, <2>2
<1>6. PagesSeen'
  <2>1. ~job'.more => Len(listed) <= n * CoinsPerPage
    <3>1. ~(Len(listed) > n * CoinsPerPage) => Len(listed) <= n * CoinsPerPage
      BY <1>3, <1>4
    <3> QED BY <1>1, <3>1, Zenon
  <2>2. listed' = listed /\ moved' = moved /\ n >= 1
    BY <1>0 DEF figgy
  <2>3. \/ moved
        \/ \A i \in DOMAIN listed : i <= n * CoinsPerPage =>
              Seen(listed[i])' \/ \E k \in DOMAIN coins : coins[k] = listed[i]
    BY <1>5
  <2>4. job'.pc = "read" /\ job'.page = n /\ job'.coins = coins
    BY <1>1
  <2> HIDE DEF FetchPage
  <2> QED BY <2>1, <2>2, <2>3, <2>4 DEF PagesSeen
<1>7. job' \in [pc : JobPC, page : Nat, coins : Seq(Coin), more : BOOLEAN, docs : Seq(CoinDoc)]
  <2>1. (Len(listed) > n * CoinsPerPage) \in BOOLEAN
    BY <1>3, <1>4
  <2>2. "read" \in JobPC /\ n \in Nat /\ job.docs \in Seq(CoinDoc)
    BY <1>0, CoinFields
  <2> QED BY <1>1, <1>3, <2>1, <2>2, Zenon
<1> QED BY <1>0, <1>1, <1>6, <1>7, ReadingStep DEF AllFresh

LEMMA ReadCoinStep == ASSUME CoinInv, ReadCoin \/ PassOver PROVE CoinInv'
<1> PICK h : h = Head(job.coins)
  OBVIOUS
<1>0. /\ CoinTypes /\ AllFresh /\ PagesSeen /\ job.pc = "read" /\ job.coins # <<>>
      /\ listed' = listed /\ moved' = moved /\ UNCHANGED <<figgy, stage, index, moved>>
      /\ version \in [Coin -> Nat \ {0}] /\ coinFailures' \in Nat
  BY DEF CoinInv, CoinTypes, ReadCoin, PassOver, figgy
<1>1. /\ job.coins \in Seq(Coin) /\ job.docs \in Seq(CoinDoc) /\ job.page \in Nat
      /\ job \in [pc : JobPC, page : Nat, coins : Seq(Coin), more : BOOLEAN, docs : Seq(CoinDoc)]
  BY <1>0, CoinFields DEF CoinTypes
<1>2. /\ h \in Coin /\ Tail(job.coins) \in Seq(Coin) /\ Len(Tail(job.coins)) = Len(job.coins) - 1
      /\ \A i \in 1 .. Len(Tail(job.coins)) : Tail(job.coins)[i] = job.coins[i + 1]
  BY <1>0, <1>1, HeadTailProperties
<1>3. /\ DOMAIN job.coins = 1 .. Len(job.coins) /\ Len(job.coins) \in Nat /\ h = job.coins[1]
      /\ DOMAIN Tail(job.coins) = 1 .. Len(Tail(job.coins))
  BY <1>0, <1>1, <1>2, LenProperties
<1>4. Doc(h) \in CoinDoc /\ Doc(h).coin = h /\ Doc(h).version = version[h]
  BY <1>0, <1>2 DEF Doc, CoinDoc
<1>5. /\ Append(job.docs, Doc(h)) \in Seq(CoinDoc)
      /\ DOMAIN Append(job.docs, Doc(h)) = 1 .. Len(job.docs) + 1
      /\ DOMAIN job.docs = 1 .. Len(job.docs) /\ Len(job.docs) \in Nat
      /\ \A i \in 1 .. Len(job.docs) : Append(job.docs, Doc(h))[i] = job.docs[i]
      /\ Append(job.docs, Doc(h))[Len(job.docs) + 1] = Doc(h)
  BY <1>1, <1>4, AppendProperties, LenProperties
<1>6. /\ job'.pc = "read" /\ job'.page = job.page /\ job'.coins = Tail(job.coins) /\ job'.more = job.more
      /\ job'.docs \in {job.docs, Append(job.docs, Doc(h))}
      /\ job'.docs = job.docs => h \in dropped'
      /\ \A c \in dropped : c \in dropped'
      /\ job' \in [pc : JobPC, page : Nat, coins : Seq(Coin), more : BOOLEAN, docs : Seq(CoinDoc)]
  <2>1. CASE ReadCoin
    <3>1. job' = [job EXCEPT !.coins = Tail(job.coins), !.docs = Append(job.docs, Doc(h))]
      BY <2>1 DEF ReadCoin
    <3>2. /\ job'.pc = job.pc /\ job'.page = job.page /\ job'.coins = Tail(job.coins) /\ job'.more = job.more
          /\ job'.docs = Append(job.docs, Doc(h))
          /\ job' \in [pc : JobPC, page : Nat, coins : Seq(Coin), more : BOOLEAN, docs : Seq(CoinDoc)]
      BY <1>1, <1>2, <1>5, <3>1
    <3>3. Append(job.docs, Doc(h)) # job.docs
      BY <1>5
    <3>4. dropped' = dropped
      BY <2>1 DEF ReadCoin
    <3> QED BY <1>0, <3>2, <3>3, <3>4
  <2>2. CASE PassOver
    <3>1. job' = [job EXCEPT !.coins = Tail(job.coins)] /\ dropped' = dropped \cup {h}
      BY <2>2 DEF PassOver
    <3> QED BY <1>0, <1>1, <1>2, <3>1
  <2> QED BY <2>1, <2>2, ReadCoin \/ PassOver
<1>7. ASSUME NEW i \in DOMAIN job'.docs PROVE Fresh(job'.docs[i].coin, job'.docs[i].version)
  <2>1. CASE job'.docs = job.docs
    BY <1>0, <1>7, <2>1 DEF AllFresh
  <2>2. CASE job'.docs = Append(job.docs, Doc(h))
    <3>1. CASE i = Len(job.docs) + 1
      BY <1>4, <1>5, <2>2, <3>1 DEF Fresh
    <3>2. CASE i # Len(job.docs) + 1
      <4>1. i \in DOMAIN job.docs /\ job'.docs[i] = job.docs[i]
        BY <1>5, <1>7, <2>2, <3>2
      <4> QED BY <1>0, <4>1 DEF AllFresh
    <3> QED BY <3>1, <3>2
  <2> QED BY <1>6, <2>1, <2>2
<1>8. ASSUME NEW c, Seen(c) PROVE Seen(c)'
  <2>1. \A i \in DOMAIN job.docs : i \in DOMAIN job'.docs /\ job'.docs[i] = job.docs[i]
    BY <1>5, <1>6
  <2> QED BY <1>6, <1>8, <2>1 DEF Seen
<1>9. Seen(h)'
  <2>1. job'.docs = Append(job.docs, Doc(h)) => Len(job.docs) + 1 \in DOMAIN job'.docs /\ job'.docs[Len(job.docs) + 1] = Doc(h)
    BY <1>5
  <2> QED BY <1>4, <1>6, <2>1 DEF Seen
<1>10. ASSUME ~moved, NEW i \in DOMAIN listed, i <= job.page * CoinsPerPage, NEW c, c = listed[i]
       PROVE  Seen(c)' \/ \E k \in DOMAIN job'.coins : job'.coins[k] = c
  <2>1. CASE Seen(c)
    BY <1>8, <2>1
  <2>2. CASE \E k \in DOMAIN job.coins : job.coins[k] = c
    <3>1. PICK k \in 1 .. Len(job.coins) : job.coins[k] = c
      BY <1>3, <2>2
    <3>2. CASE k = 1
      BY <1>3, <1>9, <3>1, <3>2
    <3>3. CASE k # 1
      <4>1. k - 1 \in 1 .. Len(Tail(job.coins)) /\ Tail(job.coins)[k - 1] = job.coins[k]
        BY <1>2, <1>3, <3>1, <3>3
      <4> QED BY <1>3, <1>6, <3>1, <4>1
    <3> QED BY <3>2, <3>3
  <2> QED BY <1>0, <1>10, <2>1, <2>2 DEF PagesSeen
<1>11. PagesSeen'
  <2>1. (job.page >= 1) /\ (~moved /\ ~job.more => Len(listed) <= job.page * CoinsPerPage)
    BY <1>0 DEF PagesSeen
  <2>2. (\A i \in DOMAIN listed : i <= job.page * CoinsPerPage =>
                Seen(listed[i]) \/ \E k \in DOMAIN job.coins : job.coins[k] = listed[i])' \/ moved
    BY <1>0, <1>6, <1>10 DEF Seen
  <2> QED BY <1>0, <1>6, <2>1, <2>2 DEF PagesSeen
<1> QED BY <1>0, <1>6, <1>7, <1>11, ReadingStep

LEMMA NextPageStep == ASSUME CoinInv, NextPage PROVE CoinInv'
<1> USE DEF NextPage
<1>0. /\ CoinTypes /\ AllFresh /\ PagesSeen /\ coinFailures \in Nat /\ job.page \in Nat /\ job.docs \in Seq(CoinDoc)
  BY CoinFields DEF CoinInv, CoinTypes
<1>1. /\ job'.pc = "fetch" /\ job'.page = job.page + 1 /\ job'.docs = job.docs
  BY DEF At
<1>2. job' \in [pc : JobPC, page : Nat, coins : Seq(Coin), more : BOOLEAN, docs : Seq(CoinDoc)]
  <2>1. "fetch" \in JobPC /\ job.page + 1 \in Nat /\ <<>> \in Seq(Coin) /\ TRUE \in BOOLEAN
    BY <1>0, EmptySeq
  <2>2. job' = At("fetch", job.page + 1, <<>>, TRUE, job.docs)
    OBVIOUS
  <2> QED BY ONLY <1>0, <2>1, <2>2, AtType
<1>3. (job.page + 1 - 1) * CoinsPerPage = job.page * CoinsPerPage
  BY <1>0
<1>4. \A c : Seen(c) => Seen(c)'
  BY <1>1 DEF Seen
<1>5. \A i \in DOMAIN listed : ~moved /\ i <= job.page * CoinsPerPage => Seen(listed[i])
  BY <1>0 DEF PagesSeen
<1>6. PagesSeen'
  <2>1. listed' = listed /\ moved' = moved /\ job.page + 1 >= 1
    BY <1>0 DEF figgy
  <2>2. ASSUME NEW i \in DOMAIN listed', ~moved', i <= (job'.page - 1) * CoinsPerPage, NEW c, c = listed[i]
        PROVE  Seen(c)'
    <3>1. job'.page - 1 = job.page
      BY ONLY <1>0, <1>1
    <3>2. i <= job.page * CoinsPerPage /\ i \in DOMAIN listed /\ ~moved
      BY ONLY <2>1, <2>2, <3>1
    <3>3. Seen(listed[i])
      BY <1>5, <3>2
    <3> QED BY <1>4, <2>2, <3>3, <2>1
  <2> HIDE DEF NextPage
  <2> QED BY <1>1, <2>1, <2>2 DEF PagesSeen
<1> QED BY <1>0, <1>1, <1>2, <1>6, ReadingStep DEF AllFresh

LEMMA JobRestartsStep == ASSUME CoinInv, JobRestarts PROVE CoinInv'
<1> USE DEF JobRestarts
<1>1. /\ job' = [pc |-> "fetch", page |-> 1, coins |-> <<>>, more |-> TRUE, docs |-> <<>>]
      /\ job'.pc = "fetch" /\ job'.page = 1 /\ job'.docs = <<>>
  BY DEF StartJob, At
<1>2. /\ CoinTypes /\ listed' = listed /\ coinFailures' \in Nat
      /\ job' \in [pc : JobPC, page : Nat, coins : Seq(Coin), more : BOOLEAN, docs : Seq(CoinDoc)]
  BY <1>1, EmptySeq DEF CoinInv, CoinTypes, figgy
<1>3. PagesSeen'
  <2>1. (1 - 1) * CoinsPerPage = 0
    BY NumismaticsAssumption, Z3 DEF NumismaticsAssumption
  <2>2. \A i \in DOMAIN listed : ~(i <= 0)
    BY <1>2 DEF CoinTypes
  <2> QED BY <1>1, <1>2, <2>1, <2>2 DEF PagesSeen
<1> QED BY <1>1, <1>2, <1>3, ReadingStep

LEMMA PushStep == ASSUME CoinInv, PushBatch \/ Acknowledge PROVE CoinInv'
<1> USE DEF CoinInv, figgy, index
<1>1. CASE PushBatch
  <2> DEFINE push == {[batch |-> coinFailures, docs |-> all, at_once |-> TRUE, left |-> all] : all \in Slices(job.docs)}
  <2>1. /\ job.docs \in Seq(CoinDoc) /\ coinFailures \in Nat /\ job.pc = "read" /\ ~job.more /\ job.coins = <<>>
        /\ \A i \in DOMAIN job.docs : Fresh(job.docs[i].coin, job.docs[i].version)
    BY <1>1, CoinFields DEF CoinTypes, PushBatch, AllFresh
  <2>2. /\ \A part \in Slices(job.docs) :
              /\ part \in Seq(CoinDoc) /\ part # <<>>
              /\ \A i \in DOMAIN part : \E j \in DOMAIN job.docs : part[i] = job.docs[j]
        /\ \A j \in DOMAIN job.docs : \E part \in Slices(job.docs) : \E i \in DOMAIN part : part[i] = job.docs[j]
    BY <2>1, SlicesCover
  <2>3. /\ slices' = slices \cup push /\ batches' = batches \cup {coinFailures}
        /\ job' = At("pushed", 0, <<>>, FALSE, <<>>) /\ job'.pc = "pushed" /\ job'.docs = <<>>
        /\ UNCHANGED <<figgy, stage, collection, committed, dropped, moved, coinFailures>>
    BY <1>1 DEF PushBatch, At
  <2>4. \A u \in push :
           /\ u \in Slice /\ u.batch \in batches' /\ u.left # <<>> /\ u.left = u.docs
           /\ u.docs \in Slices(job.docs)
    <3>1. ASSUME NEW part \in Slices(job.docs), NEW u,
                 u = [batch |-> coinFailures, docs |-> part, at_once |-> TRUE, left |-> part]
          PROVE  /\ u \in Slice /\ u.batch \in batches' /\ u.left # <<>> /\ u.left = u.docs
                 /\ u.docs \in Slices(job.docs)
      <4>1. part \in Seq(CoinDoc) /\ part # <<>>
        BY <2>2
      <4>2. /\ u \in Slice /\ u.batch = coinFailures /\ u.left = part /\ u.docs = part
        BY <2>1, <3>1, <4>1 DEF Slice
      <4> QED BY <2>3, <4>1, <4>2
    <3> QED BY <3>1
  <2>5. ASSUME NEW all \in Slices(job.docs) PROVE \E u \in push : u.left = all
    <3>1. [batch |-> coinFailures, docs |-> all, at_once |-> TRUE, left |-> all] \in push
      OBVIOUS
    <3> QED BY <3>1
  <2> HIDE DEF push
  <2>6. job' \in [pc : JobPC, page : Nat, coins : Seq(Coin), more : BOOLEAN, docs : Seq(CoinDoc)]
    BY <2>3, EmptySeq, AtType
  <2>7. CoinTypes'
    BY <2>3, <2>4, <2>6 DEF CoinTypes
  <2>8. SlicesOK'
    BY <2>3, <2>4 DEF SlicesOK
  <2>9. StagesOK'
    BY <2>1, <2>3 DEF StagesOK
  <2>10. \A c, v : Fresh(c, v) <=> Fresh(c, v)'
    BY <2>3 DEF Fresh, Pending
  <2>11. ASSUME NEW u \in push, NEW i \in DOMAIN u.docs PROVE Fresh(u.docs[i].coin, u.docs[i].version)
    BY <2>1, <2>2, <2>4
  <2>12. /\ \A i \in DOMAIN job'.docs : FALSE
         /\ \A u \in slices' : u \in slices \/ u \in push
    <3>1. slices' = slices \cup push /\ job'.docs = <<>>
      BY <2>3
    <3> QED BY ONLY <3>1
  <2>13. (\A i \in DOMAIN job.docs : Fresh(job.docs[i].coin, job.docs[i].version))'
    BY <2>12
  <2>14. (\A u \in slices : \A i \in DOMAIN u.docs : Fresh(u.docs[i].coin, u.docs[i].version))'
    BY <2>10, <2>11, <2>12 DEF AllFresh
  <2>15. (\A c \in Coin : collection[c] # 0 => Fresh(c, collection[c]))'
    BY <2>3, <2>10 DEF AllFresh
  <2>16. AllFresh'
    BY <2>13, <2>14, <2>15 DEF AllFresh
  <2>17. LastIsCurrent'
    BY <2>3 DEF LastIsCurrent
  <2>18. PagesSeen' /\ CommittedIsSent'
    BY <2>3 DEF PagesSeen, CommittedIsSent
  <2>19. ASSUME NEW c \in Due PROVE ToSend(c)'
    <3>1. ~moved /\ c \in Coin /\ Contains(listed, c) /\ c \notin dropped
      BY DEF Due
    <3>2. PICK i \in 1 .. Len(listed) : listed[i] = c
      BY <3>1 DEF Contains
    <3>3. i \in DOMAIN listed /\ i \in Nat /\ Len(listed) \in Nat
      BY <3>2 DEF CoinTypes
    <3>4. Len(listed) <= job.page * CoinsPerPage
      BY <2>1, <3>1 DEF PagesSeen
    <3>5. job.page * CoinsPerPage \in Nat
      <4>1. job.page \in Nat /\ CoinsPerPage \in Nat
        BY CoinFields, NumismaticsAssumption DEF NumismaticsAssumption
      <4> QED BY <4>1, Z3
    <3>6. i <= job.page * CoinsPerPage
      BY <3>2, <3>3, <3>4, <3>5
    <3>7. Seen(c)
      BY <2>1, <3>1, <3>2, <3>3, <3>6, EmptySeq DEF PagesSeen
    <3>8. PICK j \in DOMAIN job.docs : job.docs[j].coin = c
      BY <3>1, <3>7 DEF Seen
    <3>9. PICK part \in Slices(job.docs) : \E k \in DOMAIN part : part[k] = job.docs[j]
      BY <2>2
    <3>10. PICK u \in push : u.left = part
      BY <2>5
    <3> QED BY <2>3, <3>8, <3>9, <3>10 DEF ToSend
  <2>20. PushedIsSent'
    <3>1. Due' = Due /\ batches' # {}
      BY <2>3 DEF Due
    <3> QED BY <2>3, <2>19, <3>1 DEF PushedIsSent
  <2> QED BY <2>7, <2>8, <2>9, <2>16, <2>17, <2>18, <2>20
<1>2. CASE Acknowledge
  <2>1. /\ job.pc = "pushed" /\ job' = [job EXCEPT !.pc = "done"]
        /\ UNCHANGED <<figgy, stage, index, dropped, moved, coinFailures>>
    BY <1>2 DEF Acknowledge
  <2>2. /\ job \in [pc : JobPC, page : Nat, coins : Seq(Coin), more : BOOLEAN, docs : Seq(CoinDoc)]
        /\ job' \in [pc : JobPC, page : Nat, coins : Seq(Coin), more : BOOLEAN, docs : Seq(CoinDoc)]
        /\ job'.pc = "done" /\ job'.docs = job.docs
    BY <2>1 DEF CoinTypes
  <2>3. CoinTypes' /\ SlicesOK' /\ StagesOK'
    BY <2>1, <2>2 DEF CoinTypes, SlicesOK, StagesOK
  <2>4. AllFresh' /\ LastIsCurrent'
    BY <2>1, <2>2 DEF AllFresh, LastIsCurrent, Fresh, Pending
  <2>5. PagesSeen' /\ PushedIsSent' /\ CommittedIsSent'
    BY <2>1, <2>2 DEF PagesSeen, PushedIsSent, CommittedIsSent, Due, ToSend
  <2> QED BY <2>3, <2>4, <2>5
<1> QED BY <1>1, <1>2

---------------------------------------------------------------------------
(* A job of a batch. *)

\* What is left of the slice s is sound.
SliceKept(s, t) ==
    \A u \in t :
       /\ u \in Slice /\ u.batch = s.batch /\ u.docs = s.docs /\ u.left # <<>>
       /\ u.at_once => u.left = u.docs
       /\ \A i \in DOMAIN u.left : \E j \in DOMAIN u.docs : u.left[i] = u.docs[j]

\* The coins of s are given up, in the collection, or still to be sent.
SliceCounted(s, t, given, coll) ==
    \A i \in DOMAIN s.left :
       \/ s.left[i].coin \in given \/ coll[s.left[i].coin] # 0
       \/ \E u \in t : \E k \in DOMAIN u.left : u.left[k].coin = s.left[i].coin

CollectionKept(coll) ==
    /\ coll \in [Coin -> Nat]
    /\ \A c \in Coin : (collection[c] # 0 => coll[c] # 0) /\ (coll[c] # 0 => Fresh(c, coll[c]))

\* A step that sends fresh documents, or gives coins up, and keeps the slice for the others.
LEMMA SliceStep ==
    ASSUME CoinInv, NEW s \in slices, NEW t, Replace(s, t),
           UNCHANGED <<figgy, stage, job, batches, committed, moved>>, coinFailures' \in Nat,
           dropped \subseteq dropped', SliceKept(s, t), CollectionKept(collection'),
           SliceCounted(s, t, dropped', collection')
    PROVE  CoinInv'
<1> USE DEF CoinInv, SliceKept, CollectionKept, SliceCounted
<1>1. /\ slices' = (slices \ {s}) \cup t /\ \A u \in slices' : u \in slices \/ u \in t
      /\ UNCHANGED <<listed, version, messages, stage, job, batches, committed, moved>>
  BY DEF Replace, figgy
<1>2. CoinTypes'
  <2>1. \A u \in slices' : u \in Slice
    BY <1>1 DEF CoinTypes
  <2> QED BY <1>1, <2>1 DEF CoinTypes
<1>3. SlicesOK'
  <2>1. ASSUME NEW u \in slices'
        PROVE  /\ u.batch \in batches /\ u.left # <<>>
               /\ u.at_once => u.left = u.docs
               /\ \A i \in DOMAIN u.left : \E j \in DOMAIN u.docs : u.left[i] = u.docs[j]
    <3>1. CASE u \in slices
      BY <3>1 DEF SlicesOK
    <3>2. CASE u \in t
      BY <3>2 DEF SlicesOK
    <3> QED BY <1>1, <3>1, <3>2
  <2> QED BY <1>1, <2>1 DEF SlicesOK
<1>4. StagesOK'
  BY <1>1 DEF StagesOK
<1>5. \A c, v : Fresh(c, v) <=> Fresh(c, v)'
  BY <1>1 DEF Fresh, Pending
<1>6. (\A i \in DOMAIN job.docs : Fresh(job.docs[i].coin, job.docs[i].version))'
  BY <1>1, <1>5 DEF AllFresh
<1>7. (\A u \in slices : \A i \in DOMAIN u.docs : Fresh(u.docs[i].coin, u.docs[i].version))'
  <2>1. \A i \in DOMAIN s.docs : Fresh(s.docs[i].coin, s.docs[i].version)
    BY DEF AllFresh
  <2>2. ASSUME NEW u \in slices' PROVE \A i \in DOMAIN u.docs : Fresh(u.docs[i].coin, u.docs[i].version)
    <3>1. CASE u \in slices
      BY <3>1 DEF AllFresh
    <3>2. CASE u \in t
      <4>1. u.docs = s.docs
        BY <3>2
      <4> QED BY <2>1, <4>1
    <3> QED BY <1>1, <3>1, <3>2
  <2> QED BY <1>5, <2>2
<1>8. (\A c \in Coin : collection[c] # 0 => Fresh(c, collection[c]))'
  BY <1>5
<1>9. AllFresh' /\ LastIsCurrent'
  BY <1>1, <1>6, <1>7, <1>8 DEF AllFresh, LastIsCurrent
<1>10. PagesSeen'
  <2>1. \A c : Seen(c) => Seen(c)'
    BY <1>1 DEF Seen
  <2>2. job'.pc # "fetch" \/ moved' \/ \A i \in DOMAIN listed : i <= (job.page - 1) * CoinsPerPage => Seen(listed[i])
    BY <1>1 DEF PagesSeen
  <2> QED BY <1>1, <2>1 DEF PagesSeen, Seen
<1>11. CommittedIsSent'
  BY <1>1 DEF CommittedIsSent
<1>12. PushedIsSent'
  <2> SUFFICES ASSUME job.pc \in {"pushed", "done"}, NEW c \in Due', committed[c] = 0
               PROVE  batches # {} /\ (collection'[c] # 0 \/ ToSend(c)')
    BY <1>1 DEF PushedIsSent
  <2>1. c \in Due /\ c \in Coin /\ c \notin dropped'
    BY <1>1 DEF Due
  <2>2. batches # {} /\ (collection[c] # 0 \/ ToSend(c))
    BY <2>1 DEF PushedIsSent
  <2>3. CASE ToSend(c)
    <3>1. PICK u \in slices : \E i \in DOMAIN u.left : u.left[i].coin = c
      BY <2>3 DEF ToSend
    <3>2. CASE u = s
      BY <1>1, <2>1, <2>2, <3>1, <3>2 DEF ToSend
    <3>3. CASE u # s
      BY <1>1, <2>2, <3>1, <3>3 DEF ToSend
    <3> QED BY <3>2, <3>3
  <2> QED BY <2>1, <2>2, <2>3
<1> QED BY <1>2, <1>3, <1>4, <1>9, <1>10, <1>11, <1>12

LEMMA BatchJobStep == ASSUME CoinInv, NEW s \in slices, BatchJob(s) PROVE CoinInv'
<1>0. /\ CoinTypes /\ s \in Slice /\ s.docs \in Seq(CoinDoc) /\ s.left \in Seq(CoinDoc) /\ s.left # <<>>
      /\ s.at_once => s.left = s.docs
      /\ \A i \in DOMAIN s.left : \E j \in DOMAIN s.docs : s.left[i] = s.docs[j]
      /\ \A i \in DOMAIN s.left : s.left[i] \in CoinDoc
      /\ \A i \in DOMAIN s.docs : s.docs[i] \in CoinDoc
      /\ \A m \in CoinDoc : m.coin \in Coin /\ m.version \in Nat /\ m.version # 0
      /\ collection \in [Coin -> Nat] /\ coinFailures \in Nat
      /\ \A c \in Coin : collection[c] # 0 => Fresh(c, collection[c])
      /\ \A i \in DOMAIN s.docs : Fresh(s.docs[i].coin, s.docs[i].version)
  BY CoinFields DEF CoinInv, CoinTypes, SlicesOK, AllFresh
<1>a. CollectionKept(collection)
  BY <1>0 DEF CollectionKept
<1>b. SliceKept(s, {})
  BY DEF SliceKept
<1>1. CASE SendSlice(s)
  <2> DEFINE mine(c) == {i \in DOMAIN s.docs : s.docs[i].coin = c}
             last(c) == CHOOSE i \in mine(c) : \A j \in mine(c) : j <= i
  <2>1. collection' = [c \in Coin |-> IF mine(c) = {} THEN collection[c] ELSE s.docs[last(c)].version]
    BY <1>1 DEF SendSlice
  <2>2. ASSUME NEW c \in Coin, mine(c) # {} PROVE last(c) \in DOMAIN s.docs /\ s.docs[last(c)].coin = c
    <3>1. Len(s.docs) \in Nat /\ mine(c) \subseteq 1 .. Len(s.docs)
      BY <1>0, LenProperties
    <3>2. \E i \in mine(c) : \A j \in mine(c) : j <= i
      BY <2>2, <3>1, LastExists
    <3>3. last(c) \in mine(c)
      BY <3>2
    <3> QED BY <3>3
  <2> HIDE DEF last, mine
  <2>3. \A c \in Coin :
           \/ mine(c) = {} /\ collection'[c] = collection[c]
           \/ mine(c) # {} /\ collection'[c] = s.docs[last(c)].version
    BY <2>1
  <2>4. \A c \in Coin : mine(c) # {} =>
           /\ s.docs[last(c)].version \in Nat /\ s.docs[last(c)].version # 0
           /\ Fresh(c, s.docs[last(c)].version)
    BY <1>0, <2>2
  <2>5. collection' \in [Coin -> Nat]
    BY <1>0, <2>1, <2>4
  <2>6. \A i \in DOMAIN s.left : s.left[i].coin \in Coin /\ mine(s.left[i].coin) # {}
    BY <1>0 DEF mine
  <2>7. \A i \in DOMAIN s.left : collection'[s.left[i].coin] # 0
    BY <2>3, <2>4, <2>6
  <2>8. \A c \in Coin :
           (collection[c] # 0 => collection'[c] # 0) /\ (collection'[c] # 0 => Fresh(c, collection'[c]))
    BY <1>0, <2>3, <2>4
  <2>9. Replace(s, {}) /\ UNCHANGED <<figgy, stage, job, batches, committed, dropped, moved, coinFailures>>
    BY <1>1 DEF SendSlice
  <2>10. CollectionKept(collection')
    BY <2>5, <2>8 DEF CollectionKept
  <2>11. SliceCounted(s, {}, dropped', collection')
    BY <2>7 DEF SliceCounted
  <2>12. dropped \subseteq dropped' /\ coinFailures' \in Nat
    BY <1>0, <2>9
  <2> QED BY <1>b, <2>9, <2>10, <2>11, <2>12, SliceStep
<1>2. CASE SliceRefused(s)
  <2> DEFINE u == [s EXCEPT !.at_once = FALSE]
  <2>1. /\ Replace(s, {u}) /\ coinFailures' \in Nat
        /\ UNCHANGED <<figgy, stage, job, batches, collection, committed, dropped, moved>>
    BY <1>0, <1>2 DEF SliceRefused
  <2>2. u \in Slice /\ u.batch = s.batch /\ u.docs = s.docs /\ u.left = s.left /\ ~u.at_once
    BY <1>0 DEF Slice
  <2> HIDE DEF u
  <2>3. SliceKept(s, {u})
    BY <1>0, <2>2 DEF SliceKept
  <2>4. SliceCounted(s, {u}, dropped', collection')
    BY <2>2 DEF SliceCounted
  <2>5. CollectionKept(collection') /\ dropped \subseteq dropped'
    BY <1>a, <2>1
  <2> QED BY <2>1, <2>3, <2>4, <2>5, SliceStep
<1>3. CASE SliceRestarts(s)
  <2> DEFINE u == [s EXCEPT !.at_once = TRUE, !.left = s.docs]
  <2>1. /\ Replace(s, {u}) /\ coinFailures' \in Nat
        /\ UNCHANGED <<figgy, stage, job, batches, collection, committed, dropped, moved>>
    BY <1>0, <1>3 DEF SliceRestarts
  <2>2. u \in Slice /\ u.batch = s.batch /\ u.docs = s.docs /\ u.left = s.docs
    BY <1>0 DEF Slice
  <2>3. s.docs # <<>>
    BY <1>0, EmptySeq, LenProperties
  <2> HIDE DEF u
  <2>4. SliceKept(s, {u})
    BY <2>2, <2>3 DEF SliceKept
  <2>5. SliceCounted(s, {u}, dropped', collection')
    BY <1>0, <2>2 DEF SliceCounted
  <2>6. CollectionKept(collection') /\ dropped \subseteq dropped'
    BY <1>a, <2>1
  <2> QED BY <2>1, <2>4, <2>5, <2>6, SliceStep
<1>4. ASSUME NEW h, h = Head(s.left), NEW t, t = Behind(s)
      PROVE  /\ h \in CoinDoc /\ h.coin \in Coin /\ h.version \in Nat /\ h.version # 0 /\ Fresh(h.coin, h.version)
             /\ ~s.at_once => SliceKept(s, t)
             /\ \A i \in DOMAIN s.left :
                   s.left[i] = h \/ \E u \in t : \E k \in DOMAIN u.left : u.left[k] = s.left[i]
  <2>1. /\ Head(s.left) \in CoinDoc /\ Tail(s.left) \in Seq(CoinDoc) /\ Len(Tail(s.left)) = Len(s.left) - 1
        /\ \A i \in 1 .. Len(Tail(s.left)) : Tail(s.left)[i] = s.left[i + 1]
        /\ DOMAIN Tail(s.left) = 1 .. Len(Tail(s.left))
    BY <1>0, HeadTailProperties, LenProperties
  <2>2. Len(s.left) \in Nat \ {0} /\ DOMAIN s.left = 1 .. Len(s.left) /\ h = s.left[1]
    BY <1>0, <1>4, EmptySeq, LenProperties
  <2>3. h \in CoinDoc /\ h.coin \in Coin /\ h.version \in Nat /\ h.version # 0 /\ Fresh(h.coin, h.version)
    BY <1>0, <1>4, <2>1, <2>2
  <2>4. CASE Len(s.left) = 1
    <3>1. t = {}
      BY <1>4, <2>4 DEF Behind
    <3> QED BY <1>b, <2>2, <2>3, <2>4, <3>1
  <2>5. CASE Len(s.left) # 1
    <3> DEFINE u == [s EXCEPT !.left = Tail(s.left)]
    <3>1. t = {u}
      BY <1>4, <2>5 DEF Behind
    <3>2. u \in Slice /\ u.batch = s.batch /\ u.docs = s.docs /\ u.left = Tail(s.left) /\ (~s.at_once => ~u.at_once)
      BY <1>0, <2>1 DEF Slice
    <3> HIDE DEF u
    <3>3. u.left # <<>>
      <4>1. Len(u.left) \in Nat \ {0}
        BY <2>1, <2>2, <2>5, <3>2
      <4> QED BY <4>1
    <3>4. \A i \in DOMAIN u.left : i + 1 \in DOMAIN s.left /\ u.left[i] = s.left[i + 1]
      BY <2>1, <2>2, <3>2
    <3>5. \A i \in DOMAIN u.left : \E j \in DOMAIN u.docs : u.left[i] = u.docs[j]
      BY <1>0, <3>2, <3>4
    <3>6. ASSUME NEW i \in DOMAIN s.left, i # 1 PROVE i - 1 \in DOMAIN u.left /\ u.left[i - 1] = s.left[i]
      BY <2>1, <2>2, <3>2, <3>6
    <3>7. ~s.at_once => SliceKept(s, t)
      <4>1. SUFFICES ASSUME ~s.at_once PROVE SliceKept(s, {u})
        BY <3>1
      <4>2. /\ u \in Slice /\ u.batch = s.batch /\ u.docs = s.docs /\ u.left # <<>> /\ ~u.at_once
            /\ \A i \in DOMAIN u.left : \E j \in DOMAIN u.docs : u.left[i] = u.docs[j]
        BY <3>2, <3>3, <3>5, <4>1, Zenon
      <4> QED BY ONLY <4>2 DEF SliceKept
    <3>8. ASSUME NEW i \in DOMAIN s.left
          PROVE  s.left[i] = h \/ \E v \in t : \E k \in DOMAIN v.left : v.left[k] = s.left[i]
      BY <2>2, <3>1, <3>6
    <3> QED BY <2>3, <3>7, <3>8
  <2> QED BY <2>4, <2>5
<1>5. CASE SendCoin(s)
  <2> PICK h, t : h = Head(s.left) /\ t = Behind(s)
    OBVIOUS
  <2>1. /\ collection' = [collection EXCEPT ![h.coin] = h.version] /\ Replace(s, t) /\ ~s.at_once
        /\ UNCHANGED <<figgy, stage, job, batches, committed, dropped, moved, coinFailures>>
    BY <1>5 DEF SendCoin
  <2>2. /\ h \in CoinDoc /\ h.coin \in Coin /\ h.version \in Nat /\ h.version # 0 /\ Fresh(h.coin, h.version)
        /\ SliceKept(s, t)
        /\ \A i \in DOMAIN s.left :
              s.left[i] = h \/ \E u \in t : \E k \in DOMAIN u.left : u.left[k] = s.left[i]
    BY <1>4, <2>1
  <2>3. \A c \in Coin : collection'[c] = IF c = h.coin THEN h.version ELSE collection[c]
    BY <1>0, <2>1, <2>2
  <2>4. collection' \in [Coin -> Nat]
    BY <1>0, <2>1, <2>2
  <2>5. \A c \in Coin :
           (collection[c] # 0 => collection'[c] # 0) /\ (collection'[c] # 0 => Fresh(c, collection'[c]))
    BY <1>0, <2>2, <2>3
  <2>6. CollectionKept(collection')
    BY <2>4, <2>5 DEF CollectionKept
  <2>7. SliceCounted(s, t, dropped', collection')
    BY <2>2, <2>3 DEF SliceCounted
  <2>8. dropped \subseteq dropped' /\ coinFailures' \in Nat
    BY <1>0, <2>1
  <2> QED BY <2>1, <2>2, <2>6, <2>7, <2>8, SliceStep
<1>6. CASE CoinRefused(s)
  <2> PICK h, t : h = Head(s.left) /\ t = Behind(s)
    OBVIOUS
  <2>1. /\ dropped' = dropped \cup {h.coin} /\ Replace(s, t) /\ ~s.at_once /\ coinFailures' \in Nat
        /\ UNCHANGED <<figgy, stage, job, batches, collection, committed, moved>>
    BY <1>0, <1>6 DEF CoinRefused
  <2>2. /\ SliceKept(s, t)
        /\ \A i \in DOMAIN s.left :
              s.left[i] = h \/ \E u \in t : \E k \in DOMAIN u.left : u.left[k] = s.left[i]
    BY <1>4, <2>1
  <2>3. SliceCounted(s, t, dropped', collection')
    BY <2>1, <2>2 DEF SliceCounted
  <2>4. CollectionKept(collection') /\ dropped \subseteq dropped'
    BY <1>a, <2>1
  <2> QED BY <2>1, <2>2, <2>3, <2>4, SliceStep
<1> QED BY <1>1, <1>2, <1>3, <1>5, <1>6 DEF BatchJob

LEMMA OnSuccessStep == ASSUME CoinInv, NEW b \in batches, OnSuccess(b) PROVE CoinInv'
<1> USE DEF CoinInv, OnSuccess, figgy
<1>1. CoinTypes'
  BY DEF CoinTypes
<1>2. SlicesOK' /\ StagesOK'
  BY DEF SlicesOK, StagesOK
<1>3. AllFresh' /\ LastIsCurrent'
  BY DEF AllFresh, LastIsCurrent, Fresh, Pending
<1>4. PagesSeen' /\ CommittedIsSent'
  BY DEF PagesSeen, CommittedIsSent, Seen
<1>5. PushedIsSent'
  <2> SUFFICES ASSUME job.pc \in {"pushed", "done"}, NEW c \in Due
               PROVE  collection[c] # 0 \/ (batches' # {} /\ ToSend(c))
    BY DEF PushedIsSent, Due, ToSend
  <2>1. c \in Coin
    BY DEF Due
  <2>2. CASE committed[c] # 0
    BY <2>1, <2>2 DEF CommittedIsSent
  <2>3. CASE ToSend(c)
    <3>1. PICK s \in slices : TRUE
      BY <2>3 DEF ToSend
    <3>2. s.batch \in batches'
      BY <3>1 DEF SlicesOK
    <3> QED BY <2>3, <3>2
  <2> QED BY <2>2, <2>3 DEF PushedIsSent
<1> QED BY <1>1, <1>2, <1>3, <1>4, <1>5

LEMMA CoinUnchanged == ASSUME CoinInv, UNCHANGED coinVars PROVE CoinInv'
<1> USE DEF coinVars
<1>1. CoinTypes' /\ SlicesOK' /\ StagesOK'
  BY DEF CoinInv, CoinTypes, SlicesOK, StagesOK
<1>2. AllFresh' /\ LastIsCurrent' /\ PagesSeen'
  BY DEF CoinInv, AllFresh, LastIsCurrent, PagesSeen, Fresh, Pending, Seen
<1>3. PushedIsSent' /\ CommittedIsSent'
  BY DEF CoinInv, PushedIsSent, CommittedIsSent, Due, ToSend
<1> QED BY <1>1, <1>2, <1>3 DEF CoinInv

LEMMA CoinStep == CoinInv /\ [CoinNext]_coinVars => CoinInv'
<1> SUFFICES ASSUME CoinInv, [CoinNext]_coinVars PROVE CoinInv'
  OBVIOUS
<1>1. CASE UNCHANGED coinVars
  BY <1>1, CoinUnchanged
<1>2. ASSUME NEW c \in Coin, Edit(c) PROVE CoinInv'
  BY <1>2, EditStep
<1>3. ASSUME NEW k \in DOMAIN listed, WithdrawCoin(k) PROVE CoinInv'
  BY <1>3, WithdrawStep
<1>4. CASE Sneakers
  BY <1>4, SneakersStep
<1>5. CASE Enqueue \/ Swap
  BY <1>5, OperatorStep
<1>6. CASE Job
  BY <1>6, FetchPageStep, ReadCoinStep, NextPageStep, PushStep, JobRestartsStep DEF Job
<1>7. ASSUME NEW s \in slices, BatchJob(s) PROVE CoinInv'
  BY <1>7, BatchJobStep
<1>8. ASSUME NEW b \in batches, OnSuccess(b) PROVE CoinInv'
  BY <1>8, OnSuccessStep
<1> QED BY <1>1, <1>2, <1>3, <1>4, <1>5, <1>6, <1>7, <1>8 DEF CoinNext

LEMMA CoinInvImplies == CoinInv => CoinsUpToDate
<1> SUFFICES ASSUME CoinInv, stage = "swapped", NEW c \in Due
             PROVE  committed[c] # 0 /\ (messages = <<>> => collection[c] = version[c])
  BY DEF CoinsUpToDate
<1>1. committed[c] # 0 /\ c \in Coin
  BY DEF CoinInv, StagesOK, PushedIsSent, Due
<1>2. Fresh(c, collection[c])
  BY <1>1 DEF CoinInv, CommittedIsSent, AllFresh
<1>3. messages = <<>> => ~Pending(c)
  BY EmptySeq DEF Pending
<1> QED BY <1>1, <1>2, <1>3 DEF Fresh

\* When the rebuilt collection of coins goes into production, readers find in it each coin that
\* Figgy lists and that was not given up with a warning, and once sneakers has caught up the coin
\* is as it is in Figgy (NumismaticsJob, index_in_chunks and index_individually, docs/indexing.md).
THEOREM CoinsRight == CoinSpec => []CoinsUpToDate
<1>1. CoinSpec => []CoinInv
  BY InitCoins, CoinStep, PTL DEF CoinSpec
<1> QED BY <1>1, CoinInvImplies, PTL

---------------------------------------------------------------------------
(* A behaviour of the records. *)

\* What holds of the harvest of ephemera and of the indexing of coins holds of the records: their
\* steps leave each other alone.
THEOREM RecordsHarvests == RecordsSpec => Spec /\ CoinSpec
<1>1. ASSUME [RecordsNext]_recordVars PROVE [Next]_ephemeraVars /\ [CoinNext]_coinVars
  BY <1>1 DEF RecordsNext, recordVars, Harvest, HarvestCoins, ReadThesis, ReadMarc
<1>2. RecordsInit => Init /\ CoinInit
  BY DEF RecordsInit
<1> QED BY <1>1, <1>2, PTL DEF RecordsSpec, Spec, CoinSpec

---------------------------------------------------------------------------
(* A part of a sequence is built position by position. *)

Builds(s, P, n, upTo) ==
    upTo = [k \in 0 .. n |-> IF k = 0 THEN <<>>
                             ELSE IF k \in P THEN Append(upTo[k - 1], s[k]) ELSE upTo[k - 1]]

LEMMA BuildsExist ==
    ASSUME NEW s, NEW P, NEW n \in Nat PROVE \E upTo : Builds(s, P, n, upTo)
<1> DEFINE Missing0 == {k \in Nat : ~ \E upTo : Builds(s, P, k, upTo)}
<1>1. SUFFICES ASSUME Missing0 # {} PROVE FALSE
  OBVIOUS
<1>2. PICK k \in Missing0 : \A j \in Missing0 : k <= j
  <2>1. Missing0 \subseteq Nat
    OBVIOUS
  <2> HIDE DEF Missing0
  <2> QED BY <1>1, <2>1, LeastExists
<1>3. CASE k = 0
  <2>1. Builds(s, P, 0, [i \in 0 .. 0 |-> <<>>])
    BY DEF Builds
  <2> QED BY <1>3, <2>1
<1>4. CASE k # 0
  <2>1. k - 1 \in Nat /\ k - 1 \notin Missing0
    <3>1. k - 1 \in Nat /\ ~(k <= k - 1)
      BY <1>4
    <3> HIDE DEF Missing0
    <3> QED BY <1>2, <3>1
  <2>2. PICK upTo : Builds(s, P, k - 1, upTo)
    BY <2>1
  <2> DEFINE last == IF k \in P THEN Append(upTo[k - 1], s[k]) ELSE upTo[k - 1]
             next == [i \in 0 .. k |-> IF i = k THEN last ELSE upTo[i]]
  <2>3. upTo = [i \in 0 .. k - 1 |-> IF i = 0 THEN <<>>
                                     ELSE IF i \in P THEN Append(upTo[i - 1], s[i]) ELSE upTo[i - 1]]
    BY <2>2 DEF Builds
  <2>4. ASSUME NEW i \in 0 .. k
        PROVE  next[i] = IF i = 0 THEN <<>>
                         ELSE IF i \in P THEN Append(next[i - 1], s[i]) ELSE next[i - 1]
    <3>1. CASE i = k
      <4>1. next[i] = last /\ k - 1 \in 0 .. k /\ k - 1 # k
        BY <1>4, <2>1, <3>1
      <4>2. next[k - 1] = upTo[k - 1]
        BY <4>1
      <4> QED BY <1>4, <3>1, <4>1, <4>2
    <3>2. CASE i # k /\ i # 0
      <4>1. next[i] = upTo[i] /\ i \in 0 .. k - 1 /\ i - 1 \in 0 .. k /\ i - 1 # k
        BY <3>2
      <4>2. next[i - 1] = upTo[i - 1]
        BY <4>1
      <4>3. upTo[i] = IF i \in P THEN Append(upTo[i - 1], s[i]) ELSE upTo[i - 1]
        BY <2>3, <3>2, <4>1
      <4> QED BY <3>2, <4>1, <4>2, <4>3
    <3>3. CASE i # k /\ i = 0
      <4>1. 0 \in 0 .. k - 1 /\ next[0] = upTo[0]
        BY <1>4, <3>3
      <4>2. upTo[0] = <<>>
        BY <2>3, <4>1
      <4> QED BY <3>3, <4>1, <4>2
    <3> QED BY <3>1, <3>2, <3>3
  <2>5. next = [i \in 0 .. k |-> IF i = 0 THEN <<>>
                                 ELSE IF i \in P THEN Append(next[i - 1], s[i]) ELSE next[i - 1]]
    BY <2>4
  <2>6. Builds(s, P, k, next)
    BY <2>5 DEF Builds
  <2> QED BY <2>6
<1> QED BY <1>3, <1>4

LEMMA ChosenSteps ==
    ASSUME NEW s, NEW P, Len(s) \in Nat
    PROVE  \E upTo : /\ Chosen(s, P) = upTo[Len(s)]
                     /\ upTo[0] = <<>>
                     /\ \A n \in 1 .. Len(s) :
                           upTo[n] = IF n \in P THEN Append(upTo[n - 1], s[n]) ELSE upTo[n - 1]
<1> DEFINE upTo == CHOOSE upTo : upTo = [n \in 0 .. Len(s) |->
                       IF n = 0 THEN <<>> ELSE IF n \in P THEN Append(upTo[n - 1], s[n]) ELSE upTo[n - 1]]
<1>1. \E u : u = [n \in 0 .. Len(s) |-> IF n = 0 THEN <<>> ELSE IF n \in P THEN Append(u[n - 1], s[n]) ELSE u[n - 1]]
  <2>1. \E u : Builds(s, P, Len(s), u)
    BY BuildsExist
  <2> QED BY <2>1 DEF Builds
<1>2. upTo = [n \in 0 .. Len(s) |-> IF n = 0 THEN <<>> ELSE IF n \in P THEN Append(upTo[n - 1], s[n]) ELSE upTo[n - 1]]
  BY <1>1, Zenon
<1>3. Chosen(s, P) = upTo[Len(s)]
  BY Zenon DEF Chosen
<1> HIDE DEF upTo
<1>4. upTo[0] = <<>>
  <2>1. 0 \in 0 .. Len(s)
    OBVIOUS
  <2> QED BY <1>2, <2>1
<1>5. ASSUME NEW n \in 1 .. Len(s)
      PROVE  upTo[n] = IF n \in P THEN Append(upTo[n - 1], s[n]) ELSE upTo[n - 1]
  <2>1. n \in 0 .. Len(s) /\ n # 0
    OBVIOUS
  <2> QED BY <1>2, <2>1
<1> QED BY <1>3, <1>4, <1>5

LEMMA Appending ==
    ASSUME NEW V, NEW s \in Seq(V), NEW v \in V
    PROVE  Append(s, v) \in Seq(V) /\ Append(s, v) # <<>>
BY AppendProperties

LEMMA ChosenType ==
    ASSUME NEW s, Len(s) \in Nat, NEW P, NEW V, \A i \in 1 .. Len(s) : s[i] \in V,
           NEW upTo, upTo[0] = <<>>,
           \A n \in 1 .. Len(s) : upTo[n] = IF n \in P THEN Append(upTo[n - 1], s[n]) ELSE upTo[n - 1]
    PROVE  \A n \in 0 .. Len(s) : upTo[n] \in Seq(V)
<1> DEFINE Wrong == {n \in 0 .. Len(s) : upTo[n] \notin Seq(V)}
<1>1. SUFFICES ASSUME Wrong # {} PROVE FALSE
  OBVIOUS
<1>2. PICK n \in Wrong : \A k \in Wrong : n <= k
  <2>1. Wrong \subseteq Nat
    OBVIOUS
  <2> HIDE DEF Wrong
  <2> QED BY <1>1, <2>1, LeastExists
<1>3. n # 0
  BY <1>2, EmptySeq
<1>4. n \in 1 .. Len(s) /\ n - 1 \in 0 .. Len(s) /\ ~(n <= n - 1)
  BY <1>3
<1>5. upTo[n - 1] \in Seq(V)
  BY <1>2, <1>4
<1>6. Append(upTo[n - 1], s[n]) \in Seq(V)
  <2>1. s[n] \in V
    BY <1>4
  <2> QED BY <1>5, <2>1, Appending
<1>7. upTo[n] \in Seq(V)
  BY <1>4, <1>5, <1>6
<1> QED BY <1>2, <1>7

LEMMA ChosenIsPart ==
    ASSUME NEW V, NEW s \in Seq(V), NEW P
    PROVE  /\ Chosen(s, P) \in Seq(V)
           /\ (\E i \in P : i \in 1 .. Len(s)) => Chosen(s, P) # <<>>
           /\ ~(\E i \in P : i \in 1 .. Len(s)) => Chosen(s, P) = <<>>
<1>1. Len(s) \in Nat /\ \A i \in 1 .. Len(s) : s[i] \in V
  BY LenProperties, ElementOfSeq
<1>2. PICK upTo : /\ Chosen(s, P) = upTo[Len(s)]
                  /\ upTo[0] = <<>>
                  /\ \A n \in 1 .. Len(s) :
                        upTo[n] = IF n \in P THEN Append(upTo[n - 1], s[n]) ELSE upTo[n - 1]
  BY <1>1, ChosenSteps
<1>3. \A n \in 0 .. Len(s) : upTo[n] \in Seq(V)
  BY <1>1, <1>2, ChosenType
<1>4. \A n \in 0 .. Len(s) : (\E i \in P : i \in 1 .. n) <=> upTo[n] # <<>>
  <2> DEFINE Wrong == {n \in 0 .. Len(s) : ~((\E i \in P : i \in 1 .. n) <=> upTo[n] # <<>>)}
  <2>1. SUFFICES ASSUME Wrong # {} PROVE FALSE
    OBVIOUS
  <2>2. PICK n \in Wrong : \A k \in Wrong : n <= k
    <3>1. Wrong \subseteq Nat
      BY <1>1
    <3> HIDE DEF Wrong
    <3> QED BY <2>1, <3>1, LeastExists
  <2>3. n # 0
    BY <1>2, <2>2
  <2>4. n \in 1 .. Len(s) /\ n - 1 \in 0 .. Len(s) /\ ~(n <= n - 1)
    BY <1>1, <2>2, <2>3
  <2>5. (\E i \in P : i \in 1 .. n - 1) <=> upTo[n - 1] # <<>>
    BY <2>2, <2>4
  <2>6. \A i : i \in 1 .. n <=> (i \in 1 .. n - 1 \/ i = n)
    BY <2>4
  <2>7. CASE n \in P
    <3>1. upTo[n] # <<>>
      <4>1. Append(upTo[n - 1], s[n]) # <<>>
        <5>1. upTo[n - 1] \in Seq(V)
          BY <1>3, <2>4
        <5>2. s[n] \in V
          BY <1>1, <2>4
        <5> QED BY <5>1, <5>2, Appending
      <4> QED BY <1>2, <2>4, <2>7, <4>1
    <3> QED BY <2>2, <2>6, <2>7, <3>1
  <2>8. CASE n \notin P
    <3>1. upTo[n] = upTo[n - 1]
      BY <1>2, <2>4, <2>8
    <3>2. (\E i \in P : i \in 1 .. n) <=> (\E i \in P : i \in 1 .. n - 1)
      BY <2>6, <2>8
    <3> QED BY <2>2, <2>5, <3>1, <3>2
  <2> QED BY <2>7, <2>8
<1>5. Len(s) \in 0 .. Len(s)
  BY <1>1
<1> QED BY <1>2, <1>3, <1>4, <1>5

\* What is chosen of a longer sequence.
LEMMA ChosenAppend ==
    ASSUME NEW V, NEW s \in Seq(V), NEW v \in V, NEW P, NEW Q, \A i \in 1 .. Len(s) : i \in P <=> i \in Q
    PROVE  Chosen(Append(s, v), Q) = IF Len(s) + 1 \in Q THEN Append(Chosen(s, P), v) ELSE Chosen(s, P)
<1> DEFINE t == Append(s, v)
<1>1. /\ t \in Seq(V) /\ Len(t) = Len(s) + 1 /\ Len(s) \in Nat
      /\ \A i \in 1 .. Len(s) : t[i] = s[i]
      /\ t[Len(s) + 1] = v
  BY AppendProperties, LenProperties
<1> HIDE DEF t
<1>2. PICK a : /\ Chosen(s, P) = a[Len(s)]
               /\ a[0] = <<>>
               /\ \A n \in 1 .. Len(s) : a[n] = IF n \in P THEN Append(a[n - 1], s[n]) ELSE a[n - 1]
  BY <1>1, ChosenSteps
<1>3. PICK b : /\ Chosen(t, Q) = b[Len(t)]
               /\ b[0] = <<>>
               /\ \A n \in 1 .. Len(t) : b[n] = IF n \in Q THEN Append(b[n - 1], t[n]) ELSE b[n - 1]
  BY <1>1, ChosenSteps
<1>4. a[Len(s)] = b[Len(s)]
  <2> DEFINE Wrong == {n \in 0 .. Len(s) : a[n] # b[n]}
  <2>1. Wrong = {}
    <3>1. SUFFICES ASSUME Wrong # {} PROVE FALSE
      OBVIOUS
    <3>2. PICK n \in Wrong : \A k \in Wrong : n <= k
      <4>1. Wrong \subseteq Nat
        BY <1>1
      <4> HIDE DEF Wrong
      <4> QED BY <3>1, <4>1, LeastExists
    <3>3. n # 0
      BY <1>2, <1>3, <3>2
    <3>4. n \in 1 .. Len(s) /\ n \in 1 .. Len(t) /\ n - 1 \in 0 .. Len(s) /\ ~(n <= n - 1)
      BY <1>1, <3>2, <3>3
    <3>5. a[n - 1] = b[n - 1]
      BY <3>2, <3>4
    <3>6. a[n] = b[n]
      BY <1>1, <1>2, <1>3, <3>4, <3>5
    <3> QED BY <3>2, <3>6
  <2> QED BY <1>1, <2>1
<1>5. Len(t) \in 1 .. Len(t) /\ Len(t) - 1 = Len(s)
  BY <1>1
<1>6. b[Len(t)] = IF Len(t) \in Q THEN Append(b[Len(t) - 1], t[Len(t)]) ELSE b[Len(t) - 1]
  BY <1>3, <1>5
<1> QED BY <1>1, <1>2, <1>3, <1>4, <1>5, <1>6 DEF t

LEMMA NothingChosen == ASSUME NEW P PROVE Chosen(<<>>, P) = <<>>
<1>1. <<>> \in Seq({}) /\ Len(<<>>) = 0
  BY EmptySeq
<1>2. ~ \E i \in P : i \in 1 .. Len(<<>>)
  BY <1>1
<1> QED BY <1>1, <1>2, ChosenIsPart

---------------------------------------------------------------------------
(* The theses.  A document of the old DSpace is made of its pairs one by one: *)
(* what holds of the empty one and is kept by each pair holds of it.         *)

\* The document after the first n pairs.
Empty == [f \in Field |-> None]
Documents(metadata, n, doc) ==
    doc = [k \in 0 .. n |-> IF k = 0 THEN Empty ELSE With(doc[k - 1], metadata[k])]

LEMMA DocumentsExist ==
    ASSUME NEW metadata, NEW n \in Nat PROVE \E doc : Documents(metadata, n, doc)
<1> DEFINE Missing0 == {k \in Nat : ~ \E doc : Documents(metadata, k, doc)}
<1>1. SUFFICES ASSUME Missing0 # {} PROVE FALSE
  OBVIOUS
<1>2. PICK k \in Missing0 : \A j \in Missing0 : k <= j
  <2>1. Missing0 \subseteq Nat
    OBVIOUS
  <2> HIDE DEF Missing0
  <2> QED BY <1>1, <2>1, LeastExists
<1>3. CASE k = 0
  <2>1. Documents(metadata, 0, [i \in 0 .. 0 |-> Empty])
    BY DEF Documents
  <2> QED BY <1>3, <2>1
<1>4. CASE k # 0
  <2>1. k - 1 \in Nat /\ k - 1 \notin Missing0
    <3>1. k - 1 \in Nat /\ ~(k <= k - 1)
      BY <1>4
    <3> HIDE DEF Missing0
    <3> QED BY <1>2, <3>1
  <2>2. PICK doc : Documents(metadata, k - 1, doc)
    BY <2>1
  <2> DEFINE next == [i \in 0 .. k |-> IF i = k THEN With(doc[k - 1], metadata[k]) ELSE doc[i]]
  <2>3. doc = [i \in 0 .. k - 1 |-> IF i = 0 THEN Empty ELSE With(doc[i - 1], metadata[i])]
    BY <2>2 DEF Documents
  <2>4. ASSUME NEW i \in 0 .. k
        PROVE  next[i] = IF i = 0 THEN Empty ELSE With(next[i - 1], metadata[i])
    <3>1. CASE i = k
      <4>1. next[i] = With(doc[k - 1], metadata[k]) /\ k - 1 \in 0 .. k /\ k - 1 # k
        BY <1>4, <2>1, <3>1
      <4>2. next[k - 1] = doc[k - 1]
        BY <4>1
      <4> QED BY <1>4, <3>1, <4>1, <4>2
    <3>2. CASE i # k /\ i # 0
      <4>1. /\ next[i] = doc[i] /\ i \in 0 .. k - 1 /\ i - 1 \in 0 .. k /\ i - 1 # k
        BY <3>2
      <4>2. next[i - 1] = doc[i - 1]
        BY <4>1
      <4>3. doc[i] = With(doc[i - 1], metadata[i])
        BY <2>3, <3>2, <4>1
      <4> QED BY <3>2, <4>1, <4>2, <4>3
    <3>3. CASE i # k /\ i = 0
      <4>1. 0 \in 0 .. k - 1 /\ next[0] = doc[0]
        BY <1>4, <3>3
      <4>2. doc[0] = Empty
        BY <2>3, <4>1
      <4> QED BY <3>3, <4>1, <4>2
    <3> QED BY <3>1, <3>2, <3>3
  <2>5. next = [i \in 0 .. k |-> IF i = 0 THEN Empty ELSE With(next[i - 1], metadata[i])]
    BY <2>4
  <2>6. Documents(metadata, k, next)
    BY <2>5 DEF Documents
  <2> QED BY <2>6
<1> QED BY <1>3, <1>4

LEMMA LegacySteps ==
    ASSUME NEW metadata, Len(metadata) \in Nat
    PROVE  \E doc : /\ \A n \in 0 .. Len(metadata) :
                          doc[n] = IF n = 0 THEN Empty ELSE With(doc[n - 1], metadata[n])
                    /\ LegacyDocument(metadata) = doc[Len(metadata)]
<1> DEFINE doc == CHOOSE doc : doc = [n \in 0 .. Len(metadata) |->
                                IF n = 0 THEN Empty ELSE With(doc[n - 1], metadata[n])]
<1>1. \E d : d = [n \in 0 .. Len(metadata) |-> IF n = 0 THEN Empty ELSE With(d[n - 1], metadata[n])]
  BY DocumentsExist DEF Documents
<1>2. doc = [n \in 0 .. Len(metadata) |-> IF n = 0 THEN Empty ELSE With(doc[n - 1], metadata[n])]
  BY <1>1, Zenon
<1>3. LegacyDocument(metadata) = doc[Len(metadata)]
  BY Zenon DEF LegacyDocument, Empty
<1> HIDE DEF doc
<1> QED BY <1>2, <1>3

\* A field of the document is None or has values of its key.
ThesisType(V) == [Field -> {None} \cup {s \in Seq(V) : s # <<>>}]

LEMMA LegacyType ==
    ASSUME NEW metadata, Len(metadata) \in Nat, NEW V, \A i \in 1 .. Len(metadata) : metadata[i].value \in V
    PROVE  LegacyDocument(metadata) \in ThesisType(V)
<1>1. PICK doc : /\ \A n \in 0 .. Len(metadata) :
                          doc[n] = IF n = 0 THEN Empty ELSE With(doc[n - 1], metadata[n])
                 /\ LegacyDocument(metadata) = doc[Len(metadata)]
  BY LegacySteps
<1> DEFINE Wrong == {n \in 0 .. Len(metadata) : doc[n] \notin ThesisType(V)}
<1>2. SUFFICES ASSUME Wrong # {} PROVE FALSE
  BY <1>1
<1>3. PICK n \in Wrong : \A k \in Wrong : n <= k
  <2>1. Wrong \subseteq Nat
    OBVIOUS
  <2> HIDE DEF Wrong
  <2> QED BY <1>2, <2>1, LeastExists
<1>4. Empty \in ThesisType(V)
  BY DEF Empty, ThesisType
<1>5. n # 0
  BY <1>1, <1>3, <1>4
<1>6. n - 1 \in 0 .. Len(metadata) /\ ~(n <= n - 1) /\ n \in 1 .. Len(metadata)
  BY <1>5
<1>7. doc[n - 1] \in ThesisType(V)
  BY <1>3, <1>6
<1>8. ASSUME NEW d \in ThesisType(V), NEW entry, entry.value \in V PROVE With(d, entry) \in ThesisType(V)
  <2>1. ASSUME NEW g \in Field
        PROVE  (IF KeyOf[g] # entry.key \/ entry.value = Null THEN d[g]
                ELSE IF d[g] = None THEN <<entry.value>> ELSE Append(d[g], entry.value))
                  \in {None} \cup {s \in Seq(V) : s # <<>>}
    <3>1. d[g] \in {None} \cup {s \in Seq(V) : s # <<>>}
      BY DEF ThesisType
    <3>2. <<entry.value>> \in Seq(V) /\ <<entry.value>> # <<>>
      BY <1>8
    <3>3. d[g] # None => Append(d[g], entry.value) \in Seq(V) /\ Append(d[g], entry.value) # <<>>
      BY <1>8, <3>1, AppendProperties
    <3> QED BY <3>1, <3>2, <3>3
  <2> QED BY <2>1 DEF With, ThesisType
<1>9. doc[n] \in ThesisType(V)
  <2>1. metadata[n].value \in V
    BY <1>6
  <2>2. doc[n] = With(doc[n - 1], metadata[n])
    BY <1>1, <1>5
  <2> QED BY <1>7, <1>8, <2>1, <2>2
<1> QED BY <1>3, <1>9

\* What the fields say of the dates of a document.
LEMMA FirstIsValue ==
    ASSUME NEW V, None \notin V, NEW doc \in ThesisType(V), NEW g \in Field
    PROVE  /\ Values(doc, g) \in Seq(V)
           /\ doc[g] = None => Values(doc, g) = <<>> /\ First(doc, g) = None
           /\ doc[g] # None =>
                 /\ Values(doc, g) # <<>> /\ Len(Values(doc, g)) \in Nat \ {0}
                 /\ First(doc, g) = Values(doc, g)[1] /\ First(doc, g) # None
<1>1. doc[g] \in {None} \cup {s \in Seq(V) : s # <<>>}
  BY DEF ThesisType
<1>2. CASE doc[g] = None
  BY <1>2, EmptySeq DEF Values, First
<1>3. CASE doc[g] # None
  <2>1. doc[g] \in Seq(V) /\ doc[g] # <<>> /\ Values(doc, g) = doc[g]
    BY <1>1, <1>3 DEF Values
  <2>2. Len(doc[g]) \in Nat \ {0} /\ Head(doc[g]) \in V /\ Head(doc[g]) = doc[g][1]
    BY <2>1, EmptySeq, HeadTailProperties
  <2> QED BY <1>3, <2>1, <2>2 DEF First
<1> QED BY <1>2, <1>3

LEMMA FieldNames ==
    /\ {"contributor", "contributor_advisor", "contributor_author", "description_abstract", "format_extent",
        "identifier_other", "identifier_uri", "language_iso", "rights_access_rights", "title", "certificate",
        "date_classyear", "department", "embargo_lift", "embargo_terms", "location", "mudd_walkin"} = Field
BY DEF Field, KeyOf

LEMMA EmbargoIs ==
    ASSUME NEW V, None \notin V, NEW doc \in ThesisType(V), NEW today \in Int,
           NEW lift, lift = (IF First(doc, "embargo_lift") # None THEN First(doc, "embargo_lift")
                             ELSE First(doc, "embargo_terms")),
           lift \in DOMAIN Instant
    PROVE  Embargo(doc, today) = IF today < Instant[lift] THEN "current" ELSE "expired"
<1> DEFINE a == Values(doc, "embargo_lift")
           b == Values(doc, "embargo_terms")
<1>1. "embargo_lift" \in Field /\ "embargo_terms" \in Field
  BY FieldNames
<1>2. a \in Seq(V) /\ b \in Seq(V)
  BY <1>1, FirstIsValue
<1>3. Head(a \o b) = lift /\ a \o b # <<>>
  <2>1. CASE doc["embargo_lift"] # None
    <3>1. Len(a) \in Nat \ {0} /\ lift = a[1]
      BY <1>1, <2>1, FirstIsValue
    <3>2. a \o b \in Seq(V) /\ Len(a \o b) = Len(a) + Len(b) /\ (a \o b)[1] = a[1]
      BY <1>2, <3>1, ConcatProperties, LenProperties
    <3> HIDE DEF a, b
    <3>3. a \o b # <<>>
      BY <1>2, <3>1, <3>2, LenProperties, EmptySeq
    <3> QED BY <3>1, <3>2, <3>3
  <2>2. CASE doc["embargo_lift"] = None
    <3>1. a = <<>> /\ lift = First(doc, "embargo_terms")
      BY <1>1, <2>2, FirstIsValue
    <3>2. lift # None
      BY ThesisAssumption DEF ThesisAssumption
    <3>3. b # <<>> /\ lift = b[1]
      BY <1>1, <3>1, <3>2, FirstIsValue
    <3>4. a \o b = b
      BY <1>2, <3>1, ConcatEmptySeq
    <3> QED BY <1>2, <3>3, <3>4
  <2> QED BY <2>1, <2>2
<1> HIDE DEF a, b
<1>4. Embargo(doc, today) = IF Instant[lift] > today THEN "current" ELSE "expired"
  <2>1. lift \notin BeyondRange
    BY ThesisAssumption DEF ThesisAssumption
  <2> QED BY <1>3, <2>1 DEF Embargo, a, b
<1>5. Instant[lift] \in Int
  BY ThesisAssumption DEF ThesisAssumption
<1> QED BY <1>4, <1>5

\* Without its embargo a document says the same, if the embargo is over.
LEMMA FreeDocument ==
    ASSUME NEW V, NEW doc \in ThesisType(V), NEW today, Embargo(doc, today) = "expired"
    PROVE  SolrDocument(doc, today)
              = SolrDocument([doc EXCEPT !.embargo_lift = None, !.embargo_terms = None], today)
<1> DEFINE Kept == {"contributor", "contributor_advisor", "contributor_author", "description_abstract",
               "format_extent", "identifier_other", "identifier_uri", "language_iso", "rights_access_rights",
               "title", "certificate", "date_classyear", "department", "location", "mudd_walkin"}
<1> PICK free : free = [doc EXCEPT !.embargo_lift = None, !.embargo_terms = None]
  OBVIOUS
<1>1. /\ \A g \in Kept : free[g] = doc[g]
      /\ free["embargo_lift"] = None /\ free["embargo_terms"] = None
  BY FieldNames DEF ThesisType
<1>2. /\ \A g \in Kept : First(free, g) = First(doc, g) /\ Values(free, g) = Values(doc, g)
      /\ \A g \in Kept : \A table : AuthorizedField(free, g, table) = AuthorizedField(doc, g, table)
  BY <1>1 DEF First, Values, AuthorizedField
<1>3. Embargo(free, today) = "none"
  <2>1. Values(free, "embargo_lift") \o Values(free, "embargo_terms") = <<>>
    <3>1. Values(free, "embargo_lift") = <<>> /\ Values(free, "embargo_terms") = <<>>
      BY <1>1 DEF Values
    <3>2. <<>> \in Seq(V)
      BY EmptySeq
    <3> QED BY <3>1, <3>2, ConcatEmptySeq
  <2> QED BY <2>1 DEF Embargo
<1>4. OnSiteOnly(free, today) = OnSiteOnly(doc, today)
  BY <1>1, <1>2, <1>3 DEF OnSiteOnly, PhysicalClassYear, WalkinIsYes
<1>5. AccessFacet(free, today) = AccessFacet(doc, today)
  BY <1>3, <1>4 DEF AccessFacet
<1>6. /\ Location(free, today) = Location(doc, today)
      /\ ArkHash(free, today) = ArkHash(doc, today)
      /\ CallNumber(free) = CallNumber(doc)
      /\ PhysicalHolding(free, today) = PhysicalHolding(doc, today)
  BY <1>2, <1>4 DEF Location, ArkHash, CallNumber, PhysicalHolding
<1>7. RestrictionsNote(free, today) = RestrictionsNote(doc, today)
  BY <1>1, <1>2, <1>3 DEF RestrictionsNote, WalkinIsYes
<1>8. AllAuthors(free) = AllAuthors(doc) /\ ClassYear(free) = ClassYear(doc) /\ Languages(free) = Languages(doc)
  BY <1>2 DEF AllAuthors, ClassYear, Languages
<1> HIDE DEF Kept
<1>9. /\ free.contributor_author = doc.contributor_author /\ free.contributor_advisor = doc.contributor_advisor
      /\ free.contributor = doc.contributor /\ free.format_extent = doc.format_extent
      /\ free.description_abstract = doc.description_abstract
      /\ First(free, "title") = First(doc, "title")
      /\ First(free, "contributor_author") = First(doc, "contributor_author")
      /\ AuthorizedField(free, "department", Department) = AuthorizedField(doc, "department", Department)
      /\ AuthorizedField(free, "certificate", Program) = AuthorizedField(doc, "certificate", Program)
  BY <1>1, <1>2 DEF Kept
<1>10. SolrDocument(free, today) = SolrDocument(doc, today)
  BY <1>5, <1>6, <1>7, <1>8, <1>9 DEF SolrDocument
<1> QED BY <1>10

\* While the embargo lasts the text is not offered, and a note says so.
LEMMA EmbargoedDocument ==
    ASSUME NEW V, None \notin V, NEW doc \in ThesisType(V), NEW today, Embargo(doc, today) = "current"
    PROVE  LET solrDoc == SolrDocument(doc, today)
           IN  /\ solrDoc.access_facet = None /\ solrDoc.restrictions_note # None
               /\ solrDoc.electronic_access # None => solrDoc.electronic_access.description = "Citation only"
<1> DEFINE solrDoc == SolrDocument(doc, today)
<1>1. /\ solrDoc.access_facet = AccessFacet(doc, today)
      /\ solrDoc.restrictions_note = RestrictionsNote(doc, today)
      /\ solrDoc.electronic_access = ArkHash(doc, today)
  BY DEF SolrDocument
<1> HIDE DEF solrDoc
<1>2. OnSiteOnly(doc, today)
  BY DEF OnSiteOnly
<1>3. AccessFacet(doc, today) = None
  BY DEF AccessFacet
<1>4. ArkHash(doc, today) # None => ArkHash(doc, today).description = "Citation only"
  BY <1>2 DEF ArkHash
<1>5. RestrictionsNote(doc, today) # None
  <2>1. CASE doc.rights_access_rights # None
    <3>1. First(doc, "rights_access_rights") # None
      BY <2>1, FieldNames, FirstIsValue
    <3> QED BY <2>1, <3>1 DEF RestrictionsNote
  <2>2. CASE doc.rights_access_rights = None
    BY <2>2, ThesisAssumption DEF RestrictionsNote, ThesisAssumption
  <2> QED BY <2>1, <2>2
<1> QED BY <1>1, <1>3, <1>4, <1>5 DEF solrDoc

\* What was read last was there to be read.
RecordRead ==
    /\ record.kind = "thesis" => record.metadata \in LegacyTheses /\ record.day \in Day
    /\ record.kind = "marc" => record.marc \in MarcRecords

LEMMA RecordsAlways == RecordsSpec => []RecordRead
<1>1. RecordsInit => RecordRead
  BY DEF RecordsInit, Nothing, RecordRead
<1>2. ASSUME RecordRead, [RecordsNext]_recordVars PROVE RecordRead'
  BY <1>2 DEF RecordRead, RecordsNext, recordVars, Harvest, HarvestCoins, ReadThesis, ReadMarc
<1> QED BY <1>1, <1>2, PTL DEF RecordsSpec

\* Until the day an embargo lifts no text is offered and a note says why; from then on the thesis
\* is in the catalog as if it had never been embargoed, whatever the pairs of its metadata
\* (embargo.rs, dataspace_solr_mapping.rs).
THEOREM EmbargoesLift == RecordsSpec => []EmbargoLifts
<1>1. ASSUME RecordRead PROVE EmbargoLifts
  <2> DEFINE metadata == record.metadata
             V == {metadata[i].value : i \in 1 .. Len(metadata)}
             doc == LegacyDocument(metadata)
             lift == IF First(doc, "embargo_lift") # None THEN First(doc, "embargo_lift")
                     ELSE First(doc, "embargo_terms")
  <2> SUFFICES ASSUME record.kind = "thesis", lift \in DOMAIN Instant
               PROVE  LET solrDoc == SolrDocument(doc, record.day)
                          free == [doc EXCEPT !.embargo_lift = None, !.embargo_terms = None]
                      IN  IF record.day < Instant[lift]
                          THEN /\ solrDoc.access_facet = None /\ solrDoc.restrictions_note # None
                               /\ solrDoc.electronic_access # None =>
                                     solrDoc.electronic_access.description = "Citation only"
                          ELSE solrDoc = SolrDocument(free, record.day)
    BY DEF EmbargoLifts
  <2>1. metadata \in LegacyTheses /\ record.day \in Int
    BY <1>1, RecordsAssumption DEF RecordRead
  <2>2. Len(metadata) \in Nat /\ None \notin V /\ \A i \in 1 .. Len(metadata) : metadata[i].value \in V
    BY <2>1, RecordsAssumption DEF IsLegacy, IsList
  <2> HIDE DEF V
  <2>3. doc \in ThesisType(V)
    BY <2>2, LegacyType
  <2> HIDE DEF doc
  <2>4. Embargo(doc, record.day) = IF record.day < Instant[lift] THEN "current" ELSE "expired"
    BY <2>1, <2>2, <2>3, EmbargoIs
  <2> HIDE DEF lift
  <2>5. CASE record.day < Instant[lift]
    BY <2>2, <2>3, <2>4, <2>5, EmbargoedDocument
  <2>6. CASE ~(record.day < Instant[lift])
    BY <2>3, <2>4, <2>6, FreeDocument
  <2> QED BY <2>5, <2>6
<1> QED BY <1>1, RecordsAlways, PTL

\* The facet, the location, the holding and the link of a thesis agree on where it can be read
\* (dataspace_solr_mapping.rs).
THEOREM AvailabilityAgrees ==
    ASSUME \A x, y : None # <<x, y>>
    PROVE  RecordsSpec => []OneAvailability
<1>1. ASSUME NEW doc, NEW today
      PROVE  LET solrDoc == SolrDocument(doc, today)
                 online == solrDoc.access_facet = "Online"
             IN  /\ online <=> solrDoc.holdings = None
                 /\ online <=> solrDoc.location = None
                 /\ solrDoc.electronic_access # None =>
                       (online <=> solrDoc.electronic_access.description = "Full text")
  <2> DEFINE solrDoc == SolrDocument(doc, today)
  <2>1. /\ solrDoc.access_facet = AccessFacet(doc, today)
        /\ solrDoc.holdings = PhysicalHolding(doc, today)
        /\ solrDoc.location = Location(doc, today)
        /\ solrDoc.electronic_access = ArkHash(doc, today)
    BY DEF SolrDocument
  <2> HIDE DEF solrDoc
  <2>2. AccessFacet(doc, today) = "Online" <=> ~OnSiteOnly(doc, today)
    BY ThesisAssumption DEF AccessFacet, OnSiteOnly, ThesisAssumption
  <2>3. PhysicalHolding(doc, today) = None <=> ~OnSiteOnly(doc, today)
    BY DEF PhysicalHolding, CallNumber
  <2>4. Location(doc, today) = None <=> ~OnSiteOnly(doc, today)
    BY ThesisAssumption DEF Location, ThesisAssumption
  <2>5. ArkHash(doc, today) # None =>
           (ArkHash(doc, today).description = "Full text" <=> ~OnSiteOnly(doc, today))
    BY DEF ArkHash
  <2> QED BY <2>1, <2>2, <2>3, <2>4, <2>5 DEF solrDoc
<1>2. OneAvailability
  BY <1>1 DEF OneAvailability
<1> QED BY <1>2, PTL

---------------------------------------------------------------------------
(* MARC records. *)

Back(i) == IF <<i.y, i.z>> = InResourceSharing THEN [i EXCEPT !.y = Absent] ELSE i
Returned(marc) == [marc EXCEPT !.items = [k \in DOMAIN marc.items |-> Back(marc.items[k])]]

\* An item that has come back from a loan differs in where it is.
LEMMA BackIs ==
    ASSUME NEW i, i = [f0 |-> i.f0, x |-> i.x, y |-> i.y, z |-> i.z, a |-> i.a]
    PROVE  /\ Back(i).f0 = i.f0 /\ Back(i).z = i.z
           /\ IF <<i.y, i.z>> = InResourceSharing THEN Back(i).y = Absent ELSE Back(i) = i
<1>1. CASE <<i.y, i.z>> = InResourceSharing
  <2>1. Back(i) = [i EXCEPT !.y = Absent] BY <1>1 DEF Back
  <2> QED BY <1>1, <2>1
<1>2. CASE <<i.y, i.z>> # InResourceSharing
  BY <1>2 DEF Back
<1> QED BY <1>1, <1>2

\* What the operators say of a record and a holding.
LEMMA CurrentIs ==
    ASSUME NEW marc, NEW holding, NEW places, NEW first, NEW item, holding.f8 # Absent,
           places = {k \in DOMAIN marc.items : marc.items[k].f0 = holding.f8}, places \subseteq Nat,
           first \in places, \A j \in places : first <= j, item = marc.items[first]
    PROVE  CurrentLocation(marc, holding) = IF Absent \in {item.y, item.z} THEN Absent ELSE <<item.y, item.z>>
<1> DEFINE least == CHOOSE k \in places : \A j \in places : k <= j
<1>1. least \in places /\ \A j \in places : least <= j
  OBVIOUS
<1>2. least = first
  BY <1>1
<1> QED BY <1>2 DEF CurrentLocation

LEMMA CurrentIsAbsent ==
    ASSUME NEW marc, NEW holding,
           holding.f8 = Absent \/ {k \in DOMAIN marc.items : marc.items[k].f0 = holding.f8} = {}
    PROVE  CurrentLocation(marc, holding) = Absent
  BY DEF CurrentLocation

LEMMA CodeIs ==
    ASSUME NEW marc, NEW holding, NEW current, NEW permanent,
           CurrentLocation(marc, holding) = current, PermanentLocation(marc, holding) = permanent
    PROVE  LocationCode(marc, holding) =
             IF current = Absent \/ (current = InResourceSharing /\ permanent # Absent)
             THEN permanent ELSE current
  BY DEF LocationCode

\* The location of a holding is the same when the items are back.
LEMMA SameCode ==
    ASSUME NEW marc, IsMarc(marc), ControlNumber(marc) = "alma",
           NEW h \in DOMAIN marc.holdings, marc.holdings[h].f8 \in AlmaHolding
    PROVE  LocationCode(Returned(marc), marc.holdings[h]) = LocationCode(marc, marc.holdings[h])
<1> DEFINE holding == marc.holdings[h]
           places == {k \in DOMAIN marc.items : marc.items[k].f0 = holding.f8}
           first == CHOOSE k \in places : \A j \in places : k <= j
           item == marc.items[first]
           back == Returned(marc)
<1>1. /\ back.control_number = marc.control_number /\ back.items = [k \in DOMAIN marc.items |-> Back(marc.items[k])]
  BY DEF IsMarc, Returned
<1>2. PermanentLocation(back, holding) = PermanentLocation(marc, holding)
  BY <1>1 DEF PermanentLocation, ControlNumber
<1>3. PermanentLocation(marc, holding) # Absent
  BY DEF PermanentLocation, AlmaPermanentLocation, IsMarc
<1>4. \A k \in DOMAIN marc.items : back.items[k] = Back(marc.items[k]) /\ Back(marc.items[k]).f0 = marc.items[k].f0
  BY <1>1, BackIs DEF IsMarc
<1>5. DOMAIN back.items = DOMAIN marc.items
  BY <1>1
<1>6. {k \in DOMAIN back.items : back.items[k].f0 = holding.f8} = places
  BY <1>4, <1>5
<1> HIDE DEF holding, back, first
<1>9. CASE holding.f8 = Absent \/ places = {}
  <2>1. CurrentLocation(back, holding) = Absent /\ CurrentLocation(marc, holding) = Absent
    BY <1>6, <1>9, CurrentIsAbsent
  <2> HIDE DEF places, item
  <2>2. LocationCode(back, holding) = LocationCode(marc, holding)
    BY <1>2, <2>1, CodeIs
  <2> QED BY <2>2 DEF holding, back
<1>10. CASE holding.f8 # Absent /\ places # {}
  <2>1. places \subseteq Nat
    BY DEF IsMarc, IsList
  <2>2. first \in places
    <3> HIDE DEF places
    <3> QED BY <1>10, <2>1, LeastExists DEF first
  <2>3. first \in DOMAIN marc.items
    BY <2>2
  <2>4. /\ back.items[first] = Back(item) /\ Back(item).z = item.z
        /\ IF <<item.y, item.z>> = InResourceSharing THEN Back(item).y = Absent ELSE Back(item) = item
    BY <1>4, <2>3, BackIs DEF IsMarc
  <2>7. \A j \in places : first <= j
    <3> HIDE DEF places
    <3> QED BY <1>10, <2>1, LeastExists DEF first
  <2> HIDE DEF item
  <2>8. /\ CurrentLocation(marc, holding) = IF Absent \in {item.y, item.z} THEN Absent ELSE <<item.y, item.z>>
        /\ CurrentLocation(back, holding) = IF Absent \in {Back(item).y, Back(item).z} THEN Absent ELSE <<Back(item).y, Back(item).z>>
    <3>1. item = marc.items[first] BY DEF item
    <3>2. places = {k \in DOMAIN marc.items : marc.items[k].f0 = holding.f8} OBVIOUS
    <3>3. places = {k \in DOMAIN back.items : back.items[k].f0 = holding.f8} BY <1>6
    <3> HIDE DEF places
    <3>4. CurrentLocation(marc, holding) = IF Absent \in {item.y, item.z} THEN Absent ELSE <<item.y, item.z>>
      BY <1>10, <2>1, <2>2, <2>7, <3>1, <3>2, CurrentIs
    <3>5. CurrentLocation(back, holding) = IF Absent \in {Back(item).y, Back(item).z} THEN Absent ELSE <<Back(item).y, Back(item).z>>
      BY <1>10, <2>1, <2>2, <2>4, <2>7, <3>3, CurrentIs
    <3> QED BY <3>4, <3>5
  <2>5. CASE <<item.y, item.z>> = InResourceSharing
    <3>1. CurrentLocation(back, holding) = Absent
      BY <2>8, <2>4, <2>5
    <3>2. CurrentLocation(marc, holding) \in {Absent, InResourceSharing}
      BY <2>8, <2>5
    <3> HIDE DEF places
    <3>3. LocationCode(back, holding) = PermanentLocation(marc, holding)
      BY <1>2, <3>1, CodeIs
    <3>4. LocationCode(marc, holding) = PermanentLocation(marc, holding)
      BY <1>3, <3>2, CodeIs
    <3> QED BY <3>3, <3>4 DEF holding, back
  <2>6. CASE <<item.y, item.z>> # InResourceSharing
    <3>1. CurrentLocation(back, holding) = CurrentLocation(marc, holding)
      BY <2>8, <2>4, <2>6
    <3> HIDE DEF places
    <3>2. LocationCode(back, holding) = LocationCode(marc, holding)
      BY <1>2, <3>1, CodeIs
    <3> QED BY <3>2 DEF holding, back
  <2> QED BY <2>5, <2>6
<1> QED BY <1>9, <1>10

\* For any MARC records: a loan to another library does not change the libraries that an Alma record is
\* found under (holding_location.rs, library.rs).
THEOREM LoansLeaveLibraries == RecordsSpec => []LoansKeepLibraries
<1>1. ASSUME RecordRead PROVE LoansKeepLibraries
  <2> DEFINE marc == record.marc
  <2> SUFFICES ASSUME record.kind = "marc", ControlNumber(marc) = "alma",
                      \A h \in DOMAIN marc.holdings : marc.holdings[h].f8 \in AlmaHolding
               PROVE  LocationFacet(marc) = LocationFacet(Returned(marc))
    BY DEF LoansKeepLibraries, Returned, Back
  <2>1. IsMarc(marc)
    BY <1>1, RecordsAssumption DEF RecordRead
  <2> HIDE DEF marc
  <2>2. Returned(marc).holdings = marc.holdings
    BY <2>1 DEF Returned, IsMarc
  <2>3. \A h \in DOMAIN marc.holdings :
           LocationCode(Returned(marc), marc.holdings[h]) = LocationCode(marc, marc.holdings[h])
    BY <2>1, SameCode
  <2> DEFINE code(m, h) == IF m.holdings[h].b = Absent THEN Absent ELSE LocationCode(m, m.holdings[h])
  <2>4. [h \in DOMAIN Returned(marc).holdings |-> code(Returned(marc), h)] = [h \in DOMAIN marc.holdings |-> code(marc, h)]
    BY <2>2, <2>3
  <2>5. LocationCodes(Returned(marc)) = LocationCodes(marc)
    BY <2>4 DEF LocationCodes
  <2> QED BY <2>5 DEF LocationFacet
<1> QED BY <1>1, RecordsAlways, PTL

---------------------------------------------------------------------------
(* Theses that move from the old DSpace to the new one. *)

LEMMA NotNullAppend ==
    ASSUME NEW V, NEW s \in Seq(V), NEW v \in V
    PROVE  /\ NotNull(s) \in Seq(V)
           /\ NotNull(Append(s, v)) = IF v = Null THEN NotNull(s) ELSE Append(NotNull(s), v)
<1> DEFINE t == Append(s, v)
           P == {i \in DOMAIN s : s[i] # Null}
           Q == {i \in DOMAIN t : t[i] # Null}
<1>1. /\ t \in Seq(V) /\ Len(t) = Len(s) + 1 /\ Len(s) \in Nat
      /\ \A i \in 1 .. Len(s) : t[i] = s[i]
      /\ t[Len(s) + 1] = v
  BY AppendProperties, LenProperties
<1>2. DOMAIN t = 1 .. Len(s) + 1 /\ DOMAIN s = 1 .. Len(s)
  BY <1>1, LenProperties
<1> HIDE DEF t
<1>3. (\A i \in 1 .. Len(s) : i \in P <=> i \in Q) /\ (Len(s) + 1 \in Q <=> v # Null)
  BY <1>1, <1>2
<1>4. NotNull(s) = Chosen(s, P) /\ NotNull(t) = Chosen(t, Q)
  BY DEF NotNull
<1> HIDE DEF P, Q
<1>5. Chosen(t, Q) = IF Len(s) + 1 \in Q THEN Append(Chosen(s, P), v) ELSE Chosen(s, P)
  BY <1>3, ChosenAppend DEF t
<1>6. Chosen(s, P) \in Seq(V)
  BY ChosenIsPart
<1> QED BY <1>3, <1>4, <1>5, <1>6 DEF t

LEMMA NotNullEmpty == NotNull(<<>>) = <<>>
BY NothingChosen DEF NotNull

\* The values of the pairs, in order.
ValueList(metadata) == [i \in DOMAIN metadata |-> metadata[i].value]

LEMMA ValueListType ==
    ASSUME NEW metadata, IsLegacy(metadata)
    PROVE  LET values == {metadata[i].value : i \in DOMAIN metadata}
               list == ValueList(metadata)
           IN  /\ list \in Seq(values) /\ Len(list) = Len(metadata) /\ Len(metadata) \in Nat
               /\ DOMAIN metadata = 1 .. Len(metadata)
               /\ \A i \in 1 .. Len(metadata) : list[i] = metadata[i].value
<1> DEFINE values == {metadata[i].value : i \in DOMAIN metadata}
           list == ValueList(metadata)
<1>1. DOMAIN metadata = 1 .. Len(metadata) /\ Len(metadata) \in Nat
  BY DEF IsLegacy, IsList
<1>2. list \in [1 .. Len(metadata) -> values]
  BY <1>1 DEF ValueList
<1> HIDE DEF values, list
<1>3. list \in Seq(values)
  BY <1>1, <1>2, SeqDef
<1>4. 1 .. Len(list) = 1 .. Len(metadata) /\ Len(list) \in Nat
  BY <1>2, <1>3, LenProperties
<1>5. Len(list) = Len(metadata)
  BY <1>1, <1>4
<1>6. \A i \in 1 .. Len(metadata) : list[i] = metadata[i].value
  BY <1>1 DEF list, ValueList
<1> QED BY <1>1, <1>3, <1>5, <1>6 DEF list, values

\* A field of the old DSpace has the values of its key that are not null, if any.
LEMMA LegacyField ==
    ASSUME NEW metadata, IsLegacy(metadata), NEW f \in Field
    PROVE  LET values == NotNull(ValuesOf(metadata, KeyOf[f]))
           IN  LegacyDocument(metadata)[f] = IF values = <<>> THEN None ELSE values
<1> DEFINE V == {metadata[i].value : i \in DOMAIN metadata}
           N == Len(metadata)
           list == ValueList(metadata)
           P == {i \in DOMAIN metadata : metadata[i].key = KeyOf[f]}
<1>1. /\ list \in Seq(V) /\ Len(list) = N /\ N \in Nat /\ DOMAIN metadata = 1 .. N
      /\ \A i \in 1 .. N : list[i] = metadata[i].value /\ list[i] \in V
  BY ValueListType
<1>2. None \notin Seq(V)
  BY DEF IsLegacy
<1>3. ValuesOf(metadata, KeyOf[f]) = Chosen(list, P)
  BY DEF ValuesOf, ValueList
<1>4. \A i \in 1 .. N : i \in P <=> metadata[i].key = KeyOf[f]
  BY <1>1
<1> HIDE DEF V, N, list, P
<1>5. PICK w : /\ Chosen(list, P) = w[N]
               /\ w[0] = <<>>
               /\ \A n \in 1 .. N : w[n] = IF n \in P THEN Append(w[n - 1], list[n]) ELSE w[n - 1]
  BY <1>1, ChosenSteps
<1>6. \A n \in 0 .. N : w[n] \in Seq(V)
  BY <1>1, <1>5, ChosenType
<1>7. PICK doc : /\ \A n \in 0 .. N : doc[n] = IF n = 0 THEN Empty ELSE With(doc[n - 1], metadata[n])
                 /\ LegacyDocument(metadata) = doc[N]
  BY <1>1, LegacySteps DEF N
<1> DEFINE Follows(n) == doc[n][f] = IF NotNull(w[n]) = <<>> THEN None ELSE NotNull(w[n])
           Wrong == {n \in 0 .. N : ~Follows(n)}
<1>8. Wrong = {}
  <2>1. SUFFICES ASSUME Wrong # {} PROVE FALSE
    OBVIOUS
  <2>2. PICK n \in Wrong : \A k \in Wrong : n <= k
    <3>1. Wrong \subseteq Nat
      BY <1>1
    <3> HIDE DEF Wrong
    <3> QED BY <2>1, <3>1, LeastExists
  <2>3. Follows(0)
    <3>1. doc[0][f] = None
      BY <1>1, <1>7 DEF Empty
    <3> QED BY <1>5, <3>1, NotNullEmpty
  <2>4. n # 0
    <3> HIDE DEF Follows
    <3> QED BY <2>2, <2>3
  <2>5. n \in 1 .. N /\ n - 1 \in 0 .. N /\ n \in 0 .. N /\ ~(n <= n - 1)
    BY <1>1, <2>2, <2>4
  <2>6. Follows(n - 1)
    <3> HIDE DEF Follows
    <3> QED BY <2>2, <2>5
  <2> DEFINE v == metadata[n].value
             old == NotNull(w[n - 1])
  <2>7. v \in V /\ list[n] = v /\ w[n - 1] \in Seq(V)
    BY <1>1, <1>6, <2>5
  <2>8. old \in Seq(V) /\ NotNull(Append(w[n - 1], v)) = IF v = Null THEN old ELSE Append(old, v)
    BY <2>7, NotNullAppend
  <2>9. doc[n][f] = IF KeyOf[f] # metadata[n].key \/ v = Null THEN doc[n - 1][f]
                    ELSE IF doc[n - 1][f] = None THEN <<v>> ELSE Append(doc[n - 1][f], v)
    BY <1>7, <2>4, <2>5 DEF With
  <2>10. w[n] = IF KeyOf[f] = metadata[n].key THEN Append(w[n - 1], v) ELSE w[n - 1]
    BY <1>4, <1>5, <2>5, <2>7
  <2>11. Append(old, v) # <<>> /\ (old = <<>> => Append(old, v) = <<v>>)
    <3> HIDE DEF v, old
    <3>1. Append(old, v) # <<>>
      BY <2>7, <2>8, Appending
    <3>2. Append(<<>>, v) = <<v>>
      OBVIOUS
    <3> QED BY <3>1, <3>2
  <2>12. doc[n - 1][f] = IF old = <<>> THEN None ELSE old
    BY <2>6
  <2> HIDE DEF v, old
  <2>13. old # None
    BY <1>2, <2>8
  <2>14. CASE KeyOf[f] # metadata[n].key \/ v = Null
    <3>1. NotNull(w[n]) = old
      BY <2>8, <2>10, <2>14 DEF old
    <3> QED BY <2>2, <2>9, <2>12, <2>14, <3>1
  <2>15. CASE KeyOf[f] = metadata[n].key /\ v # Null
    <3>1. NotNull(w[n]) = Append(old, v)
      BY <2>8, <2>10, <2>15
    <3>2. doc[n][f] = IF old = <<>> THEN <<v>> ELSE Append(old, v)
      BY <2>9, <2>12, <2>13, <2>15
    <3> QED BY <2>2, <2>11, <3>1, <3>2
  <2> QED BY <2>14, <2>15
<1>9. Follows(N)
  <2>1. N \in 0 .. N
    BY <1>1
  <2> HIDE DEF Follows
  <2> QED BY <1>8, <2>1
<1> QED BY <1>3, <1>5, <1>7, <1>9

\* For any metadata: a thesis that moves to the new DSpace stays the same in the catalog
\* (document.rs, builder.rs and legacy_dataspace.rs).
THEOREM MovesUnchanged == RecordsSpec => []SameThesis
<1>1. ASSUME RecordRead PROVE SameThesis
  <2> DEFINE metadata == record.metadata
             migrated == [k \in Keys(metadata) |-> ValuesOf(metadata, k)]
  <2> SUFFICES ASSUME record.kind = "thesis",
                      \A k \in DOMAIN migrated : \E i \in DOMAIN migrated[k] : migrated[k][i] # Null
               PROVE  NewDocument(migrated) = LegacyDocument(metadata)
    BY DEF SameThesis
  <2>1. IsLegacy(metadata)
    BY <1>1, RecordsAssumption DEF RecordRead
  <2>2. \A k \in Keys(metadata) : \E i \in DOMAIN ValuesOf(metadata, k) : ValuesOf(metadata, k)[i] # Null
    OBVIOUS
  <2>3. \A k : k \in DOMAIN migrated <=> k \in Keys(metadata)
    OBVIOUS
  <2>4. \A k \in Keys(metadata) : migrated[k] = ValuesOf(metadata, k)
    OBVIOUS
  <2> HIDE DEF metadata, migrated
  <2> DEFINE V == {metadata[i].value : i \in DOMAIN metadata}
             list == ValueList(metadata)
             P(k) == {i \in DOMAIN metadata : metadata[i].key = k}
  <2>5. list \in Seq(V) /\ Len(list) = Len(metadata) /\ DOMAIN metadata = 1 .. Len(metadata)
    BY <2>1, ValueListType
  <2>6. \A k : ValuesOf(metadata, k) = Chosen(list, P(k))
    BY DEF ValuesOf, ValueList
  <2>7. \A k : k \in Keys(metadata) <=> \E i \in P(k) : i \in 1 .. Len(list)
    BY <2>5 DEF Keys
  <2> HIDE DEF V, list, P
  <2>8. ASSUME NEW f \in Field PROVE NewValues(migrated, KeyOf[f]) = LegacyDocument(metadata)[f]
    <3> DEFINE k == KeyOf[f]
               values == ValuesOf(metadata, k)
    <3>1. LegacyDocument(metadata)[f] = IF NotNull(values) = <<>> THEN None ELSE NotNull(values)
      BY <2>1, LegacyField
    <3> HIDE DEF k
    <3>2. CASE k \in Keys(metadata)
      <4>1. values \in Seq(V)
        BY <2>5, <2>6, ChosenIsPart
      <4>2. PICK i \in DOMAIN values : values[i] # Null
        BY <2>2, <3>2
      <4>3. i \in 1 .. Len(values)
        BY <4>1, LenProperties
      <4> HIDE DEF values
      <4>4. NotNull(values) # <<>>
        BY <4>1, <4>2, <4>3, ChosenIsPart DEF NotNull
      <4>5. NewValues(migrated, k) = NotNull(values)
        BY <2>3, <2>4, <3>2 DEF NewValues, values
      <4> QED BY <3>1, <4>4, <4>5 DEF k
    <3>3. CASE k \notin Keys(metadata)
      <4>1. values = <<>>
        BY <2>5, <2>6, <2>7, <3>3, ChosenIsPart
      <4>2. NotNull(values) = <<>>
        BY <4>1, NotNullEmpty
      <4>3. NewValues(migrated, k) = None
        BY <2>3, <3>3 DEF NewValues
      <4> QED BY <3>1, <4>2, <4>3 DEF k
    <3> QED BY <3>2, <3>3
  <2>9. LegacyDocument(metadata) \in ThesisType(V)
    <3>1. Len(metadata) \in Nat /\ \A i \in 1 .. Len(metadata) : metadata[i].value \in V
      BY <2>1, <2>5 DEF V, IsLegacy, IsList
    <3> QED BY <3>1, LegacyType
  <2>10. LegacyDocument(metadata) = [f \in Field |-> LegacyDocument(metadata)[f]]
    BY <2>9 DEF ThesisType
  <2> QED BY <2>8, <2>10 DEF NewDocument
<1> QED BY <1>1, RecordsAlways, PTL

---------------------------------------------------------------------------
(* The private items of the partners. *)

Shown(items, holding) == Chosen(items, {k \in DOMAIN items : IsShown(items[k], holding)})

LEMMA ShownAppend ==
    ASSUME NEW V, NEW s \in Seq(V), NEW v \in V, NEW holding
    PROVE  Shown(Append(s, v), holding) =
             IF IsShown(v, holding) THEN Append(Shown(s, holding), v) ELSE Shown(s, holding)
<1> DEFINE t == Append(s, v)
           P == {k \in DOMAIN s : IsShown(s[k], holding)}
           Q == {k \in DOMAIN t : IsShown(t[k], holding)}
<1>1. /\ t \in Seq(V) /\ Len(t) = Len(s) + 1 /\ Len(s) \in Nat
      /\ \A i \in 1 .. Len(s) : t[i] = s[i]
      /\ t[Len(s) + 1] = v
  BY AppendProperties, LenProperties
<1>2. DOMAIN t = 1 .. Len(s) + 1 /\ DOMAIN s = 1 .. Len(s)
  BY <1>1, LenProperties
<1> HIDE DEF t
<1>3. (\A i \in 1 .. Len(s) : i \in P <=> i \in Q) /\ (Len(s) + 1 \in Q <=> IsShown(v, holding))
  BY <1>1, <1>2
<1>4. Shown(s, holding) = Chosen(s, P) /\ Shown(t, holding) = Chosen(t, Q)
  BY DEF Shown
<1> HIDE DEF P, Q
<1>5. Chosen(t, Q) = IF Len(s) + 1 \in Q THEN Append(Chosen(s, P), v) ELSE Chosen(s, P)
  BY <1>3, ChosenAppend DEF t
<1> QED BY <1>3, <1>4, <1>5 DEF t

\* The items shown are the same without the private ones.
LEMMA ShownIsPublic ==
    ASSUME NEW items, IsList(items), NEW holding
    PROVE  Shown(Public(items), holding) = Shown(items, holding)
<1> DEFINE V == {items[i] : i \in DOMAIN items}
           N == Len(items)
           P == {k \in DOMAIN items : CollectionGroup(items[k].x) # "Private"}
           Q == {k \in DOMAIN items : IsShown(items[k], holding)}
<1>0. Len(items) \in Nat
  BY DEF IsList
<1>1. N \in Nat /\ DOMAIN items = 1 .. N /\ \A i \in 1 .. N : items[i] \in V
  BY DEF IsList
<1>2. \A i \in 1 .. N : /\ i \in Q <=> IsShown(items[i], holding)
                        /\ i \in Q => i \in P
  BY <1>1 DEF IsShown
<1>3. Public(items) = Chosen(items, P) /\ Shown(items, holding) = Chosen(items, Q)
  BY DEF Public, Shown
<1> HIDE DEF V, N, P, Q
<1>4. PICK a : /\ Chosen(items, P) = a[N]
               /\ a[0] = <<>>
               /\ \A n \in 1 .. N : a[n] = IF n \in P THEN Append(a[n - 1], items[n]) ELSE a[n - 1]
  BY <1>0, ChosenSteps DEF N
<1>5. PICK b : /\ Chosen(items, Q) = b[N]
               /\ b[0] = <<>>
               /\ \A n \in 1 .. N : b[n] = IF n \in Q THEN Append(b[n - 1], items[n]) ELSE b[n - 1]
  BY <1>0, ChosenSteps DEF N
<1>6. \A n \in 0 .. N : a[n] \in Seq(V)
  BY <1>1, <1>4, ChosenType DEF N
<1> DEFINE Wrong == {n \in 0 .. N : Shown(a[n], holding) # b[n]}
<1>7. Wrong = {}
  <2>1. SUFFICES ASSUME Wrong # {} PROVE FALSE
    OBVIOUS
  <2>2. PICK n \in Wrong : \A k \in Wrong : n <= k
    <3>1. Wrong \subseteq Nat
      BY <1>1
    <3> HIDE DEF Wrong
    <3> QED BY <2>1, <3>1, LeastExists
  <2>3. Shown(<<>>, holding) = <<>>
    BY NothingChosen DEF Shown
  <2>4. n # 0
    BY <1>4, <1>5, <2>2, <2>3
  <2>5. n \in 1 .. N /\ n - 1 \in 0 .. N /\ ~(n <= n - 1)
    BY <1>1, <2>2, <2>4
  <2>6. Shown(a[n - 1], holding) = b[n - 1]
    BY <2>2, <2>5
  <2>7. Shown(Append(a[n - 1], items[n]), holding) =
          IF IsShown(items[n], holding) THEN Append(b[n - 1], items[n]) ELSE b[n - 1]
    BY <1>1, <1>6, <2>5, <2>6, ShownAppend
  <2>8. Shown(a[n], holding) = b[n]
    BY <1>2, <1>4, <1>5, <2>5, <2>6, <2>7
  <2> QED BY <2>2, <2>8
<1>8. Shown(a[N], holding) = b[N]
  BY <1>1, <1>7
<1> QED BY <1>3, <1>4, <1>5, <1>8

\* For any MARC records: the private items of a partner leave no trace in the holdings shown
\* (partner.rs).
THEOREM PrivateItemsLeaveNoTrace == RecordsSpec => []PrivateItemsHidden
<1>1. ASSUME RecordRead PROVE PrivateItemsHidden
  <2> DEFINE marc == record.marc
             public == [marc EXCEPT !.items = Public(marc.items)]
  <2> SUFFICES ASSUME record.kind = "marc" PROVE PartnerHoldings(marc) = PartnerHoldings(public)
    BY DEF PrivateItemsHidden
  <2>1. IsMarc(marc)
    BY <1>1, RecordsAssumption DEF RecordRead
  <2> HIDE DEF marc
  <2>2. public.holdings = marc.holdings /\ public.items = Public(marc.items)
    BY <2>1 DEF IsMarc
  <2> HIDE DEF public
  <2>3. \A h : ShownItems(public, h) = ShownItems(marc, h)
    BY <2>1, <2>2, ShownIsPublic DEF ShownItems, Shown, IsMarc
  <2>4. \A h : PartnerHolding(public, h) = PartnerHolding(marc, h)
    BY <2>3 DEF PartnerHolding
  <2>5. [h \in DOMAIN public.holdings |-> PartnerHolding(public, public.holdings[h])]
          = [h \in DOMAIN marc.holdings |-> PartnerHolding(marc, marc.holdings[h])]
    BY <2>2, <2>4
  <2> QED BY <2>5 DEF PartnerHoldings
<1> QED BY <1>1, RecordsAlways, PTL
=============================================================================
