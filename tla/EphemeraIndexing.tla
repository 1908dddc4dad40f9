-------------------------- MODULE EphemeraIndexing --------------------------
(***************************************************************************)
(* rake ephemera:full_reindex: the ephemera folders that are complete in   *)
(* Figgy are listed page by page, read one at a time, made into Solr       *)
(* documents and posted to Solr at once (lib/bibdata_rs/src/ephemera,      *)
(* solr/ephemera_solr_mapping.rs and solr/index.rs).  The librarians       *)
(* complete and withdraw folders meanwhile.                                *)
(***************************************************************************)
EXTENDS Integers, Sequences, SequencesExt

CONSTANTS
    Folder,        \* the ephemera folders
    Item,          \* Item[f]: the JSON-LD of f
    Listing,       \* the folders that are complete at first, in the order Figgy lists them
    Missing,       \* Option::None, and what Solr has of a folder it does not have
    Unparsable,    \* an entry of a JSON array that the entry's type does not accept
    KnownFormat,   \* the values of FormatFacet
    YearBegun,     \* YearBegun[d]: the year the date d begins with, where it does
    PerPage,       \* folders on a page of the listing
    ChunkSize,     \* folders in a JSON array of documents
    Retries,       \* number_of_retries
    MaxChanges,    \* bound on the folders completed and withdrawn
    MaxFailures,   \* bound on the requests that fail
    MaxRuns        \* bound on the tasks started

ASSUME EphemeraAssumption ==
    /\ Listing \in Seq(Folder)
    /\ {PerPage, ChunkSize, Retries} \subseteq Nat \ {0}

VARIABLES
    listing,     \* the complete folders
    phase,       \* where the task is
    page, total, \* the page it has read last, the number of pages on the first
    ids,         \* the folders listed so far
    retries,     \* how often the next folder may still be asked for
    docs,        \* the documents made so far
    solr,        \* what Solr has of each folder
    quiet,       \* has the listing stayed the same since the task began to read it?
    changes, failures, runs

task == <<phase, page, total, ids, retries, docs>>
ephemeraVars == <<listing, task, solr, quiet, changes, failures, runs>>

---------------------------------------------------------------------------
(* A folder and its document.  An entry is [label, vocabularies]; the      *)
(* fields copied as they are are left out.                                 *)

\* A folder is refused for one format or language that does not parse.
Parses(item) ==
    /\ \A i \in DOMAIN item.format : item.format[i] \in KnownFormat
    /\ \A i \in DOMAIN item.language :
          item.language[i] # Unparsable /\ item.language[i].vocabularies # Missing

\* Subjects and places of origin that do not parse are passed over.
VecSafe(raw) ==
    LET parsed == SelectSeq(raw, LAMBDA e : e # Unparsable) IN IF parsed = <<>> THEN Missing ELSE parsed

Labels(entries, vocabulary) ==
    LET accepted == SelectSeq(IF entries = Missing THEN <<>> ELSE entries,
                              LAMBDA e : e.vocabularies # Missing /\ vocabulary \in e.vocabularies)
    IN  [i \in DOMAIN accepted |-> accepted[i].label]

CoverageLabels(item) == Labels(item.coverage, "countries")
OriginPlaceLabels(item) == Labels(VecSafe(item.origin), "countries")
LcSubjectLabels(item) == Labels(VecSafe(item.subject), "loc") \o CoverageLabels(item)
HomoitSubjectLabels(item) == Labels(VecSafe(item.subject), "homosaurus")
LanguageLabels(item) == [i \in DOMAIN item.language |-> item.language[i].label]

\* The place, the publisher and the date, without those that are missing.
PubCreated(item) ==
    LET firsts == <<OriginPlaceLabels(item), item.publisher, item.date_created>>
        there == SelectSeq(firsts, LAMBDA s : s # <<>>)
    IN  [i \in DOMAIN there |-> Head(there[i])]

DateCreatedYear(item) ==
    LET dated == SelectSeq(item.date_created, LAMBDA d : d \in DOMAIN YearBegun)
    IN  IF dated = <<>> THEN Missing ELSE YearBegun[Head(dated)]

FolderDocument(item) ==
    [format |-> item.format,
     geographic |-> CoverageLabels(item),
     homoit_subject |-> HomoitSubjectLabels(item),
     lc_subject |-> LcSubjectLabels(item),
     language |-> LanguageLabels(item),
     pub_created |-> PubCreated(item),
     pub_location |-> OriginPlaceLabels(item),
     pub_date |-> item.date_created \o item.publisher,
     pub_date_start |-> DateCreatedYear(item)]

---------------------------------------------------------------------------
(* Figgy. *)

Init ==
    /\ listing = Listing /\ solr = [f \in Folder |-> Missing]
    /\ phase = "idle" /\ page = 0 /\ total = 0 /\ ids = <<>> /\ retries = 0 /\ docs = <<>>
    /\ quiet = TRUE /\ changes = 0 /\ failures = 0 /\ runs = 0

Complete(f, k) ==
    /\ changes < MaxChanges /\ ~Contains(listing, f)
    /\ listing' = InsertAt(listing, k, f)
    /\ quiet' = FALSE /\ changes' = changes + 1
    /\ UNCHANGED <<task, solr, failures, runs>>

Withdraw(k) ==
    /\ changes < MaxChanges
    /\ listing' = RemoveAt(listing, k)
    /\ quiet' = FALSE /\ changes' = changes + 1
    /\ UNCHANGED <<task, solr, failures, runs>>

---------------------------------------------------------------------------
(* The task. *)

Start ==
    /\ phase \in {"idle", "failed", "succeeded"} /\ runs < MaxRuns
    /\ phase' = "listing" /\ page' = 0 /\ total' = 0 /\ ids' = <<>> /\ docs' = <<>> /\ retries' = 0
    /\ quiet' = TRUE /\ runs' = runs + 1
    /\ UNCHANGED <<listing, solr, changes, failures>>

Pages == (Len(listing) + PerPage - 1) \div PerPage
PageOf(n) == SubSeq(listing, (n - 1) * PerPage + 1, IF n * PerPage < Len(listing) THEN n * PerPage ELSE Len(listing))

\* Mutant: the last page is not read.
ReadPageButLast ==
    /\ phase = "listing"
    /\ page' = page + 1
    /\ total' = IF page = 0 THEN Pages ELSE total
    /\ ids' = ids \o PageOf(page')
    /\ phase' = IF page' + 1 < total' THEN "listing" ELSE "reading"
    /\ retries' = Retries
    /\ UNCHANGED <<listing, docs, solr, quiet, changes, failures, runs>>

\* Mutant: the last page is asked for until the listing is as long as the first one said.
ReadPageUntilFull ==
    /\ phase = "listing"
    /\ page' = IF page = 0 \/ page < total THEN page + 1 ELSE page
    /\ total' = IF page = 0 THEN Pages ELSE total
    /\ ids' = IF page' = page THEN ids ELSE ids \o PageOf(page')
    /\ phase' = IF Len(ids') < total' * PerPage THEN "listing" ELSE "reading"
    /\ retries' = Retries
    /\ UNCHANGED <<listing, docs, solr, quiet, changes, failures, runs>>

\* The number of pages is the one of the first.
ReadPage ==
    /\ phase = "listing"
    /\ page' = page + 1
    /\ total' = IF page = 0 THEN Pages ELSE total
    /\ ids' = ids \o PageOf(page')
    /\ phase' = IF page' < total' THEN "listing" ELSE "reading"
    /\ retries' = Retries
    /\ UNCHANGED <<listing, docs, solr, quiet, changes, failures, runs>>

\* A folder Figgy answers with, whether or not it is still listed.
ReadFolder ==
    /\ phase = "reading" /\ Len(docs) < Len(ids)
    /\ LET item == Item[ids[Len(docs) + 1]]
       IN  /\ phase' = IF Parses(item) THEN "reading" ELSE "failed"
           /\ docs' = IF Parses(item) THEN Append(docs, FolderDocument(item)) ELSE docs
    /\ retries' = Retries
    /\ UNCHANGED <<listing, page, total, ids, solr, quiet, changes, failures, runs>>

\* Mutant: the folders read until then are posted.
RefuseFolderPosts ==
    /\ phase = "reading" /\ Len(docs) < Len(ids) /\ failures < MaxFailures
    /\ retries' = retries - 1
    /\ phase' = IF retries' = 0 THEN "posting" ELSE "reading"
    /\ failures' = failures + 1
    /\ UNCHANGED <<listing, page, total, ids, docs, solr, quiet, changes, runs>>

\* Any answer but 200: the folder is asked for again, three times in all.
RefuseFolder ==
    /\ phase = "reading" /\ Len(docs) < Len(ids) /\ failures < MaxFailures
    /\ retries' = retries - 1
    /\ phase' = IF retries' = 0 THEN "failed" ELSE "reading"
    /\ failures' = failures + 1
    /\ UNCHANGED <<listing, page, total, ids, docs, solr, quiet, changes, runs>>

\* A page of the listing that is not answered with, a connection that fails.
RequestFails ==
    /\ phase \in {"listing", "reading", "posting"} /\ failures < MaxFailures
    /\ phase = "reading" => Len(docs) < Len(ids)
    /\ phase' = "failed" /\ failures' = failures + 1
    /\ UNCHANGED <<listing, page, total, ids, retries, docs, solr, quiet, changes, runs>>

\* There is nothing to post for no folder.
CombineChunks ==
    /\ phase = "reading" /\ Len(docs) = Len(ids)
    /\ phase' = IF docs = <<>> THEN "failed" ELSE "posting"
    /\ UNCHANGED <<listing, page, total, ids, retries, docs, solr, quiet, changes, failures, runs>>

\* Solr with the first n documents; those of one folder are the same.
Indexed(n) ==
    [f \in Folder |->
        LET at == {i \in 1..n : ids[i] = f}
        IN  IF at = {} THEN solr[f] ELSE docs[CHOOSE i \in at : TRUE]]

\* The body is well-formed JSON when it has one chunk; Solr may have read the first
\* chunk of one that is not.
Post ==
    /\ phase = "posting"
    /\ solr' = Indexed(IF Len(docs) <= ChunkSize THEN Len(docs) ELSE ChunkSize)
    /\ phase' = "succeeded"
    /\ UNCHANGED <<listing, page, total, ids, retries, docs, quiet, changes, failures, runs>>

\* The task succeeds whatever Solr answers.
PostRefused ==
    /\ phase = "posting"
    /\ Len(docs) > ChunkSize \/ failures < MaxFailures
    /\ failures' = IF Len(docs) > ChunkSize THEN failures ELSE failures + 1
    /\ phase' = "succeeded"
    /\ UNCHANGED <<listing, page, total, ids, retries, docs, solr, quiet, changes, runs>>

Next ==
    \/ \E k \in 1..Len(listing) : Withdraw(k)
    \/ \E f \in Folder, k \in 1..(Len(listing) + 1) : Complete(f, k)
    \/ Start \/ ReadPage \/ ReadFolder \/ RefuseFolder \/ RequestFails \/ CombineChunks
    \/ Post \/ PostRefused

Spec == Init /\ [][Next]_ephemeraVars

\* Figgy and Solr answer every request, with whatever answer.
Fairness ==
    WF_ephemeraVars(ReadPage \/ ReadFolder \/ RefuseFolder \/ RequestFails \/ CombineChunks
                       \/ Post \/ PostRefused)

---------------------------------------------------------------------------
(* Properties. *)

\* Solr takes the folders of a harvest together: no folder that was listed is missing
\* because Figgy refused it or because another one failed (as long as they fit a chunk).
WholeHarvest ==
    [][solr' # solr /\ Len(ids) <= ChunkSize =>
          /\ Len(docs) = Len(ids)
          /\ \A i \in DOMAIN ids : solr'[ids[i]] = FolderDocument(Item[ids[i]])]_ephemeraVars

\* Reading the listing page by page misses and repeats nothing while no folder is completed
\* or withdrawn.
QuietListingIsWhole ==
    quiet /\ phase \in {"reading", "posting", "succeeded"} => ids = listing

\* A task ends however often Figgy refuses a folder: it is asked for three times.
EphemeraEnds == phase = "listing" ~> phase \in {"failed", "succeeded"}
=============================================================================
