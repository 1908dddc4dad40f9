------------------------------ MODULE Records ------------------------------
(***************************************************************************)
(* The records that are read one at a time and described on their own: the *)
(* theses and the MARC records; the ephemera folders and the coins of      *)
(* Figgy, whose harvests share nothing with each other, so that a          *)
(* behaviour has one of the four.                                          *)
(***************************************************************************)
EXTENDS ThesisDocument, MarcHoldings, EphemeraIndexing, NumismaticsIndexing

CONSTANTS
    Day,            \* the days on which a thesis is indexed
    LegacyTheses,   \* metadata of the old DSpace
    MarcRecords

IsList(s) == Len(s) \in Nat /\ DOMAIN s = 1 .. Len(s)

\* A MARC record has holdings and items with these subfields.
IsMarc(marc) ==
    /\ marc = [control_number |-> marc.control_number, holdings |-> marc.holdings, items |-> marc.items]
    /\ IsList(marc.items)
    /\ \A k \in DOMAIN marc.items :
          LET i == marc.items[k] IN i = [f0 |-> i.f0, x |-> i.x, y |-> i.y, z |-> i.z, a |-> i.a]
    /\ \A h \in DOMAIN marc.holdings :
          LET holding == marc.holdings[h] IN Absent \notin {<<holding.b>>, <<holding.b, holding.c>>}

\* A pair of the old DSpace has a value, if only a null.
IsLegacy(metadata) ==
    LET values == {metadata[i].value : i \in DOMAIN metadata}
    IN  IsList(metadata) /\ None \notin values \cup Seq(values)

ASSUME RecordsAssumption ==
    /\ Day \subseteq Int
    /\ \A metadata \in LegacyTheses : IsLegacy(metadata)
    /\ \A marc \in MarcRecords : IsMarc(marc)

VARIABLE record     \* what was read last

recordVars == <<ephemeraVars, coinVars, record>>

Nothing == [kind |-> "nothing"]

RecordsInit == Init /\ CoinInit /\ record = Nothing

Harvest == CoinInit /\ record = Nothing /\ Next /\ UNCHANGED <<coinVars, record>>

HarvestCoins == Init /\ record = Nothing /\ CoinNext /\ UNCHANGED <<ephemeraVars, record>>

ReadThesis(metadata, day) ==
    /\ record' = [kind |-> "thesis", metadata |-> metadata, day |-> day]
    /\ UNCHANGED <<ephemeraVars, coinVars>>

ReadMarc(marc) ==
    /\ record' = [kind |-> "marc", marc |-> marc]
    /\ UNCHANGED <<ephemeraVars, coinVars>>

RecordsNext ==
    \/ Harvest
    \/ HarvestCoins
    \/ /\ RecordsInit
       /\ \/ \E metadata \in LegacyTheses, day \in Day : ReadThesis(metadata, day)
          \/ \E marc \in MarcRecords : ReadMarc(marc)

RecordsSpec == RecordsInit /\ [][RecordsNext]_recordVars /\ Fairness

---------------------------------------------------------------------------
(* Theses. *)

Keys(metadata) == {metadata[i].key : i \in DOMAIN metadata}
ValuesOf(metadata, key) ==
    Chosen([i \in DOMAIN metadata |-> metadata[i].value], {i \in DOMAIN metadata : metadata[i].key = key})

\* A thesis that moves from the old DSpace to the new one with the same metadata stays the
\* same in the catalog, whatever the order of the pairs, unless all the values of a key are
\* null: the new DSpace then has the key, the old one does not.
SameThesis ==
    record.kind = "thesis" =>
       LET migrated == [k \in Keys(record.metadata) |-> ValuesOf(record.metadata, k)]
       IN  (\A k \in DOMAIN migrated : \E i \in DOMAIN migrated[k] : migrated[k][i] # Null) =>
              SolrDocument(NewDocument(migrated), record.day)
                 = SolrDocument(LegacyDocument(record.metadata), record.day)

\* Until the day an embargo lifts nobody is offered the text, and a note says why; from that
\* day on the catalog has the thesis as if it had never been embargoed (docs/theses.md: the
\* holding disappears when the embargo expires).
EmbargoLifts ==
    record.kind = "thesis" =>
       LET doc == LegacyDocument(record.metadata)
           solrDoc == SolrDocument(doc, record.day)
           free == [doc EXCEPT !.embargo_lift = None, !.embargo_terms = None]
           lift == IF First(doc, "embargo_lift") # None THEN First(doc, "embargo_lift")
                   ELSE First(doc, "embargo_terms")
       IN  lift \in DOMAIN Instant =>
              IF record.day < Instant[lift]
              THEN /\ solrDoc.access_facet = None /\ solrDoc.restrictions_note # None
                   /\ solrDoc.electronic_access # None =>
                         solrDoc.electronic_access.description = "Citation only"
              ELSE solrDoc = SolrDocument(free, record.day)

\* The fields of a thesis agree on where it can be read: Online with the full text and no
\* holding, in the library with a holding and the citation only, and a holding wherever the
\* facet does not say Online.
OneAvailability ==
    record.kind = "thesis" =>
       LET solrDoc == SolrDocument(LegacyDocument(record.metadata), record.day)
           online == solrDoc.access_facet = "Online"
       IN  /\ online <=> solrDoc.holdings = None
           /\ online <=> solrDoc.location = None
           /\ solrDoc.electronic_access # None =>
                 (online <=> solrDoc.electronic_access.description = "Full text")

---------------------------------------------------------------------------
(* MARC records. *)

\* A private item of a partner leaves no trace in the holdings shown, however its group is
\* written.
Public(items) == Chosen(items, {k \in DOMAIN items : CollectionGroup(items[k].x) # "Private"})
PrivateItemsHidden ==
    record.kind = "marc" =>
       PartnerHoldings(record.marc) = PartnerHoldings([record.marc EXCEPT !.items = Public(@)])

\* A loan to another library does not change the libraries that an Alma record is found under.
LoansKeepLibraries ==
    (record.kind = "marc" /\ ControlNumber(record.marc) = "alma"
       /\ \A h \in DOMAIN record.marc.holdings : record.marc.holdings[h].f8 \in AlmaHolding)
    => LET back(i) == IF <<i.y, i.z>> = InResourceSharing THEN [i EXCEPT !.y = Absent] ELSE i
           items == record.marc.items
       IN  LocationFacet(record.marc)
              = LocationFacet([record.marc EXCEPT !.items = [i \in DOMAIN items |-> back(items[i])]])
=============================================================================
