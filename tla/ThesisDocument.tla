--------------------------- MODULE ThesisDocument ---------------------------
(***************************************************************************)
(* What the catalog says of a senior thesis: lib/bibdata_rs/src/theses and *)
(* solr/dataspace_solr_mapping.rs.  A document of the old DSpace is a list *)
(* of keys and values, one of the new DSpace a map of keys to lists.  Both *)
(* become a DataspaceDocument, which becomes the document sent to Solr.    *)
(***************************************************************************)
EXTENDS SequencesExt, Subsequences

CONSTANTS
    None,          \* Option::None
    Null,          \* a value that is null in the JSON
    Instant,       \* Instant[v]: the day v stands for, of the values that are dates
    BeyondRange,   \* the dates that parse but have no time zone (years over 9999)
    YearOf,        \* YearOf[v]: the year v stands for, of the values that are numbers
    Before2013,    \* the values before "2013" in the order of strings
    Department,    \* department.rs: the authorized names
    Program,       \* program.rs
    LanguageName,  \* the names of the ISO 639-1 codes
    Plain          \* Plain[w]: the word w without LaTeX

ASSUME ThesisAssumption ==
    /\ None \notin {"Online", "In the Library", "mudd$stacks", "walk-in", "embargoed until", "under embargo"}
    /\ None \notin DOMAIN Instant /\ DOMAIN Instant \cap BeyondRange = {}
    /\ \A v \in DOMAIN Instant : Instant[v] \in Int

\* The key each field of the document comes from.
KeyOf == [
    contributor |-> "dc.contributor",        contributor_advisor |-> "dc.contributor.advisor",
    contributor_author |-> "dc.contributor.author",
    description_abstract |-> "dc.description.display",
    format_extent |-> "dc.format.extent",    identifier_other |-> "dc.identifier.other",
    identifier_uri |-> "dc.identifier.uri",  language_iso |-> "dc.language.iso",
    rights_access_rights |-> "dc.rights.accessRights", title |-> "dc.title",
    certificate |-> "pu.certificate",        date_classyear |-> "pu.date.classyear",
    department |-> "pu.department",          embargo_lift |-> "pu.embargo.lift",
    embargo_terms |-> "pu.embargo.terms",    location |-> "pu.location",
    mudd_walkin |-> "pu.mudd.walkin"]
Field == DOMAIN KeyOf

\* The values of a key of the new DSpace: a key whose values are all null is an empty field.
NotNull(values) == Chosen(values, {i \in DOMAIN values : values[i] # Null})
NewValues(metadata, key) == IF key \in DOMAIN metadata THEN NotNull(metadata[key]) ELSE None

NewDocument(metadata) == [f \in Field |-> NewValues(metadata, KeyOf[f])]

\* Mutant: a second value of a key replaces the first.
WithReplaces(doc, entry) ==
    [f \in Field |-> IF KeyOf[f] # entry.key \/ entry.value = Null THEN doc[f] ELSE <<entry.value>>]

\* A pair of the old DSpace: null values are passed over, the others are added to their field.
With(doc, entry) ==
    [f \in Field |->
        IF KeyOf[f] # entry.key \/ entry.value = Null THEN doc[f]
        ELSE IF doc[f] = None THEN <<entry.value>> ELSE Append(doc[f], entry.value)]

LegacyDocument(metadata) ==
    LET doc[n \in 0 .. Len(metadata)] ==
            IF n = 0 THEN [f \in Field |-> None] ELSE With(doc[n - 1], metadata[n])
    IN  doc[Len(metadata)]

---------------------------------------------------------------------------
(* Who may read it. *)

Values(doc, field) == IF doc[field] = None THEN <<>> ELSE doc[field]
First(doc, field) == IF Values(doc, field) = <<>> THEN None ELSE Head(doc[field])

\* Mutant: an embargo ends a day late.
EmbargoPastLift(doc, today) ==
    LET dates == Values(doc, "embargo_lift") \o Values(doc, "embargo_terms")
    IN  IF dates = <<>> THEN "none"
        ELSE IF Head(dates) \in BeyondRange THEN "expired"
        ELSE IF Head(dates) \notin DOMAIN Instant THEN "invalid"
        ELSE IF Instant[Head(dates)] >= today THEN "current" ELSE "expired"

\* The first lift date decides, or the first of the terms.
Embargo(doc, today) ==
    LET dates == Values(doc, "embargo_lift") \o Values(doc, "embargo_terms")
    IN  IF dates = <<>> THEN "none"
        ELSE IF Head(dates) \in BeyondRange THEN "expired"
        ELSE IF Head(dates) \notin DOMAIN Instant THEN "invalid"
        ELSE IF Instant[Head(dates)] > today THEN "current" ELSE "expired"

PhysicalClassYear(doc) == First(doc, "date_classyear") \in Before2013
WalkinIsYes(doc) == First(doc, "mudd_walkin") = "yes"

OnSiteOnly(doc, today) ==
    \/ Embargo(doc, today) = "current"
    \/ /\ PhysicalClassYear(doc)
       /\ doc.location # None \/ doc.rights_access_rights # None \/ WalkinIsYes(doc)

\* Mutant: the embargo is not looked at.
AccessFacetIgnoresEmbargo(doc, today) ==
    IF OnSiteOnly([doc EXCEPT !.embargo_lift = None, !.embargo_terms = None], today)
    THEN "In the Library" ELSE "Online"

AccessFacet(doc, today) ==
    CASE Embargo(doc, today) = "current" -> None
      [] OnSiteOnly(doc, today) /\ Embargo(doc, today) # "current" -> "In the Library"
      [] OTHER -> "Online"

Location(doc, today) == IF OnSiteOnly(doc, today) THEN "mudd$stacks" ELSE None

ArkHash(doc, today) ==
    IF First(doc, "identifier_uri") = None THEN None
    ELSE [url |-> First(doc, "identifier_uri"),
          description |-> IF OnSiteOnly(doc, today) THEN "Citation only" ELSE "Full text"]

CallNumber(doc) == <<"AC102", First(doc, "identifier_other")>>
PhysicalHolding(doc, today) == IF OnSiteOnly(doc, today) THEN CallNumber(doc) ELSE None

\* The rights come first, then the reading room, then the embargo.
RestrictionsNote(doc, today) ==
    CASE doc.rights_access_rights # None -> First(doc, "rights_access_rights")
      [] doc.rights_access_rights = None /\ WalkinIsYes(doc) -> "walk-in"
      [] OTHER -> CASE Embargo(doc, today) = "current" -> "embargoed until"
                    [] Embargo(doc, today) = "invalid" -> "under embargo"
                    [] OTHER -> None

---------------------------------------------------------------------------
(* The rest of the description. *)

\* map_department and map_program: the values without an authorized name are left out.
Authorized(table, values) ==
    LET known == SelectSeq(values, LAMBDA v : v \in DOMAIN table)
    IN  [i \in DOMAIN known |-> table[known[i]]]
AuthorizedField(doc, field, table) ==
    IF doc[field] = None THEN None ELSE Authorized(table, doc[field])

AllAuthors(doc) ==
    Values(doc, "contributor_author") \o Values(doc, "contributor_advisor")
       \o Values(doc, "contributor") \o Authorized(Department, Values(doc, "department"))
       \o Authorized(Program, Values(doc, "certificate"))

ClassYear(doc) ==
    IF First(doc, "date_classyear") \in DOMAIN YearOf THEN YearOf[First(doc, "date_classyear")] ELSE None

Unique(s) == FoldLeft(LAMBDA kept, v : IF Contains(kept, v) THEN kept ELSE Append(kept, v), <<>>, s)

EnglishName(code) == IF code \in DOMAIN LanguageName THEN LanguageName[code] ELSE "English"
Languages(doc) ==
    LET codes == Values(doc, "language_iso")
    IN  IF codes = <<>> THEN <<"English">> ELSE Unique([i \in DOMAIN codes |-> EnglishName(codes[i])])

\* A title is a sequence of words.
TrimStart(title, article) ==
    LET kept == {i \in DOMAIN title : i = Len(title) \/ title[i] # article}
    IN  IF title = <<>> THEN title ELSE SubSeq(title, CHOOSE i \in kept : \A j \in kept : i <= j, Len(title))
TitleSortKey(title) == TrimStart(TrimStart(TrimStart(title, "a"), "an"), "the")
TitleSearchVersions(title) == Unique(<<title, [i \in DOMAIN title |-> Plain[title[i]]]>>)

\* The document for Solr.
SolrDocument(doc, today) ==
    LET title == First(doc, "title")
        departments == AuthorizedField(doc, "department", Department)
    IN  [access_facet |-> AccessFacet(doc, today),
         location |-> Location(doc, today),
         electronic_access |-> ArkHash(doc, today),
         holdings |-> PhysicalHolding(doc, today),
         restrictions_note |-> RestrictionsNote(doc, today),
         call_number |-> CallNumber(doc),
         author |-> doc.contributor_author,
         author_s |-> AllAuthors(doc),
         author_sort_key |-> First(doc, "contributor_author"),
         advisor |-> doc.contributor_advisor,
         contributor |-> doc.contributor,
         certificate |-> AuthorizedField(doc, "certificate", Program),
         department |-> departments,
         pub_citation |-> IF departments = None THEN <<>> ELSE departments,
         title |-> title,
         title_sort_key |-> IF title = None THEN None ELSE TitleSortKey(title),
         title_t |-> IF title = None THEN None ELSE TitleSearchVersions(title),
         language |-> Languages(doc),
         class_year |-> ClassYear(doc),
         description |-> doc.format_extent,
         summary |-> doc.description_abstract]
=============================================================================
