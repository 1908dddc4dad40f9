---------------------------- MODULE MarcHoldings ----------------------------
(***************************************************************************)
(* Where a MARC record says its copies are:                                *)
(* lib/bibdata_rs/src/marc/{holdings,scsb,control_field/control_number}.   *)
(* A holding (852) and an item (876) are records of their subfields, each  *)
(* Absent or a value the model only compares.                              *)
(***************************************************************************)
EXTENDS SequencesExt, Subsequences

CONSTANTS
    Absent,       \* a subfield that is not there
    AlmaHolding,  \* the holding ids 22...06421
    LibraryOf,    \* LibraryOf[c]: the library of the location code c, for the codes in the table
    Group,        \* Group[x]: the collection group x stands for, whatever its case and the spaces around it
    GroupExact,   \* the same for the ways the SCSB notes know
    PartnerOf     \* PartnerOf[b]: the letter of the ReCAP partner whose location code is b

\* control_number.rs: what an id is, by how it begins and ends.
ControlNumber(record) == record.control_number
IsScsb(record) == ControlNumber(record) = "scsb"

---------------------------------------------------------------------------
(* The location codes of the catalog. *)

\* A code is a sequence of a library and, in Alma, a location.
AlmaPermanentLocation(holding) ==
    IF holding.f8 \notin AlmaHolding THEN Absent
    ELSE IF holding.c = Absent THEN <<holding.b>> ELSE <<holding.b, holding.c>>

PartnerPermanentLocation(holding) == IF holding.f0 = Absent THEN Absent ELSE <<holding.b>>

PermanentLocation(record, holding) ==
    CASE ControlNumber(record) = "alma" -> AlmaPermanentLocation(holding)
      [] ControlNumber(record) = "scsb" -> PartnerPermanentLocation(holding)
      [] OTHER -> Absent

\* That of the first item of the holding.
CurrentLocation(record, holding) ==
    LET places == {k \in DOMAIN record.items : record.items[k].f0 = holding.f8}
        item == record.items[CHOOSE k \in places : \A j \in places : k <= j]
    IN  IF holding.f8 = Absent \/ places = {} THEN Absent
        ELSE IF Absent \in {item.y, item.z} THEN Absent
        ELSE <<item.y, item.z>>

InResourceSharing == <<"RES_SHARE", "IN_RS_REQ">>

\* Mutant: an item on loan is where the loan desk is.
LocationCodeAlwaysCurrent(record, holding) ==
    LET current == CurrentLocation(record, holding)
    IN  IF current # Absent THEN current ELSE PermanentLocation(record, holding)

\* An item asked for by another library stays where it belongs.
LocationCode(record, holding) ==
    LET current == CurrentLocation(record, holding)
        permanent == PermanentLocation(record, holding)
    IN  IF current = Absent \/ (current = InResourceSharing /\ permanent # Absent)
        THEN permanent ELSE current

Present(codes) == SelectSeq(codes, LAMBDA c : c # Absent)

LocationCodes(record) ==
    Present([h \in DOMAIN record.holdings |->
                IF record.holdings[h].b = Absent THEN Absent ELSE LocationCode(record, record.holdings[h])])

\* The names of the libraries, but "Online".
Libraries(codes) ==
    LET known == SelectSeq(codes, LAMBDA c : c \in DOMAIN LibraryOf /\ LibraryOf[c] # "Online")
    IN  [i \in DOMAIN known |-> LibraryOf[known[i]]]
LocationFacet(record) == Libraries(LocationCodes(record))

---------------------------------------------------------------------------
(* The holdings of the ReCAP partners. *)

CollectionGroup(x) == IF x \in DOMAIN Group THEN Group[x] ELSE Absent

\* Mutant: the group is read as the notes read it.
ShownItemsExact(record, holding) ==
    SelectSeq(record.items,
              LAMBDA i : i.f0 = holding.f0 /\ ~(i.x \in DOMAIN GroupExact /\ GroupExact[i.x] = "Private"))

\* The items of a holding, but the private ones.
IsShown(item, holding) == item.f0 = holding.f0 /\ CollectionGroup(item.x) # "Private"
ShownItems(record, holding) ==
    Chosen(record.items, {k \in DOMAIN record.items : IsShown(record.items[k], holding)})

PartnerHolding(record, h) ==
    LET items == ShownItems(record, h)
    IN  [id |-> h.f0, location |-> h.b,
         library |-> IF <<h.b>> \in DOMAIN LibraryOf THEN LibraryOf[<<h.b>>] ELSE h.b,
         items |-> [j \in DOMAIN items |-> [id |-> items[j].a, group |-> CollectionGroup(items[j].x)]]]

\* A holding without items is not shown.
Nonempty(holdings) == SelectSeq(holdings, LAMBDA h : h.id # Absent /\ h.items # <<>>)

PartnerHoldings(record) ==
    Nonempty([h \in DOMAIN record.holdings |-> PartnerHolding(record, record.holdings[h])])

\* The partner is that of the first 852 with a $b.
RecapPartner(record) ==
    LET coded == SelectSeq(record.holdings, LAMBDA h : h.b # Absent)
    IN  IF /\ IsScsb(record) /\ coded # <<>> /\ Head(coded).b \in DOMAIN PartnerOf
           /\ \E h \in DOMAIN record.holdings : record.holdings[h].f0 # Absent
        THEN PartnerOf[Head(coded).b] ELSE Absent

RecapPartnerNotes(record) ==
    LET grouped == SelectSeq(record.items, LAMBDA i : i.x \in DOMAIN GroupExact)
    IN  IF RecapPartner(record) = Absent THEN <<>>
        ELSE [i \in DOMAIN grouped |-> <<RecapPartner(record), GroupExact[grouped[i].x]>>]
=============================================================================
