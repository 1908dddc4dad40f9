------------------------------ MODULE MCRecords ------------------------------
(* Records with theses of up to three pairs of metadata, four folders (f4 has a *)
(* language of no vocabulary), MARC records of a holding and two items, coins.  *)
EXTENDS Records

CONSTANTS none, null, absent, f1, f2, f3, f4

MCInstant == [day1 |-> 1, day2 |-> 2, day3 |-> 3]
MCYearOf == [y2012 |-> 2012, y2013 |-> 2013]
MCDepartment == [Classics |-> "Department of Classics"]
MCProgram == [Theater |-> "Program in Theater"]
MCLanguageName == [fr |-> "French", en |-> "English"]
MCPlain == [w \in {"a", "the", "H2O", "thesis"} |-> IF w = "H2O" THEN "thesis" ELSE w]

Pair(k, v) == [key |-> k, value |-> v]
Entry == {
    Pair("dc.contributor.author", "Clark"), Pair("dc.contributor.author", "Dodd"),
    Pair("dc.contributor.advisor", null), Pair("pu.department", "Classics"),
    Pair("pu.department", "Astrology"), Pair("pu.certificate", "Theater"),
    Pair("dc.title", <<"a", "the", "H2O">>), Pair("dc.language.iso", "fr"),
    Pair("dc.language.iso", "xx"), Pair("pu.embargo.lift", "day2"),
    Pair("pu.embargo.lift", null), Pair("pu.unknown", "x")}
Optional(key, values) == {<<>>} \cup {<<Pair(key, v)>> : v \in values}
MCLegacyTheses ==
    UNION {[1..n -> Entry] : n \in 0..3}
      \cup {a \o b \o c \o d \o e \o f \o g :
              a \in Optional("pu.embargo.lift", {"day1", "day2", "year10000", "soon"}),
              b \in Optional("pu.embargo.terms", {"day2", "day3"}),
              c \in Optional("dc.rights.accessRights", {"reading room"}),
              d \in Optional("pu.mudd.walkin", {"yes"}),
              e \in Optional("pu.location", {"mudd"}),
              f \in Optional("pu.date.classyear", {"y2012", "y2013"}),
              g \in Optional("dc.identifier.uri", {"ark"})}

Label(l, vs) == [label |-> l, vocabularies |-> vs]
MCItem == [f \in {f1, f2, f3, f4} |->
    [format |-> IF f = f3 THEN <<>> ELSE <<"Book">>,
     language |-> IF f = f2 THEN <<>> ELSE IF f = f4 THEN <<Label("Nahuatl", none)>> ELSE <<Label("French", {"iso639"})>>,
     subject |-> IF f = f1 THEN <<Label("Parks", {"loc", "homosaurus"}), null, Label("Trees", none)>>
                 ELSE <<null>>,
     origin |-> IF f = f2 THEN <<null, Label("France", {"countries"})>> ELSE <<>>,
     coverage |-> IF f = f1 THEN <<Label("Chile", {"countries"}), Label("", none)>> ELSE <<>>,
     publisher |-> IF f = f1 THEN <<>> ELSE <<"Seuil">>,
     date_created |-> <<"undated", "y2012">>]]
MCListing == <<f1, f2>>

Holding == {[f0 |-> id[1], f8 |-> id[2], b |-> code[1], c |-> code[2]] :
    id \in {absent, "h1"} \X {absent, "h1", "22h"},
    code \in {<<absent, absent>>, <<"firestone", absent>>, <<"firestone", "stacks">>}}
MarcItem == {[f0 |-> f0, x |-> x, y |-> code[1], z |-> code[2], a |-> "i"] :
    f0 \in {"h1", "22h"}, x \in {absent, "Private", "private ", "Shared"},
    code \in {<<absent, "res">>, <<"RES_SHARE", "IN_RS_REQ">>, <<"firestone", "res">>}}
MCMarcRecords ==
    [control_number : {"alma", "scsb", "other"}, holdings : [1..1 -> Holding],
     items : UNION {[1..n -> MarcItem] : n \in 0..2}]
MCCoinListing == <<"denarius", "drachm", "follis">>
MCGroup == "Private" :> "Private" @@ "private " :> "Private" @@ "Shared" :> "Shared"
MCGroupExact == "Private" :> "Private" @@ "Shared" :> "Shared"
MCLibraryOf == <<"firestone", "stacks">> :> "Firestone" @@ <<"firestone">> :> "Firestone"
                  @@ <<"firestone", "res">> :> "Firestone" @@ <<"RES_SHARE", "IN_RS_REQ">> :> "Loans"
MCPartnerOf == "firestone" :> "C"
=============================================================================
