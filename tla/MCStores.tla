------------------------------- MODULE MCStores -------------------------------
(* Checks what keeps parameters and sources outside of the steps: kind is the *)
(* part under test, config and step are its variables.                        *)
EXTENDS Integers, Sequences, FiniteSetsExt

VARIABLES kind, config, step

vars == <<kind, config, step>>

ParmDB == INSTANCE ParmDatabase WITH
    MeasurementSets <- {[start |-> 0, ntime |-> 3], [start |-> 1, ntime |-> 1]},
    Settings <- {[mode |-> "phase", solint |-> 1, chunk |-> 2, nchan |-> 1],
                 [mode |-> "amplitude", solint |-> 2, chunk |-> 1, nchan |-> 2],
                 [mode |-> "gain", solint |-> 2, chunk |-> 2, nchan |-> 2]},
    NChan <- 2, MaxTimes <- 3, MaxRuns <- 3

\* Axes without holes, with edges at these places.
Edges == {0, 2, 4, 6, 8, 10}
Following(edges, edge) == Min({e \in edges : e > edge})
RECURSIVE CellsFrom(_, _)
CellsFrom(edges, edge) ==
    IF edge = Max(edges) THEN <<>>
    ELSE LET next == Following(edges, edge)
         IN  <<ParmDB!Cell(edge, next)>> \o CellsFrom(edges, next)
Axes == {CellsFrom(edges, Min(edges)) : edges \in {e \in SUBSET Edges : Cardinality(e) > 1}}

SkyLine(name, patch, ra, flux) ==
    [name |-> name, patch |-> patch, at |-> <<ra, 1>>, flux |-> flux, inside |-> TRUE]
Outside(line) == [line EXCEPT !.inside = FALSE]
\* The name of a source may be that of a patch.
SkyLines ==
    {SkyLine(<<>>, <<"P">>, 0, 5), SkyLine(<<>>, <<"Q">>, 1, 0), SkyLine(<<"s1">>, <<"P">>, 2, 1),
     SkyLine(<<"s2">>, <<"P">>, 4, 2), SkyLine(<<"s2">>, <<"Q">>, 3, 1), SkyLine(<<"P">>, <<>>, 5, 1),
     SkyLine(<<"s3">>, <<"Q">>, 1, 0), Outside(SkyLine(<<"s1">>, <<"Q">>, 9, 3))}
SourceDB == INSTANCE SourceDatabase WITH MaxLines <- 4, MaxRuns <- 2

Par == INSTANCE ParameterSet WITH Files <- {}, Arguments <- {}, MaxCalls <- 0
W(name) == Par!Name(<<Par!Word(name)>>)
N(n) == Par!Name(<<Par!Number(n)>>)
CS == <<Par!Word("CS")>>
Vectors ==
    {<<W("a")>>, <<W("a"), W("b")>>, <<N(3)>>, <<N(3), N(0)>>, <<>>,
     <<Par!QuotedName(<<Par!Word("a"), Par!Sign(","), Par!Blank, Par!Sign("#"), Par!Sign("=")>>), W("b")>>,
     <<Par!Span(CS, 1, 3, "once"), W("b")>>, <<Par!Span(CS, 2, 0, "twice")>>, <<Par!Span(CS, 1, 2, "{")>>,
     <<Par!Span(<<>>, 2, 4, "once"), N(7)>>, <<Par!Span(<<>>, 1, 1, "once")>>,
     <<Par!Times(2, "(", <<W("a"), W("b")>>), W("c")>>, <<Par!Times(3, "plain", <<N(1)>>)>>,
     <<Par!Times(2, "[", <<W("a"), W("b")>>)>>, <<W("c"), Par!Times(1, "(", <<W("a")>>), W("b")>>,
     <<Par!Times(2, "(", <<Par!Times(2, "plain", <<W("a")>>), Par!Span(CS, 0, 1, "once")>>)>>,
     <<Par!Times(2, "plain", <<Par!Span(CS, 0, 1, "twice")>>)>>,
     <<Par!List(<<W("a"), W("b")>>), W("c")>>, <<Par!List(<<Par!Span(CS, 1, 2, "{")>>), Par!List(<<>>)>>,
     <<Par!List(<<W("a"), W("b")>>), Par!List(<<W("c")>>)>>}
Layouts ==
    {l \in [quoted : BOOLEAN, indented : BOOLEAN, comment : BOOLEAN, broken : BOOLEAN, backslash : BOOLEAN] :
        l.backslash => l.broken}
PlainLayout == [quoted |-> FALSE, indented |-> FALSE, comment |-> FALSE, broken |-> FALSE, backslash |-> FALSE]
Key(name) == <<Par!Word(name)>>
PairOf(key, vector, layout) == [key |-> key, vector |-> vector, layout |-> layout]
Files ==
    {<<PairOf(Key("k"), v, l)>> : v \in Vectors, l \in Layouts}
    \cup {<<PairOf(Key("k"), <<W("a"), W("b")>>, l), PairOf(key, w, PlainLayout)>> :
            l \in Layouts, key \in {Key("k"), Key("l"), Par!CheckParset},
            w \in {<<N(1)>>, <<W("a"), Par!List(<<W("b"), W("c")>>)>>}}
Arguments ==
    {PairOf(Key("k"), <<W("b")>>, PlainLayout), PairOf(Key("m"), <<W("d")>>, PlainLayout)}
    \cup {PairOf(Par!CheckParset, <<v>>, PlainLayout) :
            v \in {N(0), N(1), Par!Name(<<Par!Sign("-"), Par!Number(1)>>), W("true"), W("false"), W("b")}}
Parameters == INSTANCE ParameterSet WITH MaxCalls <- 2

\* What is written to blobs: an object of two values, an object in another one,
\* and a patch with two sources, the second one read into the first one's object.
Call(k, value) == [kind |-> k, type |-> <<>>, value |-> value]
StartOf(type, version) == [Call("start", <<version>>) EXCEPT !.type = type]
End == Call("end", <<>>)
SomeValues ==
    {Call("n2", <<258>>), Call("text", <<72>>), Call("align", <<>>), Call("bools", <<0, 1, 1>>),
     Call("space", <<1, 1, 6>>)}
AllValues == SomeValues \cup
    {Call("n1", <<200>>), Call("n4", <<70000>>), Call("n8", <<5>>), Call("complex", <<258, 3>>),
     Call("text", <<>>), Call("vector", <<1, 512>>), Call("bools", <<1, 0, 1, 1, 0, 0, 0, 1, 1, 0>>),
     Call("bools", <<>>), Call("array", <<2, 2, 1, 9, 256>>), Call("array", <<0>>),
     Call("carray", <<2, 1, 2, 7, 8>>)}
Blob == INSTANCE Blobs WITH Scripts <- {}, BitsPerPut <- 8
Point ==
    [Blob!EmptySource EXCEPT
        !.version = <<2>>, !.name = <<80, 49>>, !.patch = <<65>>, !.refType = <<74>>,
        !.logarithmic = <<1>>, !.ra = <<3>>, !.dec = <<260>>, !.I = <<1000>>, !.V = <<2>>]
BlobSources ==
    {Point, [Point EXCEPT !.type = <<1>>, !.major = <<5>>, !.minor = <<4>>, !.orientation = <<300>>],
     [Point EXCEPT !.type = <<3>>, !.scaleI = <<5>>, !.scaleV = <<4>>, !.coeffI = <<2, 1, 2, 9, 8>>],
     [Point EXCEPT !.nterms = <<2>>, !.terms = <<11, 512>>, !.reference = <<150>>, !.logarithmic = <<0>>],
     [Point EXCEPT !.version = <<1>>, !.nterms = <<1>>, !.terms = <<12>>, !.reference = <<150>>,
                   !.useRotation = <<1>>, !.angle = <<6>>, !.fraction = <<7>>, !.rotation = <<900>>]}
BlobPatch == [name |-> <<66>>, category |-> <<2>>, brightness |-> <<400>>, ra |-> <<1>>, dec |-> <<770>>]
BlobScripts ==
    {<<StartOf(<<65>>, 2), x, y, End>> : x \in AllValues, y \in SomeValues}
    \cup {<<StartOf(<<65, 66>>, 1), x, StartOf(<<>>, 3), y, End, z, End>> :
            x \in SomeValues, y \in SomeValues, z \in SomeValues}
    \cup {<<Call("patch", BlobPatch), Call("source", x), Call("source", y)>> :
            x \in BlobSources, y \in BlobSources}
Binary == INSTANCE Blobs WITH Scripts <- BlobScripts, BitsPerPut <- 8

\* Sky models: fields with their texts, and how these are written.
Sky == INSTANCE SkyModelFormat WITH Models <- {}, ShapeletFiles <- <<>>
Name(w) == <<Sky!Word(w)>>
Num(n) == <<Sky!Number(n)>>
QuotedText(text) == <<Sky!Sign("'")>> \o text \o <<Sky!Sign("'")>>
Col(name, column) == [name |-> name, given |-> "none", text |-> <<>>, sep |-> ",", column |-> column]
GivenCol(name, given, text, column) == [Col(name, column) EXCEPT !.given = given, !.text = text]
Model(fields, right) ==
    [fields |-> fields, heading |-> "plain", blanks |-> FALSE, cut |-> FALSE, right |-> right,
     place |-> <<54000, -3600>>, region |-> <<>>, search |-> [center |-> <<>>, radius |-> <<>>, width |-> <<>>]]
Colons(n) == <<Sky!Number(n \div 3600), Sky!Sign(":"), Sky!Number((n \div 60) % 60), Sky!Sign(":"), Sky!Number(n % 60)>>
Dots(n) == <<Sky!Number(n \div 3600), Sky!Sign("."), Sky!Number((n \div 60) % 60), Sky!Sign("."), Sky!Number(n % 60)>>
Signed(n, text) == IF n < 0 THEN <<Sky!Sign("-")>> \o text ELSE text
Size(n) == IF n < 0 THEN -n ELSE n
\* A place in each way to write it: text, hours or degrees, minutes and seconds.
RaFields(ra, way) ==
    CASE way = "text" -> <<Col("Ra", Colons(ra \div 15))>>
      [] way = "hours" ->
            <<Col("rah", Num(ra \div 54000)), Col("ram", Num((ra \div 900) % 60)), Col("ras", Num((ra \div 15) % 60))>>
      [] way = "degrees" -> <<Col("rad", Num(ra \div 3600)), Col("ram", Num((ra \div 60) % 60)), Col("ras", Num(ra % 60))>>
DecFields(dec, way) ==
    LET degrees == IF dec < 0 THEN -(Size(dec) \div 3600) ELSE dec \div 3600
    IN  CASE way = "text" -> <<Col("Dec", Signed(dec, Dots(Size(dec))))>>
          [] way = "deg" -> <<Col("Dec", Signed(dec, Num(Size(dec) \div 3600) \o Name("deg")))>>
          [] way = "degrees" ->
                <<Col("decs", Num(Size(dec) % 60)), Col("decd", Num(degrees)), Col("decm", Num((Size(dec) \div 60) % 60))>>
Place == RaFields(54000, "text") \o DecFields(-3600, "deg")

\* Fields of all kinds, in all kinds of lines.
Extras ==
    {Col("Patch", Name("A")), Col("Patch", <<>>), GivenCol("Patch", "default", Name("P"), <<>>),
     GivenCol("Patch", "default", Name("P"), Name("A")), GivenCol("Category", "fixed", Num(3), <<>>),
     Col("Type", QuotedText(Name("gaussian"))),
     Col("", <<Sky!Sign("["), Sky!Number(1), Sky!Sign(","), Sky!Number(2), Sky!Sign("]")>>),
     Col("dummy", QuotedText(<<Sky!Sign(","), Sky!Sign("["), Sky!Blank>>)),
     Col("Flag", Num(4)), GivenCol("Flag", "default", Num(5), <<>>), GivenCol("I", "fixed", Num(2), <<>>)}
SomeExtras == {Col("Patch", <<>>), GivenCol("Category", "fixed", Num(3), <<>>), Col("Flag", Num(4))}
Separated(fields, i, sep) == [k \in DOMAIN fields |-> IF k = i THEN [fields[k] EXCEPT !.sep = sep] ELSE fields[k]]
Layout == {<<Col("Name", Name("s")), x, y>> \o Place : x \in Extras, y \in SomeExtras}
          \cup {<<Col("Name", Name("s"))>> \o Place \o <<x, y>> : x \in Extras, y \in SomeExtras}
          \cup {<<GivenCol("I", "fixed", Num(7), <<>>)>> \o Place
                 \o <<Col("Name", QuotedText(<<Sky!Word("s"), Sky!Blank, Sky!Sign(",")>>)), x>> : x \in Extras}
\* A blank next to a field without a name is no separator.
Written(fields) ==
    {[Model(f, TRUE) EXCEPT !.heading = h, !.blanks = b, !.cut = c] :
        f \in {g \in {Separated(fields, i, sep) : i \in 1 .. 4, sep \in {",", ";", " "}} :
                \A i \in DOMAIN g : g[i].sep = " " =>
                    /\ "" \notin {g[k].name : k \in DOMAIN g \cap {i, i + 1}}
                    /\ g[i].column = <<>> => g[i].given # "default"},
        h \in {"comment", "plain"}, b \in BOOLEAN, c \in BOOLEAN}

\* Headings that are left out, or a separator for all known fields.
Bare(names, sep) ==
    [i \in DOMAIN names |->
        [Col(names[i], CASE names[i] = "Name" -> Name("s") [] names[i] = "Ra" -> Colons(3600)
                         [] names[i] = "Dec" -> <<Sky!Sign("-")>> \o Num(1) \o Name("deg") [] OTHER -> <<>>)
            EXCEPT !.sep = sep]]
Headings ==
    {[Model(Bare(Sky!DefaultFormat, ","), TRUE) EXCEPT !.heading = "none", !.blanks = b, !.cut = c] :
        b \in BOOLEAN, c \in BOOLEAN}
    \cup {[Model(Bare(Sky!KnownFields, sep), TRUE) EXCEPT !.heading = "sign", !.blanks = b, !.cut = c] :
            sep \in {",", ";"}, b \in BOOLEAN, c \in BOOLEAN}

\* Places in all ways; a place in quotes, in two ways, or beyond the pole is wrong.
At(ra, dec, x, y, right) ==
    [Model(<<Col("Name", Name("s"))>> \o RaFields(ra, x) \o DecFields(dec, y), right) EXCEPT !.place = <<ra, dec>>]
SomePlaces ==
    {At(ra, dec, x, y, TRUE) : ra \in {0, 54915, 1241985}, dec \in {0, 3661, -7325, 324000},
        x \in {"text", "hours", "degrees"}, y \in {"text", "degrees"}}
    \cup {At(ra, dec, "hours", "deg", TRUE) : ra \in {54915}, dec \in {-3600, 7200}}
WrongPlaces ==
    {At(0, 330120, "text", y, FALSE) : y \in {"text", "degrees"}}
    \cup {Model(<<Col("Name", Name("s"))>> \o fields, FALSE) :
            fields \in {<<Col("Ra", QuotedText(Colons(3600)))>> \o DecFields(-3600, "deg"), RaFields(54000, "text"),
                        DecFields(-3600, "deg"), Place \o <<Col("ram", Num(0))>>, Place \o <<Col("decs", <<>>)>>,
                        <<Col("rah", Num(1)), Col("rad", Num(15))>> \o DecFields(-3600, "deg"),
                        <<Col("Ra", Colons(3600)), Col("Dec", Colons(3600))>>,
                        <<Col("rah", Name("one"))>> \o DecFields(-3600, "deg")}}
    \cup {Model(<<Col("Name", <<>>)>> \o Place, FALSE),
           Model(<<Col("Name", <<Sky!Sign("'"), Sky!Word("s")>>)>> \o Place, FALSE),
           Model(<<Col("Name", Name("s")), Col("I", Name("one"))>> \o Place, FALSE),
           Model(<<Col("Name", Name("s")), Col("Flag", Name("one"))>> \o Place, FALSE),
           Model(<<Col("Name", Name("s")), Col("Type", Name("cloud"))>> \o Place, FALSE),
           Model(<<Col("Name", Name("s")), Col("SpectralIndexDegree", Num(1))>> \o Place, FALSE)}

\* Fluxes, or a rotation measure with fluxes or with fraction and angle.
Polarized == {"RotationMeasure", "Q", "U", "PolarizedFraction", "PolarizationAngle", "ReferenceWavelength",
              "ReferenceFrequency"}
PolarizationIsRight(names) ==
    \/ names \subseteq {"Q", "U", "ReferenceFrequency"}
    \/ {"RotationMeasure", "Q", "U"} \subseteq names /\ {"PolarizedFraction", "PolarizationAngle"} \cap names = {}
       /\ {"ReferenceWavelength", "ReferenceFrequency"} \cap names # {}
    \/ {"RotationMeasure", "PolarizedFraction", "PolarizationAngle"} \subseteq names
       /\ {"Q", "U", "ReferenceWavelength"} \cap names = {}
Terms == {<<>>, Num(1), <<Sky!Sign("[")>> \o Num(1) \o <<Sky!Sign(","), Sky!Blank>> \o Num(2) \o <<Sky!Sign("]")>>}
PolarizationModels ==
    {Model(<<Col("Name", Name("s")), Col("SpectralIndex", terms)>> \o Place
           \o SelectSeq([i \in 1 .. 7 |-> Col(<<"RotationMeasure", "Q", "U", "PolarizedFraction", "PolarizationAngle",
                                              "ReferenceWavelength", "ReferenceFrequency">>[i], Num(i))],
                        LAMBDA field : field.name \in names),
           PolarizationIsRight(names) /\ (terms # <<>> => "ReferenceFrequency" \in names)) :
        names \in SUBSET Polarized, terms \in Terms}

\* Shapelets: one file for all, or one each.
ShapeletFiles == [good |-> [order |-> 2, indices |-> <<0, 1, 2, 3>>], short |-> [order |-> 2, indices |-> <<0, 1, 2>>],
          mixed |-> [order |-> 2, indices |-> <<0, 2, 1, 3>>], none |-> [order |-> 0, indices |-> <<>>]]
Shapes ==
    {Model(<<Col("Name", Name("s")), Col("Type", Name("shapelet")), Col("IShapelet", i), Col("UShapelet", u)>> \o Place,
           i = Name("good") /\ u \in {<<>>, Name("good")}) :
        i \in {Name("good"), Name("short"), Name("mixed"), <<>>}, u \in {Name("good"), Name("none"), Name("other"), <<>>}}
    \cup {Model(<<Col("Name", Name("s")), Col("Type", Name("gaussian")), Col("MajorAxis", Num(3)), Col("MinorAxis", x)>>
                \o Place, TRUE) :
            x \in {<<>>, Num(2)}}

\* Regions: boxes and circles, and places in and outside them.
Degrees(n) == Signed(n, Num(Size(n)) \o Name("deg"))
Searched(ra, dec, center, width, search) ==
    [At(3600 * ra, 3600 * dec, "degrees", "deg", TRUE) EXCEPT
        !.region = <<3600 * center[1], 3600 * center[2], 3600 * width[1], 3600 * width[2]>>,
        !.search = [search EXCEPT !.center = <<Degrees(center[1]), Degrees(center[2])>>]]
Anywhere == [center |-> <<>>, radius |-> <<>>, width |-> <<>>]
Boxes ==
    {Searched(ra, dec, <<c, 10>>, <<w, w>>, [Anywhere EXCEPT !.width = <<Degrees(w)>>]) :
        ra \in {0, 3, 5, 180, 355, 357}, dec \in {8, 14}, c \in {0, 4, 358, -2}, w \in {4, 6}}
    \cup {Searched(ra, dec, <<0, 10>>, <<6, 10>>, [Anywhere EXCEPT !.width = <<Degrees(6), Degrees(10)>>]) :
            ra \in {3, 4, 357}, dec \in {6, 14, 16}}
Circles ==
    {Searched(ra, 0, <<c, 0>>, <<6, 6>>, [Anywhere EXCEPT !.radius = <<Degrees(3)>>]) :
        ra \in {1, 2, 5, 180, 355, 359}, c \in {0, 358}}
    \cup {Searched(20, dec, <<20, 10>>, <<6, 6>>, [Anywhere EXCEPT !.radius = <<Degrees(3)>>]) : dec \in {8, 12, 14, -12}}
WrongSearches ==
    {[Model(<<Col("Name", Name("s"))>> \o Place, FALSE) EXCEPT !.search = search] :
        search \in {[Anywhere EXCEPT !.center = <<Degrees(1)>>, !.radius = <<Degrees(3)>>],
                    [center |-> <<Degrees(1), Degrees(1)>>, radius |-> <<Degrees(3)>>, width |-> <<Degrees(3)>>],
                    [Anywhere EXCEPT !.center = <<Degrees(1), Degrees(1)>>],
                    [Anywhere EXCEPT !.center = <<Degrees(1), Colons(3600)>>, !.radius = <<Degrees(3)>>],
                    [Anywhere EXCEPT !.center = <<Degrees(1), Degrees(1)>>,
                               !.width = <<Degrees(3), Degrees(3), Degrees(3)>>]}}
SkyModels ==
    UNION {Written(f) : f \in Layout} \cup Headings \cup SomePlaces \cup WrongPlaces \cup PolarizationModels \cup Shapes
    \cup Boxes \cup Circles \cup WrongSearches
Format == INSTANCE SkyModelFormat WITH Models <- SkyModels

Init ==
    \/ kind = "axes" /\ config \in Axes /\ step \in Axes
    \/ kind = "parmdb" /\ ParmDB!DatabaseInit
    \/ kind = "sourcedb" /\ SourceDB!SourcesInit
    \/ kind = "parset" /\ Parameters!ParametersInit
    \/ kind = "blob" /\ Binary!BlobsInit
    \/ kind = "format" /\ Format!FormatInit

Next ==
    /\ UNCHANGED kind
    /\ \/ kind = "parmdb" /\ ParmDB!DatabaseNext
       \/ kind = "sourcedb" /\ SourceDB!SourcesNext
       \/ kind = "parset" /\ Parameters!ParametersNext
       \/ kind = "blob" /\ Binary!BlobsNext
       \/ kind = "format" /\ Format!FormatNext

Spec == Init /\ [][Next]_vars

(* The properties: each is that of the module of its part.                    *)

\* The parameter database: the values that are read are those written last, on
\* whatever grid; and axes are combined and searched alike from both sides.
ReadIsWhatWasWritten ==
    /\ kind = "parmdb" => ParmDB!ReadIsWhatWasWritten
    /\ kind = "axes" => ParmDB!AxesAgree(config, step)

\* The source database: patches have the sources and values of their lines, and
\* what is read from its blobs is what was written to them; the text of a sky
\* model is understood as it was meant.
PatchesAreWhatTheLinesSay ==
    /\ kind = "sourcedb" => SourceDB!PatchesAreWhatTheLinesSay
    /\ kind = "blob" => Binary!BlobsAreReadAsWritten
    /\ kind = "format" => Format!TextsAreUnderstood

\* The parameter set: values mean what was meant, unused keys are told.
ParametersAreAsMeant == kind = "parset" => Parameters!ParametersAreAsMeant
=============================================================================
