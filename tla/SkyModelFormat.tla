---------------------------- MODULE SkyModelFormat ----------------------------
(***************************************************************************)
(* The text of a sky model (parmdb/SkymodelToSourceDB.cc): a file has a    *)
(* format, which names the fields of a line and the separators after them, *)
(* with default or fixed values; a line has the values.  A source is made  *)
(* from the known fields.  What happens to it in the database is part of   *)
(* SourceDatabase.                                                         *)
(*                                                                         *)
(* A text is a sequence of tokens: words, numbers and signs.  Upper case   *)
(* and tabs are left out; angles are in arcseconds.                        *)
(***************************************************************************)
EXTENDS Integers, Sequences, SequencesExt, FiniteSetsExt, TLC

CONSTANTS
    Models,        \* what is written: [fields, heading, blanks, cut, search]
    ShapeletFiles  \* their order and the indices of their lines, by name

VARIABLES config, step

Word(w) == <<"word", w>>
Number(n) == <<"number", n>>
Sign(c) == <<"sign", c>>
Blank == Sign(" ")
IsName(token) == token[1] # "sign"
Quotes == {Sign("'"), Sign("\"")}

\* Fields in the order of a format with nothing but a separator; more fields.
KnownFields ==
    <<"Name", "Type", "RefType", "Ra", "Dec", "I", "Q", "U", "V", "SpectralIndex", "LogarithmicSI",
      "ReferenceFrequency", "MajorAxis", "MinorAxis", "Orientation", "RotationMeasure",
      "PolarizedFraction", "PolarizationAngle", "ReferenceWavelength", "IShapelet", "QShapelet",
      "UShapelet", "VShapelet">>
OtherFields ==
    {"Category", "Patch", "rah", "rad", "ram", "ras", "dech", "decd", "decm", "decs"}
DefaultFormat == <<"Name", "Type", "Ra", "Dec", "I", "Q", "U", "V", "MajorAxis", "MinorAxis", "Orientation">>

-----------------------------------------------------------------------------
(* Texts.                                                                    *)

NonBlanks(text) == {i \in DOMAIN text : text[i] # Blank}
LTrim(text) == IF NonBlanks(text) = {} THEN <<>> ELSE SubSeq(text, Min(NonBlanks(text)), Len(text))
RTrim(text) == IF NonBlanks(text) = {} THEN <<>> ELSE SubSeq(text, 1, Max(NonBlanks(text)))
From(text, i) == SubSeq(text, i, Len(text))
Fail(s, what) == [s EXCEPT !.error = what]

\* Faulty variant: separators inside brackets count.
MutantSeparates(token, sep, scan) == token = Sign(sep)
\* Separators in quotes or brackets are part of the value.
Separates(token, sep, scan) == token = Sign(sep) /\ scan.depth = 0

\* nextValue: the number of tokens before the next separator.
Scanned(scan, token, sep) ==
    CASE scan.found \/ scan.error # "" -> scan
      [] scan.quote # <<>> -> [scan EXCEPT !.length = @ + 1, !.quote = IF token = @ THEN <<>> ELSE @]
      [] token \in Quotes -> [scan EXCEPT !.length = @ + 1, !.quote = token]
      [] token = Sign("[") -> [scan EXCEPT !.length = @ + 1, !.depth = @ + 1]
      [] token = Sign("]") /\ scan.depth = 0 -> Fail(scan, "unbalanced square brackets")
      [] token = Sign("]") -> [scan EXCEPT !.length = @ + 1, !.depth = @ - 1]
      [] Separates(token, sep, scan) -> [scan EXCEPT !.found = TRUE]
      [] OTHER -> [scan EXCEPT !.length = @ + 1]
NextValue(text, sep) ==
    LET scan == FoldLeft(LAMBDA s, token : Scanned(s, token, sep),
                         [length |-> 0, found |-> FALSE, depth |-> 0, quote |-> <<>>, error |-> ""], text)
    IN  IF ~scan.found /\ (scan.quote # <<>> \/ scan.depth # 0) THEN Fail(scan, "unbalanced") ELSE scan

Unquote(text) ==
    IF Len(text) > 1 /\ text[1] \in Quotes /\ text[Len(text)] = text[1]
    THEN SubSeq(text, 2, Len(text) - 1) ELSE text

\* string2vector
RECURSIVE Elements(_)
Elements(text) ==
    IF text = <<>> THEN <<>>
    ELSE LET next == NextValue(text, ",")
         IN  <<RTrim(SubSeq(text, 1, next.length))>> \o Elements(LTrim(From(text, next.length + 2)))
String2Vector(text) ==
    IF Len(text) < 2 \/ text[1] # Sign("[") \/ text[Len(text)] # Sign("]")
    THEN (IF text = <<>> THEN <<>> ELSE <<text>>)
    ELSE Elements(RTrim(LTrim(SubSeq(text, 2, Len(text) - 1))))

-----------------------------------------------------------------------------
(* The format.                                                               *)

\* ReadFormat: in a comment, or in the first line that is none.
IsComment(line) == LTrim(line)[1] = Sign("#")
NonBlank(line) == SelectSeq(line, LAMBDA token : token # Blank)
IsFormat(line) == Len(NonBlank(line)) > 1 /\ SubSeq(NonBlank(line), 1, 2) = <<Word("format"), Sign("=")>>
IsCommentedFormat(line) ==
    LET text == NonBlank(line)
    IN  /\ Len(text) > 4 /\ SubSeq(text, 1, 2) = <<Sign("#"), Sign("(")>>
        /\ From(text, Len(text) - 2) = <<Sign(")"), Sign("="), Word("format")>>
Places(line, token) == {i \in DOMAIN line : line[i] = token}
ReadFormat(lines) ==
    LET filled == {i \in DOMAIN lines : LTrim(lines[i]) # <<>>}
        data == Min({Len(lines) + 1} \cup {i \in filled : ~IsComment(lines[i])})
        commented == {i \in filled : i < data /\ IsCommentedFormat(lines[i])}
    IN  IF commented # {}
        THEN LET line == lines[Min(commented)]
             IN  SubSeq(line, Min(Places(line, Sign("("))) + 1, Max(Places(line, Sign(")"))) - 1)
        ELSE IF data \in DOMAIN lines /\ IsFormat(lines[data])
        THEN From(lines[data], Min(Places(lines[data], Sign("="))) + 1)
        ELSE FoldLeft(LAMBDA text, name : (IF text = <<>> THEN text ELSE text \o <<Sign(",")>>) \o <<Word(name)>>,
                      <<>>, DefaultFormat)

\* A default or fixed value after a name, and what is left of the format.
NoValue(rest) == [given |-> "none", text |-> <<>>, rest |-> rest, error |-> ""]
GivenValue(rest) ==
    IF rest = <<>> \/ rest[1] # Sign("=") THEN NoValue(rest)
    ELSE LET value == LTrim(Tail(rest))
             isFixed == Len(value) > 1 /\ value[1] = Word("fixed")
             quoted == IF isFixed THEN Tail(value) ELSE value
             ends == {i \in 2 .. Len(quoted) : quoted[i] = quoted[1]}
         IN  IF quoted = <<>> \/ quoted[1] \notin Quotes \/ ends = {}
             THEN Fail(NoValue(<<>>), "no quoted value")
             ELSE [given |-> IF isFixed THEN "fixed" ELSE "default", text |-> SubSeq(quoted, 2, Min(ends) - 1),
                   rest |-> LTrim(From(quoted, Min(ends) + 1)), error |-> ""]

\* The fields of a format: [name, given, text, sep] each; none if there is an error.
Field(name, value, sep) == [name |-> name, given |-> value.given, text |-> value.text, sep |-> sep]
Wrong == <<[name |-> "", given |-> "error", text |-> <<>>, sep |-> ""]>>
RECURSIVE ParseFields(_)
ParseFields(rest) ==
    IF rest = <<>> THEN <<>>
    ELSE IF Len(rest) = 1 /\ IsName(rest[1]) THEN <<Field(rest[1][2], NoValue(<<>>), " ")>>
    ELSE LET name == IF IsName(rest[1]) THEN rest[1][2] ELSE ""
             value == GivenValue(LTrim(IF IsName(rest[1]) THEN Tail(rest) ELSE rest))
             next == value.rest
         IN  IF value.error # "" \/ name = "SpectralIndexDegree" \/ (next # <<>> /\ next[1] \in Quotes)
             THEN Wrong
             ELSE IF next = <<>> THEN <<Field(name, value, "")>>
             ELSE IF IsName(next[1]) THEN <<Field(name, value, " ")>> \o ParseFields(next)
             ELSE <<Field(name, value, next[1][2])>> \o ParseFields(LTrim(Tail(next)))

Names(fields) == {fields[i].name : i \in DOMAIN fields}
\* checkRaDec
PlaceIsGiven(names, whole, parts) ==
    /\ ({whole} \cup parts) \cap names # {}
    /\ whole \in names => parts \cap names = {}
RaParts == {"rah", "rad", "ram", "ras"}
DecParts == {"dech", "decd", "decm", "decs"}
\* getFormat; one sign alone is the separator of all known fields.
GetFormat(format) ==
    LET text == RTrim(LTrim(format))
        fields == IF Len(text) = 1
                  THEN [i \in DOMAIN KnownFields |-> Field(KnownFields[i], NoValue(<<>>), text[1][2])]
                  ELSE ParseFields(text)
    IN  IF /\ \A i \in DOMAIN fields : fields[i].given # "error"
           /\ PlaceIsGiven(Names(fields), "Ra", RaParts) /\ ~({"rah", "rad"} \subseteq Names(fields))
           /\ PlaceIsGiven(Names(fields), "Dec", DecParts) /\ ~({"dech", "decd"} \subseteq Names(fields))
        THEN fields ELSE Wrong

-----------------------------------------------------------------------------
(* A line.                                                                   *)

\* Faulty variant: a fixed value has a column in the line.
MutantTaken(s, field) ==
    LET next == NextValue(s.rest, field.sep)
        value == IF field.given = "fixed" THEN field.text ELSE RTrim(SubSeq(s.rest, 1, next.length))
    IN  IF s.error # "" \/ next.error # "" THEN Fail(s, "unbalanced")
        ELSE [s EXCEPT !.values = Append(@, IF value = <<>> /\ field.given = "default" THEN field.text ELSE value),
                       !.rest = LTrim(From(@, next.length + 2))]
\* process: the value of a field; a fixed one has no column.
Taken(s, field) ==
    LET next == NextValue(s.rest, field.sep)
        value == RTrim(SubSeq(s.rest, 1, next.length))
    IN  IF s.error # "" THEN s
        ELSE IF field.given = "fixed" THEN [s EXCEPT !.values = Append(@, field.text)]
        ELSE IF next.error # "" THEN Fail(s, "unbalanced")
        ELSE [s EXCEPT !.values = Append(@, IF value = <<>> /\ field.given = "default" THEN field.text ELSE value),
                       !.rest = LTrim(From(@, next.length + 2))]
Values(fields, line) == FoldLeft(Taken, [rest |-> LTrim(line), values |-> <<>>, error |-> ""], fields)

\* The text of a known field: the last one of that name counts.
Raw(fields, values, name) ==
    LET places == {i \in DOMAIN fields : fields[i].name = name}
    IN  IF places = {} THEN <<>> ELSE values[Max(places)]
Texts(fields, values) ==
    [name \in ToSet(KnownFields) \cup OtherFields |-> Unquote(Raw(fields, values, name))]

\* string2real, string2int
IsReal(text) == text = <<>> \/ (Len(text) = 1 /\ text[1][1] = "number")
Real(text, default) == IF text = <<>> THEN default ELSE text[1][2]

\* MVAngle::read of casacore: hours, degrees with minutes and seconds, or degrees.
Unsigned(text) == IF text # <<>> /\ text[1] = Sign("-") THEN Tail(text) ELSE text
IsAngle(text) ==
    \/ Len(Unsigned(text)) = 5 /\ Unsigned(text)[2] = Unsigned(text)[4] /\ Unsigned(text)[2] \in {Sign(":"), Sign(".")}
    \/ Len(Unsigned(text)) = 2 /\ Unsigned(text)[2] = Word("deg")
ReadAngle(text) ==
    LET part(i) == Unsigned(text)[i][2]
        size == IF Len(Unsigned(text)) = 2 THEN 3600 * part(1)
                ELSE ((3600 * part(1)) + (60 * part(3)) + part(5)) * (IF Unsigned(text)[2] = Sign(":") THEN 15 ELSE 1)
    IN  IF Unsigned(text) = text THEN size ELSE -size

\* Faulty variant: minutes and seconds count upwards south of the equator.
MutantString2Pos(texts, names, whole, hours, degrees, minutes, seconds) ==
    IF whole \in names THEN (IF texts[whole] = <<>> THEN 0 ELSE ReadAngle(texts[whole]))
    ELSE LET degree == Real(texts[IF hours \in names THEN hours ELSE degrees], 0)
             rest == (60 * Real(texts[minutes], 0)) + Real(texts[seconds], 0)
         IN  ((3600 * degree) + rest) * (IF hours \in names THEN 15 ELSE 1)
\* string2pos; a place without any value is 1e-9 radians, which is 0 here.
String2Pos(texts, names, whole, hours, degrees, minutes, seconds) ==
    IF whole \in names THEN (IF texts[whole] = <<>> THEN 0 ELSE ReadAngle(texts[whole]))
    ELSE LET degree == Real(texts[IF hours \in names THEN hours ELSE degrees], 0)
             rest == (60 * Real(texts[minutes], 0)) + Real(texts[seconds], 0)
         IN  ((3600 * degree) + (IF degree < 0 THEN -rest ELSE rest)) * (IF hours \in names THEN 15 ELSE 1)
Ra(texts, names) == String2Pos(texts, names, "Ra", "rah", "rad", "ram", "ras")
Dec(texts, names) == String2Pos(texts, names, "Dec", "dech", "decd", "decm", "decs")

Types == {<<>>, <<Word("point")>>, <<Word("gaussian")>>, <<Word("disk")>>, <<Word("shapelet")>>}
TypeOf(text) == IF text = <<>> THEN "point" ELSE text[1][2]
Polarizations == {"PolarizedFraction", "PolarizationAngle"}
Fluxes == {"Q", "U"}
Given(texts, names) == {name \in names : texts[name] # <<>>}

\* The wavelength that Q and U are for: that of the reference frequency if not given.
WavelengthIsPositive(texts) == texts["ReferenceWavelength"] = <<>> \/ Real(texts["ReferenceWavelength"], 0) > 0
HasFrequency(texts) == Real(texts["ReferenceFrequency"], 0) > 0

\* process: rotation measures go with Q and U, or with fraction and angle.
RotationIsRight(texts) ==
    IF texts["RotationMeasure"] = <<>>
    THEN Given(texts, Polarizations \cup {"ReferenceWavelength"}) = {}
    ELSE IF Given(texts, Fluxes) # {}
    THEN /\ Given(texts, Fluxes) = Fluxes /\ Given(texts, Polarizations) = {}
         /\ texts["ReferenceWavelength"] = <<>> => HasFrequency(texts)
         /\ texts["SpectralIndex"] # <<>> => WavelengthIsPositive(texts)
    ELSE /\ Given(texts, Polarizations) = Polarizations
         /\ Real(texts["ReferenceWavelength"], 0) = 0

\* readShapelet: the lines of the file have to be numbered; I stands in for the others.
Shapelets == <<"IShapelet", "QShapelet", "UShapelet", "VShapelet">>
ShapeletIsRight(text) ==
    /\ Len(text) = 1 /\ text[1][2] \in DOMAIN ShapeletFiles
    /\ LET file == ShapeletFiles[text[1][2]]
       IN  /\ file.order > 0 /\ Len(file.indices) >= file.order * file.order
           /\ \A i \in 1 .. file.order * file.order : file.indices[i] = i - 1
FillShapelet(texts) ==
    [i \in 1 .. 4 |-> IF texts[Shapelets[i]] = <<>> THEN texts["IShapelet"] ELSE texts[Shapelets[i]]]

Numbers ==
    {"I", "Q", "U", "V", "ReferenceFrequency", "MajorAxis", "MinorAxis", "Orientation", "RotationMeasure",
     "PolarizedFraction", "PolarizationAngle", "ReferenceWavelength", "Category"}
\* The parts of a place are read with their quotes.
PlacesAreReadable(fields, values, texts, names) ==
    /\ \A name \in {"Ra", "Dec"} \cap names : texts[name] # <<>> => IsAngle(Raw(fields, values, name))
    /\ \A name \in RaParts \cup DecParts : texts[name] # <<>> => IsReal(Raw(fields, values, name))
    /\ Sign(":") \notin ToSet(texts["Dec"])
IsRight(fields, values, texts, names) ==
    /\ PlacesAreReadable(fields, values, texts, names)
    /\ Ra(texts, names) \in -1299470 .. 1299470 /\ Dec(texts, names) \in -330023 .. 330023
    /\ texts["RefType"] \in {<<>>, <<Word("J2000")>>, <<Word("SUN")>>} /\ texts["Type"] \in Types
    /\ \A name \in Numbers : IsReal(texts[name])
    /\ \A i \in DOMAIN fields : fields[i].name \notin DOMAIN texts \cup {"", "dummy"} => IsReal(Unquote(values[i]))
    /\ \A element \in ToSet(String2Vector(texts["SpectralIndex"])) : IsReal(element)
    /\ RotationIsRight(texts)
    /\ String2Vector(texts["SpectralIndex"]) # <<>> => HasFrequency(texts)
    /\ TypeOf(texts["Type"]) = "shapelet" => \A i \in 1 .. 4 : ShapeletIsRight(FillShapelet(texts)[i])
    /\ texts["Name"] # <<>> \/ texts["Patch"] # <<>>

\* calcRMParam: the fraction and the angle that follow from Q and U.
CalcRMParam(texts, parameter) ==
    <<parameter, Real(texts["I"], 1), Real(texts["Q"], 0), Real(texts["U"], 0), texts["ReferenceWavelength"]>>

\* The parameters of a source.
Parameters(fields, values, texts) ==
    LET own == {i \in DOMAIN fields : fields[i].name \notin DOMAIN texts \cup {"", "dummy"}}
        terms == String2Vector(texts["SpectralIndex"])
        rotates == texts["RotationMeasure"] # <<>>
        pair(name, default) == name :> <<Real(texts[name], default)>>
    IN  pair("I", 1) @@ pair("V", 0)
        @@ (IF rotates THEN pair("RotationMeasure", 0) ELSE pair("Q", 0) @@ pair("U", 0))
        @@ [p \in IF rotates THEN Polarizations ELSE {} |->
               IF texts["Q"] # <<>> THEN CalcRMParam(texts, p) ELSE <<Real(texts[p], 0)>>]
        @@ FoldLeft(LAMBDA all, k : all @@ (("SpectralIndex:" \o ToString(k - 1)) :> <<Real(terms[k], 0)>>),
                    <<>>, [k \in DOMAIN terms |-> k])
        @@ (IF terms = <<>> THEN <<>> ELSE "SpectralIndexDegree" :> <<Len(terms) - 1>>)
        @@ (IF HasFrequency(texts) THEN pair("ReferenceFrequency", 0) ELSE <<>>)
        @@ (IF TypeOf(texts["Type"]) = "gaussian"
            THEN pair("MajorAxis", 1) @@ pair("MinorAxis", 1) @@ pair("Orientation", 1) ELSE <<>>)
        @@ [name \in {fields[i].name : i \in own} |-> <<Real(Unquote(Raw(fields, values, name)), 0)>>]

Source(fields, values, texts, names) ==
    [name |-> texts["Name"], patch |-> texts["Patch"], type |-> TypeOf(texts["Type"]),
     ra |-> Ra(texts, names), dec |-> Dec(texts, names), category |-> Real(texts["Category"], 2),
     parameters |-> Parameters(fields, values, texts),
     shapelets |-> IF TypeOf(texts["Type"]) = "shapelet" THEN FillShapelet(texts) ELSE <<>>]

-----------------------------------------------------------------------------
(* The region of interest: a center with a radius or widths, or none.        *)

Turn == 360 * 3600
SearchIsRight(search) ==
    search.center # <<>> =>
        /\ Len(search.center) = 2 /\ Sign(":") \notin ToSet(search.center[2])
        /\ (search.radius = <<>>) # (search.width = <<>>) /\ Len(search.width) <= 2
        /\ \A text \in ToSet(search.center \o search.radius \o search.width) : IsAngle(text)
Abs(n) == IF n < 0 THEN -n ELSE n
RaApart(ra1, ra2) == Min({Abs(ra1 - ra2 + (k * Turn)) : k \in -2 .. 2})
\* The distance of places on the equator or on one meridian, which a cosine decides.
Distance(ra1, dec1, ra2, dec2) == IF ra1 = ra2 THEN Abs(dec1 - dec2) ELSE RaApart(ra1, ra2)

\* Faulty variant: a box across the meridian of origin has one part only.
MutantInBox(ra, dec, center, width) ==
    /\ 2 * Abs(ra - center[1]) <= width[1]
    /\ 2 * Abs(dec - center[2]) <= width[2]
InBox(ra, dec, center, width) ==
    /\ \E turns \in -1 .. 2 : 2 * Abs(ra + (turns * Turn) - center[1]) <= width[1]
    /\ 2 * Abs(dec - center[2]) <= width[2]
\* GetSearchInfo, matchSearchInfo
MatchSearchInfo(ra, dec, search) ==
    LET angles(texts) == [i \in DOMAIN texts |-> ReadAngle(texts[i])]
        center == angles(search.center)
        widths == angles(search.width)
    IN  IF search.center = <<>> THEN TRUE
        ELSE IF search.radius # <<>>
        THEN Distance(ra, dec, center[1], center[2]) <= angles(search.radius)[1]
        ELSE InBox(ra, dec, center, IF Len(widths) = 1 THEN widths \o widths ELSE widths)

-----------------------------------------------------------------------------
(* What is written: fields are [name, given, text, sep, column].             *)

Spaced(text) == IF config.blanks THEN <<Blank>> \o text \o <<Blank>> ELSE text
Separator(sep) == IF sep = " " THEN (IF config.blanks THEN <<Blank, Blank>> ELSE <<Blank>>)
                  ELSE Spaced(<<Sign(sep)>>)
Joined(fields, TextOf(_)) ==
    FoldLeft(LAMBDA all, i : all \o TextOf(fields[i])
                             \o (IF i < Len(fields) THEN Separator(fields[i].sep) ELSE <<>>),
             <<>>, [i \in DOMAIN fields |-> i])
FieldText(field) ==
    LET name == IF field.name = "" THEN <<>> ELSE <<Word(field.name)>>
        quoted == <<Sign("\"")>> \o field.text \o <<Sign("\"")>>
    IN  CASE field.given = "none" -> name
          [] field.given = "default" -> name \o Spaced(<<Sign("=")>>) \o quoted
          [] field.given = "fixed" -> name \o Spaced(<<Sign("=")>>) \o <<Word("fixed")>> \o quoted
\* An empty column before a blank is a pair of quotes.
ColumnText(field) ==
    IF field.column = <<>> /\ field.sep = " " THEN <<Sign("'"), Sign("'")>> ELSE field.column
\* Columns at the end of a line that are empty may be left out.
Columns ==
    LET columns == SelectSeq(config.fields, LAMBDA field : field.given # "fixed")
        filled == {i \in DOMAIN columns : columns[i].column # <<>>}
    IN  IF config.cut THEN SubSeq(columns, 1, Max(filled)) ELSE columns
Heading ==
    LET format == IF config.heading = "sign" THEN <<Sign(config.fields[1].sep)>> ELSE Joined(config.fields, FieldText)
    IN  CASE config.heading = "comment" ->
               Spaced(<<Sign("#"), Sign("(")>>) \o format \o <<Sign(")")>> \o Spaced(<<Sign("=")>>) \o <<Word("format")>>
          [] config.heading \in {"plain", "sign"} -> Spaced(<<Word("format"), Sign("=")>>) \o format
          [] config.heading = "none" -> <<>>
File ==
    <<<<>>, Spaced(<<Sign("#"), Word("sources")>>), Heading, <<Sign("#"), Sign("("), Word("none"), Sign(")")>>,
      Spaced(Joined(Columns, ColumnText))>>

FormatInit ==
    /\ config \in Models
    /\ step = [phase |-> "file", lines |-> <<>>, fields |-> <<>>, texts |-> <<>>, added |-> <<>>]

\* MakeSourceDb: the format of the file is read, and its first line again.
ReadHeading ==
    /\ step.phase = "file"
    /\ LET fields == GetFormat(ReadFormat(File))
       IN  step' = IF fields = Wrong \/ ~SearchIsRight(config.search) THEN [step EXCEPT !.phase = "failed"]
                   ELSE [step EXCEPT !.phase = "lines", !.fields = fields, !.lines = File]
    /\ UNCHANGED config

\* process: a patch if there is no name, or a source, within the region.
Processed(values, texts, names) ==
    IF ~IsRight(step.fields, values, texts, names) THEN [step EXCEPT !.phase = "failed"]
    ELSE [step EXCEPT !.lines = Tail(@), !.texts = texts,
             !.added = IF MatchSearchInfo(Ra(texts, names), Dec(texts, names), config.search)
                       THEN Append(@, Source(step.fields, values, texts, names)) ELSE @]

\* ParseSkyModel: comments, empty lines and the format are skipped.
ReadLine ==
    /\ step.phase = "lines" /\ step.lines # <<>>
    /\ LET line == Head(step.lines)
           taken == Values(step.fields, line)
       IN  step' = IF LTrim(line) = <<>> \/ IsComment(line) \/ IsFormat(line) THEN [step EXCEPT !.lines = Tail(@)]
                   ELSE IF taken.error # "" THEN [step EXCEPT !.phase = "failed"]
                   ELSE Processed(taken.values, Texts(step.fields, taken.values), Names(step.fields))
    /\ UNCHANGED config

FormatNext == ReadHeading \/ ReadLine

-----------------------------------------------------------------------------
(* What the text of a field means, however it is written.                    *)
Meant(name) ==
    LET places == {i \in DOMAIN config.fields : config.fields[i].name = name}
        field == config.fields[Max(places)]
    IN  IF places = {} THEN <<>>
        ELSE IF field.given = "fixed" \/ (field.given = "default" /\ field.column = <<>>) THEN field.text
        ELSE Unquote(field.column)
IsInside ==
    LET region == config.region
    IN  region # <<>> =>
            /\ 2 * RaApart(config.place[1], region[1]) <= region[3]
            /\ 2 * Abs(config.place[2] - region[2]) <= region[4]

(* A line that is right is a source with the texts that are meant, at its    *)
(* place, in whatever way format, line and place are written; one that is    *)
(* not adds nothing.  A source has Q and U or a rotation measure with the    *)
(* fraction and angle of its polarization, the first of which follow from Q  *)
(* and U if they are given; it is added if it is in the region.              *)
TextsAreUnderstood ==
    /\ step.phase = "failed" => ~config.right
    /\ step.phase = "lines" /\ step.lines = <<>> =>
          /\ config.right
          /\ \A name \in DOMAIN step.texts : step.texts[name] = Meant(name)
          /\ Len(step.added) = IF IsInside THEN 1 ELSE 0
          /\ \A source \in ToSet(step.added) :
                /\ <<source.ra, source.dec>> = config.place
                /\ ("RotationMeasure" \in DOMAIN source.parameters) = (Polarizations \subseteq DOMAIN source.parameters)
                /\ ("RotationMeasure" \in DOMAIN source.parameters) # (Fluxes \subseteq DOMAIN source.parameters)
                /\ \A i \in DOMAIN config.fields :
                      config.fields[i].name \notin DOMAIN step.texts \cup {"", "dummy"} =>
                          source.parameters[config.fields[i].name] = <<Meant(config.fields[i].name)[1][2]>>
=============================================================================
