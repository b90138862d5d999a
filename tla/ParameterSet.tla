----------------------------- MODULE ParameterSet -----------------------------
(***************************************************************************)
(* The parameters of a run (common/ParameterSet*, ParameterValue.cc,       *)
(* StringTools.cc): DP3 reads a parset file, replaces what is given on the *)
(* command line, hands values to the steps as texts, numbers, vectors and  *)
(* records, and tells in the end which keys nobody asked for.  A split     *)
(* step puts other values into the set for each of its branches.           *)
(*                                                                         *)
(* A text is a sequence of tokens: words, numbers, quoted texts and signs. *)
(* What a value means is a sequence of items, which has several texts.     *)
(***************************************************************************)
EXTENDS Integers, Sequences, SequencesExt, FiniteSetsExt, TLC

CONSTANTS
    Files,        \* parsets: sequences of pairs [key, vector, layout]
    Arguments,    \* what may be on the command line: pairs [key, vector]
    MaxCalls      \* bound: calls after the parameters are read

VARIABLES config, step

Sign(c) == <<c, 0>>
Word(w) == <<"word", w>>
Number(n) == <<"number", n>>
Quoted(text) == <<"quoted", text>>
Is(token, class) == token[1] = class

Signs(classes) == {Sign(c) : c \in classes}
Blank == Sign(" ")
Comma == <<Sign(",")>>
Failed == Sign("failed")      \* an exception instead of a value

CheckParset == <<Word("checkparset")>>

-----------------------------------------------------------------------------
(* Texts (StringTools.cc).                                                   *)

\* lskipws, rskipws
NonBlanks(text) == {i \in DOMAIN text : text[i] # Blank}
LTrim(text) == IF NonBlanks(text) = {} THEN <<>> ELSE SubSeq(text, Min(NonBlanks(text)), Len(text))
RTrim(text) == IF NonBlanks(text) = {} THEN <<>> ELSE SubSeq(text, 1, Max(NonBlanks(text)))
Trim(text) == RTrim(LTrim(text))

\* The texts between the tokens at some places, and the reverse.
Pieces(text, IsCut(_)) ==
    LET cuts == <<0>> \o SelectSeq([i \in DOMAIN text |-> i], IsCut) \o <<Len(text) + 1>>
    IN  [k \in 1 .. Len(cuts) - 1 |-> SubSeq(text, cuts[k] + 1, cuts[k + 1] - 1)]
Joined(texts) ==
    IF texts = <<>> THEN <<>> ELSE FoldLeft(LAMBDA all, t : all \o Comma \o t, Head(texts), Tail(texts))

Count(text, i, sign) == Cardinality({j \in 1 .. i : text[j] = Sign(sign)})
Open(text, i, pair) == Count(text, i, pair[1]) - Count(text, i, pair[2])
Parentheses == <<"(", ")">>
Brackets == <<"[", "]">>
Braces == <<"{", "}">>
Pairs == {Parentheses, Brackets, Braces}

\* skipBalanced: the place of the sign that closes what is opened at i.
SkipBalanced(text, i, pair) ==
    Min({j \in i .. Len(text) : Open(SubSeq(text, i, j), j - i + 1, pair) = 0})

Replaced(text, from, to, by) == SubSeq(text, 1, from - 1) \o by \o SubSeq(text, to + 1, Len(text))
LastBefore(text, i) == Max({0} \cup {j \in NonBlanks(text) : j < i})
FirstAfter(text, i) == Min({Len(text) + 1} \cup {j \in NonBlanks(text) : j > i})
At(text, i) == IF i \in DOMAIN text THEN text[i] ELSE Sign("end")

\* expandMultString: what n*(...), n*[...] or n*value stands for.
EndOfValue(text, i) ==
    Min({Len(text)} \cup
        {j \in i .. Len(text) : /\ At(text, j + 1) \in Signs({",", "]", ")"})
                                /\ \A p \in {Parentheses, Brackets} : Open(SubSeq(text, i, j), j - i + 1, p) <= 0})
Multiplied(text, i) ==
    IF text[i] = Sign("(")
    THEN LET inner == SubSeq(text, i + 1, SkipBalanced(text, i, Parentheses) - 1)
         IN  [end |-> SkipBalanced(text, i, Parentheses),
              value |-> [j \in DOMAIN inner |-> IF inner[j] = Sign(";") THEN Sign(",") ELSE inner[j]]]
    ELSE LET end == IF text[i] = Sign("[") THEN SkipBalanced(text, i, Brackets) ELSE EndOfValue(text, i)
         IN  [end |-> end, value |-> SubSeq(text, i, end)]

\* A star counts after a number that begins a value.
IsMultiplier(text, i) ==
    /\ text[i] = Sign("*") /\ LastBefore(text, i) > 0
    /\ Is(text[LastBefore(text, i)], "number")
    /\ At(text, LastBefore(text, LastBefore(text, i))) \in Signs({",", "[", "(", "end"})

RECURSIVE ExpandMult(_, _)
ExpandMult(text, i) ==
    IF i >= Len(text) THEN text
    ELSE IF ~IsMultiplier(text, i) THEN ExpandMult(text, i + 1)
    ELSE LET number == LastBefore(text, i)
             of == Multiplied(text, FirstAfter(text, i))
             copies == Joined([k \in 1 .. text[number][2] |-> of.value])
         IN  ExpandMult(Replaced(text, number, of.end, copies), number)

\* expandRangeString: prefix, number, .., perhaps the prefix, number, suffix.
Delimiters == Signs({",", ";", "*", " "})
StartOfWord(text, i) ==
    Max({1} \cup {j + 1 : j \in {k \in 1 .. i - 1 : text[k] \in Delimiters \cup Signs({"(", "["})}})
EndOfWord(text, i) ==
    Min({Len(text)} \cup {j - 1 : j \in {k \in i .. Len(text) : text[k] \in Delimiters \cup Signs({")", "]"})}})
Series(from, to) ==
    [k \in 1 .. IF from < to THEN to - from + 1 ELSE from - to + 1 |->
        Number(IF from < to THEN from + k - 1 ELSE from - k + 1)]

RECURSIVE ExpandRange(_, _)
ExpandRange(text, i) ==
    IF i >= Len(text) THEN text
    ELSE IF text[i] # Sign("..") \/ ~Is(At(text, LastBefore(text, i)), "number") THEN ExpandRange(text, i + 1)
    ELSE LET number == LastBefore(text, i)
             start == StartOfWord(text, number)
             prefix == SubSeq(text, start, number - 1)
             next == FirstAfter(text, i)
             again == prefix # <<>> /\ SubSeq(text, next, next + Len(prefix) - 1) = prefix
             last == IF again THEN next + Len(prefix) ELSE next
         IN  IF ~Is(At(text, last), "number") THEN ExpandRange(text, last + 1)
             ELSE LET end == EndOfWord(text, last)
                      suffix == SubSeq(text, last + 1, end)
                      braces == prefix # <<>> /\ Last(prefix) = Sign("{") /\ At(suffix, 1) = Sign("}")
                      series == Series(text[number][2], text[last][2])
                      name(n) == IF braces THEN Front(prefix) \o <<n>> \o Tail(suffix)
                                 ELSE prefix \o <<n>> \o suffix
                  IN  ExpandRange(Replaced(text, start, end, Joined([k \in DOMAIN series |-> name(series[k])])), start)

\* expandArrayString
Expand(text) ==
    LET value == Trim(text)
    IN  IF value # <<>> /\ value[1] = Sign("[") /\ Last(value) = Sign("]")
        THEN ExpandRange(ExpandMult(text, 1), 1) ELSE text

\* strToLong, strToUlong: the whole text is a number; if not it is refused.
Refused == <<>>
ToLong(text) ==
    LET value == Trim(text)
    IN  CASE Len(value) = 1 /\ Is(value[1], "number") -> <<value[1][2]>>
          [] Len(value) = 2 /\ value[1] = Sign("-") /\ Is(value[2], "number") -> <<-value[2][2]>>
          [] OTHER -> Refused
ToUlong(text) == IF At(LTrim(text), 1) = Sign("-") THEN Refused ELSE ToLong(text)

-----------------------------------------------------------------------------
(* Values (ParameterValue.cc).                                               *)
IsBalanced(text) ==
    /\ \A p \in Pairs : Open(text, Len(text), p) = 0 /\ \A i \in DOMAIN text : Open(text, i, p) >= 0
    /\ \A i \in DOMAIN text : text[i] \in Signs({"[", "{"}) => Open(text, i, Parentheses) = 0

IsSeparator(text, i) == text[i] = Sign(",") /\ \A p \in Pairs : Open(text, i, p) = 0
SplitValue(text) ==
    IF Trim(text) = <<>> THEN <<>>
    ELSE IF ~IsBalanced(text) THEN <<<<Failed>>>>
    ELSE LET pieces == Pieces(text, LAMBDA i : IsSeparator(text, i))
         IN  [k \in DOMAIN pieces |-> Trim(pieces[k])]

Within(text, pair) == Len(text) >= 2 /\ text[1] = Sign(pair[1]) /\ Last(text) = Sign(pair[2])
Inner(text) == SubSeq(text, 2, Len(text) - 1)

GetVector(text) ==
    IF text = <<>> THEN <<>> ELSE IF Within(text, Brackets) THEN SplitValue(Inner(text)) ELSE <<text>>

\* getString: without quotes.
Unquoted(text) == FlattenSeq([i \in DOMAIN text |-> IF Is(text[i], "quoted") THEN text[i][2] ELSE <<text[i]>>])

GetStringVector(text) == LET values == GetVector(text) IN [k \in DOMAIN values |-> Unquoted(values[k])]
GetUintVector(text) == LET values == GetVector(text) IN [k \in DOMAIN values |-> ToUlong(values[k])]

\* The vectors that the elements of a vector are; a single value is one too.
GetVectors(text) == LET values == GetVector(text) IN [k \in DOMAIN values |-> GetStringVector(values[k])]

\* getRecord: names and values.
Field(text) ==
    LET colon == Min({i \in DOMAIN text : text[i] = Sign(":")})
    IN  [name |-> Unquoted(Trim(SubSeq(text, 1, colon - 1))), value |-> Trim(SubSeq(text, colon + 1, Len(text)))]
GetRecord(text) ==
    LET fields == [k \in DOMAIN SplitValue(Inner(text)) |-> Field(SplitValue(Inner(text))[k])]
    IN  [name \in {f.name : f \in ToSet(fields)} |-> (CHOOSE f \in ToSet(fields) : f.name = name).value]

-----------------------------------------------------------------------------
(* Reading a file (ParameterSetImpl.cc).                                     *)
NoKey == <<>>

\* Faulty variant: the first value of a key is kept.
MutantMerged(parms, key, value) == parms @@ (key :> Trim(value))
\* addMerge: the last value of a key counts.
Merged(parms, key, value) == (key :> Trim(value)) @@ parms

\* A key ends the value of the key before it; what comes before the first key
\* is left in front of its value.
BeginKey(s, key) ==
    IF s.key = NoKey THEN [s EXCEPT !.key = key]
    ELSE [key |-> key, value |-> <<>>, parms |-> Merged(s.parms, s.key, s.value)]

Appended(value, piece) ==
    IF piece = <<>> \/ value = <<>> \/ Is(piece[1], "quoted") THEN value \o piece
    ELSE value \o <<Blank>> \o piece

WithoutBackslash(text) ==
    IF text # <<>> /\ Last(text) = Sign("\\") THEN RTrim(Front(text)) ELSE text

\* Left out: == in a line, of which the code makes one key of the whole line.
KeyOf(fragment, k) ==
    IF k = 1 /\ fragment = <<>> THEN <<Sign("=")>> ELSE Unquoted(RTrim(fragment))

\* readStream, one line: a comment ends it; every = ends a key.
ReadLine(s, line) ==
    LET content == Trim(Pieces(line, LAMBDA i : line[i] = Sign("#"))[1])
        fragments == Pieces(content, LAMBDA i : content[i] = Sign("="))
        keys == [k \in 1 .. Len(fragments) - 1 |-> KeyOf(fragments[k], k)]
        begun == FoldLeft(BeginKey, s, keys)
    IN  IF content = <<>> THEN s
        ELSE [begun EXCEPT !.value = Appended(@, LTrim(WithoutBackslash(Last(fragments))))]

\* readStream; the last pair has no other key after it.
Read(lines) ==
    LET s == FoldLeft(ReadLine, [key |-> NoKey, value |-> <<>>, parms |-> [k \in {} |-> <<>>]], lines)
    IN  IF s.key = NoKey THEN s.parms ELSE Merged(s.parms, s.key, s.value)
-----------------------------------------------------------------------------
(* What is written in a file, and what it means.                             *)
Item(type, text, n, to, form, of) ==
    [type |-> type, text |-> text, n |-> n, to |-> to, form |-> form, of |-> of]
Name(text) == Item("name", text, 0, 0, "plain", <<>>)
QuotedName(text) == Item("name", text, 0, 0, "quoted", <<>>)
Span(prefix, from, to, form) == Item("range", prefix, from, to, form, <<>>)   \* with the prefix once, twice or in braces
Times(n, form, of) == Item("times", <<>>, n, 0, form, of)                      \* with (, [ or a single value
List(of) == Item("list", <<>>, 1, 0, "[", of)

Enclosed(pair, text) == <<Sign(pair[1])>> \o text \o <<Sign(pair[2])>>

RECURSIVE Written(_)
Written(item) ==
    LET of == Joined([k \in DOMAIN item.of |-> Written(item.of[k])])
        enclosed == CASE item.form = "(" -> Enclosed(Parentheses, of)
                      [] item.form = "[" -> Enclosed(Brackets, of)
                      [] OTHER -> of
        to == <<Number(item.n), Sign("..")>> \o
              (IF item.form = "twice" THEN item.text ELSE <<>>) \o <<Number(item.to)>>
    IN  CASE item.type = "name" -> IF item.form = "quoted" THEN <<Quoted(item.text)>> ELSE item.text
          [] item.type = "range" -> item.text \o IF item.form = "{" THEN Enclosed(Braces, to) ELSE to
          [] item.type = "times" -> <<Number(item.n), Sign("*")>> \o enclosed
          [] item.type = "list" -> enclosed
WrittenVector(vector) ==
    IF Len(vector) = 1 /\ vector[1].type = "name" THEN Written(vector[1])
    ELSE Enclosed(Brackets, Joined([k \in DOMAIN vector |-> Written(vector[k])]))

Repeated(n, texts) == FlattenSeq([k \in 1 .. n |-> texts])

\* The vectors that an item stands for; a name is a vector of one text.
RECURSIVE Meaning(_)
Meaning(item) ==
    LET of == FlattenSeq([k \in DOMAIN item.of |-> Meaning(item.of[k])])
    IN  CASE item.type = "name" -> <<<<item.text>>>>
          [] item.type = "range" -> [k \in DOMAIN Series(item.n, item.to) |->
                                        <<item.text \o <<Series(item.n, item.to)[k]>>>>]
          [] item.form = "[" -> Repeated(item.n, <<FlattenSeq(of)>>)
          [] OTHER -> Repeated(item.n, of)
Meant(vector) == FlattenSeq([k \in DOMAIN vector |-> Meaning(vector[k])])

\* A pair in the lines of a file, perhaps a line for every element, each with
\* a comment, and comments and empty lines between them.
Lines(text) ==
    LET pieces == Pieces(text, LAMBDA i : text[i] = Sign(","))
    IN  [k \in DOMAIN pieces |-> IF k < Len(pieces) THEN pieces[k] \o Comma ELSE pieces[k]]
Comment(key) == <<Sign("#")>> \o key \o <<Sign("=")>> \o Comma
PairLines(pair) ==
    LET layout == pair.layout
        indent == IF layout.indented THEN <<Blank, Blank>> ELSE <<>>
        key == indent \o (IF layout.quoted THEN <<Quoted(pair.key)>> ELSE pair.key) \o indent \o <<Sign("=")>>
        text == WrittenVector(pair.vector)
        parts == IF layout.broken THEN Lines(text) ELSE <<text>>
        ending(k) == (IF layout.backslash /\ k < Len(parts) THEN <<Blank, Sign("\\")>> ELSE <<>>) \o indent
                     \o IF layout.comment THEN Comment(pair.key) ELSE <<>>
        line(k) == (IF k = 1 THEN key ELSE <<>>) \o indent \o parts[k] \o ending(k)
    IN  FlattenSeq([k \in DOMAIN parts |->
            IF layout.comment THEN <<line(k), indent \o Comment(pair.key), indent>> ELSE <<line(k)>>])
FileLines(pairs) == FlattenSeq([k \in DOMAIN pairs |-> PairLines(pairs[k])])

-----------------------------------------------------------------------------
(* A run.  meant is what the values should mean, read are the keys whose      *)
(* values were used; branches are what those of a split step read and should. *)
ParametersInit ==
    /\ config \in Files
    /\ step = [phase |-> "start", parms |-> [k \in {} |-> <<>>], asked |-> {}, calls |-> 0,
               meant |-> [k \in {} |-> <<>>], read |-> {}, unused |-> {}, branches |-> <<>>]

\* The last pair of a key counts.
MeantBy(meant, pair) == (pair.key :> Meant(pair.vector)) @@ meant

AdoptFile ==
    /\ step.phase = "start"
    /\ step' = [step EXCEPT !.phase = "adopted", !.parms = Read(FileLines(config)) @@ @,
                            !.meant = FoldLeft(MeantBy, @, config)]
    /\ UNCHANGED config

\* replace
Replace(parms, key, value) == (key :> value) @@ parms

\* Arguments without = are no parameters.
AdoptArgv ==
    /\ step.phase = "adopted" /\ step.calls < MaxCalls
    /\ \E pair \in Arguments :
          step' = [step EXCEPT !.parms = Replace(@, pair.key, Trim(WrittenVector(pair.vector))),
                               !.meant = MeantBy(@, pair), !.calls = @ + 1]
    /\ UNCHANGED config

\* findKV: a key that is not there is not asked for; the default is used.
Found(s, key) == key \in DOMAIN s.parms
Asked(s, key) == IF Found(s, key) THEN [s EXCEPT !.asked = @ \cup {key}] ELSE s
ReadToo(key) == step.read \cup {k \in {key} : Found(step, k)}

Keys == {pair.key : pair \in Arguments}

GetParameter ==
    /\ step.phase \in {"adopted", "running"} /\ step.calls < MaxCalls
    /\ \E key \in Keys : step' = [Asked(step, key) EXCEPT !.phase = "running", !.read = ReadToo(key), !.calls = @ + 1]
    /\ UNCHANGED config

\* A vector is expanded if the step asks for that.
ValueOf(parms, key, expandable) == IF expandable THEN Expand(parms[key]) ELSE parms[key]

\* Split: the parameter gets one value after the other, each for the steps of a
\* branch, which read it, and keeps the last one.  Ranges are not expanded
\* here: left out.
Branches(values) == [k \in DOMAIN values |-> GetStringVector(values[k])]
MakeBranches ==
    /\ step.phase \in {"adopted", "running"} /\ step.calls < MaxCalls
    /\ \E key \in DOMAIN step.parms :
          LET values == GetStringVector(ValueOf(step.parms, key, FALSE))
          IN  /\ step.branches = <<>> /\ values # <<>> /\ ValueOf(step.parms, key, TRUE) = step.parms[key]
              /\ step' = [Asked(step, key) EXCEPT
                     !.phase = "running", !.read = ReadToo(key), !.calls = @ + 1,
                     !.parms = Replace(@, key, Last(values)),
                     !.meant[key] = [k \in DOMAIN Last(@) |-> <<Last(@)[k]>>],
                     !.branches = <<Branches(values), step.meant[key]>>]
    /\ UNCHANGED config

\* DP3::execute: a number, or a bool as it was once.
IsTrue(text) == At(text, 1) = Word("true")
IsFalse(text) == At(text, 1) = Word("false")
Level(parms) ==
    IF CheckParset \notin DOMAIN parms THEN <<0>>
    ELSE LET text == parms[CheckParset]
         IN  CASE ToLong(text) # Refused -> ToLong(text)
               [] IsTrue(text) -> <<1>>
               [] IsFalse(text) -> <<0>>
               [] OTHER -> Refused

ShowUnused ==
    /\ step.phase \in {"adopted", "running"}
    /\ LET level == Level(step.parms)
           s == Asked(step, CheckParset)
           unused == DOMAIN s.parms \ s.asked
       IN  step' = IF level = Refused THEN [s EXCEPT !.phase = "refused"]
                   ELSE [s EXCEPT !.phase = IF unused # {} /\ level[1] > 0 THEN "refused" ELSE "processing",
                                  !.unused = IF level[1] < 0 THEN {} ELSE unused]
    /\ UNCHANGED config

ParametersNext == AdoptFile \/ AdoptArgv \/ GetParameter \/ MakeBranches \/ ShowUnused

ParametersSpec == ParametersInit /\ [][ParametersNext]_<<config, step>>
-----------------------------------------------------------------------------
IsNumber(vector) == Len(vector) = 1 /\ Len(vector[1]) = 1 /\ Is(vector[1][1], "number")

\* The numbers that a value means are read as such.
NumbersAreRead(text, meant) ==
    (\A k \in DOMAIN meant : IsNumber(meant[k])) =>
        GetUintVector(text) = [k \in DOMAIN meant |-> <<meant[k][1][1][2]>>]

\* A record of the values of the file (as the new stations of StationAdder).
RecordOf(pairs) ==
    Enclosed(Braces, Joined([k \in DOMAIN pairs |->
        pairs[k].key \o <<Sign(":"), Blank>> \o WrittenVector(pairs[k].vector)]))

(* Every value means what was meant, in whatever layout and notation it was    *)
(* written, in a file or a record, and also after a later pair or an argument  *)
(* replaced it; the branches of a split step read one value each; and a key is *)
(* called unused exactly if its value was never used (ParameterSetImpl.cc:215, *)
(* StringTools.cc:281, 378, ParameterValue.cc:35, Split.cc:60, DP3.cc:169).    *)
ParametersAreAsMeant ==
    /\ step.phase # "start" =>
        /\ DOMAIN step.parms = DOMAIN step.meant
        /\ \A key \in DOMAIN step.parms :
              /\ GetVectors(ValueOf(step.parms, key, TRUE)) = step.meant[key]
              /\ NumbersAreRead(ValueOf(step.parms, key, TRUE), step.meant[key])
    /\ step.phase = "start" /\ IsInjective([k \in DOMAIN config |-> config[k].key]) =>
        LET record == GetRecord(RecordOf(config))
        IN  \A k \in DOMAIN config : GetVectors(Expand(record[config[k].key])) = Meant(config[k].vector)
    /\ step.branches # <<>> => step.branches[1] = step.branches[2]
    /\ step.phase = "processing" =>
        step.unused \in {{}, DOMAIN step.parms \ (step.read \cup {CheckParset})}
=============================================================================
