----------------------------- MODULE PreFlagger -----------------------------
(***************************************************************************)
(* dp3::steps::PreFlagger: flags what a set of criteria (a PSet) selects.  *)
(* A PSet may combine other PSets by an expression, which is parsed to     *)
(* reverse Polish notation; criteria are evaluated from coarse to fine.    *)
(*                                                                         *)
(* An expression is a sequence of tokens; flags are sets of visibilities   *)
(* <<baseline, channel>>; times of the day are in ticks.                   *)
(***************************************************************************)
EXTENDS StepCalls, SequencesExt

CONSTANTS
    Antennas,       \* the antennas of each baseline, in the order of the baselines
    NrChan,
    Day,            \* ticks in a day, even
    MaxTokens,      \* bound: tokens in an expression
    ChannelLists,   \* the channels that are given in chan, or all that exist
    Modes           \* of {"set", "clear", "setcomplement", "clearcomplement"}

OpParen == -1
OpOr == -2
OpAnd == -3
OpNot == -4

OperOf(token) == CASE token = "(" -> OpParen [] token = "|" -> OpOr
                   [] token = "&" -> OpAnd [] token = "!" -> OpNot [] OTHER -> 0

Tokens == {"(", ")", "|", "&", "!", "name"}

-----------------------------------------------------------------------------
(* exprToRpn: stack is the list tokens of the code, its top first.           *)
EmptyParse == [ok |-> TRUE, rpn |-> <<>>, stack |-> <<>>, names |-> 0, had_name |-> FALSE]

\* How many elements on top of the stack are below oper.
Below(stack, oper) ==
    CHOOSE n \in 0 .. Len(stack) :
        /\ \A i \in 1 .. n : stack[i] < oper
        /\ n < Len(stack) => stack[n + 1] >= oper

Popped(p, n) == [p EXCEPT !.rpn = @ \o SubSeq(p.stack, 1, n),
                          !.stack = SubSeq(@, n + 1, Len(@))]

Name(p) == [p EXCEPT !.ok = ~p.had_name, !.had_name = TRUE,
                     !.rpn = Append(@, p.names), !.names = @ + 1]

Open(p) == [p EXCEPT !.ok = ~p.had_name, !.stack = <<OpParen>> \o @]

Close(p) ==
    LET n == Below(p.stack, OpParen)
        inner == Popped(p, n)
    IN  IF ~p.had_name \/ n = Len(p.stack) THEN [p EXCEPT !.ok = FALSE]
        ELSE [inner EXCEPT !.stack = Tail(@)]

\* A name comes before & and |, and none directly before !.
Operator(p, oper) ==
    IF p.had_name = (oper = OpNot) THEN [p EXCEPT !.ok = FALSE]
    ELSE [Popped(p, Below(p.stack, oper)) EXCEPT !.had_name = FALSE, !.stack = <<oper>> \o @]

NextToken(p, token) ==
    IF ~p.ok THEN p
    ELSE CASE token = "name" -> Name(p)
           [] token = "(" -> Open(p)
           [] token = ")" -> Close(p)
           [] token \in {"|", "&", "!"} -> Operator(p, OperOf(token))

EndOfTokens(p) ==
    IF ~p.ok \/ ~p.had_name \/ OpParen \in Range(p.stack) THEN [p EXCEPT !.ok = FALSE]
    ELSE Popped(p, Len(p.stack))

ExprToRpn(tokens) == EndOfTokens(FoldLeft(NextToken, EmptyParse, tokens))

\* PSet::process, its end: flags[i] are those of operand i; the top is first.
Apply(flags, all, stack, oper) ==
    CASE oper >= 0 -> <<flags[oper + 1]>> \o stack
      [] oper = OpNot -> <<all \ stack[1]>> \o Tail(stack)
      [] oper = OpOr -> <<stack[2] \cup stack[1]>> \o SubSeq(stack, 3, Len(stack))
      [] oper = OpAnd -> <<stack[2] \cap stack[1]>> \o SubSeq(stack, 3, Len(stack))

Evaluated(rpn, flags, all) ==
    FoldLeft(LAMBDA stack, oper : Apply(flags, all, stack, oper), <<>>, rpn)[1]

-----------------------------------------------------------------------------
(* Criteria.  One that is not given is Unused.                               *)
Unused == [used |-> FALSE, set |-> {}]
Criterion(set) == [used |-> TRUE, set |-> set]

Baselines == DOMAIN Antennas
Channels == 0 .. NrChan - 1
Visibilities == Baselines \X Channels

\* fillChannels: channels that do not exist are left out; in both selections.
FillChannels(p) ==
    LET selected(c) == IF c.used THEN c.set \cap Channels ELSE Channels
    IN  IF p.chan.used \/ p.freq.used THEN selected(p.chan) \cap selected(p.freq) ELSE {}

\* updateInfo: does only the time matter?
FlagOnTimeOnly(p) ==
    /\ \A f \in {"bl", "uv", "azel", "ampl", "phase"} : ~p[f].used
    /\ p.psets = <<>>
    /\ FillChannels(p) = {}

\* flagBL and flagUV: of the baselines that are left, those that match.
Left(match, c) == IF c.used THEN match \cap c.set ELSE match

\* testAzEl: a mismatch clears the baselines of the antenna, from bl on.
TestAzEl(s, bl, ant, c) ==
    IF ant \in s.done THEN s
    ELSE [done |-> s.done \cup {ant},
          match |-> IF ant \in c.set THEN s.match
                    ELSE {b \in s.match : b >= bl => ant \notin {Antennas[b][1], Antennas[b][2]}}]

\* Faulty variant: the second antenna is not tested if the first one was tested
\* for an earlier baseline.
MutantFlagAzEl(match, c) ==
    IF ~c.used THEN match
    ELSE FoldLeft(LAMBDA s, bl : IF bl \notin s.match \/ Antennas[bl][1] \in s.done THEN s
                                 ELSE LET t == TestAzEl(s, bl, Antennas[bl][1], c)
                                      IN  IF bl \in t.match THEN TestAzEl(t, bl, Antennas[bl][2], c)
                                          ELSE t,
                  [done |-> {}, match |-> match], [i \in Baselines |-> i]).match

\* flagAzEl: an antenna is tested for the first baseline that needs it.
FlagAzEl(match, c) ==
    IF ~c.used THEN match
    ELSE FoldLeft(LAMBDA s, bl : IF bl \notin s.match THEN s
                                 ELSE LET t == TestAzEl(s, bl, Antennas[bl][1], c)
                                      IN  IF bl \in t.match THEN TestAzEl(t, bl, Antennas[bl][2], c)
                                          ELSE t,
                  [done |-> {}, match |-> match], [i \in Baselines |-> i]).match

\* flagChannels, flagAmpl, flagPhase (flagReal and flagImag are alike).
Fine(p, flags) ==
    LET chosen == FillChannels(p)
        channels == IF chosen = {} THEN flags ELSE {v \in flags : v[2] \in chosen}
    IN  Left(Left(channels, p.ampl), p.phase)

\* PSet::process: stops as soon as no baseline is left.  Of a time, set is
\* empty if it does not match; parent: the baselines that the parent left.
RECURSIVE PSetFlags(_, _)
PSetFlags(p, parent) ==
    LET match == FlagAzEl(Left(Left(parent, p.bl), p.uv), p.azel)
        flags == Fine(p, match \X Channels)
        children == [i \in DOMAIN p.psets |-> PSetFlags(p.psets[i], match)]
    IN  CASE p.time.used /\ p.time.set = {} -> {}
          [] FlagOnTimeOnly(p) -> IF p.time.used THEN Visibilities ELSE {}
          [] match = {} -> {}
          [] p.psets = <<>> -> flags
          [] OTHER -> flags \cap Evaluated(p.rpn, children, Visibilities)

\* process() with setFlags and clearFlags: invalid data stay flagged.
Mode(mode, selected, flags, invalid) ==
    LET chosen == IF mode \in {"set", "clear"} THEN selected ELSE Visibilities \ selected
    IN  IF mode \in {"set", "setcomplement"} THEN flags \cup chosen
        ELSE (flags \ chosen) \cup (chosen \cap invalid)

\* FlagCounter: only changes count.
Counted(counts, before, after) ==
    LET changed == (before \ after) \cup (after \ before)
    IN  [bl |-> [b \in Baselines |-> counts.bl[b] + Cardinality({v \in changed : v[1] = b})],
         chan |-> [c \in Channels |-> counts.chan[c] + Cardinality({v \in changed : v[2] = c})]]

-----------------------------------------------------------------------------
(* fillTimes and matchRange                                                  *)
Range2(v1, v2) == IF v1 < v2 THEN {<<v1, v2>>} ELSE {<<-1, v2>>, <<v1, Day + 1>>}

\* A range a..b or a+-b, which may run over midnight.
FillTime(pm, a, b) ==
    LET v1 == IF pm THEN a - b ELSE a
        v2 == IF pm THEN a + b ELSE b
    IN  Range2(IF v1 < 0 THEN v1 + Day ELSE v1, IF v2 > Day THEN v2 - Day ELSE v2)

MatchRange(v, ranges) == \E r \in ranges : v > r[1] /\ v < r[2]

-----------------------------------------------------------------------------
Expressions == UNION {[1 .. n -> Tokens] : n \in 1 .. MaxTokens}

PSet(time, bl, uv, azel, chan, freq, ampl, phase) ==
    [time |-> time, bl |-> bl, uv |-> uv, azel |-> azel, chan |-> chan, freq |-> freq,
     ampl |-> ampl, phase |-> phase, rpn |-> <<>>, psets |-> <<>>]

Maybe(sets) == {Unused} \cup {Criterion(set) : set \in sets}

Ants == UNION {{Antennas[b][1], Antennas[b][2]} : b \in Baselines}
FirstChannel == Baselines \X {0}
Corner == {<<1, 0>>, <<Len(Antennas), NrChan - 1>>}

HasChannels(p) == FillChannels(p) # {} \/ (~p.chan.used /\ ~p.freq.used)

Used(p) == {f \in DOMAIN p \ {"rpn", "psets"} : p[f].used}

AnyPSets ==
    {PSet(time, bl, uv, azel, chan, freq, ampl, phase) :
        time \in Maybe({{}, {0}}), bl \in Maybe({{1}, {1, 2}}), uv \in Maybe({{2, 3}}),
        azel \in Maybe(SUBSET Ants), chan \in Maybe(ChannelLists), freq \in Maybe({{1}}),
        ampl \in Maybe({FirstChannel}), phase \in Maybe({Corner})}

\* Bounds: up to three criteria; less in and around an expression.
PlainPSets == {p \in AnyPSets : Cardinality(Used(p)) <= 3}
Operands == {p \in AnyPSets : \E f \in {"bl", "azel", "chan"} : Used(p) = {f}}
Parents == {p \in AnyPSets : Used(p) \in {{}, {"time"}, {"bl"}, {"bl", "ampl"}}}

Formulas == {<<"name">>, <<"!", "name">>, <<"name", "|", "!", "name">>, <<"name", "&", "name">>}

Combined ==
    {[p EXCEPT !.rpn = ExprToRpn(f).rpn, !.psets = SubSeq(ops, 1, ExprToRpn(f).names)] :
        p \in Parents, f \in Formulas, ops \in Operands \X Operands}

ChannelsFit(p) == HasChannels(p) /\ \A i \in DOMAIN p.psets : HasChannels(p.psets[i])

Ranges == {<<FALSE, a, b>> : a \in 0 .. Day, b \in 0 .. Day}
          \cup {<<TRUE, a, b>> : a \in 0 .. Day, b \in 1 .. (Day \div 2)}

PreInit ==
    \/ \E tokens \in Expressions :
          Start([part |-> "expr", tokens |-> tokens, ntime |-> 0], ExprToRpn(tokens))
    \/ \E r \in Ranges :
          Start([part |-> "time", range |-> r, ntime |-> 0], FillTime(r[1], r[2], r[3]))
    \/ \E p \in PlainPSets \cup Combined, mode \in Modes :
          /\ p.psets = <<>> \/ mode = "set"
          /\ ChannelsFit(p)
          /\ Start([part |-> "pset", pset |-> p, mode |-> mode, ntime |-> MaxSlots],
                   [counts |-> [bl |-> [b \in Baselines |-> 0],
                                chan |-> [c \in Channels |-> 0]],
                    before |-> {}, invalid |-> {}, after |-> {}])

\* process() of a slot in which some flags are set and some data are invalid.
PreProcess ==
    /\ config.part = "pset"
    /\ \E before \in {{}, Corner}, invalid \in {Corner \cup FirstChannel} :
        LET after == Mode(config.mode, PSetFlags(config.pset, Baselines), before, invalid)
        IN  Processed([counts |-> Counted(step.counts, before, after), before |-> before,
                       invalid |-> invalid, after |-> after])
    /\ Send(<<>>)

PreFinish == config.part = "pset" /\ Ended(step) /\ Send(<<>>)

PreNext == PreProcess \/ PreFinish
PreSpec == PreInit /\ [][PreNext]_calls

-----------------------------------------------------------------------------
(* What an expression means, by its grammar: or < and < not < parentheses.   *)
(* The values it can have if its names have those of env; none if it is not  *)
(* an expression.                                                            *)
RECURSIVE Value(_, _, _)
Names(s) == Cardinality({i \in DOMAIN s : s[i] = "name"})
Value(s, env, level) ==
    LET n == Len(s)
        binary(token, op(_, _), right) ==
            Value(s, env, right) \cup
            UNION {{op(a, b) : a \in Value(SubSeq(s, 1, i - 1), env, right),
                               b \in Value(SubSeq(s, i + 1, n),
                                          SubSeq(env, 1 + Names(SubSeq(s, 1, i)), Len(env)),
                                          level)} :
                   i \in {j \in 1 .. n : s[j] = token}}
    IN  CASE n = 0 -> {}
          [] n > 0 /\ level = "or" -> binary("|", LAMBDA a, b : a \/ b, "and")
          [] n > 0 /\ level = "and" -> binary("&", LAMBDA a, b : a /\ b, "not")
          [] n > 0 /\ level = "not" ->
                IF s[1] = "!" THEN {~a : a \in Value(Tail(s), env, "not")}
                ELSE IF s = <<"name">> THEN {env[1]}
                ELSE IF s[1] = "(" /\ s[n] = ")" THEN Value(SubSeq(s, 2, n - 1), env, "or")
                ELSE {}

(* An expression is accepted exactly if it is one, and has the value that its *)
(* operators and parentheses give it (PreFlagger.cc:852).                     *)
ExpressionsAreRead ==
    config.part = "expr" =>
        IF ~step.ok THEN Value(config.tokens, [i \in 1 .. MaxTokens |-> TRUE], "or") = {}
        ELSE \A env \in [1 .. step.names -> BOOLEAN] :
                {Evaluated(step.rpn, [i \in DOMAIN env |-> IF env[i] THEN {0} ELSE {}], {0}) = {0}}
                = Value(config.tokens, env, "or")

\* All criteria of a set and its expression match; a set without any selects nothing.
RECURSIVE Selects(_, _)
Selects(p, v) ==
    LET matches(c, x) == c.used => x \in c.set
        env == [i \in DOMAIN p.psets |-> IF Selects(p.psets[i], v) THEN {v} ELSE {}]
    IN  /\ p.psets # <<>> \/ \E f \in DOMAIN p \ {"rpn", "psets"} : p[f].used
        /\ p.time.used => p.time.set # {}
        /\ matches(p.bl, v[1]) /\ matches(p.uv, v[1])
        /\ \A a \in {Antennas[v[1]][1], Antennas[v[1]][2]} : matches(p.azel, a)
        /\ matches(p.chan, v[2]) /\ matches(p.freq, v[2])
        /\ matches(p.ampl, v) /\ matches(p.phase, v)
        /\ p.psets # <<>> => v \in Evaluated(p.rpn, env, {v})

(* The visibilities that match all criteria and the expression, and no others, *)
(* are flagged or get their flags cleared, whatever was decided on the way for *)
(* baselines, antennas and channels (PreFlagger.cc:501).                       *)
SelectionIsFlagged ==
    (config.part = "pset" /\ fed > 0) =>
        \A v \in Visibilities :
            LET chosen == Selects(config.pset, v) = (config.mode \in {"set", "clear"})
            IN  (v \in step.after) =
                    CASE ~chosen -> v \in step.before
                      [] chosen /\ config.mode \in {"set", "setcomplement"} -> TRUE
                      [] OTHER -> v \in step.invalid

(* A time of the day is in a range exactly if it is less than the width from  *)
(* its centre, or after the start and before the end, also over midnight      *)
(* (PreFlagger.cc:1006).                                                      *)
TimesAreInRange ==
    config.part = "time" =>
        \A t \in 0 .. Day - 1 :
            LET a == config.range[2]
                b == config.range[3]
                after == (t - a) % Day
                before == (a - t) % Day
            IN  MatchRange(t, step) = CASE config.range[1] -> after < b \/ before < b
                                        [] ~config.range[1] /\ a < b -> a < t /\ t < b
                                        [] ~config.range[1] /\ a >= b -> t < b \/ t > a
=============================================================================
