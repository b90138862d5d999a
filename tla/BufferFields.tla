---------------------------- MODULE BufferFields ----------------------------
(***************************************************************************)
(* The arrays of the buffers that steps pass to each other                 *)
(* (base/DPBuffer.h).  A buffer refers to arrays, which it may share with  *)
(* the buffers of other steps; weights, UVW and full resolution flags are  *)
(* filled in by the first step that fetches them from the reader.  A step  *)
(* keeps its own buffer between two slots, with the arrays in it.          *)
(*                                                                         *)
(* The steps are placed in a chain, or in a tree behind a split.  Of an    *)
(* array its slot is kept, and which places have changed it (by).          *)
(***************************************************************************)
EXTENDS StepCalls, SequencesExt

CONSTANTS
    ChainKinds,     \* the steps that a chain consists of
    BranchKinds     \* the steps that follow a split

Fields == {"data", "flags", "weights", "uvw", "fullres"}

\* The array for field f of the buffer c; slot is -1 unless each slot gets a new one.
Array(c, f, slot) == [buffer |-> c, field |-> f, slot |-> slot]
NoArray == Array(<<0, 0>>, "none", -1)
KeepSize == 2     \* bound: the buffers that a keeping step waits for

\* Row numbers are of the reader's table ("in") or of a written one ("out"),
\* of the baselines that the filters at the places sel left, or there are none.
NoRows == [table |-> "none", sel |-> {}]
EmptyBuffer == [slot |-> -1, rows |-> NoRows, of |-> [f \in Fields |-> NoArray]]

(* A world is what one call of a step changes: the arrays; own, the buffers   *)
(* that steps keep (own[<<p, i>>] is number i at place p); kept, how many of  *)
(* them wait; seen, the fields that steps were given or fetched; written,     *)
(* the slots that writers got.  match: does the slot match the time selection *)
(* of the preflagger?                                                         *)
Cells == (0 .. 5) \X (0 .. KeepSize)

EmptyWorld(places) ==
    [arrays |-> [n \in {} |-> NoArray], own |-> [c \in {x \in Cells : x[1] \in places} |-> EmptyBuffer],
     kept |-> [p \in places |-> 0], seen |-> {}, written |-> <<>>, match |-> TRUE]

Put(w, name, value) == [w EXCEPT !.arrays = (name :> value) @@ @]

PutAll(w, values) == [w EXCEPT !.arrays = values @@ @]

Filled(buf) == {f \in Fields : buf.of[f] # NoArray}

\* The array that a buffer has for a field; a new one if it has none.
ArrayOf(w, c, f) == IF w.own[c].of[f] = NoArray THEN Array(c, f, -1) ELSE w.own[c].of[f]

\* DPBuffer::referenceFilled and, into an empty buffer, the copy constructor.
Referenced(w, c, buf) ==
    [w EXCEPT !.own[c] = [buf EXCEPT !.of = [f \in Fields |->
        IF f \in Filled(buf) THEN buf.of[f] ELSE w.own[c].of[f]]]]

\* Faulty variant: the arrays are shared, as before 2015 (DPBuffer.h:86).
MutantCopied(w, c, buf) == Referenced(w, c, buf)
\* DPBuffer::copy: the arrays are assigned; those that are empty are left alone.
Copied(w, c, buf) ==
    LET names == [f \in Fields |-> IF f \in Filled(buf) THEN ArrayOf(w, c, f) ELSE w.own[c].of[f]]
        values == [n \in {names[f] : f \in Filled(buf)} |->
                      w.arrays[buf.of[CHOOSE f \in Filled(buf) : names[f] = n]]]
    IN  [PutAll(w, values) EXCEPT !.own[c] = [buf EXCEPT !.of = names]]

\* MSReader::getUVW, getWeights, getFullResFlags: the rows of the reader's
\* table; without row numbers UVW are computed and the others are set.
Read(buf) == [slot |-> IF buf.rows.table = "out" THEN -1 ELSE buf.slot, by |-> buf.rows.sel]

\* InputStep::fetchUVW, fetchWeights, fetchFullResFlags into the own buffer c.
Fetched(w, c, buf, fields) ==
    LET missing == fields \ Filled(buf)
        names == [f \in Fields |-> IF f \in missing THEN ArrayOf(w, c, f) ELSE w.own[c].of[f]]
    IN  [PutAll(w, [n \in {names[f] : f \in missing} |-> Read(buf)]) EXCEPT !.own[c].of = names]

\* What place p was given in buf, and what it fetched into its own buffer c.
Looked(w, p, c, buf, fields) ==
    LET value(f) == w.arrays[IF f \in Filled(buf) THEN buf.of[f] ELSE w.own[c].of[f]]
    IN  [w EXCEPT !.seen = @ \cup
            {[place |-> p, slot |-> buf.slot, field |-> f, value |-> value(f)] :
                f \in Filled(buf) \cup fields}]

\* Elements of the arrays in the own buffer c are changed.
Changed(w, p, c, fields) ==
    PutAll(w, [n \in {w.own[c].of[f] : f \in fields} |->
                  [w.arrays[n] EXCEPT !.by = @ \cup {p}]])

\* The arrays of a buffer, with another one for field f.
But(of, f, array) == [g \in Fields |-> IF g = f THEN array ELSE of[g]]

\* A field of the own buffer c gets an array of its own.
Replaced(w, c, f, value) ==
    LET name == Array(c, f, w.own[c].slot)
    IN  [Put(w, name, value) EXCEPT !.own[c].of = But(@, f, name)]

-----------------------------------------------------------------------------
(* The steps.  Each is given a world, its place and a buffer; it returns the *)
(* world it leaves and the buffers for the next step.                        *)
To(w, buffers) == [world |-> w, out |-> buffers]
ToOwn(w, c) == To(w, <<w.own[c]>>)

InPlace(w, p, buf, fetched, changed) ==
    LET c == <<p, 0>>
        taken == Looked(Fetched(Referenced(w, c, buf), c, buf, fetched), p, c, buf, fetched)
    IN  ToOwn(Changed(taken, p, c, changed), c)

OnCopy(w, p, buf, fetched, changed) ==
    LET c == <<p, 0>>
        taken == Looked(Fetched(Copied(w, c, buf), c, buf, fetched), p, c, buf, fetched)
    IN  ToOwn(Changed(taken, p, c, changed), c)

Unchanged(w, p, buf) == To(Looked(w, p, <<p, 0>>, buf, {}), <<buf>>)

Counter(w, p, buf) == Unchanged(w, p, buf)

\* PSet::process stops before it fetches UVW if the time does not match.
PreFlagger(w, p, buf, on_uv) ==
    InPlace(w, p, buf, IF on_uv /\ w.match THEN {"uvw"} ELSE {}, {"flags"})

PreFlaggerClear(w, p, buf) == InPlace(w, p, buf, {"weights"}, {"flags"})

UVWFlagger(w, p, buf) == InPlace(w, p, buf, {"uvw"}, {"flags"})

PhaseShift(w, p, buf) == OnCopy(w, p, buf, {"uvw"}, {"data", "uvw"})

OneApplyCal(w, p, buf) == OnCopy(w, p, buf, {"weights"}, {"data", "flags", "weights"})

ApplyBeam(w, p, buf, update_weights) ==
    LET weights == IF update_weights THEN {"weights"} ELSE {}
    IN  OnCopy(w, p, buf, weights, {"data"} \cup weights)

ScaleData(w, p, buf) ==
    LET c == <<p, 0>>
        scaled == [w.arrays[buf.of["data"]] EXCEPT !.by = @ \cup {p}]
        looked == Looked([w EXCEPT !.own[c] = buf], p, c, buf, {})
    IN  ToOwn(Replaced(looked, c, "data", scaled), c)

ColumnReader(w, p, buf) ==
    LET c == <<p, 0>>
        copied == Looked(Copied(w, c, buf), p, c, buf, {})
    IN  ToOwn(Put(copied, copied.own[c].of["data"],
                  [slot |-> Read(buf).slot, by |-> {p}]), c)

\* OnePredict works in a buffer that lives for one call only.
Predicted(w, p, buf, c) ==
    LET scratch == [w EXCEPT !.own[c] = EmptyBuffer]
        needed == {"uvw", "weights"}
        fetched == Looked(Fetched(Copied(scratch, c, buf), c, buf, needed), p, c, buf, needed)
        own == fetched.own[c]
        names == [f \in Fields |-> IF own.of[f] = NoArray THEN NoArray ELSE Array(c, f, buf.slot)]
        moved == PutAll(fetched, [n \in {names[f] : f \in Filled(own)} |-> fetched.arrays[own.of[n.field]]])
    IN  Put([moved EXCEPT !.own[c].of = names], names["data"], [slot |-> buf.slot, by |-> {p}])

OnePredict(w, p, buf) == ToOwn(Predicted(w, p, buf, <<p, 0>>), <<p, 0>>)

\* With the operation add the model data is added to a copy of the input.
OnePredictAdd(w, p, buf) ==
    LET model == Predicted(w, p, buf, <<p, 1>>)
    IN  ToOwn(Changed(Copied(model, <<p, 0>>, buf), p, <<p, 0>>, {"data"}), <<p, 0>>)

\* The result of the first predict step, which replaces, becomes the own buffer.
H5ParmPredict(w, p, buf) ==
    LET c == <<p, 0>>
        needed == {"uvw", "weights"}
        taken == Looked(Fetched(Copied(w, c, buf), c, buf, needed), p, c, buf, needed)
        model == Predicted(taken, p, taken.own[c], <<p, 1>>)
    IN  ToOwn([model EXCEPT !.own[c] = model.own[<<p, 1>>]], c)

AllButData == Fields \ {"data"}

\* All fields are copied, those that are missing after they were fetched.
Gathered(w, p, buf) ==
    LET c == <<p, 0>>
        temp == <<p, 1>>
        taken == Looked(Fetched(Referenced(w, temp, buf), temp, buf, AllButData),
                        p, temp, buf, AllButData)
        full == [buf EXCEPT !.of = taken.own[temp].of]
    IN  Changed(Copied(taken, c, full), p, c, Fields)

FilterBaselines(w, p, buf) ==
    LET g == Gathered(w, p, buf)
        rows == IF buf.rows.table = "none" THEN NoRows
                ELSE [buf.rows EXCEPT !.sel = @ \cup {p}]
    IN  ToOwn([g EXCEPT !.own[<<p, 0>>].rows = rows], <<p, 0>>)

\* UVW do not depend on the channels: they are those of the input, or none.
FilterChannels(w, p, buf) ==
    LET c == <<p, 0>>
        temp == <<p, 1>>
        needed == {"weights", "uvw", "fullres"}
        taken == Looked(Fetched(Referenced(w, temp, buf), temp, buf, needed), p, temp, buf, needed)
        full == [buf EXCEPT !.of = But(taken.own[temp].of, "uvw", NoArray)]
        copied == Changed(Copied(taken, c, full), p, c, Fields \ {"uvw"})
    IN  ToOwn([copied EXCEPT !.own[c].of = But(@, "uvw", buf.of["uvw"])], c)

\* The rows of the buffer are not set: they stay empty.
StationAdder(w, p, buf) ==
    LET g == Gathered(w, p, buf)
    IN  ToOwn([g EXCEPT !.own[<<p, 0>>].rows = NoRows], <<p, 0>>)

MSUpdater(w, p, buf) ==
    LET c == <<p, 0>>
        fetched == Fetched(Referenced(w, c, buf), c, buf, {"weights"})
    IN  To(Looked(fetched, p, c, buf, {"weights"}), <<buf>>)

\* The next step is given the writer's buffer, with the rows of the new table.
MSWriter(w, p, buf, full_res) ==
    LET r == InPlace(w, p, buf, {"weights", "uvw"} \cup (IF full_res THEN {"fullres"} ELSE {}), {})
        own == [r.world.own[<<p, 0>>] EXCEPT !.rows = [table |-> "out", sel |-> {}]]
    IN  To([r.world EXCEPT !.own[<<p, 0>>] = own,
                           !.written = Append(@, [place |-> p, slot |-> buf.slot])], <<own>>)

-----------------------------------------------------------------------------
(* Steps that keep buffers.  A kept buffer waits in cell kept[p].            *)
Kept(w, p) == <<p, w.kept[p]>>
OneMore(w, p) == [w EXCEPT !.kept[p] = @ + 1]

AOFlaggerKeep(w, p, buf) ==
    LET c == Kept(w, p)
    IN  OneMore(Looked(Copied(w, c, buf), p, c, buf, {}), p)

\* With applysolution the slots of an interval are copied.
GainCalKeep(w, p, buf) ==
    LET c == Kept(w, p)
        needed == {"uvw", "weights", "fullres"}
    IN  OneMore(Looked(Fetched(Copied(w, c, buf), c, buf, needed), p, c, buf, needed), p)

\* SolutionInterval::PushBack: the buffers are new, the missing fields are
\* fetched first; the weights that are restored later are the given ones, if any.
DDECalKeep(w, p, buf) ==
    LET c == Kept(w, p)
        fresh == [w EXCEPT !.own[c] = EmptyBuffer]
        needed == {"uvw", "weights", "fullres"}
        taken == Copied(Fetched(fresh, c, buf, needed), c, buf)
        looked == Looked(taken, p, c, buf, needed)
    IN  OneMore([looked EXCEPT !.own[c].of =
                    IF "weights" \in Filled(buf) THEN @ ELSE But(@, "weights", NoArray)], p)

\* IDGPredict::process keeps a copy-constructed buffer, which shares arrays.
IDGPredictKeep(w, p, buf) ==
    LET c == Kept(w, p)
        held == Fetched([w EXCEPT !.own[c] = EmptyBuffer], c, buf, {"uvw"})
        shared == Referenced(held, c, buf)
    IN  OneMore(Looked(shared, p, c, buf, {"uvw"}), p)

\* What is sent of a kept buffer.
Released(w, p, c, kind) ==
    CASE kind = "aoflagger" -> Changed(w, p, c, {"flags"})
      [] kind = "gaincal_apply" -> Changed(w, p, c, {"data", "flags"})
      [] kind = "ddecal" -> Changed(w, p, c, {"data"})
      [] kind \in {"idgpredict", "idgpredict_one"} ->
            Replaced(w, c, "data", [slot |-> w.own[c].slot, by |-> {p}])

\* GainCal without applysolution; its flags of the UVW are to stay its own.
GainCal(w, p, buf, flag_uvw) ==
    InPlace(w, p, buf, {"uvw", "weights", "fullres"}, IF flag_uvw THEN {"flags"} ELSE {})

Writers == {"msupdater", "mswriter", "mswriter_noflags"}
Keepers == {"aoflagger", "gaincal_apply", "ddecal", "idgpredict", "idgpredict_one"}

Keep(w, p, buf, kind) ==
    CASE kind = "aoflagger" -> AOFlaggerKeep(w, p, buf)
      [] kind = "gaincal_apply" -> GainCalKeep(w, p, buf)
      [] kind = "ddecal" -> DDECalKeep(w, p, buf)
      [] kind \in {"idgpredict", "idgpredict_one"} -> IDGPredictKeep(w, p, buf)

KeepLimit(kind) == IF kind = "idgpredict_one" THEN 1 ELSE KeepSize

Transform(w, p, buf, kind) ==
    CASE kind \in {"counter", "split"} -> Unchanged(w, p, buf)
      [] kind = "preflagger" -> PreFlagger(w, p, buf, FALSE)
      [] kind = "preflagger_uv" -> PreFlagger(w, p, buf, TRUE)
      [] kind = "preflagger_clear" -> PreFlaggerClear(w, p, buf)
      [] kind = "uvwflagger" -> UVWFlagger(w, p, buf)
      [] kind = "phaseshift" -> PhaseShift(w, p, buf)
      [] kind = "applycal" -> OneApplyCal(w, p, buf)
      [] kind = "applybeam" -> ApplyBeam(w, p, buf, FALSE)
      [] kind = "applybeam_weights" -> ApplyBeam(w, p, buf, TRUE)
      [] kind = "scaledata" -> ScaleData(w, p, buf)
      [] kind = "columnreader" -> ColumnReader(w, p, buf)
      [] kind = "predict" -> OnePredict(w, p, buf)
      [] kind = "predict_add" -> OnePredictAdd(w, p, buf)
      [] kind = "h5parmpredict" -> H5ParmPredict(w, p, buf)
      [] kind = "filter_baselines" -> FilterBaselines(w, p, buf)
      [] kind = "filter_channels" -> FilterChannels(w, p, buf)
      [] kind = "stationadder" -> StationAdder(w, p, buf)
      [] kind = "gaincal" -> GainCal(w, p, buf, FALSE)
      [] kind = "gaincal_uvw" -> GainCal(w, p, buf, TRUE)
      [] kind = "msupdater" -> MSUpdater(w, p, buf)
      [] kind = "mswriter" -> MSWriter(w, p, buf, TRUE)
      [] kind = "mswriter_noflags" -> MSWriter(w, p, buf, FALSE)

RECURSIVE Call(_, _, _), Release(_, _, _)

\* process() of the steps after place p, for each of the buffers in turn.
Forward(w, p, buffers) ==
    FoldLeft(LAMBDA v, buf : FoldLeft(LAMBDA u, q : Call(u, q, buf), v, config.next[p]),
             w, buffers)

\* The kept buffers from number i on are sent, each when the next step is done
\* with the one before.
Release(w, p, i) ==
    IF i = w.kept[p] THEN [w EXCEPT !.kept[p] = 0]
    ELSE LET r == Released(w, p, <<p, i>>, config.kind[p])
         IN  Release(Forward(r, p, <<r.own[<<p, i>>]>>), p, i + 1)

Call(w, p, buf) ==
    LET kind == config.kind[p]
        kept == Keep(w, p, buf, kind)
        done == Transform(w, p, buf, kind)
    IN  IF kind \notin Keepers THEN Forward(done.world, p, done.out)
        ELSE IF kept.kept[p] = KeepLimit(kind) THEN Release(kept, p, 0) ELSE kept

-----------------------------------------------------------------------------
Line(kinds) ==
    LET all == Append(kinds, "mswriter")
    IN  [kind |-> all, before |-> [p \in 1 .. Len(all) |-> 1 .. p - 1],
         next |-> [p \in 1 .. Len(all) |-> IF p = Len(all) THEN <<>> ELSE <<p + 1>>]]

Branches(a, b) ==
    [kind |-> <<"split", a, "mswriter", b, "mswriter">>,
     before |-> <<{}, {1}, {1, 2}, {1}, {1, 4}>>,
     next |-> <<<<2, 4>>, <<3>>, <<>>, <<5>>, <<>>>>]

\* ColumnReader after a writer is left out: it takes the rows of the new table
\* for those of the input (MSWriter.cc:132, ColumnReader.cc:34).
Lines == {Line(<<a, b>>) : a \in ChainKinds, b \in ChainKinds}
         \ {Line(<<"mswriter", "columnreader">>)}

Trees == Lines
         \cup {Branches(a, b) : a \in BranchKinds, b \in BranchKinds}

FieldsInit ==
    \E t \in Trees :
        Start([ntime |-> MaxSlots, kind |-> t.kind, before |-> t.before, next |-> t.next],
              EmptyWorld(0 .. Len(t.kind)))

\* The reader fills its arrays again for every slot (MSReader::process).
ReaderBuffer(slot, inserted) ==
    [slot |-> slot, rows |-> IF inserted THEN NoRows ELSE [table |-> "in", sel |-> {}],
     of |-> [f \in Fields |-> IF f \in {"data", "flags"} THEN Array(<<0, 0>>, f, -1) ELSE NoArray]]

ReaderArrays(w, slot) ==
    PutAll(w, [n \in {Array(<<0, 0>>, f, -1) : f \in {"data", "flags"}} |-> [slot |-> slot, by |-> {}]])

\* A column cannot be read for an inserted slot: ColumnReader throws.
\* Bound: all slots but the second one (of index 1) are in the measurement set.
FieldsProcess ==
    \E inserted \in BOOLEAN, match \in BOOLEAN :
        /\ inserted => fed = 1
        /\ inserted => \A p \in DOMAIN config.kind : config.kind[p] # "columnreader"
        /\ match \/ \E p \in DOMAIN config.kind : config.kind[p] = "preflagger_uv"
        /\ Processed(Call([ReaderArrays(step, fed) EXCEPT !.seen = {}, !.match = match], 1,
                          ReaderBuffer(fed, inserted)))
        /\ Send(<<>>)

\* A writer does not finish the steps after it (MSWriter.cc:137, MSUpdater.cc:216).
IsFinished(p) == \A q \in config.before[p] : config.kind[q] \notin Writers

\* finish(): the kept buffers are sent, those of the first step first.
Finished(w) ==
    LET places == [p \in 1 .. Len(config.kind) |-> p]
        keepers == SelectSeq(places, LAMBDA p : config.kind[p] \in Keepers /\ IsFinished(p))
    IN  FoldLeft(LAMBDA v, p : Release(v, p, 0), w, keepers)

FieldsFinish == Ended(Finished([step EXCEPT !.seen = {}])) /\ Send(<<>>)

FieldsNext == FieldsProcess \/ FieldsFinish

FieldsSpec == FieldsInit /\ [][FieldsNext]_calls

-----------------------------------------------------------------------------
\* The fields that a step is to change, or to replace.
Changes(kind) ==
    CASE kind \in {"preflagger", "preflagger_uv", "preflagger_clear", "uvwflagger", "aoflagger"} ->
            {"flags"}
      [] kind = "phaseshift" -> {"data", "uvw"}
      [] kind = "applycal" -> {"data", "flags", "weights"}
      [] kind = "gaincal_apply" -> {"data", "flags"}
      [] kind = "applybeam_weights" -> {"data", "weights"}
      [] kind \in {"applybeam", "scaledata", "predict_add", "ddecal"} -> {"data"}
      [] kind \in {"filter_baselines", "stationadder"} -> Fields
      [] kind = "filter_channels" -> Fields \ {"uvw"}
      [] OTHER -> {}

Replaces(kind, f) ==
    f = "data" /\ kind \in {"columnreader", "predict", "h5parmpredict", "idgpredict", "idgpredict_one"}

\* The places before p whose changes a field has there.
ChangedBefore(p, f) ==
    {q \in config.before[p] :
        /\ f \in Changes(config.kind[q]) \/ Replaces(config.kind[q], f)
        /\ \A r \in config.before[p] : r > q => ~Replaces(config.kind[r], f)}

WrittenAt(p) == SelectSeq(step.written, LAMBDA x : x.place = p)

\* Slots remain in a keeper before p that is not finished.
IsCutOff(p) ==
    \E q \in config.before[p] : config.kind[q] \in Keepers /\ ~IsFinished(q)

(* Whatever a step is given or fetches is of the slot that it processes, with *)
(* the changes of the steps before it and of no others, although arrays are   *)
(* shared, kept from slot to slot and fetched late (DPBuffer.h:24, 78); and   *)
(* slots are written once, in order, and all of them but those that a keeper  *)
(* behind another writer still has.                                           *)
FieldsAreOfTheSlot ==
    /\ \A x \in step.seen :
        x.value = [slot |-> x.slot, by |-> ChangedBefore(x.place, x.field)]
    /\ finished =>
        \A p \in {q \in DOMAIN config.kind : config.kind[q] = "mswriter"} :
            LET all == [i \in 1 .. fed |-> [place |-> p, slot |-> i - 1]]
            IN  IF IsCutOff(p) THEN IsPrefix(WrittenAt(p), all) ELSE WrittenAt(p) = all
=============================================================================
