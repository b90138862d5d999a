-------------------------------- MODULE Blobs --------------------------------
(***************************************************************************)
(* Binary large objects (blob): nested objects with a header, a type, a    *)
(* version and a length are written to a stream of bytes and read from it  *)
(* again, maybe on a machine with another byte order or from a stream that *)
(* cannot be positioned.  Also the objects of a source database file:      *)
(* sources (SourceData, SourceInfo) and patches (PatchInfo).  Values are   *)
(* numbers below 2^24, so that floating point numbers are any number.      *)
(***************************************************************************)
EXTENDS Integers, Sequences, SequencesExt, TLC

CONSTANTS
    Scripts,   \* what is written: sequences of calls
    BitsPerPut \* booleans that are put at once, 2048 in the code

VARIABLES config, step

Formats == {"little", "big"}

\* The bytes of a number in memory, and what bytes in memory stand for.
Digits(n, width) == [k \in 1 .. width |-> IF k > 3 THEN 0 ELSE (n \div 256^(k - 1)) % 256]
Bytes(n, width, format) == IF format = "little" THEN Digits(n, width) ELSE Reverse(Digits(n, width))
Garbage == -1
NumberOf(bytes, format) ==
    LET digits == IF format = "little" THEN bytes ELSE Reverse(bytes)
    IN  IF \E k \in DOMAIN digits : k > 3 /\ digits[k] # 0 THEN Garbage
        ELSE FoldRight(LAMBDA d, n : (256 * n) + d, SubSeq(digits \o <<0, 0>>, 1, 3), 0)

Magic(byte) == <<byte, byte, byte, byte>>
BobMagic == Magic(190)
EobMagic == Magic(191)
HeaderSize == 16

\* boolToBit, bitToBool: eight booleans in a byte, the first is the lowest; the
\* bits of the first byte that are not used are not set.
Power(j) == 2^j
BoolToBit(bools) ==
    LET Bit(i) == IF i <= Len(bools) THEN bools[i] ELSE i < 8 /\ config.garbage
    IN  [b \in 1 .. (Len(bools) + 7) \div 8 |->
            FoldSeq(LAMBDA j, n : IF Bit(8 * (b - 1) + j + 1) THEN n + Power(j) ELSE n,
                    0, [j \in 1 .. 8 |-> j - 1])]
BitToBool(bits, n) == [i \in 1 .. n |-> (bits[((i - 1) \div 8) + 1] \div Power((i - 1) % 8)) % 2 = 1]

-----------------------------------------------------------------------------
\* BlobOStream: w has the bytes, the level, and the length so far per level.

Fail(s, what) == [s EXCEPT !.error = what]

PutBuf(w, bytes) ==
    IF w.level = 0 THEN Fail(w, "putStart should be done first")
    ELSE [w EXCEPT !.bytes = @ \o bytes, !.length = @ + Len(bytes)]

PutNumber(w, n, width) == PutBuf(w, Bytes(n, width, config.writer))

PutStart(w, type, version) ==
    LET opened == [w EXCEPT !.lengths = <<w.length>> \o @, !.positions = <<Len(w.bytes)>> \o @,
                            !.length = 0, !.level = @ + 1]
        header == Bytes(0, 8, config.writer) \o BobMagic
                  \o <<version, IF config.writer = "little" THEN 0 ELSE 1, w.level, Len(type)>>
    IN  PutBuf(PutBuf(opened, header), type)

WithLength(w, length) ==
    LET at == w.positions[1]
        bytes == Bytes(length, 8, config.writer)
    IN  [k \in DOMAIN w.bytes |-> IF k - at \in 1 .. 8 THEN bytes[k - at] ELSE w.bytes[k]]

\* Faulty variant: the length of an object is not part of its parent's.
MutantEnded(w) ==
    [w EXCEPT !.length = w.lengths[1],
              !.lengths = Tail(@), !.positions = Tail(@), !.level = @ - 1,
              !.written = Append(@, w.length),
              !.bytes = IF config.seekable THEN WithLength(w, w.length) ELSE @]
\* The length is put into the header, if that can be reached.
Ended(w) ==
    [w EXCEPT !.length = IF w.level > 1 THEN w.lengths[1] + @ ELSE w.lengths[1],
              !.lengths = Tail(@), !.positions = Tail(@), !.level = @ - 1,
              !.written = Append(@, w.length),
              !.bytes = IF config.seekable THEN WithLength(w, w.length) ELSE @]
PutEnd(w) == Ended(PutBuf(w, EobMagic))

PutNumbers(w, numbers, width) == FoldLeft(LAMBDA v, n : PutNumber(v, n, width), w, numbers)
PutText(w, text) == PutBuf(PutNumber(w, Len(text), 8), text)
PutVector(w, numbers, width) == PutNumbers(PutNumber(w, Len(numbers), 8), numbers, width)

\* put(vector<bool>), in parts of the buffer's size.
RECURSIVE PutBools(_, _)
PutBools(w, bools) ==
    IF Len(bools) <= BitsPerPut THEN PutBuf(w, BoolToBit(bools))
    ELSE PutBools(PutBuf(w, BoolToBit(SubSeq(bools, 1, BitsPerPut))),
                  SubSeq(bools, BitsPerPut + 1, Len(bools)))

\* Filler bytes up to a multiple of n; the position is unknown if not seekable.
Filler(position, n) == IF config.seekable /\ n > 1 THEN (n - (position % n)) % n ELSE 0
PutAlign(w, n) ==
    LET fill == Filler(Len(w.bytes), n)
    IN  [w EXCEPT !.bytes = @ \o [k \in 1 .. fill |-> 0], !.length = @ + fill]

\* putBlobArray: the value has the number of axes, the shape and the numbers.
\* With space the data are put later, at an aligned position (setSpaceBlobArray).
ArrayType == <<97>>
Shape(value) == SubSeq(value, 2, 1 + value[1])
Product(shape) == IF shape = <<>> THEN 0 ELSE FoldSeq(LAMBDA x, y : x * y, 1, shape)
PutArrayData(w, value, fortran, fill) ==
    LET ndim == PutNumber(PutBuf(w, <<fortran, fill>>), value[1], 2)
        shaped == PutBuf(PutNumbers(ndim, Shape(value), 8), [k \in 1 .. fill |-> 32])
    IN  PutEnd(PutNumbers(shaped, SubSeq(value, 2 + value[1], Len(value)), 8))
StartArray(w, value, fortran, alignment) ==
    PutArrayData(w, value, fortran, Filler(Len(w.bytes) + 4 + 8 * value[1], alignment))
PutArray(w, value, fortran, alignment) ==
    StartArray(PutStart(w, ArrayType, 1), value, fortran, alignment)

\* operator<<, put, putBlobArray and setSpaceBlobArray, for each kind of value.
Put(w, kind, value) ==
    CASE kind = "n1" -> PutBuf(w, value)
      [] kind = "n2" -> PutNumbers(w, value, 2)
      [] kind = "n4" -> PutNumbers(w, value, 4)
      [] kind = "n8" -> PutNumbers(w, value, 8)
      [] kind = "complex" -> PutNumbers(w, value, 4)
      [] kind = "text" -> PutText(w, value)
      [] kind = "vector" -> PutVector(w, value, 8)
      [] kind = "bools" -> PutBools(PutNumber(w, Len(value), 8), [k \in DOMAIN value |-> value[k] = 1])
      [] kind = "array" -> PutArray(w, value, 1, 1)
      [] kind = "carray" -> PutArray(w, value, 0, 1)
      [] kind = "space" -> PutArray(w, value, 1, 8)
      [] kind = "align" -> PutAlign(w, 8)

PutFields(w, fields, values) ==
    FoldLeft(LAMBDA v, field : Put(v, field[2], values[field[1]]), w, fields)

-----------------------------------------------------------------------------
\* BlobIStream: r has the position, the level, and the lengths per level.

Read(r, n) == SubSeq(step.w.bytes, r.position + 1, r.position + n)

GetBuf(r, n) ==
    IF r.error # "" THEN r
    ELSE IF r.level = 0 THEN Fail(r, "getStart should be done first")
    ELSE IF n < 0 \/ r.position + n > Len(step.w.bytes) THEN Fail(r, "not all bytes could be read")
    ELSE [r EXCEPT !.got = Read(r, n), !.position = @ + n, !.length = @ + n]

\* Faulty variant: numbers of two bytes are taken as they are.
MutantConverted(convert, bytes) ==
    NumberOf(IF convert /\ Len(bytes) > 2 THEN Reverse(bytes) ELSE bytes, config.reader)
\* dataConvert: byteSwap if the data format is another one.
Converted(convert, bytes) ==
    NumberOf(IF convert THEN Reverse(bytes) ELSE bytes, config.reader)

\* An error is thrown: nothing else is done.
Then(r, Do(_)) == IF r.error # "" THEN r ELSE Do(r)

GetNumbers(r, n, width) ==
    Then(GetBuf(r, n * width), LAMBDA g :
        [g EXCEPT !.value =
            [k \in 1 .. n |-> Converted(g.convert, SubSeq(g.got, 1 + (k - 1) * width, k * width))]])

\* The header that a too short stream leaves as it is constructed.
NoHeader == Bytes(0, 8, config.reader) \o BobMagic \o <<0, IF config.reader = "little" THEN 0 ELSE 1, 0, 0>>

Header(r) ==
    LET left == Len(step.w.bytes) - r.position
        rest == Read(r, IF left < HeaderSize THEN left ELSE HeaderSize)
    IN  rest \o SubSeq(NoHeader, 1 + Len(rest), HeaderSize)
IsOther(header) == header[14] # (IF config.reader = "little" THEN 0 ELSE 1)

StartObject(r, header) ==
    IF SubSeq(header, 9, 12) # BobMagic \/ r.level < header[15]
       \/ (r.level > 0 /\ r.convert # IsOther(header)) THEN Fail(r, "no object")
    ELSE Then(GetBuf(
            [r EXCEPT !.position = LET end == @ + HeaderSize
                                   IN  IF end > Len(step.w.bytes) THEN Len(step.w.bytes) ELSE end,
                      !.level = @ + 1, !.lengths = <<r.length>> \o @, !.length = HeaderSize,
                      !.toread = <<Converted(IsOther(header), SubSeq(header, 1, 8))>> \o @,
                      !.convert = IF r.level = 0 THEN IsOther(header) ELSE @, !.version = header[13]],
            header[16]), LAMBDA g : [g EXCEPT !.type = g.got, !.cached = TRUE])
GetNextType(r) == IF r.error # "" \/ r.cached THEN r ELSE StartObject(r, Header(r))

GetStart(r, type) ==
    Then(GetNextType(r), LAMBDA next :
        IF next.type # type THEN Fail(next, "found another object type")
        ELSE [next EXCEPT !.cached = FALSE, !.value = <<next.version>>])

GetEnd(r) ==
    Then(GetBuf(r, 4), LAMBDA g :
        IF g.got # EobMagic THEN Fail(g, "no end-of-blob value found")
        ELSE IF g.toread[1] \notin {0, g.length} THEN Fail(g, "part of object not read")
        ELSE [g EXCEPT !.toread = Tail(@), !.lengths = Tail(@), !.level = @ - 1,
                       !.length = IF g.level > 1 THEN g.lengths[1] + @ ELSE g.lengths[1],
                       !.ends = Append(@, g.length)])

GetSize(r) == GetNumbers(r, 1, 8)
GetText(r) ==
    Then(GetSize(r), LAMBDA size :
        Then(GetBuf(size, size.value[1]), LAMBDA text : [text EXCEPT !.value = text.got]))
GetVector(r, width) == Then(GetSize(r), LAMBDA size : GetNumbers(size, size.value[1], width))

\* getBoolVec
RECURSIVE GetBools(_, _)
GetBools(r, n) ==
    LET now == IF n < BitsPerPut THEN n ELSE BitsPerPut
    IN  IF n = 0 THEN r
        ELSE Then(GetBuf(r, (now + 7) \div 8), LAMBDA g :
                GetBools([g EXCEPT !.value = @ \o [k \in 1 .. now |->
                            IF BitToBool(g.got, now)[k] THEN 1 ELSE 0]], n - now))
GetBoolVector(r) ==
    Then(GetSize(r), LAMBDA size : GetBools([size EXCEPT !.value = <<>>], size.value[1]))

GetAlign(r) ==
    LET fill == Filler(r.position, 8)
    IN  [r EXCEPT !.position = @ + fill, !.length = @ + fill, !.value = <<>>]

\* operator>>(Array): the axes are swapped if they are in the other order.
GetArrayData(r, axes, fill) ==
    Then(GetNumbers(GetBuf(r, fill), Product(axes), 8), LAMBDA data :
        GetEnd([data EXCEPT !.value = <<Len(axes)>> \o axes \o @]))
GetArray(r) ==
    Then(GetBuf(GetStart(r, ArrayType), 2), LAMBDA order :
        Then(GetNumbers(order, 1, 2), LAMBDA ndim :
            Then(GetNumbers(ndim, ndim.value[1], 8), LAMBDA shape :
                GetArrayData(shape, IF order.got[1] = 1 THEN shape.value ELSE Reverse(shape.value),
                             order.got[2]))))

Get(r, kind) ==
    CASE kind = "n1" -> GetNumbers(r, 1, 1)
      [] kind = "n2" -> GetNumbers(r, 1, 2)
      [] kind = "n4" -> GetNumbers(r, 1, 4)
      [] kind = "n8" -> GetNumbers(r, 1, 8)
      [] kind = "complex" -> GetNumbers(r, 2, 4)
      [] kind = "text" -> GetText(r)
      [] kind = "vector" -> GetVector(r, 8)
      [] kind = "bools" -> GetBoolVector(r)
      [] kind \in {"array", "carray", "space"} -> GetArray(r)
      [] kind = "align" -> GetAlign(r)

-----------------------------------------------------------------------------
\* The objects of a source database: an object is a function from field names to
\* values, which a reader uses again for the next object.

Gaussian == <<1>>
Shapelet == <<3>>
Number(fields) == [k \in DOMAIN fields |-> <<fields[k], "n8">>]
If(condition, fields) == IF condition THEN fields ELSE <<>>

\* SourceInfo::write, in version 2; files of version 1 are of older programs.
WrittenInfo(o) ==
    << <<"version", "n2">>, <<"name", "text">>, <<"type", "n2">>, <<"refType", "text">> >>
    \o If(o.version # <<1>>, << <<"logarithmic", "n1">> >>)
    \o << <<"nterms", "n4">>, <<"reference", "n8">>, <<"useRotation", "n1">> >>
    \o If(o.type = Shapelet, Number(<<"scaleI", "scaleQ", "scaleU", "scaleV">>)
          \o << <<"coeffI", "array">>, <<"coeffQ", "array">>, <<"coeffU", "array">>, <<"coeffV", "array">> >>)

\* SourceInfo::read
ReadInfo(o) ==
    << <<"version", "n2">>, <<"name", "text">>, <<"type", "n2">>, <<"refType", "text">> >>
    \o If(o.version[1] >= 2, << <<"logarithmic", "n1">> >>)
    \o << <<"nterms", "n4">>, <<"reference", "n8">>, <<"useRotation", "n1">> >>
    \o If(o.type = Shapelet, Number(<<"scaleI", "scaleQ", "scaleU", "scaleV">>)
          \o << <<"coeffI", "array">>, <<"coeffQ", "array">>, <<"coeffU", "array">>, <<"coeffV", "array">> >>)

\* The fields of SourceData after those of the source info, written and read alike.
SourceFields(o) ==
    << <<"patch", "text">> >> \o Number(<<"ra", "dec", "I", "Q", "U", "V">>)
    \o If(o.type = Gaussian, Number(<<"major", "minor", "orientation">>))
    \o If(o.useRotation = <<1>>, Number(<<"angle", "fraction", "rotation">>))
    \o If(o.nterms[1] > 0, << <<"terms", "vector">> >>)

SourceType == <<115>>
PatchType == <<112>>

\* writeSource
PutSource(w, o) == PutEnd(PutFields(PutStart(w, SourceType, 1), WrittenInfo(o) \o SourceFields(o), o))

\* Faulty variant: the terms of an earlier source stay.
MutantCleared(o) ==
    LET none == If(o.type # Gaussian, <<"major", "minor", "orientation">>)
                \o If(o.useRotation # <<1>>, <<"angle", "fraction", "rotation">>)
                \o If(o.type # Shapelet, <<"scaleI", "scaleQ", "scaleU", "scaleV">>)
        empty == If(o.type # Shapelet, <<"coeffI", "coeffQ", "coeffU", "coeffV">>)
    IN  [f \in DOMAIN o |->
            IF f \in ToSet(none) \union ToSet(empty) THEN <<0>>
            ELSE IF f = "logarithmic" /\ o.version[1] < 2 THEN <<1>> ELSE o[f]]
\* What the file does not have is zero, or empty; the older files are logarithmic.
Cleared(o) ==
    LET none == If(o.type # Gaussian, <<"major", "minor", "orientation">>)
                \o If(o.useRotation # <<1>>, <<"angle", "fraction", "rotation">>)
                \o If(o.type # Shapelet, <<"scaleI", "scaleQ", "scaleU", "scaleV">>)
        empty == If(o.type # Shapelet, <<"coeffI", "coeffQ", "coeffU", "coeffV">>)
    IN  [f \in DOMAIN o |->
            IF f \in ToSet(none) \union ToSet(empty) THEN <<0>>
            ELSE IF f = "terms" /\ o.nterms[1] = 0 THEN <<>>
            ELSE IF f = "logarithmic" /\ o.version[1] < 2 THEN <<1>> ELSE o[f]]

\* readSource
RECURSIVE GetFields(_, _)
GetFields(r, k) ==
    LET fields == ReadInfo(r.object) \o SourceFields(r.object)
    IN  IF k > Len(fields) THEN r
        ELSE IF k > 4 /\ r.object.version[1] \notin {1, 2} THEN Fail(r, "version of sourcedb must be 1 or 2")
        ELSE Then(Get(r, fields[k][2]), LAMBDA g :
                GetFields([g EXCEPT !.object[fields[k][1]] = g.value], k + 1))
GetSource(r) ==
    Then(GetStart(r, SourceType), LAMBDA started :
        IF started.version # 1 THEN Fail(started, "unsupported source version")
        ELSE Then(GetFields(started, 1), LAMBDA g :
                GetEnd([g EXCEPT !.object = Cleared(@), !.value = Cleared(g.object)])))

\* operator<< and operator>> of PatchInfo
PatchFields == << <<"name", "text">>, <<"category", "n2">> >> \o Number(<<"brightness", "ra", "dec">>)
PutPatch(w, o) == PutEnd(PutFields(PutStart(w, PatchType, 1), PatchFields, o))
GetPatchField(r, field) ==
    Then(Get(r, field[2]), LAMBDA g : [g EXCEPT !.patch = @ @@ (field[1] :> g.value)])
GetPatch(r) ==
    Then(GetStart(r, PatchType), LAMBDA started :
        IF started.version # 1 THEN Fail(started, "version of patch must be 1")
        ELSE Then(FoldLeft(GetPatchField, [started EXCEPT !.patch = <<>>], PatchFields), LAMBDA g :
                GetEnd([g EXCEPT !.value = g.patch])))

-----------------------------------------------------------------------------
EmptySource ==
    [f \in {"version", "type", "logarithmic", "nterms", "reference", "useRotation",
            "scaleI", "scaleQ", "scaleU", "scaleV", "coeffI", "coeffQ", "coeffU", "coeffV",
            "ra", "dec", "I", "Q", "U", "V", "major", "minor", "orientation",
            "angle", "fraction", "rotation"} |-> <<0>>]
    @@ [f \in {"name", "refType", "patch", "terms"} |-> <<>>]

Writer == [bytes |-> <<>>, level |-> 0, length |-> 0, lengths |-> <<>>, positions |-> <<>>,
           written |-> <<>>, error |-> ""]
Reader == [position |-> 0, level |-> 0, length |-> 0, lengths |-> <<>>, toread |-> <<>>,
           version |-> 0, type |-> <<>>, cached |-> FALSE, convert |-> FALSE, got |-> <<>>,
           value |-> <<>>, ends |-> <<>>, object |-> EmptySource, patch |-> <<>>, error |-> ""]

\* A call of the script writes a part, and its counterpart reads it.
Write(w, call) ==
    CASE call.kind = "start" -> PutStart(w, call.type, call.value[1])
      [] call.kind = "end" -> PutEnd(w)
      [] call.kind = "source" -> PutSource(w, call.value)
      [] call.kind = "patch" -> PutPatch(w, call.value)
      [] OTHER -> Put(w, call.kind, call.value)
ReadCall(r, call) ==
    CASE call.kind = "start" -> GetStart(r, call.type)
      [] call.kind = "end" -> GetEnd(r)
      [] call.kind = "source" -> GetSource(r)
      [] call.kind = "patch" -> GetPatch(r)
      [] OTHER -> Get(r, call.kind)

BlobsInit ==
    /\ config \in {c \in [script : Scripts, writer : Formats, reader : Formats, seekable : BOOLEAN,
                            garbage : BOOLEAN] :
                        c.garbage => \E k \in DOMAIN c.script : c.script[k].kind = "bools"}
    /\ step = [now |-> "write", call |-> 1, w |-> Writer, r |-> Reader, values |-> <<>>,
               refused |-> <<>>]

Call == config.script[step.call]
Done == step.call > Len(config.script)

WriteNext ==
    /\ step.now = "write"
    /\ ~Done
    /\ step' = [step EXCEPT !.w = Write(@, Call), !.call = @ + 1]
Open ==
    /\ step.now = "write"
    /\ Done
    /\ step' = [step EXCEPT !.now = "read", !.call = 1]

ReadNext ==
    /\ step.now = "read"
    /\ ~Done
    /\ LET r == ReadCall(step.r, Call)
       IN  step' = [step EXCEPT !.r = r, !.call = @ + 1,
                                !.values = IF Call.kind = "end" THEN @ ELSE Append(@, r.value)]

\* The reader asks for another object, catches the error and goes on.
AskAnother ==
    /\ step.now = "read"
    /\ ~Done
    /\ Call.kind \in {"start", "source", "patch"}
    /\ ~step.r.cached
    /\ LET asked == GetStart(step.r, <<1>>)
       IN  step' = [step EXCEPT !.r = [asked EXCEPT !.error = ""], !.refused = Append(@, asked.error)]

\* The reader ends an object before it is read.
EndEarly ==
    /\ step.now = "read"
    /\ ~Done
    /\ step.r.level > 0
    /\ ~step.r.cached
    /\ Call.kind \notin {"end", "align"}
    /\ LET ended == GetEnd(step.r)
       IN  step' = [step EXCEPT !.now = "stopped", !.refused = Append(@, ended.error)]

\* The reader asks for an object after the last one.
ReadOn ==
    /\ step.now = "read"
    /\ Done
    /\ LET asked == GetStart(step.r, SourceType)
       IN  step' = [step EXCEPT !.now = "stopped", !.refused = Append(@, asked.error)]

BlobsNext ==
    /\ WriteNext \/ Open \/ ReadNext \/ AskAnother \/ EndEarly \/ ReadOn
    /\ UNCHANGED config

-----------------------------------------------------------------------------
\* What a call of the script lets its counterpart return.
Returned(call) ==
    CASE call.kind = "carray" -> <<call.value[1]>> \o Reverse(Shape(call.value))
                                 \o SubSeq(call.value, 2 + call.value[1], Len(call.value))
      [] OTHER -> call.value

\* What is read is what was written, whatever the byte orders of the two
\* machines are, with the lengths that the writer found; a source has nothing of
\* the source that was read before it.  Whoever reads something else, too little
\* or too much gets an error.
BlobsAreReadAsWritten ==
    LET done == SubSeq(config.script, 1, step.call - 1)
        read == SelectSeq(done, LAMBDA call : call.kind # "end")
    IN  /\ step.now = "read" =>
            /\ step.r.error = ""
            /\ step.values = [k \in DOMAIN read |-> Returned(read[k])]
            /\ Done => step.r.ends = step.w.written /\ step.r.level = 0
        /\ \A k \in DOMAIN step.refused : step.refused[k] # ""
=============================================================================
