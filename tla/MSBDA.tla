------------------------------- MODULE MSBDA -------------------------------
(***************************************************************************)
(* dp3::steps::MSBDAWriter and MSBDAReader: the buffers of a BdaAverager   *)
(* are written to a measurement set, and a later run reads them.           *)
(*                                                                         *)
(* A row of the main table is a row of a buffer with the description of    *)
(* its channels; elements[b] stands for the channels of baseline b.  The   *)
(* reader gives NBaselines rows per buffer, whatever the writer was given. *)
(* Writing a buffer reads and changes nothing of the averager: it may wait *)
(* here until the averager has finished.                                   *)
(***************************************************************************)
EXTENDS BdaAverager, SequencesExt

VARIABLES
    ms_,                 \* the main table, as a sequence of rows
    nchanToDescId,       \* per number of channels, the row of DATA_DESCRIPTION
    factors,             \* the rows of BDA_FACTORS, one per baseline
    written,             \* the number of buffers that were written
    nread_,              \* the rows that were read
    last,                \* last_ms_time_ and last_ms_interval_
    read,                \* the buffers given to the step behind the reader
    file                 \* "none", "write", "read" or "done"

fileVars == <<ms_, nchanToDescId, factors, written, nread_, last, read, file>>

FileInit ==
    /\ ms_ = <<>> /\ nchanToDescId = <<>> /\ factors = <<>> /\ written = 0
    /\ nread_ = 0 /\ last = [start |-> 0, len |-> 0] /\ read = <<>> /\ file = "none"

-----------------------------------------------------------------------------
(***************************************************************************)
(* MSBDAWriter::updateInfo.  OverwriteSubTables adds a spectral window and *)
(* its description per number of channels, in the order of the baselines.  *)
(***************************************************************************)
FirstOf(b) == \A c \in 1 .. (b - 1) : elements[c] # elements[b]
OverwriteSubTables ==
    [n \in {elements[b] : b \in Baselines} |->
        LET first == CHOOSE b \in Baselines : elements[b] = n /\ FirstOf(b)
        IN  Cardinality({b \in 1 .. (first - 1) : FirstOf(b)})]

WriteTimeFactorRows(ids) ==
    [b \in Baselines |-> [factor |-> factor[b], spw |-> ids[elements[b]]]]

WriteMetaData ==
    /\ file = "none"
    /\ nchanToDescId' = OverwriteSubTables
    /\ factors' = WriteTimeFactorRows(OverwriteSubTables)
    /\ file' = "write"
    /\ UNCHANGED <<ms_, written, nread_, last, read>>

\* process: rows are put at the end of the table.
WriteBuffer ==
    /\ file = "write" /\ written < Len(sent)
    /\ LET rows == sent[written + 1].rows
       IN  ms_' = ms_ \o [i \in 1 .. Len(rows) |->
                            [row |-> rows[i], data_desc_id |-> nchanToDescId[elements[rows[i].bl]]]]
    /\ written' = written + 1
    /\ UNCHANGED <<nchanToDescId, factors, nread_, last, read, file>>

(***************************************************************************)
(* MSBDAReader::updateInfo: times in halves of a slot.  The time span is   *)
(* that between the centres of the rows and half a slot at both ends.      *)
(***************************************************************************)
Centre(r) == 2 * r.start + r.len
FirstTime == Min({Centre(ms_[i].row) : i \in DOMAIN ms_})
LastTime == Max({Centre(ms_[i].row) : i \in DOMAIN ms_})

StartTime == FirstTime - 1
NTime == (LastTime - FirstTime + 3) \div 2

\* desc_id_to_nchan_: the channels of the window of a description.
NChanOf(id) == CHOOSE n \in DOMAIN nchanToDescId : nchanToDescId[n] = id
DescIds == {factors[b].spw : b \in DOMAIN factors}
desc_id_to_nchan == [id \in DescIds |-> NChanOf(id)]

Open ==
    /\ file = "write" /\ written = Len(sent) /\ ms_ # <<>>
    /\ file' = "read"
    /\ UNCHANGED <<ms_, nchanToDescId, factors, written, nread_, last, read>>

\* Compares the times of the rows, not the ends of their intervals.
MutantIsEarlier(r, before) == Centre(r) < Centre(before)
IsEarlier(r, before) == r.start + r.len < before.start + before.len

\* process: rows that end before the row before them are skipped.
Kept(rows) ==
    LET after(acc, m) ==
            IF IsEarlier(m.row, acc.last) THEN acc
            ELSE [rows |-> Append(acc.rows, m),
                  last |-> [start |-> m.row.start, len |-> m.row.len]]
    IN  FoldLeft(after, [rows |-> <<>>, last |-> last], rows)

ReadBuffer ==
    /\ file = "read"
    /\ LET upto == Min({Len(ms_), nread_ + NBaselines})
           kept == Kept(SubSeq(ms_, nread_ + 1, upto))
           buffer == [i \in 1 .. Len(kept.rows) |->
                        [row |-> kept.rows[i].row,
                         n_channels |-> desc_id_to_nchan[kept.rows[i].data_desc_id]]]
       IN  /\ nread_' = upto
           /\ last' = kept.last
           /\ read' = Append(read, buffer)
           /\ file' = IF upto < Len(ms_) THEN "read" ELSE "done"
    /\ UNCHANGED <<ms_, nchanToDescId, factors, written>>

FileNext == WriteMetaData \/ WriteBuffer \/ Open \/ ReadBuffer
-----------------------------------------------------------------------------

\* RowsAreReadBack: every row that the averager sent comes back once, in its
\* place and with its channels, although the buffers are cut differently and
\* the reader skips rows that seem to be out of order; the buffer of the reader
\* always holds its rows.  If a baseline was not averaged in time, the slots
\* that the reader derives from the centres of the rows are those of the input.
RowsAreReadBack ==
    /\ file = "done" =>
         /\ FlattenSeq(read) =
              [i \in DOMAIN RowsOut |-> [row |-> RowsOut[i], n_channels |-> elements[RowsOut[i].bl]]]
         /\ (dropped = {} /\ \E b \in Baselines : factor[b] = 1)
            => StartTime = 0 /\ NTime = slot
    /\ \A k \in DOMAIN read :
          /\ Len(read[k]) <= NBaselines
          /\ \A i \in DOMAIN read[k] : read[k][i].n_channels <= Largest(elements)
=============================================================================
