--------------------------- MODULE SourceDatabase ---------------------------
(***************************************************************************)
(* The source database: makesourcedb reads a sky model line by line into a *)
(* casa table or a blob file, to which a later run may append; DP3 reads   *)
(* sky models into memory itself (parmdb/SkymodelToSourceDB.cc).  A        *)
(* predicting step then makes patches of what it finds                     *)
(* (base/SourceDBUtil.cc, common/ProximityClustering.cc).                  *)
(*                                                                         *)
(* A position is one number, that of a patch a fraction.  A patch line has *)
(* no source; the patch of a source line may be left out.                  *)
(***************************************************************************)
EXTENDS Integers, Sequences, SequencesExt, FiniteSetsExt, Functions, TLC

CONSTANTS
    SkyLines,     \* [name, patch, at, flux, inside]: is it in the search region?
    MaxLines,     \* bound: lines of all runs together
    MaxRuns       \* bound: runs of makesourcedb that fill a database

VARIABLES config, step

\* Names are made of parts, so that the prefix and suffix of makesourcedb can be
\* put around the name of a source.
NoName == <<>>
IsPatchLine(line) == line.name = NoName
HasPatch(line) == line.patch # NoName
Own(line) == config.prefix \o line.name \o config.suffix

\* Sky models in memory are read without options.
Plain == [backend |-> "skymodel", average |-> TRUE, check |-> FALSE, prefix |-> <<>>, suffix |-> <<>>]
Settings ==
    {Plain} \cup
    {[backend |-> b, average |-> a, check |-> c, prefix |-> p, suffix |-> p] :
        b \in {"casa", "blob"}, a \in BOOLEAN, c \in BOOLEAN, p \in {<<>>, <<"_">>}}

\* An empty database: patches and sources are tables, file the records of a
\* blob file, index where a sky model in memory has its patches.
EmptyTables ==
    [patches |-> <<>>, sources |-> <<>>, parms |-> [n \in {} |-> <<>>], file |-> <<>>,
     index |-> [p \in {} |-> 0]]
NoSums == [p \in {} |-> 0]

\* lines holds what the database was given, deleted the sources taken from it;
\* failed: an exception has ended a run that filled it.
SourcesInit ==
    /\ config \in Settings
    /\ step = [db |-> EmptyTables, sums |-> NoSums, phase |-> "idle", failed |-> FALSE, runs |-> 0,
               lines |-> <<>>, deleted |-> {}]

\* A patch: its brightness, and its place as a sum of places over its weight.
Patch(name, flux, at) == [type |-> "patch", name |-> name, flux |-> flux, at |-> at]
\* The place of a source is whole.
Ra(line) == line.at[1]
Source(line, patch) ==
    [type |-> "source", name |-> line.name, patch |-> patch, ra |-> Ra(line), flux |-> line.flux]

-----------------------------------------------------------------------------
(* The three databases.                                                      *)
Rows(db, name) == {i \in DOMAIN db.patches : db.patches[i].name = name}
PatchExists(db, name) == config.check /\ Rows(db, name) # {}
SourceExists(db, name) == config.check /\ \E row \in ToSet(db.sources) : row.name = name

\* SourceDBCasa::addPatch and SourceDBSkymodel::addPatch: the id is a row.
AddPatchRow(db, patch) ==
    [db EXCEPT !.patches = Append(@, patch), !.index = (patch.name :> Len(db.patches) + 1) @@ @]
\* SourceDBBlob::addPatch, addSource: the id is a position.
AddRecord(db, record) == [db EXCEPT !.file = Append(@, record)]

AddPatch(db, patch) == IF config.backend = "blob" THEN AddRecord(db, patch) ELSE AddPatchRow(db, patch)

\* SourceDBCasa::addSrc: the values of a source are parameters with its name.
AddSrc(db, line, id) ==
    [db EXCEPT !.sources = Append(@, [name |-> line.name, id |-> id]),
               !.parms = (line.name :> [ra |-> Ra(line), flux |-> line.flux]) @@ @]

AddSource(db, line, patch) ==
    CASE config.backend = "blob" -> AddRecord(db, Source(line, patch))
      [] config.backend = "skymodel" -> [db EXCEPT !.sources = Append(@, Source(line, patch))]
      [] config.backend = "casa" -> AddSrc(db, line, Min(Rows(db, patch)))

\* A source that brings its patch; the table has the new row.
AddOwnSource(db, line) ==
    LET added == AddPatch(db, Patch(Own(line), line.flux, line.at))
    IN  IF config.backend = "casa" THEN AddSrc(added, line, Len(added.patches))
        ELSE AddSource(added, line, Own(line))

\* Faulty variant: the patch that was added last is updated.
MutantUpdatePatch(db, id, flux, at) ==
    IF config.backend = "blob" THEN [db EXCEPT !.file[Len(db.file)].flux = flux, !.file[Len(db.file)].at = at]
    ELSE [db EXCEPT !.patches[Len(db.patches)].flux = flux, !.patches[Len(db.patches)].at = at]
\* updatePatch, by the id that addPatch gave.
UpdatePatch(db, id, flux, at) ==
    IF config.backend = "blob" THEN [db EXCEPT !.file[id].flux = flux, !.file[id].at = at]
    ELSE [db EXCEPT !.patches[id].flux = flux, !.patches[id].at = at]

-----------------------------------------------------------------------------
(* makesourcedb: MakeSourceDb, ParseSkyModel and process.                     *)

\* An exception ends the run; what is in a file or a table stays there.
Aborted(s, db) == [s EXCEPT !.db = db, !.phase = "idle", !.failed = TRUE]

\* A patch is summed up by the id that it was added with first.
NewSum(id) == [id |-> id, sum |-> 0, flux |-> 0]
Begun(sums, name, id) == IF name \in DOMAIN sums THEN sums ELSE (name :> NewSum(id)) @@ sums
Summed(sums, line) ==
    [sums EXCEPT ![line.patch].sum = @ + line.flux * Ra(line), ![line.patch].flux = @ + line.flux]

NextId(db) == IF config.backend = "blob" THEN Len(db.file) + 1 ELSE Len(db.patches) + 1

ProcessPatch(s, line) ==
    IF PatchExists(s.db, line.patch) THEN Aborted(s, s.db)
    ELSE [s EXCEPT !.db = AddPatch(@, Patch(line.patch, line.flux, line.at)),
                   !.sums = Begun(@, line.patch, NextId(s.db))]

ProcessSource(s, line) ==
    IF PatchExists(s.db, Own(line)) \/ SourceExists(s.db, line.name) THEN Aborted(s, s.db)
    ELSE [s EXCEPT !.db = AddOwnSource(@, line)]

\* The tables need one row of the patch; all need the patch in this file, but
\* that is checked when the source has been added.
ProcessSourceOfPatch(s, line) ==
    IF \/ config.backend = "casa" /\ Cardinality(Rows(s.db, line.patch)) # 1
       \/ SourceExists(s.db, line.name)
    THEN Aborted(s, s.db)
    ELSE IF line.patch \notin DOMAIN s.sums THEN Aborted(s, AddSource(s.db, line, line.patch))
    ELSE [s EXCEPT !.db = AddSource(@, line, line.patch), !.sums = Summed(@, line)]

\* process; a line outside of the search region is only counted.
Process(s, line) ==
    LET read == [s EXCEPT !.lines = Append(@, line)]
    IN  CASE ~line.inside -> read
          [] line.inside /\ IsPatchLine(line) -> ProcessPatch(read, line)
          [] line.inside /\ ~IsPatchLine(line) /\ ~HasPatch(line) -> ProcessSource(read, line)
          [] line.inside /\ ~IsPatchLine(line) /\ HasPatch(line) -> ProcessSourceOfPatch(read, line)

\* Patches get the flux and the weighted average place of their sources.
Averaged(db, sums, name) ==
    LET s == sums[name]
    IN  IF s.flux = 0 THEN db ELSE UpdatePatch(db, s.id, s.flux, <<s.sum, s.flux>>)

Finished(s) ==
    [s EXCEPT !.phase = "idle",
              !.db = IF ~config.average THEN @
                     ELSE FoldSet(LAMBDA name, db : Averaged(db, s.sums, name), @, DOMAIN s.sums)]

\* A new database, or one that is appended to; in memory it is always new.
Opened(s, append) ==
    [s EXCEPT !.phase = "reading", !.runs = @ + 1, !.sums = NoSums,
              !.db = IF append THEN @ ELSE EmptyTables,
              !.lines = IF append THEN @ ELSE <<>>,
              !.deleted = IF append THEN @ ELSE {},
              !.failed = append /\ @]

Start ==
    /\ step.phase = "idle" /\ step.runs < MaxRuns
    /\ \E append \in BOOLEAN :
          /\ append => config.backend # "skymodel"
          /\ step' = Opened(step, append)
    /\ UNCHANGED config

ReadLine ==
    /\ step.phase = "reading" /\ Len(step.lines) < MaxLines
    /\ \E line \in SkyLines : step' = Process(step, line)
    /\ UNCHANGED config

EndOfFile ==
    /\ step.phase = "reading"
    /\ step' = Finished(step)
    /\ UNCHANGED config

\* SourceDBCasa::deleteSources, for a pattern that is a name; the patch stays.
DeleteSources ==
    /\ step.phase = "idle" /\ config.backend = "casa"
    /\ \E name \in {row.name : row \in ToSet(step.db.sources)} :
          step' = [step EXCEPT
              !.db.sources = SelectSeq(@, LAMBDA row : row.name # name),
              !.db.parms = Restrict(@, DOMAIN @ \ {name}),
              !.deleted = @ \cup {name}]
    /\ UNCHANGED config

SourcesNext == Start \/ ReadLine \/ EndOfFile \/ DeleteSources

SourcesSpec == SourcesInit /\ [][SourcesNext]_<<config, step>>
-----------------------------------------------------------------------------
(* Reading the database.                                                     *)

\* SourceDBCasa::getNextSource, of a row.
SourceOfRow(db, row) ==
    [type |-> "source", name |-> row.name, patch |-> db.patches[row.id].name,
     ra |-> db.parms[row.name].ra, flux |-> db.parms[row.name].flux]

\* Getting sources until the end is reached.
Sources(db) ==
    CASE config.backend = "blob" -> SelectSeq(db.file, LAMBDA record : record.type = "source")
      [] config.backend = "skymodel" -> db.sources
      [] config.backend = "casa" -> [i \in DOMAIN db.sources |-> SourceOfRow(db, db.sources[i])]

\* SourceDBBlob::getNextSource skips patches to find a source: behind the last
\* one it runs into the end of the file and throws.
CanBeRead(db) ==
    config.backend = "blob" /\ db.file # <<>> => db.file[Len(db.file)].type = "source"

\* getPatchInfo: a blob file gives the first patch of a name.
PatchInfo(db, name) ==
    CASE config.backend = "blob" -> SubSeq(SelectSeq(db.file, LAMBDA r : r.type = "patch" /\ r.name = name), 1, 1)
      [] config.backend = "skymodel" -> <<db.patches[db.index[name]]>>
      [] config.backend = "casa" -> SelectSeq(db.patches, LAMBDA r : r.name = name)

\* makePatchList without patterns
PatchNames(db) ==
    CASE config.backend = "blob" -> {r.name : r \in {q \in ToSet(db.file) : q.type = "patch"}}
      [] config.backend = "skymodel" -> DOMAIN db.index
      [] config.backend = "casa" -> {r.name : r \in ToSet(db.patches)}

\* SourceDBCasa::findDuplicates
Duplicates(rows) == {r.name : r \in {q \in ToSet(rows) : Cardinality({i \in DOMAIN rows : rows[i].name = q.name}) > 1}}

Component(source) == [name |-> source.name, ra |-> source.ra, flux |-> source.flux]
Components(sources, name) ==
    LET own == SelectSeq(sources, LAMBDA s : s.patch = name)
    IN  [i \in DOMAIN own |-> Component(own[i])]

\* What is left of a call that throws.
Failed == <<>>

\* makePatches; a patch without sources is refused, and one that is there twice.
MakePatches(db, names) ==
    LET components(name) == Components(Sources(db), name)
    IN  IF \/ ~CanBeRead(db)
           \/ \E name \in ToSet(names) : components(name) = <<>> \/ Len(PatchInfo(db, name)) # 1
        THEN Failed
        ELSE [i \in DOMAIN names |->
                 [name |-> names[i], info |-> PatchInfo(db, names[i])[1], components |-> components(names[i])]]

\* getPatchSourceData: of a row that has the name, or of the whole file, which
\* may end in a patch.
PatchSources(db, name) ==
    CASE config.backend = "casa" ->
            LET own == SelectSeq(db.sources, LAMBDA row : Rows(db, name) = {row.id})
            IN  [i \in DOMAIN own |-> Component(SourceOfRow(db, own[i]))]
      [] OTHER -> Components(Sources(db), name)

\* DemixInfo::makePatchList
DemixPatches(db, names) ==
    IF \E name \in ToSet(names) : name \notin PatchNames(db) \/ Len(PatchInfo(db, name)) # 1 THEN Failed
    ELSE [i \in DOMAIN names |->
             [name |-> names[i], info |-> PatchInfo(db, names[i])[1], components |-> PatchSources(db, names[i])]]

\* showsourcedb: lines of a sky model, in which patches have no flux, so that
\* reading gives them the flux 1.
ShownPatch(patch) == [name |-> NoName, patch |-> patch.name, at |-> patch.at, flux |-> 1, inside |-> TRUE]
ShownLines(patches) ==
    LET source(name, c) == [name |-> c.name, patch |-> name, at |-> <<c.ra, 1>>, flux |-> c.flux,
                            inside |-> TRUE]
        shown(p) == <<ShownPatch(p.info)>>
                    \o [i \in DOMAIN p.components |-> source(p.name, p.components[i])]
    IN  FlattenSeq([i \in DOMAIN patches |-> shown(patches[i])])

\* makeSourceList
SourceList(patches) == FlattenSeq([i \in DOMAIN patches |-> patches[i].components])

\* makeOnePatchPerComponent
OnePatchPerComponent(patches) ==
    LET parts(p) == [i \in DOMAIN p.components |->
                       [name |-> <<p.name, i - 1>>, at |-> <<p.components[i].ra, 1>>,
                        components |-> <<p.components[i]>>]]
    IN  FlattenSeq([i \in DOMAIN patches |-> parts(patches[i])])

SumOfPlaces(components) == FoldLeft(LAMBDA sum, c : sum + c.ra, 0, components)

\* ProximityClustering::ClusterDistance, less than the limit
AreClose(c, d, limit) ==
    LET apart == SumOfPlaces(c) * Len(d) - SumOfPlaces(d) * Len(c)
    IN  -limit * Len(c) * Len(d) < apart /\ apart < limit * Len(c) * Len(d)

\* ProximityClustering::GroupSource: cluster i takes those after it that are
\* close to what it was.
Grouped(clusters, i, limit) ==
    LET later == SubSeq(clusters, i + 1, Len(clusters))
        isClose(c) == AreClose(clusters[i], c, limit)
    IN  SubSeq(clusters, 1, i - 1)
        \o <<clusters[i] \o FlattenSeq(SelectSeq(later, isClose))>>
        \o SelectSeq(later, LAMBDA c : ~isClose(c))

\* clusterProximateSources
ClusterProximateSources(patches, limit) ==
    LET sources == SourceList(patches)
        clusters == FoldLeftDomain(LAMBDA c, i : IF i > Len(c) THEN c ELSE Grouped(c, i, limit),
                                   [i \in DOMAIN sources |-> <<sources[i]>>], sources)
        first(c) == CHOOSE p \in ToSet(patches) : c[1] \in ToSet(p.components)
    IN  [i \in DOMAIN clusters |->
            [name |-> <<first(clusters[i]).name, i - 1>>,
             at |-> <<SumOfPlaces(clusters[i]), Len(clusters[i])>>, components |-> clusters[i]]]

-----------------------------------------------------------------------------
Defines(line) == IsPatchLine(line) \/ ~HasPatch(line)
PatchOf(line) == IF HasPatch(line) THEN line.patch ELSE Own(line)

Given == SelectSeq(step.lines, LAMBDA line : line.inside)

NamesAreUnique ==
    \A i, j \in DOMAIN Given : i # j =>
        /\ Given[i].name = Given[j].name => IsPatchLine(Given[i])
        /\ Defines(Given[i]) /\ Defines(Given[j]) => PatchOf(Given[i]) # PatchOf(Given[j])

\* The lines with the sources of a patch, those that were deleted too.
SourceLines(name) == SelectSeq(Given, LAMBDA line : ~IsPatchLine(line) /\ PatchOf(line) = name)

SumOf(lines, Value(_)) == FoldLeft(LAMBDA sum, line : sum + Value(line), 0, lines)

ExpectedInfo(name) ==
    LET own == SourceLines(name)
        given == CHOOSE line \in ToSet(Given) : PatchOf(line) = name /\ Defines(line)
        flux == SumOf(own, LAMBDA line : line.flux)
    IN  IF config.average /\ flux # 0 /\ IsPatchLine(given)
        THEN Patch(name, flux, <<SumOf(own, LAMBDA line : line.flux * Ra(line)), flux>>)
        ELSE Patch(name, given.flux, given.at)

ExpectedPatch(name) ==
    LET left == SelectSeq(SourceLines(name), LAMBDA line : line.name \notin step.deleted)
    IN  [name |-> name, info |-> ExpectedInfo(name),
         components |-> [i \in DOMAIN left |-> [name |-> left[i].name, ra |-> Ra(left[i]), flux |-> left[i].flux]]]

SameSources(patches, others) ==
    /\ Len(SourceList(patches)) = Len(SourceList(others))
    /\ ToSet(SourceList(patches)) = ToSet(SourceList(others))

SamePlace(at, place) == at[1] * place[2] = place[1] * at[2]

\* The patches of a sky model that was written for a database are its patches,
\* where they have the places they were given or those of their sources.
ShownIsRead(patches) ==
    LET s == Finished(FoldLeft(Process, Opened(step, FALSE), ShownLines(patches)))
        names == [i \in DOMAIN patches |-> patches[i].name]
        again == DemixPatches(s.db, names)
    IN  /\ ~s.failed /\ Len(again) = Len(patches)
        /\ \A i \in DOMAIN patches :
              /\ again[i].components = patches[i].components
              /\ step.deleted = {} => SamePlace(again[i].info.at, patches[i].info.at)

(* A database that was filled without an exception, in one or more runs, from *)
(* lines with unique names gives each patch its own sources in order and the  *)
(* flux and place that the line of the patch or the average of its sources    *)
(* has, whichever way it is stored and read; a sky model that is written of   *)
(* it gives the same patches; and the patches that are made of them for the   *)
(* prediction with a beam have the same sources (SkymodelToSourceDB.cc:855,   *)
(* SourceDBBlob.cc:103, 227, SourceDBSkymodel.cc:88, SourceDBUtil.cc:79,      *)
(* DemixInfo.cc:323, showsourcedb.cc:52).                                     *)
PatchesAreWhatTheLinesSay ==
    step.phase = "idle" /\ ~step.failed =>
        /\ config.backend = "casa" /\ step.deleted = {} =>
              (NamesAreUnique <=> Duplicates(step.db.patches) \cup Duplicates(step.db.sources) = {})
        /\ NamesAreUnique =>
              LET names == SetToSeq({PatchOf(line) : line \in {l \in ToSet(Given) :
                                        ~IsPatchLine(l) /\ l.name \notin step.deleted}})
                  expected == [i \in DOMAIN names |-> ExpectedPatch(names[i])]
              IN  /\ ToSet(names) \subseteq PatchNames(step.db)
                  /\ CanBeRead(step.db) => MakePatches(step.db, names) = expected
                  /\ config.backend # "skymodel" =>
                        DemixPatches(step.db, names) = expected /\ ShownIsRead(expected)
                  /\ SameSources(expected, OnePatchPerComponent(expected))
                  /\ \A limit \in 1 .. 3 : SameSources(expected, ClusterProximateSources(expected, limit))
=============================================================================
