------------------------------ MODULE GribFile ------------------------------
(***************************************************************************)
(* How a set of GRIB files becomes the forecasts the viewer shows: the     *)
(* reader keeps the messages it knows, derives gusts and dew points, turns *)
(* accumulations into rates and fills missing fields; GRIBFile then picks  *)
(* one record per field and date.  Everything here is a function of the    *)
(* messages and of the two copy preferences.                               *)
(*                                                                         *)
(* A message is [type, date, tr, p1, p2, sane]: its data type with its     *)
(* level, valid time, time range indicator, start and end of its period    *)
(* (hours), and whether its values are in range.  A record adds where its  *)
(* data comes from: `of`, the date the data was forecast for; `hours`, the *)
(* hours they add up; `per`, the number they were divided by; `exact`,     *)
(* false once data of other hours was subtracted.  All grids have one      *)
(* size, so the memory budget of the reader counts records.                *)
(***************************************************************************)
EXTENDS Integers, FiniteSets, Sequences, SequencesExt

CONSTANT MaxRecords    \* GRIB_MAX_READER_BYTES, in records

ASSUME MaxRecordsAssumption == MaxRecords \in Nat \ {0}

None == [type |-> "none"]

\* The entry of GribRecordSet a data type is shown in; the types without one
\* serve to derive others.
SlotOf == [WIND_DIR |-> "Wx", WIND_VX |-> "Wx", WIND_SPEED |-> "Wy",
           WIND_VY |-> "Wy", CUR_DIR |-> "Cx", UOGRD |-> "Cx",
           CUR_SPEED |-> "Cy", VOGRD |-> "Cy", GUST |-> "Gust",
           PRESSURE_GND |-> "Pressure", PRESSURE_MSL |-> "Pressure",
           HTSGW |-> "Height", WVHGT |-> "Height", PER |-> "Period",
           WVPER |-> "Period", DIR |-> "WaveDir", WVDIR |-> "WaveDir",
           PRECIP_RATE |-> "Precip", PRECIP_TOT |-> "Precip",
           CLOUD_TOT |-> "Cloud", TEMP |-> "Temp"]
Slots == {SlotOf[t] : t \in DOMAIN SlotOf}
Stored == DOMAIN SlotOf \cup {"GUST_VX", "GUST_VY", "HUMID", "DEWPOINT"}

\* The order of the keys "<type>-<level>-<value>" in the reader's map.
KeyOrder == <<"HTSGW", "WVDIR", "WVHGT", "WVPER", "TEMP", "DEWPOINT", "GUST",
              "GUST_VX", "GUST_VY", "PRESSURE_GND", "PRESSURE_MSL", "PER",
              "DIR", "WIND_DIR", "WIND_SPEED", "WIND_VX", "WIND_VY",
              "CUR_DIR", "CUR_SPEED", "UOGRD", "VOGRD", "HUMID",
              "PRECIP_RATE", "PRECIP_TOT", "CLOUD_TOT">>

Message == [type : STRING, date : Nat, tr : Nat, p1 : Nat, p2 : Nat, sane : BOOLEAN]

RecordOf(m) == [type |-> m.type, date |-> m.date, tr |-> m.tr, p1 |-> m.p1,
                p2 |-> m.p2, sane |-> m.sane, of |-> m.date, per |-> 1,
                exact |-> TRUE,
                hours |-> (m.date - (m.p2 - m.p1) + 1)..m.date]

-----------------------------------------------------------------------------
(***************************************************************************)
(* The reader: [recs, ok, limit], recs in the order of their arrival.      *)
(***************************************************************************)
NewReader == [recs |-> <<>>, ok |-> FALSE, limit |-> FALSE]

\* The dates of the records, in a set ordered by time.
Dates(recs) == {recs[i].date : i \in DOMAIN recs}
InOrder(S) == CHOOSE f \in [1..Cardinality(S) -> S] :
                  ToSet(f) = S /\ \A i, j \in DOMAIN f : i < j => f[i] < f[j]

\* The first record of a type and date, 0 if there is none.
IndexOf(recs, type, date) ==
    LET found == {i \in DOMAIN recs : recs[i].type = type /\ recs[i].date = date}
    IN  IF found = {} THEN 0 ELSE CHOOSE i \in found : \A j \in found : i <= j

storeRecordInMap(r, rec) ==
    IF Len(r.recs) >= MaxRecords
    THEN [r EXCEPT !.ok = FALSE, !.limit = TRUE]
    ELSE [r EXCEPT !.recs = Append(@, rec)]

\* One message: a known type makes the file readable, a displayed one is kept.
ReadMessage(r, m) ==
    IF r.limit THEN r
    ELSE IF m.type \in Stored
    THEN storeRecordInMap([r EXCEPT !.ok = TRUE], RecordOf(m))
    ELSE [r EXCEPT !.ok = TRUE]

readAllGribRecords(r, messages) == FoldLeft(ReadMessage, r, messages)

\* For every date with both parts, a record of the type they make.
DeriveAt(r, d, first, second, type) ==
    LET i == IndexOf(r.recs, first, d)
    IN  IF i = 0 \/ IndexOf(r.recs, second, d) = 0 \/ r.limit THEN r
        ELSE storeRecordInMap(r, [r.recs[i] EXCEPT !.type = type])

Derive(r, first, second, type) ==
    FoldLeft(LAMBDA s, d : DeriveAt(s, d, first, second, type),
             r, InOrder(Dates(r.recs)))

Has(r, type) == \E i \in DOMAIN r.recs : r.recs[i].type = type

\* Each derived field is made only if the file has none of its own.
AddGusts(r) ==
    IF r.limit \/ Has(r, "GUST") THEN r ELSE Derive(r, "GUST_VX", "GUST_VY", "GUST")

\* The dew point is stored for every temperature once any humidity is known.
AddDewPoints(r) ==
    IF r.limit \/ Has(r, "DEWPOINT") \/ ~Has(r, "HUMID") THEN r
    ELSE Derive(r, "TEMP", "TEMP", "DEWPOINT")

readGribFileContent(r, messages) ==
    AddDewPoints(AddGusts(readAllGribRecords(r, messages)))

\* A file is one readable message sequence, or <<>> in every compression.
openFile(r, file) ==
    readGribFileContent([r EXCEPT !.ok = FALSE, !.limit = FALSE], file)

-----------------------------------------------------------------------------
(***************************************************************************)
(* Accumulations.  From the last date to the first, each record loses what *)
(* the one before it already counted from the same start, and a sum is     *)
(* divided by the hours that are left.                                     *)
(***************************************************************************)
Minus(p, r) == [p EXCEPT !.hours = @ \ r.hours,
                         !.exact = @ /\ r.exact /\ r.hours \subseteq p.hours
                                     /\ p.tr = r.tr]
Substract(p, r) == Minus(p, r)
\* An average over a period already stands for its hours divided by them.
Average(p, r) == IF p.p2 - p.p1 <= r.p2 - r.p1 THEN p ELSE Minus(p, r)
PerHour(p, h) == [p EXCEPT !.per = @ * h]

\* What of p the record r before it did not count, where that now starts, and
\* the rate it makes over so many hours.
Left(p, r) == IF p.p1 = r.p1 /\ r.tr = 4 THEN Substract(p, r)
              ELSE IF p.p1 = r.p1 /\ r.tr = 3 THEN Average(p, r) ELSE p
LeftFrom(s, p, r) == IF p.p1 = r.p1 /\ r.tr \in {3, 4} THEN r.p2 ELSE s.p1
Rate(p, tr, hours) == IF hours > 0 /\ tr = 4 THEN PerHour(p, hours) ELSE p

\* Fault: what is left of a sum is divided by the hours of the whole.
AccumulateFromStart(s, i) ==
    LET p == s.recs[s.prev]
        r == s.recs[i]
    IN  [recs |-> IF s.prev = 0 THEN s.recs
                  ELSE [s.recs EXCEPT ![s.prev] = Rate(Left(p, r), r.tr, s.p2 - s.p1)],
         prev |-> i, p1 |-> r.p1, p2 |-> r.p2]

Accumulate(s, i) ==
    LET p == s.recs[s.prev]
        r == s.recs[i]
    IN  [recs |-> IF s.prev = 0 THEN s.recs
                  ELSE [s.recs EXCEPT ![s.prev] =
                           Rate(Left(p, r), r.tr, s.p2 - LeftFrom(s, p, r))],
         prev |-> i, p1 |-> r.p1, p2 |-> r.p2]

AccumulateLast(s) ==
    IF s.prev = 0 THEN s.recs
    ELSE [s.recs EXCEPT ![s.prev] = Rate(@, @.tr, s.p2 - s.p1)]

AccumulateAt(s, d, type) ==
    LET i == IndexOf(s.recs, type, d)
    IN  IF i = 0 THEN s ELSE Accumulate(s, i)

AccumulateAll(recs, type) ==
    FoldLeft(LAMBDA s, d : AccumulateAt(s, d, type),
             [recs |-> recs, prev |-> 0, p1 |-> 0, p2 |-> 0],
             Reverse(InOrder(Dates(recs))))

computeAccumulationRecords(r, type) ==
    [r EXCEPT !.recs = AccumulateLast(AccumulateAll(r.recs, type))]

-----------------------------------------------------------------------------
(***************************************************************************)
(* The copies the two preferences ask for.                                 *)
(***************************************************************************)
CopyTo(r, i, d) == storeRecordInMap(r, [r.recs[i] EXCEPT !.date = d])

copyFirstCumulativeRecord(r, type) ==
    LET dates == InOrder(Dates(r.recs))
        having == {d \in Dates(r.recs) : IndexOf(r.recs, type, d) # 0}
    IN  IF having = {} \/ dates[1] \in having THEN r
        ELSE CopyTo(r, IndexOf(r.recs, type, InOrder(having)[1]), dates[1])

\* The first record of this type at the next date, 0 if there is none.
OfNextDate(r, type, d) ==
    LET later == {e \in Dates(r.recs) : e > d}
    IN  IF later = {} THEN 0 ELSE IndexOf(r.recs, type, Min(later))

\* Fault: a date that has a record gets a copy all the same.
CopyEvery(r, type, d) ==
    IF OfNextDate(r, type, d) = 0 THEN r
    ELSE CopyTo(r, OfNextDate(r, type, d), d)

CopyMissing(r, type, d) ==
    IF IndexOf(r.recs, type, d) # 0 \/ OfNextDate(r, type, d) = 0 THEN r
    ELSE CopyTo(r, OfNextDate(r, type, d), d)

copyMissingWaveRecords(r, type) ==
    FoldLeft(LAMBDA s, d : CopyMissing(s, type, d), r, InOrder(Dates(r.recs)))

-----------------------------------------------------------------------------
(***************************************************************************)
(* GRIBFile: one record per entry and date.  The flags are raised by the   *)
(* first record of their kind and never lowered.                           *)
(***************************************************************************)
NoFlags == [wind |-> FALSE, cur |-> FALSE, height |-> FALSE, wave |-> FALSE]

Raise(f, type) == [wind |-> f.wind \/ type \in {"WIND_DIR", "WIND_SPEED"},
                   cur |-> f.cur \/ type \in {"CUR_DIR", "CUR_SPEED"},
                   height |-> f.height \/ type = "HTSGW",
                   wave |-> f.wave \/ type \in {"PER", "DIR"}]

\* Whether the record already there stays.
Keeps(old, f) ==
    IF old.type \in {"PRESSURE_GND", "PRESSURE_MSL"}
    THEN old.type = "PRESSURE_MSL"
    ELSE \/ old.type # "none" /\ old.tr = 3
         \/ f.wind /\ old.type \in {"WIND_VX", "WIND_VY"}
         \/ f.cur /\ old.type \in {"UOGRD", "VOGRD"}
         \/ f.height /\ old.type = "HTSGW"
         \/ f.wave /\ old.type \in {"DIR", "PER"}

Place(s, rec) ==
    IF rec.type \notin DOMAIN SlotOf THEN s
    ELSE LET f == Raise(s.flags, rec.type)
             slot == SlotOf[rec.type]
         IN  [flags |-> f,
              sets |-> IF Keeps(s.sets[rec.date][slot], f) THEN s.sets
                       ELSE [s.sets EXCEPT ![rec.date][slot] = rec]]

\* The records of one key after the other, each in the order of its arrival.
OfKey(recs, key) ==
    FoldLeft(LAMBDA s, rec : IF rec.type = key THEN Append(s, rec) ELSE s,
             <<>>, recs)
ByKey(recs) == FoldLeft(LAMBDA s, key : s \o OfKey(recs, key), <<>>, KeyOrder)

\* Fault: only the first part is replaced by a component.
Polar2U(set, x, y, from, to) ==
    IF set[x].type = from[1] /\ set[y].type = from[2]
    THEN [set EXCEPT ![x].type = to[1]]
    ELSE set

\* Direction and speed become the two components of a vector.
Polar2UV(set, x, y, from, to) ==
    IF set[x].type = from[1] /\ set[y].type = from[2]
    THEN [set EXCEPT ![x].type = to[1], ![y].type = to[2]]
    ELSE set

IsRenderableCurrentRecordPair(u, v) ==
    u # None /\ v # None /\ u.sane /\ v.sane

\* A current is shown only as a pair of components in range.
RejectCurrent(set) ==
    IF IsRenderableCurrentRecordPair(set["Cx"], set["Cy"]) THEN set
    ELSE [set EXCEPT !["Cx"] = None, !["Cy"] = None]

\* What is done to each set once all records are placed.
Finish(set) ==
    RejectCurrent(Polar2UV(Polar2UV(set, "Wx", "Wy",
        <<"WIND_DIR", "WIND_SPEED">>, <<"WIND_VX", "WIND_VY">>),
        "Cx", "Cy", <<"CUR_DIR", "CUR_SPEED">>, <<"UOGRD", "VOGRD">>))

EmptySets(recs) == [d \in Dates(recs) |-> [s \in Slots |-> None]]
PlacedSets(recs) ==
    FoldLeft(Place, [flags |-> NoFlags, sets |-> EmptySets(recs)], ByKey(recs)).sets
RecordSets(recs) == [d \in Dates(recs) |-> Finish(PlacedSets(recs)[d])]

\* Opens the files in turn: all of them, or up to the first readable one.
ReadFile(s, file, newestFile) ==
    LET r == openFile(s.reader, file)
    IN  IF s.reader.limit \/ (s.ok /\ newestFile) THEN s
        ELSE [reader |-> r, ok |-> ~r.limit /\ (s.ok \/ r.ok)]
ReadFiles(files, newestFile) ==
    FoldLeft(LAMBDA s, file : ReadFile(s, file, newestFile),
             [reader |-> NewReader, ok |-> FALSE], files)

AllRates(r) ==
    LET Rates(s, type) == computeAccumulationRecords(s, type)
    IN  Rates(Rates(Rates(r, "PRECIP_TOT"), "PRECIP_RATE"), "CLOUD_TOT")
AllFirst(r, CumRec) ==
    LET First(s, type) == copyFirstCumulativeRecord(s, type)
    IN  IF CumRec THEN First(First(r, "CLOUD_TOT"), "PRECIP_TOT") ELSE r
AllWaves(r, WaveRec) ==
    LET Waves(s, type) == copyMissingWaveRecords(s, type)
    IN  IF ~WaveRec THEN r
        ELSE Waves(Waves(Waves(Waves(Waves(r, "HTSGW"), "WVDIR"), "WVPER"),
                         "DIR"), "PER")

\* The whole load: its record sets by date, and the records they come from.
Loaded(recs) == [ok |-> TRUE, recs |-> recs, sets |-> RecordSets(recs)]
GRIBFile(files, CumRec, WaveRec, newestFile) ==
    LET read == ReadFiles(files, newestFile)
    IN  IF ~read.ok
        THEN [ok |-> FALSE, recs |-> read.reader.recs, sets |-> <<>>]
        ELSE Loaded(AllWaves(AllFirst(AllRates(read.reader), CumRec), WaveRec).recs)

-----------------------------------------------------------------------------
(***************************************************************************)
(* What a load promises, for the files it was given.                       *)
(***************************************************************************)
\* The files a load reads, the ones after the first readable file as empty ones
\* where that is enough.
FilesRead(files, newestFile) ==
    [k \in DOMAIN files |->
        IF newestFile /\ \E j \in 1..(k - 1) : files[j] # <<>> THEN <<>> ELSE files[k]]

\* The messages of the files that are kept.
Kept(files) == {m \in UNION {ToSet(f) : f \in ToSet(files)} : m.type \in Stored}

\* One record per type and date, and periods that are counted from the start of
\* the same run: what one model run delivers.
OneRun(files) ==
    /\ \A m, n \in Kept(files) : m.type = n.type /\ m.date = n.date => m = n
    /\ \A m, n \in Kept(files) : m.type = n.type => m.tr = n.tr
    /\ \A m, n \in Kept(files) : m.date - m.p2 = n.date - n.p2
    /\ \A m \in Kept(files) : m.p1 <= m.p2
    /\ \A f, g \in DOMAIN files : f # g => ToSet(files[f]) \cap ToSet(files[g]) = {}
    /\ \A f \in DOMAIN files : IsInjective(files[f])

\* Every precipitation shown is a mean over a period that ends at the date it
\* was forecast for, never a sum, and never mixes in data of other hours.
RatesAreMeans(files, load) ==
    OneRun(files) =>
        \A d \in DOMAIN load.sets :
            LET r == load.sets[d]["Precip"]
            IN  r # None /\ r.tr = 4 =>
                  /\ r.exact
                  /\ r.hours # {} => /\ r.per = Cardinality(r.hours)
                                     /\ r.of \in r.hours

\* The files read are shown whole or refused: within the memory
\* budget every message that is kept has its record, and beyond it nothing is
\* shown.
AllOrNothing(files, load) ==
    /\ Len(load.recs) <= MaxRecords
    /\ load.ok =>
          \A m \in Kept(files) : IndexOf(load.recs, m.type, m.date) # 0
    /\ ~load.ok => load.sets = <<>>

\* The two parts of a vector, in each of the forms it comes in.
Pairs == {<<"WIND_DIR", "WIND_SPEED">>, <<"WIND_VX", "WIND_VY">>,
          <<"CUR_DIR", "CUR_SPEED">>, <<"UOGRD", "VOGRD">>}
WholePairs(files) ==
    \A p \in Pairs, m \in Kept(files), i \in 1..2 : m.type = p[i] =>
        \E n \in Kept(files) : /\ n.type = p[3 - i] /\ n.date = m.date
                              /\ n.tr = m.tr

\* If the files have both parts of every vector, what is drawn as one is a
\* pair of components, whatever forms the files mix.
VectorsWhole(files, load) ==
    WholePairs(files) =>
        \A d \in DOMAIN load.sets :
            LET Drawn(x, y) == <<load.sets[d][x].type, load.sets[d][y].type>>
            IN  /\ Drawn("Wx", "Wy") \in {<<"none", "none">>, <<"WIND_VX", "WIND_VY">>}
                /\ Drawn("Cx", "Cy") \in {<<"none", "none">>, <<"UOGRD", "VOGRD">>}

\* A copy only fills a gap: where the files read have a forecast for a date and
\* entry, of one type for that entry throughout, that forecast is shown.
OwnForecastShown(files, load) ==
    \A m \in Kept(files) :
        /\ m.date \in DOMAIN load.sets
        /\ m.type \in {t \in DOMAIN SlotOf : SlotOf[t] \notin {"Cx", "Cy"}}
        /\ \A n \in Kept(files) : n.type \in DOMAIN SlotOf =>
              (SlotOf[n.type] = SlotOf[m.type] => n.type = m.type)
        => load.sets[m.date][SlotOf[m.type]].of = m.date
=============================================================================
