---------------------------- MODULE ViewerProofs ----------------------------
(***************************************************************************)
(* Theorems about Viewer, for any files, any step table and any clock.     *)
(***************************************************************************)
EXTENDS Viewer, GribFileProofs, TLAPS, NaturalsInduction, WellFoundedInduction,
        FiniteSetTheorems

BarFields == {"file", "set", "sel", "count", "stale", "shifted", "saved", "val",
    "max", "hours", "interpMode", "nowMode", "opts", "start", "idx", "ready",
    "playing", "hurt", "crash"}

\* A control bar has its members.
IsBar(b) == DOMAIN b = BarFields

\* The members the theorem is about are as they were.
Same(c, b) == /\ IsBar(c)
              /\ c.file = b.file /\ c.set = b.set /\ c.crash = b.crash

\* What a usable bar shows is of its file.
Shown(b) == IsBar(b) /\ (b.crash = "no" /\ Usable(b) => b.set.gen = b.file.gen)

-----------------------------------------------------------------------------
(***************************************************************************)
(* The functions that leave the file and the record set alone.             *)
(***************************************************************************)
LEMMA NewBarIsBar == ASSUME NEW b PROVE IsBar(NewBar(b)) /\ NewBar(b).crash = "no"
  BY DEF NewBar, IsBar, BarFields

LEMMA CrashBar ==
  ASSUME NEW b, IsBar(b), NEW why
  PROVE  /\ IsBar(Crash(b, why)) /\ Crash(b, why).crash = why
         /\ Crash(b, why).file = b.file
  BY DEF Crash, IsBar, BarFields

LEMMA SetValueSame ==
  ASSUME NEW b, IsBar(b), NEW n
  PROVE  Same(SetValue(b, n), b)
  BY DEF SetValue, Same, IsBar, BarFields

LEMMA SetMaxSame ==
  ASSUME NEW b, IsBar(b), NEW n
  PROVE  Same(SetMax(b, n), b)
  BY DEF SetMax, Same, IsBar, BarFields

LEMMA SetSelectionSame ==
  ASSUME NEW b, IsBar(b), NEW n
  PROVE  Same(SetSelection(b, n), b)
  BY DEF SetSelection, Same, IsBar, BarFields

LEMMA RestaureSame ==
  ASSUME NEW b, IsBar(b)
  PROVE  Same(RestaureSelectionString(b), b)
  BY DEF RestaureSelectionString, Same, IsBar, BarFields

LEMMA ShowTimeLabelSame ==
  ASSUME NEW b, IsBar(b)
  PROVE  Same(ShowTimeLabel(b), b)
  BY DEF ShowTimeLabel, Same, IsBar, BarFields

LEMMA StopPlayBackSame ==
  ASSUME NEW b, IsBar(b)
  PROVE  Same(StopPlayBack(b), b)
  BY DEF StopPlayBack, Same, IsBar, BarFields

LEMMA AtRecordSame ==
  ASSUME NEW b, IsBar(b), NEW i
  PROVE  Same(AtRecord(b, i), b)
<1> DEFINE c == [b EXCEPT !.nowMode = FALSE, !.interpMode = FALSE]
<1>1. Same(c, b)
  BY DEF Same, IsBar, BarFields
<1> HIDE DEF c
<1>2. Same(SetSelection(c, i), c)
  BY <1>1, SetSelectionSame DEF Same
<1> QED
  BY <1>1, <1>2 DEF Same, AtRecord, c

LEMMA PopulateSame ==
  ASSUME NEW b, IsBar(b)
  PROVE  Same(PopulateComboDataList(b), b)
<1> DEFINE filled == [b EXCEPT !.count = Len(Times(b)), !.stale = {}, !.shifted = {}]
           i == IF b.count > 0 THEN b.sel ELSE 0
<1>1. Same(filled, b)
  BY DEF Same, IsBar, BarFields
<1>2. PopulateComboDataList(b) = SetSelection(filled, i)
  BY DEF PopulateComboDataList
<1> HIDE DEF filled, i
<1>3. Same(SetSelection(filled, i), filled)
  BY <1>1, SetSelectionSame DEF Same
<1> QED
  BY <1>1, <1>2, <1>3 DEF Same

LEMMA OutdatedSame ==
  ASSUME NEW b, IsBar(b)
  PROVE  Same(Outdated(b), b)
  BY DEF Outdated, Same, IsBar, BarFields

-----------------------------------------------------------------------------
(***************************************************************************)
(* The functions that compute a new record set.                            *)
(***************************************************************************)
LEMMA SetAtShown ==
  ASSUME NEW b, IsBar(b), NEW time
  PROVE  /\ IsBar(SetAt(b, time)) /\ SetAt(b, time).file = b.file
         /\ SetAt(b, time).crash = b.crash
         /\ SetAt(b, time).set.gen = b.file.gen
  BY DEF SetAt, IsBar, BarFields

LEMMA SameShown ==
  ASSUME NEW b, NEW c, Same(c, b), Shown(b)
  PROVE  Shown(c)
  BY DEF Same, Shown, Usable

LEMMA ShowTimeShown ==
  ASSUME NEW b, Shown(b), NEW time
  PROVE  /\ Shown(ShowTime(b, time)) /\ ShowTime(b, time).file = b.file
<1> DEFINE selected == SetSelection(b, GetNearestIndex(b, time, 2))
<1>1. Same(selected, b)
  BY SetSelectionSame DEF Shown
<1>2. ShowTime(b, time) = ShowTimeLabel(selected)
  BY DEF ShowTime
<1> HIDE DEF selected
<1>3. Same(ShowTimeLabel(selected), selected)
  BY <1>1, ShowTimeLabelSame DEF Same
<1> QED
  BY <1>1, <1>2, <1>3, SameShown DEF Same

LEMMA ShowRecordShown ==
  ASSUME NEW b, Shown(b)
  PROVE  /\ Shown(ShowRecord(b)) /\ ShowRecord(b).file = b.file
<1> DEFINE value == IF b.opts.interp
                    THEN (Times(b)[b.sel + 1] - MinTime(b)) \div Step(b)
                    ELSE b.sel
           out == b.sel \notin 0..(Len(Times(b)) - 1)
<1>1. ShowRecord(b) = IF out THEN Crash(b, "index") ELSE SetValue(b, value)
  BY DEF ShowRecord
<1> HIDE DEF value, out
<1>2. Shown(Crash(b, "index")) /\ Crash(b, "index").file = b.file
  BY CrashBar DEF Shown
<1>3. Shown(SetValue(b, value)) /\ SetValue(b, value).file = b.file
  <2>1. Same(SetValue(b, value), b)
    BY SetValueSame DEF Shown
  <2> QED
    BY <2>1, SameShown DEF Same
<1> QED
  BY <1>1, <1>2, <1>3

\* Whatever it starts from, TimelineChanged leaves a set of the file that is
\* open, or none that could be shown.
LEMMA TimelineChangedShown ==
  ASSUME NEW b, IsBar(b)
  PROVE  /\ Shown(TimelineChanged(b)) /\ TimelineChanged(b).file = b.file
         /\ ~Usable(b) => TimelineChanged(b) = b
<1> DEFINE time == TimelineTime(b)
           put == RestaureSelectionString(b)
           set == SetAt(put, time)
           table == (b.interpMode \/ b.opts.interp) /\ ~HasStep(b)
<1>1. TimelineChanged(b) =
        IF ~Usable(b) THEN b
        ELSE IF table THEN Crash(b, "table")
        ELSE IF b.interpMode THEN ShowTime(set, time) ELSE ShowRecord(set)
  BY DEF TimelineChanged
<1>2. Same(put, b)
  BY RestaureSame
<1> HIDE DEF put, time, table
<1>3. Shown(set) /\ set.file = b.file
  BY <1>2, SetAtShown DEF Same, Shown
<1> HIDE DEF set
<1>4. Shown(ShowTime(set, time)) /\ ShowTime(set, time).file = b.file
  BY <1>3, ShowTimeShown
<1>5. Shown(ShowRecord(set)) /\ ShowRecord(set).file = b.file
  BY <1>3, ShowRecordShown
<1>6. Shown(Crash(b, "table")) /\ Crash(b, "table").file = b.file
  BY CrashBar DEF Shown
<1>7. ~Usable(b) => Shown(b)
  BY DEF Shown
<1> QED
  BY <1>1, <1>4, <1>5, <1>6, <1>7

LEMMA PlaceAtSame ==
  ASSUME NEW b, IsBar(b), NEW time
  PROVE  Same(PlaceAt(b, time), b)
<1> DEFINE index == SetSelection(b, GetNearestIndex(b, time, 0))
           value == SetValue(b, GetNearestValue(b, time, 0))
<1>1. PlaceAt(b, time) = IF b.opts.interp THEN value ELSE SetValue(index, index.sel)
  BY DEF PlaceAt
<1>2. Same(index, b) /\ Same(value, b)
  BY SetValueSame, SetSelectionSame
<1> HIDE DEF index, value
<1>3. Same(SetValue(index, index.sel), index)
  BY <1>2, SetValueSame DEF Same
<1> QED
  BY <1>1, <1>2, <1>3 DEF Same

LEMMA ShowAroundShown ==
  ASSUME NEW b, IsBar(b), NEW time
  PROVE  /\ Shown(ShowAround(b, time)) /\ ShowAround(b, time).file = b.file
<1> DEFINE at == SetAt(b, time)
           put == RestaureSelectionString(at)
           start == [b EXCEPT !.interpMode = b.opts.interp]
           set == [put EXCEPT !.interpMode = TRUE, !.nowMode = TRUE]
<1>1. ShowAround(b, time) =
        IF b.start # 2 THEN TimelineChanged(start) ELSE ShowTime(set, time)
  BY DEF ShowAround
<1>2. Same(start, b)
  BY DEF Same, IsBar, BarFields
<1> HIDE DEF start
<1>3. Shown(TimelineChanged(start)) /\ TimelineChanged(start).file = b.file
  BY <1>2, TimelineChangedShown DEF Same
<1>4. IsBar(at) /\ at.file = b.file /\ Shown(at)
  BY SetAtShown DEF Shown
<1> HIDE DEF at
<1>5. Same(put, at)
  BY <1>4, RestaureSame
<1> HIDE DEF put
<1>6. Same(set, put)
  BY <1>5 DEF Same, IsBar, BarFields
<1> HIDE DEF set
<1>7. Shown(set) /\ set.file = b.file
  BY <1>4, <1>5, <1>6, SameShown DEF Same
<1>8. Shown(ShowTime(set, time)) /\ ShowTime(set, time).file = b.file
  BY <1>7, ShowTimeShown
<1> QED
  BY <1>1, <1>3, <1>8

LEMMA ComputeBestForecastForNowShown ==
  ASSUME NEW b, IsBar(b)
  PROVE  /\ Shown(ComputeBestForecastForNow(b))
         /\ ComputeBestForecastForNow(b).file = b.file
         /\ ~Usable(b) => ComputeBestForecastForNow(b) = b
<1> DEFINE time == GetNow(b)
           placed == PlaceAt(b, time)
           table == b.opts.interp /\ b.hours # 0 /\ ~HasStep(b)
<1>1. ComputeBestForecastForNow(b) =
        IF ~Usable(b) THEN b
        ELSE IF table THEN Crash(b, "table") ELSE ShowAround(placed, time)
  BY DEF ComputeBestForecastForNow
<1>2. Same(placed, b)
  BY PlaceAtSame
<1> HIDE DEF placed, table, time
<1>3. Shown(ShowAround(placed, time)) /\ ShowAround(placed, time).file = b.file
  BY <1>2, ShowAroundShown DEF Same
<1>4. Shown(Crash(b, "table")) /\ Crash(b, "table").file = b.file
  BY CrashBar DEF Shown
<1>5. ~Usable(b) => Shown(b)
  BY DEF Shown
<1> QED
  BY <1>1, <1>3, <1>4, <1>5

\* Without a usable file the range changes and nothing else that matters.
LEMMA SetTimeLineMaxFrame ==
  ASSUME NEW b, IsBar(b), NEW keep
  PROVE  LET c == SetTimeLineMax(b, keep)
         IN  /\ IsBar(c) /\ c.file = b.file
             /\ ~Usable(b) /\ c.crash = "no" => Same(c, b)
<1> DEFINE oldmax == IF b.max > 1 THEN b.max ELSE 1
           span == SetMax(b, b.hours \div Step(b))
           len == SetMax(b, Len(Times(b)) - 1)
           ranged == IF b.opts.interp THEN span
                     ELSE IF Usable(b) THEN len ELSE b
           n == (ranged.max * b.val) \div oldmax
           table == b.opts.interp /\ ~HasStep(b)
           stay == ~keep \/ ranged.max = 0
<1>1. SetTimeLineMax(b, keep) =
        IF table THEN Crash(b, "table")
        ELSE IF stay THEN ranged
        ELSE IF b.nowMode THEN ComputeBestForecastForNow(ranged)
        ELSE SetValue(ranged, n)
  BY DEF SetTimeLineMax
<1>2. Same(span, b) /\ Same(len, b) /\ Same(b, b)
  BY SetMaxSame DEF Same
<1> HIDE DEF span, len
<1>3. Same(ranged, b)
  BY <1>2
<1> HIDE DEF ranged, n, table, stay
<1>4. IsBar(ranged) /\ ranged.file = b.file /\ (Usable(ranged) <=> Usable(b))
  BY <1>3 DEF Same, Usable
<1>5. /\ IsBar(ComputeBestForecastForNow(ranged))
      /\ ComputeBestForecastForNow(ranged).file = b.file
      /\ ~Usable(b) => Same(ComputeBestForecastForNow(ranged), b)
  BY <1>3, <1>4, ComputeBestForecastForNowShown DEF Shown
<1>6. Same(SetValue(ranged, n), b)
  BY <1>3, <1>4, SetValueSame DEF Same
<1>7. IsBar(Crash(b, "table")) /\ Crash(b, "table").file = b.file
      /\ Crash(b, "table").crash = "table"
  BY CrashBar
<1>8. /\ IsBar(SetTimeLineMax(b, keep)) /\ SetTimeLineMax(b, keep).file = b.file
      /\ ~Usable(b) /\ SetTimeLineMax(b, keep).crash = "no"
            => Same(SetTimeLineMax(b, keep), b)
  BY <1>1, <1>3, <1>4, <1>5, <1>6, <1>7 DEF Same
<1> QED
  BY <1>8

-----------------------------------------------------------------------------
(***************************************************************************)
(* Opening a file, and reading it again.                                   *)
(***************************************************************************)
LEMMA OpenedBar ==
  ASSUME NEW b, NEW load, NEW gen
  PROVE  IsBar(Opened(b, load, gen))
<1> DEFINE times == DatesRead(load)
           new == NewBar(b)
           cleared == [new EXCEPT !.idx = b.opts.slices, !.max = b.max,
                                  !.playing = b.playing]
           file == [cleared EXCEPT
                       !.file = [gen |-> gen, ok |-> TRUE, times |-> times]]
           listed == PopulateComboDataList(file)
<1>1. Opened(b, load, gen) = IF times = <<>> THEN cleared ELSE Interval(listed)
  BY DEF Opened
<1>2. IsBar(new)
  BY NewBarIsBar
<1> HIDE DEF new
<1>3. IsBar(cleared)
  BY <1>2 DEF IsBar, BarFields
<1> HIDE DEF cleared, times
<1>4. IsBar(file)
  BY <1>3 DEF IsBar, BarFields
<1> HIDE DEF file
<1>5. IsBar(listed)
  BY <1>4, PopulateSame DEF Same
<1> HIDE DEF listed
<1>6. IsBar(Interval(listed))
  <2> DEFINE c == listed
             long == [c EXCEPT !.hurt = @ \cup {"long"}]
             idx == FileInterval(Times(c))
             ranged == [c EXCEPT !.hours = LastTime(c) - MinTime(c), !.idx = idx,
                                 !.opts.slices = IF @ > idx THEN idx ELSE @]
             short == Len(Times(c)) < 2
             over == 2 * StepTable[Len(StepTable)] <= Times(c)[2] - MinTime(c)
  <2>1. Interval(c) = IF short THEN c ELSE IF over THEN Crash(long, "table") ELSE ranged
    BY DEF Interval
  <2>2. IsBar(long)
    BY <1>5 DEF IsBar, BarFields
  <2> HIDE DEF idx
  <2>3. IsBar(ranged)
    BY <1>5 DEF IsBar, BarFields
  <2> HIDE DEF long, ranged, short, over
  <2>4. IsBar(Crash(long, "table"))
    BY <2>2, CrashBar
  <2> QED
    BY <1>5, <2>1, <2>3, <2>4
<1> QED
  BY <1>1, <1>3, <1>6

LEMMA ShowOpenedShown ==
  ASSUME NEW b, IsBar(b)
  PROVE  Shown(ShowOpened(b))
<1> DEFINE near == b.start # 0 /\ b.hours # 0
           c == IF near THEN ComputeBestForecastForNow(b) ELSE TimelineChanged(b)
<1>1. ShowOpened(b) = IF b.crash # "no" THEN b ELSE EnableButtons(c)
  BY DEF ShowOpened
<1>2. Shown(c)
  BY ComputeBestForecastForNowShown, TimelineChangedShown
<1> HIDE DEF c
<1>3. Same(EnableButtons(c), c)
  BY <1>2 DEF EnableButtons, Shown, Same, IsBar, BarFields
<1>4. Shown(EnableButtons(c))
  BY <1>2, <1>3, SameShown
<1> QED
  BY <1>1, <1>4 DEF Shown

\* Whatever the files hold, and whatever is shown now.
LEMMA OpenFileShown ==
  ASSUME NEW b, NEW load, NEW gen
  PROVE  Shown(OpenFile(b, load, gen))
<1> DEFINE opened == Opened(b, load, gen)
           ranged == SetTimeLineMax(opened, FALSE)
<1>1. OpenFile(b, load, gen) =
        IF opened.crash # "no" THEN opened ELSE ShowOpened(ranged)
  BY DEF OpenFile
<1>2. IsBar(opened)
  BY OpenedBar
<1> HIDE DEF opened
<1>3. IsBar(ranged)
  BY <1>2, SetTimeLineMaxFrame
<1> HIDE DEF ranged
<1>4. Shown(ShowOpened(ranged))
  BY <1>3, ShowOpenedShown
<1> QED
  BY <1>1, <1>2, <1>4 DEF Shown

LEMMA RereadShown ==
  ASSUME NEW b, IsBar(b), NEW dates
  PROVE  Shown(Reread(b, dates))
<1> DEFINE file == IF b.file.ok
                   THEN [gen |-> opens + changes + 1, ok |-> dates # <<>>,
                         times |-> dates]
                   ELSE b.file
           hurt == b.hurt \cup (IF dates = Times(b) THEN {}
                                ELSE IF dates = <<>> THEN {"gone"} ELSE {"changed"})
           read == [b EXCEPT !.file = file, !.hurt = hurt]
           listed == PopulateComboDataList(read)
<1>1. Reread(b, dates) = IF b.file = NoFile THEN Crash(b, "null") ELSE TimelineChanged(listed)
  BY DEF Reread
<1> HIDE DEF file, hurt
<1>2. IsBar(read)
  BY DEF IsBar, BarFields
<1> HIDE DEF read
<1>3. IsBar(listed)
  BY <1>2, PopulateSame DEF Same
<1> HIDE DEF listed
<1>4. Shown(TimelineChanged(listed))
  BY <1>3, TimelineChangedShown
<1>5. Shown(Crash(b, "null"))
  BY CrashBar DEF Shown
<1> QED
  BY <1>1, <1>4, <1>5

LEMMA AdvanceShown ==
  ASSUME NEW b, IsBar(b)
  PROVE  Shown(Advance(b))
<1> DEFINE from == IF ~b.nowMode THEN b.val
                   ELSE IF b.opts.interp THEN GetNearestValue(b, GetNow(b), 1)
                   ELSE GetNearestIndex(b, GetNow(b), 2)
           at == SetValue(b, IF b.val >= b.max THEN 0 ELSE from + 1)
           moved == [at EXCEPT !.nowMode = FALSE]
           picked == SetSelection(moved, moved.val)
           to == IF b.interpMode THEN moved ELSE picked
           lost == b.nowMode /\ ~Usable(b) /\ b.val < b.max
<1>1. Advance(b) = IF lost THEN Crash(b, "index") ELSE TimelineChanged(to)
  BY DEF Advance
<1> HIDE DEF from, lost
<1>2. IsBar(at)
  BY SetValueSame DEF Same
<1> HIDE DEF at
<1>3. IsBar(moved)
  BY <1>2 DEF IsBar, BarFields
<1> HIDE DEF moved
<1>4. IsBar(picked)
  BY <1>3, SetSelectionSame DEF Same
<1> HIDE DEF picked
<1>5. Shown(TimelineChanged(to)) /\ Shown(Crash(b, "index"))
  BY <1>3, <1>4, TimelineChangedShown, CrashBar DEF Shown
<1> QED
  BY <1>1, <1>5

-----------------------------------------------------------------------------
(***************************************************************************)
(* What the factory draws.  An event either shows what it leaves behind,   *)
(* or leaves file and set alone, or the program is gone.                   *)
(***************************************************************************)
Inv == IsBar(bar) /\ NoDangling

Untouched(c) == IsBar(c) /\ (c.crash = "no" => Same(c, bar))

LEMMA ShowStep ==
  ASSUME NEW c, Shown(c), Show(c)
  PROVE  Inv'
  BY DEF Inv, Shown, Show, NoDangling, Usable, NoSet

LEMMA KeepStep ==
  ASSUME NEW c, Inv, view # "none", bar.crash = "no", Untouched(c), Keep(c)
  PROVE  Inv'
  BY DEF Inv, Untouched, Keep, Same, NoDangling, NoSet

LEMMA BarIsShown ==
  ASSUME NEW c, Same(c, bar), IsBar(bar)
  PROVE  Untouched(c)
  BY DEF Same, Untouched

LEMMA OpenAnyFileStep ==
  ASSUME NEW b, NEW load, OpenAnyFile(b, load)
  PROVE  Inv'
  BY OpenFileShown, ShowStep DEF OpenAnyFile

LEMMA OpenLaterStep ==
  ASSUME NEW b, NEW new, OpenLater(b, new)
  PROVE  Inv'
<1>1. PICK k \in LaterFiles :
        OpenAnyFile(b, [files |-> k, cum |-> TRUE, wave |-> TRUE, newest |-> new])
  BY DEF OpenLater
<1> QED
  BY <1>1, OpenAnyFileStep

\* Without a usable file nothing is shown anew, and nothing is lost.
LEMMA RefreshStep ==
  ASSUME NEW b, Inv, view # "none", bar.crash = "no", IsBar(b),
         ~Usable(b) => Untouched(b), RefreshTimeZoneDisplay(b)
  PROVE  Inv'
<1>1. CASE ~Usable(b)
  BY <1>1, KeepStep DEF RefreshTimeZoneDisplay
<1>2. CASE Usable(b)
  <2> DEFINE listed == PopulateComboDataList(b)
  <2>1. IsBar(listed)
    BY PopulateSame DEF Same
  <2>2. Show(TimelineChanged(listed))
    BY <1>2 DEF RefreshTimeZoneDisplay
  <2> HIDE DEF listed
  <2>3. Shown(TimelineChanged(listed))
    BY <2>1, TimelineChangedShown
  <2> QED
    BY <2>2, <2>3, ShowStep
<1> QED
  BY <1>1, <1>2

LEMMA CloseSettingsStep ==
  ASSUME NEW b, Same(b, bar), NEW o, Inv, view # "none", bar.crash = "no",
         CloseSettings(b, o)
  PROVE  Inv'
<1> DEFINE chosen == [b EXCEPT !.opts = o, !.interpMode = @ /\ o.interp]
           ranged == SetTimeLineMax(chosen, TRUE)
<1>1. Same(chosen, b)
  BY DEF Same, IsBar, BarFields
<1>2. RefreshUnlessCrashed(ranged)
  BY DEF CloseSettings
<1> HIDE DEF chosen
<1>3. /\ IsBar(ranged) /\ ranged.file = chosen.file
      /\ ~Usable(chosen) /\ ranged.crash = "no" => Same(ranged, chosen)
  BY <1>1, SetTimeLineMaxFrame DEF Same
<1> HIDE DEF ranged
<1>4. ~Usable(ranged) => Untouched(ranged)
  BY <1>1, <1>3 DEF Untouched, Same, Usable
<1>5. CASE ranged.crash # "no"
  BY <1>2, <1>3, <1>5, KeepStep DEF RefreshUnlessCrashed, Untouched
<1>6. CASE ranged.crash = "no"
  BY <1>2, <1>3, <1>4, <1>6, RefreshStep DEF RefreshUnlessCrashed
<1> QED
  BY <1>5, <1>6

-----------------------------------------------------------------------------
LEMMA InitInv == Init => Inv
<1> SUFFICES ASSUME Init PROVE Inv
  OBVIOUS
<1>1. PICK o \in StartOptions :
        bar = NewBar([opts |-> o.opts, start |-> o.start, hurt |-> {}])
  BY DEF Init
<1>2. IsBar(bar)
  BY <1>1, NewBarIsBar
<1> QED
  BY <1>2 DEF Init, Inv, NoDangling

LEMMA NextInv == Inv /\ [Next]_vars => Inv'
<1> SUFFICES ASSUME Inv, [Next]_vars PROVE Inv'
  OBVIOUS
<1> USE DEF Idle, Alive
<1>1. IsBar(bar) /\ Same(bar, bar) /\ Untouched(bar)
  BY DEF Inv, Same, Untouched
<1>2. Same(StopPlayBack(bar), bar) /\ Same(RestaureSelectionString(bar), bar)
  BY <1>1, StopPlayBackSame, RestaureSame
<1>3. CASE MakeBar
  <2> DEFINE b == NewBar([bar EXCEPT !.opts = stored])
  <2>1. CASE \E new \in BOOLEAN : OpenLater(b, new)
    BY <2>1, OpenLaterStep
  <2>2. CASE \E l \in Loads : OpenAnyFile(b, l) /\ loaded' = l
    BY <2>2, OpenAnyFileStep
  <2> QED
    BY <1>3, <2>1, <2>2 DEF MakeBar
<1>4. CASE OnToolbarToolCallback
  <2>1. CASE OpenLater(bar, TRUE)
    BY <2>1, OpenLaterStep
  <2>2. CASE Keep(bar)
    BY <1>1, <1>4, <2>2, KeepStep DEF OnToolbarToolCallback
  <2> QED
    BY <1>4, <2>1, <2>2 DEF OnToolbarToolCallback
<1>5. CASE OnClose
  <2>1. CASE Keep(StopPlayBack(bar))
    BY <1>1, <1>2, <1>5, <2>1, BarIsShown, KeepStep DEF OnClose
  <2>2. CASE view' = "none" /\ Keep(NewBar(bar))
    BY <2>2, NewBarIsBar DEF Keep, Inv, NoDangling
  <2> QED
    BY <1>5, <2>1, <2>2 DEF OnClose
<1>6. CASE OnOpenFile
  BY <1>6, OpenLaterStep DEF OnOpenFile
<1>7. CASE OpenGeneratedGrib
  <2> DEFINE b == [bar EXCEPT !.hurt = IF bar.playing \/ modal.open
                                       THEN @ \cup {"busy"} ELSE @]
  <2>1. OpenLater(b, FALSE)
    BY <1>7 DEF OpenGeneratedGrib
  <2> QED
    BY <2>1, OpenLaterStep
<1>8. CASE OnPlayStop
  <2> DEFINE b == [bar EXCEPT !.playing = TRUE, !.interpMode = bar.opts.interp]
  <2>1. Same(b, bar)
    BY <1>1 DEF Same, IsBar, BarFields
  <2>2. Keep(StopPlayBack(bar)) \/ Keep(b)
    BY <1>8 DEF OnPlayStop
  <2> HIDE DEF b
  <2> QED
    BY <1>1, <1>2, <1>8, <2>1, <2>2, BarIsShown, KeepStep DEF OnPlayStop
<1>9. CASE OnPlayStopTimer
  <2>1. Shown(Advance(bar))
    BY <1>1, AdvanceShown
  <2> DEFINE b == ComputeBestForecastForNow(bar)
             c == IF b.val >= b.max THEN StopPlayBack(b) ELSE b
  <2>2. Shown(b)
    BY <1>1, ComputeBestForecastForNowShown
  <2>3. Show(Advance(bar)) \/ Show(c) \/ Keep(StopPlayBack(bar))
    BY <1>9 DEF OnPlayStopTimer
  <2> HIDE DEF b
  <2>4. Shown(c)
    <3>1. Same(StopPlayBack(b), b)
      BY <2>2, StopPlayBackSame DEF Shown
    <3> QED
      BY <2>2, <3>1, SameShown
  <2> HIDE DEF c
  <2>5. CASE Keep(StopPlayBack(bar))
    BY <1>1, <1>2, <1>9, <2>5, BarIsShown, KeepStep DEF OnPlayStopTimer
  <2> QED
    BY <2>1, <2>3, <2>4, <2>5, ShowStep
<1>10. CASE OnPrev
  <2> DEFINE b == RestaureSelectionString(bar)
             i == FromTime(b, 1)
             to == AtRecord(b, IF i < 1 THEN 0 ELSE i - 1)
  <2>1. Show(IF Lost(b) THEN Crash(b, "index") ELSE TimelineChanged(to))
    BY <1>10 DEF OnPrev
  <2>2. IsBar(b)
    BY <1>2 DEF Same
  <2> HIDE DEF b, i
  <2>3. IsBar(to)
    BY <2>2, AtRecordSame DEF Same
  <2> HIDE DEF to
  <2>4. Shown(TimelineChanged(to)) /\ Shown(Crash(b, "index"))
    BY <2>2, <2>3, TimelineChangedShown, CrashBar DEF Shown
  <2> QED
    BY <2>1, <2>4, ShowStep
<1>11. CASE OnNext
  <2> DEFINE b == RestaureSelectionString(bar)
             i == FromTime(b, 2)
             at == AtRecord(b, i)
             to == AtRecord(at, i + 1)
  <2>1. Keep(Crash(b, "index")) \/ Keep(at) \/ Show(TimelineChanged(to))
    BY <1>11 DEF OnNext
  <2>2. Same(b, bar) /\ IsBar(b)
    BY <1>2 DEF Same
  <2> HIDE DEF b, i
  <2>3. Same(at, b)
    BY <2>2, AtRecordSame
  <2> HIDE DEF at
  <2>4. IsBar(to)
    BY <2>3, AtRecordSame DEF Same
  <2> HIDE DEF to
  <2>5. Shown(TimelineChanged(to))
    BY <2>4, TimelineChangedShown
  <2>6. Untouched(at) /\ Untouched(Crash(b, "index"))
    BY <2>2, <2>3, CrashBar DEF Same, Untouched
  <2> QED
    BY <1>11, <2>1, <2>5, <2>6, ShowStep, KeepStep DEF OnNext
<1>12. CASE OnTimeline
  <2>1. PICK v \in 0..bar.max :
          LET b == [SetValue(StopPlayBack(bar), v) EXCEPT
                       !.interpMode = bar.opts.interp, !.nowMode = FALSE]
          IN  Show(TimelineChanged(IF b.interpMode THEN b ELSE SetSelection(b, v)))
    BY <1>12 DEF OnTimeline
  <2> DEFINE at == SetValue(StopPlayBack(bar), v)
             b == [at EXCEPT !.interpMode = bar.opts.interp, !.nowMode = FALSE]
             to == IF b.interpMode THEN b ELSE SetSelection(b, v)
  <2>2. Show(TimelineChanged(to))
    BY <2>1
  <2>3. IsBar(at)
    BY <1>2, SetValueSame DEF Same
  <2> HIDE DEF at
  <2>4. IsBar(b)
    BY <2>3 DEF IsBar, BarFields
  <2> HIDE DEF b
  <2>5. IsBar(to)
    BY <2>4, SetSelectionSame DEF Same
  <2> HIDE DEF to
  <2> QED
    BY <2>2, <2>5, TimelineChangedShown, ShowStep
<1>13. CASE OnRecordForecast
  <2>1. PICK i \in 0..(bar.count - 1) :
          Show(TimelineChanged(AtRecord(StopPlayBack(bar), i)))
    BY <1>13 DEF OnRecordForecast
  <2>2. IsBar(AtRecord(StopPlayBack(bar), i))
    BY <1>2, AtRecordSame DEF Same
  <2> QED
    BY <2>1, <2>2, TimelineChangedShown, ShowStep
<1>14. CASE OnNow
  <2>1. IsBar(StopPlayBack(bar)) /\ Show(ComputeBestForecastForNow(StopPlayBack(bar)))
    BY <1>2, <1>14 DEF OnNow, Same
  <2> QED
    BY <2>1, ComputeBestForecastForNowShown, ShowStep
<1>15. CASE OpenSettings
  BY <1>1, <1>15, KeepStep DEF OpenSettings
<1>16. CASE OnApply
  <2>1. PICK o \in Chosen :
          LET b == [bar EXCEPT !.opts = o]
          IN  RefreshTimeZoneDisplay(b) \/ RefreshTimeZoneDisplay(Outdated(b))
    BY <1>16 DEF OnApply
  <2> DEFINE b == [bar EXCEPT !.opts = o]
  <2>2. Same(b, bar)
    BY <1>1 DEF Same, IsBar, BarFields
  <2>3. RefreshTimeZoneDisplay(b) \/ RefreshTimeZoneDisplay(Outdated(b))
    BY <2>1
  <2> HIDE DEF b
  <2>4. Same(Outdated(b), bar)
    BY <2>2, OutdatedSame DEF Same
  <2>5. Untouched(b) /\ Untouched(Outdated(b)) /\ IsBar(b) /\ IsBar(Outdated(b))
    BY <2>2, <2>4 DEF Untouched, Same
  <2> QED
    BY <1>16, <2>3, <2>5, RefreshStep DEF OnApply
<1>17. CASE OnSettings
  <2>1. Same(Outdated(bar), bar)
    BY <1>1, OutdatedSame
  <2>2. \E o \in Chosen \cup {modal.init} :
          CloseSettings(bar, o) \/ CloseSettings(Outdated(bar), o)
    BY <1>17 DEF OnSettings
  <2> QED
    BY <1>1, <1>17, <2>1, <2>2, CloseSettingsStep DEF OnSettings
<1>18. CASE MenuAppend
  BY <1>1, <1>18, KeepStep DEF MenuAppend
<1>19. CASE UpdateStart
  <2>1. PICK s \in 0..2 \ {bar.start} :
          LET b == [bar EXCEPT !.start = s]
          IN  IF Alive THEN Show(ComputeBestForecastForNow(b))
              ELSE view = "none" /\ Keep(b)
    BY <1>19 DEF UpdateStart
  <2> DEFINE b == [bar EXCEPT !.start = s]
  <2>2. IsBar(b)
    BY <1>1 DEF IsBar, BarFields
  <2>3. Show(ComputeBestForecastForNow(b)) \/ (view = "none" /\ Keep(b))
    BY <2>1
  <2> HIDE DEF b
  <2>4. CASE view = "none" /\ Keep(b)
    BY <1>19, <2>2, <2>4 DEF UpdateStart, Keep, Inv, NoDangling
  <2> QED
    BY <2>2, <2>3, <2>4, ComputeBestForecastForNowShown, ShowStep
<1>20. CASE UpdatePrefs
  <2>1. PICK dates \in FoundAgain, s \in 0..2 :
          Show(Reread([bar EXCEPT !.start = s], dates))
    BY <1>20 DEF UpdatePrefs
  <2>2. IsBar([bar EXCEPT !.start = s])
    BY <1>1 DEF IsBar, BarFields
  <2> QED
    BY <2>1, <2>2, RereadShown, ShowStep
<1>21. CASE OnFormatRefreshTimer
  <2>1. Same(Outdated(bar), bar)
    BY <1>1, OutdatedSame
  <2>2. RefreshTimeZoneDisplay(Outdated(bar)) \/ Keep(bar)
    BY <1>21 DEF OnFormatRefreshTimer
  <2> QED
    BY <1>1, <1>21, <2>1, <2>2, RefreshStep, KeepStep
       DEF OnFormatRefreshTimer, Untouched, Same
<1>22. CASE SetPluginMessage
  <2>1. Untouched(Crash(bar, "null"))
    BY <1>1, CrashBar DEF Untouched
  <2> QED
    BY <1>22, <2>1, KeepStep DEF SetPluginMessage
<1>23. CASE Tick
  BY <1>23 DEF Tick, Keep, Inv, NoDangling
<1>24. CASE UNCHANGED vars
  BY <1>24 DEF vars, Inv, NoDangling
<1> QED
  BY <1>3, <1>4, <1>5, <1>6, <1>7, <1>8, <1>9, <1>10, <1>11, <1>12, <1>13,
     <1>14, <1>15, <1>16, <1>17, <1>18, <1>19, <1>20, <1>21, <1>22, <1>23,
     <1>24 DEF Next

\* The overlay factory never draws a record set that was deleted, nor one of
\* a file that was, whatever files are opened, read again, gone or replaced, and
\* whatever the user, the timers and other plugins do meanwhile.
THEOREM NeverDangling == Spec => []NoDangling
<1>1. Inv => NoDangling
  BY DEF Inv
<1> QED
  BY <1>1, InitInv, NextInv, PTL DEF Spec

-----------------------------------------------------------------------------
(***************************************************************************)
(* Numbers.                                                                *)
(***************************************************************************)
LEMMA MinIsLeast ==
  ASSUME NEW S \in SUBSET Nat, S # {}
  PROVE  Min(S) \in S /\ \A y \in S : Min(S) <= y
<1>1. IsWellFoundedOn(Less, Nat)
  BY NatLessThanWellFounded DEF OpToRel, Less
<1>2. PICK x \in S : \A y \in S : ~ (<<y, x>> \in Less)
  BY <1>1, WFMin
<1>3. ASSUME NEW y \in S PROVE x <= y
  <2>1. ~(y < x)
    BY <1>2 DEF Less
  <2> QED
    BY <2>1
<1> QED
  BY <1>2, <1>3 DEF Min

LEMMA Division ==
  ASSUME NEW a \in Int, NEW s \in Nat \ {0}
  PROVE  /\ a \div s \in Int /\ (a >= 0 => a \div s >= 0)
         /\ s * (a \div s) <= a /\ a < s * (a \div s) + s
OBVIOUS

LEMMA DivisionMonotone ==
  ASSUME NEW a \in Nat, NEW c \in Nat, a <= c, NEW s \in Nat \ {0}
  PROVE  a \div s <= c \div s
<1> DEFINE p == a \div s
           q == c \div s
<1>1. p \in Nat /\ s * p <= a /\ q \in Nat /\ c < s * q + s
  BY Division
<1> HIDE DEF p, q
<1>2. ASSUME q < p PROVE FALSE
  <2> DEFINE d == p - (q + 1)
  <2>1. d \in Nat /\ p = (q + 1) + d
    BY <1>1, <1>2
  <2> HIDE DEF d
  <2>2. s * p = s * q + s + s * d
    BY <1>1, <2>1
  <2>3. s * d \in Nat /\ s * q \in Nat /\ s * p \in Nat
    BY <1>1, <2>1
  <2> DEFINE sd == s * d
             sq == s * q
             sp == s * p
  <2> HIDE DEF sd, sq, sp
  <2>4. sp = sq + s + sd /\ sp <= a /\ c < sq + s /\ sd \in Nat /\ sq \in Nat /\ sp \in Nat
    BY <1>1, <2>2, <2>3 DEF sd, sq, sp
  <2> QED
    BY <2>4
<1> QED
  BY <1>1, <1>2 DEF p, q

LEMMA CapInRange ==
  ASSUME NEW n \in Int, NEW low \in Int, NEW high \in Int, low <= high
  PROVE  /\ Cap(n, low, high) \in low..high
         /\ n \in low..high => Cap(n, low, high) = n
BY DEF Cap

-----------------------------------------------------------------------------
(***************************************************************************)
(* A well-formed control bar.                                              *)
(***************************************************************************)
Listed(b) ==
  /\ Ascending(Times(b)) /\ b.count = Len(Times(b))
  /\ Usable(b) <=> Times(b) # <<>>

Placed(b) ==
  /\ b.sel \in -1..(b.count - 1)
  /\ b.max \in Nat /\ b.val \in 0..b.max /\ b.hours \in Nat

Configured(b) ==
  /\ b.opts \in Options /\ b.start \in 0..2
  /\ b.idx \in -1..(Len(StepTable) - 1)
  /\ b.crash \in {"no", "index", "table", "null"}
  /\ b.hurt \subseteq {"busy", "gone", "changed", "long"}

\* Only the entry whose label is put away shows another time.
Marked(b) ==
  /\ b.stale \cup b.shifted \subseteq 0..(b.count - 1)
  /\ b.saved \in [index : Int, stale : BOOLEAN]
  /\ b.shifted \subseteq {b.saved.index}

Typed(b) == IsBar(b) /\ Listed(b) /\ Placed(b) /\ Configured(b) /\ Marked(b)

\* At most one label, put away or not, is in an older format.
OneStale(b) ==
  \E x \in Int : b.stale \subseteq {x} /\ (b.saved.stale => b.saved.index = x)

\* Its file is not one of other dates in place of the one that was opened.
Regular(b) == Usable(b) /\ "changed" \notin b.hurt

\* It knows the span of its file.
Spans(b) == Regular(b) => b.hours = LastTime(b) - MinTime(b)

\* Its time line is as long as its options ask for.
Fits(b) ==
  Regular(b) =>
    b.max = IF b.opts.interp THEN b.hours \div Step(b) ELSE Len(Times(b)) - 1

\* The time the time line stands at, and that it is near the one shown.
At(b) == MinTime(b) + (IF b.hours = 0 THEN 0 ELSE b.val) * Step(b)
Near(b) ==
  Regular(b) /\ b.opts.interp =>
    /\ b.set.time \in Int
    /\ At(b) - b.set.time \in (1 - Step(b))..(Step(b) - 1)

\* An entry of the list is selected, and there is a step to interpolate with.
Sound(b) ==
  b.crash = "no" =>
    /\ OneStale(b) /\ Spans(b)
    /\ Usable(b) => b.sel >= 0 /\ (b.opts.interp => HasStep(b))

\* c is as well formed as b, of the same file, and differs in no setting.
Descends(c, b) ==
  /\ Typed(c) /\ (OneStale(b) => OneStale(c))
  /\ c.file = b.file /\ c.count = b.count /\ c.opts = b.opts
  /\ c.start = b.start /\ c.idx = b.idx /\ c.hours = b.hours
  /\ c.hurt = b.hurt /\ c.playing = b.playing /\ c.ready = b.ready

\* Nor in how it shows the time.
Follows(c, b) ==
  /\ Descends(c, b)
  /\ c.interpMode = b.interpMode /\ c.nowMode = b.nowMode /\ c.max = b.max

\* Nor in what it shows.
Rests(c, b) == Follows(c, b) /\ c.set = b.set /\ c.crash = b.crash

LEMMA DomainOfTable == DOMAIN StepTable = 1..Len(StepTable) /\ Len(StepTable) \in Nat \ {0}
<1>1. PICK o \in StartOptions : o.opts.slices + 1 \in DOMAIN StepTable
  BY StartAssumption, StepTableAssumption
<1> QED
  BY <1>1, StepTableAssumption

LEMMA StepIsPositive ==
  ASSUME NEW b, HasStep(b)
  PROVE  Step(b) \in Nat \ {0}
BY StepTableAssumption DEF HasStep, Step

LEMMA FollowsTrans ==
  ASSUME NEW b, NEW c, NEW d
  PROVE  /\ Descends(c, b) /\ Descends(d, c) => Descends(d, b)
         /\ Follows(c, b) /\ Follows(d, c) => Follows(d, b)
BY DEF Follows, Descends

\* The list, its labels and the settings are as they were.
Kin(c, b) ==
  /\ IsBar(c) /\ c.file = b.file /\ c.count = b.count /\ c.stale = b.stale
  /\ c.shifted = b.shifted /\ c.saved = b.saved /\ c.hours = b.hours
  /\ c.opts = b.opts /\ c.start = b.start /\ c.idx = b.idx
  /\ c.hurt = b.hurt /\ c.playing = b.playing /\ c.ready = b.ready

LEMMA KinDescends ==
  ASSUME NEW b, Typed(b), NEW c, Kin(c, b), Placed(c),
         c.crash \in {"no", "index", "table", "null"}
  PROVE  Descends(c, b)
<1>1. Listed(c) /\ Configured(c) /\ Marked(c)
  BY DEF Kin, Typed, Listed, Times, Usable, Configured, Marked
<1>2. OneStale(b) => OneStale(c)
  BY DEF Kin, OneStale
<1> QED
  BY <1>1, <1>2 DEF Kin, Descends, Typed

LEMMA CrashFollows ==
  ASSUME NEW b, Typed(b), NEW why \in {"index", "table", "null"}
  PROVE  Follows(Crash(b, why), b) /\ Crash(b, why).crash = why
<1> DEFINE c == Crash(b, why)
<1>1. /\ Kin(c, b) /\ c.crash = why /\ c.interpMode = b.interpMode
      /\ c.nowMode = b.nowMode /\ c.max = b.max /\ c.sel = b.sel /\ c.val = b.val
  BY DEF Crash, Kin, Typed, IsBar, BarFields
<1> HIDE DEF c
<1>2. Placed(c)
  BY <1>1 DEF Kin, Typed, Placed
<1>3. Descends(c, b)
  BY <1>1, <1>2, KinDescends
<1> QED
  BY <1>1, <1>3 DEF Follows, c

LEMMA SetValueRests ==
  ASSUME NEW b, Typed(b), NEW n \in Int
  PROVE  LET c == SetValue(b, n)
         IN  /\ Rests(c, b) /\ c.sel = b.sel /\ c.shifted = b.shifted
             /\ c.val = Cap(n, 0, b.max)
<1> DEFINE c == SetValue(b, n)
<1>1. Cap(n, 0, b.max) \in 0..b.max
  <2>1. b.max \in Int /\ 0 <= b.max
    BY DEF Typed, Placed
  <2> QED
    BY <2>1 DEF Cap
<1>2. /\ Kin(c, b) /\ c.sel = b.sel /\ c.shifted = b.shifted /\ c.max = b.max
      /\ c.val = Cap(n, 0, b.max) /\ c.interpMode = b.interpMode
      /\ c.nowMode = b.nowMode /\ c.set = b.set /\ c.crash = b.crash
  BY DEF SetValue, Kin, Typed, IsBar, BarFields
<1> HIDE DEF c
<1>3. Placed(c) /\ c.crash \in {"no", "index", "table", "null"}
  BY <1>1, <1>2 DEF Kin, Typed, Placed, Configured
<1>4. Descends(c, b)
  BY <1>2, <1>3, KinDescends
<1> QED
  BY <1>2, <1>4 DEF Rests, Follows, c

LEMMA SetMaxDescends ==
  ASSUME NEW b, Typed(b), NEW n \in Nat
  PROVE  LET c == SetMax(b, n)
         IN  /\ Descends(c, b) /\ c.max = n /\ c.sel = b.sel
             /\ c.interpMode = b.interpMode /\ c.nowMode = b.nowMode
             /\ c.set = b.set /\ c.crash = b.crash
<1> DEFINE c == SetMax(b, n)
<1>1. Cap(b.val, 0, n) \in 0..n
  <2>1. b.val \in Int /\ n \in Int /\ 0 <= n
    BY DEF Typed, Placed
  <2> QED
    BY <2>1, CapInRange
<1>2. /\ Kin(c, b) /\ c.sel = b.sel /\ c.max = n
      /\ c.val = Cap(b.val, 0, n) /\ c.interpMode = b.interpMode
      /\ c.nowMode = b.nowMode /\ c.set = b.set /\ c.crash = b.crash
  BY DEF SetMax, Kin, Typed, IsBar, BarFields
<1> HIDE DEF c
<1>3. Placed(c) /\ c.crash \in {"no", "index", "table", "null"}
  BY <1>1, <1>2 DEF Kin, Typed, Placed, Configured
<1>4. Descends(c, b)
  BY <1>2, <1>3, KinDescends
<1> QED
  BY <1>2, <1>4 DEF c

LEMMA CountIsNat ==
  ASSUME NEW b, Typed(b)
  PROVE  b.count \in Nat /\ (Usable(b) => b.count >= 1)
BY DEF Typed, Listed, Ascending

LEMMA SetSelectionRests ==
  ASSUME NEW b, Typed(b), NEW i
  PROVE  LET c == SetSelection(b, i)
         IN  /\ Rests(c, b) /\ c.shifted = b.shifted /\ c.val = b.val
             /\ i \in 0..(b.count - 1) => c.sel = i
<1> DEFINE c == SetSelection(b, i)
<1>1. /\ Kin(c, b) /\ c.sel = (IF i \in 0..(b.count - 1) THEN i ELSE -1)
      /\ c.max = b.max /\ c.val = b.val /\ c.interpMode = b.interpMode
      /\ c.nowMode = b.nowMode /\ c.set = b.set /\ c.crash = b.crash
      /\ c.shifted = b.shifted
  BY DEF SetSelection, Kin, Typed, IsBar, BarFields
<1> HIDE DEF c
<1>3. Placed(c) /\ c.crash \in {"no", "index", "table", "null"}
  BY <1>1, CountIsNat DEF Kin, Typed, Placed, Configured
<1>4. Descends(c, b)
  BY <1>1, <1>3, KinDescends
<1> QED
  BY <1>1, <1>4 DEF Rests, Follows, c

\* c is b in other modes.
Moded(c, b) ==
  /\ Kin(c, b) /\ c.sel = b.sel /\ c.max = b.max /\ c.val = b.val
  /\ c.set = b.set /\ c.crash = b.crash

LEMMA ModedDescends ==
  ASSUME NEW b, Typed(b), NEW c, Moded(c, b)
  PROVE  Descends(c, b)
<1>1. Placed(c) /\ c.crash \in {"no", "index", "table", "null"}
  BY DEF Moded, Kin, Typed, Placed, Configured
<1> QED
  BY <1>1, KinDescends DEF Moded

LEMMA SetAtFollows ==
  ASSUME NEW b, Typed(b), NEW time
  PROVE  LET c == SetAt(b, time)
         IN  /\ Follows(c, b) /\ c.crash = b.crash /\ c.sel = b.sel
             /\ c.val = b.val /\ c.shifted = b.shifted
             /\ c.set = [gen |-> b.file.gen, time |-> time]
<1> DEFINE c == SetAt(b, time)
<1>1. /\ Kin(c, b) /\ c.sel = b.sel /\ c.max = b.max /\ c.val = b.val
      /\ c.interpMode = b.interpMode /\ c.nowMode = b.nowMode
      /\ c.crash = b.crash /\ c.shifted = b.shifted
      /\ c.set = [gen |-> b.file.gen, time |-> time]
  BY DEF SetAt, Kin, Typed, IsBar, BarFields
<1> HIDE DEF c
<1>2. Placed(c) /\ c.crash \in {"no", "index", "table", "null"}
  BY <1>1 DEF Kin, Typed, Placed, Configured
<1>3. Descends(c, b)
  BY <1>1, <1>2, KinDescends
<1> QED
  BY <1>1, <1>3 DEF Follows, c

\* A label put back is the one that was put away.
LEMMA RestaureRests ==
  ASSUME NEW b, Typed(b)
  PROVE  LET c == RestaureSelectionString(b)
         IN  /\ Rests(c, b) /\ c.shifted = {} /\ c.sel = b.sel /\ c.val = b.val
<1> DEFINE entry == {b.saved.index} \cap (0..(b.count - 1))
           put == [b EXCEPT !.saved = NoLabel, !.shifted = @ \ entry,
                     !.stale = IF b.saved.stale THEN @ \cup entry ELSE @ \ entry]
<1>1. RestaureSelectionString(b) = IF b.saved = NoLabel THEN b ELSE put
  BY DEF RestaureSelectionString
<1>2. CASE b.saved = NoLabel
  <2>1. b.shifted = {}
    BY <1>2 DEF Typed, Marked, NoLabel
  <2> QED
    BY <1>1, <1>2, <2>1 DEF Rests, Follows, Descends
<1>3. put.shifted = {}
  BY DEF Typed, Marked, IsBar, BarFields
<1>4. Marked(put) /\ (OneStale(b) => OneStale(put))
  <2>1. put.saved = NoLabel /\ ~NoLabel.stale /\ NoLabel \in [index : Int, stale : BOOLEAN]
    BY DEF NoLabel, Typed, IsBar, BarFields
  <2>2. put.count = b.count
    BY DEF Typed, IsBar, BarFields
  <2>3. /\ b.saved.stale => put.stale = b.stale \cup entry
        /\ ~b.saved.stale => put.stale = b.stale \ entry
    BY DEF Typed, IsBar, BarFields
  <2>4. Marked(put)
    BY <1>3, <2>1, <2>2, <2>3 DEF Typed, Marked
  <2>5. ASSUME OneStale(b) PROVE OneStale(put)
    BY <2>1, <2>3, <2>5 DEF OneStale
  <2> QED
    BY <2>4, <2>5
<1>5. /\ IsBar(put) /\ Listed(put) /\ Placed(put) /\ Configured(put)
      /\ put.file = b.file /\ put.count = b.count /\ put.opts = b.opts
      /\ put.start = b.start /\ put.idx = b.idx /\ put.hours = b.hours
      /\ put.hurt = b.hurt /\ put.playing = b.playing /\ put.sel = b.sel
      /\ put.crash = b.crash /\ put.max = b.max /\ put.val = b.val
      /\ put.set = b.set /\ put.interpMode = b.interpMode
      /\ put.nowMode = b.nowMode /\ put.ready = b.ready
  BY DEF Typed, IsBar, BarFields, Listed, Times, Usable, Placed, Configured
<1>6. Rests(put, b)
  BY <1>4, <1>5 DEF Rests, Follows, Descends, Typed
<1> QED
  BY <1>1, <1>2, <1>3, <1>5, <1>6

\* The entry that is shown with another time is the only one.
LEMMA ShowTimeLabelRests ==
  ASSUME NEW b, Typed(b), b.shifted = {}, b.sel \in 0..(b.count - 1)
  PROVE  LET c == ShowTimeLabel(b)
         IN  Rests(c, b) /\ c.sel = b.sel /\ c.val = b.val
<1> DEFINE c == ShowTimeLabel(b)
           k == b.sel \in b.stale
           s == [index |-> b.sel, stale |-> k]
<1>1. /\ c.saved = s /\ c.shifted = {b.sel} /\ c.stale = b.stale \ {b.sel}
      /\ c.count = b.count
  BY DEF ShowTimeLabel, Typed, IsBar, BarFields
<1>2. s \in [index : Int, stale : BOOLEAN] /\ s.index = b.sel
      /\ (s.stale <=> b.sel \in b.stale)
  <2>1. k \in BOOLEAN /\ b.sel \in Int
    OBVIOUS
  <2>2. k <=> b.sel \in b.stale
    OBVIOUS
  <2> HIDE DEF k
  <2> QED
    BY <2>1, <2>2
<1> HIDE DEF s
<1>3. Marked(c)
  BY <1>1, <1>2 DEF Typed, Marked
<1>4. OneStale(b) => OneStale(c)
  BY <1>1, <1>2 DEF OneStale
<1>5. /\ IsBar(c) /\ Listed(c) /\ Placed(c) /\ Configured(c)
      /\ c.file = b.file /\ c.opts = b.opts
      /\ c.start = b.start /\ c.idx = b.idx /\ c.hours = b.hours
      /\ c.hurt = b.hurt /\ c.playing = b.playing /\ c.sel = b.sel
      /\ c.crash = b.crash /\ c.max = b.max /\ c.val = b.val
      /\ c.set = b.set /\ c.interpMode = b.interpMode
      /\ c.nowMode = b.nowMode /\ c.ready = b.ready
  BY DEF ShowTimeLabel, Typed, IsBar, BarFields, Listed, Times, Usable, Placed,
         Configured
<1> QED
  BY <1>1, <1>3, <1>4, <1>5 DEF Rests, Follows, Descends, Typed

-----------------------------------------------------------------------------
(***************************************************************************)
(* Where a time is, in the list and on the time line.                      *)
(***************************************************************************)
LEMMA TimesOfFile ==
  ASSUME NEW b, Typed(b), Usable(b)
  PROVE  /\ Times(b) \in Seq(Nat) /\ Len(Times(b)) = b.count /\ b.count \in Nat \ {0}
         /\ MinTime(b) \in Nat /\ LastTime(b) \in Nat /\ MinTime(b) <= LastTime(b)
<1>1. Times(b) \in Seq(Nat) /\ Times(b) # <<>> /\ Len(Times(b)) = b.count
  BY DEF Typed, Listed, Ascending
<1>2. b.count \in Nat \ {0}
  BY <1>1
<1>3. 1 \in DOMAIN Times(b) /\ Len(Times(b)) \in DOMAIN Times(b)
  BY <1>1, <1>2
<1>4. MinTime(b) <= LastTime(b)
  BY <1>1, <1>2, <1>3 DEF Typed, Listed, Ascending, MinTime, LastTime
<1> QED
  BY <1>1, <1>2, <1>3, <1>4 DEF MinTime, LastTime

LEMMA LineIsInt ==
  ASSUME NEW b, Typed(b), Usable(b), HasStep(b)
  PROVE  At(b) \in Int
<1> DEFINE s == Step(b)
           v == IF b.hours = 0 THEN 0 ELSE b.val
           p == v * s
<1>1. s \in Int /\ v \in Int /\ MinTime(b) \in Int
  BY StepIsPositive, TimesOfFile DEF Typed, Placed
<1> HIDE DEF s, v
<1>2. p \in Int
  BY <1>1
<1> HIDE DEF p
<1> QED
  BY <1>1, <1>2 DEF At, p, v, s

LEMMA IndexInRange ==
  ASSUME NEW b, Typed(b), Usable(b), NEW time \in Int
  PROVE  /\ GetNearestIndex(b, time, 2) \in 0..(b.count - 1)
         /\ GetNearestIndex(b, time, 1) \in 0..b.count
         /\ time <= LastTime(b) => GetNearestIndex(b, time, 0) \in 0..(b.count - 1)
<1> DEFINE n == Len(Times(b))
           S == {i \in 0..(n - 2) : Times(b)[i + 2] >= time}
           i == Min(S \cup {n - 1})
           k == Min({i, n - 2})
           itime == Times(b)[k + 1]
           ip1time == Times(b)[k + 2]
<1>1. n \in Nat \ {0} /\ n = b.count /\ Times(b) \in Seq(Nat)
  BY TimesOfFile
<1>2. \A model : GetNearestIndex(b, time, model) =
        IF n = 1 THEN IF model = 1 THEN 1 ELSE 0
        ELSE Nearest(model, i, time, itime, ip1time)
  BY DEF GetNearestIndex
<1>3. CASE n = 1
  BY <1>1, <1>2, <1>3
<1>4. CASE n > 1
  <2>1. i \in 0..(n - 1) /\ (i = n - 1 => \A j \in 0..(n - 2) : Times(b)[j + 2] < time)
    <3>1. S \cup {n - 1} \in SUBSET Nat /\ S \cup {n - 1} # {}
      BY <1>1
    <3>2. i \in S \cup {n - 1} /\ \A y \in S \cup {n - 1} : i <= y
      BY <3>1, MinIsLeast
    <3>3. \A j \in 0..(n - 2) : Times(b)[j + 2] \in Nat
      BY <1>1
    <3> HIDE DEF i
    <3> QED
      BY <1>1, <3>2, <3>3
  <2> HIDE DEF i
  <2>2. k \in {i, n - 2} /\ k <= n - 2 /\ (i = n - 1 => k = n - 2)
    <3>1. {i, n - 2} \in SUBSET Nat /\ {i, n - 2} # {}
      BY <1>1, <1>4, <2>1
    <3>2. k \in {i, n - 2} /\ \A y \in {i, n - 2} : k <= y
      BY <3>1, MinIsLeast
    <3> HIDE DEF k
    <3> QED
      BY <1>1, <1>4, <2>1, <3>2
  <2> HIDE DEF k
  <2>3. i = n - 1 => ip1time < time /\ ip1time = LastTime(b)
    BY <1>1, <1>4, <2>1, <2>2 DEF LastTime
  <2>4. time \in Int /\ (i = n - 1 => ip1time # time)
    <3>1. i = n - 1 => ip1time \in Nat
      BY <2>3, TimesOfFile
    <3> QED
      BY <2>3, <3>1
  <2> HIDE DEF itime, ip1time
  <2>5. Nearest(2, i, time, itime, ip1time) \in 0..(n - 1)
    BY <1>1, <2>1, <2>4 DEF Nearest
  <2>6. Nearest(1, i, time, itime, ip1time) \in 0..n
    BY <1>1, <2>1 DEF Nearest
  <2>7. time <= LastTime(b) => Nearest(0, i, time, itime, ip1time) \in 0..(n - 1)
    <3>1. time <= LastTime(b) => i # n - 1
      BY <2>3, TimesOfFile
    <3> QED
      BY <1>1, <2>1, <3>1 DEF Nearest
  <2> QED
    BY <1>1, <1>2, <1>4, <2>5, <2>6, <2>7
<1> QED
  BY <1>1, <1>3, <1>4

LEMMA GetNowInFile ==
  ASSUME NEW b, Typed(b), Usable(b), now \in Nat
  PROVE  GetNow(b) \in MinTime(b)..LastTime(b) /\ GetNow(b) \in Nat
<1>1. /\ MinTime(b) \in Nat /\ LastTime(b) \in Nat /\ MinTime(b) <= LastTime(b)
  BY TimesOfFile
<1> QED
  BY <1>1 DEF GetNow, Cap

\* The value nearest to a time of the file is less than a step from it.
LEMMA ValueNear ==
  ASSUME NEW b, Typed(b), Usable(b), HasStep(b), b.hours # 0,
         NEW time \in MinTime(b)..LastTime(b), NEW model
  PROVE  LET v == GetNearestValue(b, time, model)
         IN  /\ v \in Nat
             /\ MinTime(b) + v * Step(b) - time \in (1 - Step(b))..(Step(b) - 1)
             /\ model # 0 => MinTime(b) + v * Step(b) <= time
<1> DEFINE s == Step(b)
           span == time - MinTime(b)
           t == span \div s
           past == span - t * s
<1>1. GetNearestValue(b, time, model) =
        IF model = 0 /\ past > (s - past) * 3 THEN t + 1 ELSE t
  BY DEF GetNearestValue
<1>2. s \in Nat \ {0}
  BY StepIsPositive
<1>3. span \in Nat /\ time \in Nat /\ MinTime(b) \in Nat
  BY TimesOfFile
<1> HIDE DEF s
<1>4. t \in Nat /\ s * t <= span /\ span < s * t + s
  <2> HIDE DEF span
  <2> QED
    BY <1>2, <1>3, Division
<1> HIDE DEF t
<1>5. past \in 0..(s - 1) /\ t * s = s * t /\ t * s \in Int
  BY <1>2, <1>3, <1>4
<1>6. (t + 1) * s = t * s + s
  BY <1>2, <1>4
<1>7. past > (s - past) * 3 => past >= 1
  BY <1>2, <1>5
<1> DEFINE ts == t * s
           v == GetNearestValue(b, time, model)
<1>8. \/ v = t /\ v * s = ts
      \/ v = t + 1 /\ v * s = ts + s /\ past >= 1 /\ model = 0
  BY <1>1, <1>6, <1>7
<1> HIDE DEF v
<1>9. v \in Nat
  BY <1>4, <1>8
<1>10. MinTime(b) + v * s - time \in (1 - s)..(s - 1)
       /\ (model # 0 => MinTime(b) + v * s <= time)
  <2>1. MinTime(b) + ts - time = 0 - past
    BY <1>3, <1>5
  <2> DEFINE p == past
             vs == v * s
  <2>2. p \in 0..(s - 1) /\ ts \in Int /\ MinTime(b) + ts - time = 0 - p
    BY <1>5, <2>1
  <2>3. vs = ts \/ (vs = ts + s /\ p >= 1 /\ model = 0)
    BY <1>8
  <2> HIDE DEF p, ts, vs, span
  <2>4. MinTime(b) + vs - time \in (1 - s)..(s - 1)
        /\ (model # 0 => MinTime(b) + vs <= time)
    BY <1>2, <1>3, <2>2, <2>3
  <2> QED
    BY <2>4 DEF vs
<1> QED
  BY <1>9, <1>10 DEF v, s

LEMMA TimelineTimeInFile ==
  ASSUME NEW b, Typed(b), Usable(b), b.interpMode => HasStep(b)
  PROVE  /\ TimelineTime(b) \in Int
         /\ b.interpMode => TimelineTime(b) = At(b)
         /\ ~b.interpMode /\ b.sel >= 0 => TimelineTime(b) = Times(b)[b.sel + 1]
<1>1. /\ Times(b) \in Seq(Nat) /\ Times(b) # <<>> /\ MinTime(b) \in Nat
      /\ b.count \in Nat \ {0} /\ Len(Times(b)) = b.count
  BY TimesOfFile
<1>2. CASE b.interpMode
  <2>1. TimelineTime(b) = At(b)
    BY <1>1, <1>2 DEF TimelineTime, At
  <2>2. Step(b) \in Nat /\ b.val \in Nat
    BY <1>2, StepIsPositive DEF Typed, Placed
  <2>3. (IF b.hours = 0 THEN 0 ELSE b.val) * Step(b) \in Int
    BY <2>2
  <2> QED
    BY <1>1, <1>2, <2>1, <2>3 DEF At
<1>3. CASE ~b.interpMode
  <2> DEFINE i == Cap(b.sel, 0, b.count)
  <2>1. b.sel \in -1..(b.count - 1)
    BY DEF Typed, Placed
  <2>2. i \in 0..(b.count - 1) /\ (b.sel >= 0 => i = b.sel)
    BY <1>1, <2>1 DEF Cap
  <2>3. TimelineTime(b) = IF i < Len(Times(b)) THEN Times(b)[i + 1] ELSE now
    BY <1>3 DEF TimelineTime
  <2> HIDE DEF i
  <2>4. TimelineTime(b) = Times(b)[i + 1] /\ i + 1 \in 1..Len(Times(b))
    BY <1>1, <2>2, <2>3
  <2>5. Times(b)[i + 1] \in Int
    BY <1>1, <2>4
  <2> QED
    BY <1>3, <2>2, <2>4, <2>5
<1> QED
  BY <1>2, <1>3

-----------------------------------------------------------------------------
(***************************************************************************)
(* What the time line changes.                                             *)
(***************************************************************************)
LEMMA ShowTimeRests ==
  ASSUME NEW b, Typed(b), Usable(b), b.shifted = {}, NEW time \in Int
  PROVE  LET c == ShowTime(b, time)
         IN  Rests(c, b) /\ c.sel >= 0 /\ c.val = b.val
<1> DEFINE i == GetNearestIndex(b, time, 2)
           selected == SetSelection(b, i)
<1>1. i \in 0..(b.count - 1)
  BY IndexInRange
<1> HIDE DEF i
<1>2. /\ Rests(selected, b) /\ selected.shifted = {} /\ selected.sel = i
      /\ selected.val = b.val
  BY <1>1, SetSelectionRests
<1>3. ShowTime(b, time) = ShowTimeLabel(selected)
  BY DEF ShowTime, i
<1> HIDE DEF selected
<1>4. Typed(selected) /\ selected.sel \in 0..(selected.count - 1)
  BY <1>1, <1>2 DEF Rests, Follows, Descends
<1>5. /\ Rests(ShowTimeLabel(selected), selected)
      /\ ShowTimeLabel(selected).sel = i /\ ShowTimeLabel(selected).val = b.val
  BY <1>2, <1>4, ShowTimeLabelRests
<1> QED
  BY <1>1, <1>2, <1>3, <1>5, FollowsTrans DEF Rests

\* The value of the selected record on the time line.
Value(b) == IF b.opts.interp
            THEN (Times(b)[b.sel + 1] - MinTime(b)) \div Step(b) ELSE b.sel

LEMMA ShowRecordFollows ==
  ASSUME NEW b, Typed(b), Usable(b), b.opts.interp => HasStep(b)
  PROVE  LET c == ShowRecord(b)
         IN  /\ Follows(c, b)
             /\ b.sel >= 0 => /\ c.crash = b.crash /\ c.sel = b.sel /\ c.set = b.set
                              /\ Value(b) \in Nat /\ c.val = Cap(Value(b), 0, b.max)
             /\ b.sel < 0 => c.crash = "index"
<1>1. /\ Times(b) \in Seq(Nat) /\ Len(Times(b)) = b.count /\ MinTime(b) \in Nat
      /\ b.count \in Nat \ {0} /\ b.sel \in -1..(b.count - 1)
  BY TimesOfFile DEF Typed, Placed
<1>2. ShowRecord(b) = IF b.sel \notin 0..(b.count - 1) THEN Crash(b, "index")
                      ELSE SetValue(b, Value(b))
  BY <1>1 DEF ShowRecord, Value
<1>3. CASE b.sel < 0
  BY <1>1, <1>2, <1>3, CrashFollows
<1>4. CASE b.sel >= 0
  <2>1. Value(b) \in Nat
    <3>1. CASE b.opts.interp
      <4> DEFINE span == Times(b)[b.sel + 1] - MinTime(b)
      <4>1. Times(b)[b.sel + 1] >= MinTime(b) /\ Times(b)[b.sel + 1] \in Nat
        <5>1. 1 \in DOMAIN Times(b) /\ b.sel + 1 \in DOMAIN Times(b)
          BY <1>1, <1>4
        <5>2. b.sel = 0 \/ 1 < b.sel + 1
          BY <1>1, <1>4
        <5>3. 1 < b.sel + 1 => Times(b)[1] < Times(b)[b.sel + 1]
          BY <5>1 DEF Typed, Listed, Ascending
        <5> QED
          BY <1>1, <5>1, <5>2, <5>3 DEF MinTime
      <4>2. span \in Nat
        BY <1>1, <4>1
      <4>3. Step(b) \in Nat \ {0}
        BY <3>1, StepIsPositive
      <4> HIDE DEF span
      <4>4. span \div Step(b) \in Nat
        BY <4>2, <4>3, Division
      <4> QED
        BY <3>1, <4>4 DEF Value, span
    <3>2. CASE ~b.opts.interp
      BY <1>1, <1>4, <3>2 DEF Value
    <3> QED
      BY <3>1, <3>2
  <2>2. ShowRecord(b) = SetValue(b, Value(b))
    BY <1>1, <1>2, <1>4
  <2> QED
    BY <1>1, <1>4, <2>1, <2>2, SetValueRests DEF Rests
<1> QED
  BY <1>1, <1>3, <1>4

\* TimelineChanged shows the time of the time line, or the selected record and
\* moves the time line to it; only a missing selection or step stops it.
LEMMA TimelineChangedFollows ==
  ASSUME NEW b, Typed(b)
  PROVE  LET c == TimelineChanged(b)
         IN  /\ Follows(c, b)
             /\ ~Usable(b) => c = b
             /\ c.crash = "no" => b.crash = "no"
             /\ b.crash = "no" /\ HasStep(b) /\ (b.interpMode \/ b.sel >= 0)
                   => c.crash = "no"
             /\ Usable(b) /\ c.crash = "no" =>
                  /\ c.sel >= 0 /\ (b.opts.interp \/ b.interpMode => HasStep(b))
                  /\ b.interpMode => c.val = b.val /\ c.set.time = At(b)
                  /\ ~b.interpMode =>
                        /\ b.sel >= 0 /\ c.sel = b.sel
                        /\ c.set.time = Times(b)[b.sel + 1]
                        /\ Value(b) \in Nat /\ c.val = Cap(Value(b), 0, b.max)
<1> DEFINE c == TimelineChanged(b)
           time == TimelineTime(b)
           put == RestaureSelectionString(b)
           set == SetAt(put, time)
           table == (b.interpMode \/ b.opts.interp) /\ ~HasStep(b)
<1>1. c = IF ~Usable(b) THEN b
          ELSE IF table THEN Crash(b, "table")
          ELSE IF b.interpMode THEN ShowTime(set, time) ELSE ShowRecord(set)
  BY DEF TimelineChanged
<1>2. Rests(put, b) /\ put.shifted = {} /\ put.sel = b.sel /\ put.val = b.val
  BY RestaureRests
<1> HIDE DEF put
<1>3. /\ Follows(set, b) /\ set.crash = b.crash /\ set.sel = b.sel
      /\ set.val = b.val /\ set.shifted = {} /\ set.set.time = time
  <2>1. Typed(put) /\ Follows(put, b) /\ put.crash = b.crash
    BY <1>2 DEF Rests, Follows, Descends
  <2> HIDE DEF time
  <2>2. /\ Follows(set, put) /\ set.crash = put.crash /\ set.sel = put.sel
        /\ set.val = put.val /\ set.shifted = put.shifted
        /\ set.set = [gen |-> put.file.gen, time |-> time]
    BY <2>1, SetAtFollows
  <2> HIDE DEF set
  <2> QED
    BY <1>2, <2>1, <2>2, FollowsTrans
<1> HIDE DEF c, set
<1>4. Follows(b, b)
  BY DEF Follows, Descends
<1>5. CASE ~Usable(b)
  BY <1>1, <1>4, <1>5 DEF c
<1>6. CASE Usable(b) /\ table
  <2>1. c = Crash(b, "table")
    BY <1>1, <1>6
  <2> QED
    BY <1>6, <2>1, CrashFollows DEF c
<1>7. CASE Usable(b) /\ ~table
  <2>1. Typed(set) /\ Usable(set) /\ set.opts = b.opts /\ Times(set) = Times(b)
        /\ (HasStep(set) <=> HasStep(b)) /\ set.max = b.max
        /\ Value(set) = Value(b)
    BY <1>3, <1>7 DEF Follows, Descends, Usable, Times, HasStep, Value, Step, MinTime
  <2>2. /\ time \in Int /\ (b.interpMode => time = At(b))
        /\ ~b.interpMode /\ b.sel >= 0 => time = Times(b)[b.sel + 1]
    BY <1>7, TimelineTimeInFile
  <2> HIDE DEF time
  <2>3. CASE b.interpMode
    <3>1. c = ShowTime(set, time) /\ HasStep(b)
      BY <1>1, <1>7, <2>3
    <3>2. Rests(c, set) /\ c.sel >= 0 /\ c.val = b.val
      BY <1>3, <2>1, <2>2, <3>1, ShowTimeRests
    <3> QED
      BY <1>3, <1>7, <2>2, <2>3, <3>1, <3>2, FollowsTrans DEF Rests, c
  <2>4. CASE ~b.interpMode
    <3>1. c = ShowRecord(set)
      BY <1>1, <1>7, <2>4
    <3>2. set.opts.interp => HasStep(set)
      BY <1>7, <2>1
    <3>3. /\ Follows(c, set)
          /\ b.sel >= 0 => /\ c.crash = b.crash /\ c.sel = b.sel /\ c.set = set.set
                           /\ Value(b) \in Nat /\ c.val = Cap(Value(b), 0, b.max)
          /\ b.sel < 0 => c.crash = "index"
      BY <1>3, <2>1, <3>1, <3>2, ShowRecordFollows
    <3>4. b.sel \in Int
      BY DEF Typed, Placed
    <3> QED
      BY <1>3, <1>7, <2>2, <2>4, <3>3, <3>4, FollowsTrans DEF c
  <2> QED
    BY <2>3, <2>4
<1> QED
  BY <1>5, <1>6, <1>7 DEF c

\* With a time line as long as its options ask for, it stands near that time.
LEMMA TimelineChangedNear ==
  ASSUME NEW b, Typed(b), Fits(b), Spans(b),
         TimelineChanged(b).crash = "no"
  PROVE  Fits(TimelineChanged(b)) /\ Near(TimelineChanged(b))
<1> DEFINE c == TimelineChanged(b)
<1>1. Follows(c, b)
  BY TimelineChangedFollows
<1>2. Usable(b) =>
        /\ b.opts.interp => HasStep(b)
        /\ b.interpMode => c.val = b.val /\ c.set.time = At(b)
        /\ ~b.interpMode =>
              /\ b.sel >= 0 /\ c.set.time = Times(b)[b.sel + 1]
              /\ Value(b) \in Nat /\ c.val = Cap(Value(b), 0, b.max)
  BY TimelineChangedFollows
<1> HIDE DEF c
<1>3. Fits(c)
  BY <1>1 DEF Follows, Descends, Fits, Regular, Usable, Times, Step
<1>4. ASSUME Regular(b), Usable(b), b.opts.interp PROVE At(c) - c.set.time \in (1 - Step(b))..(Step(b) - 1)
  <2> DEFINE s == Step(b)
             m == MinTime(b)
             v == IF b.hours = 0 THEN 0 ELSE c.val
  <2>1. s \in Nat \ {0} /\ m \in Nat
    BY <1>2, <1>4, StepIsPositive, TimesOfFile
  <2>2. At(c) = m + v * s
    BY <1>1 DEF Follows, Descends, At, MinTime, Times, Step
  <2>3. CASE b.interpMode
    <3>1. c.set.time = m + v * s
      BY <1>2, <1>4, <2>3 DEF At
    <3>2. v \in Nat
      BY <1>1 DEF Follows, Descends, Typed, Placed
    <3> HIDE DEF s, m, v
    <3>3. v * s \in Int
      BY <2>1, <3>2
    <3> DEFINE vs == v * s
    <3> HIDE DEF vs
    <3>4. (m + vs) - (m + vs) \in (1 - s)..(s - 1)
      BY <2>1, <3>3 DEF vs
    <3> QED
      BY <2>2, <3>1, <3>4 DEF vs, s
  <2>4. CASE ~b.interpMode
    <3> DEFINE time == Times(b)[b.sel + 1]
               w == Value(b)
    <3>1. c.set.time = time /\ w = (time - m) \div s /\ c.val = Cap(w, 0, b.max) /\ w \in Nat
      BY <1>2, <1>4, <2>4 DEF Value
    <3>2. /\ Times(b) \in Seq(Nat) /\ Len(Times(b)) = b.count /\ b.count \in Nat \ {0}
          /\ b.sel \in 0..(b.count - 1) /\ b.max \in Nat
      BY <1>2, <1>4, <2>4, TimesOfFile DEF Typed, Placed
    <3>3. time \in Nat /\ time >= m /\ time <= LastTime(b)
      <4>1. /\ 1 \in DOMAIN Times(b) /\ b.sel + 1 \in DOMAIN Times(b)
            /\ b.count \in DOMAIN Times(b)
        BY <3>2
      <4>2. b.sel = 0 \/ 1 < b.sel + 1
        BY <3>2
      <4>3. b.sel + 1 = b.count \/ b.sel + 1 < b.count
        BY <3>2
      <4>4. 1 < b.sel + 1 => Times(b)[1] < time
        BY <4>1 DEF Typed, Listed, Ascending
      <4>5. b.sel + 1 < b.count => time < Times(b)[b.count]
        BY <4>1 DEF Typed, Listed, Ascending
      <4>6. time \in Nat /\ Times(b)[1] \in Nat /\ Times(b)[b.count] \in Nat
        BY <3>2, <4>1
      <4> QED
        BY <3>2, <4>2, <4>3, <4>4, <4>5, <4>6 DEF MinTime, LastTime
    <3>4. b.max = b.hours \div s /\ b.hours = LastTime(b) - m
      BY <1>4 DEF Fits, Spans
    <3>5. b.hours \in Nat /\ time - m \in Nat /\ time - m <= b.hours
      BY <1>4, <2>1, <3>3, <3>4, TimesOfFile
    <3> HIDE DEF s, m, time, w
    <3> DEFINE span == time - m
    <3>6. span \in Nat /\ span <= b.hours /\ time = m + span
      BY <2>1, <3>3, <3>5
    <3>7. w = span \div s
      BY <3>1
    <3> HIDE DEF span
    <3>8. s * w <= span /\ span < s * w + s
      BY <2>1, <3>6, <3>7, Division
    <3>9. w <= b.max
      <4>1. span \div s <= b.hours \div s
        BY <2>1, <3>5, <3>6, DivisionMonotone
      <4> QED
        BY <3>4, <3>7, <4>1
    <3>10. c.val = w
      BY <3>1, <3>2, <3>9 DEF Cap
    <3>11. b.hours = 0 => w = 0
      <4>1. b.hours = 0 => s * w <= 0
        BY <2>1, <3>1, <3>6, <3>8
      <4>2. w # 0 => s * w >= s
        BY <2>1, <3>1
      <4> QED
        BY <2>1, <3>1, <4>1, <4>2
    <3>12. v * s = s * w /\ s * w \in Int
      BY <2>1, <3>1, <3>10, <3>11
    <3> DEFINE sw == s * w
    <3> HIDE DEF sw
    <3>13. m + sw - time \in (1 - s)..(s - 1)
      BY <2>1, <3>6, <3>8, <3>12 DEF sw
    <3> HIDE DEF v
    <3>14. At(c) = m + sw /\ c.set.time = time
      BY <2>2, <3>1, <3>12 DEF sw
    <3>15. At(c) - c.set.time \in (1 - s)..(s - 1)
      <4>1. m \in Int /\ sw \in Int /\ time \in Int /\ s \in Int
        BY <2>1, <3>6, <3>12 DEF sw
      <4> DEFINE x == At(c)
                 y == c.set.time
      <4>2. x = m + sw /\ y = time
        BY <3>14
      <4> HIDE DEF x, y
      <4>3. x - y \in (1 - s)..(s - 1)
        BY <3>13, <4>1, <4>2
      <4> QED
        BY <4>3 DEF x, y
    <3> QED
      BY <3>15 DEF s
  <2> QED
    BY <2>3, <2>4
<1>5. ASSUME Usable(b), b.opts.interp PROVE c.set.time \in Int
  <2>1. CASE b.interpMode
    BY <1>2, <1>5, <2>1, LineIsInt
  <2>2. CASE ~b.interpMode
    <3>1. b.sel \in 0..(b.count - 1) /\ b.count \in Nat /\ Len(Times(b)) = b.count
          /\ Times(b) \in Seq(Nat)
      BY <1>2, <1>5, <2>2, TimesOfFile DEF Typed, Placed
    <3> QED
      BY <1>2, <1>5, <2>2, <3>1
  <2> QED
    BY <2>1, <2>2
<1>6. Near(c)
  BY <1>1, <1>4, <1>5 DEF Near, Regular, Follows, Descends, Usable, Step
<1> QED
  BY <1>3, <1>6 DEF c

LEMMA NearestValueIsNat ==
  ASSUME NEW b, Typed(b), Usable(b), b.opts.interp /\ b.hours # 0 => HasStep(b),
         b.opts.interp, NEW time \in MinTime(b)..LastTime(b), NEW model
  PROVE  GetNearestValue(b, time, model) \in Nat
<1>1. CASE b.hours = 0
  BY <1>1 DEF GetNearestValue
<1>2. CASE b.hours # 0
  BY <1>2, ValueNear
<1> QED
  BY <1>1, <1>2

LEMMA PlaceAtRests ==
  ASSUME NEW b, Typed(b), Usable(b), b.opts.interp /\ b.hours # 0 => HasStep(b),
         NEW time \in MinTime(b)..LastTime(b)
  PROVE  LET c == PlaceAt(b, time)
         IN  /\ Rests(c, b) /\ (~b.opts.interp => c.sel >= 0)
             /\ b.opts.interp => c.val = Cap(GetNearestValue(b, time, 0), 0, b.max)
<1> DEFINE i == GetNearestIndex(b, time, 0)
           v == GetNearestValue(b, time, 0)
           index == SetSelection(b, i)
<1>1. PlaceAt(b, time) = IF b.opts.interp THEN SetValue(b, v) ELSE SetValue(index, index.sel)
  BY DEF PlaceAt
<1>2. time \in Int /\ time <= LastTime(b)
  BY TimesOfFile
<1>3. CASE b.opts.interp
  <2>1. v \in Int
    BY <1>3, NearestValueIsNat
  <2> HIDE DEF v
  <2>2. PlaceAt(b, time) = SetValue(b, v)
    BY <1>1, <1>3
  <2> QED
    BY <1>3, <2>1, <2>2, SetValueRests DEF v
<1>4. CASE ~b.opts.interp
  <2>1. i \in 0..(b.count - 1)
    BY <1>2, IndexInRange
  <2> HIDE DEF i
  <2>2. Rests(index, b) /\ index.sel = i
    BY <2>1, SetSelectionRests
  <2>3. PlaceAt(b, time) = SetValue(index, index.sel)
    BY <1>1, <1>4
  <2> HIDE DEF index
  <2>4. Typed(index) /\ index.sel \in Int
    BY <2>1, <2>2, CountIsNat DEF Rests, Follows, Descends
  <2>5. Rests(SetValue(index, index.sel), index)
        /\ SetValue(index, index.sel).sel = index.sel
    BY <2>4, SetValueRests
  <2>6. i >= 0
    BY <2>1, CountIsNat
  <2> QED
    BY <1>4, <2>2, <2>3, <2>5, <2>6, FollowsTrans DEF Rests
<1> QED
  BY <1>3, <1>4

\* A time line placed at a time of the file stands less than a step from it.
LEMMA PlacedNear ==
  ASSUME NEW b, Typed(b), Regular(b), HasStep(b), b.opts.interp, Fits(b), Spans(b),
         NEW time \in MinTime(b)..LastTime(b),
         b.val = Cap(GetNearestValue(b, time, 0), 0, b.max)
  PROVE  At(b) - time \in (1 - Step(b))..(Step(b) - 1)
<1> DEFINE s == Step(b)
           m == MinTime(b)
           w == GetNearestValue(b, time, 0)
<1>1. s \in Nat \ {0} /\ m \in Nat /\ LastTime(b) \in Nat /\ time \in Nat
      /\ m <= time /\ time <= m + b.hours /\ b.hours \in Nat /\ Usable(b)
  BY StepIsPositive, TimesOfFile DEF Regular, Spans
<1>2. At(b) = m + (IF b.hours = 0 THEN 0 ELSE b.val) * s
  BY DEF At
<1>3. CASE b.hours = 0
  <2> HIDE DEF s, m
  <2>1. time = m
    BY <1>1, <1>3
  <2>2. At(b) = m
    BY <1>1, <1>2, <1>3
  <2>3. m - m \in (1 - s)..(s - 1)
    BY <1>1
  <2> QED
    BY <2>1, <2>2, <2>3 DEF s
<1>4. CASE b.hours # 0
  <2>1. w \in Nat /\ m + w * s - time \in (1 - s)..(s - 1)
    BY <1>1, <1>4, ValueNear
  <2>2. b.max = b.hours \div s /\ b.val = Cap(w, 0, b.max) /\ b.max \in Nat
    BY DEF Fits, Typed, Placed
  <2> DEFINE x == At(b)
             vs == b.val * s
             hours == b.hours
             max == b.max
             val == b.val
  <2>3. x = m + vs
    BY <1>2, <1>4
  <2>4. max = hours \div s /\ val = Cap(w, 0, max) /\ max \in Nat /\ vs = val * s
        /\ hours \in Nat /\ time <= m + hours
    BY <1>1, <2>2
  <2> HIDE DEF s, m, w, x, vs, max, val, hours
  <2>5. CASE w <= max
    <3>1. val = w
      BY <2>1, <2>4, <2>5 DEF Cap
    <3>2. x = m + w * s
      BY <2>3, <2>4, <3>1
    <3> DEFINE ws == w * s
    <3>3. x = m + ws /\ ws \in Int /\ m + ws - time \in (1 - s)..(s - 1)
      BY <1>1, <2>1, <3>2
    <3> HIDE DEF ws
    <3>4. x - time \in (1 - s)..(s - 1)
      BY <1>1, <3>3
    <3> QED
      BY <3>4 DEF x, s
  <2>6. CASE w > max
    <3>1. val = max
      BY <2>1, <2>4, <2>6 DEF Cap
    <3> DEFINE d == w - (max + 1)
    <3>2. d \in Nat /\ w = max + 1 + d
      BY <2>1, <2>4, <2>6
    <3> HIDE DEF d
    <3> DEFINE ms == s * max
               ds == s * d
               ws == w * s
    <3>3. ms \in Nat /\ ds \in Nat /\ ws = ms + s + ds /\ vs = ms
      BY <1>1, <2>1, <2>4, <3>1, <3>2
    <3>4. hours < ms + s
      BY <1>1, <2>4, Division
    <3>5. m + ws - time \in (1 - s)..(s - 1)
      BY <2>1
    <3> HIDE DEF ms, ds, ws
    <3>6. x - time \in (1 - s)..(s - 1)
      BY <1>1, <2>3, <2>4, <3>3, <3>4, <3>5
    <3> QED
      BY <3>6 DEF x, s
  <2> QED
    BY <2>1, <2>4, <2>5, <2>6
<1> QED
  BY <1>3, <1>4

LEMMA ShowAroundDescends ==
  ASSUME NEW b, Typed(b), Usable(b), NEW time \in MinTime(b)..LastTime(b)
  PROVE  LET c == ShowAround(b, time)
         IN  /\ Descends(c, b) /\ c.max = b.max
             /\ c.crash = "no" => b.crash = "no" /\ c.sel >= 0
             /\ b.crash = "no" /\ HasStep(b) /\ (b.opts.interp \/ b.sel >= 0)
                   => c.crash = "no"
             /\ b.opts.interp => c.interpMode
             /\ c.crash = "no" /\ Fits(b) /\ Spans(b)
                /\ (b.opts.interp =>
                      HasStep(b) /\ b.val = Cap(GetNearestValue(b, time, 0), 0, b.max))
                  => Near(c)
<1> DEFINE c == ShowAround(b, time)
<1>1. CASE b.start # 2
  <2> DEFINE d == [b EXCEPT !.interpMode = b.opts.interp]
  <2>1. c = TimelineChanged(d)
    BY <1>1 DEF ShowAround
  <2>2. Moded(d, b) /\ d.interpMode = b.opts.interp
    BY DEF Moded, Kin, Typed, IsBar, BarFields
  <2> HIDE DEF d
  <2>3. Descends(d, b) /\ Typed(d)
    BY <2>2, ModedDescends DEF Descends
  <2>4. /\ (Usable(d) <=> Usable(b)) /\ (HasStep(d) <=> HasStep(b))
        /\ (Fits(b) => Fits(d)) /\ (Spans(b) => Spans(d))
        /\ d.opts = b.opts /\ d.hours = b.hours /\ d.sel = b.sel /\ d.crash = b.crash
        /\ d.max = b.max
    BY <2>2 DEF Moded, Kin, Usable, HasStep, Fits, Spans, Regular, LastTime, MinTime, Times, Step
  <2>5. /\ Follows(c, d) /\ (c.crash = "no" => d.crash = "no")
        /\ Usable(d) /\ c.crash = "no" => c.sel >= 0
        /\ d.crash = "no" /\ HasStep(d) /\ (d.interpMode \/ d.sel >= 0) => c.crash = "no"
    BY <2>1, <2>3, TimelineChangedFollows
  <2>6. c.crash = "no" /\ Fits(d) /\ Spans(d) => Near(c)
    BY <2>1, <2>3, TimelineChangedNear
  <2> HIDE DEF c
  <2>7. Descends(c, b) /\ c.max = b.max /\ c.interpMode = b.opts.interp
    BY <2>2, <2>3, <2>4, <2>5, FollowsTrans DEF Follows
  <2> QED
    BY <2>2, <2>4, <2>5, <2>6, <2>7 DEF c
<1>2. CASE b.start = 2
  <2> DEFINE at == SetAt(b, time)
             put == RestaureSelectionString(at)
             d == [put EXCEPT !.interpMode = TRUE, !.nowMode = TRUE]
  <2>1. c = ShowTime(d, time)
    BY <1>2 DEF ShowAround
  <2>2. /\ Follows(at, b) /\ at.crash = b.crash /\ at.sel = b.sel
        /\ at.val = b.val /\ at.set = [gen |-> b.file.gen, time |-> time]
    BY SetAtFollows
  <2>3. Typed(at) /\ at.set.time = time
    BY <2>2 DEF Follows, Descends
  <2> HIDE DEF at
  <2>4. Rests(put, at) /\ put.shifted = {} /\ put.sel = at.sel /\ put.val = at.val
    BY <2>3, RestaureRests
  <2>5. Typed(put)
    BY <2>4 DEF Rests, Follows, Descends
  <2> HIDE DEF put
  <2>6. Moded(d, put) /\ d.interpMode /\ d.shifted = {}
    BY <2>4, <2>5 DEF Moded, Kin, Typed, IsBar, BarFields
  <2> HIDE DEF d
  <2>7. Descends(d, put)
    BY <2>5, <2>6, ModedDescends
  <2>8. Descends(d, b) /\ d.max = b.max /\ d.val = b.val /\ d.set.time = time
        /\ d.crash = b.crash
    BY <2>2, <2>3, <2>4, <2>6, <2>7, FollowsTrans DEF Rests, Follows, Moded
  <2>9. Typed(d) /\ Usable(d) /\ time \in Int
    BY <2>8, TimesOfFile DEF Descends, Usable
  <2>10. Rests(c, d) /\ c.sel >= 0 /\ c.val = d.val
    BY <2>1, <2>6, <2>9, ShowTimeRests
  <2> HIDE DEF c
  <2>11. /\ Descends(c, b) /\ c.max = b.max /\ c.crash = b.crash /\ c.interpMode
         /\ c.val = b.val /\ c.set.time = time
    BY <2>6, <2>8, <2>10, FollowsTrans DEF Rests, Follows
  <2>12. ASSUME c.crash = "no", Fits(b), Spans(b), Regular(b),
                b.opts.interp => HasStep(b),
                b.opts.interp => b.val = Cap(GetNearestValue(b, time, 0), 0, b.max)
         PROVE  Near(c)
    <3>1. At(c) = At(b) /\ Step(c) = Step(b) /\ c.opts = b.opts
      BY <2>11 DEF Descends, At, MinTime, Times, Step
    <3>2. b.opts.interp => At(b) - time \in (1 - Step(b))..(Step(b) - 1)
      BY <2>12, PlacedNear
    <3> QED
      BY <2>11, <3>1, <3>2 DEF Near
  <2>13. ~Regular(b) => Near(c)
    BY <2>11 DEF Descends, Near, Regular, Usable
  <2> QED
    BY <2>10, <2>11, <2>12, <2>13 DEF c
<1> QED
  BY <1>1, <1>2

LEMMA ComputeBestDescends ==
  ASSUME NEW b, Typed(b), now \in Nat
  PROVE  LET c == ComputeBestForecastForNow(b)
         IN  /\ Descends(c, b) /\ c.max = b.max
             /\ ~Usable(b) => c = b
             /\ c.crash = "no" => b.crash = "no"
             /\ b.crash = "no" /\ HasStep(b) => c.crash = "no"
             /\ Usable(b) /\ c.crash = "no" =>
                  c.sel >= 0 /\ (b.opts.interp => c.interpMode)
             /\ c.crash = "no" /\ Fits(b)
                /\ Spans(b) /\ (Usable(b) /\ b.opts.interp => HasStep(b))
                  => Near(c)
<1> DEFINE c == ComputeBestForecastForNow(b)
           time == GetNow(b)
           d == PlaceAt(b, time)
           table == b.opts.interp /\ b.hours # 0 /\ ~HasStep(b)
<1>1. c = IF ~Usable(b) THEN b ELSE IF table THEN Crash(b, "table") ELSE ShowAround(d, time)
  BY DEF ComputeBestForecastForNow
<1>2. Descends(b, b)
  BY DEF Descends
<1>3. CASE ~Usable(b)
  BY <1>1, <1>2, <1>3 DEF Near, Regular
<1>4. CASE Usable(b) /\ table
  <2>1. c = Crash(b, "table")
    BY <1>1, <1>4
  <2>2. Follows(Crash(b, "table"), b) /\ Crash(b, "table").crash = "table"
    BY CrashFollows
  <2> HIDE DEF c
  <2> QED
    BY <1>4, <2>1, <2>2 DEF c, Follows
<1>5. CASE Usable(b) /\ ~table
  <2>1. time \in MinTime(b)..LastTime(b)
    BY <1>5, GetNowInFile
  <2> HIDE DEF time
  <2>2. /\ Rests(d, b) /\ (~b.opts.interp => d.sel >= 0)
        /\ b.opts.interp => d.val = Cap(GetNearestValue(b, time, 0), 0, b.max)
    BY <1>5, <2>1, PlaceAtRests
  <2>3. c = ShowAround(d, time)
    BY <1>1, <1>5
  <2> HIDE DEF d
  <2>4. /\ Typed(d) /\ Usable(d) /\ MinTime(d) = MinTime(b) /\ LastTime(d) = LastTime(b)
        /\ d.crash = b.crash /\ d.opts = b.opts /\ d.hours = b.hours /\ d.max = b.max
        /\ (HasStep(d) <=> HasStep(b)) /\ (Fits(b) => Fits(d)) /\ (Spans(b) => Spans(d))
        /\ GetNearestValue(d, time, 0) = GetNearestValue(b, time, 0)
    BY <1>5, <2>2 DEF Rests, Follows, Descends, Usable, MinTime, LastTime, Times,
                      HasStep, Fits, Spans, Regular, Step, GetNearestValue
  <2>5. /\ Descends(c, d) /\ c.max = d.max
        /\ c.crash = "no" => d.crash = "no" /\ c.sel >= 0
        /\ d.crash = "no" /\ HasStep(d) /\ (d.opts.interp \/ d.sel >= 0) => c.crash = "no"
        /\ d.opts.interp => c.interpMode
        /\ c.crash = "no" /\ Fits(d) /\ Spans(d)
           /\ (d.opts.interp =>
                 HasStep(d) /\ d.val = Cap(GetNearestValue(d, time, 0), 0, d.max))
             => Near(c)
    BY <2>1, <2>3, <2>4, ShowAroundDescends
  <2> HIDE DEF c
  <2>6. Descends(c, b)
    BY <2>2, <2>5, FollowsTrans DEF Rests, Follows
  <2> QED
    BY <1>5, <2>2, <2>4, <2>5, <2>6 DEF c
<1> QED
  BY <1>3, <1>4, <1>5

\* SetTimeLineMax makes the time line as long as the options ask for.
LEMMA SetTimeLineMaxDescends ==
  ASSUME NEW b, Typed(b), NEW keep \in BOOLEAN, now \in Nat
  PROVE  LET c == SetTimeLineMax(b, keep)
         IN  /\ Descends(c, b)
             /\ c.crash = "no" => b.crash = "no" /\ (b.opts.interp => HasStep(b)) /\ Fits(c)
             /\ b.crash = "no" /\ HasStep(b) => c.crash = "no"
             /\ Usable(b) /\ b.sel >= 0 /\ c.crash = "no" => c.sel >= 0
             /\ ~keep => c.interpMode = b.interpMode /\ c.nowMode = b.nowMode
             /\ ~Usable(b) => c.nowMode = b.nowMode /\ c.set = b.set
<1> DEFINE c == SetTimeLineMax(b, keep)
           oldmax == IF b.max > 1 THEN b.max ELSE 1
           span == b.hours \div Step(b)
           last == Len(Times(b)) - 1
           ranged == IF b.opts.interp THEN SetMax(b, span)
                     ELSE IF Usable(b) THEN SetMax(b, last) ELSE b
           n == (ranged.max * b.val) \div oldmax
           table == b.opts.interp /\ ~HasStep(b)
           best == ComputeBestForecastForNow(ranged)
<1>1. c = IF table THEN Crash(b, "table")
          ELSE IF ~keep \/ ranged.max = 0 THEN ranged
          ELSE IF b.nowMode THEN best ELSE SetValue(ranged, n)
  BY DEF SetTimeLineMax
<1>2. CASE table
  <2>1. c = Crash(b, "table")
    BY <1>1, <1>2
  <2>2. Follows(Crash(b, "table"), b) /\ Crash(b, "table").crash = "table"
        /\ Crash(b, "table").set = b.set
    BY CrashFollows DEF Crash, Typed, IsBar, BarFields
  <2> HIDE DEF c
  <2> QED
    BY <1>2, <2>1, <2>2 DEF c, Follows
<1>3. CASE ~table
  <2>1. /\ Descends(ranged, b) /\ Fits(ranged) /\ ranged.sel = b.sel
        /\ ranged.interpMode = b.interpMode /\ ranged.nowMode = b.nowMode
        /\ ranged.crash = b.crash /\ ranged.set = b.set
    <3>1. CASE b.opts.interp
      <4>1. Step(b) \in Nat \ {0} /\ b.hours \in Nat
        BY <1>3, <3>1, StepIsPositive DEF Typed, Placed
      <4>2. span \in Nat
        BY <4>1, Division
      <4> HIDE DEF span
      <4> DEFINE d == SetMax(b, span)
      <4>3. /\ Descends(d, b) /\ d.max = span /\ d.sel = b.sel
            /\ d.interpMode = b.interpMode /\ d.nowMode = b.nowMode
            /\ d.set = b.set /\ d.crash = b.crash
        BY <4>2, SetMaxDescends
      <4> HIDE DEF d
      <4>4. Fits(d)
        BY <3>1, <4>3 DEF Fits, Regular, Descends, Step, span
      <4> QED
        BY <3>1, <4>3, <4>4 DEF d
    <3>2. CASE ~b.opts.interp /\ Usable(b)
      <4>1. last \in Nat
        BY <3>2, TimesOfFile
      <4> HIDE DEF last
      <4> DEFINE d == SetMax(b, last)
      <4>2. /\ Descends(d, b) /\ d.max = last /\ d.sel = b.sel
            /\ d.interpMode = b.interpMode /\ d.nowMode = b.nowMode
            /\ d.set = b.set /\ d.crash = b.crash
        BY <4>1, SetMaxDescends
      <4> HIDE DEF d
      <4>3. Fits(d)
        BY <3>2, <4>2 DEF Fits, Regular, Descends, Times, last
      <4> QED
        BY <3>2, <4>2, <4>3 DEF d
    <3>3. CASE ~b.opts.interp /\ ~Usable(b)
      BY <3>3 DEF Descends, Fits, Regular
    <3> QED
      BY <3>1, <3>2, <3>3
  <2>2. oldmax \in Nat \ {0} /\ b.val \in Nat
    BY DEF Typed, Placed
  <2> HIDE DEF ranged, oldmax
  <2>3. n \in Nat
    <3>1. ranged.max \in Nat
      BY <2>1 DEF Descends, Typed, Placed
    <3>2. ranged.max * b.val \in Nat
      BY <2>2, <3>1
    <3> QED
      BY <2>2, <3>2, Division
  <2> HIDE DEF n
  <2>4. Typed(ranged) /\ (Usable(ranged) <=> Usable(b)) /\ ranged.opts = b.opts
        /\ (HasStep(ranged) <=> HasStep(b))
    BY <2>1 DEF Descends, Usable, HasStep
  <2>5. CASE c = ranged
    BY <1>3, <2>1, <2>5 DEF c
  <2>6. CASE keep /\ c = best
    <3>1. /\ Descends(best, ranged) /\ best.max = ranged.max
          /\ ~Usable(ranged) => best = ranged
          /\ best.crash = "no" => ranged.crash = "no"
          /\ ranged.crash = "no" /\ HasStep(ranged) => best.crash = "no"
          /\ Usable(ranged) /\ best.crash = "no" => best.sel >= 0
      BY <2>4, ComputeBestDescends
    <3> HIDE DEF best, c
    <3>2. Fits(best)
      BY <2>1, <3>1 DEF Descends, Fits, Regular, Usable, Times, Step
    <3>3. Descends(best, b)
      BY <2>1, <3>1, FollowsTrans
    <3> QED
      BY <1>3, <2>1, <2>4, <2>6, <3>1, <3>2, <3>3 DEF c
  <2>7. CASE keep /\ c = SetValue(ranged, n)
    <3>1. Rests(SetValue(ranged, n), ranged) /\ SetValue(ranged, n).sel = ranged.sel
      BY <2>3, <2>4, SetValueRests
    <3> HIDE DEF c
    <3>2. Rests(c, ranged) /\ c.sel = ranged.sel
      BY <2>7, <3>1
    <3>3. Fits(c)
      BY <2>1, <3>2 DEF Rests, Follows, Descends, Fits, Regular, Usable, Times, Step
    <3>4. Descends(c, b)
      BY <2>1, <3>2, FollowsTrans DEF Rests, Follows
    <3> QED
      BY <1>3, <2>1, <2>7, <3>2, <3>3, <3>4 DEF c, Rests, Follows
  <2> QED
    BY <1>1, <1>3, <2>5, <2>6, <2>7
<1> QED
  BY <1>2, <1>3

-----------------------------------------------------------------------------
(***************************************************************************)
(* The list of dates made again.                                           *)
(***************************************************************************)
\* b may hold another file than its list was made for.
Unlisted(b) ==
  /\ IsBar(b) /\ Ascending(Times(b)) /\ (Usable(b) <=> Times(b) # <<>>)
  /\ b.count \in Nat /\ Placed(b) /\ Configured(b)
  /\ b.saved \in [index : Int, stale : BOOLEAN]

LEMMA PopulateRests ==
  ASSUME NEW b, Unlisted(b)
  PROVE  LET c == PopulateComboDataList(b)
         IN  /\ Typed(c) /\ OneStale(c)
             /\ c.file = b.file /\ c.opts = b.opts /\ c.start = b.start
             /\ c.idx = b.idx /\ c.hours = b.hours /\ c.hurt = b.hurt
             /\ c.playing = b.playing /\ c.ready = b.ready /\ c.set = b.set
             /\ c.interpMode = b.interpMode /\ c.nowMode = b.nowMode
             /\ c.max = b.max /\ c.val = b.val /\ c.crash = b.crash
             /\ Usable(b) /\ (b.count = 0 \/ (b.count = Len(Times(b)) /\ b.sel >= 0))
                   => c.sel >= 0
<1> DEFINE c == PopulateComboDataList(b)
           len == Len(Times(b))
           i == IF b.count > 0 THEN b.sel ELSE 0
           at == IF i \in 0..(len - 1) THEN i ELSE -1
           filled == [b EXCEPT !.count = len, !.stale = {}, !.shifted = {}]
<1>1. c = SetSelection(filled, i)
  BY DEF PopulateComboDataList
<1>2. /\ IsBar(filled) /\ filled.file = b.file /\ filled.count = len
      /\ filled.stale = {} /\ filled.shifted = {} /\ filled.saved = b.saved
      /\ filled.opts = b.opts /\ filled.start = b.start
      /\ filled.idx = b.idx /\ filled.hours = b.hours /\ filled.hurt = b.hurt
      /\ filled.playing = b.playing /\ filled.ready = b.ready /\ filled.set = b.set
      /\ filled.interpMode = b.interpMode /\ filled.nowMode = b.nowMode
      /\ filled.max = b.max /\ filled.val = b.val /\ filled.crash = b.crash
  BY DEF Unlisted, IsBar, BarFields
<1> HIDE DEF filled, i, len
<1>3. /\ IsBar(c) /\ c.file = b.file /\ c.count = len
      /\ c.stale = {} /\ c.shifted = {} /\ c.saved = b.saved
      /\ c.opts = b.opts /\ c.start = b.start
      /\ c.idx = b.idx /\ c.hours = b.hours /\ c.hurt = b.hurt
      /\ c.playing = b.playing /\ c.ready = b.ready /\ c.set = b.set
      /\ c.interpMode = b.interpMode /\ c.nowMode = b.nowMode
      /\ c.max = b.max /\ c.val = b.val /\ c.crash = b.crash /\ c.sel = at
  BY <1>1, <1>2 DEF SetSelection, IsBar, BarFields
<1>4. len \in Nat
  BY DEF Unlisted, Ascending, len
<1> HIDE DEF c
<1>5. Listed(c)
  BY <1>3 DEF Unlisted, Listed, Times, Usable, len
<1>6. Placed(c)
  BY <1>3, <1>4 DEF Unlisted, Placed
<1>7. Configured(c) /\ Marked(c)
  BY <1>3 DEF Unlisted, Configured, Marked
<1>8. OneStale(c)
  BY <1>3 DEF OneStale, Unlisted
<1>9. Usable(b) /\ (b.count = 0 \/ (b.count = len /\ b.sel >= 0)) => c.sel >= 0
  <2>1. Usable(b) => len > 0
    BY DEF Unlisted, Ascending, len
  <2>2. b.sel \in -1..(b.count - 1) /\ b.count \in Nat
    BY DEF Unlisted, Placed
  <2> QED
    BY <1>3, <1>4, <2>1, <2>2 DEF i
<1> QED
  BY <1>3, <1>5, <1>6, <1>7, <1>8, <1>9 DEF Typed, c, len

LEMMA TypedUnlisted ==
  ASSUME NEW b, Typed(b)
  PROVE  Unlisted(b)
BY DEF Typed, Unlisted, Listed, Marked, Ascending

-----------------------------------------------------------------------------
(***************************************************************************)
(* A control bar between two events.                                       *)
(***************************************************************************)
\* Unless something happened behind its back, nothing was read out of range;
\* its buttons are enabled and it shows now only with a file, and play back
\* interpolates if the options say so.
Quiet(b) ==
  b.hurt = {} =>
    /\ b.crash \notin {"index", "table"}
    /\ b.crash = "no" =>
         /\ b.ready \/ b.nowMode \/ b.playing => Usable(b)
         /\ b.playing /\ b.opts.interp => b.interpMode

\* `free`: no dialog may have changed the options.
Healthy(b, free) ==
  /\ Typed(b) /\ Sound(b) /\ Quiet(b)
  /\ b.crash = "no" /\ free => Fits(b) /\ Near(b)

\* The interval in force is one the file allows.
Allowed(b) == b.opts.slices \in 0..b.idx

LEMMA SlicesHaveStep ==
  ASSUME NEW b, b.opts \in Options, b.opts.slices >= 0
  PROVE  HasStep(b)
<1>1. b.opts.slices \in -1..(Len(StepTable) - 1)
  BY DEF Options
<1> QED
  BY <1>1, DomainOfTable DEF HasStep

\* What opening a file asks of the control bar it is opened in.
Openable(b) ==
  /\ b.opts \in Options /\ b.start \in 0..2 /\ b.max \in Nat
  /\ b.hurt \subseteq {"busy", "gone", "changed", "long"}

LEMMA ClearedTyped ==
  ASSUME NEW b, Openable(b)
  PROVE  LET c == [NewBar(b) EXCEPT !.idx = b.opts.slices, !.max = b.max,
                                    !.playing = b.playing]
         IN  /\ Typed(c) /\ OneStale(c) /\ c.file = NoFile /\ c.count = 0
             /\ c.idx = b.opts.slices /\ c.opts = b.opts /\ c.start = b.start
             /\ c.hurt = b.hurt /\ c.playing = b.playing /\ c.crash = "no"
             /\ c.hours = 0 /\ c.set = NoSet /\ ~c.nowMode /\ ~c.interpMode
<1> DEFINE c == [NewBar(b) EXCEPT !.idx = b.opts.slices, !.max = b.max,
                                  !.playing = b.playing]
<1>1. /\ IsBar(c) /\ c.file = NoFile /\ c.count = 0 /\ c.sel = -1 /\ c.stale = {}
      /\ c.shifted = {} /\ c.saved = NoLabel /\ c.val = 0 /\ c.max = b.max
      /\ c.idx = b.opts.slices /\ c.opts = b.opts /\ c.start = b.start
      /\ c.hurt = b.hurt /\ c.playing = b.playing /\ c.crash = "no"
      /\ c.hours = 0 /\ c.set = NoSet /\ ~c.nowMode /\ ~c.interpMode
  BY DEF NewBar, IsBar, BarFields
<1> HIDE DEF c
<1>2. Listed(c) /\ ~Usable(c)
  BY <1>1 DEF Listed, Ascending, Times, Usable, NoFile
<1>3. Placed(c) /\ Marked(c) /\ OneStale(c)
  BY <1>1 DEF Placed, Openable, Marked, OneStale, NoLabel
<1>4. Configured(c)
  <2>1. b.opts.slices \in -1..(Len(StepTable) - 1)
    BY DEF Openable, Options
  <2> QED
    BY <1>1, <2>1 DEF Configured, Openable
<1> QED
  BY <1>1, <1>2, <1>3, <1>4 DEF Typed, c

\* The interval in force is lowered to what the file allows.
LEMMA IntervalTyped ==
  ASSUME NEW b, Typed(b), OneStale(b), Usable(b), b.crash = "no", b.hours = 0
  PROVE  LET c == Interval(b)
         IN  /\ Typed(c) /\ OneStale(c) /\ c.file = b.file /\ c.set = b.set
             /\ c.start = b.start /\ c.playing = b.playing /\ c.sel = b.sel
             /\ c.nowMode = b.nowMode /\ c.interpMode = b.interpMode
             /\ c.max = b.max /\ c.ready = b.ready
             /\ \/ c.crash = "no" /\ c.hurt = b.hurt
                \/ c.crash = "table" /\ c.hurt = b.hurt \cup {"long"}
             /\ c.crash = "no" => c.hours = LastTime(b) - MinTime(b)
             /\ Allowed(b) => Allowed(c)
<1> DEFINE c == Interval(b)
<1>1. /\ Times(b) \in Seq(Nat) /\ Len(Times(b)) = b.count /\ b.count \in Nat \ {0}
      /\ MinTime(b) \in Nat /\ LastTime(b) \in Nat /\ MinTime(b) <= LastTime(b)
  BY TimesOfFile
<1>2. CASE Len(Times(b)) < 2
  <2>1. c = b
    BY <1>2 DEF Interval
  <2>2. Len(Times(b)) = 1
    BY <1>1, <1>2
  <2>3. LastTime(b) = MinTime(b)
    BY <2>2 DEF LastTime, MinTime
  <2>4. LastTime(b) - MinTime(b) = 0
    BY <1>1, <2>3
  <2> QED
    BY <2>1, <2>4
<1>3. CASE /\ Len(Times(b)) >= 2
           /\ 2 * StepTable[Len(StepTable)] <= Times(b)[2] - MinTime(b)
  <2> DEFINE d == [b EXCEPT !.hurt = @ \cup {"long"}]
  <2>1. c = [d EXCEPT !.crash = "table"]
    BY <1>1, <1>3 DEF Interval, Crash
  <2>2. /\ IsBar(d) /\ d.file = b.file /\ d.count = b.count /\ d.stale = b.stale
        /\ d.shifted = b.shifted /\ d.saved = b.saved /\ d.hours = b.hours
        /\ d.opts = b.opts /\ d.start = b.start /\ d.idx = b.idx
        /\ d.hurt = b.hurt \cup {"long"} /\ d.playing = b.playing /\ d.set = b.set
        /\ d.ready = b.ready /\ d.sel = b.sel /\ d.max = b.max /\ d.val = b.val
        /\ d.interpMode = b.interpMode /\ d.nowMode = b.nowMode
    BY DEF Typed, IsBar, BarFields
  <2> HIDE DEF d
  <2>3. /\ IsBar(c) /\ c.file = b.file /\ c.count = b.count /\ c.stale = b.stale
        /\ c.shifted = b.shifted /\ c.saved = b.saved /\ c.hours = b.hours
        /\ c.opts = b.opts /\ c.start = b.start /\ c.idx = b.idx /\ c.set = b.set
        /\ c.hurt = b.hurt \cup {"long"} /\ c.playing = b.playing
        /\ c.ready = b.ready /\ c.sel = b.sel /\ c.max = b.max /\ c.val = b.val
        /\ c.interpMode = b.interpMode /\ c.nowMode = b.nowMode /\ c.crash = "table"
    BY <2>1, <2>2 DEF IsBar, BarFields
  <2> HIDE DEF c
  <2>4. Typed(c) /\ OneStale(c)
    BY <2>3 DEF Typed, Listed, Times, Usable, Placed, Configured, Marked, OneStale
  <2>5. Allowed(b) => Allowed(c)
    BY <2>3 DEF Allowed
  <2> QED
    BY <2>3, <2>4, <2>5 DEF c
<1>4. CASE /\ Len(Times(b)) >= 2
           /\ ~(2 * StepTable[Len(StepTable)] <= Times(b)[2] - MinTime(b))
  <2> DEFINE above == {i \in DOMAIN StepTable : 2 * StepTable[i] > Times(b)[2] - MinTime(b)}
             idx == FileInterval(Times(b))
             hours == LastTime(b) - MinTime(b)
             slices == IF b.opts.slices > idx THEN idx ELSE b.opts.slices
             opts == [b.opts EXCEPT !.slices = slices]
  <2>1. idx \in 0..(Len(StepTable) - 1)
    <3>1. DOMAIN StepTable = 1..Len(StepTable) /\ Len(StepTable) \in Nat \ {0}
      BY DomainOfTable
    <3>2. StepTable[Len(StepTable)] \in Nat /\ Times(b)[2] \in Nat /\ MinTime(b) \in Nat
      BY <1>1, <1>4, <3>1, StepTableAssumption
    <3>3. Len(StepTable) \in above
      BY <1>4, <3>1, <3>2
    <3>4. above \in SUBSET Nat /\ above # {}
      BY <3>1, <3>3
    <3>5. Min(above) \in above
      BY <3>4, MinIsLeast
    <3>6. Min(above) \in 1..Len(StepTable)
      BY <3>1, <3>5
    <3>7. idx = IF Min(above) = 1 THEN 0 ELSE Min(above) - 2
      BY DEF FileInterval, MinTime
    <3> HIDE DEF above
    <3> QED
      BY <3>1, <3>6, <3>7
  <2>2. hours \in Nat
    BY <1>1
  <2> HIDE DEF idx, hours
  <2>3. b.opts.slices \in -1..(Len(StepTable) - 1) /\ b.opts \in Options
    BY DEF Typed, Configured, Options
  <2>4. slices \in -1..(Len(StepTable) - 1)
    BY <2>1, <2>3
  <2>5. b.opts.slices \in 0..b.idx => slices \in 0..idx
    BY <2>1, <2>3
  <2>6. c = [b EXCEPT !.hours = hours, !.idx = idx, !.opts = opts]
    BY <1>1, <1>4 DEF Interval, idx, hours, Typed, IsBar, BarFields
  <2> HIDE DEF slices
  <2>7. opts \in Options /\ opts.slices = slices
    BY <2>3, <2>4 DEF Options
  <2> HIDE DEF opts
  <2>8. /\ IsBar(c) /\ c.file = b.file /\ c.count = b.count /\ c.stale = b.stale
        /\ c.shifted = b.shifted /\ c.saved = b.saved /\ c.hours = hours
        /\ c.opts = opts /\ c.start = b.start /\ c.idx = idx /\ c.set = b.set
        /\ c.hurt = b.hurt /\ c.playing = b.playing
        /\ c.ready = b.ready /\ c.sel = b.sel /\ c.max = b.max /\ c.val = b.val
        /\ c.interpMode = b.interpMode /\ c.nowMode = b.nowMode /\ c.crash = b.crash
    BY <2>6 DEF Typed, IsBar, BarFields
  <2> HIDE DEF c
  <2>9. Listed(c) /\ Placed(c) /\ Marked(c) /\ OneStale(c)
    BY <2>2, <2>8 DEF Typed, Listed, Times, Usable, Placed, Marked, OneStale
  <2>10. Configured(c)
    <3>1. idx \in -1..(Len(StepTable) - 1)
      BY <2>1
    <3> QED
      BY <2>7, <2>8, <3>1 DEF Typed, Configured
  <2>11. Allowed(b) => Allowed(c)
    BY <2>5, <2>7, <2>8 DEF Allowed
  <2> QED
    BY <2>8, <2>9, <2>10, <2>11 DEF Typed, c, hours
<1>5. Len(Times(b)) >= 2 \/ Len(Times(b)) < 2
  BY <1>1
<1> QED
  BY <1>2, <1>3, <1>4, <1>5

LEMMA OpenedTyped ==
  ASSUME NEW b, Openable(b), NEW load, load.ok => Ascending(InOrder(DOMAIN load.sets)),
         NEW gen
  PROVE  LET c == Opened(b, load, gen)
         IN  /\ Typed(c) /\ OneStale(c) /\ c.playing = b.playing
             /\ ~c.nowMode /\ ~c.interpMode
             /\ \/ c.crash = "no" /\ c.hurt = b.hurt
                \/ c.crash = "table" /\ c.hurt = b.hurt \cup {"long"}
             /\ Usable(c) => c.sel >= 0 /\ (c.crash = "no" => c.hours = LastTime(c) - MinTime(c))
             /\ ~Usable(c) => c.hours = 0
             /\ b.opts.slices >= 0 => Allowed(c)
<1> DEFINE c == Opened(b, load, gen)
           times == DatesRead(load)
           cleared == [NewBar(b) EXCEPT !.idx = b.opts.slices, !.max = b.max,
                                        !.playing = b.playing]
           file == [gen |-> gen, ok |-> TRUE, times |-> times]
           filed == [cleared EXCEPT !.file = file]
           listed == PopulateComboDataList(filed)
<1>1. c = IF times = <<>> THEN cleared ELSE Interval(listed)
  BY DEF Opened
<1>2. /\ Typed(cleared) /\ OneStale(cleared) /\ cleared.file = NoFile /\ cleared.count = 0
      /\ cleared.idx = b.opts.slices /\ cleared.opts = b.opts /\ cleared.start = b.start
      /\ cleared.hurt = b.hurt /\ cleared.playing = b.playing /\ cleared.crash = "no"
      /\ cleared.hours = 0 /\ cleared.set = NoSet /\ ~cleared.nowMode /\ ~cleared.interpMode
  BY ClearedTyped
<1>3. Ascending(times)
  BY DEF Ascending, DatesRead
<1>4. b.opts.slices >= 0 => b.opts.slices \in 0..b.opts.slices
  <2>1. b.opts.slices \in Int
    BY DEF Openable, Options
  <2> QED
    BY <2>1
<1> HIDE DEF cleared, times
<1>5. CASE times = <<>>
  <2>1. c = cleared
    BY <1>1, <1>5
  <2>2. ~Usable(cleared)
    BY <1>2 DEF Usable
  <2> HIDE DEF c
  <2>3. b.opts.slices >= 0 => Allowed(c)
    BY <1>2, <1>4, <2>1 DEF Allowed
  <2> QED
    BY <1>2, <2>1, <2>2, <2>3 DEF c
<1>6. CASE times # <<>>
  <2>1. /\ filed.file = file /\ filed.count = 0
        /\ filed.idx = b.opts.slices /\ filed.opts = b.opts /\ filed.start = b.start
        /\ filed.hurt = b.hurt /\ filed.playing = b.playing /\ filed.crash = "no"
        /\ filed.hours = 0 /\ filed.set = NoSet /\ ~filed.nowMode /\ ~filed.interpMode
    BY <1>2 DEF Typed, IsBar, BarFields
  <2>2. /\ IsBar(filed) /\ filed.sel = cleared.sel /\ filed.saved = cleared.saved
        /\ filed.max = cleared.max /\ filed.val = cleared.val
    BY <1>2 DEF Typed, IsBar, BarFields
  <2>3. file # NoFile /\ file.ok /\ file.times = times
    BY DEF NoFile
  <2> HIDE DEF filed, file
  <2>4. Usable(filed) /\ Times(filed) = times
    BY <2>1, <2>3 DEF Usable, Times
  <2>5. Unlisted(filed)
    <3>1. Placed(filed) /\ Configured(filed)
      BY <1>2, <2>1, <2>2 DEF Typed, Placed, Configured
    <3>2. filed.saved \in [index : Int, stale : BOOLEAN]
      BY <1>2, <2>2 DEF Typed, Marked
    <3> QED
      BY <1>3, <1>6, <2>1, <2>2, <2>4, <3>1, <3>2 DEF Unlisted
  <2> DEFINE l == listed
  <2>6. /\ Typed(l) /\ OneStale(l) /\ l.file = filed.file /\ l.opts = filed.opts
        /\ l.idx = filed.idx /\ l.hours = filed.hours /\ l.hurt = filed.hurt
        /\ l.playing = filed.playing
        /\ l.interpMode = filed.interpMode /\ l.nowMode = filed.nowMode
        /\ l.crash = filed.crash /\ l.sel >= 0
    BY <2>1, <2>4, <2>5, PopulateRests
  <2>7. c = Interval(l)
    BY <1>1, <1>6
  <2> HIDE DEF l
  <2>8. Usable(l) /\ (b.opts.slices >= 0 => Allowed(l))
    BY <1>4, <2>1, <2>4, <2>6 DEF Usable, Allowed
  <2>9. /\ Typed(c) /\ OneStale(c) /\ c.file = l.file
        /\ c.playing = l.playing /\ c.sel = l.sel
        /\ c.nowMode = l.nowMode /\ c.interpMode = l.interpMode
        /\ \/ c.crash = "no" /\ c.hurt = l.hurt
           \/ c.crash = "table" /\ c.hurt = l.hurt \cup {"long"}
        /\ c.crash = "no" => c.hours = LastTime(l) - MinTime(l)
        /\ Allowed(l) => Allowed(c)
    BY <2>1, <2>6, <2>7, <2>8, IntervalTyped
  <2> HIDE DEF c
  <2>10. Usable(c) /\ LastTime(c) = LastTime(l) /\ MinTime(c) = MinTime(l)
    BY <2>8, <2>9 DEF Usable, LastTime, MinTime, Times
  <2> QED
    BY <2>1, <2>6, <2>8, <2>9, <2>10 DEF c
<1> QED
  BY <1>5, <1>6

LEMMA EnabledTyped ==
  ASSUME NEW b, Typed(b)
  PROVE  LET c == EnableButtons(b)
         IN  /\ Typed(c) /\ (OneStale(b) => OneStale(c))
             /\ c.file = b.file /\ c.opts = b.opts /\ c.idx = b.idx /\ c.hours = b.hours
             /\ c.hurt = b.hurt /\ c.playing = b.playing /\ c.max = b.max
             /\ c.nowMode = b.nowMode /\ c.interpMode = b.interpMode
             /\ c.crash = b.crash /\ c.sel = b.sel /\ c.val = b.val /\ c.set = b.set
             /\ c.ready => b.hours # 0
<1> DEFINE k == b.set # NoSet /\ b.hours # 0
           c == [b EXCEPT !.ready = k]
<1>1. EnableButtons(b) = c
  BY DEF EnableButtons
<1>2. k => b.hours # 0
  OBVIOUS
<1> HIDE DEF k
<1>3. /\ IsBar(c) /\ c.file = b.file /\ c.count = b.count /\ c.stale = b.stale
      /\ c.shifted = b.shifted /\ c.saved = b.saved /\ c.hours = b.hours
      /\ c.opts = b.opts /\ c.start = b.start /\ c.idx = b.idx /\ c.set = b.set
      /\ c.hurt = b.hurt /\ c.playing = b.playing
      /\ c.ready = k /\ c.sel = b.sel /\ c.max = b.max /\ c.val = b.val
      /\ c.interpMode = b.interpMode /\ c.nowMode = b.nowMode /\ c.crash = b.crash
  BY DEF Typed, IsBar, BarFields
<1> HIDE DEF c
<1>4. Typed(c) /\ (OneStale(b) => OneStale(c))
  BY <1>3 DEF Typed, Listed, Times, Usable, Placed, Configured, Marked, OneStale
<1> QED
  BY <1>1, <1>2, <1>3, <1>4

\* Whatever the files hold, a control bar that opens them is healthy.
LEMMA OpenFileHealthy ==
  ASSUME NEW b, Openable(b), NEW load, load.ok => Ascending(InOrder(DOMAIN load.sets)),
         NEW gen, now \in Nat, "busy" \notin b.hurt => ~b.playing /\ b.opts.slices >= 0
  PROVE  LET c == OpenFile(b, load, gen)
         IN  /\ Healthy(c, TRUE) /\ c.playing = b.playing
             /\ b.hurt \subseteq c.hurt /\ c.hurt \subseteq b.hurt \cup {"long"}
             /\ "busy" \notin c.hurt => Allowed(c)
<1> DEFINE o == Opened(b, load, gen)
           r == SetTimeLineMax(o, FALSE)
           c == OpenFile(b, load, gen)
<1>1. c = IF o.crash # "no" THEN o ELSE ShowOpened(r)
  BY DEF OpenFile
<1>2. /\ Typed(o) /\ OneStale(o) /\ o.playing = b.playing
      /\ ~o.nowMode /\ ~o.interpMode
      /\ \/ o.crash = "no" /\ o.hurt = b.hurt
         \/ o.crash = "table" /\ o.hurt = b.hurt \cup {"long"}
      /\ Usable(o) => o.sel >= 0 /\ (o.crash = "no" => o.hours = LastTime(o) - MinTime(o))
      /\ ~Usable(o) => o.hours = 0
      /\ b.opts.slices >= 0 => Allowed(o)
  BY OpenedTyped
<1> HIDE DEF o
<1>3. CASE o.crash # "no"
  <2>1. c = o
    BY <1>1, <1>3
  <2>2. "busy" \notin o.hurt => Allowed(o)
    BY <1>2, <1>3
  <2>3. Healthy(o, TRUE)
    BY <1>2, <1>3 DEF Healthy, Sound, Quiet
  <2> HIDE DEF c
  <2> QED
    BY <1>2, <1>3, <2>1, <2>2, <2>3 DEF c
<1>4. CASE o.crash = "no"
  <2>1. c = ShowOpened(r)
    BY <1>1, <1>4
  <2>2. /\ Descends(r, o)
        /\ r.crash = "no" => (o.opts.interp => HasStep(o)) /\ Fits(r)
        /\ HasStep(o) => r.crash = "no"
        /\ Usable(o) /\ o.sel >= 0 /\ r.crash = "no" => r.sel >= 0
        /\ r.interpMode = o.interpMode /\ r.nowMode = o.nowMode
    BY <1>2, <1>4, SetTimeLineMaxDescends
  <2>3. "busy" \notin b.hurt => HasStep(o) /\ Allowed(o)
    <3>1. ASSUME "busy" \notin b.hurt PROVE HasStep(o) /\ Allowed(o)
      <4>1. Allowed(o)
        BY <1>2, <3>1
      <4>2. o.opts \in Options /\ o.idx \in Int
        BY <1>2 DEF Typed, Configured
      <4>3. o.opts.slices \in Int
        BY <4>2 DEF Options
      <4>4. o.opts.slices >= 0
        BY <4>1, <4>2, <4>3 DEF Allowed
      <4> QED
        BY <4>1, <4>2, <4>4, SlicesHaveStep
    <3> QED
      BY <3>1
  <2> HIDE DEF r
  <2>4. /\ Typed(r) /\ OneStale(r) /\ (Usable(r) <=> Usable(o)) /\ (HasStep(r) <=> HasStep(o))
        /\ LastTime(r) = LastTime(o) /\ MinTime(r) = MinTime(o) /\ r.hours = o.hours
        /\ r.opts = o.opts /\ r.hurt = b.hurt /\ r.playing = b.playing /\ r.idx = o.idx
        /\ (Allowed(r) <=> Allowed(o))
    BY <1>2, <1>4, <2>2 DEF Descends, Usable, HasStep, LastTime, MinTime, Times, Allowed
  <2>5. CASE r.crash # "no"
    <3>1. c = r
      BY <2>1, <2>5 DEF ShowOpened
    <3>2. "busy" \in r.hurt
      BY <2>2, <2>3, <2>4, <2>5
    <3>3. Healthy(r, TRUE)
      BY <2>4, <2>5, <3>2 DEF Healthy, Sound, Quiet
    <3> HIDE DEF c
    <3> QED
      BY <2>4, <3>1, <3>2, <3>3 DEF c
  <2>6. CASE r.crash = "no"
    <3> DEFINE near == r.start # 0 /\ r.hours # 0
               best == ComputeBestForecastForNow(r)
               line == TimelineChanged(r)
               d == IF near THEN best ELSE line
    <3>1. c = EnableButtons(d)
      BY <2>1, <2>6 DEF ShowOpened
    <3>2. /\ Fits(r) /\ Spans(r)
          /\ Usable(r) => r.sel >= 0 /\ (r.opts.interp => HasStep(r))
      BY <1>2, <1>4, <2>2, <2>4, <2>6 DEF Spans, Regular
    <3>3. /\ Descends(best, r) /\ best.max = r.max
          /\ ~Usable(r) => best = r
          /\ HasStep(r) => best.crash = "no"
          /\ Usable(r) /\ best.crash = "no" => best.sel >= 0
          /\ best.crash = "no" => Near(best)
      BY <2>4, <2>6, <3>2, ComputeBestDescends
    <3>4. /\ Descends(line, r) /\ line.max = r.max
          /\ ~Usable(r) => line = r
          /\ HasStep(r) /\ Usable(r) => line.crash = "no"
          /\ Usable(r) /\ line.crash = "no" => line.sel >= 0
          /\ line.crash = "no" => Near(line)
      BY <2>4, <2>6, <3>2, TimelineChangedFollows, TimelineChangedNear DEF Follows
    <3> HIDE DEF near, best, line
    <3>5. /\ Descends(d, r) /\ d.max = r.max
          /\ ~Usable(r) => d = r
          /\ HasStep(r) => d.crash = "no"
          /\ Usable(r) /\ d.crash = "no" => d.sel >= 0
          /\ d.crash = "no" => Near(d)
      BY <2>6, <3>3, <3>4
    <3> HIDE DEF d
    <3>6. /\ Typed(d) /\ OneStale(d) /\ (Usable(d) <=> Usable(r)) /\ (HasStep(d) <=> HasStep(r))
          /\ LastTime(d) = LastTime(r) /\ MinTime(d) = MinTime(r) /\ d.hours = r.hours
          /\ d.opts = r.opts /\ d.hurt = r.hurt /\ d.playing = r.playing /\ d.idx = r.idx
          /\ Fits(d) /\ Spans(d)
      BY <2>4, <3>2, <3>5 DEF Descends, Usable, HasStep, LastTime, MinTime, Times, Fits, Spans, Regular, Step
    <3>7. /\ Typed(c) /\ OneStale(c)
          /\ c.file = d.file /\ c.opts = d.opts /\ c.idx = d.idx /\ c.hours = d.hours
          /\ c.hurt = d.hurt /\ c.playing = d.playing /\ c.max = d.max
          /\ c.nowMode = d.nowMode /\ c.interpMode = d.interpMode
          /\ c.crash = d.crash /\ c.sel = d.sel /\ c.val = d.val /\ c.set = d.set
          /\ c.ready => d.hours # 0
      BY <3>1, <3>6, EnabledTyped
    <3> HIDE DEF c
    <3>8. /\ (Usable(c) <=> Usable(d)) /\ (HasStep(c) <=> HasStep(d))
          /\ LastTime(c) = LastTime(d) /\ MinTime(c) = MinTime(d) /\ Fits(c)
          /\ Spans(c) /\ (Near(d) => Near(c))
      BY <3>6, <3>7 DEF Usable, HasStep, LastTime, MinTime, Times, Fits, Spans, Regular, Near,
                        At, Step
    <3>9. Sound(c)
      BY <2>4, <3>2, <3>5, <3>6, <3>7, <3>8 DEF Sound
    <3>10. "busy" \notin c.hurt => Allowed(c) /\ c.crash = "no" /\ ~c.playing
      BY <2>3, <2>4, <3>5, <3>6, <3>7 DEF Allowed
    <3>11. ~Usable(c) => ~c.ready /\ ~c.nowMode
      BY <1>2, <2>2, <2>4, <3>5, <3>6, <3>7, <3>8
    <3>12. Quiet(c)
      BY <3>10, <3>11 DEF Quiet
    <3>13. Healthy(c, TRUE)
      BY <3>5, <3>7, <3>8, <3>9, <3>12 DEF Healthy
    <3> QED
      BY <2>4, <3>6, <3>7, <3>10, <3>13 DEF c
  <2> QED
    BY <2>5, <2>6
<1> QED
  BY <1>3, <1>4

-----------------------------------------------------------------------------
(***************************************************************************)
(* Before the time line changes, and after it.                             *)
(***************************************************************************)
Prepared(b, free) ==
  /\ Typed(b) /\ OneStale(b) /\ Spans(b) /\ b.crash = "no" /\ (free => Fits(b))
  /\ b.hurt = {} =>
       /\ HasStep(b) /\ (b.ready \/ b.nowMode \/ b.playing => Usable(b))
       /\ b.playing /\ b.opts.interp => b.interpMode

\* What Fits, Near and the like read of a control bar.
LEMMA FileAlike ==
  ASSUME NEW b, NEW c, c.file = b.file, c.opts = b.opts, c.hours = b.hours
  PROVE  /\ (Usable(c) <=> Usable(b)) /\ (HasStep(c) <=> HasStep(b))
         /\ Times(c) = Times(b) /\ Step(c) = Step(b)
         /\ LastTime(c) = LastTime(b) /\ MinTime(c) = MinTime(b)
         /\ c.val = b.val => At(c) = At(b)
         /\ c.hurt = b.hurt =>
              /\ (Regular(c) <=> Regular(b)) /\ (Spans(c) <=> Spans(b))
              /\ c.max = b.max => (Fits(c) <=> Fits(b))
              /\ c.val = b.val /\ c.set = b.set => (Near(c) <=> Near(b))
BY DEF Usable, HasStep, Times, Step, LastTime, MinTime, Fits, Spans, Regular, At, Near

LEMMA LineHealthy ==
  ASSUME NEW b, NEW free, Prepared(b, free),
         b.hurt = {} /\ Usable(b) => b.interpMode \/ b.sel >= 0
  PROVE  Healthy(TimelineChanged(b), free) /\ Follows(TimelineChanged(b), b)
<1> DEFINE c == TimelineChanged(b)
<1>1. /\ Follows(c, b)
      /\ ~Usable(b) => c = b
      /\ HasStep(b) /\ (b.interpMode \/ b.sel >= 0) => c.crash = "no"
      /\ Usable(b) /\ c.crash = "no" =>
           c.sel >= 0 /\ (b.opts.interp \/ b.interpMode => HasStep(b))
  BY TimelineChangedFollows DEF Prepared
<1>2. c.crash = "no" /\ free => Fits(c) /\ Near(c)
  BY TimelineChangedNear DEF Prepared
<1> HIDE DEF c
<1>3. /\ Typed(c) /\ OneStale(c) /\ c.file = b.file /\ c.opts = b.opts
      /\ c.hours = b.hours /\ c.hurt = b.hurt /\ c.playing = b.playing
      /\ c.ready = b.ready /\ c.interpMode = b.interpMode /\ c.nowMode = b.nowMode
  BY <1>1 DEF Follows, Descends, Prepared
<1>4. /\ (Usable(c) <=> Usable(b)) /\ (HasStep(c) <=> HasStep(b))
      /\ (Spans(c) <=> Spans(b))
  BY <1>3, FileAlike
<1>5. Sound(c)
  BY <1>1, <1>3, <1>4 DEF Sound, Prepared
<1>6. Quiet(c)
  BY <1>1, <1>3, <1>4 DEF Quiet, Prepared
<1> QED
  BY <1>1, <1>2, <1>3, <1>5, <1>6 DEF Healthy, c

LEMMA BestHealthy ==
  ASSUME NEW b, NEW free, Prepared(b, free), now \in Nat,
         Usable(b) /\ b.opts.interp => HasStep(b)
  PROVE  Healthy(ComputeBestForecastForNow(b), free)
         /\ Descends(ComputeBestForecastForNow(b), b)
<1> DEFINE c == ComputeBestForecastForNow(b)
<1>1. /\ Descends(c, b) /\ c.max = b.max
      /\ ~Usable(b) => c = b
      /\ HasStep(b) => c.crash = "no"
      /\ Usable(b) /\ c.crash = "no" => c.sel >= 0 /\ (b.opts.interp => c.interpMode)
      /\ c.crash = "no" /\ free => Near(c)
  BY ComputeBestDescends DEF Prepared
<1> HIDE DEF c
<1>2. /\ Typed(c) /\ OneStale(c) /\ c.file = b.file /\ c.opts = b.opts
      /\ c.hours = b.hours /\ c.hurt = b.hurt /\ c.playing = b.playing
      /\ c.ready = b.ready
  BY <1>1 DEF Descends, Prepared
<1>3. /\ (Usable(c) <=> Usable(b)) /\ (HasStep(c) <=> HasStep(b))
      /\ (Spans(c) <=> Spans(b))
      /\ (Fits(c) <=> Fits(b))
  BY <1>1, <1>2, FileAlike
<1>4. Sound(c)
  BY <1>1, <1>2, <1>3 DEF Sound, Prepared
<1>5. Quiet(c)
  BY <1>1, <1>2, <1>3 DEF Quiet, Prepared
<1>6. c.crash = "no" /\ free => Fits(c) /\ Near(c)
  BY <1>1, <1>3 DEF Prepared
<1> QED
  BY <1>1, <1>2, <1>4, <1>5, <1>6 DEF Healthy, c

LEMMA RestsPrepared ==
  ASSUME NEW b, NEW free, Prepared(b, free), NEW c, Rests(c, b)
  PROVE  Prepared(c, free)
<1>1. /\ Typed(c) /\ OneStale(c) /\ c.file = b.file /\ c.opts = b.opts
      /\ c.hours = b.hours /\ c.hurt = b.hurt /\ c.playing = b.playing
      /\ c.ready = b.ready /\ c.interpMode = b.interpMode /\ c.nowMode = b.nowMode
      /\ c.max = b.max /\ c.crash = "no"
  BY DEF Rests, Follows, Descends, Prepared
<1>2. /\ (Usable(c) <=> Usable(b)) /\ (HasStep(c) <=> HasStep(b))
      /\ (Spans(c) <=> Spans(b)) /\ (Fits(c) <=> Fits(b))
  BY <1>1, FileAlike
<1> QED
  BY <1>1, <1>2 DEF Prepared

\* In other modes, and perhaps with play back stopped or another start option.
Retuned(c, b) ==
  /\ IsBar(c) /\ c.file = b.file /\ c.count = b.count /\ c.stale = b.stale
  /\ c.shifted = b.shifted /\ c.saved = b.saved /\ c.hours = b.hours
  /\ c.opts = b.opts /\ c.start \in 0..2 /\ c.idx = b.idx
  /\ c.hurt = b.hurt /\ c.ready = b.ready /\ c.set = b.set /\ c.crash = b.crash
  /\ c.sel = b.sel /\ c.max = b.max /\ c.val = b.val
  /\ c.nowMode => b.nowMode

LEMMA RetunedTyped ==
  ASSUME NEW b, Typed(b), NEW c, Retuned(c, b)
  PROVE  Typed(c) /\ (OneStale(b) => OneStale(c))
BY DEF Retuned, Typed, Listed, Times, Usable, Placed, Configured, Marked, OneStale

LEMMA RetunedPrepared ==
  ASSUME NEW b, NEW free, Prepared(b, free), NEW c, Retuned(c, b),
         c.playing => b.playing \/ b.ready,
         c.playing => c.interpMode \/ ~c.opts.interp \/ (b.playing /\ c.interpMode = b.interpMode)
  PROVE  Prepared(c, free)
<1>1. Typed(c) /\ OneStale(c)
  BY RetunedTyped DEF Prepared
<1>2. /\ (Usable(c) <=> Usable(b)) /\ (HasStep(c) <=> HasStep(b))
      /\ (Spans(c) <=> Spans(b)) /\ (Fits(c) <=> Fits(b))
  BY FileAlike DEF Retuned
<1> QED
  BY <1>1, <1>2 DEF Prepared, Retuned

LEMMA RetunedHealthy ==
  ASSUME NEW b, NEW free, Healthy(b, free), NEW c, Retuned(c, b),
         c.playing => b.playing \/ b.ready,
         c.playing => c.interpMode \/ ~c.opts.interp \/ (b.playing /\ c.interpMode = b.interpMode)
  PROVE  Healthy(c, free)
<1>1. Typed(c) /\ (OneStale(b) => OneStale(c))
  BY RetunedTyped DEF Healthy
<1>2. /\ (Usable(c) <=> Usable(b)) /\ (HasStep(c) <=> HasStep(b))
      /\ (Spans(c) <=> Spans(b)) /\ (Fits(c) <=> Fits(b))
      /\ (Near(c) <=> Near(b))
  BY FileAlike DEF Retuned
<1>3. Sound(c)
  BY <1>1, <1>2 DEF Healthy, Sound, Retuned
<1>4. Quiet(c)
  BY <1>2 DEF Healthy, Quiet, Retuned
<1> QED
  BY <1>1, <1>2, <1>3, <1>4 DEF Healthy, Retuned

LEMMA StopPlayBackRetuned ==
  ASSUME NEW b, Typed(b)
  PROVE  Retuned(StopPlayBack(b), b) /\ ~StopPlayBack(b).playing
BY DEF StopPlayBack, Retuned, Typed, Configured, IsBar, BarFields

\* A record is selected.
LEMMA AtRecordPrepared ==
  ASSUME NEW b, NEW free, Prepared(b, free), ~b.playing, NEW i
  PROVE  LET c == AtRecord(b, i)
         IN  /\ Prepared(c, free) /\ ~c.playing /\ c.file = b.file /\ c.count = b.count
             /\ c.hurt = b.hurt /\ c.opts = b.opts /\ c.idx = b.idx /\ c.set = b.set
             /\ c.val = b.val /\ c.max = b.max /\ c.hours = b.hours
             /\ ~c.nowMode
             /\ i \in 0..(b.count - 1) => c.sel = i
<1> DEFINE d == [b EXCEPT !.nowMode = FALSE, !.interpMode = FALSE]
           c == AtRecord(b, i)
<1>1. c = SetSelection(d, i)
  BY DEF AtRecord
<1>2. Retuned(d, b) /\ d.playing = b.playing /\ ~d.nowMode
  BY DEF Retuned, Prepared, Typed, Configured, IsBar, BarFields
<1> HIDE DEF d
<1>3. Prepared(d, free)
  BY <1>2, RetunedPrepared
<1>4. Rests(c, d) /\ (i \in 0..(d.count - 1) => c.sel = i) /\ c.val = d.val
  BY <1>1, <1>3, SetSelectionRests DEF Prepared
<1> HIDE DEF c
<1>5. Prepared(c, free)
  BY <1>3, <1>4, RestsPrepared
<1> QED
  BY <1>2, <1>4, <1>5 DEF Rests, Follows, Descends, Retuned, c

LEMMA OutdatedTyped ==
  ASSUME NEW b, Typed(b)
  PROVE  LET c == Outdated(b)
         IN  /\ Typed(c) /\ (~Usable(b) => OneStale(c))
             /\ c.file = b.file /\ c.count = b.count /\ c.opts = b.opts
             /\ c.start = b.start /\ c.idx = b.idx /\ c.hours = b.hours
             /\ c.hurt = b.hurt /\ c.playing = b.playing /\ c.ready = b.ready
             /\ c.set = b.set /\ c.crash = b.crash /\ c.sel = b.sel /\ c.max = b.max
             /\ c.val = b.val /\ c.nowMode = b.nowMode /\ c.interpMode = b.interpMode
<1> DEFINE s == [b.saved EXCEPT !.stale = TRUE]
           saved == IF b.saved = NoLabel THEN b.saved ELSE s
           c == [b EXCEPT !.stale = 0..(b.count - 1) \ b.shifted, !.saved = saved]
<1>1. Outdated(b) = c
  BY DEF Outdated
<1>2. saved \in [index : Int, stale : BOOLEAN] /\ saved.index = b.saved.index
  BY DEF Typed, Marked
<1> HIDE DEF saved
<1>3. /\ IsBar(c) /\ c.file = b.file /\ c.count = b.count /\ c.opts = b.opts
      /\ c.start = b.start /\ c.idx = b.idx /\ c.hours = b.hours
      /\ c.hurt = b.hurt /\ c.playing = b.playing /\ c.ready = b.ready
      /\ c.set = b.set /\ c.crash = b.crash /\ c.sel = b.sel /\ c.max = b.max
      /\ c.val = b.val /\ c.nowMode = b.nowMode /\ c.interpMode = b.interpMode
      /\ c.stale = 0..(b.count - 1) \ b.shifted /\ c.saved = saved
      /\ c.shifted = b.shifted
  BY DEF Typed, IsBar, BarFields
<1> HIDE DEF c
<1>4. Typed(c)
  BY <1>2, <1>3 DEF Typed, Listed, Times, Usable, Placed, Configured, Marked
<1>5. ~Usable(b) => c.stale = {}
  BY <1>3 DEF Typed, Listed
<1>6. c.stale = {} => OneStale(c)
  BY <1>2, <1>3 DEF OneStale
<1> QED
  BY <1>1, <1>3, <1>4, <1>5, <1>6

-----------------------------------------------------------------------------
(***************************************************************************)
(* The invariant: what holds between two events.                           *)
(***************************************************************************)
Bounded ==
  opens \in 0..MaxOpens /\ changes \in 0..MaxChanges /\ now \in Clock \cup {0}

\* What the factory draws is the set of a usable file.
Drawn ==
  view # "none" /\ bar.crash = "no" /\ factory # NoSet => Usable(bar) /\ factory = bar.set

\* The dialog is open while nothing plays, and only where it can be seen.
Dialog ==
  /\ modal = NoModal \/ modal \in [open : {TRUE}, init : Options, idx : Int]
  /\ modal.open => view = "shown"
  /\ bar.playing => view = "shown" /\ ~modal.open

\* Unless a file was opened behind its back, every interval that could come
\* into force is one the file allows.
Intervals ==
  "busy" \notin bar.hurt =>
    /\ stored.slices >= 0 /\ (view # "none" => Allowed(bar))
    /\ modal.open => modal.idx = bar.idx /\ modal.init.slices \in 0..modal.idx

BarInv ==
  /\ view \in {"none", "hidden", "shown"} /\ stored \in Options
  /\ Healthy(bar, ~modal.open) /\ Drawn /\ Dialog /\ Intervals

LEMMA NowIsNat ==
  ASSUME Bounded
  PROVE  now \in Nat
BY BoundsAssumption DEF Bounded

LEMMA AllowedHasStep ==
  ASSUME NEW b, Typed(b), Allowed(b)
  PROVE  HasStep(b) /\ b.opts.slices >= 0
<1>1. b.opts \in Options /\ b.idx \in Int
  BY DEF Typed, Configured
<1>2. b.opts.slices \in Int
  BY <1>1 DEF Options
<1>3. b.opts.slices >= 0
  BY <1>1, <1>2 DEF Allowed
<1> QED
  BY <1>1, <1>3, SlicesHaveStep

LEMMA BarPrepared ==
  ASSUME BarInv, view # "none", bar.crash = "no"
  PROVE  /\ Prepared(bar, ~modal.open)
         /\ Usable(bar) => bar.sel >= 0 /\ (bar.opts.interp => HasStep(bar))
<1>1. bar.hurt = {} => HasStep(bar)
  BY AllowedHasStep DEF BarInv, Healthy, Intervals
<1> QED
  BY <1>1 DEF BarInv, Healthy, Sound, Quiet, Prepared

\* An event that leaves c behind, and all else but the counters alone.
Onward(c) ==
  /\ c.playing => view = "shown" /\ ~modal.open
  /\ bar.hurt \subseteq c.hurt /\ c.opts = bar.opts /\ c.idx = bar.idx
  /\ view' = view /\ stored' = stored /\ modal' = modal

\* It shows c, or shows nothing anew.
Handed(c) ==
  \/ Show(c)
  \/ Keep(c) /\ (c.crash = "no" => c.set = bar.set /\ (Usable(bar) => Usable(c)))

LEMMA EventStep ==
  ASSUME NEW c, BarInv, bar.crash = "no", Healthy(c, ~modal.open),
         Onward(c), Handed(c)
  PROVE  BarInv'
<1>1. bar' = c
  BY DEF Handed, Show, Keep
<1>2. Healthy(bar, ~modal.open)'
  BY <1>1 DEF Onward
<1>3. Drawn'
  BY <1>1 DEF Drawn, BarInv, Onward, Handed, Show, Keep, Usable
<1>4. Dialog'
  BY <1>1 DEF Dialog, BarInv, Onward
<1>5. Intervals'
  BY <1>1 DEF Intervals, BarInv, Onward, Allowed
<1> QED
  BY <1>2, <1>3, <1>4, <1>5 DEF BarInv, Onward

LEMMA MadeFrom ==
  ASSUME NEW l \in Loads
  PROVE  /\ l.files \in DOMAIN Files /\ Files[l.files] \in Seq(Seq(Message))
         /\ l.cum \in BOOLEAN /\ l.wave \in BOOLEAN /\ l.newest \in BOOLEAN
         /\ Made(l) = GRIBFile(Files[l.files], l.cum, l.wave, l.newest)
<1>1. /\ l.files \in DOMAIN Files /\ Files[l.files] \in Seq(Seq(Message))
      /\ l.cum \in BOOLEAN /\ l.wave \in BOOLEAN /\ l.newest \in BOOLEAN
  BY FilesAssumption DEF Loads
<1>2. Made(l) = GRIBFile(Files[l.files], l.cum, l.wave, l.newest)
  BY <1>1 DEF Made, LoadOf
<1> QED
  BY <1>1, <1>2

LEMMA MadeAscending ==
  ASSUME NEW l \in Loads, Made(l).ok
  PROVE  Ascending(InOrder(DOMAIN Made(l).sets))
<1> DEFINE files == Files[l.files]
<1>1. /\ l.files \in DOMAIN Files /\ files \in Seq(Seq(Message))
      /\ l.cum \in BOOLEAN /\ l.wave \in BOOLEAN /\ l.newest \in BOOLEAN
  BY FilesAssumption DEF Loads
<1>2. Made(l) = GRIBFile(files, l.cum, l.wave, l.newest)
  BY <1>1, MadeFrom
<1> HIDE DEF files
<1>3. LET dates == DOMAIN Made(l).sets
      IN  InOrder(dates) \in Seq(Nat) /\ Orders(InOrder(dates), dates)
  BY <1>1, <1>2, LoadDates
<1> QED
  BY <1>3 DEF Ascending, Orders

\* A file opened in a control bar that is not in the middle of something.
LEMMA OpenStep ==
  ASSUME NEW b, NEW l \in Loads, Bounded, OpenAnyFile(b, l), Openable(b),
         "busy" \notin b.hurt => ~b.playing /\ b.opts.slices >= 0
  PROVE  /\ Healthy(bar, TRUE)' /\ bar'.playing = b.playing
         /\ b.hurt \subseteq bar'.hurt
         /\ "busy" \notin bar'.hurt => Allowed(bar)'
         /\ bar'.crash = "no" /\ factory' # NoSet => Usable(bar)' /\ factory' = bar'.set
<1> DEFINE load == Made(l)
           gen == opens + changes + 1
           c == OpenFile(b, load, gen)
<1>1. load.ok => Ascending(InOrder(DOMAIN load.sets))
  BY MadeAscending
<1> HIDE DEF load, gen
<1>2. /\ Healthy(c, TRUE) /\ c.playing = b.playing
      /\ b.hurt \subseteq c.hurt
      /\ "busy" \notin c.hurt => Allowed(c)
  BY <1>1, NowIsNat, OpenFileHealthy
<1>3. Show(c)
  BY DEF OpenAnyFile, load, gen
<1> HIDE DEF c
<1>4. bar' = c
  BY <1>3 DEF Show
<1> QED
  BY <1>2, <1>3, <1>4 DEF Show, Usable, Healthy, Typed, IsBar, BarFields, Listed, Times,
       Placed, Configured, Marked, Sound, OneStale, HasStep, LastTime, MinTime, Quiet, Fits,
       Near, At, Step, Allowed

LEMMA OpenLaterLoads ==
  ASSUME NEW b, NEW new \in BOOLEAN, OpenLater(b, new)
  PROVE  \E l \in Loads : OpenAnyFile(b, l)
<1>1. PICK k \in LaterFiles :
        OpenAnyFile(b, [files |-> k, cum |-> TRUE, wave |-> TRUE, newest |-> new])
  BY DEF OpenLater
<1>2. [files |-> k, cum |-> TRUE, wave |-> TRUE, newest |-> new] \in Loads
  BY FilesAssumption DEF Loads
<1> QED
  BY <1>1, <1>2

\* A file is opened, and all else goes on.
LEMMA OpenedStep ==
  ASSUME NEW b, BarInv, Bounded, \E l \in Loads : OpenAnyFile(b, l), Openable(b),
         "busy" \notin b.hurt => ~b.playing /\ b.opts.slices >= 0 /\ ~modal.open,
         bar.hurt \subseteq b.hurt, b.playing => view' = "shown" /\ ~modal.open,
         view' \in {"none", "hidden", "shown"}, modal.open => view' = "shown",
         modal' = modal, stored' \in {stored, bar'.opts}
  PROVE  BarInv'
<1>1. PICK l \in Loads : OpenAnyFile(b, l)
  OBVIOUS
<1>2. /\ Healthy(bar, TRUE)' /\ bar'.playing = b.playing
      /\ b.hurt \subseteq bar'.hurt
      /\ "busy" \notin bar'.hurt => Allowed(bar)'
      /\ bar'.crash = "no" /\ factory' # NoSet => Usable(bar)' /\ factory' = bar'.set
  BY <1>1, OpenStep
<1>3. Healthy(bar, ~modal.open)' /\ bar'.opts \in Options /\ bar'.idx \in Int
  BY <1>2 DEF Healthy, Typed, Configured
<1>4. Allowed(bar)' => bar'.opts.slices >= 0
  <2>1. bar'.opts.slices \in Int
    BY <1>3 DEF Options
  <2> QED
    BY <1>3, <2>1 DEF Allowed
<1>5. Drawn'
  BY <1>2 DEF Drawn
<1>6. Dialog'
  BY <1>2 DEF BarInv, Dialog
<1>7. Intervals'
  BY <1>2, <1>4 DEF BarInv, Intervals
<1> QED
  BY <1>3, <1>5, <1>6, <1>7 DEF BarInv

\* Everything but the bar, the factory and the counters is as it was.
Frame == view' = view /\ stored' = stored /\ modal' = modal

LEMMA RetunedStep ==
  ASSUME NEW c, BarInv, bar.crash = "no", Retuned(c, bar), Keep(c), Frame,
         c.playing => view = "shown" /\ ~modal.open /\ (bar.playing \/ bar.ready)
                      /\ (c.interpMode \/ ~c.opts.interp
                          \/ (bar.playing /\ c.interpMode = bar.interpMode))
  PROVE  BarInv'
<1>1. Healthy(c, ~modal.open)
  BY RetunedHealthy DEF BarInv
<1>2. Onward(c) /\ Handed(c)
  BY DEF Onward, Frame, Retuned, Handed, Usable
<1> QED
  BY <1>1, <1>2, EventStep

LEMMA LineStep ==
  ASSUME NEW b, BarInv, bar.crash = "no", Prepared(b, ~modal.open),
         b.hurt = {} /\ Usable(b) => b.interpMode \/ b.sel >= 0,
         bar.hurt \subseteq b.hurt, b.opts = bar.opts, b.idx = bar.idx, Frame,
         b.playing => view = "shown" /\ ~modal.open, Show(TimelineChanged(b))
  PROVE  BarInv'
<1> DEFINE c == TimelineChanged(b)
<1>1. Healthy(c, ~modal.open) /\ Follows(c, b)
  BY LineHealthy
<1>2. Show(c)
  OBVIOUS
<1> HIDE DEF c
<1>3. Onward(c) /\ Handed(c)
  BY <1>1, <1>2 DEF Onward, Frame, Handed, Follows, Descends
<1> QED
  BY <1>1, <1>3, EventStep

\* An index was used out of range, which only a hurt control bar does.
LEMMA CrashStep ==
  ASSUME NEW b, BarInv, bar.crash = "no", Typed(b), b.hurt = bar.hurt,
         b.opts = bar.opts, b.idx = bar.idx, b.playing = bar.playing, Frame,
         NEW why \in {"index", "table", "null"}, why = "null" \/ b.hurt # {},
         Show(Crash(b, why)) \/ Keep(Crash(b, why))
  PROVE  BarInv'
<1> DEFINE c == Crash(b, why)
<1>1. Follows(c, b) /\ c.crash = why
  BY CrashFollows
<1>2. Show(c) \/ Keep(c)
  OBVIOUS
<1> HIDE DEF c
<1>3. Typed(c) /\ c.hurt = b.hurt
  BY <1>1 DEF Follows, Descends
<1>4. Healthy(c, ~modal.open)
  BY <1>1, <1>3 DEF Healthy, Sound, Quiet
<1>5. Onward(c) /\ Handed(c)
  BY <1>1, <1>2 DEF Onward, Frame, Handed, Follows, Descends, BarInv, Dialog
<1> QED
  BY <1>4, <1>5, EventStep

-----------------------------------------------------------------------------
(***************************************************************************)
(* The events.                                                             *)
(***************************************************************************)
LEMMA MakeBarStep == BarInv /\ Bounded /\ MakeBar => BarInv'
<1> SUFFICES ASSUME BarInv, Bounded, MakeBar PROVE BarInv'
  OBVIOUS
<1> DEFINE s == [bar EXCEPT !.opts = stored]
           b == NewBar(s)
<1>1. \E l \in Loads : OpenAnyFile(b, l)
  <2>1. CASE \E new \in BOOLEAN : OpenLater(b, new)
    BY <2>1, OpenLaterLoads
  <2> QED
    BY <2>1 DEF MakeBar
<1>2. s.opts = stored /\ s.start = bar.start /\ s.hurt = bar.hurt
  BY DEF BarInv, Healthy, Typed, IsBar, BarFields
<1> HIDE DEF s
<1>3. b.opts = stored /\ b.start = bar.start /\ b.hurt = bar.hurt /\ ~b.playing /\ b.max = 0
  BY <1>2 DEF NewBar
<1> HIDE DEF b
<1>4. ~modal.open
  BY DEF MakeBar, BarInv, Dialog
<1>5. Openable(b)
  BY <1>3 DEF Openable, BarInv, Healthy, Typed, Configured
<1>6. "busy" \notin b.hurt => b.opts.slices >= 0
  BY <1>3 DEF BarInv, Intervals
<1> QED
  BY <1>1, <1>3, <1>4, <1>5, <1>6, OpenedStep DEF MakeBar

\* A file is opened in the control bar there is.
LEMMA OpenInBar ==
  ASSUME BarInv, bar.crash = "no", view # "none"
  PROVE  Openable(bar) /\ ("busy" \notin bar.hurt => bar.opts.slices >= 0)
<1>1. Typed(bar)
  BY DEF BarInv, Healthy
<1>2. "busy" \notin bar.hurt => bar.opts.slices >= 0
  BY <1>1, AllowedHasStep DEF BarInv, Intervals
<1> QED
  BY <1>1, <1>2 DEF Openable, Typed, Configured, Placed

LEMMA ToolbarStep == BarInv /\ Bounded /\ OnToolbarToolCallback => BarInv'
<1> SUFFICES ASSUME BarInv, Bounded, OnToolbarToolCallback PROVE BarInv'
  OBVIOUS
<1>1. ~modal.open /\ ~bar.playing
  BY DEF OnToolbarToolCallback, BarInv, Dialog
<1>2. CASE OpenLater(bar, TRUE)
  <2>1. \E l \in Loads : OpenAnyFile(bar, l)
    BY <1>2, OpenLaterLoads
  <2>2. Openable(bar) /\ ("busy" \notin bar.hurt => bar.opts.slices >= 0)
    BY OpenInBar DEF OnToolbarToolCallback
  <2> QED
    BY <1>1, <2>1, <2>2, OpenedStep DEF OnToolbarToolCallback
<1>3. CASE Keep(bar)
  <2>1. Healthy(bar, ~modal.open)'
    BY <1>3 DEF Keep, BarInv, OnToolbarToolCallback
  <2>2. Drawn' /\ Dialog' /\ Intervals'
    BY <1>1, <1>3 DEF Keep, BarInv, OnToolbarToolCallback, Drawn, Dialog, Intervals, Usable,
      Allowed
  <2> QED
    BY <2>1, <2>2 DEF BarInv, OnToolbarToolCallback
<1> QED
  BY <1>2, <1>3 DEF OnToolbarToolCallback

LEMMA NewBarHealthy ==
  ASSUME NEW b, Typed(b), NEW free
  PROVE  Healthy(NewBar(b), free) /\ NewBar(b).hurt = b.hurt
<1> DEFINE c == NewBar(b)
<1>1. /\ IsBar(c) /\ c.file = NoFile /\ c.count = 0 /\ c.sel = -1 /\ c.max = 0 /\ c.val = 0
      /\ c.hours = 0 /\ c.idx = 0 /\ c.opts = b.opts /\ c.start = b.start
      /\ c.hurt = b.hurt /\ c.crash = "no" /\ c.stale = {} /\ c.shifted = {}
      /\ c.saved = NoLabel /\ ~c.ready /\ ~c.nowMode /\ ~c.playing
  BY DEF NewBar, IsBar, BarFields
<1>2. ~Usable(c) /\ Times(c) = <<>>
  BY <1>1 DEF Usable, Times, NoFile
<1> HIDE DEF c
<1>3. NoLabel \in [index : Int, stale : BOOLEAN] /\ ~NoLabel.stale
  BY DEF NoLabel
<1>4. Typed(c)
  BY <1>1, <1>2, <1>3, DomainOfTable
     DEF Typed, Listed, Ascending, Placed, Configured, Marked
<1>5. OneStale(c) /\ Spans(c)
  BY <1>1, <1>2, <1>3 DEF OneStale, Spans, Regular
<1>6. Fits(c) /\ Near(c)
  BY <1>2 DEF Fits, Near, Regular
<1> QED
  BY <1>1, <1>2, <1>4, <1>5, <1>6 DEF Healthy, Sound, Quiet, c

LEMMA OnCloseStep == BarInv /\ OnClose => BarInv'
<1> SUFFICES ASSUME BarInv, OnClose PROVE BarInv'
  OBVIOUS
<1>1. ~modal.open /\ modal' = modal /\ stored' = stored /\ bar.crash = "no"
      /\ view = "shown" /\ Typed(bar)
  BY DEF OnClose, Idle, BarInv, Healthy
<1>2. CASE view' = "hidden" /\ Keep(StopPlayBack(bar))
  <2> DEFINE c == StopPlayBack(bar)
  <2>1. Retuned(c, bar) /\ ~c.playing /\ bar' = c /\ factory' = factory
    BY <1>1, <1>2, StopPlayBackRetuned DEF Keep
  <2> HIDE DEF c
  <2>2. Healthy(c, ~modal.open)
    BY <2>1, RetunedHealthy DEF BarInv
  <2>3. Healthy(bar, ~modal.open)'
    BY <1>1, <2>1, <2>2
  <2>4. Drawn' /\ Dialog' /\ Intervals'
    BY <1>1, <1>2, <2>1 DEF Retuned, BarInv, Drawn, Dialog, Intervals, Usable, Allowed
  <2> QED
    BY <1>1, <1>2, <2>3, <2>4 DEF BarInv
<1>3. CASE view' = "none" /\ Keep(NewBar(bar))
  <2> DEFINE c == NewBar(bar)
  <2>1. Healthy(c, ~modal.open) /\ c.hurt = bar.hurt /\ ~c.playing /\ bar' = c
    BY <1>1, <1>3, NewBarHealthy DEF Keep, NewBar
  <2> HIDE DEF c
  <2>2. Healthy(bar, ~modal.open)'
    BY <1>1, <2>1
  <2>3. Drawn' /\ Dialog' /\ Intervals'
    BY <1>1, <1>3, <2>1 DEF BarInv, Drawn, Dialog, Intervals
  <2> QED
    BY <1>1, <1>3, <2>2, <2>3 DEF BarInv
<1> QED
  BY <1>2, <1>3 DEF OnClose

LEMMA OnOpenFileStep == BarInv /\ Bounded /\ OnOpenFile => BarInv'
<1> SUFFICES ASSUME BarInv, Bounded, OnOpenFile PROVE BarInv'
  OBVIOUS
<1>1. \E l \in Loads : OpenAnyFile(bar, l)
  BY OpenLaterLoads DEF OnOpenFile
<1>2. Openable(bar) /\ ("busy" \notin bar.hurt => bar.opts.slices >= 0)
  BY OpenInBar DEF OnOpenFile, Idle
<1> QED
  BY <1>1, <1>2, OpenedStep DEF OnOpenFile, Idle, BarInv

LEMMA OpenGeneratedGribStep == BarInv /\ Bounded /\ OpenGeneratedGrib => BarInv'
<1> SUFFICES ASSUME BarInv, Bounded, OpenGeneratedGrib PROVE BarInv'
  OBVIOUS
<1> DEFINE hurt == IF bar.playing \/ modal.open THEN bar.hurt \cup {"busy"} ELSE bar.hurt
           b == [bar EXCEPT !.hurt = hurt]
<1>1. \E l \in Loads : OpenAnyFile(b, l)
  <2>1. OpenLater(b, FALSE)
    BY DEF OpenGeneratedGrib
  <2> QED
    BY <2>1, OpenLaterLoads
<1>2. /\ bar.hurt \subseteq hurt /\ hurt \subseteq bar.hurt \cup {"busy"}
      /\ "busy" \notin hurt => ~bar.playing /\ ~modal.open
  OBVIOUS
<1> HIDE DEF hurt
<1>3. /\ b.opts = bar.opts /\ b.start = bar.start /\ b.hurt = hurt
      /\ b.playing = bar.playing /\ b.max = bar.max
  BY DEF BarInv, Healthy, Typed, IsBar, BarFields
<1> HIDE DEF b
<1>4. Openable(bar) /\ ("busy" \notin bar.hurt => bar.opts.slices >= 0)
  BY OpenInBar DEF OpenGeneratedGrib, Alive
<1>5. Openable(b) /\ ("busy" \notin b.hurt => ~b.playing /\ b.opts.slices >= 0 /\ ~modal.open)
  BY <1>2, <1>3, <1>4 DEF Openable
<1>6. /\ view' = view /\ modal' = modal /\ stored' \in {stored, bar'.opts}
      /\ view \in {"none", "hidden", "shown"} /\ (modal.open => view = "shown")
      /\ (b.playing => view = "shown" /\ ~modal.open)
  BY <1>3 DEF OpenGeneratedGrib, BarInv, Dialog
<1> QED
  BY <1>1, <1>2, <1>3, <1>5, <1>6, OpenedStep

LEMMA OnPlayStopStep == BarInv /\ OnPlayStop => BarInv'
<1> SUFFICES ASSUME BarInv, OnPlayStop PROVE BarInv'
  OBVIOUS
<1>1. Typed(bar) /\ bar.crash = "no" /\ view = "shown" /\ ~modal.open /\ Frame
      /\ bar.ready
  BY DEF BarInv, Healthy, OnPlayStop, Idle, Still, Frame
<1> DEFINE c == [bar EXCEPT !.playing = TRUE, !.interpMode = bar.opts.interp]
<1>2. Retuned(c, bar) /\ c.interpMode = bar.opts.interp /\ c.opts = bar.opts
  BY <1>1 DEF Retuned, Typed, Configured, IsBar, BarFields
<1>3. Keep(StopPlayBack(bar)) \/ Keep(c)
  BY DEF OnPlayStop
<1> HIDE DEF c
<1>4. c.interpMode \/ ~c.opts.interp
  <2>1. bar.opts.interp \in BOOLEAN
    BY <1>1 DEF Typed, Configured, Options
  <2> QED
    BY <1>2, <2>1
<1> QED
  BY <1>1, <1>2, <1>3, <1>4, StopPlayBackRetuned, RetunedStep

\* The value play back steps on from.
Onto(b) == IF ~b.nowMode THEN b.val
           ELSE IF b.opts.interp THEN GetNearestValue(b, GetNow(b), 1)
           ELSE GetNearestIndex(b, GetNow(b), 2)

LEMMA AdvancePrepared ==
  ASSUME BarInv, Bounded, bar.crash = "no", bar.playing, ~(bar.nowMode /\ ~Usable(bar)
         /\ bar.val < bar.max)
  PROVE  \E b : /\ Advance(bar) = TimelineChanged(b) /\ Prepared(b, TRUE)
                /\ b.hurt = {} /\ Usable(b) => b.interpMode \/ b.sel >= 0
                /\ b.hurt = bar.hurt /\ b.opts = bar.opts /\ b.idx = bar.idx
                /\ b.interpMode = bar.interpMode /\ ~b.nowMode /\ b.file = bar.file
                /\ b.max = bar.max /\ b.hours = bar.hours
                /\ bar.val < bar.max => /\ Onto(bar) \in Int
                                       /\ b.val = Cap(Onto(bar) + 1, 0, bar.max)
                /\ b.hurt = {} /\ Usable(b) /\ ~b.interpMode /\ ~b.opts.interp
                     => b.sel = b.val
<1>1. view = "shown" /\ ~modal.open /\ Typed(bar)
  BY DEF BarInv, Dialog, Healthy
<1>2. /\ Prepared(bar, TRUE)
      /\ Usable(bar) => bar.sel >= 0 /\ (bar.opts.interp => HasStep(bar))
  BY <1>1, BarPrepared
<1> DEFINE from == Onto(bar)
           n == IF bar.val >= bar.max THEN 0 ELSE from + 1
           d == SetValue(bar, n)
           moved == [d EXCEPT !.nowMode = FALSE]
           b == IF bar.interpMode THEN moved ELSE SetSelection(moved, moved.val)
<1>3. Advance(bar) = TimelineChanged(b)
  BY DEF Advance, Onto
<1>4. n \in Int /\ (bar.val < bar.max => from \in Int /\ n = from + 1)
  <2>1. bar.val \in Int /\ bar.max \in Int
    BY <1>1 DEF Typed, Placed
  <2>2. ASSUME bar.val < bar.max PROVE from \in Int
    <3>1. CASE ~bar.nowMode
      BY <2>1, <3>1 DEF Onto
    <3>2. CASE bar.nowMode
      <4>1. Usable(bar) /\ now \in Nat
        BY <2>2, <3>2, NowIsNat
      <4>2. GetNow(bar) \in MinTime(bar)..LastTime(bar) /\ GetNow(bar) \in Nat
        BY <1>1, <4>1, GetNowInFile
      <4>3. bar.opts.interp => GetNearestValue(bar, GetNow(bar), 1) \in Nat
        BY <1>1, <1>2, <4>1, <4>2, NearestValueIsNat
      <4>4. GetNearestIndex(bar, GetNow(bar), 2) \in Int
        <5>1. GetNearestIndex(bar, GetNow(bar), 2) \in 0..(bar.count - 1)
          BY <1>1, <4>1, <4>2, IndexInRange
        <5> QED
          BY <5>1
      <4> QED
        BY <3>2, <4>3, <4>4 DEF Onto
    <3> QED
      BY <3>1, <3>2
  <2> HIDE DEF from
  <2> QED
    BY <2>1, <2>2
<1> HIDE DEF n, from
<1>5. Rests(d, bar) /\ d.val = Cap(n, 0, bar.max)
  BY <1>1, <1>4, SetValueRests
<1>6. Prepared(d, TRUE)
  BY <1>2, <1>5, RestsPrepared
<1> HIDE DEF d
<1>7. Retuned(moved, d) /\ moved.playing = d.playing /\ moved.interpMode = d.interpMode
      /\ ~moved.nowMode
  BY <1>6 DEF Prepared, Retuned, Typed, Configured, IsBar, BarFields
<1> HIDE DEF moved
<1>8. Prepared(moved, TRUE)
  <2>1. moved.playing => moved.interpMode \/ ~moved.opts.interp
                         \/ (d.playing /\ moved.interpMode = d.interpMode)
    BY <1>7
  <2> QED
    BY <1>6, <1>7, <2>1, RetunedPrepared
<1>9. LET s == SetSelection(moved, moved.val)
      IN  /\ Rests(s, moved) /\ s.val = moved.val
          /\ moved.val \in 0..(moved.count - 1) => s.sel = moved.val
  BY <1>8, SetSelectionRests DEF Prepared
<1>10. Prepared(b, TRUE) /\ b.hurt = moved.hurt /\ b.opts = moved.opts /\ b.idx = moved.idx
       /\ b.file = moved.file /\ b.interpMode = moved.interpMode /\ b.val = moved.val
       /\ b.max = moved.max /\ b.hours = moved.hours /\ ~b.nowMode
  <2> DEFINE s == SetSelection(moved, moved.val)
  <2>1. Rests(s, moved) /\ s.val = moved.val
    BY <1>9
  <2>2. b = moved \/ b = s
    OBVIOUS
  <2> HIDE DEF s, b
  <2>3. Prepared(s, TRUE)
    BY <1>8, <2>1, RestsPrepared
  <2> QED
    BY <1>7, <1>8, <2>1, <2>2, <2>3 DEF Rests, Follows, Descends
<1>11. /\ moved.hurt = bar.hurt /\ moved.opts = bar.opts /\ moved.idx = bar.idx
       /\ moved.interpMode = bar.interpMode /\ moved.playing = bar.playing
       /\ moved.file = bar.file /\ moved.max = bar.max /\ moved.hours = bar.hours
       /\ moved.val = Cap(n, 0, bar.max)
  BY <1>5, <1>7 DEF Rests, Follows, Descends, Retuned
<1>12. ASSUME b.hurt = {}, Usable(b), ~b.interpMode, ~b.opts.interp
       PROVE  b.sel = b.val /\ b.sel >= 0
  <2>1. ~bar.interpMode /\ ~moved.opts.interp /\ Regular(moved)
    BY <1>10, <1>11, <1>12 DEF Usable, Regular
  <2>2. moved.max = Len(Times(moved)) - 1 /\ moved.count = Len(Times(moved))
        /\ moved.val \in 0..moved.max
    BY <1>8, <2>1 DEF Prepared, Fits, Typed, Listed, Placed
  <2>3. SetSelection(moved, moved.val).sel = moved.val
    BY <1>9, <2>2
  <2>4. b = SetSelection(moved, moved.val)
    BY <2>1
  <2> HIDE DEF b
  <2> QED
    BY <1>10, <2>2, <2>3, <2>4
<1>13. b.hurt = {} /\ ~b.interpMode => ~b.opts.interp
  BY <1>8, <1>10, <1>11 DEF Prepared
<1>14. bar.val < bar.max => Onto(bar) \in Int /\ b.val = Cap(Onto(bar) + 1, 0, bar.max)
  BY <1>4, <1>10, <1>11 DEF from
<1> HIDE DEF b
<1> QED
  BY <1>3, <1>10, <1>11, <1>12, <1>13, <1>14

LEMMA OnPlayStopTimerStep == BarInv /\ Bounded /\ OnPlayStopTimer => BarInv'
<1> SUFFICES ASSUME BarInv, Bounded, OnPlayStopTimer PROVE BarInv'
  OBVIOUS
<1>1. /\ Typed(bar) /\ bar.crash = "no" /\ view = "shown" /\ ~modal.open /\ Frame
      /\ bar.playing /\ now \in Nat
  BY NowIsNat DEF BarInv, Healthy, OnPlayStopTimer, Alive, Still, Frame, Dialog
<1>2. /\ Prepared(bar, TRUE)
      /\ Usable(bar) => bar.sel >= 0 /\ (bar.opts.interp => HasStep(bar))
  BY <1>1, BarPrepared
<1> DEFINE best == ComputeBestForecastForNow(bar)
           stop == IF best.val >= best.max THEN StopPlayBack(best) ELSE best
<1>3. Show(Advance(bar)) \/ Show(stop) \/ Keep(StopPlayBack(bar))
  BY DEF OnPlayStopTimer
<1>4. CASE Show(Advance(bar))
  <2>1. CASE bar.nowMode /\ ~Usable(bar) /\ bar.val < bar.max
    <3>1. bar.hurt # {}
      BY <1>2, <2>1 DEF Prepared
    <3>2. Advance(bar) = Crash(bar, "index")
      BY <2>1 DEF Advance
    <3> QED
      BY <1>1, <1>4, <3>1, <3>2, CrashStep
  <2>2. CASE ~(bar.nowMode /\ ~Usable(bar) /\ bar.val < bar.max)
    <3>1. PICK b : /\ Advance(bar) = TimelineChanged(b) /\ Prepared(b, TRUE)
                   /\ b.hurt = {} /\ Usable(b) => b.interpMode \/ b.sel >= 0
                   /\ b.hurt = bar.hurt /\ b.opts = bar.opts /\ b.idx = bar.idx
      BY <1>1, <2>2, AdvancePrepared
    <3> QED
      BY <1>1, <1>4, <3>1, LineStep
  <2> QED
    BY <2>1, <2>2
<1>5. CASE Show(stop)
  <2>1. Healthy(best, TRUE) /\ Descends(best, bar)
    BY <1>1, <1>2, BestHealthy
  <2> HIDE DEF best
  <2>2. Retuned(StopPlayBack(best), best) /\ ~StopPlayBack(best).playing
    BY <2>1, StopPlayBackRetuned DEF Healthy
  <2>3. Healthy(StopPlayBack(best), TRUE)
    BY <2>1, <2>2, RetunedHealthy
  <2>4. Healthy(stop, ~modal.open) /\ stop.hurt = bar.hurt /\ stop.opts = bar.opts
        /\ stop.idx = bar.idx
    BY <1>1, <2>1, <2>2, <2>3 DEF Descends, Retuned
  <2> HIDE DEF stop
  <2>5. Onward(stop) /\ Handed(stop)
    BY <1>1, <1>5, <2>4 DEF Onward, Frame, Handed
  <2> QED
    BY <1>1, <2>4, <2>5, EventStep
<1>6. CASE Keep(StopPlayBack(bar))
  BY <1>1, <1>6, StopPlayBackRetuned, RetunedStep
<1> QED
  BY <1>3, <1>4, <1>5, <1>6

\* The record the time shown is at, or near.
LEMMA FromTimeInList ==
  ASSUME NEW b, Typed(b), Usable(b), HasStep(b), b.sel >= 0, now \in Nat
  PROVE  FromTime(b, 1) \in 0..b.count /\ FromTime(b, 2) \in 0..(b.count - 1)
<1>1. GetNow(b) \in Int
  BY GetNowInFile
<1>2. TimelineTime(b) \in Int
  BY TimelineTimeInFile
<1>3. b.sel \in 0..(b.count - 1) /\ b.count \in Nat
  BY CountIsNat DEF Typed, Placed
<1>4. \A time \in Int : /\ GetNearestIndex(b, time, 1) \in 0..b.count
                        /\ GetNearestIndex(b, time, 2) \in 0..(b.count - 1)
  BY IndexInRange
<1> QED
  BY <1>1, <1>2, <1>3, <1>4 DEF FromTime

\* The user is about to step from record to record.
LEMMA StepPrepared ==
  ASSUME BarInv, bar.crash = "no", bar.ready, ~bar.playing, view # "none", now \in Nat
  PROVE  LET b == RestaureSelectionString(bar)
         IN  /\ Prepared(b, ~modal.open) /\ ~b.playing /\ Rests(b, bar) /\ b.val = bar.val
             /\ b.hurt = {} => /\ ~Lost(b) /\ FromTime(b, 1) \in 0..b.count
                               /\ FromTime(b, 2) \in 0..(b.count - 1)
<1> DEFINE b == RestaureSelectionString(bar)
<1>1. Rests(b, bar) /\ b.val = bar.val /\ b.sel = bar.sel
  BY RestaureRests DEF BarInv, Healthy
<1> HIDE DEF b
<1>2. /\ Prepared(bar, ~modal.open)
      /\ Usable(bar) => bar.sel >= 0 /\ (bar.opts.interp => HasStep(bar))
  BY BarPrepared
<1>3. Prepared(b, ~modal.open) /\ b.playing = bar.playing /\ b.ready = bar.ready
      /\ b.hurt = bar.hurt /\ b.file = bar.file
  BY <1>1, <1>2, RestsPrepared DEF Rests, Follows, Descends
<1>4. ASSUME b.hurt = {}
      PROVE  /\ ~Lost(b) /\ FromTime(b, 1) \in 0..b.count
             /\ FromTime(b, 2) \in 0..(b.count - 1)
  <2>1. Typed(b) /\ HasStep(b) /\ Usable(b)
    BY <1>3, <1>4 DEF Prepared
  <2>2. b.sel >= 0
    BY <1>1, <1>2, <1>3, <2>1 DEF Usable
  <2>3. Times(b) # <<>>
    BY <2>1 DEF Typed, Listed
  <2> QED
    BY <2>1, <2>2, <2>3, FromTimeInList DEF Lost
<1> QED
  BY <1>1, <1>3, <1>4 DEF b

LEMMA OnPrevStep == BarInv /\ Bounded /\ OnPrev => BarInv'
<1> SUFFICES ASSUME BarInv, Bounded, OnPrev PROVE BarInv'
  OBVIOUS
<1>1. /\ bar.crash = "no" /\ bar.ready /\ ~bar.playing /\ view = "shown" /\ Frame
      /\ now \in Nat
  BY NowIsNat DEF OnPrev, Idle, Still, Frame
<1> DEFINE b == RestaureSelectionString(bar)
           i == FromTime(b, 1)
           j == IF i < 1 THEN 0 ELSE i - 1
           to == AtRecord(b, j)
<1>2. Show(IF Lost(b) THEN Crash(b, "index") ELSE TimelineChanged(to))
  BY DEF OnPrev
<1>3. /\ Prepared(b, ~modal.open) /\ ~b.playing /\ Rests(b, bar)
      /\ b.hurt = {} => ~Lost(b) /\ i \in 0..b.count
  BY <1>1, StepPrepared
<1> HIDE DEF b, i
<1>4. Typed(b) /\ b.hurt = bar.hurt /\ b.opts = bar.opts /\ b.idx = bar.idx
      /\ b.playing = bar.playing /\ b.count \in Nat
  BY <1>3, CountIsNat DEF Rests, Follows, Descends, Prepared
<1>5. CASE Lost(b)
  BY <1>1, <1>2, <1>3, <1>4, <1>5, CrashStep
<1>6. CASE ~Lost(b)
  <2>1. /\ Prepared(to, ~modal.open) /\ ~to.playing /\ to.file = b.file
        /\ to.hurt = b.hurt /\ to.opts = b.opts /\ to.idx = b.idx
        /\ j \in 0..(b.count - 1) => to.sel = j
    BY <1>3, AtRecordPrepared
  <2>2. ASSUME to.hurt = {}, Usable(to) PROVE to.sel >= 0
    <3>1. b.count >= 1 /\ i \in 0..b.count
      BY <1>3, <1>4, <2>1, <2>2, CountIsNat DEF Usable
    <3>2. j \in 0..(b.count - 1)
      BY <1>4, <3>1
    <3> HIDE DEF j, to
    <3> QED
      BY <2>1, <3>2
  <2> HIDE DEF to
  <2>3. Show(TimelineChanged(to))
    BY <1>2, <1>6
  <2> QED
    BY <1>1, <1>4, <2>1, <2>2, <2>3, LineStep
<1> QED
  BY <1>5, <1>6

LEMMA OnNextStep == BarInv /\ Bounded /\ OnNext => BarInv'
<1> SUFFICES ASSUME BarInv, Bounded, OnNext PROVE BarInv'
  OBVIOUS
<1>1. /\ bar.crash = "no" /\ bar.ready /\ ~bar.playing /\ view = "shown" /\ ~modal.open
      /\ Frame /\ now \in Nat
  BY NowIsNat DEF OnNext, Idle, Still, Frame
<1> DEFINE b == RestaureSelectionString(bar)
           i == FromTime(b, 2)
           at == AtRecord(b, i)
           to == AtRecord(at, i + 1)
<1>2. IF Lost(b) THEN Keep(Crash(b, "index"))
      ELSE IF i = b.count - 1 THEN Keep(at) ELSE Show(TimelineChanged(to))
  BY DEF OnNext
<1>3. /\ Prepared(b, ~modal.open) /\ ~b.playing /\ Rests(b, bar) /\ b.val = bar.val
      /\ b.hurt = {} => ~Lost(b) /\ i \in 0..(b.count - 1)
  BY <1>1, StepPrepared
<1> HIDE DEF b, i
<1>4. Typed(b) /\ b.hurt = bar.hurt /\ b.opts = bar.opts /\ b.idx = bar.idx
      /\ b.playing = bar.playing /\ b.count \in Nat /\ b.file = bar.file
      /\ b.hours = bar.hours /\ b.set = bar.set
  BY <1>3, CountIsNat DEF Rests, Follows, Descends, Prepared
<1>5. CASE Lost(b)
  BY <1>1, <1>2, <1>3, <1>4, <1>5, CrashStep
<1>6. /\ Prepared(at, ~modal.open) /\ ~at.playing /\ at.file = b.file /\ at.count = b.count
      /\ at.hurt = b.hurt /\ at.opts = b.opts /\ at.idx = b.idx /\ at.set = b.set
      /\ at.val = b.val /\ at.hours = b.hours /\ ~at.nowMode
      /\ i \in 0..(b.count - 1) => at.sel = i
  BY <1>3, AtRecordPrepared
<1> HIDE DEF at
<1>7. CASE ~Lost(b) /\ i = b.count - 1
  <2>1. /\ (Usable(at) <=> Usable(bar)) /\ (HasStep(at) <=> HasStep(bar))
        /\ (Near(at) <=> Near(bar))
    BY <1>3, <1>4, <1>6, FileAlike
  <2>2. Usable(at) => at.sel >= 0
    BY <1>4, <1>6, <1>7, CountIsNat DEF Usable
  <2>3. Sound(at)
    <3>1. OneStale(at) /\ Spans(at)
      BY <1>6 DEF Prepared
    <3>2. Usable(bar) /\ bar.opts.interp => HasStep(bar)
      BY <1>1, BarPrepared
    <3>3. Usable(at) /\ at.opts.interp => HasStep(at)
      BY <1>4, <1>6, <2>1, <3>2
    <3> QED
      BY <2>2, <3>1, <3>3 DEF Sound
  <2>4. Quiet(at)
    BY <1>6 DEF Quiet, Prepared
  <2>5. Healthy(at, ~modal.open)
    BY <1>1, <1>6, <2>1, <2>3, <2>4 DEF Healthy, Prepared, BarInv
  <2>6. Onward(at) /\ Handed(at)
    BY <1>1, <1>2, <1>4, <1>6, <1>7, <2>1 DEF Onward, Frame, Handed
  <2> QED
    BY <1>1, <2>5, <2>6, EventStep
<1>8. CASE ~Lost(b) /\ i # b.count - 1
  <2>1. /\ Prepared(to, ~modal.open) /\ ~to.playing /\ to.file = at.file
        /\ to.hurt = at.hurt /\ to.opts = at.opts /\ to.idx = at.idx
        /\ i + 1 \in 0..(at.count - 1) => to.sel = i + 1
    BY <1>6, AtRecordPrepared
  <2> HIDE DEF to
  <2>2. ASSUME to.hurt = {} PROVE to.sel >= 0
    <3>1. i \in 0..(b.count - 1)
      BY <1>3, <1>6, <2>1, <2>2
    <3> QED
      BY <1>4, <1>6, <1>8, <2>1, <3>1
  <2>3. Show(TimelineChanged(to))
    BY <1>2, <1>8
  <2> QED
    BY <1>1, <1>4, <1>6, <2>1, <2>2, <2>3, LineStep
<1> QED
  BY <1>5, <1>7, <1>8

\* Play back is stopped by a control of the bar.
LEMMA StoppedPrepared ==
  ASSUME BarInv, bar.crash = "no", view # "none"
  PROVE  LET s == StopPlayBack(bar)
         IN  Prepared(s, ~modal.open) /\ Retuned(s, bar) /\ ~s.playing
<1> DEFINE s == StopPlayBack(bar)
<1>1. Prepared(bar, ~modal.open)
  BY BarPrepared
<1>2. Retuned(s, bar) /\ ~s.playing
  BY StopPlayBackRetuned DEF BarInv, Healthy
<1> HIDE DEF s
<1> QED
  BY <1>1, <1>2, RetunedPrepared DEF s

LEMMA OnTimelineStep == BarInv /\ OnTimeline => BarInv'
<1> SUFFICES ASSUME BarInv, OnTimeline PROVE BarInv'
  OBVIOUS
<1>1. /\ bar.crash = "no" /\ view = "shown" /\ ~modal.open /\ Frame
  BY DEF OnTimeline, Idle, Still, Frame
<1>2. PICK v \in 0..bar.max :
        LET b == [SetValue(StopPlayBack(bar), v) EXCEPT
                     !.interpMode = bar.opts.interp, !.nowMode = FALSE]
        IN  Show(TimelineChanged(IF b.interpMode THEN b ELSE SetSelection(b, v)))
  BY DEF OnTimeline
<1> DEFINE s == StopPlayBack(bar)
           at == SetValue(s, v)
           b == [at EXCEPT !.interpMode = bar.opts.interp, !.nowMode = FALSE]
           to == IF b.interpMode THEN b ELSE SetSelection(b, v)
<1>3. Show(TimelineChanged(to))
  BY <1>2
<1>4. Prepared(s, ~modal.open) /\ Retuned(s, bar) /\ ~s.playing
  BY <1>1, StoppedPrepared
<1> HIDE DEF s
<1>5. Rests(at, s)
  BY <1>4, SetValueRests DEF Prepared
<1>6. Prepared(at, ~modal.open)
  BY <1>4, <1>5, RestsPrepared
<1> HIDE DEF at
<1>7. Retuned(b, at) /\ b.playing = at.playing /\ b.interpMode = bar.opts.interp
  BY <1>6 DEF Prepared, Retuned, Typed, Configured, IsBar, BarFields
<1> HIDE DEF b
<1>8. b.file = bar.file /\ b.hurt = bar.hurt /\ b.opts = bar.opts /\ b.idx = bar.idx
      /\ ~b.playing /\ b.max = bar.max
  BY <1>4, <1>5, <1>7 DEF Rests, Follows, Descends, Retuned
<1>9. Prepared(b, ~modal.open)
  BY <1>6, <1>7, <1>8, RetunedPrepared
<1> DEFINE c == SetSelection(b, v)
<1>10. Rests(c, b) /\ (v \in 0..(b.count - 1) => c.sel = v)
  BY <1>9, SetSelectionRests DEF Prepared
<1>11. to = IF b.interpMode THEN b ELSE c
  OBVIOUS
<1> HIDE DEF c, to
<1>12. Prepared(c, ~modal.open)
  BY <1>9, <1>10, RestsPrepared
<1>13. /\ Prepared(to, ~modal.open) /\ to.hurt = b.hurt /\ to.opts = b.opts
       /\ to.idx = b.idx /\ to.playing = b.playing /\ to.file = b.file
       /\ to.interpMode = b.interpMode
  BY <1>9, <1>10, <1>11, <1>12 DEF Rests, Follows, Descends
<1>14. ASSUME to.hurt = {}, Usable(to), ~to.interpMode PROVE to.sel >= 0
  <2>1. Regular(b) /\ ~b.opts.interp /\ to = c
    BY <1>7, <1>8, <1>11, <1>13, <1>14 DEF Usable, Regular
  <2>2. b.max = b.count - 1
    BY <1>1, <1>9, <2>1 DEF Prepared, Fits, Typed, Listed
  <2> QED
    BY <1>8, <1>10, <2>1, <2>2
<1> QED
  BY <1>1, <1>3, <1>8, <1>13, <1>14, LineStep

LEMMA OnRecordForecastStep == BarInv /\ OnRecordForecast => BarInv'
<1> SUFFICES ASSUME BarInv, OnRecordForecast PROVE BarInv'
  OBVIOUS
<1>1. /\ bar.crash = "no" /\ view = "shown" /\ ~modal.open /\ Frame
  BY DEF OnRecordForecast, Idle, Still, Frame
<1>2. PICK i \in 0..(bar.count - 1) :
        Show(TimelineChanged(AtRecord(StopPlayBack(bar), i)))
  BY DEF OnRecordForecast
<1> DEFINE s == StopPlayBack(bar)
           to == AtRecord(s, i)
<1>3. Prepared(s, ~modal.open) /\ Retuned(s, bar) /\ ~s.playing
  BY <1>1, StoppedPrepared
<1> HIDE DEF s
<1>4. /\ Prepared(to, ~modal.open) /\ ~to.playing /\ to.hurt = s.hurt
      /\ to.opts = s.opts /\ to.idx = s.idx /\ (i \in 0..(s.count - 1) => to.sel = i)
  BY <1>3, AtRecordPrepared
<1>5. Show(TimelineChanged(to))
  BY <1>2 DEF s
<1> HIDE DEF to
<1>6. to.sel >= 0 /\ to.hurt = bar.hurt /\ to.opts = bar.opts /\ to.idx = bar.idx
  BY <1>3, <1>4 DEF Retuned
<1> QED
  BY <1>1, <1>4, <1>5, <1>6, LineStep

\* The nearest forecast is shown, of a control bar in other modes.
LEMMA BestStep ==
  ASSUME NEW b, BarInv, Bounded, bar.crash = "no", view # "none", Retuned(b, bar),
         Frame, Show(ComputeBestForecastForNow(b)),
         b.playing => bar.playing /\ b.interpMode = bar.interpMode
  PROVE  BarInv'
<1>1. /\ Prepared(bar, ~modal.open)
      /\ Usable(bar) => bar.sel >= 0 /\ (bar.opts.interp => HasStep(bar))
  BY BarPrepared
<1>2. Prepared(b, ~modal.open)
  BY <1>1, RetunedPrepared
<1>3. Usable(b) /\ b.opts.interp => HasStep(b)
  BY <1>1 DEF Retuned, Usable, HasStep
<1> DEFINE c == ComputeBestForecastForNow(b)
<1>4. Healthy(c, ~modal.open) /\ Descends(c, b) /\ Show(c)
  BY <1>2, <1>3, NowIsNat, BestHealthy
<1> HIDE DEF c
<1>5. Onward(c) /\ Handed(c)
  BY <1>4 DEF Onward, Frame, Handed, Descends, Retuned, BarInv, Dialog
<1> QED
  BY <1>4, <1>5, EventStep

LEMMA OnNowStep == BarInv /\ Bounded /\ OnNow => BarInv'
<1> SUFFICES ASSUME BarInv, Bounded, OnNow PROVE BarInv'
  OBVIOUS
<1>1. /\ bar.crash = "no" /\ view = "shown" /\ Frame
      /\ Show(ComputeBestForecastForNow(StopPlayBack(bar)))
  BY DEF OnNow, Idle, Still, Frame
<1>2. Retuned(StopPlayBack(bar), bar) /\ ~StopPlayBack(bar).playing
  BY StopPlayBackRetuned DEF BarInv, Healthy
<1> QED
  BY <1>1, <1>2, BestStep

LEMMA OpenSettingsStep == BarInv /\ OpenSettings => BarInv'
<1> SUFFICES ASSUME BarInv, OpenSettings PROVE BarInv'
  OBVIOUS
<1>1. /\ bar' = bar /\ factory' = factory /\ view' = view /\ stored' = stored
      /\ view = "shown" /\ ~bar.playing /\ bar.crash = "no"
      /\ modal' = [open |-> TRUE, init |-> bar.opts, idx |-> bar.idx]
  BY DEF OpenSettings, Keep, Idle
<1>2. bar.opts \in Options /\ bar.idx \in Int
  BY DEF BarInv, Healthy, Typed, Configured
<1>3. modal' \in [open : {TRUE}, init : Options, idx : Int]
  BY <1>1, <1>2
<1>4. Healthy(bar, ~modal.open)'
  BY <1>1 DEF BarInv, Healthy
<1>5. Drawn' /\ Dialog'
  BY <1>1, <1>3 DEF BarInv, Drawn, Dialog, Usable
<1>6. Intervals'
  BY <1>1 DEF BarInv, Intervals, Allowed
<1> QED
  BY <1>1, <1>4, <1>5, <1>6 DEF BarInv

\* The list of dates is to be made again.
Pending(b, free) ==
  /\ Typed(b) /\ Spans(b) /\ b.crash = "no" /\ (free => Fits(b))
  /\ IF Usable(b) THEN b.sel >= 0 ELSE OneStale(b)
  /\ b.hurt = {} =>
       /\ HasStep(b) /\ (b.ready \/ b.nowMode \/ b.playing => Usable(b))
       /\ b.playing /\ b.opts.interp => b.interpMode

LEMMA RefreshHealthy ==
  ASSUME NEW b, NEW free, Pending(b, free), RefreshTimeZoneDisplay(b)
  PROVE  /\ Healthy(bar', free) /\ bar'.opts = b.opts /\ bar'.idx = b.idx
         /\ bar'.hurt = b.hurt /\ bar'.playing = b.playing /\ bar'.file = b.file
         /\ \/ ~Usable(b) /\ factory' = factory
            \/ bar'.crash # "no" \/ factory' = NoSet
            \/ Usable(bar') /\ factory' = bar'.set
<1>1. CASE ~Usable(b)
  <2>1. bar' = b /\ factory' = factory
    BY <1>1 DEF RefreshTimeZoneDisplay, Keep
  <2>2. Healthy(b, free)
    BY <1>1 DEF Pending, Healthy, Sound, Quiet, Near, Regular
  <2> QED
    BY <1>1, <2>1, <2>2
<1>2. CASE Usable(b)
  <2> DEFINE listed == PopulateComboDataList(b)
             c == TimelineChanged(listed)
  <2>1. Show(c)
    BY <1>2 DEF RefreshTimeZoneDisplay
  <2>2. b.count = Len(Times(b)) /\ Unlisted(b)
    BY TypedUnlisted DEF Pending, Typed, Listed
  <2>3. /\ Typed(listed) /\ OneStale(listed)
        /\ listed.file = b.file /\ listed.opts = b.opts /\ listed.idx = b.idx
        /\ listed.hours = b.hours /\ listed.hurt = b.hurt /\ listed.playing = b.playing
        /\ listed.ready = b.ready /\ listed.interpMode = b.interpMode
        /\ listed.nowMode = b.nowMode /\ listed.max = b.max /\ listed.crash = b.crash
        /\ listed.sel >= 0
    BY <1>2, <2>2, PopulateRests DEF Pending
  <2> HIDE DEF listed
  <2>4. /\ (Usable(listed) <=> Usable(b)) /\ (HasStep(listed) <=> HasStep(b))
        /\ (Spans(listed) <=> Spans(b)) /\ (Fits(listed) <=> Fits(b))
    BY <2>3, FileAlike
  <2>5. Prepared(listed, free)
    BY <1>2, <2>3, <2>4 DEF Pending, Prepared
  <2>6. Healthy(c, free) /\ Follows(c, listed)
    BY <2>3, <2>5, LineHealthy
  <2> HIDE DEF c
  <2>7. bar' = c /\ (c.crash = "no" => factory' = (IF Usable(c) THEN c.set ELSE NoSet))
    BY <2>1 DEF Show
  <2> QED
    BY <2>3, <2>6, <2>7 DEF Follows, Descends
<1> QED
  BY <1>1, <1>2

\* The factory draws what it is handed, or goes on to draw.
LEMMA RefreshDrawn ==
  ASSUME NEW b, Drawn, view # "none", bar.crash = "no", b.file = bar.file,
         bar'.file = b.file,
         \/ ~Usable(b) /\ factory' = factory
         \/ bar'.crash # "no" \/ factory' = NoSet
         \/ Usable(bar') /\ factory' = bar'.set
  PROVE  Drawn'
BY DEF Drawn, Usable

\* The options the dialog offers have an interval the file allows.
LEMMA ChosenAllowed ==
  ASSUME BarInv, modal.open, NEW o \in Chosen \cup {modal.init}
  PROVE  /\ o \in Options /\ modal # NoModal
         /\ "busy" \notin bar.hurt => o.slices \in 0..bar.idx /\ o.slices >= 0
<1>1. modal # NoModal /\ modal.init \in Options
  <2>1. NoModal.open = FALSE
    BY DEF NoModal
  <2>2. modal # NoModal
    BY <2>1
  <2>3. modal \in [open : {TRUE}, init : Options, idx : Int]
    BY <2>2 DEF BarInv, Dialog
  <2> QED
    BY <2>2, <2>3
<1>2. o \in Options
  BY <1>1 DEF Chosen
<1>3. o.slices \in Int
  BY <1>2 DEF Options
<1>4. ASSUME "busy" \notin bar.hurt PROVE o.slices \in 0..bar.idx
  <2>1. modal.idx = bar.idx /\ modal.init.slices \in 0..modal.idx
    BY <1>4 DEF BarInv, Intervals
  <2> QED
    BY <2>1 DEF Chosen
<1> QED
  BY <1>1, <1>2, <1>3, <1>4

\* c is b with the options o, and perhaps in another mode.
Optioned(c, b, o) ==
  /\ IsBar(c) /\ c.file = b.file /\ c.count = b.count /\ c.opts = o
  /\ c.start = b.start /\ c.idx = b.idx /\ c.hours = b.hours
  /\ c.hurt = b.hurt /\ c.playing = b.playing /\ c.ready = b.ready
  /\ c.set = b.set /\ c.crash = b.crash /\ c.sel = b.sel /\ c.max = b.max
  /\ c.val = b.val /\ c.nowMode = b.nowMode
  /\ c.stale = b.stale /\ c.saved = b.saved /\ c.shifted = b.shifted

LEMMA OptionedTyped ==
  ASSUME NEW b, Typed(b), NEW o \in Options, NEW c, Optioned(c, b, o)
  PROVE  Typed(c) /\ (OneStale(b) => OneStale(c))
<1>1. Typed(c)
  BY DEF Optioned, Typed, Listed, Times, Usable, Placed, Configured, Marked
<1>2. OneStale(b) => OneStale(c)
  BY DEF Optioned, OneStale
<1> QED
  BY <1>1, <1>2

LEMMA OnApplyStep == BarInv /\ OnApply => BarInv'
<1> SUFFICES ASSUME BarInv, OnApply PROVE BarInv'
  OBVIOUS
<1>1. /\ view' = view /\ modal' = modal /\ view = "shown" /\ bar.crash = "no"
      /\ modal.open /\ ~bar.playing /\ Typed(bar)
  BY DEF OnApply, Alive, BarInv, Dialog, Healthy
<1>2. PICK o \in Chosen :
        LET b == [bar EXCEPT !.opts = o]
        IN  stored' = o /\ (RefreshTimeZoneDisplay(b) \/ RefreshTimeZoneDisplay(Outdated(b)))
  BY DEF OnApply
<1> DEFINE b == [bar EXCEPT !.opts = o]
<1>3. o \in Options /\ ("busy" \notin bar.hurt => o.slices \in 0..bar.idx /\ o.slices >= 0)
  BY <1>1, ChosenAllowed
<1>4. Optioned(b, bar, o)
  BY <1>1 DEF Optioned, Typed, IsBar, BarFields
<1>5. stored' = o /\ (RefreshTimeZoneDisplay(b) \/ RefreshTimeZoneDisplay(Outdated(b)))
  BY <1>2
<1>6. /\ Typed(b) /\ (OneStale(bar) => OneStale(b)) /\ b.opts = o
      /\ b.file = bar.file /\ b.count = bar.count /\ b.idx = bar.idx
      /\ b.hours = bar.hours /\ b.hurt = bar.hurt /\ b.playing = bar.playing
      /\ b.ready = bar.ready /\ b.crash = bar.crash /\ b.sel = bar.sel
      /\ b.nowMode = bar.nowMode
  <2> HIDE DEF b
  <2> QED
    BY <1>1, <1>3, <1>4, OptionedTyped DEF Optioned
<1> HIDE DEF b
<1>7. ASSUME b.hurt = {} PROVE HasStep(b) /\ (b.ready \/ b.nowMode \/ b.playing => Usable(b))
  BY <1>1, <1>3, <1>6, <1>7, SlicesHaveStep DEF BarInv, Healthy, Quiet, Usable
<1>8. Spans(b) /\ (Usable(b) => b.sel >= 0)
  BY <1>1, <1>6 DEF BarInv, Healthy, Sound, Spans, Regular, Usable, LastTime, MinTime, Times
<1>9. Pending(b, FALSE)
  <2>1. OneStale(b)
    BY <1>1, <1>6 DEF BarInv, Healthy, Sound
  <2> QED
    BY <1>1, <1>6, <1>7, <1>8, <2>1 DEF Pending
<1> DEFINE d == Outdated(b)
<1>10. /\ Typed(d) /\ (~Usable(b) => OneStale(d))
       /\ d.file = b.file /\ d.opts = b.opts /\ d.idx = b.idx /\ d.hours = b.hours
       /\ d.hurt = b.hurt /\ d.playing = b.playing /\ d.ready = b.ready
       /\ d.crash = b.crash /\ d.sel = b.sel /\ d.nowMode = b.nowMode
  BY <1>6, OutdatedTyped
<1>11. RefreshTimeZoneDisplay(b) \/ RefreshTimeZoneDisplay(d)
  BY <1>5
<1> HIDE DEF d
<1>12. Pending(d, FALSE)
  <2>1. (Usable(d) <=> Usable(b)) /\ (HasStep(d) <=> HasStep(b))
        /\ (Spans(d) <=> Spans(b))
    BY <1>10, FileAlike
  <2> QED
    BY <1>1, <1>6, <1>7, <1>8, <1>10, <2>1 DEF Pending
<1>13. PICK c \in {b, d} : RefreshTimeZoneDisplay(c)
  BY <1>11
<1>14. Pending(c, FALSE) /\ c.opts = o /\ c.idx = bar.idx /\ c.hurt = bar.hurt
       /\ ~c.playing /\ c.file = bar.file
  BY <1>1, <1>6, <1>9, <1>10, <1>12
<1>15. /\ Healthy(bar', FALSE) /\ bar'.opts = o /\ bar'.idx = bar.idx
       /\ bar'.hurt = bar.hurt /\ ~bar'.playing /\ bar'.file = c.file
       /\ \/ ~Usable(c) /\ factory' = factory
          \/ bar'.crash # "no" \/ factory' = NoSet
          \/ Usable(bar') /\ factory' = bar'.set
  BY <1>13, <1>14, RefreshHealthy
<1>16. Drawn'
  BY <1>1, <1>14, <1>15, RefreshDrawn DEF BarInv
<1>17. Healthy(bar, ~modal.open)'
  BY <1>1, <1>15 DEF Healthy
<1>18. Dialog'
  BY <1>1, <1>15 DEF BarInv, Dialog
<1>19. Intervals'
  BY <1>1, <1>3, <1>5, <1>15 DEF BarInv, Intervals, Allowed
<1> QED
  BY <1>1, <1>3, <1>5, <1>16, <1>17, <1>18, <1>19 DEF BarInv

\* The dialog is closed, its options taken.
LEMMA CloseSettingsHealthy ==
  ASSUME NEW b, BarInv, bar.crash = "no", modal.open, now \in Nat, Typed(b),
         ~Usable(b) => OneStale(b),
         b.file = bar.file, b.idx = bar.idx, b.hours = bar.hours, b.hurt = bar.hurt,
         b.playing = bar.playing, b.ready = bar.ready, b.crash = bar.crash,
         b.sel = bar.sel, b.nowMode = bar.nowMode,
         NEW o \in Chosen \cup {modal.init}, CloseSettings(b, o)
  PROVE  /\ Healthy(bar', TRUE) /\ bar'.opts = o /\ bar'.idx = bar.idx
         /\ bar'.hurt = bar.hurt /\ ~bar'.playing /\ Drawn'
<1>1. /\ o \in Options
      /\ "busy" \notin bar.hurt => o.slices \in 0..bar.idx /\ o.slices >= 0
  BY ChosenAllowed
<1>2. view = "shown" /\ ~bar.playing
  BY DEF BarInv, Dialog
<1> DEFINE c == [b EXCEPT !.opts = o, !.interpMode = @ /\ o.interp]
           d == SetTimeLineMax(c, TRUE)
<1>3. Optioned(c, b, o)
  BY DEF Optioned, Typed, IsBar, BarFields
<1>4. RefreshUnlessCrashed(d)
  BY DEF CloseSettings
<1> HIDE DEF c
<1>5. Typed(c) /\ (OneStale(b) => OneStale(c))
  BY <1>1, <1>3, OptionedTyped
<1>6. /\ Descends(d, c)
      /\ d.crash = "no" => (c.opts.interp => HasStep(c)) /\ Fits(d)
      /\ c.crash = "no" /\ HasStep(c) => d.crash = "no"
      /\ Usable(c) /\ c.sel >= 0 /\ d.crash = "no" => d.sel >= 0
      /\ ~Usable(c) => d.nowMode = c.nowMode
  BY <1>5, SetTimeLineMaxDescends
<1> HIDE DEF d
<1>7. /\ Typed(d) /\ (OneStale(c) => OneStale(d)) /\ d.file = b.file /\ d.opts = o
      /\ d.idx = b.idx /\ d.hours = b.hours /\ d.hurt = b.hurt /\ d.playing = b.playing
      /\ d.ready = b.ready
  BY <1>3, <1>6 DEF Descends, Optioned
<1>8. c.hurt = {} => HasStep(c)
  BY <1>1, <1>3, SlicesHaveStep DEF Optioned
<1>9. CASE d.crash # "no"
  <2>1. bar' = d /\ factory' = factory
    BY <1>4, <1>9 DEF RefreshUnlessCrashed, Keep
  <2>2. d.hurt # {}
    BY <1>3, <1>6, <1>8, <1>7, <1>9 DEF Optioned
  <2>3. Healthy(d, TRUE)
    BY <1>7, <1>9, <2>2 DEF Healthy, Sound, Quiet
  <2> QED
    BY <1>2, <1>7, <1>9, <2>1, <2>3 DEF Drawn
<1>10. CASE d.crash = "no"
  <2>1. RefreshTimeZoneDisplay(d)
    BY <1>4, <1>10 DEF RefreshUnlessCrashed
  <2>2. /\ (Usable(d) <=> Usable(bar)) /\ (Usable(c) <=> Usable(bar))
        /\ (Usable(b) <=> Usable(bar)) /\ (HasStep(d) <=> HasStep(c))
        /\ (Spans(d) <=> Spans(bar))
    BY <1>3, <1>7 DEF Optioned, Usable, HasStep, Spans, Regular, LastTime, MinTime, Times
  <2>3. Spans(bar) /\ (Usable(bar) => bar.sel >= 0)
    BY DEF BarInv, Healthy, Sound
  <2>4. Spans(d) /\ (Usable(d) => d.sel >= 0)
    BY <1>3, <1>6, <1>7, <1>10, <2>2, <2>3 DEF Optioned
  <2>5. ~Usable(d) => OneStale(d)
    BY <1>5, <1>7, <2>2
  <2>6. d.hurt = {} => HasStep(d) /\ (d.ready \/ d.nowMode \/ d.playing => Usable(d))
    <3>1. bar.hurt = {} => (bar.ready \/ bar.nowMode \/ bar.playing => Usable(bar))
      BY DEF BarInv, Healthy, Quiet
    <3> QED
      BY <1>3, <1>6, <1>7, <1>8, <2>2, <3>1 DEF Optioned
  <2>7. Pending(d, TRUE)
    BY <1>2, <1>6, <1>7, <1>10, <2>4, <2>5, <2>6 DEF Pending
  <2>8. /\ Healthy(bar', TRUE) /\ bar'.opts = d.opts /\ bar'.idx = d.idx
        /\ bar'.hurt = d.hurt /\ bar'.playing = d.playing /\ bar'.file = d.file
        /\ \/ ~Usable(d) /\ factory' = factory
           \/ bar'.crash # "no" \/ factory' = NoSet
           \/ Usable(bar') /\ factory' = bar'.set
    BY <2>1, <2>7, RefreshHealthy
  <2>9. Drawn'
    BY <1>2, <1>7, <2>8, RefreshDrawn DEF BarInv
  <2> QED
    BY <1>2, <1>7, <2>8, <2>9
<1> QED
  BY <1>9, <1>10

LEMMA OnSettingsStep == BarInv /\ Bounded /\ OnSettings => BarInv'
<1> SUFFICES ASSUME BarInv, Bounded, OnSettings PROVE BarInv'
  OBVIOUS
<1>1. /\ view' = view /\ modal' = NoModal /\ bar.crash = "no" /\ modal.open
      /\ view \in {"none", "hidden", "shown"} /\ Typed(bar) /\ now \in Nat
  BY NowIsNat DEF OnSettings, Alive, BarInv, Healthy
<1>2. OneStale(bar)
  BY <1>1 DEF BarInv, Healthy, Sound
<1>3. PICK o \in Chosen \cup {modal.init} :
        /\ CloseSettings(bar, o) \/ CloseSettings(Outdated(bar), o)
        /\ stored' = o \/ stored' = stored
  BY DEF OnSettings
<1> DEFINE b == Outdated(bar)
<1>4. /\ Typed(b) /\ (~Usable(bar) => OneStale(b))
      /\ b.file = bar.file /\ b.idx = bar.idx /\ b.hours = bar.hours /\ b.hurt = bar.hurt
      /\ b.playing = bar.playing /\ b.ready = bar.ready /\ b.crash = bar.crash
      /\ b.sel = bar.sel /\ b.nowMode = bar.nowMode
  BY <1>1, OutdatedTyped
<1>5. CloseSettings(bar, o) \/ CloseSettings(b, o)
  BY <1>3
<1> HIDE DEF b
<1>6. ~Usable(b) => OneStale(b)
  BY <1>4 DEF Usable
<1>7. /\ Healthy(bar', TRUE) /\ bar'.opts = o /\ bar'.idx = bar.idx
      /\ bar'.hurt = bar.hurt /\ ~bar'.playing /\ Drawn'
  BY <1>1, <1>2, <1>4, <1>5, <1>6, CloseSettingsHealthy
<1>8. /\ o \in Options
      /\ "busy" \notin bar.hurt => o.slices \in 0..bar.idx /\ o.slices >= 0
  BY <1>1, ChosenAllowed
<1>9. NoModal.open = FALSE
  BY DEF NoModal
<1>10. Healthy(bar, ~modal.open)'
  BY <1>1, <1>7, <1>9 DEF Healthy
<1>11. Dialog'
  BY <1>1, <1>7, <1>9 DEF Dialog
<1>12. Intervals'
  BY <1>1, <1>3, <1>7, <1>8, <1>9 DEF BarInv, Intervals, Allowed
<1>13. stored' \in Options
  BY <1>3, <1>8 DEF BarInv
<1> QED
  BY <1>1, <1>7, <1>10, <1>11, <1>12, <1>13 DEF BarInv

LEMMA MenuAppendStep == BarInv /\ MenuAppend => BarInv'
<1> SUFFICES ASSUME BarInv, MenuAppend PROVE BarInv'
  OBVIOUS
<1>1. /\ bar' = bar /\ factory' = factory /\ view' = view /\ modal' = modal
      /\ stored' = bar.opts /\ view = "shown" /\ bar.crash = "no"
  BY DEF MenuAppend, Keep, Idle
<1>2. Typed(bar) /\ bar.opts \in Options
  BY DEF BarInv, Healthy, Typed, Configured
<1>3. "busy" \notin bar.hurt => bar.opts.slices >= 0
  BY <1>1, <1>2, AllowedHasStep DEF BarInv, Intervals
<1>4. Healthy(bar, ~modal.open)'
  BY <1>1 DEF BarInv
<1>5. Drawn' /\ Dialog' /\ Intervals'
  BY <1>1, <1>3 DEF BarInv, Drawn, Dialog, Intervals, Usable, Allowed
<1> QED
  BY <1>1, <1>2, <1>4, <1>5 DEF BarInv

LEMMA UpdateStartStep == BarInv /\ Bounded /\ UpdateStart => BarInv'
<1> SUFFICES ASSUME BarInv, Bounded, UpdateStart PROVE BarInv'
  OBVIOUS
<1>1. PICK s \in 0..2 \ {bar.start} :
        LET b == [bar EXCEPT !.start = s]
        IN  IF Alive THEN Show(ComputeBestForecastForNow(b))
            ELSE view = "none" /\ Keep(b)
  BY DEF UpdateStart
<1>2. Frame /\ Typed(bar)
  BY DEF UpdateStart, Frame, BarInv, Healthy
<1> DEFINE b == [bar EXCEPT !.start = s]
<1>3. Retuned(b, bar) /\ b.playing = bar.playing /\ b.interpMode = bar.interpMode
  BY <1>2 DEF Retuned, Typed, Configured, IsBar, BarFields
<1>4. IF Alive THEN Show(ComputeBestForecastForNow(b)) ELSE view = "none" /\ Keep(b)
  BY <1>1
<1> HIDE DEF b
<1>5. CASE Alive
  BY <1>2, <1>3, <1>4, <1>5, BestStep DEF Alive
<1>6. CASE ~Alive
  <2>1. Healthy(b, ~modal.open)
    BY <1>3, RetunedHealthy DEF BarInv
  <2>2. bar' = b /\ factory' = factory /\ view = "none"
    BY <1>4, <1>6 DEF Keep
  <2>3. Healthy(bar, ~modal.open)'
    BY <1>2, <2>1, <2>2 DEF Frame
  <2>4. Drawn' /\ Dialog' /\ Intervals'
    BY <1>2, <1>3, <2>2 DEF BarInv, Frame, Retuned, Drawn, Dialog, Intervals
  <2> QED
    BY <1>2, <2>3, <2>4 DEF BarInv, Frame
<1> QED
  BY <1>5, <1>6

\* What a file read again may hold: dates in order, or none.
LEMMA FoundAscending ==
  ASSUME Typed(bar), NEW dates \in FoundAgain
  PROVE  Ascending(dates) /\ (~bar.file.ok => dates = Times(bar))
<1>1. CASE dates = Times(bar)
  BY <1>1 DEF Typed, Listed
<1>2. CASE dates = <<>> /\ bar.file.ok
  BY <1>2 DEF Ascending
<1>3. CASE bar.file.ok /\ \E k \in LaterFiles :
             dates = DatesRead(Made([files |-> k, cum |-> TRUE, wave |-> TRUE, newest |-> FALSE]))
  <2>1. PICK l \in Loads : dates = DatesRead(Made(l))
    BY <1>3, FilesAssumption DEF Loads
  <2>2. Made(l).ok => Ascending(InOrder(DOMAIN Made(l).sets))
    BY MadeAscending
  <2>3. Ascending(<<>>)
    BY DEF Ascending
  <2> QED
    BY <1>3, <2>1, <2>2, <2>3 DEF DatesRead
<1> QED
  BY <1>1, <1>2, <1>3 DEF FoundAgain

\* The file read again, and why an index may be off from now on.
Again(b, dates) ==
  IF b.file.ok
  THEN [gen |-> opens + changes + 1, ok |-> dates # <<>>, times |-> dates]
  ELSE b.file
Harmed(b, dates) ==
  b.hurt \cup (IF dates = Times(b) THEN {}
               ELSE IF dates = <<>> THEN {"gone"} ELSE {"changed"})
ReadAgain(b, dates) ==
  [b EXCEPT !.file = Again(b, dates), !.hurt = Harmed(b, dates)]

LEMMA AgainHolds ==
  ASSUME NEW b, Typed(b), b.file # NoFile, NEW dates, Ascending(dates),
         ~b.file.ok => dates = Times(b),
         NEW d, d = ReadAgain(b, dates)
  PROVE  /\ Reread(b, dates) = TimelineChanged(PopulateComboDataList(d))
         /\ Unlisted(d)
         /\ d.file = Again(b, dates) /\ d.hurt = Harmed(b, dates) /\ d.count = b.count
         /\ d.opts = b.opts /\ d.start = b.start /\ d.idx = b.idx /\ d.hours = b.hours
         /\ d.playing = b.playing /\ d.ready = b.ready /\ d.set = b.set
         /\ d.crash = b.crash /\ d.sel = b.sel /\ d.max = b.max /\ d.val = b.val
         /\ d.nowMode = b.nowMode /\ d.interpMode = b.interpMode
         /\ Times(d) = dates /\ (Usable(d) <=> dates # <<>>)
         /\ dates = Times(b) => (Usable(d) <=> Usable(b)) /\ d.hurt = b.hurt
         /\ dates # Times(b) => d.hurt # {} /\ (dates # <<>> => "changed" \in d.hurt)
         /\ b.hurt \subseteq d.hurt
<1> DEFINE file == Again(b, dates)
           hurt == Harmed(b, dates)
<1>1. Reread(b, dates) = TimelineChanged(PopulateComboDataList(d))
  BY DEF Reread, ReadAgain, Again, Harmed
<1>2. /\ b.hurt \subseteq hurt /\ hurt \subseteq {"busy", "gone", "changed", "long"}
      /\ dates = Times(b) => hurt = b.hurt
      /\ dates # Times(b) => hurt # {} /\ (dates # <<>> => "changed" \in hurt)
  BY DEF Harmed, Typed, Configured
<1>3. file.times = dates /\ (file # NoFile /\ file.ok <=> dates # <<>>)
  <2>1. NoFile.ok = FALSE
    BY DEF NoFile
  <2>2. CASE b.file.ok
    <3> DEFINE read == [gen |-> opens + changes + 1, ok |-> dates # <<>>, times |-> dates]
    <3>1. file = read
      BY <2>2 DEF Again
    <3>2. read.ok = (dates # <<>>) /\ read.times = dates
      OBVIOUS
    <3> QED
      BY <2>1, <3>1, <3>2
  <2>3. CASE ~b.file.ok
    <3>1. file = b.file
      BY <2>3 DEF Again
    <3>2. dates = <<>>
      BY <2>3 DEF Typed, Listed, Usable
    <3> QED
      BY <2>3, <3>1, <3>2 DEF Times
  <2> QED
    BY <2>2, <2>3
<1>9. d = [b EXCEPT !.file = file, !.hurt = hurt]
  BY DEF ReadAgain
<1> HIDE DEF file, hurt
<1>4. /\ IsBar(d) /\ d.file = file /\ d.hurt = hurt /\ d.count = b.count
      /\ d.opts = b.opts /\ d.start = b.start /\ d.idx = b.idx /\ d.hours = b.hours
      /\ d.playing = b.playing /\ d.ready = b.ready /\ d.set = b.set
      /\ d.crash = b.crash /\ d.sel = b.sel /\ d.max = b.max /\ d.val = b.val
      /\ d.nowMode = b.nowMode /\ d.interpMode = b.interpMode /\ d.saved = b.saved
  BY <1>9 DEF Typed, IsBar, BarFields
<1>5. Times(d) = dates /\ (Usable(d) <=> dates # <<>>)
  BY <1>3, <1>4 DEF Times, Usable
<1>6. Unlisted(d)
  <2>1. b.count \in Nat
    BY CountIsNat
  <2>2. Placed(d) /\ Configured(d)
    BY <1>2, <1>4 DEF Typed, Placed, Configured
  <2> QED
    BY <1>4, <1>5, <2>1, <2>2 DEF Unlisted, Typed, Marked
<1>7. dates = Times(b) => (Usable(d) <=> Usable(b))
  BY <1>5 DEF Typed, Listed
<1> QED
  BY <1>1, <1>2, <1>4, <1>5, <1>6, <1>7 DEF file, hurt

LEMMA RereadStep ==
  ASSUME NEW b, NEW dates, Ascending(dates), ~b.file.ok => dates = Times(b),
         BarInv, bar.crash = "no", view # "none",
         Retuned(b, bar), b.playing = bar.playing, b.interpMode = bar.interpMode,
         Frame, Show(Reread(b, dates))
  PROVE  BarInv'
<1>1. /\ Prepared(bar, ~modal.open)
      /\ Usable(bar) => bar.sel >= 0 /\ (bar.opts.interp => HasStep(bar))
  BY BarPrepared
<1>2. Prepared(b, ~modal.open) /\ Typed(b)
  BY <1>1, RetunedPrepared DEF Prepared
<1>3. Usable(b) => b.sel >= 0
  BY <1>1 DEF Retuned, Usable
<1>4. b.playing => view = "shown" /\ ~modal.open
  BY DEF BarInv, Dialog
<1>5. CASE b.file = NoFile
  <2>1. Show(Crash(b, "null"))
    BY <1>5 DEF Reread
  <2> QED
    BY <1>2, <2>1, CrashStep DEF Retuned
<1>6. CASE b.file # NoFile
  <2> DEFINE d == ReadAgain(b, dates)
             listed == PopulateComboDataList(d)
  <2>0. d = ReadAgain(b, dates)
    OBVIOUS
  <2>1. /\ Reread(b, dates) = TimelineChanged(listed)
        /\ Unlisted(d) /\ d.count = b.count
        /\ d.opts = b.opts /\ d.start = b.start /\ d.idx = b.idx /\ d.hours = b.hours
        /\ d.playing = b.playing /\ d.ready = b.ready /\ d.set = b.set
        /\ d.crash = b.crash /\ d.sel = b.sel /\ d.max = b.max /\ d.val = b.val
        /\ d.nowMode = b.nowMode /\ d.interpMode = b.interpMode
        /\ Times(d) = dates /\ (Usable(d) <=> dates # <<>>)
        /\ dates = Times(b) => (Usable(d) <=> Usable(b)) /\ d.hurt = b.hurt
        /\ dates # Times(b) => d.hurt # {} /\ (dates # <<>> => "changed" \in d.hurt)
        /\ b.hurt \subseteq d.hurt
    <3> HIDE DEF d
    <3> QED
      BY <1>2, <1>6, <2>0, AgainHolds
  <2> HIDE DEF d
  <2>2. /\ Typed(listed) /\ OneStale(listed)
        /\ listed.file = d.file /\ listed.opts = b.opts /\ listed.idx = b.idx
        /\ listed.hours = b.hours /\ listed.hurt = d.hurt /\ listed.playing = b.playing
        /\ listed.ready = b.ready /\ listed.interpMode = b.interpMode
        /\ listed.nowMode = b.nowMode /\ listed.max = b.max /\ listed.crash = b.crash
        /\ Usable(d) /\ (d.count = 0 \/ (d.count = Len(Times(d)) /\ d.sel >= 0))
             => listed.sel >= 0
    BY <2>1, PopulateRests
  <2>3. Show(TimelineChanged(listed))
    BY <2>1
  <2> HIDE DEF listed
  <2>4. /\ (Usable(listed) <=> Usable(d)) /\ (HasStep(listed) <=> HasStep(b))
        /\ Times(listed) = dates /\ Step(listed) = Step(b)
    BY <2>1, <2>2 DEF Usable, HasStep, Times, Step
  <2>5. listed.hurt = {} /\ Usable(listed) => listed.sel >= 0
    BY <1>2, <1>3, <2>1, <2>2, <2>4 DEF Typed, Listed
  <2>6. Prepared(listed, ~modal.open)
    <3>1. ASSUME Regular(listed)
          PROVE  dates = Times(b) /\ Regular(b)
      BY <2>1, <2>2, <2>4, <3>1 DEF Regular
    <3>2. ~modal.open => Fits(listed)
      BY <1>2, <2>1, <2>2, <2>4, <3>1 DEF Prepared, Fits
    <3>3. Spans(listed)
      BY <1>2, <2>1, <2>2, <2>4, <3>1 DEF Prepared, Spans, LastTime, MinTime
    <3>4. listed.hurt = {} =>
            /\ HasStep(listed) /\ (listed.ready \/ listed.nowMode \/ listed.playing => Usable(listed))
            /\ listed.playing /\ listed.opts.interp => listed.interpMode
      BY <1>2, <2>1, <2>2, <2>4 DEF Prepared
    <3> QED
      BY <1>2, <2>2, <3>2, <3>3, <3>4 DEF Prepared
  <2> QED
    BY <1>4, <2>1, <2>2, <2>3, <2>5, <2>6, LineStep DEF Retuned
<1> QED
  BY <1>5, <1>6

LEMMA UpdatePrefsStep == BarInv /\ UpdatePrefs => BarInv'
<1> SUFFICES ASSUME BarInv, UpdatePrefs PROVE BarInv'
  OBVIOUS
<1>1. PICK dates \in FoundAgain, s \in 0..2 : Show(Reread([bar EXCEPT !.start = s], dates))
  BY DEF UpdatePrefs
<1>2. Frame /\ Typed(bar) /\ view # "none" /\ bar.crash = "no"
  BY DEF UpdatePrefs, Alive, Frame, BarInv, Healthy
<1> DEFINE b == [bar EXCEPT !.start = s]
<1>3. Retuned(b, bar) /\ b.playing = bar.playing /\ b.interpMode = bar.interpMode
  BY <1>2 DEF Retuned, Typed, Configured, IsBar, BarFields
<1>4. Show(Reread(b, dates))
  BY <1>1
<1> HIDE DEF b
<1>5. Ascending(dates) /\ (~b.file.ok => dates = Times(b))
  BY <1>2, <1>3, FoundAscending DEF Retuned, Times
<1> QED
  BY <1>2, <1>3, <1>4, <1>5, RereadStep

LEMMA OnFormatRefreshTimerStep == BarInv /\ OnFormatRefreshTimer => BarInv'
<1> SUFFICES ASSUME BarInv, OnFormatRefreshTimer PROVE BarInv'
  OBVIOUS
<1>1. Frame /\ Typed(bar) /\ view # "none" /\ bar.crash = "no"
  BY DEF OnFormatRefreshTimer, Alive, Frame, BarInv, Healthy
<1>2. CASE ~Usable(bar)
  <2>1. Keep(bar) /\ Retuned(bar, bar)
    BY <1>1, <1>2 DEF OnFormatRefreshTimer, Retuned, Typed, Configured
  <2> QED
    BY <1>1, <2>1, RetunedStep DEF BarInv, Dialog
<1>3. CASE Usable(bar)
  <2> DEFINE b == Outdated(bar)
  <2>1. /\ Typed(b) /\ b.file = bar.file /\ b.opts = bar.opts /\ b.idx = bar.idx
        /\ b.hours = bar.hours /\ b.hurt = bar.hurt /\ b.playing = bar.playing
        /\ b.ready = bar.ready /\ b.crash = bar.crash /\ b.sel = bar.sel
        /\ b.max = bar.max /\ b.nowMode = bar.nowMode /\ b.interpMode = bar.interpMode
    BY <1>1, OutdatedTyped
  <2>2. RefreshTimeZoneDisplay(b)
    BY <1>3 DEF OnFormatRefreshTimer
  <2> HIDE DEF b
  <2>3. /\ Usable(b) /\ (HasStep(b) <=> HasStep(bar)) /\ (Spans(b) <=> Spans(bar))
        /\ (Fits(b) <=> Fits(bar))
    BY <1>3, <2>1, FileAlike
  <2>4. Prepared(bar, ~modal.open) /\ bar.sel >= 0
    BY <1>1, <1>3, BarPrepared
  <2>5. Pending(b, ~modal.open)
    BY <1>3, <2>1, <2>3, <2>4 DEF Pending, Prepared
  <2>6. /\ Healthy(bar', ~modal.open) /\ bar'.opts = b.opts /\ bar'.idx = b.idx
        /\ bar'.hurt = b.hurt /\ bar'.playing = b.playing /\ bar'.file = b.file
        /\ \/ ~Usable(b) /\ factory' = factory
           \/ bar'.crash # "no" \/ factory' = NoSet
           \/ Usable(bar') /\ factory' = bar'.set
    BY <2>2, <2>5, RefreshHealthy
  <2>7. Drawn'
    BY <1>1, <2>1, <2>6, RefreshDrawn DEF BarInv
  <2>8. Healthy(bar, ~modal.open)'
    BY <1>1, <2>6 DEF Frame
  <2>9. Dialog' /\ Intervals'
    BY <1>1, <2>1, <2>6 DEF BarInv, Frame, Dialog, Intervals, Allowed
  <2> QED
    BY <1>1, <2>7, <2>8, <2>9 DEF BarInv, Frame
<1> QED
  BY <1>2, <1>3

LEMMA SetPluginMessageStep == BarInv /\ SetPluginMessage => BarInv'
<1>1. ASSUME BarInv, SetPluginMessage
      PROVE  Typed(bar) /\ bar.crash = "no" /\ Frame /\ Keep(Crash(bar, "null"))
  BY <1>1 DEF SetPluginMessage, Alive, Still, Frame, BarInv, Healthy
<1> QED
  BY <1>1, CrashStep

LEMMA IdleStep ==
  ASSUME BarInv, UNCHANGED <<view, bar, stored, factory, modal>>
  PROVE  BarInv'
<1>1. Healthy(bar, ~modal.open)'
  BY DEF BarInv
<1>2. Drawn' /\ Dialog' /\ Intervals'
  BY DEF BarInv, Drawn, Dialog, Intervals, Usable, Allowed
<1> QED
  BY <1>1, <1>2 DEF BarInv

-----------------------------------------------------------------------------
LEMMA InitBarInv == Init => BarInv
<1> SUFFICES ASSUME Init PROVE BarInv
  OBVIOUS
<1>1. PICK o \in StartOptions :
        /\ bar = NewBar([opts |-> o.opts, start |-> o.start, hurt |-> {}])
        /\ stored = o.opts
  BY DEF Init
<1>2. o.opts \in Options /\ o.start \in 0..2 /\ o.opts.slices \in Int
  BY StartAssumption DEF Options
<1>3. o.opts.slices >= 0
  BY <1>2, StepTableAssumption, DomainOfTable
<1> DEFINE b == [opts |-> o.opts, start |-> o.start, hurt |-> {}]
<1>4. /\ IsBar(bar) /\ bar.file = NoFile /\ bar.count = 0 /\ bar.sel = -1 /\ bar.max = 0
      /\ bar.val = 0 /\ bar.hours = 0 /\ bar.idx = 0 /\ bar.opts = o.opts
      /\ bar.start = o.start /\ bar.hurt = {} /\ bar.crash = "no" /\ bar.stale = {}
      /\ bar.shifted = {} /\ bar.saved = NoLabel /\ ~bar.ready /\ ~bar.nowMode
      /\ ~bar.playing
  BY <1>1 DEF NewBar, IsBar, BarFields
<1>5. ~Usable(bar) /\ Times(bar) = <<>>
  BY <1>4 DEF Usable, Times, NoFile
<1>6. NoLabel \in [index : Int, stale : BOOLEAN] /\ ~NoLabel.stale
  BY DEF NoLabel
<1>7. Typed(bar)
  BY <1>2, <1>4, <1>5, <1>6, DomainOfTable
     DEF Typed, Listed, Ascending, Placed, Configured, Marked
<1>8. OneStale(bar)
  BY <1>4, <1>6 DEF OneStale
<1>9. Healthy(bar, ~modal.open)
  BY <1>4, <1>5, <1>7, <1>8 DEF Healthy, Sound, Quiet, Fits, Spans, Near, Regular
<1>10. modal = NoModal /\ NoModal.open = FALSE /\ view = "none"
  BY DEF Init, NoModal
<1>11. Drawn /\ Dialog /\ Intervals
  BY <1>1, <1>3, <1>4, <1>10 DEF Drawn, Dialog, Intervals
<1> QED
  BY <1>1, <1>2, <1>9, <1>10, <1>11 DEF BarInv

LEMMA InitBounded == Init => Bounded
BY BoundsAssumption DEF Init, Bounded

LEMMA NextBarInv == BarInv /\ Bounded /\ [Next]_vars => BarInv'
<1> SUFFICES ASSUME BarInv, Bounded, [Next]_vars PROVE BarInv'
  OBVIOUS
<1>1. CASE Tick
  BY <1>1, IdleStep DEF Tick, Keep
<1>2. CASE UNCHANGED vars
  BY <1>2, IdleStep DEF vars
<1> QED
  BY <1>1, <1>2, MakeBarStep, ToolbarStep, OnCloseStep, OnOpenFileStep,
     OpenGeneratedGribStep, OnPlayStopStep, OnPlayStopTimerStep, OnPrevStep, OnNextStep,
     OnTimelineStep, OnRecordForecastStep, OnNowStep, OpenSettingsStep, OnApplyStep,
     OnSettingsStep, MenuAppendStep, UpdateStartStep, UpdatePrefsStep,
     OnFormatRefreshTimerStep, SetPluginMessageStep DEF Next

LEMMA NextBounded == BarInv /\ Bounded /\ [Next]_vars => Bounded'
<1> SUFFICES ASSUME Bounded, [Next]_vars PROVE Bounded'
  OBVIOUS
<1>1. \A b, l : OpenAnyFile(b, l) => opens' \in 0..MaxOpens
  BY BoundsAssumption DEF OpenAnyFile, Bounded
<1>2. \A b, new : OpenLater(b, new) => opens' \in 0..MaxOpens
  BY <1>1 DEF OpenLater
<1>3. Change => changes' \in 0..MaxChanges
  BY BoundsAssumption DEF Change, Bounded
<1> USE DEF Bounded
<1>4. CASE MakeBar \/ OnToolbarToolCallback
  BY <1>1, <1>2, <1>4 DEF MakeBar, OnToolbarToolCallback
<1>5. CASE OnOpenFile \/ OpenGeneratedGrib
  BY <1>2, <1>5 DEF OnOpenFile, OpenGeneratedGrib
<1>6. CASE OnApply \/ UpdateStart
  BY <1>3, <1>6 DEF OnApply, UpdateStart
<1>7. CASE UpdatePrefs \/ OnFormatRefreshTimer
  BY <1>3, <1>7 DEF UpdatePrefs, OnFormatRefreshTimer
<1>8. CASE Tick
  BY <1>8 DEF Tick
<1>9. CASE UNCHANGED <<opens, changes, now>>
  BY <1>9
<1>10. CASE OnPlayStop \/ OnPlayStopTimer \/ OnPrev \/ OnNext \/ OnTimeline
            \/ OnRecordForecast \/ OnNow \/ SetPluginMessage
  BY <1>9, <1>10 DEF OnPlayStop, OnPlayStopTimer, OnPrev, OnNext, OnTimeline,
       OnRecordForecast, OnNow, SetPluginMessage, Still
<1>11. CASE OnClose \/ OpenSettings \/ OnSettings \/ MenuAppend
  BY <1>9, <1>11 DEF OnClose, OpenSettings, OnSettings, MenuAppend
<1>12. CASE UNCHANGED vars
  BY <1>9, <1>12 DEF vars
<1> QED
  BY <1>4, <1>5, <1>6, <1>7, <1>8, <1>10, <1>11, <1>12 DEF Next

LEMMA AlwaysHealthy == Spec => [](BarInv /\ Bounded)
BY InitBarInv, InitBounded, NextBarInv, NextBounded, PTL DEF Spec

-----------------------------------------------------------------------------
(***************************************************************************)
(* Play back that waits at now.  The time line is then no further than the *)
(* step after now, the one play back goes on to.                           *)
(***************************************************************************)
Lead(b) == MinTime(b) + ((GetNow(b) - MinTime(b)) \div Step(b) + 1) * Step(b)

\* Neither the time line nor the time shown is beyond that step.
Ahead(b) ==
  b.crash = "no" /\ Regular(b) /\ b.opts.interp /\ b.nowMode /\ b.max > 0 =>
    b.interpMode /\ At(b) <= Lead(b) /\ b.set.time \in Int /\ b.set.time <= Lead(b)

LEMMA LeadAlike ==
  ASSUME NEW b, NEW c, c.file = b.file, c.opts = b.opts
  PROVE  Lead(c) = Lead(b)
BY DEF Lead, GetNow, MinTime, LastTime, Times, Step

LEMMA LeadFollowsNow ==
  ASSUME NEW b, Typed(b), Usable(b), HasStep(b), now \in Nat
  PROVE  /\ Lead(b) \in Nat /\ GetNow(b) <= Lead(b)
         /\ b.hours # 0 =>
              /\ GetNearestValue(b, GetNow(b), 1) \in Nat
              /\ Lead(b) = MinTime(b) + (GetNearestValue(b, GetNow(b), 1) + 1) * Step(b)
              /\ GetNearestValue(b, GetNow(b), 0)
                   <= GetNearestValue(b, GetNow(b), 1) + 1
<1> DEFINE s == Step(b)
           m == MinTime(b)
           n == GetNow(b)
           t == (n - m) \div s
<1>1. s \in Nat \ {0} /\ m \in Nat /\ n \in Nat /\ m <= n
  BY StepIsPositive, TimesOfFile, GetNowInFile
<1>2. Lead(b) = m + (t + 1) * s
  BY DEF Lead
<1>3. b.hours # 0 => /\ GetNearestValue(b, n, 1) = t
                     /\ GetNearestValue(b, n, 0) \in {t, t + 1}
  BY DEF GetNearestValue
<1> DEFINE span == n - m
<1>4. span \in Nat /\ t = span \div s
  BY <1>1
<1> HIDE DEF span, t, s
<1>5. t \in Nat /\ span < s * t + s
  BY <1>1, <1>4, Division
<1>6. (t + 1) * s = s * t + s /\ s * t \in Nat
  BY <1>1, <1>5
<1> DEFINE st == s * t
<1> HIDE DEF st, m, n
<1>7. Lead(b) = m + (st + s) /\ span < st + s /\ st \in Nat
  BY <1>2, <1>5, <1>6 DEF st
<1>8. n = m + span
  BY <1>1 DEF span
<1>9. Lead(b) \in Nat /\ n <= Lead(b)
  BY <1>1, <1>4, <1>7, <1>8
<1>10. b.hours # 0 => /\ GetNearestValue(b, n, 1) \in Nat
                      /\ GetNearestValue(b, n, 0) <= GetNearestValue(b, n, 1) + 1
  BY <1>3, <1>5
<1> QED
  BY <1>2, <1>3, <1>9, <1>10 DEF s, m, n

LEMMA ProductMonotone ==
  ASSUME NEW a \in Nat, NEW c \in Nat, a <= c, NEW s \in Nat
  PROVE  a * s <= c * s
<1> DEFINE d == c - a
<1>1. d \in Nat /\ c = a + d
  OBVIOUS
<1> HIDE DEF d
<1>2. c * s = a * s + d * s /\ a * s \in Nat /\ d * s \in Nat
  BY <1>1
<1> QED
  BY <1>2

\* Placed at now, the time line is not beyond that step.
LEMMA PlacedAhead ==
  ASSUME NEW b, Typed(b), Usable(b), HasStep(b), now \in Nat,
         b.val = Cap(GetNearestValue(b, GetNow(b), 0), 0, b.max)
  PROVE  At(b) <= Lead(b)
<1> DEFINE s == Step(b)
           m == MinTime(b)
           n == GetNow(b)
           w == GetNearestValue(b, n, 0)
           t == GetNearestValue(b, n, 1)
           val == b.val
<1>1. s \in Nat \ {0} /\ m \in Nat /\ n \in Nat /\ m <= n
  BY StepIsPositive, TimesOfFile, GetNowInFile
<1>2. Lead(b) \in Nat /\ n <= Lead(b)
  BY LeadFollowsNow
<1>3. CASE b.hours = 0
  <2>1. At(b) = m + 0 * s
    BY <1>3 DEF At
  <2>2. 0 * s = 0
    BY <1>1
  <2> HIDE DEF s, m, n
  <2> QED
    BY <1>1, <1>2, <2>1, <2>2
<1>4. CASE b.hours # 0
  <2>1. t \in Nat /\ Lead(b) = m + (t + 1) * s /\ w <= t + 1
    BY <1>4, LeadFollowsNow
  <2>2. w \in Nat
    <3>1. n \in m..LastTime(b)
      BY GetNowInFile
    <3> QED
      BY <1>4, <3>1, ValueNear
  <2>3. val = Cap(w, 0, b.max) /\ b.max \in Nat
    BY DEF Typed, Placed
  <2>4. At(b) = m + val * s
    BY <1>4 DEF At
  <2> HIDE DEF val, w, t, s, m
  <2>5. val \in Nat /\ val <= w
    BY <2>2, <2>3 DEF Cap
  <2>6. val <= t + 1 /\ t + 1 \in Nat
    BY <2>1, <2>2, <2>5
  <2>7. val * s <= (t + 1) * s
    BY <1>1, <2>5, <2>6, ProductMonotone
  <2>8. val * s \in Nat /\ (t + 1) * s \in Nat
    BY <1>1, <2>5, <2>6
  <2> DEFINE vs == val * s
             ts == (t + 1) * s
  <2>9. vs <= ts /\ vs \in Nat /\ ts \in Nat /\ At(b) = m + vs /\ Lead(b) = m + ts
    BY <2>1, <2>4, <2>7, <2>8
  <2> HIDE DEF vs, ts
  <2> QED
    BY <1>1, <2>9
<1> QED
  BY <1>3, <1>4

\* The time line is shown where it stands.
LEMMA LineAhead ==
  ASSUME NEW b, Typed(b),
         Regular(b) /\ b.opts.interp /\ b.nowMode /\ b.max > 0 =>
           b.interpMode /\ At(b) <= Lead(b)
  PROVE  Ahead(TimelineChanged(b))
<1> DEFINE c == TimelineChanged(b)
<1>1. /\ Follows(c, b)
      /\ Usable(b) /\ c.crash = "no" =>
           /\ b.interpMode => c.val = b.val /\ c.set.time = At(b)
           /\ b.opts.interp \/ b.interpMode => HasStep(b)
  BY TimelineChangedFollows
<1> HIDE DEF c
<1>2. /\ c.file = b.file /\ c.opts = b.opts /\ c.hours = b.hours /\ c.max = b.max
      /\ c.interpMode = b.interpMode /\ c.nowMode = b.nowMode /\ c.hurt = b.hurt
  BY <1>1 DEF Follows, Descends
<1>3. (Regular(c) <=> Regular(b)) /\ (c.val = b.val => At(c) = At(b)) /\ Lead(c) = Lead(b)
  BY <1>2, FileAlike, LeadAlike
<1>4. Usable(b) /\ c.crash = "no" /\ b.interpMode => At(b) \in Int
  BY <1>1, LineIsInt
<1> QED
  BY <1>1, <1>2, <1>3, <1>4 DEF Ahead, Regular, c

\* What Ahead reads of a control bar.
LEMMA AheadAlike ==
  ASSUME NEW b, Ahead(b), NEW c, c.file = b.file, c.opts = b.opts, c.hours = b.hours,
         c.max = b.max, c.val = b.val, c.set = b.set, c.crash = b.crash,
         c.hurt = b.hurt, c.nowMode => b.nowMode, c.opts.interp /\ b.interpMode => c.interpMode
  PROVE  Ahead(c)
<1>1. (Regular(c) <=> Regular(b)) /\ At(c) = At(b) /\ Lead(c) = Lead(b)
  BY FileAlike, LeadAlike
<1> QED
  BY <1>1 DEF Ahead

LEMMA BestAhead ==
  ASSUME NEW b, Typed(b), now \in Nat, Usable(b) /\ b.opts.interp => HasStep(b)
  PROVE  Ahead(ComputeBestForecastForNow(b))
<1> DEFINE c == ComputeBestForecastForNow(b)
           time == GetNow(b)
           d == PlaceAt(b, time)
           table == b.opts.interp /\ b.hours # 0 /\ ~HasStep(b)
<1>1. c = IF ~Usable(b) THEN b ELSE IF table THEN Crash(b, "table") ELSE ShowAround(d, time)
  BY DEF ComputeBestForecastForNow
<1>2. CASE ~Usable(b)
  BY <1>1, <1>2 DEF Ahead, Regular
<1>3. CASE Usable(b) /\ table
  <2>1. Crash(b, "table").crash = "table"
    BY CrashFollows
  <2> QED
    BY <1>1, <1>3, <2>1 DEF Ahead
<1>4. CASE Usable(b) /\ ~table
  <2>1. c = ShowAround(d, time)
    BY <1>1, <1>4
  <2>2. time \in MinTime(b)..LastTime(b) /\ time \in Int
    BY <1>4, GetNowInFile
  <2> HIDE DEF c
  <2> HIDE DEF time
  <2>3. /\ Rests(d, b)
        /\ b.opts.interp => d.val = Cap(GetNearestValue(b, time, 0), 0, b.max)
    BY <1>4, <2>2, PlaceAtRests
  <2> HIDE DEF d
  <2>4. /\ Typed(d) /\ d.file = b.file /\ d.opts = b.opts /\ d.hours = b.hours
        /\ d.max = b.max
    BY <2>3 DEF Rests, Follows, Descends
  <2>5. /\ Usable(d) /\ (HasStep(d) <=> HasStep(b)) /\ Lead(d) = Lead(b)
        /\ MinTime(d) = MinTime(b) /\ Step(d) = Step(b) /\ LastTime(d) = LastTime(b)
    BY <1>4, <2>4, FileAlike, LeadAlike
  <2>6. GetNow(d) = time /\ GetNearestValue(d, time, 0) = GetNearestValue(b, time, 0)
    BY <2>4, <2>5 DEF GetNow, GetNearestValue, time
  <2>7. ASSUME d.opts.interp, HasStep(d) PROVE At(d) <= Lead(d) /\ time <= Lead(d)
    <3>1. d.val = Cap(GetNearestValue(d, GetNow(d), 0), 0, d.max)
      BY <2>3, <2>4, <2>6, <2>7
    <3> QED
      BY <2>4, <2>5, <2>6, <2>7, <3>1, PlacedAhead, LeadFollowsNow
  <2>8. CASE d.start # 2
    <3> DEFINE e == [d EXCEPT !.interpMode = d.opts.interp]
    <3>1. c = TimelineChanged(e)
      BY <2>1, <2>8 DEF ShowAround
    <3>2. Moded(e, d) /\ e.interpMode = d.opts.interp
      BY <2>4 DEF Moded, Kin, Typed, IsBar, BarFields
    <3> HIDE DEF e
    <3>3. Typed(e)
      BY <2>4, <3>2, ModedDescends DEF Descends
    <3>4. /\ (HasStep(e) <=> HasStep(d)) /\ At(e) = At(d) /\ Lead(e) = Lead(d)
          /\ e.opts = d.opts /\ (Usable(e) <=> Usable(d))
      BY <3>2, FileAlike, LeadAlike DEF Moded, Kin
    <3>5. CASE e.opts.interp /\ ~HasStep(e)
      <4>1. c = Crash(e, "table")
        BY <2>5, <3>1, <3>4, <3>5 DEF TimelineChanged
      <4> QED
        BY <3>3, <4>1, CrashFollows DEF Ahead, c
    <3>6. CASE e.opts.interp => HasStep(e)
      <4>1. e.opts.interp => e.interpMode /\ At(e) <= Lead(e)
        BY <2>7, <3>2, <3>4, <3>6
      <4> QED
        BY <3>1, <3>3, <4>1, LineAhead DEF c
    <3> QED
      BY <3>5, <3>6
  <2>9. CASE d.start = 2
    <3> DEFINE at == SetAt(d, time)
               put == RestaureSelectionString(at)
               e == [put EXCEPT !.interpMode = TRUE, !.nowMode = TRUE]
    <3>1. c = ShowTime(e, time)
      BY <2>1, <2>9 DEF ShowAround
    <3>2. /\ Follows(at, d) /\ at.val = d.val /\ at.set = [gen |-> d.file.gen, time |-> time]
      BY <2>4, SetAtFollows
    <3>3. Typed(at) /\ at.set.time = time
      BY <3>2 DEF Follows, Descends
    <3> HIDE DEF at
    <3>4. Rests(put, at) /\ put.shifted = {} /\ put.val = at.val
      BY <3>3, RestaureRests
    <3>5. Typed(put)
      BY <3>4 DEF Rests, Follows, Descends
    <3> HIDE DEF put
    <3>6. Moded(e, put) /\ e.interpMode /\ e.shifted = {}
      BY <3>4, <3>5 DEF Moded, Kin, Typed, IsBar, BarFields
    <3> HIDE DEF e
    <3>7. /\ Typed(e) /\ e.file = d.file /\ e.opts = d.opts /\ e.hours = d.hours
          /\ e.val = d.val /\ e.set.time = time
      BY <3>2, <3>3, <3>4, <3>5, <3>6, ModedDescends DEF Rests, Follows, Descends, Moded
    <3>8. Usable(e)
      BY <2>5, <3>7 DEF Usable
    <3>9. Rests(c, e) /\ c.val = e.val
      BY <2>2, <3>1, <3>6, <3>7, <3>8, ShowTimeRests
    <3>10. /\ c.file = d.file /\ c.opts = d.opts /\ c.hours = d.hours /\ c.val = d.val
           /\ c.set.time = time /\ c.interpMode /\ c.max = b.max
      BY <2>4, <3>2, <3>4, <3>6, <3>7, <3>9 DEF Rests, Follows, Descends, Moded
    <3>11. At(c) = At(d) /\ Lead(c) = Lead(d)
      BY <3>10, FileAlike, LeadAlike
    <3>12. d.opts.interp => HasStep(d)
      BY <1>4, <2>4, <2>5
    <3> QED
      BY <2>2, <2>7, <3>10, <3>11, <3>12 DEF Ahead, c
  <2> QED
    BY <2>8, <2>9
<1> QED
  BY <1>2, <1>3, <1>4

\* The time line is made as long as its options ask for.
LEMMA RangedAhead ==
  ASSUME NEW b, Typed(b), now \in Nat, SetTimeLineMax(b, TRUE).crash = "no"
  PROVE  Ahead(SetTimeLineMax(b, TRUE))
<1> DEFINE c == SetTimeLineMax(b, TRUE)
           oldmax == IF b.max > 1 THEN b.max ELSE 1
           span == b.hours \div Step(b)
           last == Len(Times(b)) - 1
           ranged == IF b.opts.interp THEN SetMax(b, span)
                     ELSE IF Usable(b) THEN SetMax(b, last) ELSE b
           n == (ranged.max * b.val) \div oldmax
           best == ComputeBestForecastForNow(ranged)
           table == b.opts.interp /\ ~HasStep(b)
<1>1. c = IF table THEN Crash(b, "table")
          ELSE IF ranged.max = 0 THEN ranged
          ELSE IF b.nowMode THEN best ELSE SetValue(ranged, n)
  BY DEF SetTimeLineMax
<1>2. ~table
  <2>1. CASE table
    <3>1. c = Crash(b, "table")
      BY <1>1, <2>1
    <3>2. Crash(b, "table").crash = "table"
      BY CrashFollows
    <3> HIDE DEF c
    <3> QED
      BY <3>1, <3>2 DEF c
  <2> QED
    BY <2>1
<1>3. Descends(ranged, b) /\ ranged.nowMode = b.nowMode
  <2>1. CASE b.opts.interp
    <3>1. span \in Nat
      <4>1. Step(b) \in Nat \ {0} /\ b.hours \in Nat
        BY <1>2, <2>1, StepIsPositive DEF Typed, Placed
      <4> QED
        BY <4>1, Division
    <3> HIDE DEF span
    <3> QED
      BY <2>1, <3>1, SetMaxDescends
  <2>2. CASE ~b.opts.interp /\ Usable(b)
    <3>1. last \in Nat
      BY <2>2, TimesOfFile
    <3> HIDE DEF last
    <3> QED
      BY <2>2, <3>1, SetMaxDescends
  <2>3. CASE ~b.opts.interp /\ ~Usable(b)
    BY <2>3 DEF Descends
  <2> QED
    BY <2>1, <2>2, <2>3
<1> HIDE DEF ranged
<1>4. /\ Typed(ranged) /\ ranged.max \in Nat
      /\ ranged.opts.interp => HasStep(ranged)
  BY <1>2, <1>3 DEF Descends, Typed, Placed, HasStep
<1>5. CASE ranged.max = 0
  <2>1. c = ranged
    BY <1>1, <1>2, <1>5
  <2>2. Ahead(ranged)
    BY <1>5 DEF Ahead
  <2> QED
    BY <2>1, <2>2
<1>6. CASE ranged.max # 0 /\ b.nowMode
  <2>1. Ahead(best)
    BY <1>4, BestAhead
  <2> HIDE DEF best
  <2> QED
    BY <1>1, <1>2, <1>6, <2>1
<1>7. CASE ranged.max # 0 /\ ~b.nowMode
  <2>1. n \in Int
    <3>1. oldmax \in Nat \ {0} /\ b.val \in Nat
      BY DEF Typed, Placed
    <3> HIDE DEF oldmax
    <3>2. ranged.max * b.val \in Int
      BY <1>4, <3>1
    <3> QED
      BY <3>1, <3>2, Division
  <2> HIDE DEF n
  <2>2. Rests(SetValue(ranged, n), ranged)
    BY <1>4, <2>1, SetValueRests
  <2>3. c = SetValue(ranged, n)
    BY <1>1, <1>2, <1>7
  <2> HIDE DEF c
  <2> QED
    BY <1>3, <1>7, <2>2, <2>3 DEF Rests, Follows, Ahead, c
<1> QED
  BY <1>5, <1>6, <1>7

LEMMA OpenFileAhead ==
  ASSUME NEW b, Openable(b), NEW load, load.ok => Ascending(InOrder(DOMAIN load.sets)),
         NEW gen, now \in Nat
  PROVE  Ahead(OpenFile(b, load, gen))
<1> DEFINE o == Opened(b, load, gen)
           r == SetTimeLineMax(o, FALSE)
           c == OpenFile(b, load, gen)
<1>1. c = IF o.crash # "no" THEN o ELSE ShowOpened(r)
  BY DEF OpenFile
<1>2. Typed(o) /\ ~o.nowMode
  BY OpenedTyped
<1> HIDE DEF o
<1>3. /\ Descends(r, o) /\ r.nowMode = o.nowMode
      /\ r.crash = "no" => (o.opts.interp => HasStep(o))
  BY <1>2, SetTimeLineMaxDescends
<1> HIDE DEF r
<1>4. Typed(r) /\ ~r.nowMode /\ (r.crash = "no" /\ r.opts.interp => HasStep(r))
  BY <1>2, <1>3 DEF Descends, HasStep
<1>5. CASE o.crash # "no"
  BY <1>1, <1>2, <1>5 DEF Ahead
<1>6. CASE o.crash = "no" /\ r.crash # "no"
  BY <1>1, <1>4, <1>6 DEF ShowOpened, Ahead
<1>7. CASE o.crash = "no" /\ r.crash = "no"
  <2> DEFINE best == ComputeBestForecastForNow(r)
             line == TimelineChanged(r)
             d == IF r.start # 0 /\ r.hours # 0 THEN best ELSE line
  <2>1. c = EnableButtons(d)
    BY <1>1, <1>7 DEF ShowOpened
  <2>2. Ahead(best) /\ Descends(best, r)
    BY <1>4, <1>7, BestAhead, ComputeBestDescends
  <2>3. Ahead(line) /\ Follows(line, r)
    BY <1>4, LineAhead, TimelineChangedFollows
  <2> HIDE DEF best, line
  <2>4. Ahead(d) /\ Typed(d)
    BY <2>2, <2>3 DEF Follows, Descends
  <2> HIDE DEF d, c
  <2>5. /\ c.file = d.file /\ c.opts = d.opts /\ c.hours = d.hours /\ c.max = d.max
        /\ c.val = d.val /\ c.set = d.set /\ c.crash = d.crash /\ c.hurt = d.hurt
        /\ c.nowMode = d.nowMode /\ c.interpMode = d.interpMode
    BY <2>1, <2>4, EnabledTyped
  <2> QED
    BY <2>4, <2>5, AheadAlike DEF c
<1> QED
  BY <1>5, <1>6, <1>7

\* The dates are listed again and the time line is shown.
LEMMA RefreshAhead ==
  ASSUME NEW b, Typed(b), b.crash = "no", Ahead(b), RefreshTimeZoneDisplay(b)
  PROVE  Ahead(bar')
<1>1. CASE ~Usable(b)
  BY <1>1 DEF RefreshTimeZoneDisplay, Keep
<1>2. CASE Usable(b)
  <2> DEFINE d == PopulateComboDataList(b)
             c == TimelineChanged(d)
  <2>1. Show(c)
    BY <1>2 DEF RefreshTimeZoneDisplay
  <2>2. /\ Typed(d) /\ d.file = b.file /\ d.opts = b.opts /\ d.hours = b.hours
        /\ d.interpMode = b.interpMode /\ d.nowMode = b.nowMode
        /\ d.max = b.max /\ d.val = b.val /\ d.hurt = b.hurt
    BY TypedUnlisted, PopulateRests
  <2> HIDE DEF d
  <2>3. (Regular(d) <=> Regular(b)) /\ At(d) = At(b) /\ Lead(d) = Lead(b)
    BY <2>2, FileAlike, LeadAlike
  <2>4. Ahead(c)
    BY <2>2, <2>3, LineAhead DEF Ahead
  <2> QED
    BY <2>1, <2>4 DEF Show
<1> QED
  BY <1>1, <1>2

\* The dialog is closed: the range is made again, and now looked for again.
LEMMA CloseSettingsAhead ==
  ASSUME NEW b, Typed(b), now \in Nat, NEW o \in Options, CloseSettings(b, o)
  PROVE  Ahead(bar')
<1> DEFINE c == [b EXCEPT !.opts = o, !.interpMode = @ /\ o.interp]
           d == SetTimeLineMax(c, TRUE)
<1>1. Optioned(c, b, o)
  BY DEF Optioned, Typed, IsBar, BarFields
<1>2. RefreshUnlessCrashed(d)
  BY DEF CloseSettings
<1> HIDE DEF c
<1>3. Typed(c)
  BY <1>1, OptionedTyped
<1>4. Descends(d, c)
  BY <1>3, SetTimeLineMaxDescends
<1>5. CASE d.crash # "no"
  BY <1>2, <1>5 DEF RefreshUnlessCrashed, Keep, Ahead
<1>6. CASE d.crash = "no"
  <2>1. RefreshTimeZoneDisplay(d)
    BY <1>2, <1>6 DEF RefreshUnlessCrashed
  <2>2. Ahead(d)
    BY <1>3, <1>6, RangedAhead
  <2> HIDE DEF d
  <2> QED
    BY <1>4, <1>6, <2>1, <2>2, RefreshAhead DEF Descends
<1> QED
  BY <1>5, <1>6

\* Between two events, unless the dialog is open and may have changed options.
WaitsAtNow == ~modal.open => Ahead(bar)

LEMMA AheadStep ==
  ASSUME NEW c, Ahead(c), bar' = c, now' = now
  PROVE  WaitsAtNow'
BY DEF WaitsAtNow, Ahead, At, Lead, GetNow, MinTime, LastTime, Times, Step, Usable

LEMMA OpenedAhead ==
  ASSUME NEW b, Bounded, \E l \in Loads : OpenAnyFile(b, l), Openable(b), now' = now
  PROVE  WaitsAtNow'
<1>1. PICK l \in Loads : OpenAnyFile(b, l)
  OBVIOUS
<1> DEFINE load == Made(l)
           gen == opens + changes + 1
           c == OpenFile(b, load, gen)
<1>2. load.ok => Ascending(InOrder(DOMAIN load.sets))
  BY MadeAscending
<1>3. bar' = c
  BY <1>1 DEF OpenAnyFile, Show
<1> HIDE DEF load, gen
<1>4. Ahead(c)
  BY <1>2, NowIsNat, OpenFileAhead
<1> HIDE DEF c
<1> QED
  BY <1>3, <1>4, AheadStep

\* A file is opened.
LEMMA AnyOpenAhead ==
  ASSUME BarInv, Bounded, WaitsAtNow,
         MakeBar \/ OnToolbarToolCallback \/ OnOpenFile \/ OpenGeneratedGrib
  PROVE  WaitsAtNow'
<1>1. now' = now /\ Typed(bar)
  BY DEF MakeBar, OnToolbarToolCallback, OnOpenFile, OpenGeneratedGrib, BarInv, Healthy
<1>2. CASE MakeBar
  <2> DEFINE s == [bar EXCEPT !.opts = stored]
             b == NewBar(s)
  <2>1. \E l \in Loads : OpenAnyFile(b, l)
    <3>1. CASE \E new \in BOOLEAN : OpenLater(b, new)
      BY <3>1, OpenLaterLoads
    <3> QED
      BY <1>2, <3>1 DEF MakeBar
  <2>2. s.opts = stored /\ s.start = bar.start /\ s.hurt = bar.hurt
    BY <1>1 DEF Typed, IsBar, BarFields
  <2> HIDE DEF s
  <2>3. b.opts = stored /\ b.start = bar.start /\ b.hurt = bar.hurt /\ b.max = 0
    BY <2>2 DEF NewBar
  <2> HIDE DEF b
  <2>4. Openable(b)
    BY <1>1, <2>3 DEF Openable, BarInv, Typed, Configured
  <2> QED
    BY <1>1, <2>1, <2>4, OpenedAhead
<1>3. CASE OnToolbarToolCallback /\ Keep(bar)
  BY <1>1, <1>3, AheadStep DEF OnToolbarToolCallback, Keep, WaitsAtNow, BarInv, Dialog
<1>4. CASE \E new \in BOOLEAN : OpenLater(bar, new)
  BY <1>1, <1>4, OpenLaterLoads, OpenedAhead DEF Openable, Typed, Configured, Placed
<1>5. CASE OpenGeneratedGrib
  <2> DEFINE hurt == IF bar.playing \/ modal.open THEN bar.hurt \cup {"busy"} ELSE bar.hurt
             b == [bar EXCEPT !.hurt = hurt]
  <2>1. \E l \in Loads : OpenAnyFile(b, l)
    <3>1. OpenLater(b, FALSE)
      BY <1>5 DEF OpenGeneratedGrib
    <3> QED
      BY <3>1, OpenLaterLoads
  <2>2. hurt \subseteq {"busy", "gone", "changed", "long"}
    BY <1>1 DEF Typed, Configured
  <2> HIDE DEF hurt
  <2>3. b.opts = bar.opts /\ b.start = bar.start /\ b.hurt = hurt /\ b.max = bar.max
    BY <1>1 DEF Typed, IsBar, BarFields
  <2> HIDE DEF b
  <2>4. Openable(b)
    BY <1>1, <2>2, <2>3 DEF Openable, Typed, Configured, Placed
  <2> QED
    BY <1>1, <2>1, <2>4, OpenedAhead
<1> QED
  BY <1>2, <1>3, <1>4, <1>5 DEF OnToolbarToolCallback, OnOpenFile

\* Now is left: the time line goes on, or a record is selected.
LEMMA ElsewhereAhead ==
  ASSUME NEW b, Typed(b), ~b.nowMode, now' = now, Show(TimelineChanged(b))
  PROVE  WaitsAtNow'
<1>1. Ahead(TimelineChanged(b)) /\ bar' = TimelineChanged(b)
  BY LineAhead DEF Show
<1> QED
  BY <1>1, AheadStep

LEMMA CrashAhead ==
  ASSUME NEW b, Typed(b), NEW why \in {"index", "table", "null"}, now' = now,
         bar' = Crash(b, why)
  PROVE  WaitsAtNow'
<1>1. Crash(b, why).crash = why
  BY CrashFollows
<1> QED
  BY <1>1, AheadStep DEF Ahead

LEMMA TimerAhead ==
  ASSUME BarInv, Bounded, WaitsAtNow, OnPlayStopTimer
  PROVE  WaitsAtNow'
<1>1. /\ Typed(bar) /\ bar.crash = "no" /\ ~modal.open /\ bar.playing /\ now' = now
      /\ now \in Nat /\ view # "none"
  BY NowIsNat DEF BarInv, Healthy, OnPlayStopTimer, Alive, Still, Dialog
<1> DEFINE best == ComputeBestForecastForNow(bar)
           stop == IF best.val >= best.max THEN StopPlayBack(best) ELSE best
<1>2. Show(Advance(bar)) \/ Show(stop) \/ Keep(StopPlayBack(bar))
  BY DEF OnPlayStopTimer
<1>3. CASE Show(Advance(bar))
  <2>1. CASE bar.nowMode /\ ~Usable(bar) /\ bar.val < bar.max
    <3>1. Advance(bar) = Crash(bar, "index")
      BY <2>1 DEF Advance
    <3> QED
      BY <1>1, <1>3, <3>1, CrashAhead DEF Show
  <2>2. CASE ~(bar.nowMode /\ ~Usable(bar) /\ bar.val < bar.max)
    <3>1. PICK b : Advance(bar) = TimelineChanged(b) /\ Prepared(b, TRUE) /\ ~b.nowMode
      BY <1>1, <2>2, AdvancePrepared
    <3> QED
      BY <1>1, <1>3, <3>1, ElsewhereAhead DEF Prepared
  <2> QED
    BY <2>1, <2>2
<1>4. CASE Show(stop)
  <2>1. Ahead(best) /\ Typed(best)
    BY <1>1, BarPrepared, BestAhead, ComputeBestDescends DEF Descends
  <2> HIDE DEF best
  <2>2. Ahead(StopPlayBack(best))
    BY <2>1, AheadAlike DEF StopPlayBack, Typed, IsBar, BarFields
  <2>3. Ahead(stop)
    BY <2>1, <2>2
  <2> HIDE DEF stop
  <2> QED
    BY <1>1, <1>4, <2>3, AheadStep DEF Show
<1>5. CASE Keep(StopPlayBack(bar))
  <2>1. Ahead(StopPlayBack(bar))
    BY <1>1, AheadAlike DEF WaitsAtNow, StopPlayBack, Typed, IsBar, BarFields
  <2> QED
    BY <1>1, <1>5, <2>1, AheadStep DEF Keep
<1> QED
  BY <1>2, <1>3, <1>4, <1>5

\* A record is asked for, by a button, the list or the slider.
LEMMA RecordAhead ==
  ASSUME NEW b, Typed(b), NEW i
  PROVE  /\ Typed(AtRecord(b, i)) /\ ~AtRecord(b, i).nowMode
         /\ AtRecord(b, i).playing = b.playing
<1> DEFINE d == [b EXCEPT !.nowMode = FALSE, !.interpMode = FALSE]
<1>1. Retuned(d, b) /\ ~d.nowMode /\ d.playing = b.playing
  BY DEF Retuned, Typed, Configured, IsBar, BarFields
<1> HIDE DEF d
<1>2. Typed(d)
  BY <1>1, RetunedTyped
<1>3. Rests(SetSelection(d, i), d)
  BY <1>2, SetSelectionRests
<1> QED
  BY <1>1, <1>3 DEF AtRecord, d, Rests, Follows, Descends

LEMMA ButtonAhead ==
  ASSUME BarInv, OnPrev \/ OnNext
  PROVE  WaitsAtNow'
<1>1. Typed(bar) /\ now' = now
  BY DEF BarInv, Healthy, OnPrev, OnNext, Still
<1> DEFINE b == RestaureSelectionString(bar)
           i == FromTime(b, 1)
           j == FromTime(b, 2)
           back == IF i < 1 THEN 0 ELSE i - 1
<1>2. Typed(b)
  BY <1>1, RestaureRests DEF Rests, Follows, Descends
<1>3. CASE OnPrev
  <2>1. Show(IF Lost(b) THEN Crash(b, "index") ELSE TimelineChanged(AtRecord(b, back)))
    BY <1>3 DEF OnPrev
  <2> HIDE DEF b, back
  <2>2. CASE Lost(b)
    BY <1>1, <1>2, <2>1, <2>2, CrashAhead DEF Show
  <2>3. CASE ~Lost(b)
    BY <1>1, <1>2, <2>1, <2>3, RecordAhead, ElsewhereAhead
  <2> QED
    BY <2>2, <2>3
<1>4. CASE OnNext
  <2> DEFINE at == AtRecord(b, j)
  <2>1. IF Lost(b) THEN Keep(Crash(b, "index"))
        ELSE IF j = b.count - 1 THEN Keep(at)
        ELSE Show(TimelineChanged(AtRecord(at, j + 1)))
    BY <1>4 DEF OnNext
  <2> HIDE DEF b, j
  <2>2. Typed(at) /\ ~at.nowMode
    BY <1>2, RecordAhead
  <2> HIDE DEF at
  <2>3. CASE Lost(b)
    BY <1>1, <1>2, <2>1, <2>3, CrashAhead DEF Keep
  <2>4. CASE ~Lost(b) /\ j = b.count - 1
    BY <1>1, <2>1, <2>2, <2>4, AheadStep DEF Keep, Ahead
  <2>5. CASE ~Lost(b) /\ j # b.count - 1
    BY <1>1, <2>1, <2>2, <2>5, RecordAhead, ElsewhereAhead
  <2> QED
    BY <2>3, <2>4, <2>5
<1> QED
  BY <1>3, <1>4

\* The control bar whose play back is stopped, with the time line at v.
LEMMA SliderAhead ==
  ASSUME NEW b, Typed(b), NEW v \in Int, NEW c, c = [SetValue(StopPlayBack(b), v) EXCEPT
           !.interpMode = b.opts.interp, !.nowMode = FALSE]
  PROVE  /\ Typed(c) /\ ~c.nowMode /\ ~c.playing
         /\ Typed(SetSelection(c, v)) /\ ~SetSelection(c, v).nowMode
         /\ ~SetSelection(c, v).playing
<1> DEFINE s == StopPlayBack(b)
           at == SetValue(s, v)
<1>1. Typed(s) /\ ~s.playing
  BY StopPlayBackRetuned, RetunedTyped
<1> HIDE DEF s
<1>2. Rests(at, s)
  BY <1>1, SetValueRests
<1>3. Typed(at) /\ ~at.playing
  BY <1>1, <1>2 DEF Rests, Follows, Descends
<1>4. c = [at EXCEPT !.interpMode = b.opts.interp, !.nowMode = FALSE]
  BY DEF s
<1> HIDE DEF at
<1>5. Retuned(c, at) /\ ~c.nowMode /\ ~c.playing
  BY <1>3, <1>4 DEF Retuned, Typed, Configured, IsBar, BarFields
<1>6. Typed(c)
  BY <1>3, <1>5, RetunedTyped
<1>7. Rests(SetSelection(c, v), c)
  BY <1>6, SetSelectionRests
<1> QED
  BY <1>5, <1>6, <1>7 DEF Rests, Follows, Descends

LEMMA ChosenAhead ==
  ASSUME BarInv, OnTimeline \/ OnRecordForecast
  PROVE  WaitsAtNow'
<1>1. Typed(bar) /\ now' = now
  BY DEF BarInv, Healthy, OnTimeline, OnRecordForecast, Still
<1>2. CASE OnTimeline
  <2>1. PICK v \in 0..bar.max :
          LET b == [SetValue(StopPlayBack(bar), v) EXCEPT
                       !.interpMode = bar.opts.interp, !.nowMode = FALSE]
          IN  Show(TimelineChanged(IF b.interpMode THEN b ELSE SetSelection(b, v)))
    BY <1>2 DEF OnTimeline
  <2> DEFINE b == [SetValue(StopPlayBack(bar), v) EXCEPT
                      !.interpMode = bar.opts.interp, !.nowMode = FALSE]
  <2>2. Show(TimelineChanged(IF b.interpMode THEN b ELSE SetSelection(b, v)))
    BY <2>1
  <2> HIDE DEF b
  <2>3. v \in Int
    BY <1>1 DEF Typed, Placed
  <2>4. /\ Typed(b) /\ ~b.nowMode
        /\ Typed(SetSelection(b, v)) /\ ~SetSelection(b, v).nowMode
    <3>1. b = [SetValue(StopPlayBack(bar), v) EXCEPT
                 !.interpMode = bar.opts.interp, !.nowMode = FALSE]
      BY DEF b
    <3> QED
      BY <1>1, <2>3, <3>1, SliderAhead
  <2> QED
    BY <1>1, <2>2, <2>4, ElsewhereAhead
<1>3. CASE OnRecordForecast
  <2>1. PICK i : Show(TimelineChanged(AtRecord(StopPlayBack(bar), i)))
    BY <1>3 DEF OnRecordForecast
  <2>2. Typed(StopPlayBack(bar))
    BY <1>1, StopPlayBackRetuned, RetunedTyped
  <2> QED
    BY <1>1, <2>1, <2>2, RecordAhead, ElsewhereAhead
<1> QED
  BY <1>2, <1>3

\* Now is looked for.
LEMMA NowAhead ==
  ASSUME NEW b, BarInv, Bounded, view # "none", bar.crash = "no", Retuned(b, bar),
         now' = now, Show(ComputeBestForecastForNow(b))
  PROVE  WaitsAtNow'
<1>1. Typed(b) /\ (Usable(b) /\ b.opts.interp => HasStep(b))
  <2>1. Usable(bar) /\ bar.opts.interp => HasStep(bar)
    BY BarPrepared
  <2>2. Typed(bar)
    BY DEF BarInv, Healthy
  <2> QED
    BY <2>1, <2>2, RetunedTyped DEF Retuned, Usable, HasStep
<1>2. Ahead(ComputeBestForecastForNow(b))
  BY <1>1, NowIsNat, BestAhead
<1> QED
  BY <1>2, AheadStep DEF Show

\* The open files are read again: the times are the same, or it does not matter.
LEMMA RereadAhead ==
  ASSUME BarInv, bar.crash = "no", WaitsAtNow, NEW b, NEW dates, Ascending(dates),
         ~b.file.ok => dates = Times(b),
         Retuned(b, bar), b.interpMode = bar.interpMode, modal' = modal, now' = now,
         Show(Reread(b, dates))
  PROVE  WaitsAtNow'
<1>1. Typed(bar) /\ Typed(b)
  BY RetunedTyped DEF BarInv, Healthy
<1>2. CASE b.file = NoFile
  <2>1. bar' = Crash(b, "null")
    BY <1>2 DEF Reread, Show
  <2> QED
    BY <1>1, <2>1, CrashAhead
<1>3. CASE b.file # NoFile
  <2> DEFINE d == ReadAgain(b, dates)
             listed == PopulateComboDataList(d)
  <2>0. d = ReadAgain(b, dates)
    OBVIOUS
  <2>1. /\ Reread(b, dates) = TimelineChanged(listed)
        /\ Unlisted(d) /\ d.opts = b.opts /\ d.hours = b.hours
        /\ d.max = b.max /\ d.val = b.val
        /\ d.nowMode = b.nowMode /\ d.interpMode = b.interpMode
        /\ Times(d) = dates
        /\ dates = Times(b) => (Usable(d) <=> Usable(b)) /\ d.hurt = b.hurt
        /\ dates # Times(b) /\ dates # <<>> => "changed" \in d.hurt
        /\ Usable(d) => dates # <<>>
    <3> HIDE DEF d
    <3> QED
      BY <1>1, <1>3, <2>0, AgainHolds
  <2> HIDE DEF d
  <2>2. /\ Typed(listed) /\ listed.file = d.file /\ listed.opts = b.opts
        /\ listed.hours = b.hours /\ listed.interpMode = b.interpMode
        /\ listed.nowMode = b.nowMode /\ listed.max = b.max /\ listed.val = b.val
        /\ listed.hurt = d.hurt
    BY <2>1, PopulateRests
  <2>3. bar' = TimelineChanged(listed)
    BY <2>1 DEF Show
  <2> HIDE DEF listed
  <2>4. ASSUME ~modal.open, Regular(listed), listed.opts.interp, listed.nowMode, listed.max > 0
        PROVE  listed.interpMode /\ At(listed) <= Lead(listed)
    <3>1. Times(listed) = dates /\ (Usable(listed) <=> Usable(d))
      BY <2>1, <2>2 DEF Times, Usable
    <3>2. dates = Times(b) /\ Regular(b)
      BY <2>1, <2>2, <2>4, <3>1 DEF Regular
    <3>3. Times(listed) = Times(bar) /\ Regular(bar)
      BY <3>1, <3>2 DEF Times, Regular, Usable, Retuned
    <3>4. At(listed) = At(bar) /\ Lead(listed) = Lead(bar)
      BY <2>2, <3>3 DEF At, Lead, GetNow, MinTime, LastTime, Step, Retuned
    <3> QED
      BY <2>2, <2>4, <3>3, <3>4 DEF WaitsAtNow, Ahead, Retuned
  <2>5. CASE modal.open
    BY <2>5 DEF WaitsAtNow
  <2>6. CASE ~modal.open
    <3>1. Ahead(TimelineChanged(listed))
      BY <2>2, <2>4, <2>6, LineAhead
    <3> QED
      BY <2>3, <3>1, AheadStep
  <2> QED
    BY <2>5, <2>6
<1> QED
  BY <1>2, <1>3

\* The control bar is closed, play back or the start option changes.
LEMMA BarAhead ==
  ASSUME BarInv, Bounded, WaitsAtNow, OnClose \/ OnPlayStop \/ OnNow \/ UpdateStart
  PROVE  WaitsAtNow'
<1>1. Typed(bar) /\ now' = now /\ modal' = modal
  BY DEF BarInv, Healthy, OnClose, OnPlayStop, OnNow, UpdateStart, Still
<1>2. Retuned(StopPlayBack(bar), bar)
  BY <1>1, StopPlayBackRetuned
<1>3. ~modal.open => Ahead(StopPlayBack(bar))
  BY <1>1, AheadAlike DEF WaitsAtNow, StopPlayBack, Typed, IsBar, BarFields
<1>4. CASE OnClose \/ OnPlayStop
  <2>1. ~modal.open
    BY <1>4 DEF OnClose, OnPlayStop, Idle
  <2> DEFINE c == [bar EXCEPT !.playing = TRUE, !.interpMode = bar.opts.interp]
  <2>2. Retuned(c, bar) /\ c.nowMode = bar.nowMode /\ (c.opts.interp => c.interpMode)
    BY <1>1 DEF Retuned, Typed, Configured, IsBar, BarFields
  <2>3. bar' = StopPlayBack(bar) \/ bar' = NewBar(bar) \/ bar' = c
    BY <1>4 DEF OnClose, OnPlayStop, Keep
  <2> HIDE DEF c
  <2>4. Ahead(c)
    BY <2>1, <2>2, AheadAlike DEF WaitsAtNow, Retuned
  <2>5. ~NewBar(bar).nowMode
    BY DEF NewBar
  <2>6. Ahead(NewBar(bar))
    BY <2>5 DEF Ahead
  <2> QED
    BY <1>1, <1>3, <2>1, <2>3, <2>4, <2>6, AheadStep
<1>5. CASE OnNow
  BY <1>1, <1>2, <1>5, NowAhead DEF OnNow, Idle
<1>6. CASE UpdateStart
  <2>1. PICK s \in 0..2 \ {bar.start} :
          LET b == [bar EXCEPT !.start = s]
          IN  IF Alive THEN Show(ComputeBestForecastForNow(b))
              ELSE view = "none" /\ Keep(b)
    BY <1>6 DEF UpdateStart
  <2> DEFINE b == [bar EXCEPT !.start = s]
  <2>2. Retuned(b, bar) /\ b.nowMode = bar.nowMode /\ b.interpMode = bar.interpMode
    BY <1>1 DEF Retuned, Typed, Configured, IsBar, BarFields
  <2>3. IF Alive THEN Show(ComputeBestForecastForNow(b)) ELSE bar' = b
    BY <2>1 DEF Keep
  <2> HIDE DEF b
  <2>4. CASE Alive
    BY <1>1, <2>2, <2>3, <2>4, NowAhead DEF Alive
  <2>5. CASE ~Alive
    <3>1. ~modal.open => Ahead(b)
      BY <2>2, AheadAlike DEF WaitsAtNow, Retuned
    <3> QED
      BY <1>1, <2>3, <2>5, <3>1, AheadStep DEF WaitsAtNow
  <2> QED
    BY <2>4, <2>5
<1> QED
  BY <1>4, <1>5, <1>6

\* The preferences or the time format change, or the settings are closed.
LEMMA SettingsAhead ==
  ASSUME BarInv, Bounded, WaitsAtNow, OnSettings \/ UpdatePrefs \/ OnFormatRefreshTimer
  PROVE  WaitsAtNow'
<1>1. /\ Typed(bar) /\ bar.crash = "no" /\ now' = now /\ now \in Nat
  BY NowIsNat
     DEF BarInv, Healthy, OnSettings, UpdatePrefs, OnFormatRefreshTimer, Alive
<1> DEFINE b == Outdated(bar)
<1>2. /\ Typed(b) /\ b.file = bar.file /\ b.opts = bar.opts /\ b.hours = bar.hours
      /\ b.set = bar.set /\ b.crash = bar.crash /\ b.max = bar.max
      /\ b.val = bar.val /\ b.hurt = bar.hurt /\ b.nowMode = bar.nowMode /\ b.interpMode = bar.interpMode
  BY <1>1, OutdatedTyped
<1>3. Ahead(bar) => Ahead(b)
  BY <1>2, AheadAlike
<1>4. Ahead(bar') => WaitsAtNow'
  <2>1. PICK c : bar' = c
    OBVIOUS
  <2> QED
    BY <1>1, <2>1, AheadStep
<1>5. CASE OnSettings
  <2>1. PICK o \in Chosen \cup {modal.init} :
          CloseSettings(bar, o) \/ CloseSettings(Outdated(bar), o)
    BY <1>5 DEF OnSettings
  <2>2. o \in Options
    BY <1>5, ChosenAllowed DEF OnSettings
  <2>3. CloseSettings(bar, o) \/ CloseSettings(b, o)
    BY <2>1
  <2> HIDE DEF b
  <2> QED
    BY <1>1, <1>2, <1>4, <2>2, <2>3, CloseSettingsAhead
<1>6. CASE UpdatePrefs
  <2>1. PICK dates \in FoundAgain, s \in 0..2 : Show(Reread([bar EXCEPT !.start = s], dates))
    BY <1>6 DEF UpdatePrefs
  <2> DEFINE d == [bar EXCEPT !.start = s]
  <2>2. Retuned(d, bar) /\ d.interpMode = bar.interpMode
    BY <1>1 DEF Retuned, Typed, Configured, IsBar, BarFields
  <2>3. Show(Reread(d, dates)) /\ modal' = modal
    BY <1>6, <2>1 DEF UpdatePrefs
  <2> HIDE DEF d
  <2>4. Ascending(dates) /\ (~d.file.ok => dates = Times(d))
    BY <1>1, <2>2, FoundAscending DEF Retuned, Times
  <2> QED
    BY <1>1, <2>2, <2>3, <2>4, RereadAhead
<1>7. CASE OnFormatRefreshTimer
  <2>1. (IF Usable(bar) THEN RefreshTimeZoneDisplay(b) ELSE bar' = bar) /\ modal' = modal
    BY <1>7 DEF OnFormatRefreshTimer, Keep
  <2> HIDE DEF b
  <2> QED
    BY <1>1, <1>2, <1>3, <1>4, <2>1, RefreshAhead DEF WaitsAtNow
<1> QED
  BY <1>5, <1>6, <1>7

\* The clock goes on, and with it the step that play back would take.
LEMMA TickAhead ==
  ASSUME BarInv, Bounded, WaitsAtNow, Tick
  PROVE  WaitsAtNow'
<1>1. /\ Typed(bar) /\ bar' = bar /\ modal' = modal
      /\ now \in Nat /\ now' \in Nat /\ now < now' /\ view' = view
  BY NowIsNat, BoundsAssumption DEF BarInv, Healthy, Tick, Keep
<1> SUFFICES ASSUME ~modal.open, bar.crash = "no", Regular(bar), bar.opts.interp,
                    bar.nowMode, bar.max > 0
             PROVE  bar.interpMode /\ At(bar) <= Lead(bar)' /\ bar.set.time <= Lead(bar)'
  BY <1>1 DEF WaitsAtNow, Ahead, At, MinTime, Times, Step, Usable, Regular
<1>2. HasStep(bar) /\ Usable(bar)
  BY DEF BarInv, Healthy, Sound, Regular
<1>3. /\ bar.interpMode /\ At(bar) <= Lead(bar)
      /\ bar.set.time \in Int /\ bar.set.time <= Lead(bar)
  BY DEF WaitsAtNow, Ahead
<1> DEFINE m == MinTime(bar)
           l == LastTime(bar)
           s == Step(bar)
           n == Cap(now, m, l)
           k == Cap(now', m, l)
           t == (n - m) \div s
           u == (k - m) \div s
           p == (t + 1) * s
           q == (u + 1) * s
<1>4. s \in Nat \ {0} /\ m \in Nat /\ l \in Nat /\ m <= l
  BY <1>1, <1>2, StepIsPositive, TimesOfFile
<1>5. Lead(bar) = m + p /\ Lead(bar)' = m + q
  BY <1>1 DEF Lead, GetNow, MinTime, LastTime, Times, Step
<1> HIDE DEF m, l, s
<1>6. n \in Nat /\ k \in Nat /\ m <= n /\ n <= k
  BY <1>1, <1>4 DEF Cap
<1> HIDE DEF n, k
<1>7. t \in Nat /\ u \in Nat /\ t <= u
  BY <1>4, <1>6, Division, DivisionMonotone
<1> HIDE DEF t, u
<1>8. p <= q /\ p \in Nat /\ q \in Nat
  BY <1>4, <1>7, ProductMonotone
<1> HIDE DEF p, q
<1>9. At(bar) \in Int
  BY <1>1, <1>2, LineIsInt
<1> QED
  BY <1>3, <1>4, <1>5, <1>8, <1>9

LEMMA InitAhead == Init => WaitsAtNow
BY DEF Init, NewBar, WaitsAtNow, Ahead

LEMMA NextAhead == BarInv /\ Bounded /\ WaitsAtNow /\ [Next]_vars => WaitsAtNow'
<1> SUFFICES ASSUME BarInv, Bounded, WaitsAtNow, [Next]_vars PROVE WaitsAtNow'
  OBVIOUS
<1>1. CASE OpenSettings \/ OnApply
  <2>1. modal'.open
    BY <1>1 DEF OpenSettings, OnApply
  <2> QED
    BY <2>1 DEF WaitsAtNow
<1>2. CASE bar' = bar /\ now' = now /\ modal' = modal
  BY <1>2 DEF WaitsAtNow, Ahead, At, Lead, GetNow, MinTime, LastTime, Times, Step, Usable
<1>3. CASE MenuAppend \/ UNCHANGED vars
  BY <1>2, <1>3 DEF MenuAppend, Keep, vars
<1>4. CASE SetPluginMessage
  BY <1>4, CrashAhead DEF SetPluginMessage, Keep, Still, BarInv, Healthy
<1> QED
  BY <1>1, <1>3, <1>4, AnyOpenAhead, TimerAhead, ButtonAhead, ChosenAhead, BarAhead,
     SettingsAhead, TickAhead DEF Next

LEMMA AlwaysAhead == Spec => [](BarInv /\ Bounded /\ WaitsAtNow)
BY InitBarInv, InitBounded, InitAhead, NextBarInv, NextBounded, NextAhead, PTL DEF Spec

-----------------------------------------------------------------------------
(***************************************************************************)
(* Theorems.                                                               *)
(***************************************************************************)
\* The members of the control bar stay in their ranges: a selection within
\* the list of dates, a value within the time line, labels of entries there
\* are.
THEOREM BarTypeCorrect == Spec => []TypeOK
<1>1. BarInv /\ Bounded => TypeOK
  BY DEF BarInv, Bounded, Healthy, Typed, Placed, Configured, Marked, TypeOK
<1> QED
  BY <1>1, AlwaysHealthy, PTL

\* No record and no interval is read out of range, whatever the order of the
\* events, unless a file was opened behind a running play back or an open
\* dialog, had vanished or other dates when it was read again, or starts with
\* an interval no entry of the table halves; and but for the first of these the interval in
\* force is always one the file allows.
THEOREM NoIndexOutOfRange == Spec => []IndexesInRange
<1>1. BarInv => IndexesInRange
  <2> SUFFICES ASSUME BarInv PROVE IndexesInRange
    OBVIOUS
  <2>1. bar.crash \in {"index", "table"} => bar.hurt # {}
    BY DEF BarInv, Healthy, Quiet
  <2>2. IntervalFits
    BY DEF BarInv, Intervals, Allowed, IntervalFits
  <2> QED
    BY <2>1, <2>2 DEF IndexesInRange
<1> QED
  BY <1>1, AlwaysHealthy, PTL

\* The end of the time line is within the file.
LEMMA LineWithinFile ==
  ASSUME NEW b, Typed(b), Regular(b), HasStep(b), b.opts.interp, Fits(b), Spans(b)
  PROVE  At(b) <= LastTime(b)
<1> DEFINE s == Step(b)
           n == IF b.hours = 0 THEN 0 ELSE b.val
           max == b.max
<1>1. s \in Nat \ {0} /\ MinTime(b) \in Nat /\ LastTime(b) \in Nat /\ b.hours \in Nat
      /\ b.hours = LastTime(b) - MinTime(b)
  BY StepIsPositive, TimesOfFile DEF Typed, Placed, Regular, Spans
<1>2. max = b.hours \div s /\ max \in Nat /\ n \in 0..max
  BY DEF Fits, Typed, Placed
<1>3. At(b) = MinTime(b) + n * s
  BY DEF At
<1> HIDE DEF s, n, max
<1>4. s * max <= b.hours
  BY <1>1, <1>2, Division
<1> DEFINE d == max - n
<1>5. d \in Nat /\ max = n + d
  BY <1>2
<1> HIDE DEF d
<1>6. n \in Nat /\ s * max = n * s + d * s /\ n * s \in Nat /\ d * s \in Nat
  BY <1>1, <1>2, <1>5
<1> DEFINE ns == n * s
           ds == d * s
           ms == s * max
<1> HIDE DEF ns, ds, ms
<1>7. ms = ns + ds /\ ns \in Nat /\ ds \in Nat /\ ms <= b.hours /\ At(b) = MinTime(b) + ns
  BY <1>3, <1>4, <1>6 DEF ns, ds, ms
<1> QED
  BY <1>1, <1>7

\* While the time line interpolates it stands within the file, and less than
\* one interval from the time that is drawn, for any file and any table, unless
\* the file took the place of one with other dates.
THEOREM TimelineStaysNear == Spec => []TimelineNear
<1>1. BarInv => TimelineNear
  <2> SUFFICES ASSUME BarInv, view # "none", bar.crash = "no", factory # NoSet,
                      HasStep(bar), bar.interpMode, bar.opts.interp, ~modal.open,
                      "changed" \notin bar.hurt
               PROVE  /\ TimelineTime(bar) <= LastTime(bar)
                      /\ TimelineTime(bar) - factory.time
                            \in (1 - Step(bar))..(Step(bar) - 1)
    BY DEF TimelineNear
  <2>1. Typed(bar) /\ Fits(bar) /\ Near(bar) /\ Usable(bar) /\ factory = bar.set
    BY DEF BarInv, Healthy, Drawn
  <2>2. Spans(bar) /\ Regular(bar)
    BY <2>1 DEF BarInv, Healthy, Sound, Regular
  <2>3. TimelineTime(bar) = At(bar)
    BY <2>1, TimelineTimeInFile
  <2>4. At(bar) <= LastTime(bar)
    BY <2>1, <2>2, LineWithinFile
  <2> QED
    BY <2>1, <2>2, <2>3, <2>4 DEF Near
<1> QED
  BY <1>1, AlwaysHealthy, PTL

\* A label gives way to an interpolated time and comes back: only the entry
\* that is remembered shows another time than its own, and of all entries at
\* most one, put away at the time, missed a change of the time format.
THEOREM LabelsStayOwn == Spec => []LabelsOwn
<1>1. BarInv => LabelsOwn
  <2> SUFFICES ASSUME BarInv, bar.crash = "no"
               PROVE  bar.shifted \subseteq {bar.saved.index} /\ Cardinality(bar.stale) <= 1
    BY DEF LabelsOwn
  <2>1. PICK x \in Int : bar.stale \subseteq {x}
    BY DEF BarInv, Healthy, Sound, OneStale
  <2>2. IsFiniteSet({x}) /\ Cardinality({x}) = 1
    BY FS_Singleton
  <2>3. Cardinality(bar.stale) <= 1
    BY <2>1, <2>2, FS_Subset
  <2> QED
    BY <2>3 DEF BarInv, Healthy, Typed, Marked
<1> QED
  BY <1>1, AlwaysHealthy, PTL

\* The tick of a play back that has not reached the end.
LEMMA AdvanceGoesOn ==
  ASSUME BarInv, Bounded, WaitsAtNow, bar.crash = "no", bar.playing, bar.hurt = {},
         bar.val < bar.max, OnRecord(bar), NEW c, c = Advance(bar), c.crash = "no"
  PROVE  \/ c.set.time > bar.set.time
         \/ bar.nowMode /\ c.set.time = bar.set.time
<1>1. /\ view = "shown" /\ ~modal.open /\ Typed(bar) /\ now \in Nat
      /\ Fits(bar) /\ Near(bar) /\ Usable(bar) /\ Regular(bar)
      /\ bar.opts.interp => bar.interpMode /\ HasStep(bar)
      /\ bar.val \in Nat /\ bar.max \in Nat /\ bar.hours \in Nat
  BY NowIsNat DEF BarInv, Healthy, Sound, Quiet, Dialog, Typed, Placed, Regular
<1>2. PICK b : /\ c = TimelineChanged(b) /\ Prepared(b, TRUE) /\ b.opts = bar.opts
               /\ b.interpMode = bar.interpMode /\ b.file = bar.file
               /\ b.max = bar.max /\ b.hours = bar.hours
               /\ Onto(bar) \in Int /\ b.val = Cap(Onto(bar) + 1, 0, bar.max)
               /\ b.hurt = bar.hurt
               /\ b.hurt = {} /\ Usable(b) /\ ~b.interpMode /\ ~b.opts.interp
                    => b.sel = b.val
  BY <1>1, AdvancePrepared
<1>3. /\ Usable(b) /\ MinTime(b) = MinTime(bar) /\ Step(b) = Step(bar)
      /\ Times(b) = Times(bar)
  BY <1>1, <1>2, FileAlike
<1>4. /\ b.interpMode => c.set.time = At(b)
      /\ ~b.interpMode => c.set.time = Times(b)[b.sel + 1]
  BY <1>2, <1>3, TimelineChangedFollows DEF Prepared
<1>5. CASE bar.opts.interp
  <2> DEFINE m == MinTime(bar)
             s == Step(bar)
             v == bar.val
             w == b.val
             p == v * s
             q == w * s
             r == bar.max * s
  <2>1. m \in Nat /\ s \in Nat \ {0} /\ v \in Nat /\ w \in 0..bar.max
    BY <1>1, <1>2, <1>5, StepIsPositive, TimesOfFile DEF Cap
  <2>2. bar.hours # 0
    <3>1. bar.max = bar.hours \div s
      BY <1>1, <1>5 DEF Fits
    <3> HIDE DEF s
    <3>2. 0 \div s = 0
      BY <2>1
    <3> QED
      BY <1>1, <3>1, <3>2
  <2>3. At(bar) = m + p /\ At(b) = m + q /\ c.set.time = At(b)
    BY <1>1, <1>2, <1>3, <1>4, <1>5, <2>2 DEF At
  <2>4. bar.set.time \in Int /\ At(bar) - bar.set.time \in (1 - s)..(s - 1)
    BY <1>1, <1>5 DEF Near
  <2> HIDE DEF s, m
  <2>5. p \in Nat /\ q \in Nat /\ r \in Nat /\ p + s = (v + 1) * s
    BY <1>1, <2>1
  <2>6. bar.set.time < m + (p + s)
    <3> HIDE DEF p, v
    <3> QED
      BY <2>1, <2>3, <2>4, <2>5
  <2>7. CASE ~bar.nowMode
    <3>1. w = v + 1
      BY <1>1, <1>2, <2>7 DEF Onto, Cap
    <3>2. q = p + s
      BY <2>5, <3>1
    <3> HIDE DEF p, q, v, w
    <3> QED
      BY <2>1, <2>3, <2>5, <2>6, <3>2
  <2>8. CASE bar.nowMode
    <3> DEFINE n == Onto(bar)
    <3>1. n = GetNearestValue(bar, GetNow(bar), 1)
      BY <1>5, <2>8 DEF Onto
    <3>2. n \in Nat /\ Lead(bar) = m + (n + 1) * s
      BY <1>1, <1>5, <2>2, <3>1, LeadFollowsNow DEF m, s
    <3>3. bar.set.time <= Lead(bar)
      BY <1>1, <1>5, <2>8 DEF WaitsAtNow, Ahead
    <3>4. w = IF n + 1 > bar.max THEN bar.max ELSE n + 1
      BY <1>1, <1>2, <3>2 DEF Cap
    <3> HIDE DEF n
    <3>5. CASE n + 1 <= bar.max
      <4>1. q = (n + 1) * s
        BY <1>1, <3>2, <3>4, <3>5
      <4>2. c.set.time = Lead(bar) /\ c.set.time \in Int
        BY <2>1, <2>3, <2>5, <3>2, <4>1
      <4> QED
        BY <2>4, <2>8, <3>3, <4>2
    <3>6. CASE n + 1 > bar.max
      <4>1. q = r
        BY <3>4, <3>6
      <4>2. p + s <= r
        BY <1>1, <2>1, <2>5, ProductMonotone
      <4> HIDE DEF p, q, r, v, w
      <4> QED
        BY <2>1, <2>3, <2>4, <2>5, <2>6, <4>1, <4>2
    <3> QED
      BY <1>1, <3>2, <3>5, <3>6
  <2> QED
    BY <2>7, <2>8
<1>6. CASE ~bar.opts.interp
  <2>1. ~bar.interpMode /\ ~bar.nowMode /\ bar.set.time = Times(bar)[bar.val + 1]
    BY <1>6 DEF OnRecord
  <2>2. b.sel = bar.val + 1
    BY <1>1, <1>2, <1>3, <1>6, <2>1 DEF Onto, Cap
  <2>3. c.set.time = Times(bar)[bar.val + 2]
    BY <1>1, <1>2, <1>3, <1>4, <2>1, <2>2
  <2>4. /\ Times(bar) \in Seq(Nat) /\ Ascending(Times(bar))
        /\ bar.max = Len(Times(bar)) - 1
    BY <1>1, <1>6, TimesOfFile DEF Fits, Typed, Listed
  <2>5. bar.val + 1 \in DOMAIN Times(bar) /\ bar.val + 2 \in DOMAIN Times(bar)
    BY <1>1, <2>4
  <2>6. Times(bar)[bar.val + 1] < Times(bar)[bar.val + 2]
    BY <1>1, <2>4, <2>5 DEF Ascending
  <2> QED
    BY <2>1, <2>3, <2>4, <2>5, <2>6
<1> QED
  BY <1>5, <1>6

\* Of all events only the tick of its timer moves the time line and lets play
\* back go on.
LEMMA OtherEventsStop ==
  ASSUME BarInv, Bounded, [Next]_vars, bar.playing, bar'.playing, bar' # bar,
         opens' = opens, changes' = changes, bar'.crash = "no"
  PROVE  OnPlayStopTimer
<1>1. /\ Typed(bar) /\ view = "shown" /\ ~modal.open /\ opens' \in Int /\ changes' \in Int
  BY BoundsAssumption DEF BarInv, Healthy, Dialog, Bounded
<1>2. ASSUME NEW b, Typed(b), ~b.playing
      PROVE  ~TimelineChanged(b).playing /\ ~ComputeBestForecastForNow(b).playing
  <2>1. now \in Nat
    BY NowIsNat
  <2>2. Follows(TimelineChanged(b), b)
    BY <1>2, TimelineChangedFollows
  <2>3. Descends(ComputeBestForecastForNow(b), b)
    BY <1>2, <2>1, ComputeBestDescends
  <2> QED
    BY <1>2, <2>2, <2>3 DEF Follows, Descends
<1>3. Typed(StopPlayBack(bar)) /\ ~StopPlayBack(bar).playing
  BY <1>1, StopPlayBackRetuned, RetunedTyped
<1>4. ~(MakeBar \/ OnToolbarToolCallback \/ OnOpenFile \/ OpenGeneratedGrib)
  <2>1. ~\E b, load : OpenAnyFile(b, load)
    BY <1>1 DEF OpenAnyFile
  <2>2. ~\E b : OpenLater(b, FALSE)
    BY <2>1 DEF OpenLater
  <2> QED
    BY <1>1, <2>2 DEF MakeBar, OnToolbarToolCallback, OnOpenFile, OpenGeneratedGrib
<1>5. ~(OnClose \/ OnPlayStop)
  <2>1. ~NewBar(bar).playing
    BY DEF NewBar
  <2> QED
    BY <1>3, <2>1 DEF OnClose, OnPlayStop, Keep
<1>6. ~OnTimeline
  <2> SUFFICES ASSUME OnTimeline PROVE FALSE
    OBVIOUS
  <2>1. PICK v \in 0..bar.max :
          LET b == [SetValue(StopPlayBack(bar), v) EXCEPT
                       !.interpMode = bar.opts.interp, !.nowMode = FALSE]
          IN  Show(TimelineChanged(IF b.interpMode THEN b ELSE SetSelection(b, v)))
    BY DEF OnTimeline
  <2> DEFINE b == [SetValue(StopPlayBack(bar), v) EXCEPT
                      !.interpMode = bar.opts.interp, !.nowMode = FALSE]
  <2>2. bar' = TimelineChanged(IF b.interpMode THEN b ELSE SetSelection(b, v))
    BY <2>1 DEF Show
  <2> HIDE DEF b
  <2>3. v \in Int
    BY <1>1 DEF Typed, Placed
  <2>4. Typed(b) /\ ~b.playing /\ Typed(SetSelection(b, v)) /\ ~SetSelection(b, v).playing
    <3>1. b = [SetValue(StopPlayBack(bar), v) EXCEPT
                 !.interpMode = bar.opts.interp, !.nowMode = FALSE]
      BY DEF b
    <3> QED
      BY <1>1, <2>3, <3>1, SliderAhead
  <2> QED
    BY <1>2, <2>2, <2>4
<1>7. ~(OnRecordForecast \/ OnNow)
  BY <1>2, <1>3, RecordAhead DEF OnRecordForecast, OnNow, Show
<1>8. ~(OnPrev \/ OnNext \/ OpenSettings \/ OnApply \/ OnSettings)
  BY <1>1 DEF OnPrev, OnNext, OpenSettings, OnApply, OnSettings
<1>9. ~(UpdateStart \/ UpdatePrefs \/ OnFormatRefreshTimer)
  BY <1>1 DEF UpdateStart, UpdatePrefs, OnFormatRefreshTimer, Change
<1>10. ~(MenuAppend \/ Tick \/ UNCHANGED vars)
  BY DEF MenuAppend, Tick, Keep, vars
<1>11. ~SetPluginMessage
  BY <1>1, CrashFollows DEF SetPluginMessage, Keep
<1> QED
  BY <1>4, <1>5, <1>6, <1>7, <1>8, <1>9, <1>10, <1>11 DEF Next

\* Play back neither goes back nor lingers, whatever the file, its interval,
\* the options and the clock are.
THEOREM PlayBackGoesOn == Spec => PlayBackAdvances
<1> DEFINE Ticked ==
             bar.playing /\ bar'.playing /\ bar' # bar /\ bar.opts.loop = "no"
             /\ opens' = opens /\ changes' = changes /\ bar'.crash = "no" /\ bar.hurt = {}
             /\ OnRecord(bar)
           GoesOn == \/ bar'.set.time > bar.set.time
                     \/ bar.nowMode /\ bar'.set.time = bar.set.time
<1>1. BarInv /\ Bounded /\ WaitsAtNow /\ [Next]_vars => [Ticked => GoesOn]_vars
  <2> SUFFICES ASSUME BarInv, Bounded, WaitsAtNow, [Next]_vars, Ticked PROVE GoesOn
    OBVIOUS
  <2>1. OnPlayStopTimer
    BY OtherEventsStop
  <2>2. ~StopPlayBack(bar).playing
    BY StopPlayBackRetuned DEF BarInv, Healthy
  <2>3. bar.crash = "no" /\ bar.val < bar.max /\ bar' = Advance(bar)
    BY <2>1, <2>2 DEF OnPlayStopTimer, Alive, Show, Keep
  <2>4. PICK c : c = bar'
    OBVIOUS
  <2> QED
    BY <2>3, <2>4, AdvanceGoesOn
<1>2. Spec => [][Ticked => GoesOn]_vars
  BY <1>1, AlwaysAhead, PTL DEF Spec
<1> QED
  BY <1>2 DEF PlayBackAdvances

-----------------------------------------------------------------------------
(***************************************************************************)
(* What the loads promise: GribFileProofs proves it of every load, and     *)
(* what this step has loaded is one of them.                               *)
(***************************************************************************)
LoadedInv == loaded = NoLoad \/ loaded \in Loads

\* Only the first control bar, in which every load is tried, notes one.
LEMMA AlwaysOneOfTheLoads == Spec => []LoadedInv
<1>1. Init => LoadedInv
  BY DEF Init, LoadedInv
<1>2. LoadedInv /\ [Next]_vars => LoadedInv'
  <2> SUFFICES ASSUME LoadedInv, [Next]_vars PROVE LoadedInv'
    OBVIOUS
  <2>1. \A b, new : \A k : OpenLater(b, new) => loaded' = NoLoad
    BY DEF OpenLater
  <2>2. MakeBar => loaded' = NoLoad \/ loaded' \in Loads
    BY <2>1 DEF MakeBar
  <2>3. OnToolbarToolCallback \/ OnClose \/ OnOpenFile \/ OpenGeneratedGrib => loaded' = NoLoad
    BY <2>1 DEF OnToolbarToolCallback, OnClose, OnOpenFile, OpenGeneratedGrib
  <2>4. OnPlayStop \/ OnPlayStopTimer \/ OnPrev \/ OnNext \/ OnTimeline => loaded' = NoLoad
    BY DEF OnPlayStop, OnPlayStopTimer, OnPrev, OnNext, OnTimeline, Still
  <2>5. OnRecordForecast \/ OnNow \/ SetPluginMessage => loaded' = NoLoad
    BY DEF OnRecordForecast, OnNow, SetPluginMessage, Still
  <2>6. OpenSettings \/ OnApply \/ OnSettings \/ MenuAppend => loaded' = NoLoad
    BY DEF OpenSettings, OnApply, OnSettings, MenuAppend
  <2>7. UpdateStart \/ UpdatePrefs \/ OnFormatRefreshTimer \/ Tick => loaded' = NoLoad
    BY DEF UpdateStart, UpdatePrefs, OnFormatRefreshTimer, Tick
  <2>8. UNCHANGED vars => loaded' = loaded
    BY DEF vars
  <2> QED
    BY <2>2, <2>3, <2>4, <2>5, <2>6, <2>7, <2>8 DEF Next, LoadedInv
<1> QED
  BY <1>1, <1>2, PTL DEF Spec

LEMMA PromisesKept ==
  ASSUME NEW l \in Loads
  PROVE  l \in Rates /\ l \in Vectors /\ l \in Whole
<1> DEFINE files == Files[l.files]
           load == GRIBFile(files, l.cum, l.wave, l.newest)
<1>1. /\ files \in Seq(Seq(Message)) /\ Made(l) = load
      /\ l.cum \in BOOLEAN /\ l.wave \in BOOLEAN /\ l.newest \in BOOLEAN
  BY MadeFrom
<1> HIDE DEF files
<1>2. RatesAreMeans(FilesRead(files, l.newest), load)
  BY <1>1, LoadsRatesAreMeans
<1>3. VectorsWhole(FilesRead(files, l.newest), load)
  BY <1>1, LoadsVectorsWhole
<1>4. AllOrNothing(FilesRead(files, l.newest), load)
  BY <1>1, LoadsAllOrNothing
<1>5. OwnForecastShown(FilesRead(files, l.newest), load)
  BY <1>1, LoadsOwnForecast
<1> QED
  BY <1>1, <1>2, <1>3, <1>4, <1>5 DEF Rates, Vectors, Whole, Promised, files

\* If the files read are of one model run, then, whatever they hold, however
\* many they are and whatever copies are asked for, every precipitation that is
\* shown is a mean over hours that include the date it was forecast for:
\* computeAccumulationRecords() never leaves a sum or divides by other hours.
THEOREM RatesAreLoaded == Spec => []LoadsRates
<1>1. LoadedInv => LoadsRates
  BY PromisesKept DEF LoadedInv, LoadsRates
<1> QED
  BY <1>1, AlwaysOneOfTheLoads, PTL

\* If the files read have both parts of every vector, what is drawn as a wind or
\* a current has both its components, whichever of its forms the files use.
THEOREM VectorsAreLoaded == Spec => []LoadsVectors
<1>1. LoadedInv => LoadsVectors
  BY PromisesKept DEF LoadedInv, LoadsVectors
<1> QED
  BY <1>1, AlwaysOneOfTheLoads, PTL

\* The files read are shown whole or refused, for any memory budget, and no copy
\* of copyMissingWaveRecords() and its like hides what the files forecast.
THEOREM WholeFilesAreLoaded == Spec => []LoadsWhole
<1>1. LoadedInv => LoadsWhole
  BY PromisesKept DEF LoadedInv, LoadsWhole
<1> QED
  BY <1>1, AlwaysOneOfTheLoads, PTL
=============================================================================
