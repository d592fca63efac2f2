------------------------------- MODULE Viewer -------------------------------
(***************************************************************************)
(* The control bar of the plugin: which file is open, which forecast is    *)
(* shown, where the time line and the list of dates stand, play back, the  *)
(* modal settings dialog, and the messages other plugins and the generator *)
(* may send at any time.  Times are in hours.                              *)
(*                                                                         *)
(* Every event runs on the main thread and to its end, so a handler is one *)
(* action.  Its calls are functions from the control bar's members to the  *)
(* members they leave behind, composed in the order of the code.           *)
(***************************************************************************)
EXTENDS GribFile, FiniteSetsExt

CONSTANTS
    StepTable,       \* minuttes_from_index, in hours
    StartOptions,    \* the options and the start option at first
    Files,           \* the file lists the plugin may find when it starts
    LaterFiles,      \* those of them it may find later
    MaxOpens,        \* bound: files opened
    Clock,           \* bound: the hours the clock may show
    MaxChanges       \* bound: preference and time format changes

ASSUME FilesAssumption ==
    /\ LaterFiles \subseteq DOMAIN Files
    /\ \A k \in DOMAIN Files : Files[k] \in Seq(Seq(Message))

ASSUME BoundsAssumption == {MaxOpens, MaxChanges} \cup Clock \subseteq Nat

ASSUME StepTableAssumption ==
    /\ StepTable \in Seq(Nat \ {0})
    /\ \A i, j \in DOMAIN StepTable : i < j => StepTable[i] < StepTable[j]
    /\ \A o \in StartOptions : o.opts.slices + 1 \in DOMAIN StepTable

VARIABLES
    view,       \* the control bar: "none", "hidden" or "shown"
    bar,        \* its members
    stored,     \* the settings in the configuration
    factory,    \* the record set the overlay factory draws
    modal,      \* NoModal, or the open settings dialog
    now,        \* the clock
    opens,      \* files opened so far
    changes,    \* preference and format changes so far
    loaded      \* the load this step made, for its properties; else NoLoad

vars == <<view, bar, stored, factory, modal, now, opens, changes, loaded>>

NoFile == [gen |-> 0, ok |-> FALSE, times |-> <<>>]
NoSet == [gen |-> 0, time |-> -1]
NoLabel == [index |-> -1, stale |-> FALSE]
NoModal == [open |-> FALSE]
NoLoad == [files |-> 0]

\* At its end play back stops, loops to the start of the file or to now.
Options == [interp : BOOLEAN, slices : -1..(Len(StepTable) - 1),
            loop : {"no", "start", "now"}]

ASSUME StartAssumption ==
    StartOptions # {} /\ StartOptions \subseteq [opts : Options, start : 0..2]

\* The members of a new control bar, with the settings and the start option
\* (0 the first record, 1 the nearest, 2 interpolated) of b.  sel and count
\* belong to the list of dates, whose entries in `stale` keep an older time
\* format and in `shifted` another time than their own; val and max belong to
\* the time line; idx is m_FileIntervalIndex; `ready` that the buttons are
\* enabled; `hurt` why an index may be off, and `crash` that one was used out
\* of range.
NewBar(b) == [file |-> NoFile, set |-> NoSet, sel |-> -1, count |-> 0,
    stale |-> {}, shifted |-> {}, saved |-> NoLabel, val |-> 0, max |-> 0,
    hours |-> 0, interpMode |-> FALSE, nowMode |-> FALSE, opts |-> b.opts,
    start |-> b.start, idx |-> 0, ready |-> FALSE, playing |-> FALSE,
    hurt |-> b.hurt, crash |-> "no"]

-----------------------------------------------------------------------------
(***************************************************************************)
(* Reading the state.  A function that reads out of range sets crash.      *)
(***************************************************************************)
Times(b) == b.file.times
MinTime(b) == Times(b)[1]
LastTime(b) == Times(b)[Len(Times(b))]
HasStep(b) == b.opts.slices + 1 \in DOMAIN StepTable
Step(b) == StepTable[b.opts.slices + 1]
Crash(b, why) == [b EXCEPT !.crash = why]
Cap(n, low, high) == IF n < low THEN low ELSE IF n > high THEN high ELSE n

\* wxSlider and wxChoice keep a value in their range; a choice out of range
\* leaves nothing selected.
SetValue(b, n) == [b EXCEPT !.val = Cap(n, 0, b.max)]
SetMax(b, n) == [b EXCEPT !.max = n, !.val = Cap(@, 0, n)]
\* Fault: a choice out of range is kept.
SetAnySelection(b, i) == [b EXCEPT !.sel = i]

SetSelection(b, i) == [b EXCEPT !.sel = IF i \in 0..(b.count - 1) THEN i ELSE -1]

\* Fault: the clock is not kept within the file.
NowBeyondFile(b) == now

GetNow(b) == Cap(now, MinTime(b), LastTime(b))

\* The record before a time (model 1: unless the next one has that time), or
\* the one after it where that is nearer (model 0) or has that time (model 2).
Nearest(model, i, time, itime, ip1time) ==
    IF model = 0 THEN IF time - itime > (ip1time - time) * 3 THEN i + 1 ELSE i
    ELSE IF model = 1 THEN IF time = ip1time THEN i ELSE i + 1
    ELSE IF time = ip1time THEN i + 1 ELSE i

\* The loop ends at the first record with a later one after it, or past the
\* last pair with the times of that pair.
GetNearestIndex(b, time, model) ==
    LET n == Len(Times(b))
        i == Min({i \in 0..(n - 2) : Times(b)[i + 2] >= time} \cup {n - 1})
        k == Min({i, n - 2})
    IN  IF n = 1 THEN IF model = 1 THEN 1 ELSE 0
        ELSE Nearest(model, i, time, Times(b)[k + 1], Times(b)[k + 2])

GetNearestValue(b, time, model) ==
    LET span == time - MinTime(b)
        t == span \div Step(b)
        past == span - t * Step(b)
    IN  IF b.hours = 0 THEN 0
        ELSE IF model = 0 /\ past > (Step(b) - past) * 3 THEN t + 1 ELSE t

TimelineTime(b) ==
    IF b.interpMode
    THEN IF Times(b) = <<>> THEN now
         ELSE MinTime(b) + (IF b.hours = 0 THEN 0 ELSE b.val) * Step(b)
    ELSE LET i == Cap(b.sel, 0, b.count)
         IN  IF i < Len(Times(b)) THEN Times(b)[i + 1] ELSE now

-----------------------------------------------------------------------------
(***************************************************************************)
(* The label of the selected date gives way to an interpolated time and is *)
(* put back later.                                                         *)
(***************************************************************************)
RestaureSelectionString(b) ==
    LET entry == {b.saved.index} \cap (0..(b.count - 1))
    IN  IF b.saved = NoLabel THEN b
        ELSE [b EXCEPT !.saved = NoLabel, !.shifted = @ \ entry,
                       !.stale = IF b.saved.stale THEN @ \cup entry ELSE @ \ entry]

\* SaveSelectionString and the SetString after it.
ShowTimeLabel(b) ==
    [b EXCEPT !.saved = [index |-> b.sel, stale |-> b.sel \in b.stale],
              !.shifted = @ \cup {b.sel}, !.stale = @ \ {b.sel}]

\* The list is made again, in the current format; the saved label is not.
PopulateComboDataList(b) ==
    LET filled == [b EXCEPT !.count = Len(Times(b)), !.stale = {}, !.shifted = {}]
    IN  SetSelection(filled, IF b.count > 0 THEN b.sel ELSE 0)

Usable(b) == b.file # NoFile /\ b.file.ok
SetAt(b, time) == [b EXCEPT !.set = [gen |-> b.file.gen, time |-> time]]

\* The list shows an interpolated time, or the time line the selected record.
ShowTime(b, time) ==
    ShowTimeLabel(SetSelection(b, GetNearestIndex(b, time, 2)))
ShowRecord(b) ==
    IF b.sel \notin 0..(Len(Times(b)) - 1) THEN Crash(b, "index")
    ELSE SetValue(b, IF b.opts.interp
                     THEN (Times(b)[b.sel + 1] - MinTime(b)) \div Step(b)
                     ELSE b.sel)

\* Fault: the label put away is forgotten instead of put back.
TimelineChangedForgetting(b) ==
    LET time == TimelineTime(b)
        set == SetAt([b EXCEPT !.saved = NoLabel], time)
    IN  IF ~Usable(b) THEN b
        ELSE IF (b.interpMode \/ b.opts.interp) /\ ~HasStep(b)
        THEN Crash(b, "table")
        ELSE IF b.interpMode THEN ShowTime(set, time) ELSE ShowRecord(set)

TimelineChanged(b) ==
    LET time == TimelineTime(b)
        set == SetAt(RestaureSelectionString(b), time)
    IN  IF ~Usable(b) THEN b
        ELSE IF (b.interpMode \/ b.opts.interp) /\ ~HasStep(b)
        THEN Crash(b, "table")
        ELSE IF b.interpMode THEN ShowTime(set, time) ELSE ShowRecord(set)

\* The time line, or the list and with it the time line, is placed near now;
\* then the nearest forecast is shown, or one interpolated for now.
PlaceAt(b, time) ==
    LET index == SetSelection(b, GetNearestIndex(b, time, 0))
    IN  IF b.opts.interp THEN SetValue(b, GetNearestValue(b, time, 0))
        ELSE SetValue(index, index.sel)
ShowAround(b, time) ==
    IF b.start # 2 THEN TimelineChanged([b EXCEPT !.interpMode = b.opts.interp])
    ELSE ShowTime([RestaureSelectionString(SetAt(b, time))
                      EXCEPT !.interpMode = TRUE, !.nowMode = TRUE], time)

ComputeBestForecastForNow(b) ==
    IF ~Usable(b) THEN b
    ELSE IF b.opts.interp /\ b.hours # 0 /\ ~HasStep(b) THEN Crash(b, "table")
    ELSE ShowAround(PlaceAt(b, GetNow(b)), GetNow(b))

\* `keep`: the time line stays where it was in proportion.
SetTimeLineMax(b, keep) ==
    LET oldmax == IF b.max > 1 THEN b.max ELSE 1
        ranged == IF b.opts.interp THEN SetMax(b, b.hours \div Step(b))
                  ELSE IF Usable(b) THEN SetMax(b, Len(Times(b)) - 1) ELSE b
    IN  IF b.opts.interp /\ ~HasStep(b) THEN Crash(b, "table")
        ELSE IF ~keep \/ ranged.max = 0 THEN ranged
        ELSE IF b.nowMode THEN ComputeBestForecastForNow(ranged)
        ELSE SetValue(ranged, (ranged.max * b.val) \div oldmax)

\* The finest interval above half the first one, less one; the table is read
\* past its end when there is none.
FileInterval(times) ==
    LET above == {i \in DOMAIN StepTable : 2 * StepTable[i] > times[2] - times[1]}
    IN  IF Min(above) = 1 THEN 0 ELSE Min(above) - 2

\* Fault: the interval in force is not lowered to what the file allows.
IntervalKept(b) ==
    IF Len(Times(b)) < 2 THEN b
    ELSE IF 2 * StepTable[Len(StepTable)] <= Times(b)[2] - MinTime(b)
    THEN Crash([b EXCEPT !.hurt = @ \cup {"long"}], "table")
    ELSE [b EXCEPT !.hours = LastTime(b) - MinTime(b), !.idx = FileInterval(Times(b))]

Interval(b) ==
    IF Len(Times(b)) < 2 THEN b
    ELSE IF 2 * StepTable[Len(StepTable)] <= Times(b)[2] - MinTime(b)
    THEN Crash([b EXCEPT !.hurt = @ \cup {"long"}], "table")
    ELSE LET idx == FileInterval(Times(b))
         IN  [b EXCEPT !.hours = LastTime(b) - MinTime(b), !.idx = idx,
                       !.opts.slices = IF @ > idx THEN idx ELSE @]

\* load is what GRIBFile made of the files.
DatesRead(load) == IF load.ok THEN InOrder(DOMAIN load.sets) ELSE <<>>
Opened(b, load, gen) ==
    LET times == DatesRead(load)
        cleared == [NewBar(b) EXCEPT
                       !.idx = b.opts.slices, !.max = b.max,
                       !.playing = b.playing]
    IN  IF times = <<>> THEN cleared
        ELSE Interval(PopulateComboDataList([cleared EXCEPT
                         !.file = [gen |-> gen, ok |-> TRUE, times |-> times]]))

EnableButtons(b) == [b EXCEPT !.ready = b.set # NoSet /\ b.hours # 0]
ShowOpened(b) ==
    IF b.crash # "no" THEN b
    ELSE EnableButtons(IF b.start # 0 /\ b.hours # 0
                       THEN ComputeBestForecastForNow(b) ELSE TimelineChanged(b))

OpenFile(b, load, gen) ==
    LET opened == Opened(b, load, gen)
    IN  IF opened.crash # "no" THEN opened
        ELSE ShowOpened(SetTimeLineMax(opened, FALSE))

StopPlayBack(b) == [b EXCEPT !.playing = FALSE]

-----------------------------------------------------------------------------
(***************************************************************************)
(* Events.  TimelineChanged and ComputeBestForecastForNow hand the new set *)
(* to the factory; without a usable file they take its set away.           *)
(***************************************************************************)
Alive == view # "none" /\ bar.crash = "no"
Idle == view = "shown" /\ bar.crash = "no" /\ ~modal.open

\* Fault: the factory keeps its set when the file is gone.
ShowOnlyFiles(b) ==
    /\ bar' = b
    /\ factory' = IF b.crash # "no" \/ ~Usable(b) THEN factory ELSE b.set

\* The members after an event that ends in one of the two.
Show(b) ==
    /\ bar' = b
    /\ factory' = IF b.crash # "no" THEN factory
                  ELSE IF Usable(b) THEN b.set ELSE NoSet

\* The members after an event that does not.
Keep(b) == bar' = b /\ UNCHANGED factory

Still == UNCHANGED <<view, stored, modal, now, opens, changes>> /\ loaded' = NoLoad

\* Every load there can be: which files, which copies, and whether the first
\* readable file is enough.
Loads == [files : DOMAIN Files, cum : BOOLEAN, wave : BOOLEAN, newest : BOOLEAN]
LoadOf ==
    [k \in DOMAIN Files |-> [CumRec \in BOOLEAN |-> [WaveRec \in BOOLEAN |->
        [newestFile \in BOOLEAN |-> GRIBFile(Files[k], CumRec, WaveRec, newestFile)]]]]
Made(l) == LoadOf[l.files][l.cum][l.wave][l.newest]

\* The reader keeps the dates of its records in a set ordered by time.
Ascending(times) ==
    /\ times \in Seq(Nat)
    /\ \A i, j \in DOMAIN times : i < j => times[i] < times[j]

OpenAnyFile(b, load) ==
    /\ opens < MaxOpens
    /\ opens' = opens + 1
    /\ Show(OpenFile(b, Made(load), opens + changes + 1))

\* The copy preferences have no part in which dates a file has, so they vary
\* for the first load only.
OpenLater(b, new) ==
    /\ \E k \in LaterFiles :
          OpenAnyFile(b, [files |-> k, cum |-> TRUE, wave |-> TRUE, newest |-> new])
    /\ loaded' = NoLoad

\* Made by the tool button, or hidden for a plugin that asks for values;
\* as a bound, every load is tried for the first control bar only.
MakeBar ==
    /\ view = "none"
    /\ LET b == NewBar([bar EXCEPT !.opts = stored])
       IN  \/ \E new \in BOOLEAN : OpenLater(b, new)
           \/ opens = 0 /\ \E l \in Loads : OpenAnyFile(b, l) /\ loaded' = l
    /\ view' \in {"shown", "hidden"}
    /\ UNCHANGED <<stored, modal, now, changes>>

\* The tool button shows a hidden control bar, with the newest file if the
\* preferences ask for it.
OnToolbarToolCallback ==
    /\ view = "hidden" /\ bar.crash = "no"
    /\ view' = "shown"
    /\ \/ OpenLater(bar, TRUE)
       \/ Keep(bar) /\ loaded' = NoLoad /\ UNCHANGED opens
    /\ UNCHANGED <<stored, modal, now, changes>>

\* A restyled control bar is destroyed; the factory is left with its set.
OnClose ==
    /\ Idle
    /\ \/ view' = "hidden" /\ Keep(StopPlayBack(bar))
       \/ view' = "none" /\ Keep(NewBar(bar))
    /\ UNCHANGED <<stored, modal, now, opens, changes>> /\ loaded' = NoLoad

OnOpenFile ==
    /\ Idle /\ ~bar.playing
    /\ OpenLater(bar, FALSE)
    /\ UNCHANGED <<view, stored, modal, now, changes>>

\* The generator's callback and GRIB_APPLY_JSON_CONFIG ask nobody; the latter
\* stores the settings, too.
OpenGeneratedGrib ==
    /\ Alive
    /\ OpenLater([bar EXCEPT !.hurt = IF bar.playing \/ modal.open
                                      THEN @ \cup {"busy"} ELSE @], FALSE)
    /\ stored' \in {stored, bar'.opts}
    /\ UNCHANGED <<view, modal, now, changes>>

OnPlayStop ==
    /\ Idle /\ bar.ready
    /\ Keep(IF bar.playing THEN StopPlayBack(bar)
            ELSE [bar EXCEPT !.playing = TRUE, !.interpMode = bar.opts.interp])
    /\ Still

\* Fault: from now on, the time line stays where now is.
AdvanceToNow(b) ==
    LET from == IF ~b.nowMode THEN b.val + 1
                ELSE IF b.opts.interp THEN GetNearestValue(b, GetNow(b), 1)
                ELSE GetNearestIndex(b, GetNow(b), 2)
        moved == [SetValue(b, IF b.val >= b.max THEN 0 ELSE from)
                     EXCEPT !.nowMode = FALSE]
    IN  IF b.nowMode /\ ~Usable(b) /\ b.val < b.max THEN Crash(b, "index")
        ELSE TimelineChanged(IF b.interpMode THEN moved
                             ELSE SetSelection(moved, moved.val))

\* The play back timer steps the time line, and at its end loops or stops.
Advance(b) ==
    LET from == IF ~b.nowMode THEN b.val
                ELSE IF b.opts.interp THEN GetNearestValue(b, GetNow(b), 1)
                ELSE GetNearestIndex(b, GetNow(b), 2)
        moved == [SetValue(b, IF b.val >= b.max THEN 0 ELSE from + 1)
                     EXCEPT !.nowMode = FALSE]
    IN  IF b.nowMode /\ ~Usable(b) /\ b.val < b.max THEN Crash(b, "index")
        ELSE TimelineChanged(IF b.interpMode THEN moved
                             ELSE SetSelection(moved, moved.val))

OnPlayStopTimer ==
    /\ Alive /\ bar.playing
    /\ IF bar.val < bar.max \/ bar.opts.loop = "start"
       THEN Show(Advance(bar))
       ELSE IF bar.opts.loop = "now"
       THEN LET b == ComputeBestForecastForNow(bar)
            IN  Show(IF b.val >= b.max THEN StopPlayBack(b) ELSE b)
       ELSE Keep(StopPlayBack(bar))
    /\ Still

\* Previous and next leave the interpolated time for a record.
FromTime(b, model) ==
    IF b.nowMode THEN GetNearestIndex(b, GetNow(b), model)
    ELSE IF b.interpMode THEN GetNearestIndex(b, TimelineTime(b), model)
    ELSE b.sel

Lost(b) == (b.nowMode \/ b.interpMode) /\ (Times(b) = <<>> \/ ~HasStep(b))
AtRecord(b, i) == SetSelection([b EXCEPT !.nowMode = FALSE, !.interpMode = FALSE], i)

OnPrev ==
    /\ Idle /\ bar.ready /\ ~bar.playing
    /\ LET b == RestaureSelectionString(bar)
           i == FromTime(b, 1)
       IN  Show(IF Lost(b) THEN Crash(b, "index")
                ELSE TimelineChanged(AtRecord(b, IF i < 1 THEN 0 ELSE i - 1)))
    /\ Still

\* At the end of the list nothing is shown anew.
OnNext ==
    /\ Idle /\ bar.ready /\ ~bar.playing
    /\ LET b == RestaureSelectionString(bar)
           i == FromTime(b, 2)
       IN  IF Lost(b) THEN Keep(Crash(b, "index"))
           ELSE IF i = b.count - 1 THEN Keep(AtRecord(b, i))
           ELSE Show(TimelineChanged(AtRecord(AtRecord(b, i), i + 1)))
    /\ Still

OnTimeline ==
    /\ Idle /\ bar.ready
    /\ \E v \in 0..bar.max :
          LET b == [SetValue(StopPlayBack(bar), v) EXCEPT
                       !.interpMode = bar.opts.interp, !.nowMode = FALSE]
          IN  Show(TimelineChanged(IF b.interpMode THEN b ELSE SetSelection(b, v)))
    /\ Still

OnRecordForecast ==
    /\ Idle
    /\ \E i \in 0..(bar.count - 1) :
          Show(TimelineChanged(AtRecord(StopPlayBack(bar), i)))
    /\ Still

OnNow ==
    /\ Idle /\ bar.ready
    /\ Show(ComputeBestForecastForNow(StopPlayBack(bar)))
    /\ Still

-----------------------------------------------------------------------------
\* The settings dialog is modal for the user, not for timers and messages; it
\* offers the intervals the file had when the dialog was made.
OpenSettings ==
    /\ Idle /\ ~bar.playing /\ bar.set # NoSet
    /\ modal' = [open |-> TRUE, init |-> bar.opts, idx |-> bar.idx]
    /\ Keep(bar)
    /\ UNCHANGED <<view, stored, now, opens, changes>> /\ loaded' = NoLoad

\* The choice is empty if the interval in force was not among those offered.
\* As a bound, the loop options stay as they were at first.
Chosen ==
    {o \in Options : /\ o.loop = modal.init.loop
                     /\ \/ o.slices \in 0..modal.idx
                        \/ o.slices = -1 /\ modal.init.slices \notin 0..modal.idx}

\* Another time format or zone: every label there is is outdated.
Outdated(b) ==
    [b EXCEPT !.stale = 0..(b.count - 1) \ b.shifted,
              !.saved = IF @ = NoLabel THEN @ ELSE [@ EXCEPT !.stale = TRUE]]

RefreshTimeZoneDisplay(b) ==
    IF ~Usable(b) THEN Keep(b)
    ELSE Show(TimelineChanged(PopulateComboDataList(b)))

Change == changes < MaxChanges /\ changes' = changes + 1

\* Apply takes the chosen options, zone included, and leaves the time line's
\* range and mode until the dialog is closed.
OnApply ==
    /\ Change /\ Alive /\ modal.open
    /\ \E o \in Chosen :
          LET b == [bar EXCEPT !.opts = o]
          IN  /\ stored' = o
              /\ \/ RefreshTimeZoneDisplay(b)
                 \/ RefreshTimeZoneDisplay(Outdated(b))
    /\ UNCHANGED <<view, modal, now, opens>> /\ loaded' = NoLoad

\* The dialog is closed with these options in force.
RefreshUnlessCrashed(b) ==
    IF b.crash # "no" THEN Keep(b) ELSE RefreshTimeZoneDisplay(b)
CloseSettings(b, o) ==
    RefreshUnlessCrashed(SetTimeLineMax(
        [b EXCEPT !.opts = o, !.interpMode = @ /\ o.interp], TRUE))

\* OK takes and stores the chosen options, Cancel takes the ones the dialog was
\* opened with.
OnSettings ==
    /\ Alive /\ modal.open
    /\ \/ \E o \in Chosen : /\ stored' = o
                           /\ \/ CloseSettings(bar, o)
                              \/ CloseSettings(Outdated(bar), o)
       \/ CloseSettings(bar, modal.init) /\ UNCHANGED stored
    /\ modal' = NoModal
    /\ UNCHANGED <<view, now, opens, changes>> /\ loaded' = NoLoad

\* The menu of the cursor data stores the settings in force.
MenuAppend ==
    /\ Idle /\ stored' = bar.opts /\ Keep(bar)
    /\ UNCHANGED <<view, modal, now, opens, changes>> /\ loaded' = NoLoad

\* Another start option.
UpdateStart ==
    /\ Change
    /\ \E s \in 0..2 \ {bar.start} :
          LET b == [bar EXCEPT !.start = s]
          IN  IF Alive THEN Show(ComputeBestForecastForNow(b))
              ELSE view = "none" /\ Keep(b)
    /\ UNCHANGED <<view, stored, modal, now, opens>> /\ loaded' = NoLoad

\* Other copies: the open files are read again and listed, whatever dates they
\* have by now; the time line, its span and its interval are left as they were.
\* A new start option in the same dialog is only noted.
Reread(b, dates) ==
    LET file == IF b.file.ok
                THEN [gen |-> opens + changes + 1, ok |-> dates # <<>>, times |-> dates]
                ELSE b.file
        hurt == IF dates = Times(b) THEN {}
                ELSE IF dates = <<>> THEN {"gone"} ELSE {"changed"}
    IN  IF b.file = NoFile THEN Crash(b, "null")
        ELSE TimelineChanged(PopulateComboDataList(
                [b EXCEPT !.file = file, !.hurt = @ \cup hurt]))

\* The files are as they were, gone, or replaced by files found later; readable
\* ones without a date are left out.  A load that failed has no file names to
\* read again.
FoundAgain ==
    LET load(k) == [files |-> k, cum |-> TRUE, wave |-> TRUE, newest |-> FALSE]
    IN  {Times(bar)} \cup (IF bar.file.ok
                           THEN {<<>>} \cup {DatesRead(Made(load(k))) : k \in LaterFiles}
                           ELSE {})

UpdatePrefs ==
    /\ Change /\ Alive
    /\ \E dates \in FoundAgain, s \in 0..2 :
          Show(Reread([bar EXCEPT !.start = s], dates))
    /\ UNCHANGED <<view, stored, modal, now, opens>> /\ loaded' = NoLoad

\* The timer finds another time format.
OnFormatRefreshTimer ==
    /\ Change /\ Alive
    /\ IF Usable(bar) THEN RefreshTimeZoneDisplay(Outdated(bar)) ELSE Keep(bar)
    /\ UNCHANGED <<view, stored, modal, now, opens>> /\ loaded' = NoLoad

\* GRIB_TIMELINE_REQUEST, whatever is open.
SetPluginMessage ==
    /\ Alive /\ bar.file = NoFile /\ ~bar.interpMode
    /\ Keep(Crash(bar, "null"))
    /\ Still

Tick ==
    /\ now' \in {t \in Clock : t > now}
    /\ Keep(bar)
    /\ UNCHANGED <<view, stored, modal, opens, changes>> /\ loaded' = NoLoad

Init ==
    /\ view = "none" /\ factory = NoSet /\ modal = NoModal /\ loaded = NoLoad
    /\ now = 0 /\ opens = 0 /\ changes = 0
    /\ \E o \in StartOptions :
          /\ bar = NewBar([opts |-> o.opts, start |-> o.start, hurt |-> {}])
          /\ stored = o.opts

Next == \/ MakeBar \/ OnToolbarToolCallback \/ OnClose \/ OnOpenFile
        \/ OpenGeneratedGrib \/ OnPlayStop \/ OnPlayStopTimer \/ OnPrev
        \/ OnNext \/ OnTimeline \/ OnRecordForecast \/ OnNow \/ OpenSettings
        \/ OnApply \/ OnSettings \/ MenuAppend \/ UpdateStart \/ UpdatePrefs \/ OnFormatRefreshTimer
        \/ SetPluginMessage \/ Tick

Spec == Init /\ [][Next]_vars

-----------------------------------------------------------------------------
(***************************************************************************)
(* Properties.                                                             *)
(***************************************************************************)
TypeOK ==
    /\ view \in {"none", "hidden", "shown"}
    /\ bar.crash \in {"no", "index", "table", "null"}
    /\ bar.hurt \subseteq {"busy", "gone", "changed", "long"}
    /\ bar.sel \in -1..(bar.count - 1) /\ bar.val \in 0..bar.max
    /\ {bar.opts, stored} \subseteq Options /\ bar.start \in 0..2
    /\ bar.stale \cup bar.shifted \subseteq 0..(bar.count - 1)
    /\ opens \in 0..MaxOpens /\ changes \in 0..MaxChanges /\ now \in Clock \cup {0}

\* The overlay factory never draws a record set that was deleted, nor one of
\* a file that was: what it was handed last is what the control bar holds.
NoDangling ==
    view # "none" /\ bar.crash = "no" /\ factory # NoSet =>
        factory = bar.set /\ bar.set.gen = bar.file.gen

\* The interval in force is one the file allows.
IntervalFits ==
    view # "none" /\ "busy" \notin bar.hurt => bar.opts.slices \in 0..bar.idx

\* No record and no interval is read out of range, unless a file was opened
\* behind a running play back or dialog, had vanished or other dates when it was
\* read again, or starts with an interval no entry of the table halves.
IndexesInRange ==
    /\ bar.crash \in {"index", "table"} => bar.hurt # {}
    /\ IntervalFits

\* While the time line interpolates, it stands within one interval of the
\* time shown, and within the file; applied settings may break that as long
\* as their dialog is open, and files replaced by others for good.
TimelineNear ==
    view # "none" /\ bar.crash = "no" /\ factory # NoSet /\ HasStep(bar)
    /\ bar.interpMode /\ bar.opts.interp /\ ~modal.open /\ "changed" \notin bar.hurt =>
        /\ TimelineTime(bar) <= LastTime(bar)
        /\ TimelineTime(bar) - factory.time \in (1 - Step(bar))..(Step(bar) - 1)

\* Only the entry that is remembered shows another time than its own; and of
\* all entries at most one, put away at the time, missed a change of the time
\* format or zone.
LabelsOwn ==
    bar.crash = "no" =>
        bar.shifted \subseteq {bar.saved.index} /\ Cardinality(bar.stale) <= 1

\* With interpolation off the time line steps from record to record, the one
\* it stands at shown; unless the start option, interpolation at now, has put
\* it where there is none.
OnRecord(b) ==
    b.opts.interp \/ (/\ ~b.interpMode /\ ~b.nowMode
                      /\ b.set.time = Times(b)[b.val + 1])

\* Play back that does not loop never goes back, and never lingers but on
\* the tick that leaves the time line placed at now: each tick of its timer
\* ends it or shows a later time.
PlayBackAdvances ==
    [][bar.playing /\ bar'.playing /\ bar' # bar /\ bar.opts.loop = "no"
       /\ opens' = opens /\ changes' = changes /\ bar'.crash = "no" /\ bar.hurt = {}
       /\ OnRecord(bar) =>
         \/ bar'.set.time > bar.set.time
         \/ bar.nowMode /\ bar'.set.time = bar.set.time]_vars

\* What every load promises of the files it read (see GribFile).
Promised(P(_, _)) ==
    {l \in Loads : P(FilesRead(Files[l.files], l.newest), Made(l))}
Rates == Promised(RatesAreMeans)
Vectors == Promised(VectorsWhole)
Whole == Promised(AllOrNothing) \cap Promised(OwnForecastShown)

\* Precipitation is shown as a mean over hours that lead up to its date.
LoadsRates == loaded # NoLoad => loaded \in Rates

\* A wind or current drawn has both components.
LoadsVectors == loaded # NoLoad => loaded \in Vectors

\* Nothing of the files read is lost, nor hidden by a copy.
LoadsWhole == loaded # NoLoad => loaded \in Whole
=============================================================================
