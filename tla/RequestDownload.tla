--------------------------- MODULE RequestDownload ---------------------------
(***************************************************************************)
(* The downloads of the request dialog (src/src/GribRequestDialog.cpp).    *)
(*                                                                         *)
(* A click on a download button runs a handler that starts a background    *)
(* download of the host application and waits for it in a loop that        *)
(* processes pending events only.  User input arrives while a handler      *)
(* waits because onDLEvent() and the handlers themselves call              *)
(* wxYieldIfNeeded(); within such a yield a further yield does nothing.  A *)
(* handler started from a yield therefore runs on top of the waiting one,  *)
(* and both share the members m_downloading, m_canceled, ...               *)
(*                                                                         *)
(* This is one dialog object, from its construction until it is hidden and *)
(* no handler is left.  The download service belongs to the host           *)
(* application and is modelled as the dialog uses it: every download that  *)
(* is not aborted ends, well or badly, and its end is reported to the      *)
(* dialog if the dialog is connected at that moment.                       *)
(***************************************************************************)
EXTENDS Integers, FiniteSets, Sequences

CONSTANTS
  MaxDownload,   \* downloads started in the life of the dialog (bound)
  Buttons        \* the download buttons that the user clicks

Downloads == 1..MaxDownload
NoDownload == 0

\* The four handlers; also the values of m_downloadType ("local" stands for
\* LOCAL, "catalog" for LOCAL_CATALOG) and the buttons that start them.
Kinds == {"world", "catalog", "local", "xygrib"}

ASSUME DownloadAssumption ==
  MaxDownload \in Nat \ {0} /\ Buttons \subseteq Kinds

VARIABLES
  flag,      \* m_downloading, m_canceled, m_bTransferSuccess, m_connected
  wired,     \* whether onDLEvent() is in the dialog's event table
  handle,    \* m_download_handle
  type,      \* m_downloadType
  selected,  \* m_bLocal_source_selected
  enabled,   \* the buttons that are enabled
  shown,     \* whether the dialog is on screen
  stack,     \* the running handlers, the innermost one first
  dl         \* dl[i]: state of the i-th download

form == <<type, selected, enabled, shown>>
vars == <<flag, wired, handle, form, stack, dl>>

Flags == {"downloading", "canceled", "success", "connected"}

\* A handler: where it is, and whether its present download is its final one.
Frame == [kind : Kinds, pc : {"prepare", "wait", "yield"}, last : BOOLEAN]

\* Handlers never nest deeper than two: see CanInput.
TypeOK ==
  /\ flag \subseteq Flags
  /\ wired \in BOOLEAN
  /\ handle \in Downloads \cup {NoDownload}
  /\ type \in Kinds \cup {"none"}
  /\ selected \in BOOLEAN
  /\ enabled \subseteq Kinds
  /\ shown \in BOOLEAN
  /\ stack \in Seq(Frame) /\ Len(stack) <= 2
  /\ dl \in [Downloads -> {"unused", "running", "done", "failed", "aborted"}]

-----------------------------------------------------------------------------
(* Helpers.                                                                *)

Is(f) == f \in flag

Top == Head(stack)
Running == stack # <<>>
TopIs(pc) == Running /\ Top.pc = pc
Nested == Len(stack) > 1

\* EnableDownloadButtons() for the type t.
Enabled(t) ==
  LET local == IF selected' \/ "downloading" \in flag' THEN {"local"} ELSE {} IN
  IF t = "world" THEN (enabled \cup {"world"}) \ {"local", "catalog"}
  ELSE IF t \in {"local", "catalog"}
       THEN (enabled \ {"world", "catalog", "local"}) \cup local
  ELSE IF t = "xygrib" THEN enabled \cup {"xygrib"}
  ELSE {"world", "catalog", "xygrib"} \cup local

SetType(t) == type' = t /\ enabled' = Enabled(t)

\* OCPN_cancelDownloadFileBackground(m_download_handle)
Aborted ==
  IF handle # NoDownload /\ dl[handle] = "running"
  THEN [dl EXCEPT ![handle] = "aborted"] ELSE dl

Unused == {i \in Downloads : dl[i] = "unused"}

\* User input is dispatched by the main loop, and by the yields of a handler
\* unless that handler was itself started from a yield.
CanInput ==
  shown /\ (Running => ~Nested /\ Top.pc \in {"prepare", "yield"})

\* Events of downloads are dispatched where input is, and by the wait loops.
CanDispatch ==
  Running => IF Top.pc = "wait" THEN Is("downloading") ELSE ~Nested

\* The handler returns and the one below it goes on.
Return == stack' = Tail(stack)

-----------------------------------------------------------------------------
(* The user.                                                               *)

\* Fault: Disconnect() without m_connected = false.
CancelKeepingFlag ==
  /\ Is("downloading")
  /\ dl' = Aborted
  /\ handle' = NoDownload
  /\ flag' = (flag \ {"downloading"}) \cup {"canceled"}
  /\ wired' = FALSE
  /\ selected' = selected
  /\ SetType("none")
  /\ UNCHANGED <<shown, stack>>

\* A click while a download is running: every handler begins with this.
Cancel ==
  /\ Is("downloading")
  /\ dl' = Aborted
  /\ handle' = NoDownload
  /\ flag' = (flag \ {"downloading", "connected"}) \cup {"canceled"}
  /\ wired' = FALSE
  /\ selected' = selected
  /\ SetType("none")
  /\ UNCHANGED <<shown, stack>>

\* A click while none is running, up to the yield before the download starts.
\* The bound leaves two downloads to every handler.
Begin(k) ==
  /\ ~Is("downloading")
  /\ Cardinality(Unused) >= 2 * (Len(stack) + 1)
  /\ flag' = (flag \ {"canceled"}) \cup {"downloading"}
  /\ selected' = selected
  /\ SetType(k)
  /\ stack' = <<[kind |-> k, pc |-> "prepare", last |-> FALSE]>> \o stack
  /\ UNCHANGED <<wired, handle, shown, dl>>

Click(k) == CanInput /\ k \in enabled /\ (Cancel \/ Begin(k))

\* OnLocalTreeSelChanged()
Select ==
  /\ CanInput
  /\ flag' = flag
  /\ selected' \in BOOLEAN
  /\ SetType(type)
  /\ UNCHANGED <<wired, handle, shown, stack, dl>>

\* OnClose(): m_connected keeps its value.
Close ==
  /\ CanInput
  /\ IF Is("downloading")
     THEN dl' = Aborted /\ handle' = NoDownload ELSE UNCHANGED <<dl, handle>>
  /\ flag' = flag \ {"downloading"}
  /\ wired' = (wired /\ ~Is("connected"))
  /\ shown' = FALSE
  /\ UNCHANGED <<type, selected, enabled, stack>>

-----------------------------------------------------------------------------
(* The handlers.                                                           *)

\* Connect unless m_connected, and start the next download.
Launch(last) ==
  \E i \in Unused :
    /\ \A j \in Unused : i <= j
    /\ dl' = [dl EXCEPT ![i] = "running"]
    /\ handle' = i
    /\ wired' = (wired \/ ~Is("connected"))
    /\ stack' = <<[Top EXCEPT !.pc = "wait", !.last = last]>> \o Tail(stack)

\* After the first yield.  A local GRIB may need a manifest first, as an
\* XyGrib file always needs its XML description.
Start ==
  /\ TopIs("prepare")
  /\ \/ Top.last /\ Launch(TRUE)
     \/ ~Top.last /\ Top.kind \in {"world", "catalog"} /\ Launch(TRUE)
     \/ ~Top.last /\ Top.kind = "xygrib" /\ Launch(FALSE)
     \/ ~Top.last /\ Top.kind = "local" /\ selected /\ \E last \in BOOLEAN : Launch(last)
  /\ flag' = flag \cup {"connected"}
  /\ UNCHANGED form

\* Fault: the early return leaves m_downloading set.
NoSourceStillDownloading ==
  /\ TopIs("prepare") /\ Top.kind = "local" /\ ~Top.last
  /\ flag' = flag
  /\ selected' = selected
  /\ SetType("none")
  /\ Return
  /\ UNCHANGED <<wired, handle, shown, dl>>

\* OnDownloadLocal(): no GRIB is selected, or it has no URL.
NoSource ==
  /\ TopIs("prepare") /\ Top.kind = "local" /\ ~Top.last
  /\ flag' = flag \ {"downloading"}
  /\ selected' = selected
  /\ SetType("none")
  /\ Return
  /\ UNCHANGED <<wired, handle, shown, dl>>

\* The wait loop of the innermost handler finds m_downloading false.
Woken == TopIs("wait") /\ ~Is("downloading")

\* Neither cancelled nor failed, as far as the members say.
Succeeded == ~Is("canceled") /\ Is("success")

\* After the manifest: go on with the GRIB itself, past another yield.
ManifestRead ==
  /\ Woken /\ ~Top.last /\ Top.kind = "local" /\ Succeeded
  /\ flag' = flag \cup {"downloading"}
  /\ stack' = <<[Top EXCEPT !.pc = "prepare", !.last = TRUE]>> \o Tail(stack)
  /\ UNCHANGED <<wired, handle, form, dl>>

\* The manifest was cancelled, failed or is useless.
ManifestFailed ==
  /\ Woken /\ ~Top.last /\ Top.kind = "local"
  /\ flag' = (flag \ {"downloading", "connected"}) \cup {"canceled"}
  /\ handle' = NoDownload
  /\ wired' = FALSE
  /\ selected' = selected
  /\ SetType("none")
  /\ Return
  /\ UNCHANGED <<shown, dl>>

\* After the XML description: the GRIB itself, at once.
DescriptionRead ==
  /\ Woken /\ ~Top.last /\ Top.kind = "xygrib" /\ Succeeded
  /\ flag' = (flag \ {"canceled"}) \cup {"downloading", "connected"}
  /\ Launch(TRUE)
  /\ UNCHANGED form

\* The description was cancelled, failed or reports an error.
DescriptionFailed ==
  /\ Woken /\ ~Top.last /\ Top.kind = "xygrib"
  /\ flag' = flag /\ selected' = selected
  /\ SetType("none")
  /\ Return
  /\ UNCHANGED <<wired, handle, shown, dl>>

\* The end of a handler: the file is opened and the dialog closed (Close()
\* runs OnClose() at once), or the new catalogue is read, or neither.
Finish ==
  /\ Woken /\ Top.last
  /\ IF Succeeded /\ Top.kind # "catalog"
     THEN wired' = (wired /\ ~Is("connected")) /\ shown' = FALSE
     ELSE UNCHANGED <<wired, shown>>
  /\ flag' = flag /\ selected' = selected
  /\ SetType("none")
  /\ Return
  /\ UNCHANGED <<handle, dl>>

-----------------------------------------------------------------------------
(* Events of the download service.                                         *)

\* A handler that is not in a yield already goes into one.
IntoYield ==
  stack' = IF TopIs("wait") /\ ~Nested
           THEN <<[Top EXCEPT !.pc = "yield"]>> ELSE stack

\* onDLEvent(): END, whichever download it is about.
End(i, how) ==
  /\ dl[i] = "running" /\ CanDispatch
  /\ dl' = [dl EXCEPT ![i] = how]
  /\ IF wired
     THEN /\ flag' = (flag \ {"downloading", "connected", "success"})
                       \cup (IF how = "done" THEN {"success"} ELSE {})
          /\ wired' = FALSE
          /\ handle' = NoDownload
          /\ IntoYield
     ELSE UNCHANGED <<flag, wired, handle, stack>>
  /\ UNCHANGED form

\* onDLEvent(): PROGRESS
Progress(i) ==
  /\ dl[i] = "running" /\ CanDispatch /\ wired
  /\ TopIs("wait") /\ ~Nested
  /\ IntoYield
  /\ UNCHANGED <<flag, wired, handle, form, dl>>

\* The yield in onDLEvent() returns to the wait loop.
Resume ==
  /\ TopIs("yield")
  /\ stack' = <<[Top EXCEPT !.pc = "wait"]>> \o Tail(stack)
  /\ UNCHANGED <<flag, wired, handle, form, dl>>

-----------------------------------------------------------------------------
Init ==
  /\ flag = {"success"}
  /\ wired = FALSE
  /\ handle = NoDownload
  /\ type = "none"
  /\ selected = FALSE
  /\ enabled = Kinds \ {"local"}
  /\ shown = TRUE
  /\ stack = <<>>
  /\ dl = [i \in Downloads |-> "unused"]

Handler ==
  \/ Start \/ NoSource \/ Resume \/ ManifestRead \/ ManifestFailed
  \/ DescriptionRead \/ DescriptionFailed \/ Finish

Ends == \E i \in Downloads, how \in {"done", "failed"} : End(i, how)

Next ==
  \/ \E k \in Buttons : Click(k)
  \/ Select \/ Close
  \/ Handler
  \/ Ends
  \/ \E i \in Downloads : Progress(i)

Spec == Init /\ [][Next]_vars

\* The event loop keeps running the innermost handler; a yield returns when the
\* event queue is empty, which no user prevents for ever by clicking; and the
\* service ends every download that nobody aborts.
Fairness ==
  WF_vars(Handler) /\ SF_vars(Handler /\ ~Nested) /\ WF_vars(Ends)

FairSpec == Spec /\ Fairness

-----------------------------------------------------------------------------
(* Properties.                                                             *)

\* When no handler is left, the next click starts a download and cancels
\* none, and the buttons are those of an idle dialog, however handlers were
\* nested, cancelled or left early.
IdleIsReady ==
  ~Running =>
    ~Is("downloading") /\ type = "none" /\ Kinds \ {"local"} \subseteq enabled

\* While the dialog stays on screen, every handler returns: no wait loop
\* waits for an event that cannot reach it.
ReturnsWhileShown == Running ~> (~Running \/ ~shown)

\* Every handler returns, also when the user closes the dialog during a
\* download: "clean up and do not continue to the actual download".
AlwaysReturns == Running ~> ~Running
=============================================================================
