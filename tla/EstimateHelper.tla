--------------------------- MODULE EstimateHelper ---------------------------
(***************************************************************************)
(* The size and time estimate of the generator dialog:                     *)
(* src/EnvironmentalGribDialog.cpp, QueueEstimate() to FinishEstimate().    *)
(*                                                                         *)
(* Every edit of a form field that has a change handler queues an estimate. *)
(* 400 ms after the last edit a helper process computes it; the same timer  *)
(* then polls that helper every 100 ms.  Edits made meanwhile only raise a  *)
(* revision number, which tells whether the answer is still wanted.  The    *)
(* answer is shown, and its first issue about the forecast time is offered  *)
(* to the user when Generate is pressed.                                   *)
(*                                                                         *)
(* A detached helper is killed and never heard of again, so only the        *)
(* current one is part of the state.                                       *)
(***************************************************************************)
EXTENDS Naturals

CONSTANTS
  Watched,      \* values of the form fields with a change handler
  Bad,          \* the value for which BuildGenerateJobText() fails
  Picked,       \* values of the fields without one: the file pickers
  MaxRevision   \* the largest m_estimateRevision explored (bound)

ASSUME EstimateAssumption ==
  Bad \in Watched /\ Picked # {} /\ MaxRevision \in Nat \ {0}

Forms  == [watched : Watched, picked : Picked]
NoForm == [none |-> TRUE]

Valid(f) == f.watched # Bad

VARIABLES
  form,     \* what the widgets say
  last,     \* the form of m_lastEstimateRequest
  rev,      \* m_estimateRevision
  timer,    \* m_estimateTimer: off, one shot after 400 ms, or every 100 ms
  helper,   \* m_estimateProcess: the form in its job, or NoForm
  exit,     \* the process event of a helper that has ended is on its way
  runRev,   \* m_runningEstimateRevision
  jobFile,  \* the temporary file m_estimateJobPath: the form in it, or NoForm
  shown,    \* the kind of text shown, and the form that it is about
  issue,    \* the form that m_timeSettingsIssue is about, or NoForm
  issueRev  \* m_timeSettingsRevision

process == <<helper, exit, jobFile>>
vars == <<form, last, rev, timer, process, runRev, shown, issue, issueRev>>

Running == helper # NoForm

Texts == {"updating", "check", "unavailable", "estimate", "actual"}

TypeOK ==
  /\ form \in Forms /\ last \in Forms \cup {NoForm}
  /\ rev \in 0..MaxRevision /\ runRev \in 0..MaxRevision
  /\ issueRev \in 0..MaxRevision
  /\ timer \in {"off", "once", "poll"}
  /\ helper \in Forms \cup {NoForm}
  /\ exit \in {"none", "pending"} /\ (exit = "pending" => Running)
  /\ jobFile \in Forms \cup {NoForm}
  /\ shown \in [kind : Texts, form : Forms \cup {NoForm}]
  /\ issue \in Forms \cup {NoForm}

\* The form is loaded, and UpdateProviderUi() queues the first estimate.
Init ==
  /\ form \in {f \in Forms : Valid(f)}
  /\ last = form
  /\ rev = 1 /\ runRev = 0 /\ issueRev = 0
  /\ timer = "once"
  /\ helper = NoForm /\ exit = "none"
  /\ jobFile = NoForm
  /\ shown = [kind |-> "updating", form |-> NoForm]
  /\ issue = NoForm

Show(kind) == shown' = [kind |-> kind, form |-> NoForm]

-----------------------------------------------------------------------------
\* Fault: the helper is killed but not detached.
StopEstimateAttached ==
  /\ timer' = "off" /\ helper' = NoForm /\ UNCHANGED exit
  /\ jobFile' = NoForm

\* StopEstimate(): the helper is killed and detached, its job file removed.
StopEstimate ==
  /\ timer' = "off"
  /\ helper' = NoForm /\ exit' = "none"
  /\ jobFile' = NoForm

\* QueueEstimate() when the widgets say f.
QueueEstimate(f) ==
  IF f = last
  THEN UNCHANGED <<last, rev, timer, process, shown>>
  ELSE /\ rev < MaxRevision
       /\ last' = f
       /\ rev' = rev + 1
       /\ IF ~Valid(f)
          THEN StopEstimate /\ Show("check")
          ELSE /\ Show("updating")
               /\ timer' = IF Running THEN timer ELSE "once"
               /\ UNCHANGED process

\* A field with a change handler is edited, or UpdateProviderUi() is called
\* for another reason and finds the form as it is.
Edit ==
  /\ \E w \in Watched : form' = [form EXCEPT !.watched = w]
  /\ QueueEstimate(form')
  /\ UNCHANGED <<runRev, issue, issueRev>>

\* OnExistingGribFileChanged(), OnOfflineTidalFileChanged(): another file is
\* picked.  These handlers do not queue an estimate.
PickFile ==
  /\ \E p \in Picked : form' = [form EXCEPT !.picked = p]
  /\ UNCHANGED <<last, rev, timer, process, runRev, shown, issue, issueRev>>

-----------------------------------------------------------------------------
(* OnEstimateTimer().                                                      *)

\* The job is written from the widgets as they are now, and the helper
\* launched; either can fail.
StartHelper ==
  /\ timer = "once" /\ ~Running
  /\ runRev' = rev
  /\ \/ /\ Valid(form)
        /\ helper' = form /\ exit' = "none"
        /\ timer' = "poll" /\ jobFile' = form
        /\ UNCHANGED shown
     \/ StopEstimate /\ Show("check")          \* WriteGenerateJob() failed
     \/ StopEstimate /\ Show("unavailable")    \* wxExecute() failed
  /\ UNCHANGED <<form, last, rev, issue, issueRev>>

\* The helper has run for ten seconds.
TimeOut ==
  /\ timer = "poll" /\ Running
  /\ helper' = NoForm /\ exit' = "none" /\ jobFile' = NoForm
  /\ Show("unavailable")
  /\ timer' = IF runRev # rev THEN "once" ELSE "off"
  /\ UNCHANGED <<form, last, rev, runRev, issue, issueRev>>

\* The helper comes to an end (external).
HelperEnds ==
  /\ Running /\ exit = "none"
  /\ exit' = "pending"
  /\ UNCHANGED <<form, last, rev, timer, helper, jobFile, runRev, shown, issue,
                 issueRev>>

\* Fault: an answer that is no longer wanted is dropped and not replaced.
FinishEstimateOnce ==
  /\ exit = "pending"
  /\ helper' = NoForm /\ exit' = "none" /\ jobFile' = NoForm /\ timer' = "off"
  /\ IF runRev # rev
     THEN UNCHANGED <<shown, issue, issueRev>>
     ELSE \/ Show("unavailable") /\ UNCHANGED <<issue, issueRev>>
          \/ /\ shown' = [kind |-> "estimate", form |-> helper]
             /\ issue' \in {NoForm, helper}
             /\ issueRev' = runRev
  /\ UNCHANGED <<form, last, rev, runRev>>

\* Fault: the answer is used whatever was edited meanwhile.
FinishEstimateAnyway ==
  /\ exit = "pending"
  /\ helper' = NoForm /\ exit' = "none" /\ jobFile' = NoForm
  /\ timer' = IF runRev # rev THEN "once" ELSE "off"
  /\ shown' = [kind |-> "estimate", form |-> helper]
  /\ issue' \in {NoForm, helper}
  /\ issueRev' = rev
  /\ UNCHANGED <<form, last, rev, runRev>>

\* FinishEstimate(), called by OnProcessTerminated().  The answer is dropped
\* if it is not for the newest revision; otherwise it is unreadable, or shown,
\* with its first issue or without any.
FinishEstimate ==
  /\ exit = "pending"
  /\ helper' = NoForm /\ exit' = "none" /\ jobFile' = NoForm
  /\ IF runRev # rev
     THEN timer' = "once" /\ UNCHANGED <<shown, issue, issueRev>>
     ELSE /\ timer' = "off"
          /\ \/ Show("unavailable") /\ UNCHANGED <<issue, issueRev>>
             \/ /\ shown' = [kind |-> "estimate", form |-> helper]
                /\ issue' \in {NoForm, helper}
                /\ issueRev' = runRev
  /\ UNCHANGED <<form, last, rev, runRev>>

-----------------------------------------------------------------------------
(* The other uses of the estimate.                                         *)

\* FinishCommand() of a successful generation stops the estimate and shows
\* the size of the file instead.
GenerationSucceeded ==
  /\ StopEstimate
  /\ Show("actual")
  /\ UNCHANGED <<form, last, rev, runRev, issue, issueRev>>

\* Fault: OnGenerate() does not compare the revisions.
HasIssueOfAnyRevision == issue # NoForm

\* OnGenerate() has an issue to put before the user.
HasIssue == issueRev = rev /\ issue # NoForm

\* ChooseTimeOptions(): the user accepts a remedy, which edits the form.
AcceptRemedy ==
  /\ HasIssue
  /\ \E w \in Watched : form' = [form EXCEPT !.watched = w]
  /\ issue' = NoForm
  /\ QueueEstimate(form')
  /\ UNCHANGED <<runRev, issueRev>>

-----------------------------------------------------------------------------
Next ==
  \/ Edit \/ PickFile \/ StartHelper \/ TimeOut \/ HelperEnds
  \/ FinishEstimate \/ GenerationSucceeded \/ AcceptRemedy

Spec == Init /\ [][Next]_vars

(***************************************************************************)
(* Fairness: a timer that is running fires.  The helper need not end, nor   *)
(* need its end be reported; the ten-second limit stands in for both.       *)
(***************************************************************************)
FairSpec == Spec /\ WF_vars(StartHelper) /\ WF_vars(TimeOut)

-----------------------------------------------------------------------------
(* Properties.                                                             *)

\* While a helper is out, the timer polls it and its job file exists; when no
\* helper is out, no job file is left behind, whatever stopped it.
HelperIsWatched ==
  (Running <=> timer = "poll") /\ jobFile = helper

\* An estimate on display was computed for what the watched fields now say,
\* although they may have been edited several times while its helper ran.
EstimateMatchesFields ==
  shown.kind = "estimate" => shown.form.watched = form.watched

\* The issue that Generate puts before the user, whose remedies shorten the
\* forecast or drop a source, is about what the watched fields now say.
IssueMatchesFields == HasIssue => issue.watched = form.watched

\* "Updating..." does not stay for ever.
UpdateEnds == shown.kind = "updating" ~> shown.kind # "updating"

=============================================================================
