------------------------ MODULE EstimateHelperProofs ------------------------
(***************************************************************************)
(* Proofs about EstimateHelper: an estimate on display, and an issue put    *)
(* before the user, are about what the watched form fields say.             *)
(*                                                                         *)
(* The revision number carries the argument.  Queue says that the revision  *)
(* was raised whenever a watched field changed; a helper that runs for the  *)
(* newest revision was therefore given the present fields, and so was an    *)
(* issue that carries the newest revision.                                 *)
(***************************************************************************)
EXTENDS EstimateHelper, TLAPS

LEMMA NoFormIsNone == NoForm \notin Forms
<1> SUFFICES ASSUME NoForm \in Forms PROVE FALSE
  OBVIOUS
<1>1. DOMAIN NoForm = {"none"}
  BY DEF NoForm
<1>2. DOMAIN NoForm = {"watched", "picked"}
  BY DEF Forms
<1> QED BY <1>1, <1>2

\* Every request that was queued has the watched fields of the form, and a
\* helper or an issue of the newest revision was made from them.
Fresh ==
  /\ last.watched = form.watched
  /\ runRev <= rev /\ issueRev <= rev
  /\ Running /\ runRev = rev => helper.watched = form.watched

EstimateInv ==
  /\ TypeOK
  /\ HelperIsWatched
  /\ Fresh
  /\ EstimateMatchesFields
  /\ IssueMatchesFields

LEMMA EstimateInit == Init => EstimateInv
<1> SUFFICES ASSUME Init PROVE EstimateInv
  OBVIOUS
<1> USE EstimateAssumption DEF Init
<1>1. shown \in [kind : Texts, form : Forms \cup {NoForm}]
  BY DEF Texts
<1>2. TypeOK
  BY <1>1 DEF TypeOK
<1>3. HelperIsWatched /\ Fresh
  BY DEF HelperIsWatched, Fresh, Running
<1>4. EstimateMatchesFields /\ IssueMatchesFields
  BY DEF EstimateMatchesFields, IssueMatchesFields, HasIssue
<1> QED BY <1>2, <1>3, <1>4 DEF EstimateInv

\* What ShowEstimate() puts on display is well typed and, unless it is an
\* estimate, about no form.
LEMMA ShowType ==
  ASSUME NEW kind \in Texts, NEW f \in Forms \cup {NoForm},
         shown' = [kind |-> kind, form |-> f]
  PROVE  /\ shown' \in [kind : Texts, form : Forms \cup {NoForm}]
         /\ shown'.kind = kind /\ shown'.form = f
OBVIOUS

\* Queueing the form f: the revision is raised unless f was queued before.
LEMMA Queueing ==
  ASSUME EstimateInv, NEW w \in Watched,
         form' = [form EXCEPT !.watched = w], QueueEstimate(form'),
         UNCHANGED <<runRev, issueRev>>, issue' \in {issue, NoForm}
  PROVE  EstimateInv'
<1>1. form' \in Forms /\ form'.watched = w
  BY DEF EstimateInv, TypeOK, Forms
<1>2. CASE form' = last
  BY <1>1, <1>2 DEF EstimateInv, TypeOK, HelperIsWatched, Fresh, QueueEstimate,
     EstimateMatchesFields, IssueMatchesFields, HasIssue, Running, process
<1>3. CASE form' # last
  <2>1. rev' = rev + 1 /\ rev < MaxRevision /\ last' = form'
    BY <1>3 DEF QueueEstimate
  <2>2. PICK k \in {"check", "updating"} : Show(k)
    BY <1>3 DEF QueueEstimate
  <2>3. /\ shown' \in [kind : Texts, form : Forms \cup {NoForm}]
        /\ shown'.kind # "estimate"
    BY <2>2, ShowType DEF Show, Texts
  <2>4. TypeOK' /\ HelperIsWatched'
    <3>1. CASE Valid(form')
      <4>1. UNCHANGED process /\ timer' = IF Running THEN timer ELSE "once"
        BY <1>3, <3>1 DEF QueueEstimate
      <4> QED BY <1>1, <2>1, <2>3, <4>1, EstimateAssumption
              DEF EstimateInv, TypeOK, HelperIsWatched, Running, process
    <3>2. CASE ~Valid(form')
      <4>1. StopEstimate
        BY <1>3, <3>2 DEF QueueEstimate
      <4> QED BY <1>1, <2>1, <2>3, <4>1, EstimateAssumption
              DEF EstimateInv, TypeOK, HelperIsWatched, StopEstimate, Running
    <3> QED BY <3>1, <3>2
  <2>5. Fresh' /\ EstimateMatchesFields' /\ IssueMatchesFields'
    BY <1>1, <2>1, <2>3
    DEF EstimateInv, TypeOK, Fresh, EstimateMatchesFields, IssueMatchesFields,
        HasIssue
  <2> QED BY <2>4, <2>5 DEF EstimateInv
<1> QED BY <1>2, <1>3

\* Every action keeps the invariant.
LEMMA EstimateNext == EstimateInv /\ [Next]_vars => EstimateInv'
<1> SUFFICES ASSUME EstimateInv, [Next]_vars PROVE EstimateInv'
  OBVIOUS
<1> USE DEF EstimateInv, HelperIsWatched, Fresh, EstimateMatchesFields,
            IssueMatchesFields, HasIssue, Running, process
<1>1. CASE Edit
  BY <1>1, Queueing DEF Edit
<1>2. CASE PickFile
  BY <1>2 DEF PickFile, Forms, TypeOK
<1>3. CASE StartHelper
  <2>1. CASE helper' = form
    BY <1>3, <2>1, NoFormIsNone DEF StartHelper, StopEstimate, TypeOK
  <2>2. CASE helper' # form
    <3>1. PICK k \in {"check", "unavailable"} : StopEstimate /\ Show(k)
      BY <1>3, <2>2 DEF StartHelper
    <3>2. /\ shown' \in [kind : Texts, form : Forms \cup {NoForm}]
          /\ shown'.kind # "estimate"
      BY <3>1, ShowType DEF Show, Texts
    <3> QED BY <1>3, <3>1, <3>2 DEF StartHelper, StopEstimate, TypeOK
  <2> QED BY <2>1, <2>2
<1>4. CASE TimeOut
  <2>1. /\ shown' \in [kind : Texts, form : Forms \cup {NoForm}]
        /\ shown'.kind # "estimate"
    BY <1>4, ShowType DEF TimeOut, Show, Texts
  <2> QED BY <1>4, <2>1 DEF TimeOut, TypeOK
<1>5. CASE HelperEnds
  BY <1>5 DEF HelperEnds, TypeOK
<1>6. CASE FinishEstimate
  <2>1. CASE UNCHANGED <<shown, issue, issueRev>>
    BY <1>6, <2>1 DEF FinishEstimate, TypeOK
  <2>2. CASE runRev = rev /\ Show("unavailable") /\ UNCHANGED <<issue, issueRev>>
    <3>1. /\ shown' \in [kind : Texts, form : Forms \cup {NoForm}]
          /\ shown'.kind # "estimate"
      BY <2>2, ShowType DEF Show, Texts
    <3> QED BY <1>6, <2>2, <3>1 DEF FinishEstimate, TypeOK
  <2>3. CASE /\ runRev = rev
             /\ shown' = [kind |-> "estimate", form |-> helper]
             /\ issue' \in {NoForm, helper} /\ issueRev' = runRev
    <3>1. /\ shown' \in [kind : Texts, form : Forms \cup {NoForm}]
          /\ shown'.form = helper
      BY <2>3, ShowType DEF Texts, TypeOK
    <3> QED BY <1>6, <2>3, <3>1 DEF FinishEstimate, TypeOK
  <2> QED BY <1>6, <2>1, <2>2, <2>3 DEF FinishEstimate
<1>7. CASE GenerationSucceeded
  <2>1. /\ shown' \in [kind : Texts, form : Forms \cup {NoForm}]
        /\ shown'.kind # "estimate"
    BY <1>7, ShowType DEF GenerationSucceeded, Show, Texts
  <2> QED BY <1>7, <2>1 DEF GenerationSucceeded, StopEstimate, TypeOK
<1>8. CASE AcceptRemedy
  BY <1>8, Queueing DEF AcceptRemedy
<1>9. CASE UNCHANGED vars
  BY <1>9 DEF vars, TypeOK
<1> QED
  BY <1>1, <1>2, <1>3, <1>4, <1>5, <1>6, <1>7, <1>8, <1>9 DEF Next

\* The estimate on display is that of the watched fields, for any form and any
\* number of edits (ShowEstimate() in FinishEstimate()).
THEOREM EstimateIsCurrent == Spec => []EstimateMatchesFields
<1>1. EstimateInv => EstimateMatchesFields
  BY DEF EstimateInv
<1> QED BY <1>1, EstimateInit, EstimateNext, PTL DEF Spec

\* OnGenerate() never asks about a time issue of fields that were changed.
THEOREM IssueIsCurrent == Spec => []IssueMatchesFields
<1>1. EstimateInv => IssueMatchesFields
  BY DEF EstimateInv
<1> QED BY <1>1, EstimateInit, EstimateNext, PTL DEF Spec

\* A running helper is always polled, and no temporary job file outlives it.
THEOREM HelperStaysWatched == Spec => []HelperIsWatched
<1>1. EstimateInv => HelperIsWatched
  BY DEF EstimateInv
<1> QED BY <1>1, EstimateInit, EstimateNext, PTL DEF Spec

\* The state of the estimate is well typed; in particular a process event on its
\* way always has a helper to be about.
THEOREM EstimateTypeCorrect == Spec => []TypeOK
<1>1. EstimateInv => TypeOK
  BY DEF EstimateInv
<1> QED BY <1>1, EstimateInit, EstimateNext, PTL DEF Spec
=============================================================================
