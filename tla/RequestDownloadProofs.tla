------------------------ MODULE RequestDownloadProofs ------------------------
(* Theorems about RequestDownload, for any number of downloads and any set  *)
(* of buttons.                                                              *)
EXTENDS RequestDownload, TLAPS

-----------------------------------------------------------------------------
(* Facts about the helpers.                                                 *)

\* EnableDownloadButtons() enables buttons only.
LEMMA EnabledType ==
  ASSUME enabled \subseteq Kinds, NEW t
  PROVE  Enabled(t) \subseteq Kinds
  BY DEF Enabled, Kinds

\* When no download remains, all buttons but "local" are enabled for certain.
LEMMA EnabledIdle == Kinds \ {"local"} \subseteq Enabled("none")
  BY DEF Enabled, Kinds

\* Aborting a download keeps the table of downloads typed.
LEMMA AbortedType ==
  ASSUME TypeOK
  PROVE  Aborted \in [Downloads -> {"unused", "running", "done", "failed", "aborted"}]
  BY DEF TypeOK, Aborted

\* A handler returns.
LEMMA ReturnType ==
  ASSUME TypeOK, Running, Return
  PROVE  stack' \in Seq(Frame) /\ Len(stack') <= 2
  BY DEF TypeOK, Running, Return

\* The innermost handler goes on with another program counter.
LEMMA TopType ==
  ASSUME TypeOK, Running, NEW f \in Frame, stack' = <<f>> \o Tail(stack)
  PROVE  /\ stack' \in Seq(Frame)
         /\ Len(stack') <= 2
         /\ stack' # <<>>
  BY DEF TypeOK, Running

LEMMA TopFrame ==
  ASSUME TypeOK, Running
  PROVE  /\ Top \in Frame
         /\ \A p \in {"prepare", "wait", "yield"} :
              /\ [Top EXCEPT !.pc = p] \in Frame
              /\ \A b \in BOOLEAN : [Top EXCEPT !.pc = p, !.last = b] \in Frame
<1>1. Top \in Frame
  BY DEF TypeOK, Running, Top
<1> QED
  BY <1>1 DEF Frame

\* A download starts.
LEMMA LaunchType ==
  ASSUME TypeOK, Running, NEW b \in BOOLEAN, Launch(b)
  PROVE  /\ stack' \in Seq(Frame) /\ Len(stack') <= 2 /\ stack' # <<>>
         /\ dl' \in [Downloads -> {"unused", "running", "done", "failed", "aborted"}]
         /\ handle' \in Downloads \cup {NoDownload}
         /\ wired' \in BOOLEAN
<1>1. PICK i \in Downloads :
        /\ dl' = [dl EXCEPT ![i] = "running"]
        /\ handle' = i
        /\ wired' = (wired \/ ~Is("connected"))
        /\ stack' = <<[Top EXCEPT !.pc = "wait", !.last = b]>> \o Tail(stack)
  BY DEF Launch, Unused
<1>2. [Top EXCEPT !.pc = "wait", !.last = b] \in Frame
  BY TopFrame
<1>3. stack' \in Seq(Frame) /\ Len(stack') <= 2 /\ stack' # <<>>
  BY <1>1, <1>2, TopType
<1>4. wired' \in BOOLEAN
  BY <1>1
<1> QED
  BY <1>1, <1>3, <1>4 DEF TypeOK

\* The innermost handler goes into a yield, or stays where it is.
LEMMA IntoYieldType ==
  ASSUME TypeOK, IntoYield
  PROVE  /\ stack' \in Seq(Frame) /\ Len(stack') <= 2
         /\ Running => stack' # <<>>
<1>1. CASE TopIs("wait") /\ ~Nested
  <2>1. Running
    BY <1>1 DEF TopIs
  <2>2. [Top EXCEPT !.pc = "yield"] \in Frame
    BY <2>1, TopFrame
  <2>3. stack' = <<[Top EXCEPT !.pc = "yield"]>>
    BY <1>1 DEF IntoYield
  <2> QED
    BY <2>2, <2>3
<1>2. CASE ~(TopIs("wait") /\ ~Nested)
  BY <1>2 DEF IntoYield, TypeOK, TopIs, Nested, Running
<1> QED
  BY <1>1, <1>2

-----------------------------------------------------------------------------
(* Type correctness.                                                        *)

LEMMA InitType == Init => TypeOK
<1> SUFFICES ASSUME Init PROVE TypeOK
  OBVIOUS
<1>1. stack \in Seq(Frame) /\ Len(stack) <= 2
  BY DEF Init
<1>2. flag \subseteq Flags
  BY DEF Init, Flags
<1>3. dl \in [Downloads -> {"unused", "running", "done", "failed", "aborted"}]
  BY DEF Init
<1> QED
  BY <1>1, <1>2, <1>3 DEF Init, TypeOK

\* Every action keeps the types, and no handler nests deeper than two: a
\* handler starts only where input is dispatched.
LEMMA StepType == ASSUME TypeOK, [Next]_vars PROVE TypeOK'
<1> USE DEF Flags, Is
<1>1. ASSUME NEW k \in Buttons, Click(k) PROVE TypeOK'
  <2>1. CASE Cancel
    <3>1. enabled' \subseteq Kinds /\ type' \in Kinds \cup {"none"}
      BY <2>1, EnabledType DEF Cancel, SetType, TypeOK
    <3> QED
      BY <2>1, <3>1, AbortedType DEF Cancel, TypeOK
  <2>2. CASE Begin(k)
    <3>1. k \in Kinds
      BY DownloadAssumption
    <3>2. enabled' \subseteq Kinds /\ type' \in Kinds \cup {"none"}
      BY <2>2, <3>1, EnabledType DEF Begin, SetType, TypeOK
    <3>3. Len(stack) <= 1
      BY <1>1 DEF Click, CanInput, Running, Nested, TypeOK
    <3>4. [kind |-> k, pc |-> "prepare", last |-> FALSE] \in Frame
      BY <3>1 DEF Frame
    <3>5. stack' \in Seq(Frame) /\ Len(stack') <= 2
      BY <2>2, <3>3, <3>4 DEF Begin, TypeOK
    <3> QED
      BY <2>2, <3>2, <3>5 DEF Begin, TypeOK
  <2> QED
    BY <1>1, <2>1, <2>2 DEF Click
<1>2. CASE Select
  <2>1. enabled' \subseteq Kinds /\ type' \in Kinds \cup {"none"}
    BY <1>2, EnabledType DEF Select, SetType, TypeOK
  <2> QED
    BY <1>2, <2>1 DEF Select, TypeOK
<1>3. CASE Close
  <2>1. wired' \in BOOLEAN /\ shown' \in BOOLEAN
    BY <1>3 DEF Close
  <2>2. /\ dl' \in [Downloads -> {"unused", "running", "done", "failed", "aborted"}]
        /\ handle' \in Downloads \cup {NoDownload}
    BY <1>3, AbortedType DEF Close, TypeOK
  <2> QED
    BY <1>3, <2>1, <2>2 DEF Close, TypeOK
<1>4. CASE Start
  <2>1. Running
    BY <1>4 DEF Start, TopIs
  <2>2. PICK b \in BOOLEAN : Launch(b)
    BY <1>4 DEF Start
  <2>3. flag' \subseteq Flags
    BY <1>4 DEF Start, TypeOK
  <2> QED
    BY <1>4, <2>1, <2>2, <2>3, LaunchType DEF Start, TypeOK, form
<1>5. CASE NoSource
  <2>1. enabled' \subseteq Kinds /\ type' \in Kinds \cup {"none"}
    BY <1>5, EnabledType DEF NoSource, SetType, TypeOK
  <2> QED
    BY <1>5, <2>1, ReturnType DEF NoSource, TopIs, TypeOK
<1>6. CASE Resume
  <2>1. stack' \in Seq(Frame) /\ Len(stack') <= 2
    BY <1>6, TopFrame, TopType DEF Resume, TopIs
  <2> QED
    BY <1>6, <2>1 DEF Resume, TypeOK, form
<1>7. CASE ManifestRead
  <2>1. stack' \in Seq(Frame) /\ Len(stack') <= 2
    BY <1>7, TopFrame, TopType DEF ManifestRead, Woken, TopIs
  <2> QED
    BY <1>7, <2>1 DEF ManifestRead, TypeOK, form
<1>8. CASE ManifestFailed
  <2>1. enabled' \subseteq Kinds /\ type' \in Kinds \cup {"none"}
    BY <1>8, EnabledType DEF ManifestFailed, SetType, TypeOK
  <2> QED
    BY <1>8, <2>1, ReturnType DEF ManifestFailed, Woken, TopIs, TypeOK
<1>9. CASE DescriptionRead
  <2>1. Running /\ Launch(TRUE)
    BY <1>9 DEF DescriptionRead, Woken, TopIs
  <2> QED
    BY <1>9, <2>1, LaunchType DEF DescriptionRead, TypeOK, form
<1>10. CASE DescriptionFailed
  <2>1. enabled' \subseteq Kinds /\ type' \in Kinds \cup {"none"}
    BY <1>10, EnabledType DEF DescriptionFailed, SetType, TypeOK
  <2> QED
    BY <1>10, <2>1, ReturnType DEF DescriptionFailed, Woken, TopIs, TypeOK
<1>11. CASE Finish
  <2>1. enabled' \subseteq Kinds /\ type' \in Kinds \cup {"none"}
    BY <1>11, EnabledType DEF Finish, SetType, TypeOK
  <2>2. wired' \in BOOLEAN /\ shown' \in BOOLEAN
    BY <1>11 DEF Finish, TypeOK
  <2> QED
    BY <1>11, <2>1, <2>2, ReturnType DEF Finish, Woken, TopIs, TypeOK
<1>12. ASSUME NEW i \in Downloads, NEW how \in {"done", "failed"}, End(i, how)
       PROVE  TypeOK'
  <2>1. stack' \in Seq(Frame) /\ Len(stack') <= 2
    BY <1>12, IntoYieldType DEF End, TypeOK
  <2> QED
    BY <1>12, <2>1 DEF End, TypeOK, form
<1>13. ASSUME NEW i \in Downloads, Progress(i) PROVE TypeOK'
  <2>1. stack' \in Seq(Frame) /\ Len(stack') <= 2
    BY <1>13, IntoYieldType DEF Progress
  <2> QED
    BY <1>13, <2>1 DEF Progress, TypeOK, form
<1>14. CASE UNCHANGED vars
  BY <1>14 DEF vars, form, TypeOK
<1> QED
  BY <1>1, <1>2, <1>3, <1>4, <1>5, <1>6, <1>7, <1>8, <1>9, <1>10, <1>11, <1>12,
     <1>13, <1>14 DEF Next, Handler, Ends

\* The request dialog never leaves its state space; in particular handlers
\* never nest deeper than two.
THEOREM RequestTyped == Spec => []TypeOK
<1> QED
  BY InitType, StepType, PTL DEF Spec

-----------------------------------------------------------------------------
(* The idle dialog.                                                         *)

\* What a handler that returns has to leave behind.
LEMMA ReturnIsReady ==
  ASSUME "downloading" \notin flag', SetType("none")
  PROVE  IdleIsReady'
  BY EnabledIdle DEF SetType, IdleIsReady, Is

\* When the last handler returns, no download is going on, and input that
\* comes before a handler starts cannot change that.
LEMMA StepIsReady ==
  ASSUME TypeOK, IdleIsReady, [Next]_vars PROVE IdleIsReady'
<1>1. ASSUME NEW k \in Buttons, Click(k) PROVE IdleIsReady'
  <2>1. CASE Cancel
    BY <2>1, ReturnIsReady DEF Cancel
  <2>2. CASE Begin(k)
    <3>1. stack' # <<>>
      BY <2>2 DEF Begin, TypeOK
    <3> QED
      BY <3>1 DEF IdleIsReady, Running
  <2> QED
    BY <1>1, <2>1, <2>2 DEF Click
<1>2. CASE Select
  <2>1. CASE Running
    BY <1>2, <2>1 DEF Select, IdleIsReady, Running
  <2>2. CASE ~Running
    <3>1. type = "none" /\ "downloading" \notin flag
      BY <2>2 DEF IdleIsReady, Is
    <3> QED
      BY <1>2, <3>1, ReturnIsReady DEF Select
  <2> QED
    BY <2>1, <2>2
<1>3. CASE Close
  BY <1>3 DEF Close, IdleIsReady, Running, Is
<1>4. CASE Start \/ DescriptionRead
  <2>1. Running
    BY <1>4 DEF Start, DescriptionRead, Woken, TopIs
  <2>2. PICK b \in BOOLEAN : Launch(b)
    BY <1>4 DEF Start, DescriptionRead
  <2> QED
    BY <2>1, <2>2, LaunchType DEF IdleIsReady, Running
<1>5. CASE NoSource \/ ManifestFailed \/ DescriptionFailed \/ Finish
  <2>1. "downloading" \notin flag' /\ SetType("none")
    BY <1>5 DEF NoSource, ManifestFailed, DescriptionFailed, Finish, Woken, Is
  <2> QED
    BY <2>1, ReturnIsReady
<1>6. CASE Resume \/ ManifestRead
  <2>1. Running
    BY <1>6 DEF Resume, ManifestRead, Woken, TopIs
  <2>2. stack' # <<>>
    BY <1>6, <2>1, TopFrame, TopType DEF Resume, ManifestRead
  <2> QED
    BY <2>2 DEF IdleIsReady, Running
<1>7. ASSUME NEW i \in Downloads, NEW how \in {"done", "failed"},
             End(i, how) \/ Progress(i)
      PROVE  IdleIsReady'
  <2>1. /\ Running => stack' # <<>>
        /\ UNCHANGED <<type, enabled>>
        /\ "downloading" \notin flag => "downloading" \notin flag'
    <3>1. Running => stack' # <<>>
      BY <1>7, IntoYieldType DEF End, Progress, Running
    <3> QED
      BY <1>7, <3>1 DEF End, Progress, form
  <2> QED
    BY <2>1 DEF IdleIsReady, Running, Is
<1>8. CASE UNCHANGED vars
  BY <1>8 DEF vars, form, IdleIsReady, Running, Is
<1> QED
  BY <1>1, <1>2, <1>3, <1>4, <1>5, <1>6, <1>7, <1>8 DEF Next, Handler, Ends

\* However handlers were nested, cancelled or left early: when none is left,
\* the next click starts a download and every source can be clicked.
THEOREM IdleStaysReady == Spec => []IdleIsReady
<1>1. Init => IdleIsReady
  BY DEF Init, IdleIsReady, Running, Is
<1> QED
  BY <1>1, InitType, StepType, StepIsReady, PTL DEF Spec
=============================================================================
