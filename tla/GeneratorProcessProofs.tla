------------------------ MODULE GeneratorProcessProofs ------------------------
(***************************************************************************)
(* Proofs about the helper process of the generator dialog, for every       *)
(* number of helpers, of job names and of output paths.                     *)
(***************************************************************************)
EXTENDS GeneratorProcess, TLAPS, NaturalsInduction, WellFoundedInduction

Less == {p \in Nat \X Nat : p[1] < p[2]}

NamesType == [job : Tokens \cup {None}, result : Tokens \cup {None}]

(***************************************************************************)
(* What StartCommand(), FinishCommand() and OnCancel() leave well typed.    *)
(***************************************************************************)

\* The helper that StartCommand() launches is one that never ran.
LEMMA NextIsUnused ==
  ASSUME Unused # {}
  PROVE  NextProc \in Procs /\ child[NextProc].state = "unborn"
<1>1. Unused \subseteq Nat
  BY GeneratorAssumption DEF Unused, Procs
<1>2. IsWellFoundedOn(Less, Nat)
  BY NatLessThanWellFounded DEF OpToRel, Less
<1>3. PICK p \in Unused : \A q \in Unused : ~ (<<q, p>> \in Less)
  BY <1>1, <1>2, WFMin
<1>4. ASSUME NEW q \in Unused PROVE p <= q
  <2>1. ~(q < p)
    BY <1>1, <1>3 DEF Less
  <2> QED
    BY <1>1, <2>1
<1>5. NextProc \in Unused
  BY <1>3, <1>4 DEF NextProc
<1> QED
  BY <1>5 DEF Unused

LEMMA Constants ==
  /\ Procs \subseteq Nat \ {0} /\ Tokens \subseteq Nat \ {0}
  /\ None \notin Procs /\ None \notin Tokens
BY GeneratorAssumption DEF Procs, Tokens, None

LEMMA UnbornType == Unborn \in ChildType /\ Finished \in ChildType
<1>1. (CHOOSE q \in Paths : TRUE) \in Paths
  BY GeneratorAssumption
<1>2. Unborn \in ChildType
  BY <1>1 DEF Unborn, ChildType
<1> QED
  BY <1>2 DEF Finished, ChildType

LEMMA UnbornFields ==
  /\ Unborn.state = "unborn" /\ Unborn.token = None /\ ~Unborn.generation
  /\ Finished.state = "gone" /\ Finished.token = None
  /\ Finished.told /\ Finished.object = "freed"
BY DEF Unborn, Finished

LEMMA NoProcessType ==
  /\ NoProcess \in DialogType /\ NoProcess.pid = None
  /\ ~NoProcess.running /\ NoProcess.alive
BY DEF NoProcess, DialogType

\* The changes that the code makes to a helper and to its wxProcess.
LEMMA ChildUpdates ==
  ASSUME NEW b \in ChildType, NEW killed \in BOOLEAN, NEW told \in BOOLEAN,
         NEW state \in {"unborn", "live", "zombie", "gone"},
         NEW code \in {"none", "ok", "error", "signal"},
         NEW object \in {"none", "held", "detached", "freed"}
  PROVE  /\ [b EXCEPT !.killed = killed] \in ChildType
         /\ [b EXCEPT !.object = object] \in ChildType
         /\ [b EXCEPT !.state = state] \in ChildType
         /\ [b EXCEPT !.state = state, !.told = told] \in ChildType
         /\ [b EXCEPT !.state = state, !.code = code] \in ChildType
         /\ [b EXCEPT !.killed = killed, !.object = object] \in ChildType
<1>1. [b EXCEPT !.killed = killed] \in ChildType
  BY DEF ChildType
<1>2. [b EXCEPT !.object = object] \in ChildType
  BY DEF ChildType
<1>3. [b EXCEPT !.state = state] \in ChildType
  BY DEF ChildType
<1>4. [b EXCEPT !.state = state, !.told = told] \in ChildType
  BY DEF ChildType
<1>5. [b EXCEPT !.state = state, !.code = code] \in ChildType
  BY DEF ChildType
<1>6. [b EXCEPT !.killed = killed, !.object = object] \in ChildType
  BY DEF ChildType
<1> QED
  BY <1>1, <1>2, <1>3, <1>4, <1>5, <1>6

LEMMA Launched ==
  ASSUME NEW b \in ChildType, NEW generation \in BOOLEAN,
         NEW t \in Tokens \cup {None}, NEW target \in Paths,
         NEW pol \in {"review", "keep"}
  PROVE  [b EXCEPT !.state = "live", !.generation = generation, !.token = t,
                   !.target = target, !.policy = pol, !.object = "held"]
           \in ChildType
BY DEF ChildType

LEMMA StartTypes ==
  ASSUME TypeOK, NEW generation \in BOOLEAN, NEW n \in NamesType,
         NEW jobs \in SUBSET Tokens, NEW pol \in {"review", "keep"},
         StartCommand(generation, n, jobs, pol)
  PROVE  /\ dlg' \in DialogType /\ (dlg'.running <=> dlg'.pid # None)
         /\ child' \in [Procs -> ChildType]
         /\ names' \in NamesType /\ jobFiles' \in SUBSET Tokens
         /\ result' \in [Tokens -> {"none", "complete", "error", "preflight"}]
<1>1. CASE /\ dlg.running
           /\ names' = n /\ jobFiles' = jobs /\ UNCHANGED <<dlg, child, result>>
  BY <1>1 DEF TypeOK
<1>2. CASE /\ ~dlg.running
           /\ ConsumeFiles(n, jobs)
           /\ UNCHANGED <<dlg, child>>
  BY <1>2 DEF TypeOK, ConsumeFiles, NamesType
<1>3. CASE
     /\ ~dlg.running /\ Unused # {}
     /\ dlg' = [NoProcess EXCEPT !.running = TRUE, !.pid = NextProc,
                                 !.generation = generation]
     /\ child' = [child EXCEPT ![NextProc] =
          [@ EXCEPT !.state = "live", !.generation = generation,
                    !.token = IF generation THEN n.job ELSE None,
                    !.target = path, !.policy = pol, !.object = "held"]]
     /\ names' = n /\ jobFiles' = jobs /\ UNCHANGED result
  <2> DEFINE c == [child[NextProc] EXCEPT
                     !.state = "live", !.generation = generation,
                     !.token = IF generation THEN n.job ELSE None,
                     !.target = path, !.policy = pol, !.object = "held"]
  <2>1. NextProc \in Procs
    BY <1>3, NextIsUnused
  <2>2. c \in ChildType
    <3>1. child[NextProc] \in ChildType /\ path \in Paths
      BY <2>1 DEF TypeOK
    <3>2. (IF generation THEN n.job ELSE None) \in Tokens \cup {None}
      BY DEF NamesType
    <3> QED
      BY <3>1, <3>2, Launched
  <2>3. child' = [child EXCEPT ![NextProc] = c]
    BY <1>3
  <2> HIDE DEF c
  <2>4. child' \in [Procs -> ChildType]
    BY <2>1, <2>2, <2>3 DEF TypeOK
  <2>5. dlg' \in DialogType /\ dlg'.running /\ dlg'.pid = NextProc
    BY <1>3, <2>1 DEF NoProcess, DialogType
  <2> QED
    BY <1>3, <2>1, <2>4, <2>5, Constants DEF TypeOK
<1> QED
  BY <1>1, <1>2, <1>3 DEF StartCommand

LEMMA FinishTypes ==
  ASSUME TypeOK, dlg.running, NEW code, NEW cancelled, NEW told \in BOOLEAN,
         FinishCommand(code, cancelled, told, child)
  PROVE  /\ dlg' \in DialogType /\ (dlg'.running <=> dlg'.pid # None)
         /\ child' \in [Procs -> ChildType]
         /\ names' \in NamesType /\ jobFiles' \in SUBSET Tokens
         /\ result' \in [Tokens -> {"none", "complete", "error", "preflight"}]
         /\ viewer' \in [by : Procs \cup {None}, shows : Procs \cup {None, Old}]
         /\ policy' \in {"review", "keep"} /\ deferred' \in BOOLEAN
         /\ path' \in Paths /\ token' \in Tokens \cup {None}
         /\ output' \in [Paths -> Procs \cup {None, Old}]
<1>0. dlg.pid \in Procs
  BY DEF TypeOK, DialogType
<1>1. child' \in [Procs -> ChildType]
  <2> DEFINE c == [child[dlg.pid] EXCEPT !.object = "detached"]
  <2>1. c \in ChildType
    BY <1>0 DEF TypeOK, ChildType
  <2>2. child' = [child EXCEPT ![dlg.pid] = IF told THEN Finished ELSE c]
    BY DEF FinishCommand, Release
  <2> HIDE DEF c
  <2> QED
    BY <1>0, <2>1, <2>2, UnbornType DEF TypeOK
<1>2. dlg' \in DialogType /\ (dlg'.running <=> dlg'.pid # None)
  BY NoProcessType DEF FinishCommand
<1>3. /\ names' \in NamesType /\ jobFiles' \in SUBSET Tokens
      /\ result' \in [Tokens -> {"none", "complete", "error", "preflight"}]
  BY DEF FinishCommand, ConsumeFiles, TypeOK, NamesType
<1>4. viewer' \in [by : Procs \cup {None}, shows : Procs \cup {None, Old}]
  <2>1. CASE UNCHANGED viewer
    BY <2>1 DEF TypeOK
  <2>2. CASE viewer' = [by |-> dlg.pid, shows |-> output[path]]
    BY <1>0, <2>2 DEF TypeOK
  <2> QED
    BY <2>1, <2>2 DEF FinishCommand
<1> QED
  BY <1>1, <1>2, <1>3, <1>4 DEF FinishCommand, TypeOK

LEMMA CancelTypes ==
  ASSUME TypeOK, dlg.running, Cancel, UNCHANGED modal \/ modal' = "none"
  PROVE  TypeOK'
<1>0. dlg.pid \in Procs
  BY DEF TypeOK, DialogType
<1>1. CASE Exists(dlg.pid)
  <2> DEFINE c == [child[dlg.pid] EXCEPT !.killed = TRUE]
  <2>1. c \in ChildType
    <3>1. child[dlg.pid] \in ChildType
      BY <1>0 DEF TypeOK
    <3> QED
      BY <3>1, ChildUpdates
  <2>2. child' = [child EXCEPT ![dlg.pid] = c]
    BY <1>1 DEF Cancel
  <2>3. child' \in [Procs -> ChildType]
    <3> HIDE DEF c
    <3> QED
      BY <1>0, <2>1, <2>2 DEF TypeOK
  <2>4. dlg' \in DialogType /\ (dlg'.running <=> dlg'.pid # None)
    BY <1>1 DEF Cancel, TypeOK, DialogType
  <2> QED
    BY <1>1, <2>3, <2>4 DEF Cancel, TypeOK, files
<1>2. CASE ~Exists(dlg.pid)
  <2>1. FinishCommand("signal", dlg.cancelled, FALSE, child)
    BY <1>2 DEF Cancel
  <2> QED
    BY <2>1, FinishTypes DEF TypeOK, NamesType
<1> QED
  BY <1>1, <1>2

LEMMA GenerateTypes ==
  ASSUME TypeOK, Generate
  PROVE  /\ dlg' \in DialogType /\ (dlg'.running <=> dlg'.pid # None)
         /\ child' \in [Procs -> ChildType]
         /\ names' \in NamesType /\ jobFiles' \in SUBSET Tokens
         /\ result' \in [Tokens -> {"none", "complete", "error", "preflight"}]
         /\ policy' \in {"review", "keep"} /\ token' \in Tokens \cup {None}
         /\ UNCHANGED <<path, output, viewer>>
<1>1. CASE UNCHANGED <<dlg, child, names, token, jobFiles, result>>
  BY <1>1 DEF Generate, TypeOK, NamesType
<1>2. CASE /\ names' = [job |-> None, result |-> None]
           /\ UNCHANGED <<dlg, child, token, jobFiles, result>>
  BY <1>2 DEF Generate, TypeOK, NamesType
<1>3. ASSUME NEW t \in {token, token + 1} \cap Tokens, NEW pol \in Choices,
             token' = t,
             StartCommand(TRUE, [job |-> t, result |-> t], jobFiles \cup {t}, pol)
      PROVE  /\ dlg' \in DialogType /\ (dlg'.running <=> dlg'.pid # None)
             /\ child' \in [Procs -> ChildType]
             /\ names' \in NamesType /\ jobFiles' \in SUBSET Tokens
             /\ result' \in [Tokens -> {"none", "complete", "error", "preflight"}]
             /\ token' \in Tokens \cup {None}
  <2>1. pol \in {"review", "keep"}
    BY DEF Choices, TypeOK
  <2>2. [job |-> t, result |-> t] \in NamesType
    BY DEF NamesType
  <2>3. jobFiles \cup {t} \in SUBSET Tokens
    BY DEF TypeOK
  <2> QED
    BY <1>3, <2>1, <2>2, <2>3, StartTypes
<1> QED
  BY <1>1, <1>2, <1>3 DEF Generate

-------------------------------------------------------------------------------
(***************************************************************************)
(* Type correctness.                                                       *)
(***************************************************************************)

LEMMA TypeInit == Init => TypeOK
<1> SUFFICES ASSUME Init PROVE TypeOK
  OBVIOUS
<1>1. child \in [Procs -> ChildType]
  BY UnbornType DEF Init
<1>2. output \in [Paths -> Procs \cup {None, Old}]
  BY DEF Init
<1>3. dlg \in DialogType /\ (dlg.running <=> dlg.pid # None)
  BY NoProcessType DEF Init
<1> QED
  BY <1>1, <1>2, <1>3 DEF Init, TypeOK

LEMMA NotifiedTypes ==
  ASSUME TypeOK, NEW p \in Procs, Notified(p)
  PROVE  TypeOK'
<1>1. CASE /\ child[p].object = "held" /\ dlg.running /\ dlg.pid = p
           /\ FinishCommand(child[p].code, dlg.cancelled, TRUE, child)
  BY <1>1, FinishTypes DEF Notified, TypeOK, NamesType
<1>2. CASE child' = [child EXCEPT ![p].state = "gone", ![p].told = TRUE]
           /\ UNCHANGED <<dlg, path, policy, names, deferred, token, files, viewer>>
  <2> DEFINE c == [child[p] EXCEPT !.state = "gone", !.told = TRUE]
  <2>1. c \in ChildType
    <3>1. child[p] \in ChildType
      BY DEF TypeOK
    <3> QED
      BY <3>1, ChildUpdates
  <2>2. child' = [child EXCEPT ![p] = c]
    BY <1>2
  <2> HIDE DEF c
  <2> QED
    BY <1>2, <2>1, <2>2 DEF Notified, TypeOK, files
<1>3. CASE child' = [child EXCEPT ![p] = Finished]
           /\ UNCHANGED <<dlg, path, policy, names, deferred, token, files, viewer>>
  BY <1>3, UnbornType DEF Notified, TypeOK, files
<1> QED
  BY <1>1, <1>2, <1>3 DEF Notified

LEMMA ExitTypes ==
  ASSUME TypeOK, NEW p \in Procs, NEW code \in {"ok", "error", "signal"},
         Exit(p, code)
  PROVE  TypeOK'
<1>0. child[p] \in ChildType
  BY DEF TypeOK
<1>1. child' \in [Procs -> ChildType]
  <2> DEFINE c == [child[p] EXCEPT !.state = "zombie", !.code = code]
  <2>1. c \in ChildType
    BY <1>0, ChildUpdates
  <2>2. child' = [child EXCEPT ![p] = c]
    BY DEF Exit
  <2> HIDE DEF c
  <2> QED
    BY <2>1, <2>2 DEF TypeOK
<1>2. /\ result' \in [Tokens -> {"none", "complete", "error", "preflight"}]
      /\ output' \in [Paths -> Procs \cup {None, Old}]
  <2>1. CASE UNCHANGED <<result, output>>
    BY <2>1 DEF TypeOK
  <2>2. CASE /\ output' = [output EXCEPT ![child[p].target] = p]
             /\ result' = [result EXCEPT ![child[p].token] = "complete"]
    BY <2>2 DEF TypeOK
  <2>3. ASSUME UNCHANGED output,
               NEW r \in {"none", "error", "preflight"},
               result' = [result EXCEPT ![child[p].token] = r]
        PROVE  /\ result' \in [Tokens -> {"none", "complete", "error", "preflight"}]
               /\ output' \in [Paths -> Procs \cup {None, Old}]
    BY <2>3 DEF TypeOK
  <2>4. CASE /\ output' \in {output, [output EXCEPT ![child[p].target] = p]}
             /\ UNCHANGED result
    BY <2>4 DEF TypeOK
  <2> QED
    BY <2>1, <2>2, <2>3, <2>4 DEF Exit
<1> QED
  BY <1>1, <1>2 DEF Exit, TypeOK

LEMMA ShutdownTypes ==
  ASSUME TypeOK, Shutdown
  PROVE  TypeOK'
<1>1. dlg' \in DialogType /\ (dlg'.running <=> dlg'.pid # None)
  BY DEF Shutdown, NoProcess, DialogType
<1>2. child' \in [Procs -> ChildType]
  <2>1. CASE ~dlg.running
    BY <2>1 DEF Shutdown, TypeOK
  <2>2. CASE dlg.running
    <3> DEFINE k == child[dlg.pid].killed \/ Exists(dlg.pid)
               c == [child[dlg.pid] EXCEPT !.killed = k, !.object = "detached"]
    <3>1. dlg.pid \in Procs
      BY <2>2 DEF TypeOK, DialogType
    <3>2. k \in BOOLEAN
      OBVIOUS
    <3>3. c \in ChildType
      <4> HIDE DEF k
      <4>1. child[dlg.pid] \in ChildType
        BY <3>1 DEF TypeOK
      <4> QED
        BY <3>2, <4>1, ChildUpdates
    <3>4. child' = [child EXCEPT ![dlg.pid] = c]
      BY <2>2 DEF Shutdown
    <3> HIDE DEF c
    <3> QED
      BY <3>1, <3>3, <3>4 DEF TypeOK
  <2> QED
    BY <2>1, <2>2
<1> QED
  BY <1>1, <1>2 DEF Shutdown, TypeOK, files

LEMMA TypeStep == TypeOK /\ [Next]_vars => TypeOK'
<1> SUFFICES ASSUME TypeOK, [Next]_vars PROVE TypeOK'
  OBVIOUS
<1>1. CASE UNCHANGED vars
  BY <1>1 DEF vars, files, TypeOK
<1>2. CASE PressGenerate
  BY <1>2 DEF PressGenerate, TypeOK, files
<1>3. CASE ResumeGenerate
  BY <1>3, GenerateTypes DEF ResumeGenerate, TypeOK, NamesType
<1>4. CASE DeferredGenerate
  BY <1>4, GenerateTypes DEF DeferredGenerate, TypeOK, NamesType
<1>5. CASE PressCheck
  <2>1. names \in NamesType /\ jobFiles \in SUBSET Tokens
    BY DEF TypeOK, NamesType
  <2>2. StartCommand(FALSE, names, jobFiles, "review")
    BY <1>5 DEF PressCheck
  <2> QED
    BY <1>5, <2>1, <2>2, StartTypes DEF PressCheck, TypeOK, NamesType
<1>6. CASE EditOutput
  BY <1>6 DEF EditOutput, TypeOK, files
<1>7. CASE OnProcessTimer
  BY <1>7, FinishTypes DEF OnProcessTimer, TypeOK, NamesType
<1>8. CASE PressCancel
  BY <1>8, CancelTypes DEF PressCancel
<1>9. CASE PressClose
  BY <1>9 DEF PressClose, TypeOK, files
<1>10. CASE AnswerClose
  <2>1. CASE UNCHANGED <<dlg, path, policy, names, deferred, child, token, files, viewer>>
    BY <1>10, <2>1 DEF AnswerClose, TypeOK, files
  <2>2. CASE dlg.running /\ Cancel
    BY <1>10, <2>2, CancelTypes DEF AnswerClose
  <2> QED
    BY <1>10, <2>1, <2>2 DEF AnswerClose
<1>11. CASE Shutdown
  BY <1>11, ShutdownTypes
<1>12. ASSUME NEW p \in Procs, Notified(p) PROVE TypeOK'
  BY <1>12, NotifiedTypes
<1>13. ASSUME NEW p \in Procs, HelperExits(p) PROVE TypeOK'
  BY <1>13, ExitTypes DEF HelperExits
<1>14. ASSUME NEW p \in Procs, ReapedElsewhere(p) PROVE TypeOK'
  <2>1. [child[p] EXCEPT !.state = "gone"] \in ChildType
    <3>1. child[p] \in ChildType
      BY DEF TypeOK
    <3> QED
      BY <3>1, ChildUpdates
  <2> QED
    BY <1>14, <2>1 DEF ReapedElsewhere, TypeOK, files
<1> QED
  BY <1>1, <1>2, <1>3, <1>4, <1>5, <1>6, <1>7, <1>8, <1>9, <1>10, <1>11,
     <1>12, <1>13, <1>14 DEF Next

\* The state of the dialog, of its helpers and of their files is well typed;
\* in particular the dialog holds a process id exactly while it believes that a
\* helper runs.
THEOREM TypeCorrect == Spec => []TypeOK
<1>1. Init => TypeOK
  BY TypeInit
<1>2. TypeOK /\ [Next]_vars => TypeOK'
  BY TypeStep
<1> QED
  BY <1>1, <1>2, PTL DEF Spec

-------------------------------------------------------------------------------
(***************************************************************************)
(* What a step does to the helpers, one by one.                            *)
(***************************************************************************)

\* Only helper p changes.
OnlyChild(p) == \A q \in Procs : q # p => child'[q] = child[q]

\* A helper that never ran is launched, and the dialog tracks it.
Launches(generation, t) ==
  /\ ~dlg.running /\ dlg'.alive /\ dlg'.running /\ dlg'.pid \in Procs
  /\ child[dlg'.pid].state = "unborn"
  /\ child'[dlg'.pid].state = "live" /\ child'[dlg'.pid].object = "held"
  /\ child'[dlg'.pid].generation = generation /\ child'[dlg'.pid].token = t
  /\ OnlyChild(dlg'.pid)

\* The dialog forgets the helper it tracked: told says whether wxWidgets has
\* called for it.
Ends(p, told) ==
  /\ p \in Procs /\ OnlyChild(p) /\ dlg' = NoProcess
  /\ IF told THEN child'[p] = Finished
     ELSE /\ child'[p].object = "detached"
          /\ child'[p].told = child[p].told /\ child'[p].state = child[p].state
          /\ child'[p].token = child[p].token
          /\ child'[p].killed = child[p].killed
          /\ child'[p].generation = child[p].generation

\* The state of helper p alone changes, and no longer says that it runs.
Stops(p) ==
  /\ child[p].state \in {"live", "zombie"}
  /\ OnlyChild(p) /\ child'[p].state \in {"zombie", "gone"}
  /\ child'[p].token = child[p].token
  /\ child'[p].generation = child[p].generation
  /\ child'[p].object = child[p].object

LEMMA StartEffect ==
  ASSUME TypeOK, NEW generation \in BOOLEAN, NEW n \in NamesType,
         NEW jobs \in SUBSET Tokens, NEW pol \in {"review", "keep"},
         StartCommand(generation, n, jobs, pol)
  PROVE  \/ dlg.running /\ names' = n /\ UNCHANGED <<dlg, child, result>>
         \/ /\ Launches(generation, IF generation THEN n.job ELSE None)
            /\ names' = n /\ UNCHANGED result
         \/ ~dlg.running /\ ConsumeFiles(n, jobs) /\ UNCHANGED <<dlg, child>>
<1>1. CASE /\ dlg.running
           /\ names' = n /\ jobFiles' = jobs /\ UNCHANGED <<dlg, child, result>>
  BY <1>1
<1>2. CASE ~dlg.running /\ ConsumeFiles(n, jobs) /\ UNCHANGED <<dlg, child>>
  BY <1>2
<1>3. CASE
     /\ ~dlg.running /\ Unused # {}
     /\ dlg' = [NoProcess EXCEPT !.running = TRUE, !.pid = NextProc,
                                 !.generation = generation]
     /\ child' = [child EXCEPT ![NextProc] =
          [@ EXCEPT !.state = "live", !.generation = generation,
                    !.token = IF generation THEN n.job ELSE None,
                    !.target = path, !.policy = pol, !.object = "held"]]
     /\ names' = n /\ jobFiles' = jobs /\ UNCHANGED result
  <2> DEFINE t == IF generation THEN n.job ELSE None
             c == [child[NextProc] EXCEPT
                     !.state = "live", !.generation = generation, !.token = t,
                     !.target = path, !.policy = pol, !.object = "held"]
  <2>1. NextProc \in Procs /\ child[NextProc].state = "unborn"
    BY <1>3, NextIsUnused
  <2>2. /\ c.state = "live" /\ c.object = "held" /\ c.token = t
        /\ c.generation = generation
    <3> HIDE DEF t
    <3>1. child[NextProc] \in ChildType
      BY <2>1 DEF TypeOK
    <3> QED
      BY <3>1 DEF ChildType
  <2>3. child' = [child EXCEPT ![NextProc] = c]
    BY <1>3
  <2>4. dlg'.alive /\ dlg'.running /\ dlg'.pid = NextProc
    BY <1>3 DEF NoProcess
  <2> HIDE DEF c, t
  <2>5. child'[NextProc] = c /\ OnlyChild(NextProc)
    BY <2>1, <2>3 DEF TypeOK, OnlyChild
  <2>6. Launches(generation, t)
    BY <1>3, <2>1, <2>2, <2>4, <2>5 DEF Launches
  <2> QED
    BY <1>3, <2>6 DEF t
<1> QED
  BY <1>1, <1>2, <1>3 DEF StartCommand

LEMMA FinishEffect ==
  ASSUME TypeOK, dlg.running, NEW code, NEW cancelled, NEW told \in BOOLEAN,
         FinishCommand(code, cancelled, told, child)
  PROVE  Ends(dlg.pid, told)
<1>1. dlg.pid \in Procs
  BY DEF TypeOK, DialogType
<1> DEFINE c == [child[dlg.pid] EXCEPT !.object = "detached"]
<1>2. child' = [child EXCEPT ![dlg.pid] = IF told THEN Finished ELSE c]
  BY DEF FinishCommand, Release
<1>3. /\ c.object = "detached"
      /\ c.told = child[dlg.pid].told /\ c.state = child[dlg.pid].state
      /\ c.token = child[dlg.pid].token /\ c.killed = child[dlg.pid].killed
      /\ c.generation = child[dlg.pid].generation
  <2>1. child[dlg.pid] \in ChildType
    BY <1>1 DEF TypeOK
  <2> QED
    BY <2>1 DEF ChildType
<1> HIDE DEF c
<1>4. /\ OnlyChild(dlg.pid)
      /\ child'[dlg.pid] = IF told THEN Finished ELSE c
  BY <1>1, <1>2 DEF TypeOK, OnlyChild
<1>5. dlg' = NoProcess
  BY DEF FinishCommand
<1> QED
  BY <1>1, <1>3, <1>4, <1>5 DEF Ends

\* A running helper that Cancel or the unloading of the plugin finds alive is
\* told to stop, and nothing else happens to it.
LEMMA KillEffect ==
  ASSUME TypeOK, dlg.running, Exists(dlg.pid), Cancel
  PROVE  /\ OnlyChild(dlg.pid) /\ dlg.pid \in Procs
         /\ dlg' = [dlg EXCEPT !.cancelled = TRUE]
         /\ child'[dlg.pid] = [child[dlg.pid] EXCEPT !.killed = TRUE]
<1>1. dlg.pid \in Procs
  BY DEF TypeOK, DialogType
<1> DEFINE c == [child[dlg.pid] EXCEPT !.killed = TRUE]
<1>2. child' = [child EXCEPT ![dlg.pid] = c] /\ dlg' = [dlg EXCEPT !.cancelled = TRUE]
  BY DEF Cancel
<1> HIDE DEF c
<1>3. OnlyChild(dlg.pid) /\ child'[dlg.pid] = c
  BY <1>1, <1>2 DEF TypeOK, OnlyChild
<1> QED
  BY <1>1, <1>2, <1>3 DEF c

LEMMA ShutdownEffect ==
  ASSUME TypeOK, Shutdown
  PROVE  \/ ~dlg.running /\ UNCHANGED child
         \/ /\ dlg.running /\ dlg.pid \in Procs /\ OnlyChild(dlg.pid)
            /\ child'[dlg.pid] =
                 [child[dlg.pid] EXCEPT
                    !.killed = child[dlg.pid].killed \/ Exists(dlg.pid),
                    !.object = "detached"]
<1>1. CASE ~dlg.running
  BY <1>1 DEF Shutdown
<1>2. CASE dlg.running
  <2> DEFINE k == child[dlg.pid].killed \/ Exists(dlg.pid)
             c == [child[dlg.pid] EXCEPT !.killed = k, !.object = "detached"]
  <2>1. dlg.pid \in Procs
    BY <1>2 DEF TypeOK, DialogType
  <2>2. child' = [child EXCEPT ![dlg.pid] = c]
    BY <1>2 DEF Shutdown
  <2> HIDE DEF c
  <2>3. OnlyChild(dlg.pid) /\ child'[dlg.pid] = c
    BY <2>1, <2>2 DEF TypeOK, OnlyChild
  <2> QED
    BY <1>2, <2>1, <2>3 DEF c
<1> QED
  BY <1>1, <1>2

LEMMA StopsEffect ==
  ASSUME TypeOK, NEW p \in Procs
  PROVE  /\ \A code : Exit(p, code) => Stops(p) /\ child'[p].told = child[p].told
         /\ ReapedElsewhere(p) => Stops(p) /\ child'[p].told = child[p].told
<1>1. child[p] \in ChildType
  BY DEF TypeOK
<1>2. ASSUME NEW code, Exit(p, code)
      PROVE  Stops(p) /\ child'[p].told = child[p].told
  <2> DEFINE c == [child[p] EXCEPT !.state = "zombie", !.code = code]
  <2>1. child' = [child EXCEPT ![p] = c]
    BY <1>2 DEF Exit
  <2>2. /\ c.state = "zombie" /\ child[p].state = "live" /\ c.object = child[p].object
        /\ c.token = child[p].token /\ c.generation = child[p].generation
        /\ c.told = child[p].told
    BY <1>1, <1>2 DEF ChildType, Exit
  <2> HIDE DEF c
  <2>3. OnlyChild(p) /\ child'[p] = c
    BY <2>1 DEF TypeOK, OnlyChild
  <2> QED
    BY <2>2, <2>3 DEF Stops
<1>3. ASSUME ReapedElsewhere(p)
      PROVE  Stops(p) /\ child'[p].told = child[p].told
  <2> DEFINE c == [child[p] EXCEPT !.state = "gone"]
  <2>1. child' = [child EXCEPT ![p] = c]
    BY <1>3 DEF ReapedElsewhere
  <2>2. /\ c.state = "gone" /\ child[p].state = "zombie" /\ c.object = child[p].object
        /\ c.token = child[p].token /\ c.generation = child[p].generation
        /\ c.told = child[p].told
    BY <1>1, <1>3 DEF ChildType, ReapedElsewhere
  <2> HIDE DEF c
  <2>3. OnlyChild(p) /\ child'[p] = c
    BY <2>1 DEF TypeOK, OnlyChild
  <2> QED
    BY <2>2, <2>3 DEF Stops
<1> QED
  BY <1>2, <1>3

\* A notification that is not about the helper the dialog tracks.
LEMMA StaleEffect ==
  ASSUME TypeOK, NEW p \in Procs, Notified(p), ~(dlg.running /\ dlg.pid = p /\ child[p].object = "held")
  PROVE  /\ OnlyChild(p) /\ child'[p].told /\ child'[p].state = "gone"
         /\ child'[p].token \in {child[p].token, None}
         /\ UNCHANGED <<dlg, path, policy, names, deferred, modal, token, files, viewer>>
<1>1. child[p] \in ChildType
  BY DEF TypeOK
<1>2. CASE child' = [child EXCEPT ![p].state = "gone", ![p].told = TRUE]
  <2> DEFINE c == [child[p] EXCEPT !.state = "gone", !.told = TRUE]
  <2>1. child' = [child EXCEPT ![p] = c]
    BY <1>2
  <2>2. c.state = "gone" /\ c.told /\ c.token = child[p].token
    BY <1>1 DEF ChildType
  <2> HIDE DEF c
  <2>3. OnlyChild(p) /\ child'[p] = c
    BY <2>1 DEF TypeOK, OnlyChild
  <2> QED
    BY <2>2, <2>3 DEF Notified
<1>3. CASE child' = [child EXCEPT ![p] = Finished]
  <2>1. OnlyChild(p) /\ child'[p] = Finished
    BY <1>3 DEF TypeOK, OnlyChild
  <2> QED
    BY <2>1 DEF Notified, Finished, Unborn
<1> QED
  BY <1>2, <1>3 DEF Notified

\* The three ways in which a step of the event loop reaches the helpers through
\* OnGenerate() or OnCheckDependencies().
LEMMA GenerateEffect ==
  ASSUME TypeOK, Generate \/ PressCheck
  PROVE  UNCHANGED <<dlg, child>> \/ \E g \in BOOLEAN : \E t : Launches(g, t)
<1>1. CASE Generate
  <2>1. ASSUME NEW t \in {token, token + 1} \cap Tokens, NEW pol \in Choices,
               StartCommand(TRUE, [job |-> t, result |-> t], jobFiles \cup {t}, pol)
        PROVE  UNCHANGED <<dlg, child>> \/ Launches(TRUE, t)
    <3>1. /\ pol \in {"review", "keep"} /\ [job |-> t, result |-> t] \in NamesType
          /\ jobFiles \cup {t} \in SUBSET Tokens
      BY DEF Choices, TypeOK, NamesType
    <3> QED
      BY <2>1, <3>1, StartEffect
  <2> QED
    BY <1>1, <2>1 DEF Generate
<1>2. CASE PressCheck
  <2>1. names \in NamesType /\ jobFiles \in SUBSET Tokens
    BY DEF TypeOK, NamesType
  <2>2. StartCommand(FALSE, names, jobFiles, "review")
    BY <1>2 DEF PressCheck
  <2> QED
    BY <2>1, <2>2, StartEffect
<1> QED
  BY <1>1, <1>2

\* The ways in which any step reaches the helpers.
LEMMA StepEffect ==
  ASSUME TypeOK, [Next]_vars
  PROVE  \/ UNCHANGED child /\ (UNCHANGED dlg \/ Shutdown)
         \/ \E g \in BOOLEAN : \E t : Launches(g, t)
         \/ dlg.running /\ ~Exists(dlg.pid) /\ Ends(dlg.pid, FALSE)
         \/ /\ dlg.running /\ child[dlg.pid].state \in {"zombie", "gone"}
            /\ ~child[dlg.pid].told /\ Ends(dlg.pid, TRUE)
         \/ dlg.running /\ Exists(dlg.pid) /\ Cancel
         \/ dlg.running /\ Shutdown
         \/ \E p \in Procs :
              /\ UNCHANGED dlg /\ Stops(p) /\ child'[p].told = child[p].told
         \/ \E p \in Procs :
              /\ Notified(p)
              /\ ~(dlg.running /\ dlg.pid = p /\ child[p].object = "held")
<1>1. CASE UNCHANGED vars \/ PressGenerate \/ EditOutput \/ PressClose
  BY <1>1 DEF vars, files, PressGenerate, EditOutput, PressClose
<1>2. CASE ResumeGenerate \/ DeferredGenerate \/ PressCheck
  BY <1>2, GenerateEffect DEF ResumeGenerate, DeferredGenerate
<1>3. CASE OnProcessTimer
  BY <1>3, FinishEffect DEF OnProcessTimer
<1>4. CASE PressCancel \/ AnswerClose
  <2>1. CASE UNCHANGED <<dlg, path, policy, names, deferred, child, token, files, viewer>>
    BY <2>1
  <2>2. CASE dlg.running /\ Cancel
    <3>1. CASE Exists(dlg.pid)
      BY <2>2, <3>1
    <3>2. CASE ~Exists(dlg.pid)
      <4>1. FinishCommand("signal", dlg.cancelled, FALSE, child)
        BY <2>2, <3>2 DEF Cancel
      <4> QED
        BY <2>2, <3>2, <4>1, FinishEffect
    <3> QED
      BY <3>1, <3>2
  <2> QED
    BY <1>4, <2>1, <2>2 DEF PressCancel, AnswerClose
<1>5. CASE Shutdown
  BY <1>5, ShutdownEffect
<1>6. ASSUME NEW p \in Procs, Notified(p)
      PROVE  \/ \E q \in Procs :
                  /\ Notified(q)
                  /\ ~(dlg.running /\ dlg.pid = q /\ child[q].object = "held")
             \/ /\ dlg.running /\ child[dlg.pid].state \in {"zombie", "gone"}
                /\ ~child[dlg.pid].told /\ Ends(dlg.pid, TRUE)
  <2>1. CASE dlg.running /\ dlg.pid = p /\ child[p].object = "held"
    <3>1. FinishCommand(child[p].code, dlg.cancelled, TRUE, child)
      BY <1>6, <2>1 DEF Notified
    <3>2. Ends(dlg.pid, TRUE)
      BY <2>1, <3>1, FinishEffect
    <3> QED
      BY <1>6, <2>1, <3>2 DEF Notified
  <2> QED
    BY <1>6, <2>1
<1>7. ASSUME NEW p \in Procs, HelperExits(p) \/ ReapedElsewhere(p)
      PROVE  UNCHANGED dlg /\ Stops(p) /\ child'[p].told = child[p].told
  BY <1>7, StopsEffect DEF HelperExits, Exit, ReapedElsewhere
<1> QED
  BY <1>1, <1>2, <1>3, <1>4, <1>5, <1>6, <1>7 DEF Next

-------------------------------------------------------------------------------
(***************************************************************************)
(* No helper is left behind, and no wxProcess is deleted too early.         *)
(***************************************************************************)

LEMMA ControlStep == TypeOK /\ HelperUnderControl /\ [Next]_vars => HelperUnderControl'
<1> SUFFICES ASSUME TypeOK, HelperUnderControl, [Next]_vars,
                    NEW p \in Procs, (child[p].state = "live")'
             PROVE  ((dlg.running /\ dlg.pid = p) \/ child[p].killed)'
  BY DEF HelperUnderControl
<1>0. child[p].state = "live" => (dlg.running /\ dlg.pid = p) \/ child[p].killed
  BY DEF HelperUnderControl
<1>1. CASE UNCHANGED child /\ (UNCHANGED dlg \/ Shutdown)
  <2>1. CASE Shutdown
    <3>1. CASE dlg.running /\ dlg.pid = p
      <4>1. child[p] \in ChildType /\ Exists(p)
        BY <1>1 DEF TypeOK, Exists
      <4> QED
        BY <3>1, <4>1, <2>1, ShutdownEffect DEF ChildType
    <3> QED
      BY <1>0, <1>1, <3>1
  <2> QED
    BY <1>0, <1>1, <2>1
<1>2. ASSUME NEW g \in BOOLEAN, NEW t, Launches(g, t)
      PROVE  ((dlg.running /\ dlg.pid = p) \/ child[p].killed)'
  BY <1>0, <1>2 DEF Launches, OnlyChild
<1>3. CASE dlg.running /\ ~Exists(dlg.pid) /\ Ends(dlg.pid, FALSE)
  BY <1>0, <1>3 DEF Ends, OnlyChild, Exists
<1>4. CASE /\ dlg.running /\ child[dlg.pid].state \in {"zombie", "gone"}
           /\ ~child[dlg.pid].told /\ Ends(dlg.pid, TRUE)
  BY <1>0, <1>4 DEF Ends, OnlyChild, Finished, Unborn
<1>5. CASE dlg.running /\ Exists(dlg.pid) /\ Cancel
  <2>1. dlg'.running /\ dlg'.pid = dlg.pid
    BY <1>5, KillEffect DEF TypeOK, DialogType
  <2>2. p # dlg.pid => child'[p] = child[p]
    BY <1>5, KillEffect DEF OnlyChild
  <2> QED
    BY <1>0, <1>5, <2>1, <2>2
<1>6. CASE dlg.running /\ Shutdown
  <2>1. CASE p = dlg.pid
    <3>1. child[p] \in ChildType
      BY DEF TypeOK
    <3>2. child[p].state = "live"
      BY <1>6, <2>1, <3>1, ShutdownEffect DEF ChildType
    <3> QED
      BY <1>6, <2>1, <3>1, <3>2, ShutdownEffect DEF ChildType, Exists
  <2>2. CASE p # dlg.pid
    BY <1>0, <1>6, <2>2, ShutdownEffect DEF OnlyChild
  <2> QED
    BY <2>1, <2>2
<1>7. ASSUME NEW q \in Procs, UNCHANGED dlg, Stops(q)
      PROVE  ((dlg.running /\ dlg.pid = p) \/ child[p].killed)'
  BY <1>0, <1>7 DEF Stops, OnlyChild
<1>8. ASSUME NEW q \in Procs, Notified(q),
             ~(dlg.running /\ dlg.pid = q /\ child[q].object = "held")
      PROVE  ((dlg.running /\ dlg.pid = p) \/ child[p].killed)'
  BY <1>0, <1>8, StaleEffect DEF OnlyChild
<1> QED
  BY <1>1, <1>2, <1>3, <1>4, <1>5, <1>6, <1>7, <1>8, StepEffect

\* Whatever click, posted OnGenerate() or unloading of the plugin comes when, a
\* helper that still runs is the one that the dialog tracks, or it has been told
\* to stop.
THEOREM NoStrayHelper == Spec => []HelperUnderControl
<1>1. Init => HelperUnderControl
  BY DEF Init, HelperUnderControl, Unborn
<1> QED
  BY <1>1, ControlStep, TypeCorrect, PTL DEF Spec

LEMMA NotifyStep == TypeOK /\ SafeToNotify /\ [Next]_vars => SafeToNotify'
<1> SUFFICES ASSUME TypeOK, SafeToNotify, [Next]_vars, NEW p \in Procs,
                    (child[p].state # "unborn" /\ ~child[p].told)'
             PROVE  (child[p].object # "freed")'
  BY DEF SafeToNotify
<1>0. child[p].state # "unborn" /\ ~child[p].told => child[p].object # "freed"
  BY DEF SafeToNotify
<1>a. child[p] \in ChildType
  BY DEF TypeOK
<1>1. CASE UNCHANGED child
  BY <1>0, <1>1
<1>2. ASSUME NEW g \in BOOLEAN, NEW t, Launches(g, t)
      PROVE  (child[p].object # "freed")'
  BY <1>0, <1>2 DEF Launches, OnlyChild
<1>3. CASE Ends(dlg.pid, FALSE)
  BY <1>0, <1>3 DEF Ends, OnlyChild
<1>4. CASE Ends(dlg.pid, TRUE)
  BY <1>0, <1>4 DEF Ends, OnlyChild, Finished, Unborn
<1>5. CASE dlg.running /\ Exists(dlg.pid) /\ Cancel
  <2>1. \/ child'[p] = child[p]
        \/ child'[p] = [child[p] EXCEPT !.killed = TRUE]
    BY <1>5, KillEffect DEF OnlyChild
  <2> QED
    BY <1>0, <1>a, <2>1 DEF ChildType
<1>6. CASE dlg.running /\ Shutdown
  <2>1. CASE p = dlg.pid
    BY <1>6, <1>a, <2>1, ShutdownEffect DEF ChildType
  <2>2. CASE p # dlg.pid
    BY <1>0, <1>6, <2>2, ShutdownEffect DEF OnlyChild
  <2> QED
    BY <2>1, <2>2
<1>7. ASSUME NEW q \in Procs, Stops(q), child'[q].told = child[q].told
      PROVE  (child[p].object # "freed")'
  BY <1>0, <1>7 DEF Stops, OnlyChild
<1>8. ASSUME NEW q \in Procs, Notified(q),
             ~(dlg.running /\ dlg.pid = q /\ child[q].object = "held")
      PROVE  (child[p].object # "freed")'
  BY <1>0, <1>8, StaleEffect DEF OnlyChild
<1> QED
  BY <1>1, <1>2, <1>3, <1>4, <1>5, <1>6, <1>7, <1>8, StepEffect

\* wxWidgets never calls OnTerminate of a wxProcess that has been deleted,
\* whichever of process event, poll, Cancel button and unloading came first.
THEOREM ObjectOutlivesNotification == Spec => []SafeToNotify
<1>1. Init => SafeToNotify
  BY DEF Init, SafeToNotify, Unborn
<1> QED
  BY <1>1, NotifyStep, TypeCorrect, PTL DEF Spec

-------------------------------------------------------------------------------
(***************************************************************************)
(* A reported failure does not replace the open GRIB.                       *)
(***************************************************************************)

LEMMA ViewerStep ==
  ASSUME TypeOK, [Next]_vars, NEW p \in Procs,
         ~child[p].told, child'[p].told, child[p].code = "error"
  PROVE  UNCHANGED viewer
<1>1. CASE \/ UNCHANGED vars \/ PressGenerate \/ ResumeGenerate \/ DeferredGenerate
           \/ PressCheck \/ EditOutput \/ PressClose \/ Shutdown
  BY <1>1 DEF vars, files, PressGenerate, ResumeGenerate, DeferredGenerate,
              Generate, PressCheck, EditOutput, PressClose, Shutdown
<1>2. ASSUME dlg.running, NEW code, NEW c,
             FinishCommand(code, c, FALSE, child)
      PROVE  FALSE
  BY <1>2, FinishEffect DEF Ends, OnlyChild
<1>3. CASE OnProcessTimer \/ PressCancel \/ AnswerClose
  BY <1>2, <1>3 DEF OnProcessTimer, PressCancel, AnswerClose, Cancel
<1>4. ASSUME NEW q \in Procs, Notified(q) PROVE UNCHANGED viewer
  <2>1. CASE /\ dlg.running /\ dlg.pid = q
             /\ FinishCommand(child[q].code, dlg.cancelled, TRUE, child)
    <3>1. q = p
      BY <2>1, FinishEffect DEF Ends, OnlyChild
    <3>2. ~Succeeded(child[q].code)
      BY <3>1 DEF Succeeded
    <3> QED
      BY <2>1, <3>2 DEF FinishCommand
  <2> QED
    BY <1>4, <2>1 DEF Notified
<1>5. CASE \E q \in Procs : HelperExits(q) \/ ReapedElsewhere(q)
  BY <1>5 DEF HelperExits, Exit, ReapedElsewhere
<1> QED
  BY <1>1, <1>3, <1>4, <1>5 DEF Next

\* The process event of a helper that reports an error leaves the open GRIB
\* alone, also when a valid output file of an earlier helper is there.
THEOREM FailureKeepsOpenGrib == Spec => FailureKeepsViewer
<1>1. TypeOK /\ [Next]_vars =>
        [\A p \in Procs :
           ~child[p].told /\ child'[p].told /\ child[p].code = "error" =>
             UNCHANGED viewer]_vars
  BY ViewerStep
<1> QED
  BY <1>1, TypeCorrect, PTL DEF Spec, FailureKeepsViewer

-------------------------------------------------------------------------------
(***************************************************************************)
(* The result that is read.                                                *)
(*                                                                         *)
(* A job is named for the second in which it is written, so that two        *)
(* generations may share a name, and OnGenerate() replaces m_jobPath and     *)
(* m_resultPath before StartCommand() refuses it.  The invariant says who    *)
(* may still write a result file, which file names are in use, and what an  *)
(* OnGenerate() that is posted or waits for an answer will find.            *)
(***************************************************************************)

\* The dialog tracks the only helper that may still write a result.
Sole == dlg.alive => \A p \in Procs : Exists(p) => dlg.running /\ dlg.pid = p

\* A dialog that is gone tracks nothing, names no file and posts no call.
Departed == ~dlg.alive => ~dlg.running /\ names.result = None /\ ~deferred

\* The wxProcess of the helper that the dialog tracks is not released.
Held == dlg.running => child[dlg.pid].object = "held"

\* No name lies in the future, and the dialog knows only the latest.
Dated ==
  /\ \A p \in Procs : child[p].token <= token
  /\ \A p \in Procs :
       Exists(p) => (child[p].token # None <=> child[p].generation)
  /\ \A t \in Tokens : result[t] # "none" => t <= token
  /\ names.result \in {None, token}

\* The latest name can be used again without finding an old result.
Clean == token # None => result[token] = "none"

Posted ==
  /\ dlg.running /\ (deferred \/ modal = "generate") =>
       Clean \/ child[dlg.pid].token = token
  /\ deferred /\ ~dlg.running => Clean
  /\ dlg.running /\ modal = "generate" => ~deferred
  /\ dlg.running /\ deferred /\ child[dlg.pid].token # None =>
       names.result = token /\ child[dlg.pid].token = token

ResultInv ==
  /\ TypeOK /\ Sole /\ Departed /\ Held
  /\ Dated /\ Posted /\ ResultIsOwn

LEMMA TokensAreNumbers ==
  ASSUME TypeOK
  PROVE  token \in Nat /\ \A p \in Procs : child[p].token \in Nat
<1>1. Tokens \cup {None} \subseteq Nat
  BY Constants DEF None
<1>2. token \in Tokens \cup {None}
  BY DEF TypeOK
<1>3. ASSUME NEW p \in Procs PROVE child[p].token \in Tokens \cup {None}
  <2>1. child[p] \in ChildType
    BY DEF TypeOK
  <2> QED
    BY <2>1 DEF ChildType
<1> QED
  BY <1>1, <1>2, <1>3

\* A helper that is launched is the only one that may still write a result.
LEMMA LaunchKeeps ==
  ASSUME TypeOK, Sole, Departed, Dated, dlg.alive,
         NEW g \in BOOLEAN, NEW t, Launches(g, t),
         token' \in Nat, token <= token', t \in Nat, t <= token', t # None <=> g
  PROVE  /\ Sole' /\ Departed' /\ Held'
         /\ \A p \in Procs : child'[p].token <= token'
         /\ \A p \in Procs :
              Exists(p)' => (child'[p].token # None <=> child'[p].generation)
<1>1. \A p \in Procs : ~Exists(p)
  BY DEF Sole, Launches
<1>2. \A p \in Procs : p # dlg'.pid => child'[p] = child[p]
  BY DEF Launches, OnlyChild
<1>3. Sole' /\ Departed' /\ Held'
  BY <1>1, <1>2 DEF Launches, Sole, Departed, Held, Exists
<1>4. ASSUME NEW p \in Procs PROVE child'[p].token <= token'
  <2>1. child[p].token \in Nat /\ token \in Nat
    BY TokensAreNumbers
  <2>2. child[p].token <= token
    BY DEF Dated
  <2>3. child'[p].token \in {child[p].token, t}
    BY <1>2 DEF Launches
  <2> QED
    BY <2>1, <2>2, <2>3
<1>5. ASSUME NEW p \in Procs, Exists(p)'
      PROVE  child'[p].token # None <=> child'[p].generation
  BY <1>1, <1>2, <1>5 DEF Launches, Exists
<1> QED
  BY <1>3, <1>4, <1>5

\* OnGenerate(), posted or resumed after the questions to the user.
LEMMA ResultGenerate ==
  ASSUME ResultInv, dlg.alive, Generate,
         \/ deferred /\ ~deferred' /\ UNCHANGED modal
         \/ modal = "generate" /\ modal' = "none" /\ UNCHANGED deferred
  PROVE  Sole' /\ Departed' /\ Held' /\ Dated' /\ Posted' /\ ResultIsOwn'
<1>0. /\ TypeOK /\ Sole /\ Departed /\ Held /\ Dated /\ Posted /\ ResultIsOwn
      /\ token \in Nat /\ \A p \in Procs : child[p].token \in Nat
  BY TokensAreNumbers DEF ResultInv
<1>1. CASE UNCHANGED <<dlg, child, names, token, jobFiles, result>>
  <2>1. Sole' /\ Departed' /\ Held' /\ Dated' /\ ResultIsOwn'
    BY <1>0, <1>1 DEF Sole, Departed, Held, Dated, ResultIsOwn, HasResult, Exists
  <2>2. Posted'
    BY <1>0, <1>1 DEF Posted, Clean
  <2> QED
    BY <2>1, <2>2
<1>2. CASE /\ names' = [job |-> None, result |-> None]
           /\ UNCHANGED <<dlg, child, token, jobFiles, result>>
  <2>1. Sole' /\ Departed' /\ Held' /\ Dated' /\ ResultIsOwn'
    BY <1>0, <1>2 DEF Sole, Departed, Held, Dated, ResultIsOwn, HasResult, Exists
  <2>2. Posted'
    BY <1>0, <1>2 DEF Posted, Clean
  <2> QED
    BY <2>1, <2>2
<1>3. ASSUME NEW t \in {token, token + 1} \cap Tokens, NEW pol \in Choices,
             token' = t,
             StartCommand(TRUE, [job |-> t, result |-> t], jobFiles \cup {t}, pol)
      PROVE  Sole' /\ Departed' /\ Held' /\ Dated' /\ Posted' /\ ResultIsOwn'
  <2> DEFINE n == [job |-> t, result |-> t]
  <2>1. /\ pol \in {"review", "keep"} /\ n \in NamesType
        /\ jobFiles \cup {t} \in SUBSET Tokens
    BY <1>0 DEF Choices, TypeOK, NamesType
  <2>2. /\ t \in Nat /\ t # None /\ token' \in Nat /\ token <= token' /\ t <= token'
        /\ n.result = t /\ n.job = t
    BY <1>0, <1>3, Constants
  <2> HIDE DEF n
  <2>3. \/ dlg.running /\ names' = n /\ UNCHANGED <<dlg, child, result>>
        \/ Launches(TRUE, t) /\ names' = n /\ UNCHANGED result
        \/ ~dlg.running /\ ConsumeFiles(n, jobFiles \cup {t}) /\ UNCHANGED <<dlg, child>>
    BY <1>0, <1>3, <2>1, <2>2, StartEffect DEF n
  <2>4. \A s \in Tokens : result[s] # "none" => s <= token'
    <3>1. ASSUME NEW s \in Tokens, result[s] # "none" PROVE s <= token'
      <4>1. s \in Nat /\ s <= token
        BY <1>0, <3>1, Constants DEF Dated
      <4> QED
        BY <1>0, <2>2, <4>1
    <3> QED
      BY <3>1
  <2>5. result[t] # "none" => t = token
    BY <1>0, <2>2 DEF Dated
  <2>6. CASE dlg.running /\ names' = n /\ UNCHANGED <<dlg, child, result>>
    <3>1. Dated'
      <4>1. \A p \in Procs : child'[p].token <= token'
        BY <1>0, <2>2, <2>6 DEF Dated
      <4> QED
        BY <1>0, <1>3, <2>2, <2>4, <2>6, <4>1 DEF Dated, Exists
    <3>2. ~deferred' \/ modal' # "generate"
      BY <1>0, <2>6 DEF Posted
    <3>3. ~deferred'
      BY <1>0, <2>6 DEF Posted
    <3>4. result[t] = "none" \/ child[dlg.pid].token = t
      BY <1>0, <2>2, <2>5, <2>6 DEF Posted, Clean
    <3>5. Posted' /\ ResultIsOwn'
      BY <1>3, <2>2, <2>6, <3>3, <3>4 DEF Posted, Clean, ResultIsOwn, HasResult
    <3> QED
      BY <1>0, <2>6, <3>1, <3>3, <3>5 DEF Sole, Departed, Held, Exists
  <2>7. CASE Launches(TRUE, t) /\ names' = n /\ UNCHANGED result
    <3>1. /\ Sole' /\ Departed' /\ Held'
          /\ \A p \in Procs : child'[p].token <= token'
          /\ \A p \in Procs :
               Exists(p)' => (child'[p].token # None <=> child'[p].generation)
      BY <1>0, <2>2, <2>7, LaunchKeeps
    <3>2. Dated'
      BY <1>3, <2>2, <2>4, <2>7, <3>1 DEF Dated
    <3>3. Posted' /\ ResultIsOwn'
      BY <1>3, <2>2, <2>7 DEF Posted, ResultIsOwn, Launches
    <3> QED
      BY <3>1, <3>2, <3>3
  <2>8. CASE ~dlg.running /\ ConsumeFiles(n, jobFiles \cup {t}) /\ UNCHANGED <<dlg, child>>
    <3>1. /\ result'[t] = "none"
          /\ names'.result \in {None, t}
          /\ \A s \in Tokens : result'[s] # "none" => result[s] # "none"
      BY <1>0, <2>2, <2>8 DEF ConsumeFiles, HasResult, TypeOK
    <3>2. Dated'
      <4>1. \A p \in Procs : child'[p].token <= token'
        BY <1>0, <2>2, <2>8 DEF Dated
      <4> QED
        BY <1>0, <1>3, <2>2, <2>4, <2>8, <3>1, <4>1 DEF Dated, Exists
    <3>3. Posted' /\ ResultIsOwn'
      BY <1>3, <2>2, <2>8, <3>1 DEF Posted, Clean, ResultIsOwn, HasResult
    <3> QED
      BY <1>0, <2>8, <3>2, <3>3 DEF Sole, Departed, Held, Exists
  <2> QED
    BY <2>3, <2>6, <2>7, <2>8
<1> QED
  BY <1>1, <1>2, <1>3 DEF Generate

LEMMA ResultCheck ==
  ASSUME ResultInv, PressCheck
  PROVE  Sole' /\ Departed' /\ Held' /\ Dated' /\ Posted' /\ ResultIsOwn'
<1>0. /\ TypeOK /\ Sole /\ Departed /\ Held /\ Dated /\ Posted /\ ResultIsOwn
      /\ token \in Nat /\ dlg.alive /\ modal = "none"
      /\ UNCHANGED <<deferred, modal, token>>
  BY Constants DEF ResultInv, TypeOK, None, PressCheck, Clickable
<1>1. names \in NamesType /\ jobFiles \in SUBSET Tokens
  BY <1>0 DEF TypeOK, NamesType
<1>2. StartCommand(FALSE, names, jobFiles, "review")
  BY DEF PressCheck
<1>3. \/ dlg.running /\ names' = names /\ UNCHANGED <<dlg, child, result>>
      \/ Launches(FALSE, None) /\ names' = names /\ UNCHANGED result
      \/ ~dlg.running /\ ConsumeFiles(names, jobFiles) /\ UNCHANGED <<dlg, child>>
  BY <1>0, <1>1, <1>2, StartEffect
<1>4. CASE dlg.running /\ names' = names /\ UNCHANGED <<dlg, child, result>>
  BY <1>0, <1>4 DEF Sole, Departed, Held, Dated, Posted, Clean, ResultIsOwn,
                    HasResult, Exists
<1>5. CASE Launches(FALSE, None) /\ names' = names /\ UNCHANGED result
  <2>1. None \in Nat /\ None <= token /\ token <= token
    BY <1>0 DEF None
  <2>2. /\ Sole' /\ Departed' /\ Held'
        /\ \A p \in Procs : child'[p].token <= token'
        /\ \A p \in Procs :
             Exists(p)' => (child'[p].token # None <=> child'[p].generation)
    BY <1>0, <1>5, <2>1, LaunchKeeps
  <2>3. Dated'
    BY <1>0, <1>5, <2>2 DEF Dated
  <2>4. ~HasResult(names) /\ ~dlg.running
    BY <1>0, <1>5 DEF ResultIsOwn, Launches
  <2>5. Posted' /\ ResultIsOwn'
    BY <1>0, <1>5, <2>4 DEF Posted, Clean, ResultIsOwn, HasResult, Launches
  <2> QED
    BY <2>2, <2>3, <2>5
<1>6. CASE ~dlg.running /\ ConsumeFiles(names, jobFiles) /\ UNCHANGED <<dlg, child>>
  <2>1. ~HasResult(names)
    BY <1>0, <1>6 DEF ResultIsOwn
  <2>2. names'.result = names.result /\ UNCHANGED result
    BY <1>6, <2>1 DEF ConsumeFiles
  <2> QED
    BY <1>0, <1>6, <2>1, <2>2 DEF Sole, Departed, Held, Dated, Posted, Clean,
                                  ResultIsOwn, HasResult, Exists
<1> QED
  BY <1>3, <1>4, <1>5, <1>6

\* FinishCommand() of a helper that is no longer there: its result is read and
\* removed, so that the OnGenerate() it may post finds the latest name clean.
LEMMA ResultFinish ==
  ASSUME ResultInv, dlg.running, NEW code, NEW cancelled, NEW told \in BOOLEAN,
         told \/ ~Exists(dlg.pid),
         FinishCommand(code, cancelled, told, child)
  PROVE  Sole' /\ Departed' /\ Held' /\ Dated' /\ Posted' /\ ResultIsOwn'
<1>0. /\ TypeOK /\ Sole /\ Departed /\ Held /\ Dated /\ Posted /\ ResultIsOwn
      /\ token \in Nat /\ \A p \in Procs : child[p].token \in Nat
  BY TokensAreNumbers DEF ResultInv
<1>1. Ends(dlg.pid, told) /\ dlg.alive
  BY <1>0, FinishEffect DEF Departed
<1>2. ~dlg'.running /\ dlg'.alive /\ UNCHANGED token
  BY <1>1, NoProcessType DEF Ends, FinishCommand
<1>3. \A p \in Procs : ~Exists(p)'
  <2>1. \A p \in Procs : p # dlg.pid => ~Exists(p)
    BY <1>0, <1>1 DEF Sole
  <2>2. \A p \in Procs : p # dlg.pid => ~Exists(p)'
    BY <1>1, <2>1 DEF Ends, OnlyChild, Exists
  <2>3. child'[dlg.pid].state \notin {"live", "zombie"}
    BY <1>1, UnbornFields DEF Ends, Exists
  <2>4. ASSUME NEW p \in Procs PROVE ~Exists(p)'
    BY <2>2, <2>3 DEF Exists
  <2> QED
    BY <2>4
<1>4. /\ names'.result \in {None, names.result}
      /\ ~HasResult(names)'
      /\ \A t \in Tokens : result'[t] # "none" => result[t] # "none" /\ t # names.result
  <2>1. ConsumeFiles(names, jobFiles)
    BY DEF FinishCommand
  <2>2. CASE HasResult(names)
    <3>1. /\ names'.result = None
          /\ result' = [result EXCEPT ![names.result] = "none"]
      BY <2>1, <2>2 DEF ConsumeFiles
    <3> QED
      BY <1>0, <3>1 DEF HasResult, TypeOK
  <2>3. CASE ~HasResult(names)
    <3>1. names'.result = names.result /\ result' = result
      BY <2>1, <2>3 DEF ConsumeFiles
    <3> QED
      BY <1>0, <2>3, <3>1, Constants DEF HasResult, TypeOK
  <2> QED
    BY <2>2, <2>3
<1>5. Dated'
  <2>1. \A p \in Procs : child'[p].token <= token'
    <3>1. \A p \in Procs : child'[p].token \in {child[p].token, None}
      BY <1>1, UnbornFields DEF Ends, OnlyChild
    <3>2. None <= token
      BY <1>0 DEF None
    <3> QED
      BY <1>0, <1>2, <3>1, <3>2 DEF Dated
  <2> QED
    BY <1>0, <1>2, <1>3, <1>4, <2>1 DEF Dated
<1>6. deferred' => Clean'
  <2>1. CASE deferred' /\ ~deferred
    <3>1. HasResult(names)
      BY <2>1 DEF FinishCommand
    <3>2. names.result = token
      BY <1>0, <3>1 DEF Dated, HasResult
    <3> QED
      BY <1>0, <1>2, <1>4, <3>2 DEF Clean, TypeOK
  <2>2. CASE deferred
    <3>1. Clean \/ names.result = token
      BY <1>0, <2>2 DEF Posted, Clean
    <3> QED
      BY <1>0, <1>2, <1>4, <3>1 DEF Clean, TypeOK
  <2> QED
    BY <2>1, <2>2 DEF FinishCommand
<1> QED
  BY <1>2, <1>3, <1>4, <1>5, <1>6 DEF Sole, Departed, Held, Posted, ResultIsOwn

LEMMA ResultKill ==
  ASSUME ResultInv, dlg.running, Exists(dlg.pid), Cancel,
         UNCHANGED modal \/ modal' = "none"
  PROVE  Sole' /\ Departed' /\ Held' /\ Dated' /\ Posted' /\ ResultIsOwn'
<1>0. TypeOK /\ Sole /\ Departed /\ Held /\ Dated /\ Posted /\ ResultIsOwn
  BY DEF ResultInv
<1>1. /\ OnlyChild(dlg.pid) /\ dlg.pid \in Procs
      /\ child'[dlg.pid] = [child[dlg.pid] EXCEPT !.killed = TRUE]
  BY <1>0, KillEffect
<1>2. /\ dlg'.running = dlg.running /\ dlg'.pid = dlg.pid /\ dlg'.alive = dlg.alive
  BY <1>0, KillEffect DEF TypeOK, DialogType
<1>3. \A p \in Procs :
        /\ child'[p].state = child[p].state /\ child'[p].token = child[p].token
        /\ child'[p].generation = child[p].generation
        /\ child'[p].object = child[p].object
  <2>1. child[dlg.pid] \in ChildType
    BY <1>0, <1>1 DEF TypeOK
  <2> QED
    BY <1>1, <2>1 DEF OnlyChild, ChildType
<1>4. UNCHANGED <<names, deferred, token, result>>
  BY DEF Cancel, files
<1>5. Sole' /\ Departed' /\ Held'
  BY <1>0, <1>1, <1>2, <1>3, <1>4 DEF Sole, Departed, Held, Exists
<1>6. Dated'
  BY <1>0, <1>3, <1>4 DEF Dated, Exists
<1>7. Posted' /\ ResultIsOwn'
  BY <1>0, <1>1, <1>2, <1>3, <1>4 DEF Posted, Clean, ResultIsOwn, HasResult
<1> QED
  BY <1>5, <1>6, <1>7

\* A helper ends, or is reaped, or its notification is ignored.
LEMMA ChildrenOnly ==
  ASSUME ResultInv, NEW p \in Procs, OnlyChild(p),
         UNCHANGED <<dlg, names, deferred, modal, token, result>>,
         child'[p].state \in {"zombie", "gone"},
         child'[p].token = child[p].token \/ child'[p].token = None,
         dlg.running /\ dlg.pid = p =>
           /\ child'[p].object = child[p].object
           /\ child'[p].token = child[p].token,
         child'[p].state = "zombie" =>
           /\ Exists(p) /\ child'[p].token = child[p].token
           /\ child'[p].generation = child[p].generation
  PROVE  Sole' /\ Departed' /\ Held' /\ Dated' /\ Posted' /\ ResultIsOwn'
<1>0. /\ TypeOK /\ Sole /\ Departed /\ Held /\ Dated /\ Posted /\ ResultIsOwn
      /\ token \in Nat
  BY TokensAreNumbers DEF ResultInv
<1>1. \A q \in Procs : Exists(q)' => Exists(q)
  BY DEF OnlyChild, Exists
<1>2. Sole' /\ Departed'
  BY <1>0, <1>1 DEF Sole, Departed
<1>3. dlg.running =>
        /\ child'[dlg.pid].object = child[dlg.pid].object
        /\ child'[dlg.pid].token = child[dlg.pid].token
  <2>1. dlg.running => dlg.pid \in Procs
    BY <1>0 DEF TypeOK, DialogType
  <2> QED
    BY <2>1 DEF OnlyChild
<1>4. Dated'
  <2>1. None <= token
    BY <1>0 DEF None
  <2>2. \A q \in Procs : child'[q].token <= token'
    BY <1>0, <2>1 DEF Dated, OnlyChild
  <2>3. \A q \in Procs :
          Exists(q)' => (child'[q].token # None <=> child'[q].generation)
    BY <1>0, <1>1 DEF Dated, OnlyChild, Exists
  <2> QED
    BY <1>0, <2>2, <2>3 DEF Dated
<1>5. Held' /\ Posted' /\ ResultIsOwn'
  BY <1>0, <1>3 DEF Held, Posted, Clean, ResultIsOwn, HasResult
<1> QED
  BY <1>2, <1>4, <1>5

\* The helper writes its result, of which the dialog knows if it knows any.
LEMMA ResultExit ==
  ASSUME ResultInv, NEW p \in Procs, NEW code \in {"ok", "error", "signal"},
         Exit(p, code)
  PROVE  Sole' /\ Departed' /\ Held' /\ Dated' /\ Posted' /\ ResultIsOwn'
<1>0. /\ TypeOK /\ Sole /\ Departed /\ Held /\ Dated /\ Posted /\ ResultIsOwn
      /\ token \in Nat /\ \A q \in Procs : child[q].token \in Nat
  BY TokensAreNumbers DEF ResultInv
<1>1. Stops(p) /\ UNCHANGED <<dlg, names, deferred, modal, token>> /\ Exists(p)
  BY <1>0, StopsEffect DEF Exit, Exists
<1>2. \A t \in Tokens : t # child[p].token => result'[t] = result[t]
  BY <1>0 DEF Exit, TypeOK
<1>3. dlg.alive => dlg.running /\ dlg.pid = p
  BY <1>0, <1>1 DEF Sole
<1>4. \A q \in Procs :
        /\ child'[q].token = child[q].token
        /\ child'[q].generation = child[q].generation
        /\ child'[q].object = child[q].object
        /\ Exists(q)' => Exists(q)
  BY <1>1 DEF Stops, OnlyChild, Exists
<1>5. Sole' /\ Departed'
  BY <1>0, <1>1, <1>4 DEF Sole, Departed
<1>6. dlg.running => dlg.pid = p
  BY <1>0, <1>3 DEF Departed
<1>7. Held'
  BY <1>0, <1>1, <1>4, <1>6 DEF Held
<1>8. Dated'
  <2>1. \A t \in Tokens : result'[t] # "none" => t <= token'
    BY <1>0, <1>1, <1>2 DEF Dated
  <2> QED
    BY <1>0, <1>1, <1>4, <2>1 DEF Dated
<1>9. Posted' /\ ResultIsOwn'
  <2>1. CASE dlg.running
    <3>1. Posted'
      BY <1>0, <1>1, <1>2, <1>4, <1>6, <2>1 DEF Posted, Clean, TypeOK
    <3>2. ResultIsOwn'
      BY <1>0, <1>1, <1>2, <1>4, <1>6, <2>1 DEF ResultIsOwn, HasResult, TypeOK
    <3> QED
      BY <3>1, <3>2
  <2>2. CASE ~dlg.running
    <3>1. names.result = None /\ ~deferred
      BY <1>0, <1>3, <2>2 DEF Departed
    <3> QED
      BY <1>1, <2>2, <3>1 DEF Posted, ResultIsOwn, HasResult
  <2> QED
    BY <2>1, <2>2
<1> QED
  BY <1>5, <1>7, <1>8, <1>9

LEMMA ResultShutdown ==
  ASSUME ResultInv, Shutdown
  PROVE  Sole' /\ Departed' /\ Held' /\ Dated' /\ Posted' /\ ResultIsOwn'
<1>0. TypeOK /\ Dated
  BY DEF ResultInv
<1>1. /\ ~dlg'.alive /\ ~dlg'.running /\ ~deferred' /\ names'.result = None
      /\ UNCHANGED <<token, result>>
  BY DEF Shutdown, NoProcess, files
<1>2. \A p \in Procs :
        /\ child'[p].state = child[p].state /\ child'[p].token = child[p].token
        /\ child'[p].generation = child[p].generation
  <2>1. CASE UNCHANGED child
    BY <2>1
  <2>2. CASE /\ dlg.running /\ dlg.pid \in Procs /\ OnlyChild(dlg.pid)
             /\ child'[dlg.pid] =
                  [child[dlg.pid] EXCEPT
                     !.killed = child[dlg.pid].killed \/ Exists(dlg.pid),
                     !.object = "detached"]
    <3> DEFINE k == child[dlg.pid].killed \/ Exists(dlg.pid)
    <3>1. child[dlg.pid] \in ChildType
      BY <1>0, <2>2 DEF TypeOK
    <3>2. child'[dlg.pid] =
            [child[dlg.pid] EXCEPT !.killed = k, !.object = "detached"]
      BY <2>2
    <3> HIDE DEF k
    <3>3. /\ child'[dlg.pid].state = child[dlg.pid].state
          /\ child'[dlg.pid].token = child[dlg.pid].token
      BY <3>1, <3>2 DEF ChildType
    <3>4. child'[dlg.pid].generation = child[dlg.pid].generation
      BY <3>1, <3>2 DEF ChildType
    <3> QED
      BY <2>2, <3>3, <3>4 DEF OnlyChild
  <2> QED
    BY <1>0, <2>1, <2>2, ShutdownEffect
<1>3. Dated'
  BY <1>0, <1>1, <1>2 DEF Dated, Exists
<1> QED
  BY <1>1, <1>3 DEF Sole, Departed, Held, Posted, ResultIsOwn, HasResult

\* Clicks that touch neither a helper nor a file.
LEMMA ResultClick ==
  ASSUME ResultInv,
         UNCHANGED <<dlg, names, deferred, child, token, result>>,
         UNCHANGED modal \/ modal' = "none" \/ modal' = "close" \/ ~dlg.running
  PROVE  Sole' /\ Departed' /\ Held' /\ Dated' /\ Posted' /\ ResultIsOwn'
<1>1. Sole' /\ Departed' /\ Held' /\ Dated' /\ ResultIsOwn'
  BY DEF ResultInv, Sole, Departed, Held, Dated, ResultIsOwn, HasResult, Exists
<1>2. Posted'
  BY DEF ResultInv, Posted, Clean
<1> QED
  BY <1>1, <1>2

LEMMA ResultCancel ==
  ASSUME ResultInv, dlg.running, Cancel, UNCHANGED modal \/ modal' = "none"
  PROVE  Sole' /\ Departed' /\ Held' /\ Dated' /\ Posted' /\ ResultIsOwn'
<1>1. CASE Exists(dlg.pid)
  BY <1>1, ResultKill
<1>2. CASE ~Exists(dlg.pid)
  BY <1>2, ResultFinish DEF Cancel
<1> QED
  BY <1>1, <1>2

LEMMA ResultNotified ==
  ASSUME ResultInv, NEW p \in Procs, Notified(p)
  PROVE  Sole' /\ Departed' /\ Held' /\ Dated' /\ Posted' /\ ResultIsOwn'
<1>0. TypeOK /\ Held
  BY DEF ResultInv
<1>1. CASE dlg.running /\ dlg.pid = p
  <2>1. FinishCommand(child[p].code, dlg.cancelled, TRUE, child)
    BY <1>0, <1>1 DEF Notified, Held
  <2> QED
    BY <1>1, <2>1, ResultFinish
<1>2. CASE ~(dlg.running /\ dlg.pid = p)
  <2>1. /\ OnlyChild(p) /\ child'[p].state = "gone"
        /\ child'[p].token \in {child[p].token, None}
        /\ UNCHANGED <<dlg, names, deferred, modal, token, result>>
    BY <1>0, <1>2, StaleEffect DEF files
  <2> QED
    BY <1>2, <2>1, ChildrenOnly
<1> QED
  BY <1>1, <1>2

LEMMA ResultInit == Init => ResultInv
<1> SUFFICES ASSUME Init PROVE ResultInv
  OBVIOUS
<1>1. /\ TypeOK /\ token = None /\ names.result = None
      /\ dlg = NoProcess /\ ~deferred
  BY TypeInit DEF Init
<1>2. /\ \A p \in Procs : child[p] = Unborn
      /\ \A t \in Tokens : result[t] = "none"
  BY DEF Init
<1>3. \A p \in Procs : ~Exists(p)
  BY <1>2, UnbornFields DEF Exists
<1>4. Dated
  <2>1. \A p \in Procs : child[p].token <= token
    BY <1>1, <1>2, UnbornFields DEF None
  <2> QED
    BY <1>1, <1>2, <1>3, <2>1 DEF Dated
<1>5. Sole /\ Departed /\ Held
  BY <1>1, <1>3, NoProcessType DEF Sole, Departed, Held
<1> QED
  BY <1>1, <1>4, <1>5, NoProcessType DEF ResultInv, Posted, ResultIsOwn, HasResult

LEMMA ResultStep == ResultInv /\ [Next]_vars => ResultInv'
<1> SUFFICES ASSUME ResultInv, [Next]_vars
             PROVE  Sole' /\ Departed' /\ Held' /\ Dated' /\ Posted' /\ ResultIsOwn'
  BY TypeStep DEF ResultInv
<1>1. CASE UNCHANGED vars \/ PressGenerate \/ EditOutput \/ PressClose
  BY <1>1, ResultClick DEF vars, files, PressGenerate, EditOutput, PressClose
<1>2. CASE ResumeGenerate \/ DeferredGenerate
  BY <1>2, ResultGenerate DEF ResumeGenerate, DeferredGenerate
<1>3. CASE PressCheck
  BY <1>3, ResultCheck
<1>4. CASE OnProcessTimer
  BY <1>4, ResultFinish DEF OnProcessTimer
<1>5. CASE PressCancel
  BY <1>5, ResultCancel DEF PressCancel
<1>6. CASE AnswerClose
  BY <1>6, ResultCancel, ResultClick DEF AnswerClose, files
<1>7. CASE Shutdown
  BY <1>7, ResultShutdown
<1>8. ASSUME NEW p \in Procs, Notified(p)
      PROVE  Sole' /\ Departed' /\ Held' /\ Dated' /\ Posted' /\ ResultIsOwn'
  BY <1>8, ResultNotified
<1>9. ASSUME NEW p \in Procs, HelperExits(p)
      PROVE  Sole' /\ Departed' /\ Held' /\ Dated' /\ Posted' /\ ResultIsOwn'
  BY <1>9, ResultExit DEF HelperExits
<1>10. ASSUME NEW p \in Procs, ReapedElsewhere(p)
       PROVE  Sole' /\ Departed' /\ Held' /\ Dated' /\ Posted' /\ ResultIsOwn'
  <2>1. Stops(p) /\ child'[p].state = "gone"
        /\ UNCHANGED <<dlg, names, deferred, modal, token, result>>
    <3>1. child'[p].state = "gone"
      BY <1>10 DEF ReapedElsewhere, ResultInv, TypeOK, ChildType
    <3> QED
      BY <1>10, <3>1, StopsEffect DEF ReapedElsewhere, ResultInv, files
  <2> QED
    BY <2>1, ChildrenOnly DEF Stops
<1> QED
  BY <1>1, <1>2, <1>3, <1>4, <1>5, <1>6, <1>7, <1>8, <1>9, <1>10 DEF Next

\* A result file that FinishCommand() would read is the one that the job of the
\* helper it is about to finish names, and a helper without a job reads none,
\* although several helpers may share the second that names their files and a
\* refused OnGenerate() has replaced the names.
THEOREM ResultOfTheHelper == Spec => []ResultIsOwn
<1>1. Spec => []ResultInv
  BY ResultInit, ResultStep, PTL DEF Spec
<1>2. ResultInv => ResultIsOwn
  BY DEF ResultInv
<1> QED
  BY <1>1, <1>2, PTL

\* While the dialog exists it tracks the only helper that still runs or waits to
\* be reaped, and the wxProcess of that helper is not released.
THEOREM OneHelperAtATime == Spec => [](Sole /\ Held)
<1>1. Spec => []ResultInv
  BY ResultInit, ResultStep, PTL DEF Spec
<1>2. ResultInv => Sole /\ Held
  BY DEF ResultInv
<1> QED
  BY <1>1, <1>2, PTL
===============================================================================
