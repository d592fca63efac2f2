-------------------------- MODULE GeneratorProcess --------------------------
(***************************************************************************)
(* The helper process of the xGRIB generator dialog:                       *)
(* src/EnvironmentalGribDialog.cpp, from OnGenerate() and StartCommand()    *)
(* to FinishCommand().                                                     *)
(*                                                                         *)
(* The dialog runs one native helper at a time.  It learns of the end of    *)
(* the helper in three ways that race with each other: the process event   *)
(* of wxWidgets, a 100 ms poll that finds the pid gone, and the Cancel      *)
(* button that finds it gone.  A helper that asks for a decision about the  *)
(* forecast time makes the dialog post itself a second OnGenerate()        *)
(* (CallAfter), which runs whenever the event loop gets to it: after a      *)
(* click of the user, or inside the nested loop of a message box.          *)
(*                                                                         *)
(* The helper, the file system and the child watcher of wxWidgets are       *)
(* external: they do what the code in src/ expects or tolerates.           *)
(***************************************************************************)
EXTENDS Naturals, FiniteSets

CONSTANTS
  MaxLaunch,   \* helpers launched in the life of the dialog (bound)
  MaxToken,    \* distinct job names; a name is a second of wall time (bound)
  Paths        \* output paths that the user can name

ASSUME GeneratorAssumption ==
  MaxLaunch \in Nat \ {0} /\ MaxToken \in Nat \ {0} /\ Paths # {}

Procs  == 1..MaxLaunch
Tokens == 1..MaxToken

None == 0      \* no process, no file name, no file, an empty viewer
Old  == MaxLaunch + 1   \* a valid GRIB that was there before

VARIABLES
  dlg,       \* running, pid, generation, cancelled: m_process..., and whether
             \* the dialog still exists
  path,      \* OutputPath(), read from the widgets
  policy,    \* m_timePolicy
  names,     \* the tokens of m_jobPath and m_resultPath
  deferred,  \* an OnGenerate() posted by CallAfter is pending
  modal,     \* the message box that the event loop is nested in
  child,     \* the helpers and their wxProcess objects
  token,     \* the second in which the latest job was named
  jobFiles,  \* job files on disk
  result,    \* result[t]: the contents of result file t
  output,    \* output[p]: who produced the valid GRIB at p
  viewer     \* the GRIB that the dialog opened last, and for which helper

files == <<jobFiles, result, output>>
vars == <<dlg, path, policy, names, deferred, modal, child, token, files, viewer>>

DialogType == [alive : BOOLEAN, running : BOOLEAN, pid : Procs \cup {None},
               generation : BOOLEAN, cancelled : BOOLEAN]
ChildType ==
  [state : {"unborn", "live", "zombie", "gone"},  \* zombie: not yet reaped
   generation : BOOLEAN, token : Tokens \cup {None}, target : Paths,
   policy : {"review", "keep"}, killed : BOOLEAN,
   code : {"none", "ok", "error", "signal"},      \* 0, positive, negative
   object : {"none", "held", "detached", "freed"}, \* its wxProcess
   told : BOOLEAN]                 \* wxWidgets has called OnTerminate

TypeOK ==
  /\ dlg \in DialogType /\ (dlg.running <=> dlg.pid # None)
  /\ path \in Paths
  /\ policy \in {"review", "keep"}
  /\ names \in [job : Tokens \cup {None}, result : Tokens \cup {None}]
  /\ deferred \in BOOLEAN
  /\ modal \in {"none", "generate", "close"}
  /\ child \in [Procs -> ChildType]
  /\ token \in Tokens \cup {None}
  /\ jobFiles \subseteq Tokens
  /\ result \in [Tokens -> {"none", "complete", "error", "preflight"}]
  /\ output \in [Paths -> Procs \cup {None, Old}]
  /\ viewer \in [by : Procs \cup {None}, shows : Procs \cup {None, Old}]

NoProcess == [alive |-> TRUE, running |-> FALSE, pid |-> None,
              generation |-> FALSE, cancelled |-> FALSE]

\* ChildProcessStillExists(): kill(pid, 0) finds a helper until it is reaped.
Exists(p) == child[p].state \in {"live", "zombie"}

\* The clicks that the event loop can deliver: none while a box is up.
Clickable == dlg.alive /\ modal = "none"

Unborn == [state |-> "unborn", generation |-> FALSE, token |-> None,
           target |-> CHOOSE q \in Paths : TRUE, policy |-> "review",
           killed |-> FALSE, code |-> "none", object |-> "none", told |-> FALSE]

\* Nothing is remembered of a helper whose notification was handled.
Finished == [Unborn EXCEPT !.state = "gone", !.object = "freed", !.told = TRUE]

Init ==
  /\ dlg = NoProcess
  /\ path \in Paths
  /\ policy = "review"
  /\ names = [job |-> None, result |-> None]
  /\ deferred = FALSE /\ modal = "none"
  /\ child = [p \in Procs |-> Unborn]
  /\ token = None
  /\ jobFiles = {}
  /\ result = [t \in Tokens |-> "none"]
  /\ output \in [Paths -> {None, Old}]
  /\ viewer = [by |-> None, shows |-> None]

-----------------------------------------------------------------------------
(* FinishCommand(exit_code, launched, completion_notified).                *)

\* The result named by m_resultPath exists.
HasResult(n) == n.result # None /\ result[n.result] # "none"

\* Fault: the result file is not removed once it is read.
ConsumeFilesKeeping(n, jobs) ==
  /\ names' = [n EXCEPT !.job = None]
  /\ jobFiles' = jobs \ {n.job}
  /\ UNCHANGED result

\* The result is read, removed and forgotten; the job is removed and
\* forgotten.  A result name that no file answers to is kept.
ConsumeFiles(n, jobs) ==
  /\ names' = [job |-> None, result |-> IF HasResult(n) THEN None ELSE n.result]
  /\ jobFiles' = jobs \ {n.job}
  /\ result' = IF HasResult(n) THEN [result EXCEPT ![n.result] = "none"] ELSE result

\* Fault: any exit status counts if a valid output file is present.
SucceededAnyCode(code) ==
  dlg.generation /\ (code = "ok" \/ output[path] # None)

\* generationSucceeded.  The code is the one that FinishCommand() was given.
Succeeded(code) ==
  dlg.generation /\ (code = "ok" \/ (code = "signal" /\ output[path] # None))

\* Fault: the wxProcess is always deleted.
ReleaseDeleting(p, told, children) ==
  child' = [children EXCEPT ![p].object = "freed", ![p].told = told]

\* The wxProcess is deleted by its own notification, otherwise detached: a
\* detached object deletes itself when wxWidgets notifies it.
Release(p, told, children) ==
  child' = [children EXCEPT ![p] = IF told THEN Finished
                                   ELSE [@ EXCEPT !.object = "detached"]]

\* The whole of FinishCommand() for the launched helper dlg.pid.
FinishCommand(code, cancelled, told, children) ==
  LET asks == HasResult(names) /\ result[names.result] = "preflight" IN
  /\ Release(dlg.pid, told, children)
  /\ dlg' = NoProcess
  /\ ConsumeFiles(names, jobFiles)
  /\ IF Succeeded(code)
     THEN /\ \/ UNCHANGED viewer        \* m_openAfter is off
             \/ /\ output[path] # None
                /\ viewer' = [by |-> dlg.pid, shows |-> output[path]]
          /\ UNCHANGED <<policy, deferred>>
     ELSE /\ UNCHANGED viewer
          /\ \/ UNCHANGED <<policy, deferred>>
             \/ /\ ~cancelled /\ dlg.generation /\ code # "ok" /\ asks
                /\ deferred' = TRUE     \* ChooseTimeOptions() and CallAfter()
                /\ policy' \in {"review", "keep"}
  /\ UNCHANGED <<path, token, output>>

-----------------------------------------------------------------------------
(* StartCommand() and OnGenerate().                                        *)

Unused == {p \in Procs : child[p].state = "unborn"}
NextProc == CHOOSE p \in Unused : \A q \in Unused : p <= q

\* Fault: StartCommand() does not look at m_processRunning.
StartUnguarded(generation, n, jobs, pol) ==
  /\ Unused # {}
  /\ dlg' = [NoProcess EXCEPT !.running = TRUE, !.pid = NextProc,
                              !.generation = generation]
  /\ child' = [child EXCEPT ![NextProc] =
       [@ EXCEPT !.state = "live", !.generation = generation,
                 !.token = n.job, !.target = path, !.policy = pol,
                 !.object = "held"]]
  /\ names' = n /\ jobFiles' = jobs /\ UNCHANGED result

\* StartCommand(): refused while a helper runs; a helper that cannot be
\* launched goes straight to FinishCommand(-1, false).
StartCommand(generation, n, jobs, pol) ==
  \/ /\ dlg.running
     /\ names' = n /\ jobFiles' = jobs /\ UNCHANGED <<dlg, child, result>>
  \/ /\ ~dlg.running /\ Unused # {}
     /\ dlg' = [NoProcess EXCEPT !.running = TRUE, !.pid = NextProc,
                                 !.generation = generation]
     /\ child' = [child EXCEPT ![NextProc] =
          [@ EXCEPT !.state = "live", !.generation = generation,
                    !.token = IF generation THEN n.job ELSE None,
                    !.target = path, !.policy = pol, !.object = "held"]]
     /\ names' = n /\ jobFiles' = jobs /\ UNCHANGED result
  \/ /\ ~dlg.running
     /\ ConsumeFiles(n, jobs)
     /\ UNCHANGED <<dlg, child>>

\* The time policies that the job can carry: the one at hand, or the answer to
\* a question about an issue that the estimate has already found.
Choices == {policy, "review", "keep"}

\* OnGenerate() once its questions are answered: it returns early, or it
\* cannot write the job, or BuildGenerateCommand() names and writes the job
\* and the helper is started.  Consent to a time policy ends here.
Generate ==
  /\ policy' = "review"
  /\ \/ UNCHANGED <<dlg, child, names, token, jobFiles, result>>
     \/ /\ names' = [job |-> None, result |-> None]
        /\ UNCHANGED <<dlg, child, token, jobFiles, result>>
     \/ \E t \in {token, token + 1} \cap Tokens, pol \in Choices :
          /\ token' = t
          /\ StartCommand(TRUE, [job |-> t, result |-> t], jobFiles \cup {t}, pol)
  /\ UNCHANGED <<path, output, viewer>>

\* The Generate button, which SetBusy() disables while a helper runs.  The
\* rest of the handler may have to wait for the user in a message box.
PressGenerate ==
  /\ Clickable /\ ~dlg.running
  /\ modal' = "generate"
  /\ UNCHANGED <<dlg, path, policy, names, deferred, child, token, files, viewer>>

ResumeGenerate ==
  /\ dlg.alive /\ modal = "generate"
  /\ Generate
  /\ modal' = "none"
  /\ UNCHANGED deferred

\* The OnGenerate() posted by CallAfter(), wherever the event loop is.
DeferredGenerate ==
  /\ dlg.alive /\ deferred
  /\ deferred' = FALSE
  /\ Generate
  /\ UNCHANGED modal

\* OnCheckDependencies() and OnPrepareTpxoCache(): a helper without a job.
PressCheck ==
  /\ Clickable
  /\ StartCommand(FALSE, names, jobFiles, "review")
  /\ UNCHANGED <<path, policy, deferred, modal, token, output, viewer>>

\* The user names another output file, also while a helper runs.
EditOutput ==
  /\ Clickable
  /\ path' \in Paths \ {path}
  /\ UNCHANGED <<dlg, policy, names, deferred, modal, child, token, files, viewer>>

-----------------------------------------------------------------------------
(* The end of a helper.                                                    *)

\* OnProcessTerminated(), called by wxWidgets when it has reaped the helper.
\* An event that is not about the running helper is ignored as stale.  An
\* object that was detached deletes itself and tells nobody.
Notified(p) ==
  /\ child[p].state \in {"zombie", "gone"} /\ ~child[p].told
  /\ \/ /\ child[p].object = "held" /\ dlg.running /\ dlg.pid = p
        /\ FinishCommand(child[p].code, dlg.cancelled, TRUE, child)
     \/ /\ child[p].object = "held" /\ ~(dlg.running /\ dlg.pid = p)
        /\ child' = [child EXCEPT ![p].state = "gone", ![p].told = TRUE]
        /\ UNCHANGED <<dlg, path, policy, names, deferred, token, files, viewer>>
     \/ /\ child[p].object = "detached"
        /\ child' = [child EXCEPT ![p] = Finished]
        /\ UNCHANGED <<dlg, path, policy, names, deferred, token, files, viewer>>
  /\ UNCHANGED modal

\* Fault: the poll leaves a cancelled helper to its process event.
PollUnlessCancelled ==
  /\ dlg.running /\ ~dlg.cancelled /\ ~Exists(dlg.pid)
  /\ FinishCommand("signal", dlg.cancelled, FALSE, child)
  /\ UNCHANGED modal

\* OnProcessTimer(): the helper is gone and nobody said so.
OnProcessTimer ==
  /\ dlg.running /\ ~Exists(dlg.pid)
  /\ FinishCommand("signal", dlg.cancelled, FALSE, child)
  /\ UNCHANGED modal

\* OnCancel() while a helper runs: it is told to stop, or found to be gone.
Cancel ==
  IF Exists(dlg.pid)
  THEN /\ dlg' = [dlg EXCEPT !.cancelled = TRUE]
       /\ child' = [child EXCEPT ![dlg.pid].killed = TRUE]
       /\ UNCHANGED <<path, policy, names, deferred, token, files, viewer>>
  ELSE FinishCommand("signal", dlg.cancelled, FALSE, child)

PressCancel ==
  /\ Clickable /\ dlg.running
  /\ Cancel
  /\ UNCHANGED modal

\* OnClose() while a helper runs asks first, in a nested event loop.
PressClose ==
  /\ Clickable /\ dlg.running
  /\ modal' = "close"
  /\ UNCHANGED <<dlg, path, policy, names, deferred, child, token, files, viewer>>

\* The answer cancels whatever helper is running by then.
AnswerClose ==
  /\ dlg.alive /\ modal = "close"
  /\ modal' = "none"
  /\ \/ UNCHANGED <<dlg, path, policy, names, deferred, child, token, files, viewer>>
     \/ dlg.running /\ Cancel

\* Fault: m_processPid is not cleared.
ShutdownKeepingPid ==
  /\ Clickable
  /\ dlg' = [dlg EXCEPT !.alive = FALSE, !.running = FALSE]
  /\ child' = IF ~dlg.running THEN child
              ELSE [child EXCEPT ![dlg.pid].object = "detached"]
  /\ deferred' = FALSE /\ policy' = "review"
  /\ names' = [job |-> None, result |-> None]
  /\ UNCHANGED <<path, modal, token, files, viewer>>

\* PrepareForParentShutdown() and the destructor: the members are gone and
\* pending calls are dropped.
Shutdown ==
  /\ Clickable
  /\ dlg' = [NoProcess EXCEPT !.alive = FALSE]
  /\ child' = IF ~dlg.running THEN child
              ELSE [child EXCEPT ![dlg.pid].killed = @ \/ Exists(dlg.pid),
                                 ![dlg.pid].object = "detached"]
  /\ deferred' = FALSE /\ policy' = "review"
  /\ names' = [job |-> None, result |-> None]
  /\ UNCHANGED <<path, modal, token, files, viewer>>

-----------------------------------------------------------------------------
(* The helper itself and the operating system (external).                  *)

\* A helper ends: with a complete output, with an error, or by a signal.
Exit(p, code) ==
  /\ child[p].state = "live"
  /\ code = "signal" \/ ~child[p].killed \/ code = "ok"
  /\ child' = [child EXCEPT ![p].state = "zombie", ![p].code = code]
  /\ IF ~child[p].generation
     THEN UNCHANGED <<result, output>>
     ELSE \/ /\ code = "ok"
             /\ output' = [output EXCEPT ![child[p].target] = p]
             /\ result' = [result EXCEPT ![child[p].token] = "complete"]
          \/ /\ code = "error"
             /\ UNCHANGED output
             /\ \E r \in {"none", "error"} \cup
                  (IF child[p].policy = "review" THEN {"preflight"} ELSE {}) :
                  result' = [result EXCEPT ![child[p].token] = r]
          \/ /\ code = "signal"
             /\ output' \in {output, [output EXCEPT ![child[p].target] = p]}
             /\ UNCHANGED result
  /\ UNCHANGED <<dlg, path, policy, names, deferred, modal, token, jobFiles, viewer>>

HelperExits(p) == \E code \in {"ok", "error", "signal"} : Exit(p, code)

\* Another child watcher of the application reaps the helper first.
ReapedElsewhere(p) ==
  /\ child[p].state = "zombie"
  /\ child' = [child EXCEPT ![p].state = "gone"]
  /\ UNCHANGED <<dlg, path, policy, names, deferred, modal, token, files, viewer>>

-----------------------------------------------------------------------------
Next ==
  \/ PressGenerate \/ ResumeGenerate \/ DeferredGenerate \/ PressCheck
  \/ EditOutput \/ OnProcessTimer \/ PressCancel \/ PressClose \/ AnswerClose
  \/ Shutdown
  \/ \E p \in Procs : Notified(p) \/ HelperExits(p) \/ ReapedElsewhere(p)

Spec == Init /\ [][Next]_vars

(***************************************************************************)
(* Fairness.  The 100 ms timer of StartCommand() keeps firing.  A helper    *)
(* that ends is reaped, by wxWidgets or by another child watcher, and one   *)
(* that was told to stop does end.  A notification is not promised once     *)
(* somebody else reaped the helper, nor is any action of the user.          *)
(***************************************************************************)
Reaped(p) ==
  child[p].state = "zombie" /\ (Notified(p) \/ ReapedElsewhere(p))
Dies(p) == child[p].killed /\ HelperExits(p)

Fairness ==
  /\ WF_vars(OnProcessTimer)
  /\ \A p \in Procs : WF_vars(Reaped(p)) /\ WF_vars(Dies(p))

FairSpec == Spec /\ Fairness

-----------------------------------------------------------------------------
(* Properties.                                                             *)

\* A helper that still runs is the one that the dialog tracks, or it has been
\* told to stop: no click, deferred call or unloading of the plugin leaves a
\* helper behind ("Unloading xGRIB stops an active child process").
HelperUnderControl ==
  \A p \in Procs : child[p].state = "live" =>
    (dlg.running /\ dlg.pid = p) \/ child[p].killed

\* wxWidgets will still call OnTerminate of every helper it was not told has
\* ended, so that wxProcess has not been deleted, whichever of event, poll
\* and Cancel button came first.
SafeToNotify ==
  \A p \in Procs :
    child[p].state # "unborn" /\ ~child[p].told => child[p].object # "freed"

\* A result file that FinishCommand() would read is the one that the job of the
\* helper it is about to finish names, and a helper without a job finds none:
\* although a job is named for a second only, and the names may have been
\* replaced by an OnGenerate() that was refused.
ResultIsOwn ==
  HasResult(names) =>
    dlg.running /\ child[dlg.pid].token = names.result

\* A helper whose failure is reported by its process event does not replace
\* the open GRIB, even if an older output file is there and valid.
FailureKeepsViewer ==
  [][\A p \in Procs :
       ~child[p].told /\ child'[p].told /\ child[p].code = "error" =>
         UNCHANGED viewer]_vars

\* The end of a helper is noticed, also when no process event ever comes.
EndIsNoticed ==
  (dlg.running /\ ~Exists(dlg.pid)) ~> ~dlg.running

\* What the dialog opens was produced by the helper that it reports on
\* ("Dependency, provider, validation and output errors stay visible in the
\* dialog and do not replace a currently open GRIB", docs/architecture.md).
OpensOwnOutput == viewer.by # None => viewer.shows = viewer.by

=============================================================================
