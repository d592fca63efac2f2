----------------------------- MODULE HostedJobs -----------------------------
(***************************************************************************)
(* The regional crop jobs of the hosted GRIB service: class App of         *)
(* hosted-service/service.py, submit() on the request threads and work()   *)
(* on the threads of the pool.                                             *)
(*                                                                         *)
(* A job is followed by its program point pc[i], which stands for the      *)
(* request thread until the job is handed to the pool and for the pool's   *)
(* thread afterwards.  What a crop does to the cache is HostedCache; here  *)
(* make_result() reports progress and then returns or raises.              *)
(*                                                                         *)
(* App.lock covers one action each time: the whole look-up and entry in    *)
(* submit(), every update(), and the removal from "active".  Handing over  *)
(* to the pool and giving back the slot happen outside it.                 *)
(***************************************************************************)
EXTENDS Integers, FiniteSets, Sequences

CONSTANTS
  Keys,         \* (result_id, owner) pairs
  NumWorkers,   \* threads of the pool
  SlotLimit,    \* BoundedSemaphore(8): admitted jobs
  RecordLimit,  \* 1024: retained status records
  Full,         \* the progress value that stands for 100
  MaxJob        \* jobs are numbered in the order of submission (bound)

ASSUME JobsAssumption ==
  /\ Keys # {}
  /\ NumWorkers \in Nat \ {0}
  /\ SlotLimit \in Nat
  /\ RecordLimit \in Nat
  /\ Full \in Nat
  /\ MaxJob \in Nat

Ids   == 1..MaxJob
NoJob == 0

VARIABLES
  pc,      \* pc[i]: how far job i has come
  key,     \* key[i]: result_id and owner of job i; arbitrary while it is new
  record,  \* jobs[i]: the status record a client polls
  active,  \* active[k]: the job that answers for k, or NoJob
  slots,   \* the value of the semaphore
  queue,   \* jobs handed to the pool and not yet taken
  reply    \* what the latest POST was answered

vars == <<pc, key, record, active, slots, queue, reply>>

Point == {"new", "handoff", "queued", "taken", "making", "ended", "popped",
          "done"}
Waiting  == {"handoff", "queued", "taken", "making"}  \* no outcome yet
Live     == Waiting \cup {"ended"}                    \* entered in active
Holding  == Live \cup {"popped"}                      \* holds a slot
Occupied == {"taken", "making", "ended", "popped"}    \* has a pool thread

Final   == {"complete", "failed"}
Absent  == [state |-> "absent", progress |-> 0, age |-> "young"]
Records == [state : {"absent", "queued", "running"} \cup Final,
            progress : 0..Full, age : {"young", "old"}]

TypeOK ==
  /\ pc \in [Ids -> Point]
  /\ key \in [Ids -> Keys]
  /\ record \in [Ids -> Records]
  /\ active \in [Keys -> Ids \cup {NoJob}]
  /\ slots \in 0..SlotLimit
  /\ queue \in Seq(Ids)
  /\ reply \in {"none", "job", "busy", "dropped"}

Kept == {i \in Ids : record[i].state # "absent"}

Init ==
  /\ pc = [i \in Ids |-> "new"]
  /\ key = [i \in Ids |-> CHOOSE k \in Keys : TRUE]
  /\ record = [i \in Ids |-> Absent]
  /\ active = [k \in Keys |-> NoJob]
  /\ slots = SlotLimit
  /\ queue = <<>>
  /\ reply = "none"

-----------------------------------------------------------------------------
(* submit(), on a request thread                                           *)

\* Fault: any record of an hour ago is dropped, finished or not.
ExpireUnfinished ==
  [i \in Ids |-> IF record[i].age = "old" THEN Absent ELSE record[i]]

\* Finished records are dropped an hour after their SUBMISSION.
Expire ==
  [i \in Ids |-> IF record[i].state \in Final /\ record[i].age = "old"
                 THEN Absent ELSE record[i]]

\* There is room for another record and a slot is free.
Room ==
  /\ Cardinality({i \in Ids : Expire[i].state # "absent"}) < RecordLimit
  /\ slots > 0

\* The identical request of the same owner is still active: its job is
\* returned, if jobs still has it.  Else self.jobs[existing] raises KeyError
\* and the connection is closed without an answer.
Reuse(k) ==
  /\ active[k] # NoJob
  /\ reply' = IF record[active[k]].state = "absent" THEN "dropped" ELSE "job"
  /\ UNCHANGED <<pc, key, record, active, slots, queue>>

Refuse(k) ==
  /\ active[k] = NoJob
  /\ ~Room
  /\ record' = Expire
  /\ reply' = "busy"
  /\ UNCHANGED <<pc, key, active, slots, queue>>

\* Fault: the request is entered without looking for an active one.
AdmitAgain(i, k) ==
  /\ Room
  /\ pc[i] = "new" /\ \A j \in Ids : j < i => pc[j] # "new"
  /\ key' = [key EXCEPT ![i] = k]
  /\ record' = [Expire EXCEPT ![i] = [Absent EXCEPT !.state = "queued"]]
  /\ active' = [active EXCEPT ![k] = i]
  /\ slots' = slots - 1
  /\ pc' = [pc EXCEPT ![i] = "handoff"]
  /\ UNCHANGED <<queue, reply>>

\* A slot is taken and the job entered under a fresh identity.
Admit(i, k) ==
  /\ active[k] = NoJob
  /\ Room
  /\ pc[i] = "new" /\ \A j \in Ids : j < i => pc[j] # "new"
  /\ key' = [key EXCEPT ![i] = k]
  /\ record' = [Expire EXCEPT ![i] = [Absent EXCEPT !.state = "queued"]]
  /\ active' = [active EXCEPT ![k] = i]
  /\ slots' = slots - 1
  /\ pc' = [pc EXCEPT ![i] = "handoff"]
  /\ UNCHANGED <<queue, reply>>

\* pool.submit(), after App.lock was released, and the answer 202.
HandOff(i) ==
  /\ pc[i] = "handoff"
  /\ queue' = Append(queue, i)
  /\ pc' = [pc EXCEPT ![i] = "queued"]
  /\ reply' = "job"
  /\ UNCHANGED <<key, record, active, slots>>

-----------------------------------------------------------------------------
(* work(), on a thread of the pool                                         *)

\* Fault: the job stays in the queue, so that another thread takes it too.
TakeAndKeep ==
  /\ queue # <<>>
  /\ Cardinality({i \in Ids : pc[i] \in Occupied}) < NumWorkers
  /\ pc' = [pc EXCEPT ![Head(queue)] = "taken"]
  /\ UNCHANGED <<key, record, active, slots, queue, reply>>

\* An idle thread takes the job that has waited longest.
Take ==
  /\ queue # <<>>
  /\ Cardinality({i \in Ids : pc[i] \in Occupied}) < NumWorkers
  /\ pc' = [pc EXCEPT ![Head(queue)] = "taken"]
  /\ queue' = Tail(queue)
  /\ UNCHANGED <<key, record, active, slots, reply>>

\* Fault: work() waits for a slot of its own, beside the one it has.
StartWithSecondSlot(i) ==
  /\ pc[i] = "taken"
  /\ slots > 0
  /\ record' = [record EXCEPT ![i].state = "running"]
  /\ pc' = [pc EXCEPT ![i] = "making"]
  /\ UNCHANGED <<key, active, slots, queue, reply>>

Start(i) ==
  /\ pc[i] = "taken"
  /\ record' = [record EXCEPT ![i].state = "running"]
  /\ pc' = [pc EXCEPT ![i] = "making"]
  /\ UNCHANGED <<key, active, slots, queue, reply>>

\* make_result() calls progress() after each piece but the results it finds
\* in the cache; the last piece reports 100 and may still be refused.
Progress(i) ==
  /\ pc[i] = "making"
  /\ \E p \in record[i].progress + 1 .. Full :
       record' = [record EXCEPT ![i].progress = p]
  /\ UNCHANGED <<pc, key, active, slots, queue, reply>>

\* make_result() has returned, or raised whatever Exception.
End(i, state) ==
  /\ pc[i] = "making"
  /\ record' = [record EXCEPT ![i].state = state,
                  ![i].progress = IF state = "complete" THEN Full ELSE @]
  /\ pc' = [pc EXCEPT ![i] = "ended"]
  /\ UNCHANGED <<key, active, slots, queue, reply>>

\* active.pop() of the finally clause.
Deactivate(i) ==
  /\ pc[i] = "ended"
  /\ active' = [active EXCEPT ![key[i]] = NoJob]
  /\ pc' = [pc EXCEPT ![i] = "popped"]
  /\ UNCHANGED <<key, record, slots, queue, reply>>

\* Fault: only a job that succeeded gives its slot back.
ReleaseIfComplete(i) ==
  /\ pc[i] = "popped"
  /\ slots' = slots + (IF record[i].state = "failed" THEN 0 ELSE 1)
  /\ pc' = [pc EXCEPT ![i] = "done"]
  /\ UNCHANGED <<key, record, active, queue, reply>>

\* slots.release(); the sweep of the results that follows is HostedCache's.
Release(i) ==
  /\ pc[i] = "popped"
  /\ slots' = slots + 1
  /\ pc' = [pc EXCEPT ![i] = "done"]
  /\ UNCHANGED <<key, record, active, queue, reply>>

-----------------------------------------------------------------------------
\* An hour passes after the submission of i, and of every job before it.
Age(i) ==
  /\ i \in Kept
  /\ record[i].age = "young"
  /\ \A j \in Kept : j < i => record[j].age = "old"
  /\ record' = [record EXCEPT ![i].age = "old"]
  /\ UNCHANGED <<pc, key, active, slots, queue, reply>>

\* The API process dies and is started again: App keeps nothing on disk.
Restart ==
  /\ pc' = [i \in Ids |-> IF pc[i] = "new" THEN "new" ELSE "done"]
  /\ record' = [i \in Ids |-> Absent]
  /\ active' = [k \in Keys |-> NoJob]
  /\ slots' = SlotLimit
  /\ queue' = <<>>
  /\ reply' = "none"
  /\ UNCHANGED key

Submit(k) == Reuse(k) \/ Refuse(k) \/ \E i \in Ids : Admit(i, k)

WorkStep(i) ==
  \/ HandOff(i) \/ Start(i) \/ Progress(i) \/ Deactivate(i) \/ Release(i)
  \/ \E state \in Final : End(i, state)

Next ==
  \/ \E k \in Keys : Submit(k)
  \/ Take
  \/ \E i \in Ids : WorkStep(i) \/ Age(i)
  \/ Restart

Spec == Init /\ [][Next]_vars

\* Threads run, and make_result() ends: its subprocesses have timeouts and its
\* locks are given back (HostedCache, JobsEnd).  Nobody need ever POST again,
\* and time need not pass.
FairSpec ==
  /\ Spec
  /\ WF_vars(Take)
  /\ \A i \in Ids : WF_vars(HandOff(i) \/ Start(i) \/ Deactivate(i)
                            \/ Release(i) \/ \E state \in Final : End(i, state))

-----------------------------------------------------------------------------
(* Properties                                                              *)

\* active names exactly the jobs between submit() and the end of work(), each
\* under its own request and owner.  Hence a client never has two crops of one
\* request in the pool, and no finished job keeps answering for a request.
ActiveExact ==
  /\ \A i \in Ids : pc[i] \in Live <=> active[key[i]] = i
  /\ \A k \in Keys : active[k] # NoJob => key[active[k]] = k

\* Every slot is free or held by one job, on every way out of submit() and of
\* work(): no failure leaks one, none is given back twice.
SlotsConserved ==
  slots + Cardinality({i \in Ids : pc[i] \in Holding}) = SlotLimit

\* A job in the pool's hands has its place in the queue or a thread, not both,
\* and only one place.
QueuedOnce ==
  \A i \in Ids :
    Cardinality({n \in DOMAIN queue : queue[n] = i})
      = IF pc[i] = "queued" THEN 1 ELSE 0

\* The purge in submit() never takes the record of a job without an outcome:
\* work() would die of it at its next update().
WorkHasRecord ==
  \A i \in Ids : pc[i] \in Waiting =>
                   record[i].state = IF pc[i] = "making" THEN "running"
                                     ELSE "queued"

\* Status records do not pile up beyond their limit.
RecordsBounded == Cardinality(Kept) <= RecordLimit

Rank == [absent |-> 0, queued |-> 1, running |-> 2, complete |-> 3, failed |-> 3]

\* What a polling client sees only moves forward until the record expires: a
\* state is never taken back, an outcome never changes, progress never drops.
StatusForward ==
  [][\A i \in Ids :
       LET old == record[i]
           new == record'[i]
       IN  \/ old.state = "absent"
           \/ new.state = "absent" /\ (old.state \in Final \/ Restart)
           \/ /\ Rank[old.state] <= Rank[new.state]
              /\ old.state \in Final => new.state = old.state
              /\ old.progress <= new.progress]_vars

\* Every job admitted is worked off and its slot comes back.
JobsWorkedOff == \A i \in Ids : pc[i] = "handoff" ~> pc[i] = "done"

\* hosted-service/README.md:71 promises that active identical requests from
\* one client reuse the same job.  They never go unanswered.
ActiveIsReused == reply # "dropped"
=============================================================================
