-------------------------- MODULE HostedJobsProofs --------------------------
(***************************************************************************)
(* Proofs about HostedJobs for any number of jobs, clients, slots and      *)
(* threads.  JobsInv is the inductive invariant: the properties of the     *)
(* runs lean on each other, and on where the queued jobs are.              *)
(***************************************************************************)
EXTENDS HostedJobs, FiniteSetTheorems, TLAPS

Held == {i \in Ids : pc[i] \in Holding}

\* The queue holds the queued jobs, each at one place.
QueueExact ==
  /\ \A n \in DOMAIN queue : pc[queue[n]] = "queued"
  /\ \A m, n \in DOMAIN queue : queue[m] = queue[n] => m = n
  /\ \A i \in Ids : pc[i] = "queued" => \E n \in DOMAIN queue : queue[n] = i

NewIsAbsent == \A i \in Ids : pc[i] = "new" => record[i] = Absent

JobsInv ==
  /\ TypeOK
  /\ QueueExact
  /\ ActiveExact
  /\ SlotsConserved
  /\ NewIsAbsent
  /\ WorkHasRecord
  /\ RecordsBounded

-----------------------------------------------------------------------------
(* Lemmas about the operators of the specification.                        *)

\* The purge leaves a record alone or takes it whole, and only a finished one.
LEMMA ExpireEffect ==
  ASSUME TypeOK
  PROVE  /\ Expire \in [Ids -> Records]
         /\ \A i \in Ids : \/ Expire[i] = record[i]
                           \/ record[i].state \in Final /\ Expire[i] = Absent
<1>1. Absent \in Records
  BY JobsAssumption DEF Absent, Records
<1>2. Expire \in [Ids -> Records]
  BY <1>1 DEF Expire, TypeOK
<1>3. ASSUME NEW i \in Ids
      PROVE  \/ Expire[i] = record[i]
             \/ record[i].state \in Final /\ Expire[i] = Absent
  BY DEF Expire
<1> QED
  BY <1>2, <1>3

\* Sets of jobs are finite, so they can be counted.
LEMMA JobsFinite ==
  ASSUME NEW S \in SUBSET Ids
  PROVE  /\ IsFiniteSet(S) /\ Cardinality(S) \in Nat
         /\ \A i \in Ids \ S : Cardinality(S \cup {i}) = Cardinality(S) + 1
         /\ \A i \in S : Cardinality(S \ {i}) = Cardinality(S) - 1
<1>1. IsFiniteSet(Ids)
  BY JobsAssumption, FS_Interval DEF Ids
<1>2. IsFiniteSet(S)
  BY <1>1, FS_Subset
<1> QED
  BY <1>2, FS_CardinalityType, FS_AddElement, FS_RemoveElement

\* What submit() puts into the records.
LEMMA EntryType ==
  /\ Absent \in Records /\ Absent.state = "absent"
  /\ [Absent EXCEPT !.state = "queued"] \in Records
  /\ [Absent EXCEPT !.state = "queued"].state = "queued"
  /\ [Absent EXCEPT !.state = "queued"].progress = 0
BY JobsAssumption DEF Absent, Records

\* The job taken from the queue is queued, and what is left of the queue.
LEMMA TakeEffect ==
  ASSUME TypeOK, QueueExact, Take
  PROVE  /\ Head(queue) \in Ids
         /\ pc[Head(queue)] = "queued"
         /\ queue' \in Seq(Ids)
         /\ Len(queue) > 0 /\ Head(queue) = queue[1]
         /\ DOMAIN queue' = 1..(Len(queue) - 1)
         /\ \A n \in DOMAIN queue' : queue'[n] = queue[n + 1]
<1>1. queue \in Seq(Ids) /\ queue # <<>>
  BY DEF TypeOK, Take
<1>2. /\ Len(queue) > 0 /\ 1 \in DOMAIN queue /\ Head(queue) = queue[1]
      /\ Head(queue) \in Ids
  BY <1>1
<1>3. pc[Head(queue)] = "queued"
  BY <1>2 DEF QueueExact
<1>4. /\ queue' = Tail(queue) /\ queue' \in Seq(Ids)
      /\ DOMAIN queue' = 1..(Len(queue) - 1)
      /\ \A n \in DOMAIN queue' : queue'[n] = queue[n + 1]
  BY <1>1, <1>2 DEF Take
<1> QED
  BY <1>2, <1>3, <1>4

-----------------------------------------------------------------------------
(* The initial state.                                                      *)

LEMMA JobsInit == Init => JobsInv
<1> SUFFICES ASSUME Init PROVE JobsInv
  OBVIOUS
<1>1. TypeOK
  <2>1. (CHOOSE k \in Keys : TRUE) \in Keys
    BY JobsAssumption
  <2>2. key \in [Ids -> Keys]
    BY <2>1, Zenon DEF Init
  <2>3. record \in [Ids -> Records]
    BY EntryType, Zenon DEF Init
  <2>4. /\ pc \in [Ids -> Point] /\ active \in [Keys -> Ids \cup {NoJob}]
        /\ slots \in 0..SlotLimit
    BY JobsAssumption DEF Init, Point, NoJob
  <2>5. queue \in Seq(Ids)
    BY DEF Init
  <2>6. reply \in {"none", "job", "busy", "dropped"}
    BY DEF Init
  <2> QED
    BY <2>2, <2>3, <2>4, <2>5, <2>6 DEF TypeOK
<1>2. QueueExact
  BY DEF Init, QueueExact
<1>3. ActiveExact
  BY <1>1 DEF TypeOK, Init, ActiveExact, NoJob, Ids, Live, Waiting
<1>4. SlotsConserved
  <2>1. {i \in Ids : pc[i] \in Holding} = {}
    BY DEF Init, Holding, Live, Waiting
  <2>2. Cardinality({i \in Ids : pc[i] \in Holding}) = 0
    BY <2>1, FS_EmptySet
  <2> QED
    BY <2>2, JobsAssumption DEF Init, SlotsConserved
<1>5. NewIsAbsent /\ WorkHasRecord
  BY DEF Init, NewIsAbsent, WorkHasRecord, Waiting
<1>6. RecordsBounded
  <2>1. Kept = {}
    BY DEF Init, Kept, Absent
  <2> QED
    BY <2>1, FS_EmptySet, JobsAssumption DEF RecordsBounded
<1> QED
  BY <1>1, <1>2, <1>3, <1>4, <1>5, <1>6 DEF JobsInv

-----------------------------------------------------------------------------
(* One lemma per part of the invariant that a step can disturb.            *)

\* A slot is taken when a job enters, kept through all its life and given back
\* at its end.
LEMMA SlotsStep ==
  ASSUME JobsInv, [Next]_vars
  PROVE  slots' \in 0..SlotLimit /\ slots' + Cardinality(Held') = SlotLimit
<1> USE DEF JobsInv
<1>1. /\ slots \in 0..SlotLimit /\ slots + Cardinality(Held) = SlotLimit
      /\ Cardinality(Held) \in Nat
  BY JobsFinite DEF TypeOK, SlotsConserved, Held
<1>2. CASE slots' = slots /\ Held' = Held
  BY <1>1, <1>2
<1>3. CASE \E k \in Keys, i \in Ids : Admit(i, k)
  <2>1. PICK k \in Keys, i \in Ids : Admit(i, k)
    BY <1>3
  <2>2. Held' = Held \cup {i} /\ i \notin Held
    BY <2>1 DEF Admit, Held, TypeOK, Holding, Live, Waiting
  <2>3. slots > 0 /\ slots' = slots - 1
    BY <2>1 DEF Admit, Room
  <2>4. Held \in SUBSET Ids
    BY DEF Held
  <2>5. Cardinality(Held') = Cardinality(Held) + 1
    BY <2>2, <2>4, JobsFinite
  <2> QED
    BY <1>1, <2>3, <2>5
<1>4. CASE \E i \in Ids : Release(i)
  <2>1. PICK i \in Ids : Release(i)
    BY <1>4
  <2>2. Held' = Held \ {i} /\ i \in Held
    BY <2>1 DEF Release, Held, TypeOK, Holding, Live, Waiting
  <2>3. Held \in SUBSET Ids /\ Held' \in SUBSET Ids
    BY DEF Held
  <2>4. Cardinality(Held') = Cardinality(Held) - 1 /\ Cardinality(Held') \in Nat
    BY <2>2, <2>3, JobsFinite
  <2>5. slots' = slots + 1
    BY <2>1 DEF Release
  <2> QED
    BY <1>1, <2>4, <2>5
<1>5. CASE Restart
  <2>1. Held' = {} /\ slots' = SlotLimit
    BY <1>5 DEF Restart, Held, TypeOK, Holding, Live, Waiting
  <2> QED
    BY <2>1, FS_EmptySet, JobsAssumption
<1>6. CASE Take
  <2>1. slots' = slots /\ Held' = Held
    BY <1>6, TakeEffect DEF Take, Held, TypeOK, Holding, Live, Waiting
  <2> QED
    BY <2>1, <1>2
<1>7. ASSUME NEW i \in Ids,
             HandOff(i) \/ Start(i) \/ Progress(i) \/ Deactivate(i)
             \/ \E state \in Final : End(i, state)
      PROVE  slots' = slots /\ Held' = Held
  BY <1>7 DEF HandOff, Start, Progress, Deactivate, End, Held, TypeOK,
    Holding, Live, Waiting
<1>8. ASSUME \/ \E k \in Keys : Reuse(k) \/ Refuse(k)
             \/ \E i \in Ids : Age(i)
             \/ UNCHANGED vars
      PROVE  slots' = slots /\ Held' = Held
  BY <1>8 DEF Reuse, Refuse, Age, vars, Held
<1> QED
  BY <1>2, <1>3, <1>4, <1>5, <1>6, <1>7, <1>8 DEF Next, Submit, WorkStep

\* Every variable keeps its range.
LEMMA TypeStep ==
  ASSUME JobsInv, [Next]_vars
  PROVE  TypeOK'
<1> USE DEF JobsInv
<1>0. TypeOK
  OBVIOUS
<1>1. slots' \in 0..SlotLimit
  BY SlotsStep
<1>2. CASE \E k \in Keys : Reuse(k) \/ Refuse(k)
  BY <1>0, <1>1, <1>2, ExpireEffect DEF Reuse, Refuse, TypeOK
<1>3. CASE \E k \in Keys, i \in Ids : Admit(i, k)
  <2>1. PICK k \in Keys, i \in Ids : Admit(i, k)
    BY <1>3
  <2>2. record' \in [Ids -> Records]
    BY <2>1, <1>0, ExpireEffect, EntryType DEF Admit
  <2> QED
    BY <2>1, <2>2, <1>0, <1>1 DEF Admit, TypeOK, Point
<1>4. CASE Take
  BY <1>0, <1>1, <1>4, TakeEffect DEF Take, TypeOK, Point
<1>5. ASSUME NEW i \in Ids, HandOff(i) PROVE TypeOK'
  BY <1>0, <1>1, <1>5 DEF HandOff, TypeOK, Point
<1>6. ASSUME NEW i \in Ids, Start(i) PROVE TypeOK'
  <2>1. record' \in [Ids -> Records]
    BY <1>0, <1>6 DEF Start, TypeOK, Records
  <2> QED
    BY <1>0, <1>1, <1>6, <2>1 DEF Start, TypeOK, Point
<1>7. ASSUME NEW i \in Ids, Progress(i) PROVE TypeOK'
  <2>1. PICK p \in record[i].progress + 1 .. Full :
          record' = [record EXCEPT ![i].progress = p]
    BY <1>7 DEF Progress
  <2>2. record[i] \in Records /\ p \in 0..Full
    BY <2>1, <1>0, JobsAssumption DEF TypeOK, Records
  <2>3. [record[i] EXCEPT !.progress = p] \in Records
    BY <2>2 DEF Records
  <2>4. record' \in [Ids -> Records]
    BY <2>1, <2>3, <1>0 DEF TypeOK
  <2> QED
    BY <1>0, <1>1, <1>7, <2>4 DEF Progress, TypeOK
<1>8. ASSUME NEW i \in Ids, NEW state \in Final, End(i, state) PROVE TypeOK'
  <2>1. record[i] \in Records /\ Full \in 0..Full
    BY <1>0, JobsAssumption DEF TypeOK
  <2> DEFINE new == [record[i] EXCEPT !.state = state,
                       !.progress = IF state = "complete" THEN Full ELSE @]
  <2>2. new \in Records
    BY <2>1 DEF Records, Final
  <2>3. record' = [record EXCEPT ![i] = new]
    BY <1>8, <1>0 DEF End, TypeOK
  <2>4. record' \in [Ids -> Records]
    BY <2>2, <2>3, <1>0 DEF TypeOK
  <2> QED
    BY <1>0, <1>1, <1>8, <2>4 DEF End, TypeOK, Point
<1>9. ASSUME NEW i \in Ids, Deactivate(i) \/ Release(i) PROVE TypeOK'
  BY <1>0, <1>1, <1>9 DEF Deactivate, Release, TypeOK, Point
<1>10. ASSUME NEW i \in Ids, Age(i) PROVE TypeOK'
  <2>1. record' \in [Ids -> Records]
    BY <1>0, <1>10 DEF Age, TypeOK, Records
  <2> QED
    BY <1>0, <1>1, <1>10, <2>1 DEF Age, TypeOK
<1>11. CASE Restart
  BY <1>0, <1>1, <1>11, EntryType DEF Restart, TypeOK, Point, NoJob
<1>12. CASE UNCHANGED vars
  BY <1>0, <1>12 DEF vars, TypeOK
<1> QED
  BY <1>2, <1>3, <1>4, <1>5, <1>6, <1>7, <1>8, <1>9, <1>10, <1>11, <1>12
  DEF Next, Submit, WorkStep

\* Only the job handed over enters the queue, and only its head leaves it.
LEMMA QueueStep ==
  ASSUME JobsInv, [Next]_vars
  PROVE  QueueExact'
<1>0. TypeOK /\ QueueExact
  BY DEF JobsInv
<1>1. ASSUME NEW i \in Ids, HandOff(i) PROVE QueueExact'
  <2>1. /\ queue \in Seq(Ids) /\ queue' = Append(queue, i)
        /\ pc[i] = "handoff" /\ pc' = [pc EXCEPT ![i] = "queued"]
    BY <1>0, <1>1 DEF HandOff, TypeOK
  <2>2. /\ DOMAIN queue = 1..Len(queue) /\ Len(queue) \in Nat
        /\ DOMAIN queue' = 1..(Len(queue) + 1)
        /\ queue'[Len(queue) + 1] = i
        /\ \A n \in DOMAIN queue : queue'[n] = queue[n] /\ queue[n] \in Ids
    BY <2>1
  <2>3. \A n \in DOMAIN queue : queue[n] # i
    BY <1>0, <2>1 DEF QueueExact
  <2>4. \A n \in DOMAIN queue' : pc'[queue'[n]] = "queued"
    BY <1>0, <2>1, <2>2, <2>3 DEF QueueExact, TypeOK
  <2>5. \A m, n \in DOMAIN queue' : queue'[m] = queue'[n] => m = n
    BY <1>0, <2>2, <2>3 DEF QueueExact
  <2>6. \A j \in Ids : pc'[j] = "queued" => \E n \in DOMAIN queue' : queue'[n] = j
    BY <1>0, <2>1, <2>2 DEF QueueExact, TypeOK
  <2> QED
    BY <2>4, <2>5, <2>6 DEF QueueExact
<1>2. CASE Take
  <2>1. /\ queue \in Seq(Ids) /\ DOMAIN queue = 1..Len(queue) /\ Len(queue) \in Nat
        /\ \A n \in DOMAIN queue : queue[n] \in Ids
    BY <1>0 DEF TypeOK
  <2>2. /\ pc' = [pc EXCEPT ![queue[1]] = "taken"]
        /\ DOMAIN queue' = 1..(Len(queue) - 1)
        /\ \A n \in DOMAIN queue' : queue'[n] = queue[n + 1]
        /\ Len(queue) > 0
    BY <1>0, <1>2, TakeEffect DEF Take
  <2>3. \A n \in DOMAIN queue' : n + 1 \in DOMAIN queue /\ n + 1 # 1
    BY <2>1, <2>2
  <2>4. \A n \in DOMAIN queue' : pc'[queue'[n]] = "queued"
    BY <1>0, <2>1, <2>2, <2>3 DEF QueueExact, TypeOK
  <2>5. \A m, n \in DOMAIN queue' : queue'[m] = queue'[n] => m = n
    BY <1>0, <2>1, <2>2, <2>3 DEF QueueExact
  <2>6. ASSUME NEW j \in Ids, pc'[j] = "queued"
        PROVE  \E n \in DOMAIN queue' : queue'[n] = j
    <3>1. pc[j] = "queued" /\ j # queue[1]
      BY <2>1, <2>2, <2>6, <1>0 DEF TypeOK
    <3>2. PICK n \in DOMAIN queue : queue[n] = j
      BY <3>1, <1>0 DEF QueueExact
    <3>3. n - 1 \in DOMAIN queue' /\ queue'[n - 1] = queue[n]
      BY <3>1, <3>2, <2>1, <2>2
    <3> QED
      BY <3>2, <3>3
  <2> QED
    BY <2>4, <2>5, <2>6 DEF QueueExact
<1>3. CASE Restart
  BY <1>0, <1>3 DEF Restart, QueueExact, TypeOK
<1>4. CASE queue' = queue /\ \A i \in Ids : pc'[i] = "queued" <=> pc[i] = "queued"
  <2>1. \A n \in DOMAIN queue : queue[n] \in Ids
    BY <1>0 DEF TypeOK
  <2> QED
    BY <1>0, <1>4, <2>1 DEF QueueExact
<1>5. ASSUME NEW i \in Ids, NEW k \in Keys,
             Admit(i, k) \/ Start(i) \/ Progress(i) \/ Deactivate(i)
             \/ Release(i) \/ \E state \in Final : End(i, state)
      PROVE  QueueExact'
  <2>1. queue' = queue /\ \A j \in Ids : pc'[j] = "queued" <=> pc[j] = "queued"
    BY <1>0, <1>5 DEF Admit, Start, Progress, Deactivate, Release, End, TypeOK
  <2> QED
    BY <2>1, <1>4
<1>6. ASSUME \/ \E k \in Keys : Reuse(k) \/ Refuse(k)
             \/ \E i \in Ids : Age(i)
             \/ UNCHANGED vars
      PROVE  QueueExact'
  <2>1. queue' = queue /\ pc' = pc
    BY <1>6 DEF Reuse, Refuse, Age, vars
  <2> QED
    BY <2>1, <1>4
<1> QED
  BY <1>1, <1>2, <1>3, <1>5, <1>6, JobsAssumption DEF Next, Submit, WorkStep

\* active follows the jobs: entered by submit(), left in the finally clause.
LEMMA ActiveStep ==
  ASSUME JobsInv, [Next]_vars
  PROVE  ActiveExact'
<1>0. TypeOK /\ ActiveExact /\ NoJob \notin Ids
  BY DEF JobsInv, NoJob, Ids
<1>1. ASSUME NEW k \in Keys, NEW i \in Ids, Admit(i, k) PROVE ActiveExact'
  <2>1. /\ pc[i] = "new" /\ active[k] = NoJob
        /\ pc' = [pc EXCEPT ![i] = "handoff"]
        /\ key' = [key EXCEPT ![i] = k]
        /\ active' = [active EXCEPT ![k] = i]
    BY <1>1 DEF Admit
  <2>2. \A l \in Keys : active[l] # i
    BY <1>0, <2>1 DEF ActiveExact, Live, Waiting, TypeOK
  <2>3. \A j \in Ids : pc'[j] \in Live <=> active'[key'[j]] = j
    BY <1>0, <2>1, <2>2 DEF ActiveExact, Live, Waiting, TypeOK
  <2>4. \A l \in Keys : active'[l] # NoJob => key'[active'[l]] = l
    BY <1>0, <2>1, <2>2 DEF ActiveExact, TypeOK
  <2> QED
    BY <2>3, <2>4 DEF ActiveExact
<1>2. ASSUME NEW i \in Ids, Deactivate(i) PROVE ActiveExact'
  BY <1>0, <1>2 DEF Deactivate, ActiveExact, Live, Waiting, TypeOK
<1>3. CASE Restart
  BY <1>0, <1>3 DEF Restart, ActiveExact, Live, Waiting, TypeOK
<1>4. CASE /\ active' = active /\ key' = key
           /\ \A i \in Ids : pc'[i] \in Live <=> pc[i] \in Live
  BY <1>0, <1>4 DEF ActiveExact
<1>5. CASE Take
  <2>1. /\ active' = active /\ key' = key
        /\ \A i \in Ids : pc'[i] \in Live <=> pc[i] \in Live
    BY <1>0, <1>5, TakeEffect DEF JobsInv, Take, Live, Waiting, TypeOK
  <2> QED
    BY <2>1, <1>4
<1>6. ASSUME NEW i \in Ids,
             HandOff(i) \/ Start(i) \/ Progress(i) \/ Release(i)
             \/ \E state \in Final : End(i, state)
      PROVE  ActiveExact'
  <2>1. /\ active' = active /\ key' = key
        /\ \A j \in Ids : pc'[j] \in Live <=> pc[j] \in Live
    BY <1>0, <1>6 DEF HandOff, Start, Progress, Release, End, Live, Waiting, TypeOK
  <2> QED
    BY <2>1, <1>4
<1>7. ASSUME \/ \E k \in Keys : Reuse(k) \/ Refuse(k)
             \/ \E i \in Ids : Age(i)
             \/ UNCHANGED vars
      PROVE  ActiveExact'
  BY <1>7, <1>0 DEF Reuse, Refuse, Age, vars, ActiveExact
<1> QED
  BY <1>1, <1>2, <1>3, <1>5, <1>6, <1>7 DEF Next, Submit, WorkStep

\* Records come when a job enters and go when it is settled.
LEMMA RecordStep ==
  ASSUME JobsInv, [Next]_vars
  PROVE  NewIsAbsent' /\ WorkHasRecord'
<1>0. TypeOK /\ NewIsAbsent /\ WorkHasRecord
  BY DEF JobsInv
<1>1. ASSUME NEW k \in Keys, Refuse(k) PROVE NewIsAbsent' /\ WorkHasRecord'
  <2>1. record' = Expire /\ pc' = pc
    BY <1>1 DEF Refuse
  <2>2. NewIsAbsent'
    BY <1>0, <2>1, ExpireEffect DEF NewIsAbsent
  <2>3. WorkHasRecord'
    BY <1>0, <2>1, ExpireEffect DEF WorkHasRecord, Final
  <2> QED
    BY <2>2, <2>3
<1>2. ASSUME NEW k \in Keys, NEW i \in Ids, Admit(i, k)
      PROVE  NewIsAbsent' /\ WorkHasRecord'
  <2> DEFINE entry == [Absent EXCEPT !.state = "queued"]
  <2>1. record' = [Expire EXCEPT ![i] = entry] /\ pc' = [pc EXCEPT ![i] = "handoff"]
    BY <1>2 DEF Admit
  <2>2. entry.state = "queued"
    BY EntryType
  <2> HIDE DEF entry
  <2>3. NewIsAbsent'
    BY <1>0, <2>1, ExpireEffect DEF NewIsAbsent, TypeOK
  <2>4. WorkHasRecord'
    BY <1>0, <2>1, <2>2, ExpireEffect DEF WorkHasRecord, Final, TypeOK
  <2> QED
    BY <2>3, <2>4
<1>3. CASE Take
  BY <1>0, <1>3, TakeEffect DEF JobsInv, Take, NewIsAbsent, WorkHasRecord,
    Waiting, TypeOK
<1>4. ASSUME NEW i \in Ids, HandOff(i) \/ Deactivate(i) \/ Release(i)
      PROVE  NewIsAbsent' /\ WorkHasRecord'
  BY <1>0, <1>4 DEF HandOff, Deactivate, Release, NewIsAbsent, WorkHasRecord,
    Waiting, TypeOK
<1>5. ASSUME NEW i \in Ids,
             Start(i) \/ Progress(i) \/ \E state \in Final : End(i, state)
      PROVE  /\ pc[i] \notin {"new"} /\ pc'[i] \notin {"new"}
             /\ pc'[i] = "making" => record'[i].state = "running"
             /\ pc'[i] \in {"making", "ended"}
             /\ \A j \in Ids : j # i => pc'[j] = pc[j] /\ record'[j] = record[j]
  <2>1. CASE Start(i)
    BY <1>0, <2>1 DEF Start, TypeOK, Records
  <2>2. CASE Progress(i)
    <3>1. PICK p \in record[i].progress + 1 .. Full :
            record' = [record EXCEPT ![i].progress = p]
      BY <2>2 DEF Progress
    <3>2. record'[i].state = record[i].state
      BY <3>1, <1>0 DEF TypeOK, Records
    <3> QED
      BY <1>0, <2>2, <3>1, <3>2 DEF Progress, WorkHasRecord, Waiting, TypeOK
  <2>3. CASE \E state \in Final : End(i, state)
    BY <1>0, <2>3 DEF End, TypeOK
  <2> QED
    BY <1>5, <2>1, <2>2, <2>3
<1>6. ASSUME NEW i \in Ids,
             Start(i) \/ Progress(i) \/ \E state \in Final : End(i, state)
      PROVE  NewIsAbsent' /\ WorkHasRecord'
  BY <1>0, <1>5, <1>6 DEF NewIsAbsent, WorkHasRecord, Waiting
<1>7. ASSUME NEW i \in Ids, Age(i) PROVE NewIsAbsent' /\ WorkHasRecord'
  <2>1. /\ pc' = pc /\ record[i].state # "absent"
        /\ record' = [record EXCEPT ![i].age = "old"]
    BY <1>7 DEF Age, Kept
  <2>2. record'[i].state = record[i].state
    BY <2>1, <1>0 DEF TypeOK, Records
  <2>3. \A j \in Ids : j # i => record'[j] = record[j]
    BY <2>1, <1>0 DEF TypeOK
  <2> QED
    BY <1>0, <2>1, <2>2, <2>3, EntryType DEF NewIsAbsent, WorkHasRecord
<1>8. CASE Restart
  BY <1>0, <1>8 DEF Restart, NewIsAbsent, WorkHasRecord, Waiting, TypeOK
<1>9. CASE UNCHANGED vars \/ \E k \in Keys : Reuse(k)
  BY <1>0, <1>9 DEF vars, Reuse, NewIsAbsent, WorkHasRecord
<1> QED
  BY <1>1, <1>2, <1>3, <1>4, <1>6, <1>7, <1>8, <1>9 DEF Next, Submit, WorkStep

\* The records that a step leaves were there before it, but for the one that
\* submit() enters into the room it has found.
LEMMA BoundStep ==
  ASSUME JobsInv, [Next]_vars
  PROVE  RecordsBounded'
<1>0. TypeOK /\ WorkHasRecord /\ RecordsBounded /\ TypeOK'
  BY TypeStep DEF JobsInv
<1>1. CASE Kept' \subseteq Kept
  <2>1. IsFiniteSet(Kept) /\ Kept \in SUBSET Ids /\ Kept' \in SUBSET Ids
    BY JobsFinite DEF Kept
  <2>2. Cardinality(Kept') <= Cardinality(Kept)
    BY <1>1, <2>1, FS_Subset
  <2>3. Cardinality(Kept') \in Nat /\ Cardinality(Kept) \in Nat
    BY <2>1, JobsFinite
  <2> QED
    BY <1>0, <2>2, <2>3, JobsAssumption DEF RecordsBounded
<1>2. ASSUME NEW k \in Keys, NEW i \in Ids, Admit(i, k) PROVE RecordsBounded'
  <2> DEFINE left == {j \in Ids : Expire[j].state # "absent"}
  <2>1. Cardinality(left) < RecordLimit
    BY <1>2 DEF Admit, Room
  <2>2. \A j \in Ids : j # i => record'[j] = Expire[j]
    BY <1>0, <1>2, ExpireEffect DEF Admit
  <2>3. Kept' \in SUBSET (left \cup {i}) /\ left \in SUBSET Ids
    BY <2>2 DEF Kept
  <2>4. Cardinality(left \cup {i}) <= Cardinality(left) + 1
    <3>1. CASE i \in left
      <4>1. left \cup {i} = left
        BY <3>1
      <4>2. Cardinality(left) \in Nat
        BY <2>3, JobsFinite
      <4>3. Cardinality(left \cup {i}) = Cardinality(left)
        BY <4>1, Zenon
      <4> HIDE DEF left
      <4> QED
        BY <4>2, <4>3
    <3>2. CASE i \notin left
      BY <3>2, <2>3, JobsFinite
    <3> QED
      BY <3>1, <3>2
  <2>5. left \cup {i} \in SUBSET Ids /\ IsFiniteSet(left \cup {i})
    BY <2>3, JobsFinite
  <2>6. Cardinality(Kept') <= Cardinality(left \cup {i})
    BY <2>3, <2>5, FS_Subset
  <2>7. /\ Cardinality(Kept') \in Nat /\ Cardinality(left) \in Nat
        /\ Cardinality(left \cup {i}) \in Nat
    BY <2>3, <2>5, JobsFinite DEF Kept
  <2> QED
    BY <2>1, <2>4, <2>6, <2>7, JobsAssumption DEF RecordsBounded
<1>3. ASSUME NEW k \in Keys, Refuse(k) PROVE RecordsBounded'
  <2>1. Kept' \subseteq Kept
    BY <1>0, <1>3, ExpireEffect, EntryType DEF Refuse, Kept
  <2> QED
    BY <2>1, <1>1
<1>4. ASSUME NEW i \in Ids,
             Start(i) \/ Progress(i) \/ \E state \in Final : End(i, state)
      PROVE  RecordsBounded'
  <2>1. record[i].state # "absent"
    BY <1>0, <1>4 DEF Start, Progress, End, WorkHasRecord, Waiting
  <2>2. \A j \in Ids : j # i => record'[j] = record[j]
    BY <1>0, <1>4 DEF Start, Progress, End, TypeOK
  <2>3. Kept' \subseteq Kept
    BY <2>1, <2>2 DEF Kept
  <2> QED
    BY <2>3, <1>1
<1>5. ASSUME NEW i \in Ids, Age(i) PROVE RecordsBounded'
  <2>1. Kept' \subseteq Kept
    BY <1>0, <1>5 DEF Age, Kept, TypeOK
  <2> QED
    BY <2>1, <1>1
<1>6. CASE Restart
  <2>1. Kept' = {}
    BY <1>6 DEF Restart, Kept, Absent
  <2> QED
    BY <2>1, <1>1
<1>7. CASE record' = record
  BY <1>7, <1>1 DEF Kept
<1>8. ASSUME \/ Take \/ UNCHANGED vars
             \/ \E k \in Keys : Reuse(k)
             \/ \E i \in Ids : HandOff(i) \/ Deactivate(i) \/ Release(i)
      PROVE  RecordsBounded'
  BY <1>7, <1>8 DEF Take, vars, Reuse, HandOff, Deactivate, Release
<1> QED
  BY <1>2, <1>3, <1>4, <1>5, <1>6, <1>8 DEF Next, Submit, WorkStep

-----------------------------------------------------------------------------
(* The theorems.                                                           *)

LEMMA JobsNext == JobsInv /\ [Next]_vars => JobsInv'
<1> SUFFICES ASSUME JobsInv, [Next]_vars PROVE JobsInv'
  OBVIOUS
<1>1. SlotsConserved'
  BY SlotsStep DEF SlotsConserved, Held
<1> QED
  BY <1>1, TypeStep, QueueStep, ActiveStep, RecordStep, BoundStep DEF JobsInv

\* The inductive invariant holds in every state of every instance.
THEOREM JobsInvariant == Spec => []JobsInv
BY JobsInit, JobsNext, PTL DEF Spec

\* Every variable of the job service keeps its type; the semaphore stays
\* between zero and its bound.
THEOREM JobsTyped == Spec => []TypeOK
<1>1. JobsInv => TypeOK
  BY DEF JobsInv
<1> QED
  BY <1>1, JobsInvariant, PTL

\* active names exactly the unfinished jobs, so that a client never has two
\* crops of one request at work (README of the service: "active identical
\* requests from one client reuse the same job").
THEOREM NoDuplicateJobs == Spec => []ActiveExact
<1>1. JobsInv => ActiveExact
  BY DEF JobsInv
<1> QED
  BY <1>1, JobsInvariant, PTL

\* No way through submit() and work() leaks a slot or returns it twice.
THEOREM SlotsNeverLeak == Spec => []SlotsConserved
<1>1. JobsInv => SlotsConserved
  BY DEF JobsInv
<1> QED
  BY <1>1, JobsInvariant, PTL

\* work() finds the record it updates, and the records are bounded, whatever
\* other submissions purge.
THEOREM RecordsSafe == Spec => [](WorkHasRecord /\ RecordsBounded)
<1>1. JobsInv => WorkHasRecord /\ RecordsBounded
  BY DEF JobsInv
<1> QED
  BY <1>1, JobsInvariant, PTL

\* A job handed to the pool is in the queue or on a thread, at one place.
THEOREM NeverQueuedTwice == Spec => []QueuedOnce
<1>1. JobsInv => QueuedOnce
  <2> SUFFICES ASSUME JobsInv, NEW i \in Ids
               PROVE  Cardinality({n \in DOMAIN queue : queue[n] = i})
                        = IF pc[i] = "queued" THEN 1 ELSE 0
    BY DEF QueuedOnce
  <2>0. QueueExact
    BY DEF JobsInv
  <2>1. CASE pc[i] = "queued"
    <3>1. PICK n \in DOMAIN queue : queue[n] = i
      BY <2>0, <2>1 DEF QueueExact
    <3>2. {m \in DOMAIN queue : queue[m] = i} = {n}
      BY <2>0, <3>1 DEF QueueExact
    <3>3. Cardinality({n}) = 1
      BY FS_Singleton
    <3> QED
      BY <2>1, <3>2, <3>3
  <2>2. CASE pc[i] # "queued"
    <3>1. {m \in DOMAIN queue : queue[m] = i} = {}
      BY <2>0, <2>2 DEF QueueExact
    <3>2. Cardinality({m \in DOMAIN queue : queue[m] = i}) = 0
      BY <3>1, FS_EmptySet
    <3> QED
      BY <2>2, <3>2
  <2> QED
    BY <2>1, <2>2
<1> QED
  BY <1>1, JobsInvariant, PTL

\* A step leaves a record, takes it when that is allowed, or moves it forward.
LEMMA ForwardStep ==
  ASSUME JobsInv, [Next]_vars, NEW i \in Ids
  PROVE  \/ record'[i] = record[i]
         \/ record[i].state = "absent"
         \/ record'[i].state = "absent" /\ (record[i].state \in Final \/ Restart)
         \/ /\ Rank[record[i].state] <= Rank[record'[i].state]
            /\ record[i].state \in Final => record'[i].state = record[i].state
            /\ record[i].progress <= record'[i].progress
<1>0. /\ TypeOK /\ NewIsAbsent /\ WorkHasRecord
      /\ record[i] \in Records /\ record[i].progress \in 0..Full
      /\ Absent.state = "absent"
  BY EntryType DEF JobsInv, TypeOK, Records
<1>1. /\ \A s \in Final \cup {"queued", "running"} : Rank[s] <= Rank[s]
      /\ Rank["queued"] <= Rank["running"]
      /\ \A s \in Final : Rank["running"] <= Rank[s]
  BY DEF Rank, Final
<1>2. ASSUME NEW k \in Keys, Refuse(k) \/ \E j \in Ids : Admit(j, k)
      PROVE  \/ record'[i] = record[i] \/ record[i].state = "absent"
             \/ record'[i].state = "absent" /\ record[i].state \in Final
  <2>1. CASE Refuse(k)
    BY <1>0, <2>1, ExpireEffect DEF Refuse
  <2>2. CASE \E j \in Ids : Admit(j, k)
    <3>1. PICK j \in Ids : Admit(j, k)
      BY <2>2
    <3>2. CASE i = j
      BY <1>0, <3>1, <3>2 DEF Admit, NewIsAbsent
    <3>3. CASE i # j
      <4>1. record'[i] = Expire[i]
        BY <3>1, <3>3, ExpireEffect DEF Admit
      <4> QED
        BY <1>0, <4>1, ExpireEffect
    <3> QED
      BY <3>2, <3>3
  <2> QED
    BY <1>2, <2>1, <2>2
<1>3. ASSUME NEW j \in Ids, Start(j) \/ Progress(j) \/ Age(j)
                            \/ \E state \in Final : End(j, state), i # j
      PROVE  record'[i] = record[i]
  BY <1>0, <1>3 DEF Start, Progress, Age, End, TypeOK
<1>4. CASE Start(i)
  <2>1. /\ record[i].state = "queued" /\ record'[i].state = "running"
        /\ record'[i].progress = record[i].progress
    BY <1>0, <1>4 DEF Start, TypeOK, Records, WorkHasRecord, Waiting
  <2> QED
    BY <1>0, <1>1, <2>1 DEF Final
<1>5. CASE Progress(i)
  <2>1. PICK p \in record[i].progress + 1 .. Full :
          record' = [record EXCEPT ![i].progress = p]
    BY <1>5 DEF Progress
  <2>2. /\ record'[i].state = record[i].state /\ record'[i].progress = p
        /\ record[i].state = "running"
    BY <2>1, <1>0, <1>5 DEF TypeOK, Records, Progress, WorkHasRecord, Waiting
  <2> QED
    BY <1>0, <1>1, <2>1, <2>2
<1>6. ASSUME NEW state \in Final, End(i, state)
      PROVE  /\ Rank[record[i].state] <= Rank[record'[i].state]
             /\ record[i].state \notin Final
             /\ record[i].progress <= record'[i].progress
  <2>1. record[i].state = "running"
    BY <1>0, <1>6 DEF End, WorkHasRecord, Waiting
  <2>2. record'[i].state = state /\ record[i].progress <= record'[i].progress
    BY <1>0, <1>6, JobsAssumption DEF End, TypeOK, Records
  <2> QED
    BY <1>1, <2>1, <2>2 DEF Final
<1>7. CASE Age(i)
  <2>1. /\ record'[i].state = record[i].state
        /\ record'[i].progress = record[i].progress
    BY <1>0, <1>7 DEF Age, TypeOK, Records
  <2> QED
    BY <1>0, <1>1, <2>1 DEF Records
<1>8. CASE Restart
  BY <1>0, <1>8 DEF Restart
<1>9. ASSUME \/ Take \/ UNCHANGED vars
             \/ \E k \in Keys : Reuse(k)
             \/ \E j \in Ids : HandOff(j) \/ Deactivate(j) \/ Release(j)
      PROVE  record'[i] = record[i]
  BY <1>9 DEF Take, vars, Reuse, HandOff, Deactivate, Release
<1> QED
  BY <1>2, <1>3, <1>4, <1>5, <1>6, <1>7, <1>8, <1>9 DEF Next, Submit, WorkStep

\* The status a client polls never goes back, for any progress scale.
THEOREM StatusNeverGoesBack == Spec => StatusForward
<1> DEFINE Forward ==
      \A i \in Ids :
        LET old == record[i]
            new == record'[i]
        IN  \/ old.state = "absent"
            \/ new.state = "absent" /\ (old.state \in Final \/ Restart)
            \/ /\ Rank[old.state] <= Rank[new.state]
               /\ old.state \in Final => new.state = old.state
               /\ old.progress <= new.progress
<1>1. JobsInv /\ [Next]_vars => [Forward]_vars
  <2> SUFFICES ASSUME JobsInv, [Next]_vars PROVE Forward
    OBVIOUS
  <2>1. ASSUME NEW i \in Ids
        PROVE  /\ record[i].progress <= record[i].progress
               /\ record[i].state # "absent" =>
                    Rank[record[i].state] <= Rank[record[i].state]
    <3>1. record[i].progress \in Int /\ record[i].state \in {"absent", "queued", "running"} \cup Final
      BY JobsAssumption DEF JobsInv, TypeOK, Records
    <3>2. \A s \in Final \cup {"queued", "running"} : Rank[s] <= Rank[s]
      BY DEF Rank, Final
    <3> QED
      BY <3>1, <3>2
  <2> QED
    BY <2>1, ForwardStep
<1> QED
  BY <1>1, JobsInvariant, PTL DEF Spec, StatusForward
=============================================================================
