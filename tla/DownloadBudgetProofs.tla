------------------------ MODULE DownloadBudgetProofs ------------------------
(***************************************************************************)
(* Proofs about DownloadBudget for any limits, sizes, callers and number   *)
(* of threads.                                                             *)
(***************************************************************************)
EXTENDS DownloadBudget, FiniteSetTheorems, TLAPS

Busy == {g \in Threads : thr[g].pc # "idle"}

\* What a thread has measured stays true while it shares "results".
Measured ==
  \A g \in Threads : thr[g].pc \in {"reserve", "reserved"} => thr[g].size = file

BudgetInv ==
  /\ TypeOK
  /\ BudgetCoversSpent
  /\ DailyLimits
  /\ Measured
  /\ LengthMatches
  /\ SlotsConserved

-----------------------------------------------------------------------------
\* The steps of a thread change that thread only, and in this way.
LEMMA ThreadFrame ==
  ASSUME TypeOK, NEW g \in Threads,
         \/ ThreadStep(g) \/ \E id \in Identities : Acquire(g, id)
  PROVE  \A h \in Threads : h # g => thr'[h] = thr[h]
<1>1. CASE \E id \in Identities : Acquire(g, id)
  BY <1>1 DEF Acquire, TypeOK
<1> QED
  BY <1>1 DEF ThreadStep, Lock, Missing, Measure, Reserve, Refused, Open,
    OpenFails, Done, TypeOK

LEMMA IdleType == Idle \in Thread /\ Idle.pc = "idle"
  BY BudgetAssumption DEF Idle, Thread, ThreadPC, Days

\* Every thread keeps its type.
LEMMA ThreadsTyped ==
  ASSUME TypeOK, [Next]_vars
  PROVE  thr' \in [Threads -> Thread]
<1>0. /\ thr \in [Threads -> Thread] /\ clock \in Days
      /\ file \in Nat
  BY BudgetAssumption DEF TypeOK
<1>1. ASSUME NEW g \in Threads, NEW id \in Identities, Acquire(g, id)
      PROVE  thr' \in [Threads -> Thread]
  <2> DEFINE new == [Idle EXCEPT !.pc = "lock", !.keys = id]
  <2>1. new \in Thread
    BY IdleType DEF Idle, Thread, ThreadPC
  <2>2. thr' = [thr EXCEPT ![g] = new]
    BY <1>1 DEF Acquire
  <2> HIDE DEF new
  <2> QED
    BY <1>0, <2>1, <2>2
<1>2. ASSUME NEW g \in Threads, Measure(g) PROVE thr' \in [Threads -> Thread]
  <2> DEFINE new == [thr[g] EXCEPT !.pc = "reserve", !.size = file, !.day = clock]
  <2>1. new \in Thread
    BY <1>0 DEF Thread, ThreadPC
  <2>2. thr' = [thr EXCEPT ![g] = new]
    BY <1>0, <1>2 DEF Measure
  <2> HIDE DEF new
  <2> QED
    BY <1>0, <2>1, <2>2
<1>3. ASSUME NEW g \in Threads, Open(g) PROVE thr' \in [Threads -> Thread]
  <2> DEFINE new == [thr[g] EXCEPT !.pc = "stream", !.opened = file]
  <2>1. new \in Thread
    BY <1>0 DEF Thread, ThreadPC
  <2>2. thr' = [thr EXCEPT ![g] = new]
    BY <1>0, <1>3 DEF Open
  <2> HIDE DEF new
  <2> QED
    BY <1>0, <2>1, <2>2
<1>4. ASSUME NEW g \in Threads, NEW p \in ThreadPC,
             thr' = [thr EXCEPT ![g].pc = p]
      PROVE  thr' \in [Threads -> Thread]
  BY <1>0, <1>4 DEF Thread
<1>5. ASSUME NEW g \in Threads,
             Lock(g) \/ Missing(g) \/ Reserve(g) \/ Refused(g) \/ OpenFails(g)
      PROVE  thr' \in [Threads -> Thread]
  <2>1. \E p \in ThreadPC : thr' = [thr EXCEPT ![g].pc = p]
    BY <1>5, Zenon DEF Lock, Missing, Reserve, Refused, OpenFails, ThreadPC
  <2> QED
    BY <2>1, <1>4
<1>6. ASSUME NEW g \in Threads, Done(g) PROVE thr' \in [Threads -> Thread]
  BY <1>0, <1>6, IdleType DEF Done
<1>7. CASE Restart
  BY <1>7, IdleType DEF Restart
<1>8. CASE Replace \/ SetClock \/ UNCHANGED vars
  BY <1>0, <1>8 DEF Replace, SetClock, vars
<1> QED
  BY <1>1, <1>2, <1>3, <1>5, <1>6, <1>7, <1>8 DEF Next, ThreadStep

\* One slot per busy thread, free or taken.
LEMMA SlotsStep ==
  ASSUME TypeOK, SlotsConserved, [Next]_vars
  PROVE  slots' \in 0..Slots /\ SlotsConserved'
<1>0. /\ slots \in 0..Slots /\ slots + Cardinality(Busy) = Slots
      /\ Slots \in Nat /\ IsFiniteSet(Busy) /\ Cardinality(Busy) \in Nat
      /\ thr \in [Threads -> Thread]
  <2>1. IsFiniteSet(Busy)
    BY BudgetAssumption, FS_Subset DEF Busy
  <2> QED
    BY <2>1, FS_CardinalityType, BudgetAssumption
    DEF TypeOK, SlotsConserved, Busy
<1>1. CASE Busy' = Busy /\ slots' = slots
  BY <1>0, <1>1 DEF SlotsConserved, Busy
<1>2. ASSUME NEW g \in Threads, NEW id \in Identities, Acquire(g, id)
      PROVE  slots' \in 0..Slots /\ SlotsConserved'
  <2>1. /\ slots > 0 /\ slots' = slots - 1 /\ thr[g].pc = "idle"
        /\ thr' = [thr EXCEPT ![g] = [Idle EXCEPT !.pc = "lock", !.keys = id]]
    BY <1>2 DEF Acquire
  <2>2. thr'[g].pc # "idle"
    BY <2>1, <1>0 DEF Idle
  <2>3. Busy' = Busy \cup {g} /\ g \notin Busy
    BY <2>1, <2>2, <1>0 DEF Busy
  <2>4. Cardinality(Busy') = Cardinality(Busy) + 1
    BY <2>3, <1>0, FS_AddElement
  <2> QED
    BY <1>0, <2>1, <2>4 DEF SlotsConserved, Busy
<1>3. ASSUME NEW g \in Threads, Done(g)
      PROVE  slots' \in 0..Slots /\ SlotsConserved'
  <2>1. /\ slots' = slots + 1 /\ thr[g].pc # "idle"
        /\ thr' = [thr EXCEPT ![g] = Idle]
    BY <1>3 DEF Done
  <2>2. Busy' = Busy \ {g} /\ g \in Busy
    BY <2>1, <1>0, IdleType DEF Busy
  <2>3. Cardinality(Busy') = Cardinality(Busy) - 1 /\ Cardinality(Busy') \in Nat
    BY <2>2, <1>0, FS_RemoveElement, FS_CardinalityType
  <2> QED
    BY <1>0, <2>1, <2>3 DEF SlotsConserved, Busy
<1>4. CASE Restart
  <2>1. Busy' = {} /\ slots' = Slots
    BY <1>4, IdleType DEF Restart, Busy
  <2>2. Cardinality(Busy') = 0
    BY <2>1, FS_EmptySet
  <2> QED
    BY <2>1, <2>2, <1>0 DEF SlotsConserved, Busy
<1>5. ASSUME NEW g \in Threads,
             Lock(g) \/ Missing(g) \/ Measure(g) \/ Reserve(g) \/ Refused(g)
             \/ Open(g) \/ OpenFails(g)
      PROVE  slots' \in 0..Slots /\ SlotsConserved'
  <2>1. slots' = slots /\ thr[g].pc # "idle" /\ thr'[g].pc # "idle"
    BY <1>5, <1>0 DEF Lock, Missing, Measure, Reserve, Refused, Open, OpenFails,
      Thread
  <2>2. \A h \in Threads : h # g => thr'[h] = thr[h]
    BY <1>5, ThreadFrame DEF ThreadStep
  <2>3. Busy' = Busy
    BY <2>1, <2>2 DEF Busy
  <2> QED
    BY <2>1, <2>3, <1>1
<1>6. CASE Replace \/ SetClock \/ UNCHANGED vars
  <2>1. Busy' = Busy /\ slots' = slots
    BY <1>6 DEF Replace, SetClock, vars, Busy
  <2> QED
    BY <2>1, <1>1
<1> QED
  BY <1>2, <1>3, <1>4, <1>5, <1>6 DEF Next, ThreadStep

\* The budget and the history, as reserve_download() leaves them.
LEMMA ReserveEffect ==
  ASSUME TypeOK, NEW g \in Threads, Reserve(g)
  PROVE  LET t == thr[g]
             b == BudgetOf(t.day)
         IN  /\ t.day \in Days /\ t.size \in Nat /\ t.keys \subseteq Keys
             /\ t.day >= budget.day
             /\ b \in [day : Days \cup {0}, total : Nat, clients : [Keys -> Nat]]
             /\ b.day = t.day
             /\ budget'.day = t.day
             /\ budget'.total = b.total + t.size
             /\ budget'.total <= GlobalLimit
             /\ budget' \in [day : Days \cup {0}, total : Nat, clients : [Keys -> Nat]]
             /\ \A k \in Keys :
                  /\ budget'.clients[k] = b.clients[k]
                                          + (IF k \in t.keys THEN t.size ELSE 0)
                  /\ k \in t.keys => budget'.clients[k] <= ClientLimit
             /\ spent' \in [Days -> [Keys \cup {Total} -> Nat]]
             /\ \A d \in Days : d # t.day => spent'[d] = spent[d]
             /\ spent'[t.day][Total] = spent[t.day][Total] + t.size
             /\ \A k \in Keys :
                  spent'[t.day][k] = spent[t.day][k]
                                     + (IF k \in t.keys THEN t.size ELSE 0)
<1> DEFINE t == thr[g]
           b == BudgetOf(t.day)
           B == [day : Days \cup {0}, total : Nat, clients : [Keys -> Nat]]
           S == [Days -> [Keys \cup {Total} -> Nat]]
<1>1. t.day \in Days /\ t.size \in Nat /\ t.keys \subseteq Keys /\ Days \subseteq Nat
  <2>1. t \in Thread
    BY DEF TypeOK
  <2>2. t.day \in Days /\ t.size \in Nat /\ t.keys \in Identities \cup {{}}
    BY <2>1 DEF Thread
  <2>3. Days \subseteq Nat
    BY DEF Days
  <2> QED
    BY <2>2, <2>3, BudgetAssumption
<1>2. budget \in B /\ spent \in S
  BY DEF TypeOK
<1>3. t.day >= budget.day
  <2>1. ~ (budget.day > t.day)
    BY DEF Reserve, ClockMismatch
  <2>2. budget.day \in Days \cup {0}
    BY <1>2
  <2>3. budget.day \in Nat /\ t.day \in Nat
    BY <1>1, <2>2, BudgetAssumption DEF Days
  <2> QED
    BY <2>1, <2>3
<1>4. b \in B /\ b.day = t.day
  BY <1>1, <1>2 DEF BudgetOf, Nothing
<1>5. /\ b.total + t.size <= GlobalLimit
      /\ \A k \in t.keys : b.clients[k] + t.size <= ClientLimit
      /\ budget' = Charge(b, t.keys, t.size)
      /\ spent' = Account(t.day, t.keys, t.size)
  BY DEF Reserve, Fits
<1> HIDE DEF b
<1>6. /\ budget'.day = b.day /\ budget'.total = b.total + t.size
      /\ budget' \in B
      /\ \A k \in Keys : budget'.clients[k] = b.clients[k]
                                             + (IF k \in t.keys THEN t.size ELSE 0)
  <2> DEFINE c == [k \in Keys |-> IF k \in t.keys THEN b.clients[k] + t.size
                                  ELSE b.clients[k]]
  <2>1. budget' = [b EXCEPT !.total = b.total + t.size, !.clients = c]
    BY <1>4, <1>5 DEF Charge
  <2>2. c \in [Keys -> Nat]
    BY <1>1, <1>4
  <2>3. \A k \in Keys : c[k] = b.clients[k] + (IF k \in t.keys THEN t.size ELSE 0)
    BY <1>1, <1>4
  <2> HIDE DEF c
  <2>4. b.total + t.size \in Nat
    BY <1>1, <1>4
  <2>5. /\ budget'.day = b.day /\ budget'.total = b.total + t.size
        /\ budget'.clients = c /\ budget' \in B
    BY <1>4, <2>1, <2>2, <2>4
  <2> QED
    BY <2>3, <2>5
<1>7. /\ spent' \in S
      /\ \A d \in Days : d # t.day => spent'[d] = spent[d]
      /\ \A k \in Keys \cup {Total} :
           spent'[t.day][k] = IF k \in t.keys \cup {Total}
                              THEN spent[t.day][k] + t.size ELSE spent[t.day][k]
  <2> DEFINE a == [k \in Keys \cup {Total} |->
                     IF k \in t.keys \cup {Total} THEN spent[t.day][k] + t.size
                     ELSE spent[t.day][k]]
  <2>1. spent' = [spent EXCEPT ![t.day] = a]
    BY <1>1, <1>2, <1>5 DEF Account
  <2>2. a \in [Keys \cup {Total} -> Nat]
    <3>1. spent[t.day] \in [Keys \cup {Total} -> Nat]
      BY <1>1, <1>2
    <3>2. \A k \in Keys \cup {Total} :
            spent[t.day][k] \in Nat /\ spent[t.day][k] + t.size \in Nat
      BY <1>1, <3>1
    <3> QED
      BY <3>2
  <2>3. \A k \in Keys \cup {Total} :
          a[k] = IF k \in t.keys \cup {Total} THEN spent[t.day][k] + t.size
                 ELSE spent[t.day][k]
    OBVIOUS
  <2> HIDE DEF a
  <2> QED
    BY <1>1, <1>2, <2>1, <2>2, <2>3
<1>8. \A k \in Keys : spent'[t.day][k] = spent[t.day][k]
                                         + (IF k \in t.keys THEN t.size ELSE 0)
  <2> SUFFICES ASSUME NEW k \in Keys
               PROVE  spent'[t.day][k] = spent[t.day][k]
                                         + (IF k \in t.keys THEN t.size ELSE 0)
    OBVIOUS
  <2>1. k # Total /\ spent[t.day] \in [Keys \cup {Total} -> Nat]
    BY <1>1, <1>2, TotalAssumption
  <2>2. spent[t.day][k] \in Nat
    BY <2>1
  <2> QED
    BY <1>7, <2>1, <2>2
<1>9. spent'[t.day][Total] = spent[t.day][Total] + t.size
  BY <1>7
<1> QED
  BY <1>1, <1>3, <1>4, <1>5, <1>6, <1>7, <1>8, <1>9 DEF b

\* Reservations are the only steps that touch the budget or the history.
LEMMA BudgetFrame ==
  ASSUME [Next]_vars
  PROVE  (\E g \in Threads : Reserve(g)) \/ UNCHANGED <<budget, spent>>
  BY DEF Next, ThreadStep, vars, Acquire, Lock, Missing, Measure, Refused, Open,
    OpenFails, Done, Replace, SetClock, Restart

LEMMA BudgetStep ==
  ASSUME TypeOK, BudgetCoversSpent, DailyLimits, NEW g \in Threads, Reserve(g)
  PROVE  BudgetCoversSpent' /\ DailyLimits'
<1> DEFINE t == thr[g]
           b == BudgetOf(t.day)
<1>1. /\ t.day \in Days /\ t.size \in Nat /\ t.keys \subseteq Keys
      /\ Days \subseteq Nat /\ budget.day \in Nat
      /\ spent \in [Days -> [Keys \cup {Total} -> Nat]]
      /\ GlobalLimit \in Nat /\ ClientLimit \in Nat
      /\ budget.day <= t.day
  <2>1. /\ t.day \in Days /\ t.size \in Nat /\ t.keys \subseteq Keys
        /\ t.day >= budget.day
    BY ReserveEffect
  <2>2. budget.day \in Days \cup {0} /\ Days \subseteq Nat
    BY DEF TypeOK, Days
  <2>3. spent \in [Days -> [Keys \cup {Total} -> Nat]]
    BY DEF TypeOK
  <2>4. budget.day \in Nat /\ t.day \in Nat
    BY <2>1, <2>2, BudgetAssumption DEF Days
  <2>5. budget.day <= t.day
    BY <2>1, <2>4
  <2> QED
    BY <2>1, <2>2, <2>3, <2>4, <2>5, BudgetAssumption
<1>2. b.total = spent[t.day][Total] /\ \A k \in Keys : b.clients[k] = spent[t.day][k]
  <2>1. CASE budget.day = t.day
    BY <1>1, <2>1 DEF BudgetOf, BudgetCoversSpent
  <2>2. CASE budget.day # t.day
    <3>1. t.day > budget.day
      BY <1>1, <2>2, BudgetAssumption DEF Days
    <3>2. \A k \in Keys \cup {Total} : spent[t.day][k] = 0
      BY <1>1, <3>1 DEF BudgetCoversSpent
    <3> QED
      BY <2>2, <3>2 DEF BudgetOf, Nothing
  <2> QED
    BY <2>1, <2>2
<1> HIDE DEF b
<1>3. /\ budget'.day = t.day /\ budget'.total = spent'[t.day][Total]
      /\ \A k \in Keys : budget'.clients[k] = spent'[t.day][k]
  BY <1>1, <1>2, ReserveEffect DEF b
<1>4. BudgetCoversSpent'
  <2> SUFFICES ASSUME NEW d \in Days, d > t.day
               PROVE  \A k \in Keys \cup {Total} : spent'[d][k] = 0
    BY <1>3 DEF BudgetCoversSpent
  <2>1. d > budget.day /\ d # t.day
    BY <1>1, BudgetAssumption DEF Days
  <2>2. spent'[d] = spent[d]
    BY <2>1, ReserveEffect
  <2> QED
    BY <2>1, <2>2 DEF BudgetCoversSpent
<1>5. DailyLimits'
  <2> SUFFICES ASSUME NEW d \in Days
               PROVE  /\ spent'[d][Total] <= GlobalLimit
                      /\ \A k \in Keys : spent'[d][k] <= ClientLimit
    BY DEF DailyLimits
  <2>1. CASE d # t.day
    <3>1. spent'[d] = spent[d]
      BY <2>1, ReserveEffect
    <3> QED
      BY <3>1 DEF DailyLimits
  <2>2. CASE d = t.day
    <3>1. spent'[d][Total] <= GlobalLimit
      BY <1>3, <2>2, ReserveEffect
    <3>2. ASSUME NEW k \in Keys PROVE spent'[d][k] <= ClientLimit
      <4>1. CASE k \in t.keys
        BY <4>1, <1>3, <2>2, ReserveEffect
      <4>2. CASE k \notin t.keys
        <5>1. spent'[d][k] = spent[d][k]
          BY <1>1, <4>2, <2>2, ReserveEffect
        <5> QED
          BY <5>1 DEF DailyLimits
      <4> QED
        BY <4>1, <4>2
    <3> QED
      BY <3>1, <3>2
  <2> QED
    BY <2>1, <2>2
<1> QED
  BY <1>4, <1>5

\* Nobody replaces the result while a thread shares the lock.
LEMMA FileStep ==
  ASSUME TypeOK, Measured, LengthMatches, [Next]_vars
  PROVE  Measured' /\ LengthMatches'
<1>0. thr \in [Threads -> Thread]
  BY DEF TypeOK
<1>1. ASSUME NEW g \in Threads,
             ThreadStep(g) \/ \E id \in Identities : Acquire(g, id)
      PROVE  Measured' /\ LengthMatches'
  <2>1. /\ file' = file
        /\ thr'[g].pc \in {"reserve", "reserved"} => thr'[g].size = file
        /\ thr'[g].pc = "stream" => thr'[g].opened = thr'[g].size
    <3>1. CASE \E id \in Identities : Acquire(g, id)
      BY <1>0, <3>1 DEF Acquire, Idle
    <3>2. CASE Lock(g) \/ Missing(g) \/ Refused(g) \/ OpenFails(g) \/ Done(g)
      BY <1>0, <3>2 DEF Lock, Missing, Refused, OpenFails, Done, Idle, Thread
    <3>3. CASE Measure(g)
      BY <1>0, <3>3 DEF Measure, Thread
    <3>4. CASE Reserve(g)
      BY <1>0, <3>4 DEF Reserve, Thread, Measured
    <3>5. CASE Open(g)
      BY <1>0, <3>5 DEF Open, Thread, Measured
    <3> QED
      BY <1>1, <3>1, <3>2, <3>3, <3>4, <3>5 DEF ThreadStep
  <2>2. \A h \in Threads : h # g => thr'[h] = thr[h]
    BY <1>1, ThreadFrame
  <2> QED
    BY <2>1, <2>2 DEF Measured, LengthMatches
<1>2. CASE Replace
  BY <1>2 DEF Replace, Sharing, Measured, LengthMatches
<1>3. CASE Restart
  BY <1>3, IdleType DEF Restart, Measured, LengthMatches
<1>4. CASE SetClock \/ UNCHANGED vars
  BY <1>4 DEF SetClock, vars, Measured, LengthMatches
<1> QED
  BY <1>1, <1>2, <1>3, <1>4 DEF Next

-----------------------------------------------------------------------------
LEMMA BudgetInit == Init => BudgetInv
<1> SUFFICES ASSUME Init PROVE BudgetInv
  OBVIOUS
<1>1. TypeOK
  BY IdleType, BudgetAssumption DEF Init, TypeOK, Nothing, Days
<1>2. BudgetCoversSpent /\ DailyLimits
  BY BudgetAssumption DEF Init, BudgetCoversSpent, DailyLimits, Days
<1>3. Measured /\ LengthMatches
  BY IdleType DEF Init, Measured, LengthMatches
<1>4. SlotsConserved
  <2>1. {g \in Threads : thr[g].pc # "idle"} = {}
    BY IdleType DEF Init
  <2>2. Cardinality({g \in Threads : thr[g].pc # "idle"}) = 0
    BY <2>1, FS_EmptySet
  <2> QED
    BY <2>2, BudgetAssumption DEF Init, SlotsConserved
<1> QED
  BY <1>1, <1>2, <1>3, <1>4 DEF BudgetInv

LEMMA BudgetNext == BudgetInv /\ [Next]_vars => BudgetInv'
<1> SUFFICES ASSUME BudgetInv, [Next]_vars PROVE BudgetInv'
  OBVIOUS
<1> USE DEF BudgetInv
<1>1. thr' \in [Threads -> Thread] /\ slots' \in 0..Slots /\ SlotsConserved'
  BY ThreadsTyped, SlotsStep
<1>2. clock' \in Days /\ file' \in Sizes \cup {0}
  BY DEF TypeOK, Next, ThreadStep, vars, Acquire, Lock, Missing, Measure,
    Reserve, Refused, Open, OpenFails, Done, Replace, SetClock, Restart
<1>3. /\ budget' \in [day : Days \cup {0}, total : Nat, clients : [Keys -> Nat]]
      /\ spent' \in [Days -> [Keys \cup {Total} -> Nat]]
      /\ BudgetCoversSpent' /\ DailyLimits'
  <2>1. CASE \E g \in Threads : Reserve(g)
    BY <2>1, ReserveEffect, BudgetStep
  <2>2. CASE UNCHANGED <<budget, spent>>
    BY <2>2 DEF TypeOK, BudgetCoversSpent, DailyLimits
  <2> QED
    BY <2>1, <2>2, BudgetFrame
<1>4. Measured' /\ LengthMatches'
  BY FileStep
<1> QED
  BY <1>1, <1>2, <1>3, <1>4 DEF TypeOK

\* The inductive invariant holds in every state of every instance.
THEOREM BudgetInvariant == Spec => []BudgetInv
BY BudgetInit, BudgetNext, PTL DEF Spec

\* Every variable of the download path keeps its type.
THEOREM BudgetTyped == Spec => []TypeOK
<1>1. BudgetInv => TypeOK
  BY DEF BudgetInv
<1> QED
  BY <1>1, BudgetInvariant, PTL

\* The budget file accounts for everything let go on its day.
THEOREM BudgetNeverForgets == Spec => []BudgetCoversSpent
<1>1. BudgetInv => BudgetCoversSpent
  BY DEF BudgetInv
<1> QED
  BY <1>1, BudgetInvariant, PTL

\* No day's limit is exceeded, neither the service's nor a caller's, whatever
\* threads, restarts and clock changes do.
THEOREM LimitsHold == Spec => []DailyLimits
<1>1. BudgetInv => DailyLimits
  BY DEF BudgetInv
<1> QED
  BY <1>1, BudgetInvariant, PTL

\* The length announced is the length sent.
THEOREM LengthIsRight == Spec => []LengthMatches
<1>1. BudgetInv => LengthMatches
  BY DEF BudgetInv
<1> QED
  BY <1>1, BudgetInvariant, PTL

\* Download slots are neither lost nor invented.
THEOREM DownloadSlotsKept == Spec => []SlotsConserved
<1>1. BudgetInv => SlotsConserved
  BY DEF BudgetInv
<1> QED
  BY <1>1, BudgetInvariant, PTL

\* Setting the clock back never reopens a day's budget.
THEOREM BudgetNeverReopened == Spec => BudgetForward
<1> DEFINE Forward ==
      /\ budget.day <= budget'.day
      /\ budget.day = budget'.day =>
           /\ budget.total <= budget'.total
           /\ \A k \in Keys : budget.clients[k] <= budget'.clients[k]
<1>1. BudgetInv /\ [Next]_vars => [Forward]_vars
  <2> SUFFICES ASSUME TypeOK, [Next]_vars PROVE Forward
    BY DEF BudgetInv
  <2>1. /\ budget.day \in Nat /\ budget.total \in Nat
        /\ budget.clients \in [Keys -> Nat]
    BY BudgetAssumption DEF TypeOK, Days
  <2>2. CASE UNCHANGED <<budget, spent>>
    BY <2>1, <2>2
  <2>3. ASSUME NEW g \in Threads, Reserve(g) PROVE Forward
    <3>1. budget.day <= thr[g].day /\ budget'.day = thr[g].day
      BY <2>3, <2>1, ReserveEffect
    <3>2. CASE budget.day = thr[g].day
      <4>1. BudgetOf(thr[g].day) = budget
        BY <3>2 DEF BudgetOf
      <4> QED
        BY <2>1, <2>3, <3>1, <4>1, ReserveEffect
    <3>3. CASE budget.day # thr[g].day
      BY <3>1, <3>3
    <3> QED
      BY <3>2, <3>3
  <2> QED
    BY <2>2, <2>3, BudgetFrame
<1> QED
  BY <1>1, BudgetInvariant, PTL DEF Spec, BudgetForward
=============================================================================
