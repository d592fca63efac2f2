--------------------------- MODULE DownloadBudget ---------------------------
(***************************************************************************)
(* Result downloads of the hosted GRIB service: GET /v1/results in         *)
(* Handler.do_GET and Cache.reserve_download of hosted-service/service.py. *)
(*                                                                         *)
(* Request threads share the semaphore of two downloads, the file lock     *)
(* "results" (shared by them, exclusive for publishing and eviction), the  *)
(* file lock "egress-budget" and the file egress-budget.json, which        *)
(* survives the process.  Inside the exclusive lock the budget is read,    *)
(* tested and renamed into place, so that is one action; the day it is     *)
(* charged to was read before the lock was taken.                          *)
(*                                                                         *)
(* spent is a history variable: the bytes the service let go out, by the   *)
(* day and the key they were reserved under.                               *)
(***************************************************************************)
EXTENDS Integers, FiniteSets

CONSTANTS
  Threads,      \* request threads that ask for a result
  Keys,         \* "token:" + owner and "ip:" + address
  Identities,   \* the pairs of keys that callers have
  Sizes,        \* sizes a result can have
  GlobalLimit,  \* XGRIB_DAILY_EGRESS_BYTES
  ClientLimit,  \* XGRIB_CLIENT_EGRESS_BYTES
  KeyLimit,     \* 4096 keys in one day's budget
  Slots,        \* BoundedSemaphore(2) of downloads
  MaxDay        \* days are numbered 1..MaxDay (bound)

ASSUME BudgetAssumption ==
  /\ IsFiniteSet(Threads)
  /\ Identities \subseteq {k \in SUBSET Keys : k # {}}
  /\ Sizes \subseteq Nat \ {0}
  /\ GlobalLimit \in Nat /\ ClientLimit \in Nat /\ KeyLimit \in Nat
  /\ Slots \in Nat
  /\ MaxDay \in Nat \ {0}

Days == 1..MaxDay

VARIABLES
  clock,   \* the UTC day by the clock of the host, which may be set back
  file,    \* size of the result under its name, or 0 when there is none
  budget,  \* egress-budget.json; day 0 stands for no file
  slots,   \* the value of the semaphore
  thr,     \* the request threads
  spent    \* spent[d][k]: bytes let go on day d under key k, or for "all"

vars == <<clock, file, budget, slots, thr, spent>>

\* idle -> lock -> shared -> reserve -> reserved -> stream -> idle, and leave
\* for every exit that carries no data.
ThreadPC  == {"idle", "lock", "shared", "reserve", "reserved", "stream", "leave"}
Sharing   == {"shared", "reserve", "reserved"}     \* holds "results" shared

Total == "all"
ASSUME TotalAssumption == Total \notin Keys

Thread == [pc : ThreadPC, keys : Identities \cup {{}}, day : Days,
           size : Nat, opened : Nat]
Idle   == [pc |-> "idle", keys |-> {}, day |-> 1, size |-> 0, opened |-> 0]

TypeOK ==
  /\ clock \in Days
  /\ file \in Sizes \cup {0}
  /\ budget \in [day : Days \cup {0}, total : Nat, clients : [Keys -> Nat]]
  /\ slots \in 0..Slots
  /\ thr \in [Threads -> Thread]
  /\ spent \in [Days -> [Keys \cup {Total} -> Nat]]

Nothing == [k \in Keys |-> 0]

Init ==
  /\ clock = 1
  /\ file = 0
  /\ budget = [day |-> 0, total |-> 0, clients |-> Nothing]
  /\ slots = Slots
  /\ thr = [g \in Threads |-> Idle]
  /\ spent = [d \in Days |-> [k \in Keys \cup {Total} |-> 0]]

-----------------------------------------------------------------------------
(* do_GET                                                                  *)

\* A caller with the given identity finds a free download slot; without one
\* the request is answered 503 and nothing changes.
Acquire(g, id) ==
  /\ thr[g].pc = "idle" /\ slots > 0
  /\ slots' = slots - 1
  /\ thr' = [thr EXCEPT ![g] = [Idle EXCEPT !.pc = "lock", !.keys = id]]
  /\ UNCHANGED <<clock, file, budget, spent>>

Lock(g) ==
  /\ thr[g].pc = "lock"
  /\ thr' = [thr EXCEPT ![g].pc = "shared"]
  /\ UNCHANGED <<clock, file, budget, slots, spent>>

\* The result expired: 404.
Missing(g) ==
  /\ thr[g].pc = "shared" /\ file = 0
  /\ thr' = [thr EXCEPT ![g].pc = "leave"]
  /\ UNCHANGED <<clock, file, budget, slots, spent>>

\* path.stat() and the day by the clock, before "egress-budget" is locked.
Measure(g) ==
  /\ thr[g].pc = "shared" /\ file # 0
  /\ thr' = [thr EXCEPT ![g].pc = "reserve", ![g].size = file, ![g].day = clock]
  /\ UNCHANGED <<clock, file, budget, slots, spent>>

\* The budget that a reservation for day starts from.
BudgetOf(day) ==
  IF budget.day # day
  THEN [day |-> day, total |-> 0, clients |-> Nothing] ELSE budget

\* Fault: an older day is not refused.
ClockMismatchIgnored(day) == FALSE

\* The clock was set back behind the budget: 503.
ClockMismatch(day) == budget.day > day

Known(b) == {k \in Keys : b.clients[k] > 0}

\* Fault: only the whole service is budgeted.
FitsGlobally(b, keys, size) == b.total + size <= GlobalLimit

Fits(b, keys, size) ==
  /\ b.total + size <= GlobalLimit
  /\ \A k \in keys : b.clients[k] + size <= ClientLimit
  /\ Cardinality(Known(b) \cup keys) <= KeyLimit

Charge(b, keys, size) ==
  [b EXCEPT !.total = @ + size,
            !.clients = [k \in Keys |-> IF k \in keys THEN @[k] + size ELSE @[k]]]

Account(day, keys, size) ==
  [spent EXCEPT ![day] = [k \in Keys \cup {Total} |->
     IF k \in keys \cup {Total} THEN @[k] + size ELSE @[k]]]

\* reserve_download() under the exclusive lock.
Reserve(g) ==
  LET t == thr[g]
      b == BudgetOf(t.day)
  IN  /\ t.pc = "reserve"
      /\ ~ClockMismatch(t.day)
      /\ Fits(b, t.keys, t.size)
      /\ budget' = Charge(b, t.keys, t.size)
      /\ spent' = Account(t.day, t.keys, t.size)
      /\ thr' = [thr EXCEPT ![g].pc = "reserved"]
      /\ UNCHANGED <<clock, file, slots>>

\* 503 or 429 and nothing is written, or the new file cannot be written and the
\* old one stays.
Refused(g) ==
  /\ thr[g].pc = "reserve"
  /\ thr' = [thr EXCEPT ![g].pc = "leave"]
  /\ UNCHANGED <<clock, file, budget, slots, spent>>

\* The file is opened and "results" given back; the open descriptor pins it.
Open(g) ==
  /\ thr[g].pc = "reserved"
  /\ thr' = [thr EXCEPT ![g].pc = "stream", ![g].opened = file]
  /\ UNCHANGED <<clock, file, budget, slots, spent>>

\* The file cannot be opened: the reservation stays.
OpenFails(g) ==
  /\ thr[g].pc = "reserved"
  /\ thr' = [thr EXCEPT ![g].pc = "leave"]
  /\ UNCHANGED <<clock, file, budget, slots, spent>>

\* Fault: a client that breaks the connection keeps its slot.
DoneUnlessBroken(g) ==
  /\ thr[g].pc \in {"stream", "leave"}
  /\ \/ slots' = slots + 1
     \/ thr[g].pc = "stream" /\ UNCHANGED slots
  /\ thr' = [thr EXCEPT ![g] = Idle]
  /\ UNCHANGED <<clock, file, budget, spent>>

\* The response went out, or broke off, or there was none: the slot returns.
Done(g) ==
  /\ thr[g].pc \in {"stream", "leave"}
  /\ slots' = slots + 1
  /\ thr' = [thr EXCEPT ![g] = Idle]
  /\ UNCHANGED <<clock, file, budget, spent>>

-----------------------------------------------------------------------------
(* The rest of the service, and the host.                                  *)

\* Fault: publishing and eviction do not take "results".
ReplaceUnlocked ==
  /\ file' \in (Sizes \cup {0}) \ {file}
  /\ UNCHANGED <<clock, budget, slots, thr, spent>>

\* make_result() publishes the result anew, or prune_results() evicts it.
Replace ==
  /\ \A g \in Threads : thr[g].pc \notin Sharing
  /\ file' \in (Sizes \cup {0}) \ {file}
  /\ UNCHANGED <<clock, budget, slots, thr, spent>>

\* Midnight, or an operator or NTP sets the clock, back too.
SetClock ==
  /\ clock' \in Days \ {clock}
  /\ UNCHANGED <<file, budget, slots, thr, spent>>

\* Fault: the budget lives in the process.
RestartForgetting ==
  /\ thr' = [g \in Threads |-> Idle]
  /\ slots' = Slots
  /\ budget' = [day |-> 0, total |-> 0, clients |-> Nothing]
  /\ UNCHANGED <<clock, file, spent>>

\* The process dies at any point and is started again.
Restart ==
  /\ thr' = [g \in Threads |-> Idle]
  /\ slots' = Slots
  /\ UNCHANGED <<clock, file, budget, spent>>

ThreadStep(g) ==
  \/ Lock(g) \/ Missing(g) \/ Measure(g) \/ Reserve(g) \/ Refused(g)
  \/ Open(g) \/ OpenFails(g) \/ Done(g)

Next ==
  \/ \E g \in Threads : ThreadStep(g) \/ \E id \in Identities : Acquire(g, id)
  \/ Replace \/ SetClock \/ Restart

Spec == Init /\ [][Next]_vars

-----------------------------------------------------------------------------
(* Properties                                                              *)

\* The budget file accounts for everything let go on its day, so "interrupted
\* transfers still count" (hosted-service/README.md) whatever crashes.
BudgetCoversSpent ==
  \A d \in Days :
    /\ d = budget.day => /\ budget.total = spent[d][Total]
                         /\ \A k \in Keys : budget.clients[k] = spent[d][k]
    /\ d > budget.day => \A k \in Keys \cup {Total} : spent[d][k] = 0

\* On no day does the service as a whole exceed its budget, nor a token or an
\* address its own, although threads race, the process restarts, the day ends
\* between reading the clock and locking, and the clock is set back.
DailyLimits ==
  \A d \in Days : /\ spent[d][Total] <= GlobalLimit
                  /\ \A k \in Keys : spent[d][k] <= ClientLimit

\* The Content-Length announced is the size of the file that is sent, although
\* results are replaced and evicted all the time.
LengthMatches == \A g \in Threads : thr[g].pc = "stream" => thr[g].opened = thr[g].size

\* Both download slots come back, on every way out of do_GET.
SlotsConserved ==
  slots + Cardinality({g \in Threads : thr[g].pc # "idle"}) = Slots

\* The budget file never goes back to an earlier day, and within a day it
\* never shrinks: setting the clock back buys nobody a second budget.
BudgetForward ==
  [][/\ budget.day <= budget'.day
     /\ budget.day = budget'.day => /\ budget.total <= budget'.total
                                    /\ \A k \in Keys : budget.clients[k] <= budget'.clients[k]]_vars
=============================================================================
