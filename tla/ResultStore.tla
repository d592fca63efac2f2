---------------------------- MODULE ResultStore ----------------------------
(* What the result cache of the hosted service promises: a store of whole   *)
(* results that gives up the one first which was used least recently or,    *)
(* if it was never used, made least recently.  A result has its place in    *)
(* that order from its making; becoming visible does not renew it.          *)
(* HostedCache, where a result is two files on a disk shared by two         *)
(* processes that crash between any two system calls, implements the store  *)
(* (HostedCache!Store).                                                     *)

CONSTANTS Requests, Whole   \* the request identities, the content of each

VARIABLES
  content,   \* what a client finds under each request; Absent if nothing
  making,    \* the results begun and not visible yet
  older      \* the pairs <<q, r>> of results kept or begun of which q was
             \* last used, or worked on, before r was

storeVars == <<content, making, older>>

Absent == {}

Kept == {r \in Requests : content[r] # Absent}

Init == /\ content = [r \in Requests |-> Absent]
        /\ making = {}
        /\ older = {}

\* The pairs of the results outside S.
Without(S) == {p \in older : {p[1], p[2]} \cap S = {}}

\* r becomes the result that was used or worked on last.
Renewed(r) == Without({r}) \cup (((Kept \cup making) \ {r}) \X {r})

\* A piece of r is made.
Make(r) == /\ content[r] = Absent
           /\ making' = making \cup {r}
           /\ older' = Renewed(r)
           /\ UNCHANGED content

\* What was begun comes to nothing, for all of a process at once if it dies.
GiveUp(S) == /\ making' = making \ S
             /\ older' = Without(S)
             /\ UNCHANGED content

\* A result becomes visible at once and as a whole, and keeps its place.
Put(r) == /\ r \in making
          /\ content' = [content EXCEPT ![r] = Whole[r]]
          /\ making' = making \ {r}
          /\ UNCHANGED older

\* A second request for a visible result renews it.
Use(r) == /\ content[r] # Absent
          /\ older' = Renewed(r)
          /\ UNCHANGED <<content, making>>

\* Of the results kept only the least recently used or made one is given up.
Evict(r) == /\ content[r] # Absent
            /\ \A q \in Kept : <<q, r>> \notin older
            /\ content' = [content EXCEPT ![r] = Absent]
            /\ older' = Without({r})
            /\ UNCHANGED making

Next == \/ \E r \in Requests : Make(r) \/ Put(r) \/ Use(r) \/ Evict(r)
        \/ \E S \in SUBSET making : GiveUp(S)

Spec == Init /\ [][Next]_storeVars
=============================================================================
