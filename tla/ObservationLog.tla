--------------------------- MODULE ObservationLog ---------------------------
(***************************************************************************)
(* What bronze promises the layers above it: for every entity, the         *)
(* contents that were ever observed and the order they were first observed *)
(* in.  The log only grows at its end: an observation never disappears,    *)
(* and never moves.                                                        *)
(***************************************************************************)
CONSTANTS Entities, Contents

VARIABLES known,   \* known[e]: the contents observed of e
          before   \* before[e]: the pairs <<c, d>>, c first observed before d

log == <<known, before>>

Init ==
    /\ known  = [e \in Entities |-> {}]
    /\ before = [e \in Entities |-> {}]

\* A content not seen before becomes the newest observation of e.
Observe(e, c) ==
    /\ c \notin known[e]
    /\ known'  = [known  EXCEPT ![e] = @ \cup {c}]
    /\ before' = [before EXCEPT ![e] = @ \cup (known[e] \X {c})]

Next == \E e \in Entities, c \in Contents : Observe(e, c)

Spec == Init /\ [][Next]_log
=============================================================================
