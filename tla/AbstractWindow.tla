--------------------------- MODULE AbstractWindow ---------------------------
(***************************************************************************)
(* What the forward window of one logical process promises, with no        *)
(* pointers in it.  The worker that holds the LP's lock hands the output   *)
(* operations of committed events over in order; the main process takes    *)
(* them out in the same order.  Operations are numbered from 1, so the     *)
(* window is two counters.  One operation always stays inside: the list    *)
(* never gives up its last element (non_blocking_list.c:66, 72), and its   *)
(* key is what the heap sorts the LP by.                                   *)
(***************************************************************************)
EXTENDS Naturals

VARIABLES
  handed,   \* operations handed over so far: 1..handed
  taken     \* operations taken out so far:   1..taken

vars == <<handed, taken>>

Init == handed = 0 /\ taken = 0

\* One event's output, one operation or more, is handed over at once.
Hand == handed' \in Nat /\ handed' > handed /\ UNCHANGED taken

Take == taken + 1 < handed /\ taken' = taken + 1 /\ UNCHANGED handed

Next == Hand \/ Take

Spec == Init /\ [][Next]_vars
=============================================================================
