---------------------------- MODULE AbstractHeap ----------------------------
(***************************************************************************)
(* What the heap of forward windows promises: it holds each payload once,  *)
(* with the key it was last given, and between two calls its root is a     *)
(* payload with a best key.                                                *)
(***************************************************************************)
EXTENDS Integers

CONSTANTS
  Payload,
  MaxKey,   \* bound on the keys
  MinHeap   \* TRUE for MIN_HEAP, FALSE for MAX_HEAP

VARIABLES
  keys,   \* the key of each payload, Absent for one that is not in the heap
  root    \* the payload at the root, Absent while the heap is empty

vars == <<keys, root>>

Key    == 0 .. MaxKey
Absent == -1

Better(k, l) == IF MinHeap THEN k < l ELSE k > l

\* The payloads that may be at the root.
BestOf(ks) ==
  {p \in Payload : /\ ks[p] # Absent
                   /\ \A q \in Payload : ks[q] # Absent => ~Better(ks[q], ks[p])}

Init == keys = [p \in Payload |-> Absent] /\ root = Absent

\* A payload is added, or its key is changed.
Give(p, k) == keys' = [keys EXCEPT ![p] = k] /\ root' \in BestOf(keys')

Next == \E p \in Payload, k \in Key : Give(p, k)

Spec == Init /\ [][Next]_vars
=============================================================================
