---------------------------- MODULE AbstractPool ----------------------------
(***************************************************************************)
(* What the lists of event records promise: a record moves whole, and in   *)
(* order, from the queue of its LP to those to be removed, to the old ones *)
(* and to the free ones, from which it is taken again.                     *)
(***************************************************************************)
EXTENDS Naturals, Sequences

CONSTANT Msg
VARIABLES queue, remove, old, freed

vars == <<queue, remove, old, freed>>

Between(s, a, b) == SubSeq(s, a, b)
Without(s, a, b) == SubSeq(s, 1, a - 1) \o SubSeq(s, b + 1, Len(s))

Init == /\ \E m \in Msg : queue = <<m>>
        /\ remove = <<>> /\ old = <<>> /\ freed = <<>>

Taken(l) == {l[i] : i \in DOMAIN l}
Free == Msg \ (Taken(queue) \cup Taken(remove) \cup Taken(old) \cup Taken(freed))

\* A record in use is queued in its place.
Enter == \E m \in Free, i \in 0 .. Len(queue) :
  /\ queue' = Between(queue, 1, i) \o <<m>> \o Between(queue, i + 1, Len(queue))
  /\ UNCHANGED <<remove, old, freed>>

\* One record, or all up to one, leave the queue.
Leave == \E a, b \in DOMAIN queue :
  /\ a = b \/ a = 1
  /\ queue' = Without(queue, a, b) /\ remove' = remove \o Between(queue, a, b)
  /\ UNCHANGED <<old, freed>>

\* A record that was never queued is to be removed, or free at once.
Return == \E m \in Free :
  /\ \/ remove' = Append(remove, m) /\ UNCHANGED freed
     \/ freed' = Append(freed, m) /\ UNCHANGED remove
  /\ UNCHANGED <<queue, old>>

Age == old' = old \o remove /\ remove' = <<>> /\ UNCHANGED <<queue, freed>>

\* A run of old records becomes free.
Prune == \E a, b \in DOMAIN old :
  /\ a <= b
  /\ old' = Without(old, a, b) /\ freed' = freed \o Between(old, a, b)
  /\ UNCHANGED <<queue, remove>>

Reuse == freed # <<>> /\ freed' = Tail(freed) /\ UNCHANGED <<queue, remove, old>>

\* Taking a free record and queueing the record that made it take it are one
\* step of the code.
ReuseEnter == \E m \in Free, i \in 0 .. Len(queue) :
  /\ freed # <<>> /\ freed' = Tail(freed)
  /\ queue' = Between(queue, 1, i) \o <<m>> \o Between(queue, i + 1, Len(queue))
  /\ UNCHANGED <<remove, old>>

\* A record taken is given back.
Rotate == freed # <<>> /\ freed' = Append(Tail(freed), Head(freed)) /\ UNCHANGED <<queue, remove, old>>

Next == Rotate \/ Enter \/ Leave \/ Return \/ Age \/ Prune \/ Reuse \/ ReuseEnter

Spec == Init /\ [][Next]_vars
=============================================================================
