--------------------------- MODULE NonBlockingList --------------------------
(***************************************************************************)
(* The lock-free list of non_blocking_list.c as the reversible I/O layer   *)
(* uses it for one logical process: the LP's io_forward_window, shared by  *)
(*   - the collector, whichever worker holds the LP's lock: it fills the   *)
(*     window of an event and merges it into the shared list;              *)
(*   - the main process, which pops and peeks at the shared list.          *)
(* Neither takes a lock for the list.  Each step below reads or writes the *)
(* shared fields (head, tail, next of a linked node) at most once; what a  *)
(* thread does to memory that only it can see is folded into one step.     *)
(*                                                                         *)
(* The content of a node stands for the iobuffer it carries and for its    *)
(* key: operations are numbered 1, 2, ... in the order of their events,    *)
(* and 0 is NULL, which only dummy nodes carry (line 31 refuses to add a   *)
(* NULL).  Freed cells are reused.                                         *)
(***************************************************************************)
EXTENDS Naturals, FiniteSets

CONSTANTS
  Node,     \* memory cells of type nblist_elem
  NULL,
  MaxOps,   \* bound: how many operations the events of the LP write
  Hazards   \* what the environment may do, a subset of KnownHazards

KnownHazards == {"silent",     \* an event that wrote nothing is collected
                 "oom",        \* rsalloc may return NULL
                 "shutdown"}   \* the list is destroyed under a live collector

ASSUME NodeAssumption == NULL \notin Node
ASSUME MaxOpsAssumption == MaxOps \in Nat
ASSUME HazardsAssumption == Hazards \subseteq KnownHazards

VARIABLES
  next, content,      \* the fields of every cell
  pos,                \* auxiliary: the place of a cell in the order of the ops
  free,               \* cells rsalloc may hand out
  head, tail, old,    \* LPS[lp]->io_forward_window
  src,                \* msg->io_forward_window of the event at hand
  cpc, mpc,           \* where the collector and the main process are
  elem,               \* the cursor of nblist_peek
  key,                \* what the last nblist_peek returned (0: no poll yet)
  handed, popped,     \* history: last op merged, last op returned by a pop
  silenced            \* history: an event that wrote nothing was collected

cells == <<next, content, pos>>
list  == <<head, tail, old>>
vars  == <<next, content, pos, free, head, tail, old, src, cpc, mpc, elem,
           key, handed, popped, silenced>>

OrNull == Node \cup {NULL}

NoWindow == [head |-> NULL, tail |-> NULL, old |-> NULL]

\* Memory a thread may dereference.
Used == Node \ free

\* What rsalloc may return.
Alloc == free \cup (IF "oom" \in Hazards THEN {NULL} ELSE {})

TypeOK ==
  /\ next \in [Node -> OrNull]
  /\ content \in [Node -> Nat]
  /\ pos \in [Node -> Nat]
  /\ free \subseteq Node
  /\ head \in OrNull /\ tail \in OrNull /\ old \in OrNull
  /\ src \in [head : OrNull, tail : OrNull, old : OrNull]
  /\ cpc \in {"run", "fill", "merge", "linked", "reset", "destroy", "stopped"}
  /\ mpc \in {"idle", "test", "take", "peek", "clean", "destroy", "done"}
  /\ elem \in OrNull
  /\ key \in Nat /\ handed \in Nat /\ popped \in Nat
  /\ silenced \in BOOLEAN

\* reversibleio_init has run nblist_init on the LP's window.
Init ==
  \E d \in Node :
    /\ next = [n \in Node |-> NULL]
    /\ content = [n \in Node |-> 0]
    /\ pos = [n \in Node |-> 0]
    /\ free = Node \ {d}
    /\ head = d /\ tail = d /\ old = d
    /\ src = NoWindow
    /\ cpc = "run" /\ mpc = "idle"
    /\ elem = NULL
    /\ key = 0 /\ handed = 0 /\ popped = 0
    /\ silenced = FALSE
-----------------------------------------------------------------------------
(* The collector.                                                          *)

\* Mutant: the memory of a new cell is not cleared.
FreshCellDirty(n, c, p) ==
  /\ UNCHANGED next
  /\ content' = [content EXCEPT ![n] = c]
  /\ pos' = [pos EXCEPT ![n] = p]
  /\ free' = free \ {n}

\* A cell as nblist_init or nblist_add leaves it.
FreshCell(n, c, p) ==
  /\ next' = [next EXCEPT ![n] = NULL]
  /\ content' = [content EXCEPT ![n] = c]
  /\ pos' = [pos EXCEPT ![n] = p]
  /\ free' = free \ {n}

\* The first write of an event finds its window empty and calls nblist_init,
\* whose result is ignored; nblist_add follows in the same call.
InitWindow ==
  /\ cpc = "run" /\ src.head = NULL /\ handed < MaxOps
  /\ \E n \in Alloc :
       IF n = NULL
         THEN src' = [src EXCEPT !.head = NULL] /\ UNCHANGED <<cells, free>>
         ELSE /\ FreshCell(n, 0, 2 * handed + 1)
              /\ src' = [head |-> n, tail |-> n, old |-> n]
  /\ cpc' = "fill"
  /\ UNCHANGED <<list, mpc, elem, key, handed, popped, silenced>>

\* The number of the operation that nblist_add is about to append.
NextOp == IF content[src.tail] = 0 THEN handed + 1 ELSE content[src.tail] + 1

\* nblist_add by the fwrite wrapper, for the first or a later write.
AddOp ==
  /\ cpc = "fill" \/ (cpc = "run" /\ src.head # NULL)
  /\ src.tail \in Used /\ NextOp <= MaxOps
  /\ \E n \in Alloc :
       IF n = NULL
         THEN UNCHANGED <<cells, free, src>>
         ELSE /\ next' = [next EXCEPT ![n] = NULL, ![src.tail] = n]
              /\ content' = [content EXCEPT ![n] = NextOp]
              /\ pos' = [pos EXCEPT ![n] = 2 * NextOp]
              /\ free' = free \ {n}
              /\ src' = [src EXCEPT !.tail = n]
  /\ cpc' = "run"
  /\ UNCHANGED <<list, mpc, elem, key, handed, popped, silenced>>

\* The event is undone (reversibleio_rollback), or written again in another
\* epoch (init_window): its window is destroyed.
Discard ==
  /\ cpc = "run" /\ src.head # NULL
  /\ cpc' = "destroy"
  /\ UNCHANGED <<cells, free, list, src, mpc, elem, key, handed, popped, silenced>>

\* reversibleio_collect reaches the event and calls nblist_merge, also if the
\* event wrote nothing.
MergeStart ==
  /\ cpc = "run" /\ (src.head # NULL \/ "silent" \in Hazards)
  /\ cpc' = "merge" /\ silenced' = (silenced \/ src.head = NULL)
  /\ UNCHANGED <<cells, free, list, src, mpc, elem, key, handed, popped>>

\* What the collector has handed over once this merge is done.
HandedAfter == IF src.tail = NULL THEN handed ELSE content[src.tail]

\* Mutant: the merge publishes the new tail without linking it.
MergeLinkMissing ==
  /\ cpc = "merge" /\ cpc' = "linked"
  /\ UNCHANGED <<cells, free, list, src, mpc, elem, key, handed, popped, silenced>>

\* nblist_merge: the early return, or the write that links the two lists.
MergeLink ==
  /\ cpc = "merge"
  /\ IF tail = NULL
       THEN cpc' = "destroy" /\ handed' = HandedAfter /\ UNCHANGED next
       ELSE /\ tail \in Used
            /\ next' = [next EXCEPT ![tail] = src.head]
            /\ cpc' = "linked" /\ UNCHANGED handed
  /\ UNCHANGED <<content, pos, free, list, src, mpc, elem, key, popped, silenced>>

\* The write that publishes the merged operations.
MergeTail ==
  /\ cpc = "linked"
  /\ tail' = src.tail
  /\ handed' = HandedAfter
  /\ cpc' = "reset"
  /\ UNCHANGED <<cells, free, head, old, src, mpc, elem, key, popped, silenced>>

\* nblist_init of the source: without memory only its head is reset.
MergeReset ==
  /\ cpc = "reset"
  /\ \E n \in Alloc :
       IF n = NULL
         THEN src' = [src EXCEPT !.head = NULL] /\ UNCHANGED <<cells, free>>
         ELSE /\ FreshCell(n, 0, 2 * handed + 1)
              /\ src' = [head |-> n, tail |-> n, old |-> n]
  /\ cpc' = "destroy"
  /\ UNCHANGED <<list, mpc, elem, key, handed, popped, silenced>>

\* Mutant: the loop stops at the last cell.
DestroySourceKeepsTail ==
  /\ cpc = "destroy"
  /\ IF src.old = NULL \/ src.old = src.tail
       THEN src' = NoWindow /\ cpc' = "run" /\ UNCHANGED free
       ELSE /\ src' = [src EXCEPT !.old = next[src.old]]
            /\ free' = free \cup {src.old}
            /\ UNCHANGED cpc
  /\ UNCHANGED <<cells, list, mpc, elem, key, handed, popped, silenced>>

\* nblist_destroy of the event's window, one cell at a time.
DestroySource ==
  /\ cpc = "destroy"
  /\ IF src.old = NULL
       THEN src' = NoWindow /\ cpc' = "run" /\ UNCHANGED free
       ELSE /\ src.old \in Used
            /\ src' = [src EXCEPT !.old = next[src.old]]
            /\ free' = free \cup {src.old}
            /\ UNCHANGED cpc
  /\ UNCHANGED <<cells, list, mpc, elem, key, handed, popped, silenced>>

\* The workers leave thread_loop when the simulation stops.
Stop ==
  /\ cpc = "run" /\ cpc' = "stopped"
  /\ UNCHANGED <<cells, free, list, src, mpc, elem, key, handed, popped, silenced>>
-----------------------------------------------------------------------------
(* The main process.                                                       *)

\* io_heap_poll calls nblist_pop, which gives up at once when head = tail.
PollStart ==
  /\ mpc = "idle" /\ head # NULL /\ head # tail
  /\ mpc' = "test"
  /\ UNCHANGED <<cells, free, list, src, cpc, elem, key, handed, popped, silenced>>

\* Mutant: pop gives up one element too early.
PopTestEarly ==
  /\ mpc = "test"
  /\ mpc' = IF head # tail /\ next[head] # tail THEN "take" ELSE "idle"
  /\ UNCHANGED <<cells, free, list, src, cpc, elem, key, handed, popped, silenced>>

\* The loop test reads tail again; only dummies left: pop returns NULL.
PopTest ==
  /\ mpc = "test"
  /\ mpc' = IF head # tail THEN "take" ELSE "idle"
  /\ UNCHANGED <<cells, free, list, src, cpc, elem, key, handed, popped, silenced>>

\* Mutant: dummies are returned like operations.
PopTakeAny ==
  /\ mpc = "take" /\ head \in Used
  /\ head' = next[head]
  /\ mpc' = "peek" /\ elem' = next[head] /\ popped' = content[head]
  /\ UNCHANGED <<cells, free, tail, old, src, cpc, key, handed, silenced>>

\* head moves on: over a dummy, or over the operation that pop returns, after
\* which io_heap_poll peeks for the LP's new key.
PopTake ==
  /\ mpc = "take" /\ head \in Used
  /\ head' = next[head]
  /\ IF content[head] = 0
       THEN mpc' = "test" /\ UNCHANGED <<elem, popped>>
       ELSE mpc' = "peek" /\ elem' = next[head] /\ popped' = content[head]
  /\ UNCHANGED <<cells, free, tail, old, src, cpc, key, handed, silenced>>

\* Mutant: peek returns the first element, dummy or not.
PeekStepAny ==
  /\ mpc = "peek" /\ elem \in Used
  /\ key' = content[elem] /\ mpc' = "idle"
  /\ UNCHANGED <<cells, free, list, src, elem, cpc, handed, popped, silenced>>

\* nblist_peek skips dummies; io_heap_poll reads the key of what it returns.
PeekStep ==
  /\ mpc = "peek" /\ elem \in Used
  /\ IF content[elem] = 0
       THEN /\ next[elem] # NULL
            /\ elem' = next[elem] /\ UNCHANGED <<key, mpc>>
       ELSE key' = content[elem] /\ mpc' = "idle" /\ UNCHANGED elem
  /\ UNCHANGED <<cells, free, list, src, cpc, handed, popped, silenced>>

\* nblist_clean frees what lies before head.
CleanStart ==
  /\ mpc = "idle" /\ old # head
  /\ mpc' = "clean"
  /\ UNCHANGED <<cells, free, list, src, cpc, elem, key, handed, popped, silenced>>

\* Mutant: clean frees up to the tail.
CleanStepToTail ==
  /\ mpc = "clean"
  /\ IF old = tail
       THEN mpc' = "idle" /\ UNCHANGED <<old, free>>
       ELSE /\ old \in Used
            /\ old' = next[old] /\ free' = free \cup {old} /\ UNCHANGED mpc
  /\ UNCHANGED <<cells, head, tail, src, cpc, elem, key, handed, popped, silenced>>

CleanStep ==
  /\ mpc = "clean"
  /\ IF old = head
       THEN mpc' = "idle" /\ UNCHANGED <<old, free>>
       ELSE /\ old \in Used
            /\ old' = next[old] /\ free' = free \cup {old} /\ UNCHANGED mpc
  /\ UNCHANGED <<cells, head, tail, src, cpc, elem, key, handed, popped, silenced>>

\* reversibleio_destroy; nothing in the code makes it wait for the workers.
Shutdown ==
  /\ mpc = "idle" /\ (cpc = "stopped" \/ "shutdown" \in Hazards)
  /\ mpc' = "destroy"
  /\ UNCHANGED <<cells, free, list, src, cpc, elem, key, handed, popped, silenced>>

DestroyList ==
  /\ mpc = "destroy"
  /\ IF old = NULL
       THEN head' = NULL /\ tail' = NULL /\ mpc' = "done"
            /\ UNCHANGED <<old, free>>
       ELSE /\ old \in Used
            /\ old' = next[old] /\ free' = free \cup {old}
            /\ UNCHANGED <<head, tail, mpc>>
  /\ UNCHANGED <<cells, src, cpc, elem, key, handed, popped, silenced>>

\* The program has ended.
Ended == mpc = "done" /\ cpc = "stopped" /\ UNCHANGED vars
-----------------------------------------------------------------------------
Collector == \/ InitWindow \/ AddOp \/ Discard \/ Stop
             \/ MergeStart \/ MergeLink \/ MergeTail \/ MergeReset \/ DestroySource

Main == \/ PollStart \/ PopTest \/ PopTake \/ PeekStep
        \/ CleanStart \/ CleanStep \/ Shutdown \/ DestroyList

Next == Collector \/ Main \/ Ended

Spec == Init /\ [][Next]_vars

\* The main process goes on inside io_heap_poll. Nothing is assumed of the
\* collector, which may stop in the middle of a merge, nor of how often
\* reversibleio_execute polls this window.
Fairness == WF_vars(PopTest) /\ WF_vars(PopTake) /\ WF_vars(PeekStep)

FairSpec == Spec /\ Fairness
-----------------------------------------------------------------------------
(* Properties.                                                             *)

\* A thread that is about to follow a pointer (tail->next, source->tail->next,
\* elem->next, nblist_peek(...)->key, the walks of clean and destroy) holds
\* one to memory that is still allocated, whatever the other thread did since
\* it read it.
NoFault ==
  /\ cpc = "fill" => src.tail \in Used
  /\ cpc = "merge" /\ tail # NULL => tail \in Used
  /\ cpc = "destroy" /\ src.old # NULL => src.old \in Used
  /\ mpc = "take" => head \in Used
  /\ mpc = "peek" => elem \in Used /\ (content[elem] = 0 => next[elem] # NULL)
  /\ mpc = "clean" => head \in Used /\ old \in Used
  /\ mpc = "destroy" /\ old # NULL => old \in Used

\* Every operation the collector handed over and the main process has not
\* popped yet is in a live cell: merge, destroy and clean lose no output.
HandedKept ==
  mpc \notin {"destroy", "done"} =>
    \A k \in (popped + 1) .. handed : \E n \in Used : content[n] = k

\* Between two polls the key the heap holds for the LP is the key of the
\* operation the next poll will return.
KeyIsNext == mpc \in {"idle", "test", "take", "clean"} /\ popped > 0
                => key = popped + 1

\* The list is never empty: the dummy nodes are there "to avoid having the
\* list empty" (non_blocking_list.h:18).
NeverEmpty == mpc \notin {"destroy", "done"} => head # NULL /\ tail # NULL

\* What the event's window still holds when nblist_destroy walks it is not
\* part of the LP's list: "the source nblist will be reinitialized"
\* (non_blocking_list.h:58).
SourceReset == cpc = "destroy" /\ src.old # NULL => pos[src.old] > pos[tail]

\* Pops return the operations one by one, in the order they were handed
\* over: none is skipped, none is returned twice.
PopsInOrder == [][popped' # popped => popped' = popped + 1]_vars

\* The list implements the window of AbstractWindow: merges hand over, pops
\* take, and everything else is invisible.
Window == INSTANCE AbstractWindow WITH taken <- popped
ImplementsWindow == Window!Spec

\* When the program has ended with no window pending every cell is free again.
NoLeak == mpc = "done" /\ src = NoWindow => free = Node

\* A poll that begins, or goes on, with an operation behind the next one
\* returns that one and finds the key after it, wherever the collector is.
Delivery ==
  \A k \in 0 .. MaxOps :
    (mpc = "test" /\ popped = k /\ handed > k + 1) ~> (mpc = "idle" /\ popped > k)

\* Whatever the events before it were, it is the collection of an event that
\* wrote nothing, and nothing else, that takes the list its elements and its
\* promises: until then it is not empty, nothing is lost, the key is right, and
\* no pointer leads to freed memory.
SafeUntilSilent ==
  ~silenced => NeverEmpty /\ SourceReset /\ NoFault /\ HandedKept /\ KeyIsNext
=============================================================================
