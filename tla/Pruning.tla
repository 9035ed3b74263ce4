------------------------------ MODULE Pruning -------------------------------
(***************************************************************************)
(* The memory of the events: the records of one LP and of the thread that  *)
(* runs it, on the doubly linked lists queue_in, to_remove_local_evts,     *)
(* to_remove_local_evts_old and freed_local_evts (fetch.c, state.c,        *)
(* core.c).  A record is used again when no event that was sent by its     *)
(* event can still be in the calendar queue ("max_outgoing_ts ... used for *)
(* garbage collection of msg_t due to lazy invalidation", events.h:47):    *)
(* is_valid looks at the record of the father.                             *)
(*                                                                         *)
(* list.h, the calendar queue and nbc_prune are not part of the            *)
(* repository; they are modelled by how they are used.                     *)
(***************************************************************************)
EXTENDS Integers, Sequences, FiniteSets, Functions

CONSTANTS
  Msg,    \* the records
  NULL,
  MaxTs   \* bound on the timestamps

ASSUME NullAssumption == NULL \notin Msg
ASSUME MaxTsAssumption == MaxTs \in Nat \ {0}
ASSUME MsgAssumption == IsFiniteSet(Msg) /\ Cardinality(Msg) >= 2

List == {"in", "remove", "old", "freed"}
Ptr  == Msg \cup {NULL}

VARIABLES
  links,   \* next and prev of the records, head and tail of the lists
  node,    \* records with a node in the calendar queue
  marked,  \* records of events that are not valid
  ts,      \* timestamp
  most,    \* max_outgoing_ts
  father,  \* father
  window,  \* io_forward_window: empty, written in this life, left by to_msg
  bound,   \* LPS[lp]->bound
  gvt      \* a bound for the calendar queue, and what prune is called with

vars == <<links, node, marked, ts, most, father, window, bound, gvt>>

TypeOK ==
  /\ links \in [next : [Msg -> Ptr], prev : [Msg -> Ptr], head : [List -> Ptr], tail : [List -> Ptr]]
  /\ node \subseteq Msg /\ marked \subseteq Msg
  /\ ts \in [Msg -> 0 .. MaxTs] /\ most \in [Msg -> 0 .. MaxTs]
  /\ father \in [Msg -> Ptr] /\ window \in [Msg -> {"none", "own", "last"}]
  /\ bound \in Msg /\ gvt \in 0 .. MaxTs + 1
-----------------------------------------------------------------------------
(* The lists.                                                              *)

\* The records of a list, in order.
Chain(L, l) ==
  LET from[m \in Ptr] == IF m = NULL THEN <<>> ELSE <<m>> \o from[L.next[m]]
  IN  from[L.head[l]]

On(L, l) == Range(Chain(L, l))

\* Records on no list: with the calendar queue alone, or never allocated.
Loose(L) == Msg \ UNION {On(L, l) : l \in List}

\* list_node_clean_by_content.
CleanNode(L, m) == [L EXCEPT !.next[m] = NULL, !.prev[m] = NULL]

\* list_insert_tail_by_contents: the records from .. to, linked already.
InsertTail(L, l, from, to) ==
  LET linked == [L EXCEPT !.prev[from] = L.tail[l], !.next[to] = NULL, !.tail[l] = to]
  IN  IF L.tail[l] = NULL THEN [linked EXCEPT !.head[l] = from]
                          ELSE [linked EXCEPT !.next[L.tail[l]] = from]

\* list_place_after_given_node_by_content.
PlaceAfter(L, l, m, b) ==
  LET placed == [L EXCEPT !.prev[m] = b, !.next[m] = L.next[b], !.next[b] = m]
  IN  IF L.next[b] = NULL THEN [placed EXCEPT !.tail[l] = m]
                          ELSE [placed EXCEPT !.prev[L.next[b]] = m]

\* Mutant: the list from the right does not learn about it.
UnlinkHalf(L, l, from, to) ==
  IF L.prev[from] # NULL THEN [L EXCEPT !.next[L.prev[from]] = L.next[to]]
                         ELSE [L EXCEPT !.head[l] = L.next[to]]

\* The records from .. to leave a list (prune_local_queue_with_ts, and
\* list_extract_given_node for one record).
Unlink(L, l, from, to) ==
  LET left == IF L.prev[from] # NULL THEN [L EXCEPT !.next[L.prev[from]] = L.next[to]]
                                     ELSE [L EXCEPT !.head[l] = L.next[to]]
  IN  IF L.next[to] # NULL THEN [left EXCEPT !.prev[L.next[to]] = L.prev[from]]
                           ELSE [left EXCEPT !.tail[l] = L.prev[from]]

\* Records never used.
Fresh(L) == Loose(L) \ node

\* The first record of freed_local_evts is used again; if there is none, a new
\* one is allocated (list_allocate_node_buffer_from_list).
Allocatable(L) ==
  IF L.head["freed"] # NULL THEN {L.head["freed"]}
                             ELSE {m \in Fresh(L) : m = CHOOSE f \in Fresh(L) : TRUE}

\* allocate_event. The window is not touched.
Allocate(L, m) ==
  IF L.head["freed"] = m THEN CleanNode(Unlink(L, "freed", m, m), m) ELSE CleanNode(L, m)

\* The records of queue_in up to m.
Upto(m) ==
  LET q == Chain(links, "in")
  IN  {q[i] : i \in {j \in DOMAIN q : \E k \in DOMAIN q : j <= k /\ q[k] = m}}

Executed == Upto(bound)

\* No two events of the LP are simultaneous.
Unused(t) == \A m \in node \cup On(links, "in") : ts[m] # t

Children(m) == {c \in node : father[c] = m}
Larger(i, j) == IF i < j THEN j ELSE i
-----------------------------------------------------------------------------
\* init_simulation: the INIT event is executed.
Init ==
  LET init == CHOOSE m \in Msg : TRUE IN
    /\ links = LET empty == [next |-> [m \in Msg |-> NULL], prev |-> [m \in Msg |-> NULL],
                             head |-> [l \in List |-> NULL], tail |-> [l \in List |-> NULL]]
               IN  InsertTail(empty, "in", init, init)
    /\ bound = init /\ gvt = 0
    /\ node = {} /\ marked = {}
    /\ ts = [m \in Msg |-> 0] /\ most = ts
    /\ father = [m \in Msg |-> NULL]
    /\ window = [m \in Msg |-> IF m = init THEN "own" ELSE "none"]

\* A new event from another LP.
Send(c, t) ==
  /\ c \in Allocatable(links) /\ gvt < t /\ Unused(t)
  /\ links' = Allocate(links, c)
  /\ node' = node \cup {c} /\ marked' = marked \ {c}
  /\ ts' = [ts EXCEPT ![c] = t] /\ most' = [most EXCEPT ![c] = t]
  /\ father' = [father EXCEPT ![c] = NULL]
  /\ UNCHANGED <<window, bound, gvt>>

\* A record that is not needed after all (deallocate_event).
Deallocate(c) ==
  /\ c \in Allocatable(links)
  /\ links' = InsertTail(CleanNode(Allocate(links, c), c), "freed", c, c)
  /\ UNCHANGED <<node, marked, ts, most, father, window, bound, gvt>>

\* The sender, in another LP, is rolled back.
Invalidate(c) ==
  /\ c \in node \ marked /\ father[c] = NULL /\ gvt < ts[c]
  /\ marked' = marked \cup {c}
  /\ UNCHANGED <<links, node, ts, most, father, window, bound, gvt>>

AdvanceGvt ==
  /\ gvt <= MaxTs /\ \A m \in node : gvt < ts[m]
  /\ gvt' = gvt + 1
  /\ UNCHANGED <<links, node, marked, ts, most, father, window, bound>>

\* A straggler or an anti-message: the bound goes back before it.
Rollback(m) ==
  /\ m \in node
  /\ \/ m \notin marked /\ m \in Loose(links) /\ ts[m] < ts[bound]
        /\ bound' \in {b \in Executed : ts[b] <= ts[m]}
        /\ links.next[bound'] \in {b \in Executed : ts[m] < ts[b]}
        /\ UNCHANGED node
     \/ m \in marked /\ m \in Executed
        /\ bound' = links.prev[m] /\ node' = node \ {m}
  /\ UNCHANGED <<links, marked, ts, most, father, window, gvt>>

\* The next event is executed, again or for the first time, and sends one or
\* none; what it sent before is no longer valid.
Execute(m, c, t) ==
  LET after == links.next[bound]
      placed == IF m = after THEN links ELSE PlaceAfter(CleanNode(links, m), "in", m, bound)
  IN  /\ m \in node \ marked
      /\ \/ m = after
         \/ /\ m \in Loose(links) /\ ts[bound] <= ts[m]
            /\ after # NULL => after \notin marked /\ ts[m] < ts[after]
      /\ bound' = m
      /\ window' = [window EXCEPT ![m] = "own"]
      /\ IF c = NULL
           THEN /\ links' = placed /\ marked' = marked \cup Children(m)
                /\ UNCHANGED <<node, ts, most, father>>
           ELSE /\ c \in Allocatable(placed) /\ ts[m] < t /\ Unused(t)
                /\ links' = Allocate(placed, c)
                /\ node' = node \cup {c} /\ marked' = (marked \cup Children(m)) \ {c}
                /\ ts' = [ts EXCEPT ![c] = t]
                /\ most' = [most EXCEPT ![c] = t, ![m] = Larger(@, t)]
                /\ father' = [father EXCEPT ![c] = m]
      /\ UNCHANGED gvt

\* commit_event.
Commit(m) ==
  /\ m \in node \ marked /\ m \in Executed /\ ts[m] <= gvt
  /\ node' = node \ {m}
  /\ UNCHANGED <<links, marked, ts, most, father, window, bound, gvt>>

\* Mutant: the output of the undone event stays with its record.
FetchDropKeeps ==
  LET d == links.next[bound]
  IN  /\ d # NULL /\ d \in marked
      /\ links' = InsertTail(CleanNode(Unlink(links, "in", d, d), d), "remove", d, d)
      /\ marked' = marked \cup Children(d)
      /\ UNCHANGED <<node, ts, most, father, window, bound, gvt>>

\* fetch_internal drops an invalid event behind the bound; those it sent are no
\* longer valid either.
FetchDrop ==
  LET d == links.next[bound]
  IN  /\ d # NULL /\ d \in marked
      /\ links' = InsertTail(CleanNode(Unlink(links, "in", d, d), d), "remove", d, d)
      /\ window' = [window EXCEPT ![d] = "none"]
      /\ marked' = marked \cup Children(d)
      /\ UNCHANGED <<node, ts, most, father, bound, gvt>>

\* fetch_internal removes the node of an invalid event; one that was never
\* extracted is not needed any more.
RemoveNode(m) ==
  /\ m \in node \cap marked /\ m \notin Executed
  /\ node' = node \ {m}
  /\ links' = IF m \in Loose(links) THEN InsertTail(CleanNode(links, m), "remove", m, m) ELSE links
  /\ UNCHANGED <<marked, ts, most, father, window, bound, gvt>>

\* Mutant: the tail is not moved.
SpliceKeepsTail(L, first) ==
  LET from == L.head["in"]  to == L.prev[first]
      cut  == [L EXCEPT !.head["in"] = first, !.prev[first] = NULL, !.next[to] = NULL,
                        !.prev[from] = L.tail["remove"]]
  IN  IF L.tail["remove"] # NULL THEN [cut EXCEPT !.next[L.tail["remove"]] = from]
                                 ELSE [cut EXCEPT !.head["remove"] = from]

\* clean_checkpoint: the queue starts at first, what was before it is hooked to
\* to_remove_local_evts.
Splice(L, first) ==
  LET from == L.head["in"]  to == L.prev[first]
      cut  == [L EXCEPT !.head["in"] = first, !.prev[first] = NULL, !.next[to] = NULL,
                        !.prev[from] = L.tail["remove"], !.tail["remove"] = to]
  IN  IF L.tail["remove"] # NULL THEN [cut EXCEPT !.next[L.tail["remove"]] = from]
                                 ELSE [cut EXCEPT !.head["remove"] = from]

\* Mutant: the event of the checkpoint need not be committed.
CleanCheckpointUnsafe(first) ==
  LET thrown == Upto(first) \ {first}
  IN  /\ first \in Executed /\ links.prev[first] # NULL
      /\ thrown \cap node = {}
      /\ links' = Splice(links, first)
      /\ window' = [m \in Msg |->
           IF m \in thrown /\ window[m] # "none"
             THEN IF m = links.prev[first] THEN "last" ELSE "none"
             ELSE window[m]]
      /\ UNCHANGED <<node, marked, ts, most, father, bound, gvt>>

\* first is the event of a checkpoint before the horizon. reversibleio_collect
\* takes the windows before it, except that of to_msg.
CleanCheckpoint(first) ==
  LET thrown == Upto(first) \ {first}
  IN  /\ first \in Executed \ node /\ links.prev[first] # NULL
      /\ thrown \cap node = {}
      /\ links' = Splice(links, first)
      /\ window' = [m \in Msg |->
           IF m \in thrown /\ window[m] # "none"
             THEN IF m = links.prev[first] THEN "last" ELSE "none"
             ELSE window[m]]
      /\ UNCHANGED <<node, marked, ts, most, father, bound, gvt>>

\* nbc_prune: what is to be removed is old from now on.
Age ==
  LET from == links.head["remove"]  to == links.tail["remove"]
  IN  /\ from # NULL
      /\ links' = InsertTail([links EXCEPT !.head["remove"] = NULL, !.tail["remove"] = NULL],
                             "old", from, to)
      /\ UNCHANGED <<node, marked, ts, most, father, window, bound, gvt>>

\* Mutant: the test of the timestamp is not strict.
CollectableLate(m) == most[m] <= gvt

\* No event this one sent is in the calendar queue any more.
Collectable(m) == most[m] < gvt

\* Mutant: only the head of the list is looked at.
RunAtHead(q, i, j) ==
  /\ i = 1 /\ i <= j
  /\ \A k \in i .. j : Collectable(q[k])
  /\ j < Len(q) => ~Collectable(q[j + 1])

\* q[i] .. q[j] is the first run of collectable records.
Run(q, i, j) ==
  /\ i <= j
  /\ \A k \in 1 .. i - 1 : ~Collectable(q[k])
  /\ \A k \in i .. j : Collectable(q[k])
  /\ j < Len(q) => ~Collectable(q[j + 1])

\* prune_local_queue_with_ts: the first run becomes free. The walk goes on from
\* the record behind it, which is no longer known once the run was inserted.
Prune ==
  LET q == Chain(links, "old")
  IN  \E i, j \in DOMAIN q :
        /\ Run(q, i, j)
        /\ links' = InsertTail(Unlink(links, "old", q[i], q[j]), "freed", q[i], q[j])
        /\ UNCHANGED <<node, marked, ts, most, father, window, bound, gvt>>
-----------------------------------------------------------------------------
Next ==
  \/ \E c \in Msg, t \in 1 .. MaxTs : Send(c, t)
  \/ \E c \in Msg : Deallocate(c) \/ Invalidate(c)
  \/ AdvanceGvt
  \/ \E m \in Msg : Rollback(m) \/ Commit(m) \/ RemoveNode(m) \/ CleanCheckpoint(m)
  \/ \E m \in Msg, c \in Ptr, t \in 1 .. MaxTs : (c = NULL => t = 1) /\ Execute(m, c, t)
  \/ FetchDrop \/ Age \/ Prune

Spec == Init /\ [][Next]_vars

\* nbc_prune is called in every turn of thread_loop.
FairSpec == Spec /\ WF_vars(Prune)
-----------------------------------------------------------------------------
(* Properties.                                                             *)

\* After every piece of pointer surgery the lists are lists: head to tail and
\* back, and no record is on two of them.
Linked ==
  /\ \A l \in List :
       LET q == Chain(links, l)
       IN  IF q = <<>> THEN links.tail[l] = NULL
           ELSE /\ links.tail[l] = q[Len(q)] /\ links.prev[q[1]] = NULL
                /\ links.next[q[Len(q)]] = NULL
                /\ \A i \in 1 .. Len(q) - 1 : links.prev[q[i + 1]] = q[i]
  /\ \A k, l \in List : k # l => On(links, k) \cap On(links, l) = {}

\* No record is free, so none is used again, while the calendar queue holds its
\* node or an event it is the father of: lazy invalidation looks at the father.
FatherKept ==
  \A c \in node : c \notin On(links, "freed") /\ father[c] \notin On(links, "freed")

\* A record comes to its next life without the output of an event that was
\* undone; only what clean_checkpoint leaves in to_msg is carried over.
NoStrayWindow == \A m \in Msg \ On(links, "in") : window[m] # "own"

\* Although a call frees one run only, every old record is freed in the end.
Reclaimed ==
  \A m \in Msg : m \in On(links, "old") /\ Collectable(m) ~> m \notin On(links, "old")

\* The pointers implement the sequences of AbstractPool.
Pool == INSTANCE AbstractPool WITH
  queue <- Chain(links, "in"), remove <- Chain(links, "remove"),
  old <- Chain(links, "old"), freed <- Chain(links, "freed")
ImplementsPool == Pool!Spec
=============================================================================
