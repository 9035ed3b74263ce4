------------------------------ MODULE Wrappers ------------------------------
(***************************************************************************)
(* The calls the simulated model makes to write (wrappers.c), the buffers  *)
(* in which they are kept (iobuffer.c), and the memory they point to, from *)
(* the call to the moment the buffer is destroyed.  One event runs at a    *)
(* time; when it is collected the next one takes its place.                *)
(*                                                                         *)
(* A block of memory has an owner and a text.  fwrite and puts take any    *)
(* pointer the caller holds, as those of the C library do: to memory it    *)
(* has allocated, to a literal or a buffer on its stack, to a block passed *)
(* before; and whatever it passed the caller may write to, pass again or   *)
(* free.  Texts stand for the bytes; that printf also writes the           *)
(* terminating NUL, and puts the NUL and the byte behind it but no         *)
(* newline, is left out.                                                   *)
(***************************************************************************)
EXTENDS Integers, Sequences, SequencesExt

CONSTANTS
  Pipe,      \* streams whose ftell fails with ESPIPE
  File,      \* streams that can seek, or are closed
  Stdout,    \* where puts and printf write
  Block,     \* memory: what rsalloc hands out, and the caller's own
  Static,    \* the blocks of it that no allocator gave: literals, the stack
  Text,
  Position,  \* what ftell may find in a File
  IntMax,    \* INT_MAX: an int has 2 * (IntMax + 1) values
  MaxEpoch,  \* bound on the executions of the events
  MaxCalls   \* bound on the accepted calls and the misused blocks, together

ASSUME StreamAssumption == Stdout \in Pipe \cup File
ASSUME DisjointAssumption == Pipe \cap File = {}
ASSUME StaticAssumption == Static \subseteq Block
ASSUME PositionAssumption == Position \subseteq Nat
ASSUME IntMaxAssumption == IntMax \in Nat
ASSUME MaxEpochAssumption == MaxEpoch \in Nat
ASSUME MaxCallsAssumption == MaxCalls \in Nat

VARIABLES
  owner,    \* of a block: nobody, the caller, given away by it, a copy, static
  text,     \* of a block
  known,    \* blocks to which the caller has a pointer, valid or not
  errno,
  epoch,    \* current_msg->epoch
  forward,  \* io_forward_window of current_msg
  reverse,  \* its io_reverse_window
  lpList,   \* io_forward_window of the LP: buffers still to be written
  done,     \* buffers in it that were written and wait for nblist_clean
  status,   \* the program runs, was shut down, or what made it fault
  accepted, \* history: buffers accepted for a Pipe in this execution
  out,      \* history: what was written, with the text at that moment
  misused   \* history: blocks that were not the caller's to give away, or which
            \*   it used as its own after that

wVars   == <<forward, reverse>>
lpVars  == <<lpList, done, out>>
memVars == <<text, known>>
vars    == <<owner, memVars, errno, epoch, wVars, lpVars, status, accepted, misused>>

Stream == Pipe \cup File
\* An iobuffer; pos is what ftell found, -1 when it failed, and said what printf
\* formatted, "nothing" when the caller did that.
Buffer == [by : {"fwrite", "printf"}, file : Stream, pos : Position \cup {-1},
           buffer : Block, said : Text \cup {"nothing"}]

\* A window that was never initialised, or was destroyed: head is NULL.
NoWindow == [head |-> FALSE, epoch |-> 0, ops |-> <<>>]
Window   == {w \in [head : BOOLEAN, epoch : Nat, ops : Seq(Buffer)] : ~w.head => w.ops = <<>>}

TypeOK ==
  /\ owner \in [Block -> {"nobody", "caller", "given", "copy", "static"}]
  /\ text \in [Block -> Text] /\ known \subseteq Block /\ misused \subseteq Block
  /\ errno \in {"OTHER", "ESPIPE", "ENOMEM"}
  /\ epoch \in Nat
  /\ forward \in Window /\ reverse \in Window
  /\ lpList \in Seq(Buffer) /\ done \in Seq(Buffer)
  /\ status \in {"runs", "shut", "fclose", "free"}
  /\ accepted \in Seq(Buffer)
  /\ out \in Seq([op : Buffer, got : Text])

Init ==
  /\ owner = [b \in Block |-> IF b \in Static THEN "static" ELSE "nobody"]
  /\ text \in [Block -> Text] /\ known = Static /\ misused = {}
  /\ errno = "OTHER" /\ epoch = 1
  /\ forward = NoWindow /\ reverse = NoWindow
  /\ lpList = <<>> /\ done = <<>>
  /\ status = "runs" /\ accepted = <<>> /\ out = <<>>
-----------------------------------------------------------------------------
(* The caller's memory.                                                    *)

\* What the bound counts.
Calls ==
  Len(forward.ops) + Len(reverse.ops) + Len(lpList) + Len(out) + Cardinality(misused)

Misuse(b, wrong) ==
  /\ misused' = IF wrong THEN misused \cup {b} ELSE misused
  /\ misused' = misused \/ Calls < MaxCalls

Take(b, t) ==
  /\ status = "runs" /\ owner[b] = "nobody"
  /\ owner' = [owner EXCEPT ![b] = "caller"] /\ text' = [text EXCEPT ![b] = t]
  /\ known' = known \cup {b}
  /\ UNCHANGED <<errno, epoch, wVars, lpVars, status, accepted, misused>>

\* The caller may write to a block it gave away; once that was destroyed, it
\* writes to memory that is free or somebody else's.
Overwrite(b, t) ==
  /\ status = "runs" /\ b \in known /\ text[b] # t
  /\ text' = [text EXCEPT ![b] = t]
  /\ Misuse(b, owner[b] \in {"nobody", "copy"})
  /\ UNCHANGED <<owner, known, errno, epoch, wVars, lpVars, status, accepted>>

\* free, of a block of its own or of one it gave away: a fault if that was
\* destroyed in the meantime.
Release(b) ==
  /\ status = "runs" /\ b \in known \ Static
  /\ owner' = [owner EXCEPT ![b] = "nobody"] /\ known' = known \ {b}
  /\ status' = IF owner[b] = "nobody" THEN "free" ELSE "runs"
  /\ Misuse(b, owner[b] # "caller")
  /\ UNCHANGED <<text, errno, epoch, wVars, lpVars, accepted>>
-----------------------------------------------------------------------------
(* The calls.                                                              *)

Blocks(ops) == {ops[i].buffer : i \in 1 .. Len(ops)}

\* destroy_iobuffer for every element: the blocks are freed, whoever owns them.
\* Freeing one twice, one that is free, or a literal, is a fault.
Freed(ops, o) == [b \in Block |-> IF b \in Blocks(ops) THEN "nobody" ELSE o[b]]
Frees(ops, o) ==
  IF \/ \E b \in Blocks(ops) : o[b] \in {"nobody", "static"}
     \/ \E i, j \in 1 .. Len(ops) : i # j /\ ops[i].buffer = ops[j].buffer
    THEN "free" ELSE "runs"

\* Mutant: the epochs are not compared.
OpenedOnce(w) == IF w.head THEN [w EXCEPT !.epoch = epoch]
                 ELSE [head |-> TRUE, epoch |-> epoch, ops |-> <<>>]

\* init_window: the elements of a window of another epoch are destroyed.
Stale(w)  == IF w.head /\ w.epoch # epoch THEN w.ops ELSE <<>>
Opened(w) == IF w.head /\ w.epoch = epoch THEN w
             ELSE [head |-> TRUE, epoch |-> epoch, ops |-> <<>>]

\* ftell returns a position and leaves errno alone, or fails and sets it.
Ftell(s) == IF s \in Pipe THEN {<<-1, "ESPIPE">>}
            ELSE {<<p, errno>> : p \in Position} \cup {<<-1, "OTHER">>}

\* A long is kept in an int.
ToInt(n) ==
  LET values == 2 * (IntMax + 1)
      r      == n % values
  IN  IF r > IntMax THEN r - values ELSE r

\* Mutant: the position alone decides.
IsForwardByPosition(fpos, err) == fpos < 0

\* select_and_init_window: errno counts even if ftell did not fail.
IsForward(fpos, err) == fpos < 0 /\ err = "ESPIPE"

\* __wrap_fwrite of block b, in which printf said t; o owns the memory.  A position
\* leaves the buffer without content, which create_iobuffer refuses; so it does,
\* and nblist_add, when there is no memory.
Add(by, s, b, t, o) == \E f \in Ftell(s), enough \in BOOLEAN :
  LET op        == [by |-> by, file |-> s, pos |-> f[1], buffer |-> b, said |-> t]
      fpos      == ToInt(f[1])
      err       == f[2]
      isForward == IsForward(fpos, err)
      window    == IF isForward THEN forward ELSE reverse
      accept    == fpos < 0 /\ enough
      opened    == [Opened(window) EXCEPT !.ops = IF accept THEN Append(@, op) ELSE @]
      given     == [o EXCEPT ![op.buffer] = IF accept /\ @ = "caller" THEN "given" ELSE @]
  IN  /\ IF isForward THEN forward' = opened /\ UNCHANGED reverse
                      ELSE reverse' = opened /\ UNCHANGED forward
      /\ owner' = Freed(Stale(window), given)
      /\ status' = Frees(Stale(window), given)
      /\ errno' = IF accept THEN err ELSE "ENOMEM"
      /\ accepted' = IF accept /\ op.file \in Pipe THEN Append(accepted, op) ELSE accepted
      /\ Misuse(b, accept /\ by # "printf" /\ o[b] # "caller")
      /\ UNCHANGED <<known, epoch, lpVars>>

\* fwrite, and puts, which passes its string on: the pointer is kept.
Fwrite(s, b) ==
  /\ status = "runs" /\ Calls < MaxCalls /\ b \in known
  /\ Add("fwrite", s, b, "nothing", owner)
  /\ UNCHANGED text

Puts(b) == Fwrite(Stdout, b)

\* Mutant: printf formats into memory of the caller.
PrintfInPlace(t) ==
  /\ status = "runs" /\ Calls < MaxCalls
  /\ \E b \in Block :
       /\ owner[b] = "caller"
       /\ text' = [text EXCEPT ![b] = t]
       /\ Add("printf", Stdout, b, t, owner)

\* printf formats into a copy; when the call is refused the copy is lost.
Printf(t) ==
  /\ status = "runs" /\ Calls < MaxCalls
  /\ \E b \in Block :
       /\ owner[b] = "nobody"
       /\ text' = [text EXCEPT ![b] = t]
       /\ Add("printf", Stdout, b, t, [owner EXCEPT ![b] = "copy"])

\* The window is opened, but create_iobuffer refuses a NULL content of length
\* 0; that is the case in which the code goes on and reads buf->timestamp.
Fclose ==
  /\ status = "runs"
  /\ forward' = Opened(forward)
  /\ owner' = Freed(Stale(forward), owner)
  /\ status' = "fclose"
  /\ UNCHANGED <<memVars, misused, errno, epoch, reverse, lpVars, accepted>>
-----------------------------------------------------------------------------
(* What becomes of the windows.                                            *)

\* The event is executed again in a later epoch.
ExecuteAgain ==
  /\ status = "runs" /\ epoch < MaxEpoch
  /\ epoch' = epoch + 1 /\ accepted' = <<>>
  /\ UNCHANGED <<owner, memVars, misused, errno, wVars, lpVars, status>>

\* Mutant: the pointers to the freed elements stay.
DiscardKeeps ==
  /\ status = "runs" /\ forward.head
  /\ owner' = Freed(forward.ops, owner) /\ status' = Frees(forward.ops, owner)
  /\ accepted' = <<>>
  /\ UNCHANGED <<memVars, misused, errno, epoch, wVars, lpVars>>

\* Mutant: only head is set to NULL.
DiscardHead ==
  /\ status = "runs" /\ forward.head
  /\ owner' = Freed(forward.ops, owner) /\ status' = Frees(forward.ops, owner)
  /\ forward' = [forward EXCEPT !.head = FALSE] /\ accepted' = <<>>
  /\ UNCHANGED <<memVars, misused, errno, epoch, reverse, lpVars>>

\* reversibleio_rollback: the event is undone.
Discard ==
  /\ status = "runs" /\ forward.head
  /\ owner' = Freed(forward.ops, owner) /\ status' = Frees(forward.ops, owner)
  /\ forward' = NoWindow /\ accepted' = <<>>
  /\ UNCHANGED <<memVars, misused, errno, epoch, reverse, lpVars>>

\* reversibleio_collect: the LP's list takes the buffers over. The next event
\* has a record of its own; the reverse window of this one is never destroyed.
Collect ==
  /\ status = "runs" /\ forward.head
  /\ lpList' = lpList \o forward.ops
  /\ forward' = NoWindow /\ reverse' = NoWindow /\ accepted' = <<>>
  /\ UNCHANGED <<owner, memVars, misused, errno, epoch, done, status, out>>

\* reversibleio_execute: all but the last buffer may be popped; iobuffer_write
\* writes what the block holds by now.
WriteNext ==
  /\ status = "runs" /\ Len(lpList) > 1
  /\ out' = Append(out, [op |-> Head(lpList), got |-> text[Head(lpList).buffer]])
  /\ done' = Append(done, Head(lpList)) /\ lpList' = Tail(lpList)
  /\ UNCHANGED <<owner, memVars, misused, errno, epoch, wVars, status, accepted>>

\* nblist_clean, up to the head.
Clean ==
  /\ status = "runs" /\ done # <<>>
  /\ owner' = Freed(done, owner) /\ status' = Frees(done, owner)
  /\ done' = <<>>
  /\ UNCHANGED <<memVars, misused, errno, epoch, wVars, lpList, out, accepted>>

\* reversibleio_destroy: from old on, written or not.
Shutdown ==
  /\ status = "runs"
  /\ owner' = Freed(done \o lpList, owner)
  /\ status' = IF Frees(done \o lpList, owner) = "free" THEN "free" ELSE "shut"
  /\ done' = <<>> /\ lpList' = <<>>
  /\ UNCHANGED <<memVars, misused, errno, epoch, wVars, out, accepted>>

Ended == status # "runs" /\ UNCHANGED vars

Next ==
  \/ \E b \in Block : Puts(b) \/ Release(b) \/ \E t \in Text : Take(b, t) \/ Overwrite(b, t)
  \/ \E s \in Stream, b \in Block : Fwrite(s, b)
  \/ \E t \in Text : Printf(t)
  \/ Fclose
  \/ ExecuteAgain \/ Discard \/ Collect \/ WriteNext \/ Clean \/ Shutdown
  \/ Ended

Spec == Init /\ [][Next]_vars
-----------------------------------------------------------------------------
(* Properties.                                                             *)

\* Buffers somebody will still free.
Kept == Range(forward.ops) \cup Range(reverse.ops) \cup Range(lpList) \cup Range(done)

\* What printf formatted is what is written, although the buffer is written
\* long after the call, blocks are reused, and callers overwrite what they gave
\* to the other calls; unless its very block is one that was misused.
PrintfFaithful ==
  /\ \A op \in Kept : op.by = "printf" /\ op.buffer \notin misused =>
       owner[op.buffer] = "copy" /\ text[op.buffer] = op.said
  /\ \A i \in 1 .. Len(out) :
       out[i].op.by = "printf" /\ out[i].op.buffer \notin misused => out[i].got = out[i].op.said

\* The forward window holds the buffers that were accepted in this execution for
\* streams that cannot seek, in order: none refused, none of an execution that
\* was undone, none diverted to the reverse window.
AcceptedKept ==
  LET toPipe == {n \in 1 .. Len(forward.ops) : forward.ops[n].file \in Pipe}
  IN  IF forward.head /\ forward.epoch = epoch
        THEN \E at \in Surjection(1 .. Len(accepted), toPipe) :
               /\ \A m, n \in 1 .. Len(accepted) : m < n => at[m] < at[n]
               /\ \A n \in 1 .. Len(accepted) : accepted[n] = forward.ops[at[n]]
        ELSE accepted = <<>>

\* destroy_iobuffer frees whatever pointer fwrite and puts were given, so a literal,
\* or a block passed twice, is freed wrongly (status "free").  But only a block that
\* was misused is freed twice, or freed while a buffer that is still to be written
\* or destroyed points to it: the others are freed once, also when the event is
\* undone, executed again, refused a write and collected.
MisuseConfined ==
  /\ status = "free" => misused # {}
  /\ status = "runs" => \A op \in Kept : owner[op.buffer] = "nobody" => op.buffer \in misused

\* Output to a stream that can seek is refused or goes to the reverse window,
\* except at a position that does not fit an int, when errno still holds ESPIPE
\* from an earlier call: then it is written like that to a pipe.
SeekableWide ==
  \A op \in Range(forward.ops) \cup Range(lpList) \cup Range(done) \cup {out[i].op : i \in DOMAIN out} :
    op.file \in Pipe \/ op.pos > IntMax
=============================================================================
