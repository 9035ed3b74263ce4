--------------------------- MODULE WrappersProofs ---------------------------
(***************************************************************************)
(* Proofs about Wrappers, for any streams, blocks, texts and positions,    *)
(* any width of int, and any number of calls and of executions.            *)
(***************************************************************************)
EXTENDS Wrappers, TLAPS

Owners == {"nobody", "caller", "given", "copy", "static"}

\* No block is in two buffers of a list, but for those of M.
Once(s, M) ==
  \A i, j \in 1 .. Len(s) : i # j /\ s[i].buffer \notin M => s[i].buffer # s[j].buffer

\* A list of buffers that can be written and destroyed, if the blocks have owners
\* o and texts t, but for the blocks of M: each buffer has a block of its own,
\* which was given away or is a copy, and the copies of printf hold what was said.
Sound(s, o, t, M) ==
  /\ s \in Seq(Buffer)
  /\ Once(s, M)
  /\ \A i \in 1 .. Len(s) : s[i].buffer \notin M =>
       /\ o[s[i].buffer] \in {"given", "copy"}
       /\ s[i].by = "printf" => o[s[i].buffer] = "copy" /\ t[s[i].buffer] = s[i].said

Apart(s, r, M) == Blocks(s) \cap Blocks(r) \subseteq M

\* The four lists of buffers share no block, but for those that were misused.
Memory ==
  /\ Sound(forward.ops, owner, text, misused)
  /\ Sound(reverse.ops, owner, text, misused)
  /\ Sound(lpList, owner, text, misused)
  /\ Sound(done, owner, text, misused)
  /\ Apart(forward.ops, reverse.ops, misused)
  /\ Apart(forward.ops, lpList, misused) /\ Apart(forward.ops, done, misused)
  /\ Apart(reverse.ops, lpList, misused) /\ Apart(reverse.ops, done, misused)
  /\ Apart(lpList, done, misused)
  /\ status = "free" => misused # {}

\* What was written is what printf said.
Written ==
  \A i \in 1 .. Len(out) :
    out[i].op.by = "printf" /\ out[i].op.buffer \notin misused => out[i].got = out[i].op.said

\* No window is of an epoch to come.
NotAhead == forward.head => forward.epoch <= epoch

Wide(s) == \A i \in 1 .. Len(s) : s[i].file \in Pipe \/ s[i].pos > IntMax
AllWide ==
  /\ Wide(forward.ops) /\ Wide(lpList) /\ Wide(done)
  /\ \A i \in 1 .. Len(out) : out[i].op.file \in Pipe \/ out[i].op.pos > IntMax

\* The inductive invariant.
IInv == TypeOK /\ Memory /\ Written /\ NotAhead /\ AcceptedKept /\ AllWide
-----------------------------------------------------------------------------
(* Lists of buffers.                                                       *)

LEMMA BlocksEmpty == Blocks(<<>>) = {}
BY DEF Blocks

LEMMA BlocksType == ASSUME NEW s \in Seq(Buffer) PROVE Blocks(s) \subseteq Block
<1>1. \A op \in Buffer : op.buffer \in Block
  BY DEF Buffer
<1>2. \A i \in 1 .. Len(s) : s[i] \in Buffer
  OBVIOUS
<1> QED
  BY <1>1, <1>2 DEF Blocks

LEMMA BlocksAppend ==
  ASSUME NEW s \in Seq(Buffer), NEW e \in Buffer
  PROVE  Blocks(Append(s, e)) = Blocks(s) \cup {e.buffer}
<1>1. Append(s, e) \in Seq(Buffer) /\ Len(Append(s, e)) = Len(s) + 1 /\ Len(s) \in Nat
  OBVIOUS
<1>2. Append(s, e)[Len(s) + 1] = e /\ \A i \in 1 .. Len(s) : Append(s, e)[i] = s[i]
  OBVIOUS
<1>3. ASSUME NEW x PROVE x \in Blocks(Append(s, e)) <=> x \in Blocks(s) \cup {e.buffer}
  BY <1>1, <1>2 DEF Blocks
<1> QED
  BY <1>3, Zenon

LEMMA BlocksConcat ==
  ASSUME NEW s \in Seq(Buffer), NEW r \in Seq(Buffer)
  PROVE  Blocks(s \o r) = Blocks(s) \cup Blocks(r)
<1>1. /\ Len(s \o r) = Len(s) + Len(r) /\ Len(s) \in Nat /\ Len(r) \in Nat
      /\ \A i \in 1 .. Len(s) : (s \o r)[i] = s[i]
  OBVIOUS
<1>2. ASSUME NEW i \in 1 .. Len(r) PROVE (s \o r)[Len(s) + i] = r[i]
  OBVIOUS
<1>3. ASSUME NEW i \in 1 .. Len(s \o r), i > Len(s)
      PROVE  i - Len(s) \in 1 .. Len(r) /\ (s \o r)[i] = r[i - Len(s)]
  <2>1. i - Len(s) \in 1 .. Len(r) /\ Len(s) + (i - Len(s)) = i
    BY <1>1, <1>3
  <2> QED
    BY <1>2, <2>1
<1>4. Blocks(s \o r) \subseteq Blocks(s) \cup Blocks(r)
  <2> SUFFICES ASSUME NEW i \in 1 .. Len(s \o r)
               PROVE  (s \o r)[i].buffer \in Blocks(s) \cup Blocks(r)
    BY DEF Blocks
  <2>1. CASE i <= Len(s)
    BY <1>1, <2>1 DEF Blocks
  <2>2. CASE i > Len(s)
    BY <1>3, <2>2 DEF Blocks
  <2> QED
    BY <1>1, <2>1, <2>2
<1>5. Blocks(s) \subseteq Blocks(s \o r)
  BY <1>1 DEF Blocks
<1>6. Blocks(r) \subseteq Blocks(s \o r)
  <2> SUFFICES ASSUME NEW i \in 1 .. Len(r) PROVE r[i].buffer \in Blocks(s \o r)
    BY DEF Blocks
  <2>1. Len(s) + i \in 1 .. Len(s \o r)
    BY <1>1
  <2> QED
    BY <1>2, <2>1 DEF Blocks
<1> QED
  BY <1>4, <1>5, <1>6, Zenon

LEMMA BlocksTail ==
  ASSUME NEW s \in Seq(Buffer), s # <<>>
  PROVE  /\ Blocks(Tail(s)) \subseteq Blocks(s)
         /\ Head(s).buffer \in Blocks(s)
         /\ \A M : Once(s, M) /\ Head(s).buffer \notin M =>
                    Head(s).buffer \notin Blocks(Tail(s))
<1>1. /\ Len(Tail(s)) = Len(s) - 1 /\ Len(s) \in Nat \ {0} /\ Head(s) = s[1]
      /\ \A i \in 1 .. Len(s) - 1 : Tail(s)[i] = s[i + 1]
  OBVIOUS
<1>2. \A i \in 1 .. Len(s) - 1 : i + 1 \in 1 .. Len(s) /\ i + 1 # 1
  BY <1>1
<1> QED
  BY <1>1, <1>2 DEF Blocks, Once

\* Only the owners and texts of its own blocks matter to a list.
LEMMA SoundFrame ==
  ASSUME NEW s, NEW o, NEW t, NEW M, NEW p, NEW u, NEW L, Sound(s, o, t, M), M \subseteq L,
         \A b \in Blocks(s) \ L : p[b] = o[b] /\ (o[b] = "copy" => u[b] = t[b])
  PROVE  Sound(s, p, u, L)
<1>1. \A i \in 1 .. Len(s) : s[i].buffer \notin L =>
        s[i].buffer \in Blocks(s) \ L /\ s[i].buffer \notin M
  BY DEF Blocks
<1>2. Once(s, L)
  BY <1>1 DEF Sound, Once
<1> QED
  BY <1>1, <1>2 DEF Sound

LEMMA SoundEmpty == ASSUME NEW o, NEW t, NEW M PROVE Sound(<<>>, o, t, M)
BY DEF Sound, Once

LEMMA SoundAppend ==
  ASSUME NEW s, NEW o, NEW t, NEW M, Sound(s, o, t, M), NEW e \in Buffer,
         e.buffer \notin M =>
           /\ e.buffer \notin Blocks(s)
           /\ o[e.buffer] \in {"given", "copy"}
           /\ e.by = "printf" => o[e.buffer] = "copy" /\ t[e.buffer] = e.said
  PROVE  Sound(Append(s, e), o, t, M)
<1> DEFINE a == Append(s, e)
<1>1. s \in Seq(Buffer)
  BY DEF Sound
<1>2. a \in Seq(Buffer) /\ Len(a) = Len(s) + 1 /\ Len(s) \in Nat
  BY <1>1
<1>3. a[Len(a)] = e /\ \A i \in 1 .. Len(s) : a[i] = s[i]
  BY <1>1
<1>4. \A i \in 1 .. Len(a) : i \in 1 .. Len(s) \/ i = Len(a)
  BY <1>2
<1>5. e.buffer \notin M => \A i \in 1 .. Len(s) : s[i].buffer # e.buffer
  BY DEF Blocks
<1> HIDE DEF a
<1>6. Once(a, M)
  BY <1>3, <1>4, <1>5 DEF Sound, Once
<1>7. \A i \in 1 .. Len(a) : a[i].buffer \notin M =>
        /\ o[a[i].buffer] \in {"given", "copy"}
        /\ a[i].by = "printf" => o[a[i].buffer] = "copy" /\ t[a[i].buffer] = a[i].said
  BY <1>3, <1>4 DEF Sound
<1>8. Sound(a, o, t, M)
  BY <1>2, <1>6, <1>7 DEF Sound
<1> QED
  BY <1>8 DEF a

LEMMA SoundConcat ==
  ASSUME NEW s, NEW r, NEW o, NEW t, NEW M, Sound(s, o, t, M), Sound(r, o, t, M),
         Apart(s, r, M)
  PROVE  Sound(s \o r, o, t, M)
<1> DEFINE c == s \o r
<1>1. s \in Seq(Buffer) /\ r \in Seq(Buffer)
  BY DEF Sound
<1>2. c \in Seq(Buffer) /\ Len(c) = Len(s) + Len(r) /\ Len(s) \in Nat /\ Len(r) \in Nat
  BY <1>1
<1>3. \A i \in 1 .. Len(s) : c[i] = s[i]
  BY <1>1
<1>4. \A i \in 1 .. Len(c) : i > Len(s) => i - Len(s) \in 1 .. Len(r) /\ c[i] = r[i - Len(s)]
  BY <1>1, <1>2
<1>5. \A i \in 1 .. Len(s), j \in 1 .. Len(r) : s[i].buffer \notin M => s[i].buffer # r[j].buffer
  BY DEF Apart, Blocks
<1> HIDE DEF c
<1>6. Once(c, M)
  <2> SUFFICES ASSUME NEW i \in 1 .. Len(c), NEW j \in 1 .. Len(c), i < j,
                      c[i].buffer \notin M
               PROVE  c[i].buffer # c[j].buffer
    BY <1>2 DEF Once
  <2>1. CASE j <= Len(s)
    <3>1. i \in 1 .. Len(s) /\ j \in 1 .. Len(s)
      BY <1>2, <2>1
    <3> QED
      BY <1>3, <3>1 DEF Sound, Once
  <2>2. CASE i <= Len(s) /\ j > Len(s)
    <3>1. i \in 1 .. Len(s)
      BY <1>2, <2>2
    <3> QED
      BY <1>3, <1>4, <1>5, <2>2, <3>1
  <2>3. CASE i > Len(s)
    <3>1. j > Len(s) /\ i - Len(s) # j - Len(s)
      BY <1>2, <2>3
    <3>2. /\ i - Len(s) \in 1 .. Len(r) /\ c[i] = r[i - Len(s)]
          /\ j - Len(s) \in 1 .. Len(r) /\ c[j] = r[j - Len(s)]
      BY <1>4, <2>3, <3>1
    <3>3. \A m, n \in 1 .. Len(r) : m # n /\ r[m].buffer \notin M => r[m].buffer # r[n].buffer
      BY DEF Sound, Once
    <3> QED
      BY <3>1, <3>2, <3>3
  <2> QED
    BY <1>2, <2>1, <2>2, <2>3
<1>7. \A i \in 1 .. Len(c) : c[i].buffer \notin M =>
        /\ o[c[i].buffer] \in {"given", "copy"}
        /\ c[i].by = "printf" => o[c[i].buffer] = "copy" /\ t[c[i].buffer] = c[i].said
  <2> SUFFICES ASSUME NEW i \in 1 .. Len(c), c[i].buffer \notin M
               PROVE  /\ o[c[i].buffer] \in {"given", "copy"}
                      /\ c[i].by = "printf" => o[c[i].buffer] = "copy" /\ t[c[i].buffer] = c[i].said
    OBVIOUS
  <2>1. CASE i \in 1 .. Len(s)
    BY <1>3, <2>1 DEF Sound
  <2>2. CASE i > Len(s)
    BY <1>4, <2>2 DEF Sound
  <2> QED
    BY <1>2, <2>1, <2>2
<1>8. Sound(c, o, t, M)
  BY <1>2, <1>6, <1>7 DEF Sound
<1> QED
  BY <1>8 DEF c

LEMMA SoundTail ==
  ASSUME NEW s, NEW o, NEW t, NEW M, Sound(s, o, t, M), s # <<>>
  PROVE  Sound(Tail(s), o, t, M) /\ Head(s) \in Buffer
<1>1. s \in Seq(Buffer)
  BY DEF Sound
<1>2. /\ Tail(s) \in Seq(Buffer) /\ Head(s) \in Buffer
      /\ Len(Tail(s)) = Len(s) - 1 /\ Len(s) \in Nat \ {0}
      /\ \A i \in 1 .. Len(s) - 1 : Tail(s)[i] = s[i + 1]
  BY <1>1
<1>3. \A i \in 1 .. Len(s) - 1 : i + 1 \in 1 .. Len(s)
  BY <1>2
<1>4. Once(Tail(s), M)
  <2> SUFFICES ASSUME NEW i \in 1 .. Len(s) - 1, NEW j \in 1 .. Len(s) - 1, i # j,
                      Tail(s)[i].buffer \notin M
               PROVE  Tail(s)[i].buffer # Tail(s)[j].buffer
    BY <1>2 DEF Once
  <2>1. i + 1 # j + 1
    BY <1>2
  <2> QED
    BY <1>2, <1>3, <2>1 DEF Sound, Once
<1> QED
  BY <1>2, <1>3, <1>4 DEF Sound

\* A block that a list holds was given away or is a copy.
LEMMA BlocksOwned ==
  ASSUME NEW s, NEW o, NEW t, NEW M, Sound(s, o, t, M), NEW b \in Blocks(s), b \notin M
  PROVE  o[b] \in {"given", "copy"}
BY DEF Sound, Blocks
-----------------------------------------------------------------------------
(* Freeing, and opening a window.                                          *)

LEMMA FreedOwners ==
  ASSUME NEW ops, NEW o \in [Block -> Owners]
  PROVE  /\ Freed(ops, o) \in [Block -> Owners]
         /\ \A b \in Block : b \notin Blocks(ops) => Freed(ops, o)[b] = o[b]
BY DEF Freed, Owners

LEMMA FreesType == ASSUME NEW ops, NEW o PROVE Frees(ops, o) \in {"runs", "free"}
BY DEF Frees

\* Only a misused block makes it a fault to destroy a sound list.
LEMMA FreesSound ==
  ASSUME NEW ops, NEW o, NEW t, NEW M, Sound(ops, o, t, M), Frees(ops, o) = "free"
  PROVE  M # {}
BY DEF Sound, Once, Frees, Blocks

LEMMA WindowFields ==
  ASSUME NEW w \in Window
  PROVE  /\ w.head \in BOOLEAN /\ w.epoch \in Nat /\ w.ops \in Seq(Buffer)
         /\ w = [head |-> w.head, epoch |-> w.epoch, ops |-> w.ops]
         /\ ~w.head => w.ops = <<>>
BY DEF Window

LEMMA WindowIn ==
  ASSUME NEW h \in BOOLEAN, NEW e \in Nat, NEW s \in Seq(Buffer), ~h => s = <<>>
  PROVE  [head |-> h, epoch |-> e, ops |-> s] \in Window
BY DEF Window

LEMMA NoWindowIn == NoWindow \in Window /\ NoWindow.ops = <<>> /\ ~NoWindow.head
<1>1. <<>> \in Seq(Buffer)
  OBVIOUS
<1> QED
  BY <1>1, WindowIn DEF NoWindow

\* An opened window keeps its elements, or they are stale and it keeps none.
LEMMA OpenedCases ==
  ASSUME NEW w \in Window, epoch \in Nat
  PROVE  /\ Opened(w) \in Window /\ Opened(w).head /\ Opened(w).epoch = epoch
         /\ Opened(w).ops \in Seq(Buffer)
         /\ \/ Opened(w).ops = w.ops /\ Stale(w) = <<>>
            \/ Opened(w).ops = <<>> /\ Stale(w) = w.ops
<1>1. <<>> \in Seq(Buffer)
  OBVIOUS
<1>2. CASE w.head /\ w.epoch = epoch
  BY <1>2, WindowFields DEF Opened, Stale
<1>3. CASE ~(w.head /\ w.epoch = epoch)
  <2>1. [head |-> TRUE, epoch |-> epoch, ops |-> <<>>] \in Window
    BY <1>1, WindowIn
  <2> QED
    BY <1>1, <1>3, <2>1, WindowFields DEF Opened, Stale
<1> QED
  BY <1>2, <1>3

\* Whatever list is kept of a window that is opened stays sound.
LEMMA OpenedSound ==
  ASSUME NEW w \in Window, epoch \in Nat, NEW o \in [Block -> Owners], NEW t, NEW M,
         Sound(w.ops, o, t, M)
  PROVE  /\ Sound(Opened(w).ops, Freed(Stale(w), o), t, M)
         /\ Blocks(Opened(w).ops) \subseteq Blocks(w.ops)
         /\ Blocks(Stale(w)) \subseteq Blocks(w.ops)
         /\ Frees(Stale(w), o) = "free" => M # {}
<1>1. CASE Opened(w).ops = w.ops /\ Stale(w) = <<>>
  <2>1. w.ops \in Seq(Buffer)
    BY WindowFields
  <2>2. Blocks(w.ops) \subseteq Block /\ Blocks(Stale(w)) = {}
    BY <1>1, <2>1, BlocksType, BlocksEmpty
  <2>3. \A b \in Blocks(w.ops) : Freed(Stale(w), o)[b] = o[b]
    BY <2>2, FreedOwners
  <2>4. Sound(w.ops, Freed(Stale(w), o), t, M)
    BY <2>3, SoundFrame
  <2>5. Frees(Stale(w), o) = "free" => M # {}
    BY <1>1, SoundEmpty, FreesSound
  <2> QED
    BY <1>1, <2>2, <2>4, <2>5
<1>2. CASE Opened(w).ops = <<>> /\ Stale(w) = w.ops
  BY <1>2, SoundEmpty, BlocksEmpty, FreesSound
<1> QED
  BY <1>1, <1>2, OpenedCases

\* The window that takes an accepted buffer op, whose block the caller gives.
Given(o, b, accept) == [o EXCEPT ![b] = IF accept /\ @ = "caller" THEN "given" ELSE @]
Took(w, op, accept) ==
  [Opened(w) EXCEPT !.ops = IF accept THEN Append(@, op) ELSE @]

LEMMA TookFields ==
  ASSUME NEW w \in Window, epoch \in Nat, NEW op \in Buffer, NEW accept \in BOOLEAN
  PROVE  /\ Took(w, op, accept) \in Window
         /\ Took(w, op, accept).head /\ Took(w, op, accept).epoch = epoch
         /\ Took(w, op, accept).ops =
              IF accept THEN Append(Opened(w).ops, op) ELSE Opened(w).ops
<1> DEFINE s == IF accept THEN Append(Opened(w).ops, op) ELSE Opened(w).ops
<1>1. Opened(w).ops \in Seq(Buffer)
  BY OpenedCases
<1>2. s \in Seq(Buffer)
  BY <1>1
<1> HIDE DEF s
<1>3. Opened(w) \in [head : BOOLEAN, epoch : Nat, ops : Seq(Buffer)]
  <2>1. Opened(w) \in Window
    BY OpenedCases
  <2> QED
    BY <2>1, Zenon DEF Window
<1>4. Opened(w).head /\ Opened(w).epoch = epoch
  BY OpenedCases
<1>5. Took(w, op, accept) = [Opened(w) EXCEPT !.ops = s]
  BY DEF Took, s
<1>6. ASSUME NEW r \in [head : BOOLEAN, epoch : Nat, ops : Seq(Buffer)], r.head
      PROVE  [r EXCEPT !.ops = s] \in Window
  BY <1>2, <1>6 DEF Window
<1>7. Took(w, op, accept) \in Window
  BY <1>3, <1>4, <1>5, <1>6
<1>8. ASSUME NEW r \in [head : BOOLEAN, epoch : Nat, ops : Seq(Buffer)]
      PROVE  /\ [r EXCEPT !.ops = s].head = r.head /\ [r EXCEPT !.ops = s].epoch = r.epoch
             /\ [r EXCEPT !.ops = s].ops = s
  OBVIOUS
<1> QED
  BY <1>3, <1>4, <1>5, <1>7, <1>8 DEF s

\* A fault is due to a misused block.
Excused(st, M) == st = "free" => M # {}

LEMMA TookSound ==
  ASSUME NEW w \in Window, epoch \in Nat, NEW op \in Buffer, NEW accept \in BOOLEAN,
         NEW o \in [Block -> Owners], NEW M,
         Sound(w.ops, o, text', M),
         accept /\ op.buffer \notin M =>
           /\ op.buffer \notin Blocks(w.ops) /\ o[op.buffer] \in {"caller", "copy"}
           /\ op.by = "printf" => o[op.buffer] = "copy" /\ text'[op.buffer] = op.said
  PROVE  /\ Sound(Took(w, op, accept).ops, Freed(Stale(w), Given(o, op.buffer, accept)), text', M)
         /\ Excused(Frees(Stale(w), Given(o, op.buffer, accept)), M)
         /\ Freed(Stale(w), Given(o, op.buffer, accept)) \in [Block -> Owners]
         /\ \A b \in Block : b \notin Blocks(w.ops) /\ o[b] # "caller" =>
              Freed(Stale(w), Given(o, op.buffer, accept))[b] = o[b]
         /\ Blocks(Took(w, op, accept).ops)
              \subseteq Blocks(w.ops) \cup (IF accept THEN {op.buffer} ELSE {})
<1> DEFINE g == Given(o, op.buffer, accept)
           f == Freed(Stale(w), g)
<1>1. /\ g \in [Block -> Owners]
      /\ \A b \in Block : o[b] # "caller" => g[b] = o[b]
      /\ accept /\ o[op.buffer] \in {"caller", "copy"} => g[op.buffer] \in {"given", "copy"}
      /\ o[op.buffer] = "copy" => g[op.buffer] = "copy"
  <2>1. op.buffer \in Block
    BY DEF Buffer
  <2> QED
    BY <2>1 DEF Given, Owners
<1>2. w.ops \in Seq(Buffer) /\ Blocks(w.ops) \subseteq Block
  BY WindowFields, BlocksType
<1>3. Sound(w.ops, g, text', M)
  <2>1. \A b \in Blocks(w.ops) \ M : o[b] # "caller"
    BY DEF Sound, Blocks
  <2> QED
    BY <1>1, <1>2, <2>1, SoundFrame
<1> HIDE DEF g
<1>4. /\ Sound(Opened(w).ops, f, text', M)
      /\ Frees(Stale(w), g) = "free" => M # {}
      /\ Blocks(Opened(w).ops) \subseteq Blocks(w.ops) /\ Blocks(Stale(w)) \subseteq Blocks(w.ops)
  BY <1>1, <1>3, OpenedSound
<1>5. /\ f \in [Block -> Owners]
      /\ \A b \in Block : b \notin Blocks(w.ops) => f[b] = g[b]
  BY <1>1, <1>4, FreedOwners
<1> HIDE DEF f
<1>6. op.buffer \notin Blocks(w.ops) => f[op.buffer] = g[op.buffer]
  <2>1. op.buffer \in Block
    BY DEF Buffer
  <2> QED
    BY <1>5, <2>1
<1>7. Took(w, op, accept).ops = IF accept THEN Append(Opened(w).ops, op) ELSE Opened(w).ops
  BY TookFields
<1>8. Opened(w).ops \in Seq(Buffer)
  BY OpenedCases
<1>9. Sound(Took(w, op, accept).ops, f, text', M)
  <2>1. CASE accept
    <3>1. op.buffer \notin M =>
            /\ op.buffer \notin Blocks(Opened(w).ops)
            /\ f[op.buffer] \in {"given", "copy"}
            /\ op.by = "printf" => f[op.buffer] = "copy" /\ text'[op.buffer] = op.said
      BY <1>1, <1>4, <1>6, <2>1
    <3>2. Sound(Opened(w).ops, f, text', M)
      BY <1>4
    <3>3. Sound(Append(Opened(w).ops, op), f, text', M)
      BY <3>1, <3>2, SoundAppend, Zenon
    <3> QED
      BY <1>7, <2>1, <3>3
  <2>2. CASE ~accept
    BY <1>4, <1>7, <2>2
  <2> QED
    BY <2>1, <2>2
<1>10. Blocks(Took(w, op, accept).ops)
         \subseteq Blocks(w.ops) \cup (IF accept THEN {op.buffer} ELSE {})
  <2>1. Blocks(Append(Opened(w).ops, op)) = Blocks(Opened(w).ops) \cup {op.buffer}
    BY <1>8, BlocksAppend
  <2> QED
    BY <1>4, <1>7, <2>1
<1>11. \A b \in Block : b \notin Blocks(w.ops) /\ o[b] # "caller" => f[b] = o[b]
  BY <1>1, <1>5
<1>12. /\ Sound(Took(w, op, accept).ops, Freed(Stale(w), Given(o, op.buffer, accept)), text', M)
       /\ Excused(Frees(Stale(w), Given(o, op.buffer, accept)), M)
       /\ Freed(Stale(w), Given(o, op.buffer, accept)) \in [Block -> Owners]
       /\ \A b \in Block : b \notin Blocks(w.ops) /\ o[b] # "caller" =>
            Freed(Stale(w), Given(o, op.buffer, accept))[b] = o[b]
  BY <1>4, <1>5, <1>9, <1>11, Zenon DEF f, g, Excused
<1> QED
  BY <1>10, <1>12
-----------------------------------------------------------------------------
(* Add: what a call does to the windows.                                   *)

\* A position that is negative as an int was -1, or did not fit.
LEMMA IntPosition ==
  /\ ToInt(-1) < 0
  /\ \A p \in Nat : ToInt(p) < 0 => p > IntMax
<1> DEFINE values == 2 * (IntMax + 1)
<1>1. IntMax \in Nat /\ values \in Nat \ {0} /\ values > IntMax
  BY IntMaxAssumption
<1>2. ToInt(-1) < 0
  <2>1. (-1) % values = values - 1
    BY <1>1
  <2>2. values - 1 > IntMax
    BY <1>1
  <2> QED
    BY <1>1, <2>1, <2>2 DEF ToInt
<1>3. ASSUME NEW p \in Nat, ToInt(p) < 0 PROVE p > IntMax
  <2> DEFINE r == p % values
  <2>1. r \in Nat /\ r <= p
    BY <1>1
  <2>2. ToInt(p) = IF r > IntMax THEN r - values ELSE r
    BY DEF ToInt
  <2> HIDE DEF r
  <2> QED
    BY <1>1, <1>3, <2>1, <2>2
<1> QED
  BY <1>2, <1>3

\* Add accepts or refuses op, and takes the forward window for a pipe.
AddIs(op, o, accept, isForward) ==
  /\ IF isForward THEN forward' = Took(forward, op, accept) /\ reverse' = reverse
                  ELSE reverse' = Took(reverse, op, accept) /\ forward' = forward
  /\ owner' = Freed(Stale(IF isForward THEN forward ELSE reverse), Given(o, op.buffer, accept))
  /\ status' = Frees(Stale(IF isForward THEN forward ELSE reverse), Given(o, op.buffer, accept))
  /\ errno' \in {"OTHER", "ESPIPE", "ENOMEM"}
  /\ accepted' = IF accept /\ op.file \in Pipe THEN Append(accepted, op) ELSE accepted
  /\ misused \subseteq misused' /\ misused' \subseteq misused \cup {op.buffer}
  /\ accept /\ op.by # "printf" /\ op.buffer \notin misused' => o[op.buffer] = "caller"
  /\ UNCHANGED <<known, epoch, lpVars>>
  /\ op.file \in Pipe => isForward
  /\ accept /\ isForward => op.file \in Pipe \/ op.pos > IntMax

LEMMA AddShape ==
  ASSUME TypeOK, NEW by \in {"fwrite", "printf"}, NEW s \in Stream, NEW b \in Block,
         NEW t \in Text \cup {"nothing"}, NEW o, Add(by, s, b, t, o)
  PROVE  \E op \in Buffer, accept \in BOOLEAN, isForward \in BOOLEAN :
           /\ op.by = by /\ op.file = s /\ op.buffer = b /\ op.said = t
           /\ AddIs(op, o, accept, isForward)
<1>1. PICK f \in Ftell(s), enough \in BOOLEAN :
        LET op        == [by |-> by, file |-> s, pos |-> f[1], buffer |-> b, said |-> t]
            fpos      == ToInt(f[1])
            err       == f[2]
            isForward == IsForward(fpos, err)
            window    == IF isForward THEN forward ELSE reverse
            accept    == fpos < 0 /\ enough
            opened    == [Opened(window) EXCEPT !.ops = IF accept THEN Append(@, op) ELSE @]
            given     == [o EXCEPT ![op.buffer] = IF accept /\ @ = "caller" THEN "given" ELSE @]
        IN  /\ IF isForward THEN forward' = opened /\ UNCHANGED reverse
                            ELSE reverse' = opened /\ UNCHANGED forward
            /\ owner' = Freed(Stale(window), given)
            /\ status' = Frees(Stale(window), given)
            /\ errno' = IF accept THEN err ELSE "ENOMEM"
            /\ accepted' = IF accept /\ op.file \in Pipe THEN Append(accepted, op) ELSE accepted
            /\ Misuse(b, accept /\ by # "printf" /\ o[b] # "caller")
            /\ UNCHANGED <<known, epoch, lpVars>>
  BY Zenon DEF Add
<1> DEFINE op        == [by |-> by, file |-> s, pos |-> f[1], buffer |-> b, said |-> t]
           isForward == IsForward(ToInt(f[1]), f[2])
           accept    == ToInt(f[1]) < 0 /\ enough
<1>2. /\ f[1] \in Position \cup {-1} /\ f[2] \in {"OTHER", "ESPIPE", "ENOMEM"}
      /\ s \in Pipe => f[1] = -1 /\ f[2] = "ESPIPE"
      /\ s \notin Pipe => f[1] \in Position \/ f[2] = "OTHER"
  BY DEF Ftell, TypeOK
<1>3. op \in Buffer /\ op.by = by /\ op.file = s /\ op.buffer = b /\ op.said = t
  BY <1>2 DEF Buffer
<1>4. accept \in BOOLEAN /\ isForward \in BOOLEAN
  BY DEF IsForward
<1>5. s \in Pipe => isForward
  BY <1>2, IntPosition DEF IsForward
<1>6. isForward => s \in Pipe \/ f[1] > IntMax
  BY <1>2, IntPosition, PositionAssumption DEF IsForward
<1>7. /\ IF isForward THEN forward' = Took(forward, op, accept) /\ reverse' = reverse
                      ELSE reverse' = Took(reverse, op, accept) /\ forward' = forward
      /\ owner' = Freed(Stale(IF isForward THEN forward ELSE reverse), Given(o, op.buffer, accept))
      /\ status' = Frees(Stale(IF isForward THEN forward ELSE reverse), Given(o, op.buffer, accept))
      /\ errno' = IF accept THEN f[2] ELSE "ENOMEM"
      /\ accepted' = IF accept /\ op.file \in Pipe THEN Append(accepted, op) ELSE accepted
      /\ misused' = IF accept /\ by # "printf" /\ o[b] # "caller"
                      THEN misused \cup {b} ELSE misused
      /\ UNCHANGED <<known, epoch, lpVars>>
  BY <1>1, Zenon DEF Took, Given, Misuse
<1>8. op.pos = f[1]
  OBVIOUS
<1> HIDE DEF op, isForward, accept
<1>9. AddIs(op, o, accept, isForward)
  BY <1>2, <1>3, <1>5, <1>6, <1>7, <1>8 DEF AddIs
<1> QED
  BY <1>3, <1>4, <1>9

LEMMA AddType ==
  ASSUME TypeOK, NEW op \in Buffer, NEW o, NEW accept \in BOOLEAN, NEW isForward \in BOOLEAN,
         AddIs(op, o, accept, isForward), text' \in [Block -> Text],
         owner' \in [Block -> Owners], status' \in {"runs", "free"}
  PROVE  TypeOK'
<1>1. forward' \in Window /\ reverse' \in Window
  <2>1. Took(forward, op, accept) \in Window /\ Took(reverse, op, accept) \in Window
    BY TookFields DEF TypeOK
  <2> QED
    BY <2>1 DEF AddIs, TypeOK
<1>2. accepted' \in Seq(Buffer)
  BY DEF AddIs, TypeOK
<1>3. UNCHANGED <<known, epoch, lpList, done, out>> /\ errno' \in {"OTHER", "ESPIPE", "ENOMEM"}
  BY DEF AddIs, lpVars
<1>4. misused' \subseteq Block
  BY DEF AddIs, TypeOK, Buffer
<1> QED
  BY <1>1, <1>2, <1>3, <1>4 DEF TypeOK, Owners

LEMMA AddMemory ==
  ASSUME TypeOK, Memory, NEW op \in Buffer, NEW o \in [Block -> Owners],
         NEW accept \in BOOLEAN, NEW isForward \in BOOLEAN, AddIs(op, o, accept, isForward),
         text' \in [Block -> Text],
         accept /\ op.buffer \notin misused' =>
           /\ op.buffer \notin Blocks(forward.ops) \cup Blocks(reverse.ops)
                                \cup Blocks(lpList) \cup Blocks(done)
           /\ o[op.buffer] \in {"caller", "copy"}
           /\ op.by = "printf" => o[op.buffer] = "copy" /\ text'[op.buffer] = op.said,
         \A x \in Block : owner[x] \in {"given", "copy"} => o[x] = owner[x] /\ text'[x] = text[x]
  PROVE  TypeOK' /\ Memory'
<1>1. /\ forward \in Window /\ reverse \in Window /\ epoch \in Nat
      /\ lpList \in Seq(Buffer) /\ done \in Seq(Buffer)
  BY DEF TypeOK
<1>2. forward.ops \in Seq(Buffer) /\ reverse.ops \in Seq(Buffer)
  BY <1>1, WindowFields
<1>3. /\ Blocks(forward.ops) \subseteq Block /\ Blocks(reverse.ops) \subseteq Block
      /\ Blocks(lpList) \subseteq Block /\ Blocks(done) \subseteq Block
  BY <1>1, <1>2, BlocksType
<1> DEFINE M == misused'
<1>0. misused \subseteq M
  BY DEF AddIs
<1> HIDE DEF M
<1>4. /\ Sound(forward.ops, o, text', M) /\ Sound(reverse.ops, o, text', M)
      /\ Sound(lpList, o, text', M) /\ Sound(done, o, text', M)
  <2>1. ASSUME NEW s, Sound(s, owner, text, misused), Blocks(s) \subseteq Block
        PROVE  Sound(s, o, text', M)
    <3>1. \A x \in Blocks(s) \ M : owner[x] \in {"given", "copy"}
      BY <1>0, <2>1, BlocksOwned
    <3>2. \A x \in Blocks(s) \ M : o[x] = owner[x] /\ text'[x] = text[x]
      BY <2>1, <3>1
    <3> QED
      BY <1>0, <2>1, <3>2, SoundFrame
  <2> QED
    BY <1>3, <2>1 DEF Memory
<1>5. UNCHANGED <<epoch, lpList, done, out>>
  BY DEF AddIs, lpVars
<1>6. \E w, r \in Window :
        /\ {w, r} = {forward, reverse}
        /\ isForward => w = forward /\ r = reverse
        /\ ~isForward => w = reverse /\ r = forward
  BY <1>1
<1>7. PICK w \in Window, r \in Window :
        /\ isForward => w = forward /\ r = reverse
        /\ ~isForward => w = reverse /\ r = forward
  BY <1>6
<1>8. /\ owner' = Freed(Stale(w), Given(o, op.buffer, accept))
      /\ status' = Frees(Stale(w), Given(o, op.buffer, accept))
  BY <1>7 DEF AddIs
<1>9. /\ Sound(w.ops, o, text', M)
      /\ accept /\ op.buffer \notin M =>
           /\ op.buffer \notin Blocks(w.ops) /\ o[op.buffer] \in {"caller", "copy"}
           /\ op.by = "printf" => o[op.buffer] = "copy" /\ text'[op.buffer] = op.said
  BY <1>4, <1>7 DEF M
<1>10. /\ Sound(Took(w, op, accept).ops, owner', text', M)
       /\ status' = "free" => M # {}
       /\ owner' \in [Block -> Owners]
       /\ \A b \in Block : b \notin Blocks(w.ops) /\ o[b] # "caller" => owner'[b] = o[b]
       /\ Blocks(Took(w, op, accept).ops)
            \subseteq Blocks(w.ops) \cup (IF accept THEN {op.buffer} ELSE {})
  <2> DEFINE g == Given(o, op.buffer, accept)
  <2>1. Sound(Took(w, op, accept).ops, Freed(Stale(w), g), text', M)
    BY <1>1, <1>9, TookSound
  <2>3. \A b \in Block : b \notin Blocks(w.ops) /\ o[b] # "caller" => Freed(Stale(w), g)[b] = o[b]
    BY <1>1, <1>9, TookSound
  <2>4. Blocks(Took(w, op, accept).ops)
          \subseteq Blocks(w.ops) \cup (IF accept THEN {op.buffer} ELSE {})
    BY <1>1, <1>9, TookSound
  <2>5. Excused(Frees(Stale(w), g), M)
    BY <1>1, <1>9, TookSound
  <2>6. Freed(Stale(w), g) \in [Block -> Owners]
    BY <1>1, <1>9, TookSound
  <2>2. owner' = Freed(Stale(w), g) /\ status' = Frees(Stale(w), g)
    BY <1>8 DEF g
  <2> QED
    BY <2>1, <2>2, <2>3, <2>4, <2>5, <2>6, Zenon DEF Excused
<1>11. ASSUME NEW s, Sound(s, o, text', M), Blocks(s) \subseteq Block,
              accept /\ op.buffer \notin M => op.buffer \notin Blocks(s),
              Blocks(s) \cap Blocks(w.ops) \subseteq M
       PROVE  Sound(s, owner', text', M) /\ Blocks(s) \cap Blocks(Took(w, op, accept).ops) \subseteq M
  <2>1. \A x \in Blocks(s) \ M : o[x] \in {"given", "copy"}
    BY <1>11, BlocksOwned
  <2>2. \A x \in Blocks(s) \ M : owner'[x] = o[x]
    BY <1>10, <1>11, <2>1
  <2>3. Sound(s, owner', text', M)
    BY <1>11, <2>2, SoundFrame
  <2> QED
    BY <1>10, <1>11, <2>3
<1>12. /\ Blocks(r.ops) \cap Blocks(w.ops) \subseteq M /\ Blocks(lpList) \cap Blocks(w.ops) \subseteq M
       /\ Blocks(done) \cap Blocks(w.ops) \subseteq M
       /\ Blocks(r.ops) \cap Blocks(lpList) \subseteq M /\ Blocks(r.ops) \cap Blocks(done) \subseteq M
       /\ Blocks(lpList) \cap Blocks(done) \subseteq M
  BY <1>0, <1>7 DEF Memory, Apart
<1>13. /\ Sound(r.ops, o, text', M) /\ Blocks(r.ops) \subseteq Block
       /\ accept /\ op.buffer \notin M =>
            op.buffer \notin Blocks(r.ops) \cup Blocks(lpList) \cup Blocks(done)
  BY <1>3, <1>4, <1>7 DEF M
<1>14. /\ Sound(r.ops, owner', text', M) /\ Sound(lpList, owner', text', M)
       /\ Sound(done, owner', text', M)
       /\ Blocks(r.ops) \cap Blocks(Took(w, op, accept).ops) \subseteq M
       /\ Blocks(lpList) \cap Blocks(Took(w, op, accept).ops) \subseteq M
       /\ Blocks(done) \cap Blocks(Took(w, op, accept).ops) \subseteq M
  BY <1>3, <1>4, <1>11, <1>12, <1>13
<1>15. Took(w, op, accept) \in Window
  BY <1>1, TookFields
<1>18. TypeOK'
  BY <1>8, <1>10, FreesType, AddType
<1>16. CASE isForward
  <2>1. forward' = Took(w, op, accept) /\ reverse' = r
    BY <1>7, <1>16 DEF AddIs
  <2> QED
    BY <1>5, <1>10, <1>12, <1>14, <1>18, <2>1 DEF Memory, Apart, M
<1>17. CASE ~isForward
  <2>1. reverse' = Took(w, op, accept) /\ forward' = r
    BY <1>7, <1>17 DEF AddIs
  <2> QED
    BY <1>5, <1>10, <1>12, <1>14, <1>18, <2>1 DEF Memory, Apart, M
<1> QED
  BY <1>16, <1>17
-----------------------------------------------------------------------------
(* The memory, action by action.                                           *)

LEMMA MemoryTypes ==
  ASSUME TypeOK
  PROVE  /\ owner \in [Block -> Owners] /\ text \in [Block -> Text]
         /\ Blocks(forward.ops) \subseteq Block /\ Blocks(reverse.ops) \subseteq Block
         /\ Blocks(lpList) \subseteq Block /\ Blocks(done) \subseteq Block
<1>1. forward.ops \in Seq(Buffer) /\ reverse.ops \in Seq(Buffer)
  BY WindowFields DEF TypeOK
<1> QED
  BY <1>1, BlocksType DEF TypeOK, Owners

\* A block that is nobody's, the caller's or static is in no list.
LEMMA BlocksElsewhere ==
  ASSUME Memory, NEW b \in Block, b \notin misused, owner[b] \notin {"given", "copy"}
  PROVE  b \notin Blocks(forward.ops) \cup Blocks(reverse.ops) \cup Blocks(lpList) \cup Blocks(done)
<1>1. ASSUME NEW s, Sound(s, owner, text, misused), b \in Blocks(s) PROVE FALSE
  BY <1>1, BlocksOwned
<1> QED
  BY <1>1 DEF Memory

\* Steps that change owners and texts of blocks, but no list.
LEMMA MemoryFrame ==
  ASSUME Memory, misused \subseteq misused', status' = "free" => misused' # {},
         UNCHANGED <<forward, reverse, lpList, done>>,
         \A b \in (Blocks(forward.ops) \cup Blocks(reverse.ops)
                     \cup Blocks(lpList) \cup Blocks(done)) \ misused' :
           owner'[b] = owner[b] /\ (owner[b] = "copy" => text'[b] = text[b])
  PROVE  Memory'
<1> DEFINE M == misused'
<1>1. misused \subseteq M
  OBVIOUS
<1> HIDE DEF M
<1>2. /\ Sound(forward.ops, owner', text', M) /\ Sound(reverse.ops, owner', text', M)
      /\ Sound(lpList, owner', text', M) /\ Sound(done, owner', text', M)
  <2>1. ASSUME NEW s, Sound(s, owner, text, misused),
               \A b \in Blocks(s) \ M :
                 owner'[b] = owner[b] /\ (owner[b] = "copy" => text'[b] = text[b])
        PROVE  Sound(s, owner', text', M)
    BY <1>1, <2>1, SoundFrame
  <2> QED
    BY <2>1 DEF Memory, M
<1> QED
  BY <1>1, <1>2 DEF Memory, Apart, M

LEMMA TakeMemory ==
  ASSUME TypeOK, Memory, NEW b \in Block, NEW t \in Text, Take(b, t)
  PROVE  TypeOK' /\ Memory'
<1>1. TypeOK'
  BY DEF Take, TypeOK, wVars, lpVars
<1>2. b \notin misused =>
        b \notin Blocks(forward.ops) \cup Blocks(reverse.ops) \cup Blocks(lpList) \cup Blocks(done)
  BY BlocksElsewhere DEF Take
<1>3. \A x \in Block : x # b => owner'[x] = owner[x] /\ text'[x] = text[x]
  BY MemoryTypes DEF Take
<1>4. UNCHANGED <<forward, reverse, lpList, done, misused>> /\ status' # "free"
  BY DEF Take, wVars, lpVars
<1>5. Memory'
  BY <1>2, <1>3, <1>4, MemoryTypes, MemoryFrame
<1> QED
  BY <1>1, <1>5

LEMMA OverwriteMemory ==
  ASSUME TypeOK, Memory, NEW b \in Block, NEW t \in Text, Overwrite(b, t)
  PROVE  TypeOK' /\ Memory' /\ misused \subseteq misused'
<1>1. TypeOK'
  BY DEF Overwrite, Misuse, TypeOK, wVars, lpVars
<1>2. owner' = owner /\ (owner[b] = "copy" => b \in misused')
  BY DEF Overwrite, Misuse
<1>3. \A x \in Block : x # b => text'[x] = text[x]
  BY MemoryTypes DEF Overwrite
<1>4. UNCHANGED <<forward, reverse, lpList, done>> /\ status' # "free" /\ misused \subseteq misused'
  BY DEF Overwrite, Misuse, wVars, lpVars
<1>5. Memory'
  BY <1>2, <1>3, <1>4, MemoryTypes, MemoryFrame
<1> QED
  BY <1>1, <1>4, <1>5

LEMMA ReleaseMemory ==
  ASSUME TypeOK, Memory, NEW b \in Block, Release(b)
  PROVE  TypeOK' /\ Memory' /\ misused \subseteq misused'
<1>1. TypeOK'
  BY DEF Release, Misuse, TypeOK, wVars, lpVars
<1>2. b \in misused' \/ (owner[b] = "caller" /\ misused' = misused)
  BY DEF Release, Misuse
<1>3. \A x \in Block : x # b => owner'[x] = owner[x]
  BY MemoryTypes DEF Release
<1>4. /\ UNCHANGED <<forward, reverse, lpList, done, text>> /\ misused \subseteq misused'
      /\ status' = "free" => owner[b] = "nobody"
  BY DEF Release, Misuse, wVars, lpVars
<1>5. b \in misused' \/
        b \notin Blocks(forward.ops) \cup Blocks(reverse.ops) \cup Blocks(lpList) \cup Blocks(done)
  BY <1>2, BlocksElsewhere
<1>6. Memory'
  BY <1>2, <1>3, <1>4, <1>5, MemoryTypes, MemoryFrame
<1> QED
  BY <1>1, <1>4, <1>6

\* What fwrite, puts and printf have in common.
LEMMA FwriteShape ==
  ASSUME TypeOK, Memory, NEW s \in Stream, NEW b \in Block,
         Fwrite(s, b)
  PROVE  \E op \in Buffer, accept \in BOOLEAN, isForward \in BOOLEAN :
           AddIs(op, owner, accept, isForward) /\ TypeOK' /\ Memory'
<1>1. Add("fwrite", s, b, "nothing", owner) /\ text' = text /\ text[b] \in Text
  BY MemoryTypes DEF Fwrite
<1>2. PICK op \in Buffer, accept \in BOOLEAN, isForward \in BOOLEAN :
        /\ op.by = "fwrite" /\ op.buffer = b
        /\ AddIs(op, owner, accept, isForward)
  BY <1>1, AddShape
<1>3. op.by # "printf"
  BY <1>2
<1>4. accept /\ op.buffer \notin misused' =>
        owner[op.buffer] = "caller" /\ op.buffer \notin misused /\ op.buffer \in Block
  BY <1>2, <1>3 DEF AddIs
<1>5. accept /\ op.buffer \notin misused' =>
        op.buffer \notin Blocks(forward.ops) \cup Blocks(reverse.ops)
                         \cup Blocks(lpList) \cup Blocks(done)
  BY <1>4, BlocksElsewhere
<1>6. TypeOK' /\ Memory'
  BY <1>1, <1>2, <1>3, <1>4, <1>5, AddMemory, MemoryTypes
<1> QED
  BY <1>2, <1>6

LEMMA PrintfShape ==
  ASSUME TypeOK, Memory, NEW t \in Text, Printf(t)
  PROVE  \E op \in Buffer, o \in [Block -> Owners], accept \in BOOLEAN, isForward \in BOOLEAN :
           AddIs(op, o, accept, isForward) /\ TypeOK' /\ Memory'
<1>1. PICK b \in Block :
        /\ owner[b] = "nobody" /\ text' = [text EXCEPT ![b] = t]
        /\ Add("printf", Stdout, b, t, [owner EXCEPT ![b] = "copy"])
  BY DEF Printf
<1> DEFINE o == [owner EXCEPT ![b] = "copy"]
<1>2. /\ o \in [Block -> Owners] /\ o[b] = "copy"
      /\ \A x \in Block : x # b => o[x] = owner[x] /\ text'[x] = text[x]
      /\ text' \in [Block -> Text] /\ text'[b] = t
  BY <1>1, MemoryTypes DEF Owners
<1>3. Stdout \in Stream
  BY StreamAssumption DEF Stream
<1> HIDE DEF o
<1>4. PICK op \in Buffer, accept \in BOOLEAN, isForward \in BOOLEAN :
        /\ op.by = "printf" /\ op.buffer = b /\ op.said = t
        /\ AddIs(op, o, accept, isForward)
  BY <1>1, <1>3, AddShape DEF o
<1>5. b \notin misused' =>
        b \notin Blocks(forward.ops) \cup Blocks(reverse.ops) \cup Blocks(lpList) \cup Blocks(done)
  BY <1>1, <1>4, BlocksElsewhere DEF AddIs
<1>6. \A x \in Block : owner[x] \in {"given", "copy"} => o[x] = owner[x] /\ text'[x] = text[x]
  BY <1>1, <1>2
<1>7. TypeOK' /\ Memory'
  BY <1>2, <1>4, <1>5, <1>6, AddMemory
<1> QED
  BY <1>2, <1>4, <1>7

\* Freeing one list leaves the others sound.
LEMMA FreedSound ==
  ASSUME NEW s, NEW ops, NEW o \in [Block -> Owners], NEW t, NEW M, Sound(s, o, t, M),
         Blocks(s) \subseteq Block, Blocks(s) \cap Blocks(ops) \subseteq M
  PROVE  Sound(s, Freed(ops, o), t, M)
<1>1. \A b \in Blocks(s) \ M : Freed(ops, o)[b] = o[b]
  BY FreedOwners
<1> QED
  BY <1>1, SoundFrame

LEMMA FcloseMemory ==
  ASSUME TypeOK, Memory, Fclose
  PROVE  TypeOK' /\ Memory'
<1>1. /\ forward' = Opened(forward) /\ owner' = Freed(Stale(forward), owner) /\ status' = "fclose"
      /\ UNCHANGED <<text, known, misused, errno, epoch, reverse, lpList, done, out, accepted>>
  BY DEF Fclose, lpVars, memVars
<1>2. forward \in Window /\ epoch \in Nat
  BY DEF TypeOK
<1>3. /\ Sound(forward'.ops, owner', text, misused)
      /\ Blocks(forward'.ops) \subseteq Blocks(forward.ops)
      /\ Blocks(Stale(forward)) \subseteq Blocks(forward.ops)
  BY <1>1, <1>2, OpenedSound, MemoryTypes DEF Memory
<1>4. /\ Blocks(reverse.ops) \cap Blocks(Stale(forward)) \subseteq misused
      /\ Blocks(lpList) \cap Blocks(Stale(forward)) \subseteq misused
      /\ Blocks(done) \cap Blocks(Stale(forward)) \subseteq misused
  BY <1>3 DEF Memory, Apart
<1>5. Sound(reverse.ops, owner', text, misused) /\ Sound(lpList, owner', text, misused) /\ Sound(done, owner', text, misused)
  BY <1>1, <1>4, FreedSound, MemoryTypes DEF Memory
<1>6. Memory'
  BY <1>1, <1>3, <1>5 DEF Memory, Apart
<1>7. owner' \in [Block -> Owners] /\ forward' \in Window
  BY <1>1, <1>2, FreedOwners, OpenedCases, MemoryTypes
<1>8. TypeOK'
  BY <1>1, <1>7 DEF TypeOK, Owners
<1> QED
  BY <1>6, <1>8

LEMMA ExecuteAgainMemory ==
  ASSUME TypeOK, Memory, ExecuteAgain
  PROVE  TypeOK' /\ Memory'
<1>1. TypeOK'
  BY DEF ExecuteAgain, TypeOK, wVars, lpVars, memVars
<1>2. UNCHANGED <<forward, reverse, lpList, done, owner, text, misused, status>>
  BY DEF ExecuteAgain, wVars, memVars, lpVars
<1>3. Memory'
  BY <1>2 DEF Memory
<1> QED
  BY <1>1, <1>3

LEMMA DiscardMemory ==
  ASSUME TypeOK, Memory, Discard
  PROVE  TypeOK' /\ Memory'
<1>1. /\ forward' = NoWindow /\ owner' = Freed(forward.ops, owner)
      /\ status' = Frees(forward.ops, owner) /\ accepted' = <<>>
      /\ UNCHANGED <<text, known, misused, errno, epoch, reverse, lpList, done, out>>
  BY DEF Discard, lpVars, memVars
<1>2. status' \in {"runs", "free"} /\ (status' = "free" => misused # {})
  BY <1>1, FreesType, FreesSound DEF Memory
<1>3. Sound(reverse.ops, owner', text, misused) /\ Sound(lpList, owner', text, misused) /\ Sound(done, owner', text, misused)
  BY <1>1, FreedSound, MemoryTypes DEF Memory, Apart
<1>4. forward'.ops = <<>> /\ forward' \in Window
  BY <1>1, NoWindowIn
<1>5. Memory'
  BY <1>1, <1>2, <1>3, <1>4, SoundEmpty, BlocksEmpty DEF Memory, Apart
<1>6. owner' \in [Block -> Owners]
  BY <1>1, FreedOwners, MemoryTypes
<1>7. TypeOK'
  BY <1>1, <1>2, <1>4, <1>6 DEF TypeOK, Owners
<1> QED
  BY <1>5, <1>7

LEMMA CollectMemory ==
  ASSUME TypeOK, Memory, Collect
  PROVE  TypeOK' /\ Memory'
<1>1. /\ lpList' = lpList \o forward.ops /\ forward' = NoWindow /\ reverse' = NoWindow
      /\ accepted' = <<>>
      /\ UNCHANGED <<owner, text, known, misused, errno, epoch, done, status, out>>
  BY DEF Collect, memVars
<1>2. forward.ops \in Seq(Buffer) /\ lpList \in Seq(Buffer)
  BY WindowFields DEF TypeOK
<1>3. Blocks(lpList') = Blocks(lpList) \cup Blocks(forward.ops)
  BY <1>1, <1>2, BlocksConcat
<1>4. Sound(lpList', owner, text, misused)
  <2>1. Apart(lpList, forward.ops, misused)
    BY DEF Memory, Apart
  <2> QED
    BY <1>1, <2>1, SoundConcat DEF Memory
<1>5. /\ forward'.ops = <<>> /\ forward' \in Window
      /\ reverse'.ops = <<>> /\ reverse' \in Window
  BY <1>1, NoWindowIn
<1>6. Memory'
  BY <1>1, <1>3, <1>4, <1>5, SoundEmpty, BlocksEmpty DEF Memory, Apart
<1>7. lpList' \in Seq(Buffer)
  BY <1>1, <1>2
<1>8. TypeOK'
  BY <1>1, <1>5, <1>7 DEF TypeOK
<1> QED
  BY <1>6, <1>8

LEMMA WriteNextMemory ==
  ASSUME TypeOK, Memory, WriteNext
  PROVE  TypeOK' /\ Memory'
<1> DEFINE op == Head(lpList)
<1>1. /\ lpList # <<>> /\ lpList \in Seq(Buffer) /\ done \in Seq(Buffer)
      /\ lpList' = Tail(lpList) /\ done' = Append(done, op)
      /\ out' = Append(out, [op |-> op, got |-> text[op.buffer]])
      /\ UNCHANGED <<owner, text, known, misused, errno, epoch, forward, reverse, status, accepted>>
  BY DEF WriteNext, TypeOK, wVars, memVars
<1>2. /\ Sound(Tail(lpList), owner, text, misused) /\ op \in Buffer /\ Tail(lpList) \in Seq(Buffer)
      /\ Blocks(Tail(lpList)) \subseteq Blocks(lpList)
      /\ op.buffer \in Blocks(lpList)
      /\ op.buffer \notin misused => op.buffer \notin Blocks(Tail(lpList))
  <2>1. Sound(lpList, owner, text, misused) /\ Once(lpList, misused)
    BY DEF Memory, Sound
  <2> QED
    BY <1>1, <2>1, SoundTail, BlocksTail
<1>3. op.buffer \notin misused =>
        /\ owner[op.buffer] \in {"given", "copy"}
        /\ op.by = "printf" => owner[op.buffer] = "copy" /\ text[op.buffer] = op.said
  <2>1. op = lpList[1] /\ 1 \in 1 .. Len(lpList)
    BY <1>1
  <2> QED
    BY <2>1 DEF Memory, Sound
<1> HIDE DEF op
<1>4. op.buffer \notin misused => op.buffer \notin Blocks(done)
  BY <1>2 DEF Memory, Apart
<1>5. /\ Sound(done', owner, text, misused) /\ Blocks(done') = Blocks(done) \cup {op.buffer}
  BY <1>1, <1>2, <1>3, <1>4, SoundAppend, BlocksAppend DEF Memory
<1>6. Memory'
  BY <1>1, <1>2, <1>5 DEF Memory, Apart
<1>7. out' \in Seq([op : Buffer, got : Text])
  <2>1. op.buffer \in Block
    BY <1>2, MemoryTypes
  <2>2. [op |-> op, got |-> text[op.buffer]] \in [op : Buffer, got : Text]
    BY <1>2, <2>1, MemoryTypes
  <2> QED
    BY <1>1, <2>2 DEF TypeOK
<1>8. TypeOK'
  BY <1>1, <1>2, <1>7 DEF TypeOK
<1> QED
  BY <1>6, <1>8

LEMMA CleanMemory ==
  ASSUME TypeOK, Memory, Clean
  PROVE  TypeOK' /\ Memory'
<1>1. /\ done' = <<>> /\ owner' = Freed(done, owner) /\ status' = Frees(done, owner)
      /\ UNCHANGED <<text, known, misused, errno, epoch, forward, reverse, lpList, out, accepted>>
  BY DEF Clean, wVars, memVars
<1>2. status' \in {"runs", "free"} /\ (status' = "free" => misused # {})
  BY <1>1, FreesType, FreesSound DEF Memory
<1>3. /\ Sound(forward.ops, owner', text, misused) /\ Sound(reverse.ops, owner', text, misused)
      /\ Sound(lpList, owner', text, misused)
  BY <1>1, FreedSound, MemoryTypes DEF Memory, Apart
<1>4. Memory'
  BY <1>1, <1>2, <1>3, SoundEmpty, BlocksEmpty DEF Memory, Apart
<1>5. owner' \in [Block -> Owners]
  BY <1>1, FreedOwners, MemoryTypes
<1>6. TypeOK'
  BY <1>1, <1>2, <1>5 DEF TypeOK, Owners
<1> QED
  BY <1>4, <1>6

LEMMA ShutdownMemory ==
  ASSUME TypeOK, Memory, Shutdown
  PROVE  TypeOK' /\ Memory'
<1> DEFINE all == done \o lpList
<1>1. /\ done' = <<>> /\ lpList' = <<>> /\ owner' = Freed(all, owner)
      /\ status' = IF Frees(all, owner) = "free" THEN "free" ELSE "shut"
      /\ UNCHANGED <<text, known, misused, errno, epoch, forward, reverse, out, accepted>>
  BY DEF Shutdown, wVars, memVars
<1>2. done \in Seq(Buffer) /\ lpList \in Seq(Buffer)
  BY DEF TypeOK
<1>3. Blocks(all) = Blocks(done) \cup Blocks(lpList)
  BY <1>2, BlocksConcat
<1>4. Sound(all, owner, text, misused)
  <2>1. Apart(done, lpList, misused)
    BY DEF Memory, Apart
  <2> QED
    BY <2>1, SoundConcat DEF Memory
<1> HIDE DEF all
<1>5. status' \in {"shut", "free"} /\ (status' = "free" => misused # {})
  BY <1>1, <1>4, FreesSound
<1>6. Sound(forward.ops, owner', text, misused) /\ Sound(reverse.ops, owner', text, misused)
  BY <1>1, <1>3, FreedSound, MemoryTypes DEF Memory, Apart
<1>7. Memory'
  BY <1>1, <1>5, <1>6, SoundEmpty, BlocksEmpty DEF Memory, Apart
<1>8. owner' \in [Block -> Owners]
  BY <1>1, FreedOwners, MemoryTypes
<1>9. TypeOK'
  BY <1>1, <1>5, <1>8 DEF TypeOK, Owners
<1> QED
  BY <1>7, <1>9
-----------------------------------------------------------------------------
(* The accepted buffers are the buffers for a Pipe of the forward window.  *)

PipeOps(ops) == {n \in 1 .. Len(ops) : ops[n].file \in Pipe}
Embeds(at, acc, ops) ==
  /\ at \in [1 .. Len(acc) -> PipeOps(ops)]
  /\ \A n \in PipeOps(ops) : \E m \in 1 .. Len(acc) : at[m] = n
  /\ \A m, n \in 1 .. Len(acc) : m < n => at[m] < at[n]
  /\ \A n \in 1 .. Len(acc) : acc[n] = ops[at[n]]
Merged(acc, ops) == \E at : Embeds(at, acc, ops)

AcceptedMerged ==
  IF forward.head /\ forward.epoch = epoch
    THEN Merged(accepted, forward.ops) ELSE accepted = <<>>

LEMMA AcceptedIs == AcceptedKept <=> AcceptedMerged
<1>1. (\E at \in Surjection(1 .. Len(accepted), PipeOps(forward.ops)) :
         /\ \A m, n \in 1 .. Len(accepted) : m < n => at[m] < at[n]
         /\ \A n \in 1 .. Len(accepted) : accepted[n] = forward.ops[at[n]])
      <=> Merged(accepted, forward.ops)
  BY Zenon DEF Merged, Embeds, Surjection
<1> QED
  BY <1>1, Zenon DEF AcceptedKept, AcceptedMerged, PipeOps

LEMMA MergedEmpty == Merged(<<>>, <<>>)
<1> DEFINE at == [n \in 1 .. 0 |-> n]
<1>1. PipeOps(<<>>) = {} /\ 1 .. Len(<<>>) = {} /\ 1 .. 0 = {}
  BY DEF PipeOps
<1>2. Embeds(at, <<>>, <<>>)
  BY <1>1 DEF Embeds
<1> QED
  BY <1>2 DEF Merged

\* The first buffers of a longer list.
LEMMA PipeOpsAppend ==
  ASSUME NEW ops \in Seq(Buffer), NEW op \in Buffer
  PROVE  /\ \A n \in 1 .. Len(ops) : Append(ops, op)[n] = ops[n]
         /\ PipeOps(Append(ops, op)) =
              PipeOps(ops) \cup (IF op.file \in Pipe THEN {Len(ops) + 1} ELSE {})
         /\ PipeOps(ops) \subseteq 1 .. Len(ops)
<1>1. /\ Len(Append(ops, op)) = Len(ops) + 1 /\ Len(ops) \in Nat
      /\ Append(ops, op)[Len(ops) + 1] = op
      /\ \A n \in 1 .. Len(ops) : Append(ops, op)[n] = ops[n]
  OBVIOUS
<1>2. \A n : n \in 1 .. Len(ops) + 1 <=> n \in 1 .. Len(ops) \/ n = Len(ops) + 1
  BY <1>1
<1>3. \A n : n \in PipeOps(Append(ops, op)) <=>
               n \in PipeOps(ops) \/ (n = Len(ops) + 1 /\ op.file \in Pipe)
  BY <1>1, <1>2 DEF PipeOps
<1> QED
  BY <1>1, <1>3 DEF PipeOps

LEMMA MergedRefuse ==
  ASSUME NEW acc \in Seq(Buffer), NEW ops \in Seq(Buffer), NEW op \in Buffer,
         Merged(acc, ops), op.file \notin Pipe
  PROVE  Merged(acc, Append(ops, op))
<1>1. PICK at : Embeds(at, acc, ops)
  BY DEF Merged
<1>2. PipeOps(Append(ops, op)) = PipeOps(ops) /\ PipeOps(ops) \subseteq 1 .. Len(ops)
  BY PipeOpsAppend
<1>3. \A n \in 1 .. Len(acc) : acc[n] = Append(ops, op)[at[n]]
  <2> SUFFICES ASSUME NEW n \in 1 .. Len(acc) PROVE acc[n] = Append(ops, op)[at[n]]
    OBVIOUS
  <2>1. acc[n] = ops[at[n]] /\ at[n] \in 1 .. Len(ops)
    BY <1>1, <1>2 DEF Embeds
  <2> QED
    BY <2>1, PipeOpsAppend
<1>4. Embeds(at, acc, Append(ops, op))
  BY <1>1, <1>2, <1>3, Zenon DEF Embeds
<1> QED
  BY <1>4 DEF Merged

LEMMA MergedTake ==
  ASSUME NEW acc \in Seq(Buffer), NEW ops \in Seq(Buffer), NEW op \in Buffer,
         Merged(acc, ops), op.file \in Pipe
  PROVE  Merged(Append(acc, op), Append(ops, op))
<1>1. PICK at : Embeds(at, acc, ops)
  BY DEF Merged
<1> DEFINE a  == Append(acc, op)
           o  == Append(ops, op)
           at2 == [n \in 1 .. Len(a) |-> IF n = Len(a) THEN Len(o) ELSE at[n]]
<1>2. /\ PipeOps(o) = PipeOps(ops) \cup {Len(o)} /\ PipeOps(ops) \subseteq 1 .. Len(ops)
      /\ Len(o) = Len(ops) + 1 /\ Len(ops) \in Nat /\ o[Len(o)] = op
      /\ \A n \in 1 .. Len(ops) : o[n] = ops[n]
  BY PipeOpsAppend
<1>3. /\ Len(a) = Len(acc) + 1 /\ Len(acc) \in Nat /\ a[Len(a)] = op
      /\ \A n \in 1 .. Len(acc) : a[n] = acc[n]
  OBVIOUS
<1>4. \A n : n \in 1 .. Len(a) <=> n \in 1 .. Len(acc) \/ n = Len(a)
  BY <1>3
<1>5. \A n \in 1 .. Len(acc) : at[n] \in PipeOps(ops) /\ at[n] \in 1 .. Len(ops) /\ n # Len(a)
  BY <1>1, <1>2, <1>3 DEF Embeds
<1> HIDE DEF a, o
<1>6. at2 \in [1 .. Len(a) -> PipeOps(o)]
  BY <1>2, <1>4, <1>5
<1>7. at2[Len(a)] = Len(o) /\ \A n \in 1 .. Len(acc) : at2[n] = at[n]
  BY <1>3, <1>4, <1>5
<1> HIDE DEF at2
<1>8. ASSUME NEW n \in PipeOps(o) PROVE \E m \in 1 .. Len(a) : at2[m] = n
  <2>1. CASE n = Len(o)
    BY <1>4, <1>7, <2>1
  <2>2. CASE n \in PipeOps(ops)
    <3>1. PICK m \in 1 .. Len(acc) : at[m] = n
      BY <1>1, <2>2 DEF Embeds
    <3> QED
      BY <1>4, <1>7, <3>1
  <2> QED
    BY <1>2, <2>1, <2>2
<1>9. ASSUME NEW m \in 1 .. Len(a), NEW n \in 1 .. Len(a), m < n PROVE at2[m] < at2[n]
  <2>1. m \in 1 .. Len(acc)
    BY <1>3, <1>9
  <2>2. CASE n = Len(a)
    BY <1>2, <1>5, <1>7, <2>1, <2>2
  <2>3. CASE n \in 1 .. Len(acc)
    BY <1>1, <1>7, <1>9, <2>1, <2>3 DEF Embeds
  <2> QED
    BY <1>4, <2>2, <2>3
<1>10. ASSUME NEW n \in 1 .. Len(a) PROVE a[n] = o[at2[n]]
  <2>1. CASE n = Len(a)
    BY <1>2, <1>3, <1>7, <2>1
  <2>2. CASE n \in 1 .. Len(acc)
    <3>1. acc[n] = ops[at[n]]
      BY <1>1, <2>2 DEF Embeds
    <3> QED
      BY <1>2, <1>3, <1>5, <1>7, <2>2, <3>1
  <2> QED
    BY <1>4, <2>1, <2>2
<1>11. Embeds(at2, a, o)
  BY <1>6, <1>8, <1>9, <1>10 DEF Embeds
<1> QED
  BY <1>11 DEF Merged, a, o

LEMMA AcceptedOpened ==
  ASSUME TypeOK, AcceptedKept
  PROVE  Merged(accepted, Opened(forward).ops)
<1>1. CASE forward.head /\ forward.epoch = epoch
  BY <1>1, AcceptedIs DEF AcceptedMerged, Opened
<1>2. CASE ~(forward.head /\ forward.epoch = epoch)
  <2>1. accepted = <<>> /\ Opened(forward).ops = <<>>
    BY <1>2, AcceptedIs DEF AcceptedMerged, Opened
  <2> QED
    BY <2>1, MergedEmpty
<1> QED
  BY <1>1, <1>2

\* NotAhead, AcceptedKept and AllWide after a call.
LEMMA AddRest ==
  ASSUME TypeOK, NotAhead, AcceptedKept, AllWide, Written, NEW op \in Buffer, NEW o,
         NEW accept \in BOOLEAN, NEW isForward \in BOOLEAN, AddIs(op, o, accept, isForward)
  PROVE  NotAhead' /\ AcceptedKept' /\ AllWide' /\ Written'
<1>1. UNCHANGED <<epoch, lpList, done, out>>
  BY DEF AddIs, lpVars
<1>2. Written'
  BY <1>1 DEF Written, AddIs
<1>3. CASE ~isForward
  <2>1. forward' = forward /\ accepted' = accepted
    BY <1>3 DEF AddIs
  <2>2. NotAhead' /\ AllWide'
    BY <1>1, <2>1 DEF NotAhead, AllWide, Wide
  <2>3. AcceptedKept'
    BY <1>1, <2>1 DEF AcceptedKept
  <2> QED
    BY <1>2, <2>2, <2>3
<1>4. CASE isForward
  <2> DEFINE opened == Opened(forward).ops
  <2>1. /\ forward' = Took(forward, op, accept)
        /\ accepted' = IF accept /\ op.file \in Pipe THEN Append(accepted, op) ELSE accepted
        /\ accept => op.file \in Pipe \/ op.pos > IntMax
    BY <1>4 DEF AddIs
  <2>2. /\ forward'.head /\ forward'.epoch = epoch
        /\ forward'.ops = IF accept THEN Append(opened, op) ELSE opened
    BY <2>1, TookFields DEF TypeOK
  <2>3. opened \in Seq(Buffer) /\ accepted \in Seq(Buffer) /\ Merged(accepted, opened)
    BY AcceptedOpened, OpenedCases DEF TypeOK
  <2>4. opened = forward.ops \/ opened = <<>>
    BY OpenedCases DEF TypeOK
  <2> HIDE DEF opened
  <2>5. Merged(accepted', forward'.ops)
    BY <2>1, <2>2, <2>3, MergedTake, MergedRefuse
  <2>6. AcceptedKept'
    <3>1. AcceptedMerged'
      BY <1>1, <2>2, <2>5 DEF AcceptedMerged
    <3> QED
      BY <3>1, AcceptedIs, PTL
  <2>7. Wide(opened)
    BY <2>4 DEF AllWide, Wide
  <2>8. Wide(forward'.ops)
    <3>1. CASE accept
      <4>1. /\ Len(forward'.ops) = Len(opened) + 1 /\ Len(opened) \in Nat
            /\ forward'.ops[Len(opened) + 1] = op
            /\ \A i \in 1 .. Len(opened) : forward'.ops[i] = opened[i]
        BY <2>2, <2>3, <3>1
      <4>2. \A i \in 1 .. Len(forward'.ops) : i \in 1 .. Len(opened) \/ i = Len(opened) + 1
        BY <4>1
      <4>3. op.file \in Pipe \/ op.pos > IntMax
        BY <2>1, <3>1
      <4> QED
        BY <2>7, <4>1, <4>2, <4>3 DEF Wide
    <3>2. CASE ~accept
      BY <2>2, <2>7, <3>2
    <3> QED
      BY <3>1, <3>2
  <2>9. AllWide'
    BY <1>1, <2>8 DEF AllWide, Wide
  <2>10. NotAhead'
    BY <1>1, <2>2 DEF NotAhead, TypeOK
  <2> QED
    BY <1>2, <2>6, <2>9, <2>10
<1> QED
  BY <1>3, <1>4
-----------------------------------------------------------------------------
(* The other conjuncts, for the steps that are not calls.                  *)

Rest == NotAhead /\ AcceptedKept /\ AllWide /\ Written

LEMMA RestFrame ==
  ASSUME Rest, UNCHANGED <<forward, epoch, accepted, out>>, Wide(lpList'), Wide(done'),
         misused \subseteq misused'
  PROVE  Rest'
<1>1. AcceptedKept'
  BY DEF Rest, AcceptedKept
<1> QED
  BY <1>1 DEF Rest, NotAhead, AllWide, Wide, Written

LEMMA WideEmpty == Wide(<<>>)
BY DEF Wide

\* Without a window nothing was accepted.
LEMMA RestNoWindow ==
  ASSUME Rest, forward' = NoWindow, accepted' = <<>>, UNCHANGED <<out, done, misused>>, Wide(lpList')
  PROVE  Rest'
<1>1. AcceptedKept'
  BY NoWindowIn DEF AcceptedKept
<1>2. NotAhead'
  BY NoWindowIn DEF NotAhead
<1>3. Wide(forward'.ops)
  BY NoWindowIn, WideEmpty
<1> QED
  BY <1>1, <1>2, <1>3 DEF Rest, AllWide, Wide, Written

LEMMA FcloseRest == ASSUME TypeOK, Rest, Fclose PROVE Rest'
<1>1. forward' = Opened(forward) /\ UNCHANGED <<epoch, lpList, done, out, accepted, misused>>
  BY DEF Fclose, lpVars
<1>2. forward \in Window /\ epoch \in Nat
  BY DEF TypeOK
<1>3. forward'.head /\ forward'.epoch = epoch /\ (forward'.ops = forward.ops \/ forward'.ops = <<>>)
  BY <1>1, <1>2, OpenedCases
<1>4. Merged(accepted, forward'.ops)
  BY <1>1, AcceptedOpened DEF Rest
<1>5. AcceptedKept'
  <2>1. AcceptedMerged'
    BY <1>1, <1>3, <1>4 DEF AcceptedMerged
  <2> QED
    BY <2>1, AcceptedIs, PTL
<1>6. NotAhead'
  BY <1>1, <1>2, <1>3 DEF NotAhead
<1>7. AllWide' /\ Written'
  BY <1>1, <1>3 DEF Rest, AllWide, Wide, Written
<1> QED
  BY <1>5, <1>6, <1>7 DEF Rest

LEMMA ExecuteAgainRest == ASSUME TypeOK, Rest, ExecuteAgain PROVE Rest'
<1>1. epoch' = epoch + 1 /\ accepted' = <<>> /\ UNCHANGED <<forward, lpList, done, out, misused>>
  BY DEF ExecuteAgain, wVars, lpVars
<1>2. forward.head => forward.epoch <= epoch /\ forward.epoch \in Nat /\ epoch \in Nat
  BY WindowFields DEF Rest, NotAhead, TypeOK
<1>3. ~(forward'.head /\ forward'.epoch = epoch') /\ NotAhead'
  BY <1>1, <1>2 DEF NotAhead
<1>4. AcceptedKept'
  BY <1>1, <1>3 DEF AcceptedKept
<1> QED
  BY <1>1, <1>3, <1>4 DEF Rest, AllWide, Wide, Written

LEMMA CollectRest == ASSUME TypeOK, Rest, Collect PROVE Rest'
<1>1. /\ lpList' = lpList \o forward.ops /\ forward' = NoWindow /\ accepted' = <<>>
      /\ UNCHANGED <<done, out, misused>>
  BY DEF Collect
<1>2. forward.ops \in Seq(Buffer) /\ lpList \in Seq(Buffer) /\ Wide(forward.ops) /\ Wide(lpList)
  BY WindowFields DEF TypeOK, Rest, AllWide
<1>3. ASSUME NEW i \in 1 .. Len(lpList')
      PROVE  lpList'[i].file \in Pipe \/ lpList'[i].pos > IntMax
  <2>1. \/ i \in 1 .. Len(lpList) /\ lpList'[i] = lpList[i]
        \/ i - Len(lpList) \in 1 .. Len(forward.ops) /\ lpList'[i] = forward.ops[i - Len(lpList)]
    BY <1>1, <1>2
  <2> QED
    BY <1>2, <2>1 DEF Wide
<1> QED
  BY <1>1, <1>3, RestNoWindow DEF Wide

LEMMA WriteNextRest == ASSUME TypeOK, Memory, Rest, WriteNext PROVE Rest'
<1> DEFINE op == Head(lpList)
           w  == [op |-> op, got |-> text[op.buffer]]
<1>1. /\ lpList # <<>> /\ lpList \in Seq(Buffer) /\ done \in Seq(Buffer)
      /\ lpList' = Tail(lpList) /\ done' = Append(done, op) /\ out' = Append(out, w)
      /\ out \in Seq([op : Buffer, got : Text])
      /\ UNCHANGED <<epoch, forward, accepted, misused>>
  BY DEF WriteNext, TypeOK, wVars
<1>2. /\ 1 \in 1 .. Len(lpList) /\ op = lpList[1]
      /\ Len(lpList') = Len(lpList) - 1 /\ Len(lpList) \in Nat
      /\ \A i \in 1 .. Len(lpList) - 1 : lpList'[i] = lpList[i + 1] /\ i + 1 \in 1 .. Len(lpList)
  BY <1>1
<1>3. op.file \in Pipe \/ op.pos > IntMax
  BY <1>2 DEF Rest, AllWide, Wide
<1>4. op.by = "printf" /\ op.buffer \notin misused => text[op.buffer] = op.said
  BY <1>2 DEF Memory, Sound
<1>5. w.op = op /\ w.got = text[op.buffer]
  OBVIOUS
<1> HIDE DEF op, w
<1>6. /\ Len(done') = Len(done) + 1 /\ Len(done) \in Nat /\ done'[Len(done) + 1] = op
      /\ \A i \in 1 .. Len(done) : done'[i] = done[i]
  BY <1>1
<1>7. /\ Len(out') = Len(out) + 1 /\ Len(out) \in Nat /\ out'[Len(out) + 1] = w
      /\ \A i \in 1 .. Len(out) : out'[i] = out[i]
  BY <1>1
<1>8. Wide(lpList')
  BY <1>2 DEF Rest, AllWide, Wide
<1>9. Wide(done')
  <2>1. \A i \in 1 .. Len(done') : i \in 1 .. Len(done) \/ i = Len(done) + 1
    BY <1>6
  <2> QED
    BY <1>3, <1>6, <2>1 DEF Rest, AllWide, Wide
<1>10. \A i \in 1 .. Len(out') : i \in 1 .. Len(out) \/ i = Len(out) + 1
  BY <1>7
<1>11. \A i \in 1 .. Len(out') : out'[i].op.file \in Pipe \/ out'[i].op.pos > IntMax
  BY <1>3, <1>5, <1>7, <1>10 DEF Rest, AllWide
<1>12. Written'
  <2>1. op.by = "printf" /\ op.buffer \notin misused => w.got = w.op.said
    BY <1>4, <1>5
  <2>2. misused' = misused /\ w.op = op
    BY <1>1, <1>5
  <2> QED
    BY <1>7, <1>10, <2>1, <2>2 DEF Rest, Written
<1>13. AllWide' /\ NotAhead' /\ AcceptedKept'
  <2>1. Wide(forward'.ops)
    BY <1>1 DEF Rest, AllWide
  <2>2. AllWide'
    BY <1>8, <1>9, <1>11, <2>1 DEF AllWide, Wide
  <2> QED
    BY <1>1, <2>2 DEF Rest, NotAhead, AcceptedKept
<1> QED
  BY <1>12, <1>13 DEF Rest
-----------------------------------------------------------------------------
(* The theorems.                                                           *)

LEMMA InitIInv == Init => IInv
<1> SUFFICES ASSUME Init PROVE IInv
  OBVIOUS
<1>1. /\ forward = NoWindow /\ reverse = NoWindow /\ lpList = <<>> /\ done = <<>>
      /\ out = <<>> /\ accepted = <<>> /\ status = "runs" /\ epoch = 1 /\ errno = "OTHER"
      /\ owner = [b \in Block |-> IF b \in Static THEN "static" ELSE "nobody"]
      /\ text \in [Block -> Text] /\ known = Static /\ misused = {}
  BY DEF Init
<1>2. NoWindow \in Window /\ NoWindow.ops = <<>> /\ ~NoWindow.head
  BY NoWindowIn
<1>3. <<>> \in Seq(Buffer) /\ <<>> \in Seq([op : Buffer, got : Text])
  OBVIOUS
<1>4. TypeOK
  BY <1>1, <1>2, <1>3, StaticAssumption DEF TypeOK
<1>5. Memory
  BY <1>1, <1>2, SoundEmpty, BlocksEmpty DEF Memory, Apart
<1>6. NotAhead /\ AcceptedKept /\ Written
  BY <1>1, <1>2 DEF NotAhead, AcceptedKept, Written
<1>7. AllWide
  BY <1>1, <1>2, WideEmpty DEF AllWide
<1> QED
  BY <1>4, <1>5, <1>6, <1>7 DEF IInv

LEMMA NextIInv == IInv /\ [Next]_vars => IInv'
<1> SUFFICES ASSUME IInv, [Next]_vars PROVE IInv'
  OBVIOUS
<1>0. TypeOK /\ Memory /\ Rest
  BY DEF IInv, Rest
<1> SUFFICES TypeOK' /\ Memory' /\ Rest'
  BY DEF IInv, Rest
<1>1. ASSUME NEW s \in Stream, NEW b \in Block, Fwrite(s, b)
      PROVE  TypeOK' /\ Memory' /\ Rest'
  <2>1. PICK op \in Buffer, accept \in BOOLEAN, isForward \in BOOLEAN :
          AddIs(op, owner, accept, isForward) /\ TypeOK' /\ Memory'
    BY <1>0, <1>1, FwriteShape
  <2> QED
    BY <1>0, <2>1, AddRest DEF Rest
<1>2. ASSUME NEW b \in Block, Puts(b) PROVE TypeOK' /\ Memory' /\ Rest'
  <2>1. Stdout \in Stream
    BY StreamAssumption DEF Stream
  <2> QED
    BY <1>1, <1>2, <2>1 DEF Puts
<1>3. ASSUME NEW b \in Block, Release(b) PROVE TypeOK' /\ Memory' /\ Rest'
  <2>1. UNCHANGED <<forward, epoch, accepted, out, lpList, done>>
    BY <1>3 DEF Release, wVars, lpVars
  <2>2. Wide(lpList') /\ Wide(done')
    BY <1>0, <2>1 DEF Rest, AllWide
  <2> QED
    BY <1>0, <1>3, <2>1, <2>2, ReleaseMemory, RestFrame
<1>4. ASSUME NEW b \in Block, NEW t \in Text, Take(b, t) PROVE TypeOK' /\ Memory' /\ Rest'
  <2>1. UNCHANGED <<forward, epoch, accepted, out, lpList, done, misused>>
    BY <1>4 DEF Take, wVars, lpVars
  <2>2. Wide(lpList') /\ Wide(done')
    BY <1>0, <2>1 DEF Rest, AllWide
  <2> QED
    BY <1>0, <1>4, <2>1, <2>2, TakeMemory, RestFrame
<1>5. ASSUME NEW b \in Block, NEW t \in Text, Overwrite(b, t) PROVE TypeOK' /\ Memory' /\ Rest'
  <2>1. UNCHANGED <<forward, epoch, accepted, out, lpList, done>>
    BY <1>5 DEF Overwrite, wVars, lpVars
  <2>2. Wide(lpList') /\ Wide(done')
    BY <1>0, <2>1 DEF Rest, AllWide
  <2> QED
    BY <1>0, <1>5, <2>1, <2>2, OverwriteMemory, RestFrame
<1>6. ASSUME NEW t \in Text, Printf(t) PROVE TypeOK' /\ Memory' /\ Rest'
  <2>1. PICK op \in Buffer, o \in [Block -> Owners], accept \in BOOLEAN, isForward \in BOOLEAN :
          AddIs(op, o, accept, isForward) /\ TypeOK' /\ Memory'
    BY <1>0, <1>6, PrintfShape
  <2> QED
    BY <1>0, <2>1, AddRest DEF Rest
<1>7. CASE Fclose
  BY <1>0, <1>7, FcloseMemory, FcloseRest
<1>8. CASE ExecuteAgain
  BY <1>0, <1>8, ExecuteAgainMemory, ExecuteAgainRest
<1>9. CASE Discard
  <2>1. forward' = NoWindow /\ accepted' = <<>> /\ UNCHANGED <<out, done, lpList, misused>>
    BY <1>9 DEF Discard, lpVars
  <2>2. Wide(lpList')
    BY <1>0, <2>1 DEF Rest, AllWide
  <2> QED
    BY <1>0, <1>9, <2>1, <2>2, DiscardMemory, RestNoWindow
<1>10. CASE Collect
  BY <1>0, <1>10, CollectMemory, CollectRest
<1>11. CASE WriteNext
  BY <1>0, <1>11, WriteNextMemory, WriteNextRest
<1>12. CASE Clean
  <2>1. UNCHANGED <<forward, epoch, accepted, out, lpList, misused>> /\ done' = <<>>
    BY <1>12 DEF Clean, wVars
  <2>2. Wide(lpList') /\ Wide(done')
    BY <1>0, <2>1, WideEmpty DEF Rest, AllWide
  <2> QED
    BY <1>0, <1>12, <2>1, <2>2, CleanMemory, RestFrame
<1>13. CASE Shutdown
  <2>1. UNCHANGED <<forward, epoch, accepted, out, misused>> /\ done' = <<>> /\ lpList' = <<>>
    BY <1>13 DEF Shutdown, wVars
  <2>2. Wide(lpList') /\ Wide(done')
    BY <2>1, WideEmpty
  <2> QED
    BY <1>0, <1>13, <2>1, <2>2, ShutdownMemory, RestFrame
<1>14. CASE UNCHANGED vars
  <2>1. UNCHANGED <<owner, text, known, errno, epoch, forward, reverse, lpList, done, out, status,
                   accepted, misused>>
    BY <1>14 DEF vars, memVars, wVars, lpVars
  <2>2. TypeOK'
    BY <1>0, <2>1 DEF TypeOK
  <2>3. Memory'
    BY <1>0, <2>1 DEF Memory
  <2>4. Rest'
    BY <1>0, <2>1, RestFrame DEF Rest, AllWide
  <2> QED
    BY <2>2, <2>3, <2>4
<1> QED
  BY <1>1, <1>2, <1>3, <1>4, <1>5, <1>6, <1>7, <1>8, <1>9, <1>10, <1>11, <1>12, <1>13, <1>14
     DEF Next, Ended

LEMMA Invariance == Spec => []IInv
BY InitIInv, NextIInv, PTL DEF Spec

\* The variables keep their types.
THEOREM TypeCorrect == Spec => []TypeOK
<1>1. IInv => TypeOK
  BY DEF IInv
<1> QED
  BY <1>1, Invariance, PTL

LEMMA KeptIs ==
  ASSUME TypeOK, Memory, NEW op \in Kept
  PROVE  \E s \in {forward.ops, reverse.ops, lpList, done} :
           Sound(s, owner, text, misused) /\ \E i \in 1 .. Len(s) : op = s[i]
<1>1. /\ Sound(forward.ops, owner, text, misused) /\ Sound(reverse.ops, owner, text, misused)
      /\ Sound(lpList, owner, text, misused) /\ Sound(done, owner, text, misused)
  BY DEF Memory
<1>2. \A s : Sound(s, owner, text, misused) /\ op \in Range(s) => \E i \in 1 .. Len(s) : op = s[i]
  BY DEF Sound, Range
<1> QED
  BY <1>1, <1>2 DEF Kept

\* printf writes what it formatted, although the buffer is written long after
\* the call and blocks are freed, reused and overwritten in the meantime.
THEOREM PrintfFaithfully == Spec => []PrintfFaithful
<1>1. IInv => PrintfFaithful
  <2> SUFFICES ASSUME IInv PROVE PrintfFaithful
    OBVIOUS
  <2>1. ASSUME NEW op \in Kept, op.by = "printf", op.buffer \notin misused
        PROVE  owner[op.buffer] = "copy" /\ text[op.buffer] = op.said
    BY <2>1, KeptIs DEF IInv, Sound
  <2> QED
    BY <2>1 DEF PrintfFaithful, IInv, Written
<1> QED
  BY <1>1, Invariance, PTL

\* Only a block that was misused is freed twice, or freed while a buffer that is
\* still to be written or destroyed points to it, whatever pointers fwrite and puts
\* are given and whatever the caller does with its memory.
THEOREM MisuseStays == Spec => []MisuseConfined
<1>1. IInv => MisuseConfined
  <2> SUFFICES ASSUME IInv PROVE MisuseConfined
    OBVIOUS
  <2>1. ASSUME NEW op \in Kept, op.buffer \notin misused PROVE owner[op.buffer] # "nobody"
    <3>1. PICK s : Sound(s, owner, text, misused) /\ \E i \in 1 .. Len(s) : op = s[i]
      BY KeptIs DEF IInv
    <3>2. owner[op.buffer] \in {"given", "copy"}
      BY <2>1, <3>1 DEF Sound
    <3> QED
      BY <3>2
  <2> QED
    BY <2>1 DEF MisuseConfined, IInv, Memory
<1> QED
  BY <1>1, Invariance, PTL

\* The forward window holds what was accepted in this execution for streams that
\* cannot seek, in order.
THEOREM AcceptedStay == Spec => []AcceptedKept
<1>1. IInv => AcceptedKept
  BY DEF IInv
<1> QED
  BY <1>1, Invariance, PTL

\* Only a position that does not fit an int gets a stream that can seek into the
\* forward window.
THEOREM OnlyWideForward == Spec => []SeekableWide
<1>1. IInv => SeekableWide
  <2> SUFFICES ASSUME IInv PROVE SeekableWide
    OBVIOUS
  <2>1. forward.ops \in Seq(Buffer) /\ lpList \in Seq(Buffer) /\ done \in Seq(Buffer)
    BY DEF IInv, Memory, Sound
  <2>2. \A s \in Seq(Buffer) : Wide(s) => \A op \in Range(s) : op.file \in Pipe \/ op.pos > IntMax
    BY DEF Wide, Range
  <2>3. \A i \in DOMAIN out : i \in 1 .. Len(out)
    BY DEF IInv, TypeOK
  <2> QED
    BY <2>1, <2>2, <2>3 DEF SeekableWide, IInv, AllWide
<1> QED
  BY <1>1, Invariance, PTL
=============================================================================
