--------------------------- MODULE PruningProofs ----------------------------
(***************************************************************************)
(* Proofs about Pruning, for any number of records and any timestamps: the *)
(* pointers always form the four lists, and what the lists promise.        *)
(***************************************************************************)
EXTENDS Pruning, WellFoundedInduction, FiniteSetTheorems, TLAPS

Links == [next : [Msg -> Ptr], prev : [Msg -> Ptr], head : [List -> Ptr], tail : [List -> Ptr]]

\* The i-th record of s, NULL beyond its ends.
At(s, i) == IF i \in 1 .. Len(s) THEN s[i] ELSE NULL

\* The pointers of list l run through s, in both directions.
IsList(L, l, s) ==
  /\ L.head[l] = At(s, 1) /\ L.tail[l] = At(s, Len(s))
  /\ \A i \in 1 .. Len(s) : L.next[s[i]] = At(s, i + 1) /\ L.prev[s[i]] = At(s, i - 1)

\* m is in none of the sequences q.
Off(q, m) == \A l \in List : \A i \in 1 .. Len(q[l]) : q[l][i] # m

\* No record is in two places.
OnePlace(q) ==
  \A k, l \in List : \A i \in 1 .. Len(q[k]), j \in 1 .. Len(q[l]) :
    q[k][i] = q[l][j] => k = l /\ i = j

\* The lists are the sequences q, and a record in none of them points nowhere,
\* but for those of X, whose links are still to be set.
Shape(L, q, X) ==
  /\ L \in Links
  /\ q \in [List -> Seq(Msg)]
  /\ \A l \in List : IsList(L, l, q[l])
  /\ OnePlace(q)
  /\ \A m \in Msg \ X : Off(q, m) => L.next[m] = NULL /\ L.prev[m] = NULL
-----------------------------------------------------------------------------
(* Chain reads the sequences back.                                         *)

\* What is behind the i-th record of s, it included.
Rest(s, i) == SubSeq(s, i, Len(s))

LEMMA RestStep ==
  ASSUME NEW s \in Seq(Msg), NEW i \in 1 .. Len(s)
  PROVE  /\ Rest(s, i) \in Seq(Msg)
         /\ i = Len(s) => Rest(s, i) = <<s[i]>>
         /\ i < Len(s) => i + 1 \in 1 .. Len(s) /\ Rest(s, i) = <<s[i]>> \o Rest(s, i + 1)
<1>1. /\ Len(s) \in Nat /\ i \in Nat /\ s[i] \in Msg
      /\ Rest(s, i) \in Seq(Msg) /\ Len(Rest(s, i)) = Len(s) - i + 1
      /\ \A k \in 1 .. Len(s) - i + 1 : Rest(s, i)[k] = s[i + k - 1]
  BY DEF Rest
<1>2. CASE i = Len(s)
  <2>1. <<s[i]>> \in Seq(Msg) /\ Len(<<s[i]>>) = 1 /\ <<s[i]>>[1] = s[i]
    BY <1>1
  <2>2. Len(Rest(s, i)) = 1 /\ Rest(s, i)[1] = s[i]
    BY <1>1, <1>2
  <2> QED
    BY <1>1, <1>2, <2>1, <2>2
<1>3. CASE i < Len(s)
  <2> DEFINE r == <<s[i]>> \o Rest(s, i + 1)
  <2>1. i + 1 \in 1 .. Len(s)
    BY <1>1, <1>3
  <2>2. /\ Rest(s, i + 1) \in Seq(Msg) /\ Len(Rest(s, i + 1)) = Len(s) - i
        /\ \A k \in 1 .. Len(s) - i : Rest(s, i + 1)[k] = s[i + k]
    BY <1>1, <2>1 DEF Rest
  <2>3. r \in Seq(Msg) /\ Len(r) = Len(s) - i + 1 /\ r[1] = s[i]
    <3>1. <<s[i]>> \in Seq(Msg) /\ Len(<<s[i]>>) = 1 /\ <<s[i]>>[1] = s[i]
      BY <1>1
    <3>2. Rest(s, i + 1) \in Seq(Msg) /\ Len(Rest(s, i + 1)) = Len(s) - i
      BY <2>2
    <3>3. r \in Seq(Msg) /\ Len(r) = 1 + (Len(s) - i)
      BY <3>1, <3>2
    <3>4. r[1] = <<s[i]>>[1]
      BY <1>1, <3>1, <3>2
    <3> QED
      BY <1>1, <3>1, <3>3, <3>4
  <2>4. ASSUME NEW k \in 1 .. Len(s) - i + 1 PROVE r[k] = Rest(s, i)[k]
    <3>1. CASE k = 1
      BY <1>1, <2>3, <3>1
    <3>2. CASE k # 1
      <4>1. k - 1 \in 1 .. Len(s) - i /\ i + (k - 1) = i + k - 1
        BY <1>1, <3>2
      <4>2. r[k] = Rest(s, i + 1)[k - 1]
        BY <1>1, <2>2, <4>1
      <4> QED
        BY <1>1, <2>2, <4>1, <4>2
    <3> QED
      BY <3>1, <3>2
  <2> HIDE DEF r
  <2>5. r = Rest(s, i)
    BY <1>1, <2>3, <2>4
  <2> QED
    BY <1>1, <1>3, <2>1, <2>5 DEF r
<1> QED
  BY <1>1, <1>2, <1>3

LEMMA NothingBehind == ASSUME NEW m \in Msg PROVE <<m>> \o <<>> = <<m>>
<1>1. <<m>> \in Seq(Msg) /\ Len(<<m>>) = 1 /\ <<m>>[1] = m
  OBVIOUS
<1>2. <<>> \in Seq(Msg) /\ Len(<<>>) = 0
  OBVIOUS
<1>3. <<m>> \o <<>> \in Seq(Msg) /\ Len(<<m>> \o <<>>) = 1 /\ (<<m>> \o <<>>)[1] = m
  BY <1>1, <1>2
<1> QED
  BY <1>1, <1>3

LEMMA RestOne == ASSUME NEW s \in Seq(Msg) PROVE Rest(s, 1) = s
BY DEF Rest

\* What Chain computes, before it is applied to the head.
ChainEq(L, f) == f = [m \in Ptr |-> IF m = NULL THEN <<>> ELSE <<m>> \o f[L.next[m]]]

\* A function that solves the equation.
Place(q, m) == CHOOSE p \in List \X Nat : p[2] \in 1 .. Len(q[p[1]]) /\ q[p[1]][p[2]] = m
Reads(q) ==
  [m \in Ptr |-> IF m = NULL THEN <<>>
                 ELSE IF Off(q, m) THEN <<m>>
                 ELSE Rest(q[Place(q, m)[1]], Place(q, m)[2])]

LEMMA ReadsAt ==
  ASSUME NEW q \in [List -> Seq(Msg)], OnePlace(q), NEW l \in List, NEW i \in 1 .. Len(q[l])
  PROVE  Reads(q)[q[l][i]] = Rest(q[l], i)
<1> DEFINE m == q[l][i]
           p == Place(q, m)
<1>1. q[l] \in Seq(Msg) /\ m \in Msg /\ i \in Nat /\ m # NULL /\ m \in Ptr
  BY NullAssumption DEF Ptr
<1>2. ~Off(q, m)
  BY DEF Off
<1>3. <<l, i>> \in List \X Nat /\ <<l, i>>[1] = l /\ <<l, i>>[2] = i
  BY <1>1
<1>4. \E c \in List \X Nat : c[2] \in 1 .. Len(q[c[1]]) /\ q[c[1]][c[2]] = m
  BY <1>3
<1>5. p \in List \X Nat /\ p[2] \in 1 .. Len(q[p[1]]) /\ q[p[1]][p[2]] = m
  BY <1>4 DEF Place
<1>6. p[1] = l /\ p[2] = i
  BY <1>5 DEF OnePlace
<1> QED
  BY <1>1, <1>2, <1>6 DEF Reads

LEMMA ReadsSolve ==
  ASSUME NEW L, NEW q, Shape(L, q, {})
  PROVE  ChainEq(L, Reads(q))
<1> DEFINE f == Reads(q)
<1>1. q \in [List -> Seq(Msg)] /\ OnePlace(q) /\ NULL \in Ptr /\ Msg \subseteq Ptr
  BY DEF Shape, Ptr
<1>2. f = [m \in Ptr |-> f[m]] /\ f[NULL] = <<>>
  BY <1>1 DEF Reads
<1>3. ASSUME NEW m \in Msg PROVE f[m] = <<m>> \o f[L.next[m]]
  <2>1. CASE Off(q, m)
    <3>1. f[m] = <<m>> /\ L.next[m] = NULL
      BY <1>1, <2>1, NullAssumption DEF Reads, Shape
    <3> QED
      BY <1>2, <3>1, NothingBehind
  <2>2. CASE ~Off(q, m)
    <3>1. PICK l \in List : \E i \in 1 .. Len(q[l]) : q[l][i] = m
      BY <2>2, Zenon DEF Off
    <3>2. PICK i \in 1 .. Len(q[l]) : m = q[l][i]
      BY <3>1
    <3>3. q[l] \in Seq(Msg) /\ f[m] = Rest(q[l], i)
      BY <1>1, <3>2, ReadsAt
    <3>4. L.next[m] = At(q[l], i + 1)
      BY <3>2 DEF Shape, IsList
    <3>5. CASE i = Len(q[l])
      <4>1. L.next[m] = NULL
        BY <3>3, <3>4, <3>5 DEF At
      <4>2. f[m] = <<m>>
        BY <3>2, <3>3, <3>5, RestStep
      <4> QED
        BY <1>2, <4>1, <4>2, NothingBehind
    <3>6. CASE i # Len(q[l])
      <4>1. i < Len(q[l])
        BY <3>3, <3>6
      <4>2. i + 1 \in 1 .. Len(q[l]) /\ f[m] = <<m>> \o Rest(q[l], i + 1)
        BY <3>2, <3>3, <4>1, RestStep
      <4>3. L.next[m] = q[l][i + 1]
        BY <3>4, <4>2 DEF At
      <4>4. f[q[l][i + 1]] = Rest(q[l], i + 1)
        BY <1>1, <4>2, ReadsAt
      <4> QED
        BY <4>2, <4>3, <4>4
    <3> QED
      BY <3>5, <3>6
  <2> QED
    BY <2>1, <2>2
<1> HIDE DEF f
<1>4. \A m \in Ptr : m = NULL \/ m \in Msg
  BY DEF Ptr
<1>5. \A m \in Ptr : f[m] = IF m = NULL THEN <<>> ELSE <<m>> \o f[L.next[m]]
  BY <1>2, <1>3, <1>4
<1>6. ChainEq(L, f)
  BY <1>2, <1>5 DEF ChainEq
<1> QED
  BY <1>6 DEF f

\* Any solution reads what is behind a record.
LEMMA ChainReads ==
  ASSUME NEW L, NEW q, Shape(L, q, {}), NEW f, ChainEq(L, f), NEW l \in List
  PROVE  \A i \in 1 .. Len(q[l]) : f[q[l][i]] = Rest(q[l], i)
<1> DEFINE s == q[l]
           n == Len(s)
           T == {d \in Nat : \E i \in 1 .. n : d = n - i /\ f[s[i]] # Rest(s, i)}
<1>1. s \in Seq(Msg) /\ n \in Nat /\ Msg \subseteq Ptr /\ NULL \in Ptr
  BY DEF Shape, Ptr
<1>2. /\ \A m \in Msg : f[m] = <<m>> \o f[L.next[m]]
      /\ f[NULL] = <<>>
  <2>1. \A m \in Ptr : f[m] = IF m = NULL THEN <<>> ELSE <<m>> \o f[L.next[m]]
    BY Zenon DEF ChainEq
  <2> QED
    BY <1>1, <2>1, NullAssumption
<1>3. \A i \in 1 .. n : s[i] \in Msg /\ L.next[s[i]] = At(s, i + 1)
  BY <1>1 DEF Shape, IsList
<1> HIDE DEF s
<1>4. SUFFICES ASSUME T # {} PROVE FALSE
  <2> SUFFICES ASSUME NEW i \in 1 .. n, f[s[i]] # Rest(s, i) PROVE n - i \in T
    BY DEF s
  <2>1. n - i \in Nat
    BY <1>1
  <2> QED
    BY <2>1
<1>5. PICK d \in T : \A e \in T : ~(<<e, d>> \in OpToRel(<, Nat))
  <2>1. T \subseteq Nat
    OBVIOUS
  <2> QED
    BY <1>4, <2>1, NatLessThanWellFounded, WFMin
<1>6. PICK i \in 1 .. n : d = n - i /\ f[s[i]] # Rest(s, i)
  BY <1>5
<1>7. f[s[i]] = <<s[i]>> \o f[L.next[s[i]]]
  BY <1>2, <1>3, <1>6
<1>8. CASE i = n
  <2>1. L.next[s[i]] = NULL
    BY <1>1, <1>3, <1>8 DEF At
  <2>2. f[s[i]] = <<s[i]>>
    BY <1>2, <1>3, <1>7, <2>1, NothingBehind
  <2> QED
    BY <1>1, <1>6, <1>8, <2>2, RestStep
<1>9. CASE i # n
  <2>1. i < n
    BY <1>1, <1>9
  <2>2. i + 1 \in 1 .. n /\ Rest(s, i) = <<s[i]>> \o Rest(s, i + 1)
    BY <1>1, <2>1, RestStep
  <2>3. L.next[s[i]] = s[i + 1]
    BY <1>3, <2>2 DEF At
  <2>4. f[s[i + 1]] # Rest(s, i + 1)
    BY <1>6, <1>7, <2>2, <2>3
  <2>5. n - (i + 1) \in T /\ n - (i + 1) < d
    <3>1. n - (i + 1) \in Nat /\ n - (i + 1) < d
      BY <1>1, <1>6, <2>2
    <3> QED
      BY <2>2, <2>4, <3>1
  <2>6. d \in Nat /\ n - (i + 1) \in Nat
    BY <1>5, <2>5
  <2>7. <<n - (i + 1), d>> \in OpToRel(<, Nat)
    BY <2>5, <2>6 DEF OpToRel
  <2> QED
    BY <1>5, <2>5, <2>7
<1> QED
  BY <1>8, <1>9

\* The sequences are what Chain yields.
LEMMA ChainIs ==
  ASSUME NEW L, NEW q, Shape(L, q, {}), NEW l \in List
  PROVE  Chain(L, l) = q[l]
<1> DEFINE f == CHOOSE g : ChainEq(L, g)
<1>1. ChainEq(L, f)
  BY ReadsSolve, Zenon
<1>2. Chain(L, l) = f[L.head[l]]
  BY Zenon DEF Chain, ChainEq
<1> HIDE DEF f
<1>3. q[l] \in Seq(Msg) /\ L.head[l] = At(q[l], 1)
  BY DEF Shape, IsList
<1>4. CASE q[l] = <<>>
  <2>1. L.head[l] = NULL
    BY <1>3, <1>4 DEF At
  <2>2. f[NULL] = <<>>
    BY <1>1, Zenon DEF ChainEq, Ptr
  <2> QED
    BY <1>2, <1>4, <2>1, <2>2
<1>5. CASE q[l] # <<>>
  <2>1. 1 \in 1 .. Len(q[l])
    BY <1>3, <1>5
  <2>2. L.head[l] = q[l][1]
    BY <1>3, <2>1 DEF At
  <2>3. f[q[l][1]] = Rest(q[l], 1)
    BY <1>1, <2>1, ChainReads
  <2> QED
    BY <1>2, <1>3, <2>2, <2>3, RestOne
<1> QED
  BY <1>4, <1>5
-----------------------------------------------------------------------------
(* What each piece of pointer surgery writes.                              *)

LEMMA CleanNodeWrites ==
  ASSUME NEW L \in Links, NEW m \in Msg, NEW R, R = CleanNode(L, m)
  PROVE  /\ R \in Links /\ R.head = L.head /\ R.tail = L.tail
         /\ \A x \in Msg : /\ R.next[x] = IF x = m THEN NULL ELSE L.next[x]
                           /\ R.prev[x] = IF x = m THEN NULL ELSE L.prev[x]
<1>1. NULL \in Ptr
  BY DEF Ptr
<1> QED
  BY <1>1 DEF CleanNode, Links

\* R is L, in which from .. to were put behind the tail of l.
Hooked(R, L, l, from, to) ==
  /\ R \in Links
  /\ \A x \in Msg : /\ R.next[x] = IF x = L.tail[l] THEN from
                                   ELSE IF x = to THEN NULL ELSE L.next[x]
                    /\ R.prev[x] = IF x = from THEN L.tail[l] ELSE L.prev[x]
  /\ \A k \in List : /\ R.head[k] = IF k = l /\ L.tail[l] = NULL THEN from ELSE L.head[k]
                     /\ R.tail[k] = IF k = l THEN to ELSE L.tail[k]

LEMMA InsertTailWrites ==
  ASSUME NEW L \in Links, NEW l \in List, NEW from \in Msg, NEW to \in Msg
  PROVE  Hooked(InsertTail(L, l, from, to), L, l, from, to)
<1> DEFINE R == InsertTail(L, l, from, to)
<1>1. NULL \in Ptr /\ Msg \subseteq Ptr /\ L.tail[l] \in Ptr
  BY DEF Ptr, Links
<1> DEFINE linked == [L EXCEPT !.prev[from] = L.tail[l], !.next[to] = NULL, !.tail[l] = to]
<1>2. /\ linked \in Links /\ linked.head = L.head
      /\ linked.next = [L.next EXCEPT ![to] = NULL]
      /\ linked.prev = [L.prev EXCEPT ![from] = L.tail[l]]
      /\ linked.tail = [L.tail EXCEPT ![l] = to]
  BY <1>1 DEF Links
<1>3. R = IF L.tail[l] = NULL THEN [linked EXCEPT !.head[l] = from]
                             ELSE [linked EXCEPT !.next[L.tail[l]] = from]
  BY DEF InsertTail
<1> HIDE DEF linked, R
<1>4. /\ R \in Links
      /\ \A x \in Msg : /\ R.next[x] = IF x = L.tail[l] THEN from
                                       ELSE IF x = to THEN NULL ELSE L.next[x]
                        /\ R.prev[x] = IF x = from THEN L.tail[l] ELSE L.prev[x]
      /\ \A k \in List : /\ R.head[k] = IF k = l /\ L.tail[l] = NULL THEN from ELSE L.head[k]
                         /\ R.tail[k] = IF k = l THEN to ELSE L.tail[k]
  <2>1. CASE L.tail[l] = NULL
    BY <1>1, <1>2, <1>3, <2>1, NullAssumption DEF Links
  <2>2. CASE L.tail[l] # NULL
    <3>1. L.tail[l] \in Msg
      BY <1>1, <2>2 DEF Ptr
    <3> QED
      BY <1>1, <1>2, <1>3, <2>2, <3>1 DEF Links
  <2> QED
    BY <2>1, <2>2
<1> QED
  BY <1>4 DEF Hooked, R

\* R is L, in which m was put between b and c.
Placed(R, L, l, m, b, c) ==
  /\ R \in Links /\ R.head = L.head
  /\ \A x \in Msg : /\ R.next[x] = IF x = b THEN m ELSE IF x = m THEN c ELSE L.next[x]
                    /\ R.prev[x] = IF x = c THEN m ELSE IF x = m THEN b ELSE L.prev[x]
  /\ \A k \in List : R.tail[k] = IF k = l /\ c = NULL THEN m ELSE L.tail[k]

LEMMA PlaceAfterWrites ==
  ASSUME NEW L \in Links, NEW l \in List, NEW m \in Msg, NEW b \in Msg, m # b
  PROVE  Placed(PlaceAfter(L, l, m, b), L, l, m, b, L.next[b])
<1> DEFINE R == PlaceAfter(L, l, m, b)
<1>1. NULL \in Ptr /\ Msg \subseteq Ptr /\ L.next[b] \in Ptr
  BY DEF Ptr, Links
<1> DEFINE placed == [L EXCEPT !.prev[m] = b, !.next[m] = L.next[b], !.next[b] = m]
<1>2. /\ placed \in Links /\ placed.head = L.head /\ placed.tail = L.tail
      /\ placed.next = [L.next EXCEPT ![m] = L.next[b], ![b] = m]
      /\ placed.prev = [L.prev EXCEPT ![m] = b]
  BY <1>1 DEF Links
<1>3. R = IF L.next[b] = NULL THEN [placed EXCEPT !.tail[l] = m]
                             ELSE [placed EXCEPT !.prev[L.next[b]] = m]
  BY DEF PlaceAfter
<1> HIDE DEF placed, R
<1>4. /\ R \in Links /\ R.head = L.head
      /\ \A x \in Msg : /\ R.next[x] = IF x = b THEN m ELSE IF x = m THEN L.next[b] ELSE L.next[x]
                        /\ R.prev[x] = IF x = L.next[b] THEN m ELSE IF x = m THEN b ELSE L.prev[x]
      /\ \A k \in List : R.tail[k] = IF k = l /\ L.next[b] = NULL THEN m ELSE L.tail[k]
  <2>1. CASE L.next[b] = NULL
    BY <1>1, <1>2, <1>3, <2>1, NullAssumption DEF Links
  <2>2. CASE L.next[b] # NULL
    <3>1. L.next[b] \in Msg
      BY <1>1, <2>2 DEF Ptr
    <3> QED
      BY <1>1, <1>2, <1>3, <2>2, <3>1 DEF Links
  <2> QED
    BY <2>1, <2>2
<1> QED
  BY <1>4 DEF Placed, R

\* R is L, in which the neighbours of a run from a to b were joined.
Joined(R, L, l, a, b) ==
  /\ R \in Links
  /\ \A x \in Msg : /\ R.next[x] = IF x = a THEN b ELSE L.next[x]
                    /\ R.prev[x] = IF x = b THEN a ELSE L.prev[x]
  /\ \A k \in List : /\ R.head[k] = IF k = l /\ a = NULL THEN b ELSE L.head[k]
                     /\ R.tail[k] = IF k = l /\ b = NULL THEN a ELSE L.tail[k]

LEMMA UnlinkWrites ==
  ASSUME NEW L \in Links, NEW l \in List, NEW from \in Msg, NEW to \in Msg
  PROVE  Joined(Unlink(L, l, from, to), L, l, L.prev[from], L.next[to])
<1> DEFINE R == Unlink(L, l, from, to)
<1>1. /\ NULL \in Ptr /\ Msg \subseteq Ptr /\ L.next[to] \in Ptr /\ L.prev[from] \in Ptr
      /\ \A p \in Ptr : p # NULL => p \in Msg
  BY DEF Ptr, Links
<1> DEFINE left == IF L.prev[from] # NULL THEN [L EXCEPT !.next[L.prev[from]] = L.next[to]]
                                          ELSE [L EXCEPT !.head[l] = L.next[to]]
<1>2. /\ left \in Links /\ left.prev = L.prev /\ left.tail = L.tail
      /\ \A x \in Msg : left.next[x] = IF x = L.prev[from] THEN L.next[to] ELSE L.next[x]
      /\ \A k \in List : left.head[k] = IF k = l /\ L.prev[from] = NULL THEN L.next[to] ELSE L.head[k]
  <2>1. CASE L.prev[from] = NULL
    BY <1>1, <2>1, NullAssumption DEF Links
  <2>2. CASE L.prev[from] # NULL
    BY <1>1, <2>2 DEF Links
  <2> QED
    BY <2>1, <2>2
<1>3. R = IF L.next[to] # NULL THEN [left EXCEPT !.prev[L.next[to]] = L.prev[from]]
                              ELSE [left EXCEPT !.tail[l] = L.prev[from]]
  BY DEF Unlink
<1> HIDE DEF left, R
<1>4. /\ R \in Links
      /\ \A x \in Msg : /\ R.next[x] = IF x = L.prev[from] THEN L.next[to] ELSE L.next[x]
                        /\ R.prev[x] = IF x = L.next[to] THEN L.prev[from] ELSE L.prev[x]
      /\ \A k \in List : /\ R.head[k] = IF k = l /\ L.prev[from] = NULL THEN L.next[to] ELSE L.head[k]
                         /\ R.tail[k] = IF k = l /\ L.next[to] = NULL THEN L.prev[from] ELSE L.tail[k]
  <2>1. CASE L.next[to] = NULL
    BY <1>1, <1>2, <1>3, <2>1, NullAssumption DEF Links
  <2>2. CASE L.next[to] # NULL
    BY <1>1, <1>2, <1>3, <2>2 DEF Links
  <2> QED
    BY <2>1, <2>2
<1> QED
  BY <1>4 DEF Joined, R
-----------------------------------------------------------------------------
(* The sequences the surgery yields, by index.                             *)

Cut(s, i, j) == SubSeq(s, 1, i - 1) \o SubSeq(s, j + 1, Len(s))
Put(s, i, m) == SubSeq(s, 1, i) \o <<m>> \o SubSeq(s, i + 1, Len(s))

LEMMA JoinAt ==
  ASSUME NEW s \in Seq(Msg), NEW t \in Seq(Msg)
  PROVE  /\ s \o t \in Seq(Msg) /\ Len(s \o t) = Len(s) + Len(t)
         /\ \A k \in 1 .. Len(s) : (s \o t)[k] = s[k]
         /\ \A k \in 1 .. Len(t) : (s \o t)[Len(s) + k] = t[k]
OBVIOUS

LEMMA PieceAt ==
  ASSUME NEW s \in Seq(Msg), NEW i \in Nat, NEW j \in Nat, 1 <= i, j <= Len(s), i <= j + 1
  PROVE  /\ SubSeq(s, i, j) \in Seq(Msg) /\ Len(SubSeq(s, i, j)) = j - i + 1
         /\ \A k \in 1 .. j - i + 1 : SubSeq(s, i, j)[k] = s[i + k - 1]
OBVIOUS

LEMMA CutAt ==
  ASSUME NEW s \in Seq(Msg), NEW i \in 1 .. Len(s), NEW j \in 1 .. Len(s), i <= j
  PROVE  /\ Cut(s, i, j) \in Seq(Msg) /\ Len(Cut(s, i, j)) = Len(s) - (j - i + 1)
         /\ \A k \in 1 .. i - 1 : Cut(s, i, j)[k] = s[k]
         /\ \A k \in i .. Len(s) - (j - i + 1) : Cut(s, i, j)[k] = s[k + (j - i + 1)]
<1> DEFINE a == SubSeq(s, 1, i - 1)
           b == SubSeq(s, j + 1, Len(s))
<1>1. Len(s) \in Nat /\ i \in Nat /\ j \in Nat /\ 1 <= i /\ i <= j /\ j <= Len(s)
  OBVIOUS
<1>2. /\ a \in Seq(Msg) /\ Len(a) = i - 1
      /\ \A k \in 1 .. i - 1 : a[k] = s[k]
  BY <1>1
<1>3. /\ b \in Seq(Msg) /\ Len(b) = Len(s) - j
      /\ \A k \in 1 .. Len(s) - j : b[k] = s[j + k]
  BY <1>1
<1> HIDE DEF a, b
<1>4. /\ a \o b \in Seq(Msg) /\ Len(a \o b) = Len(a) + Len(b)
      /\ \A k \in 1 .. Len(a) : (a \o b)[k] = a[k]
      /\ \A k \in 1 .. Len(b) : (a \o b)[Len(a) + k] = b[k]
  BY <1>2, <1>3, JoinAt
<1>5. ASSUME NEW k \in i .. Len(s) - (j - i + 1)
      PROVE  (a \o b)[k] = s[k + (j - i + 1)]
  <2>1. k - (i - 1) \in 1 .. Len(b) /\ Len(a) + (k - (i - 1)) = k /\ j + (k - (i - 1)) = k + (j - i + 1)
    BY <1>1, <1>2, <1>3
  <2>2. (a \o b)[k] = b[k - (i - 1)] /\ b[k - (i - 1)] = s[j + (k - (i - 1))]
    BY <1>3, <1>4, <2>1
  <2> QED
    BY <2>1, <2>2
<1>6. Cut(s, i, j) = a \o b
  BY DEF Cut, a, b
<1>7. Len(a \o b) = Len(s) - (j - i + 1)
  BY <1>1, <1>2, <1>3, <1>4
<1>8. \A k \in 1 .. i - 1 : (a \o b)[k] = s[k]
  BY <1>2, <1>4
<1> QED
  BY <1>4, <1>5, <1>6, <1>7, <1>8

\* The sequences when a run went from k to the tail of l.
MoveSeq(q, k, l, i, j) == [q EXCEPT ![k] = Cut(@, i, j), ![l] = @ \o SubSeq(q[k], i, j)]

LEMMA PutAt ==
  ASSUME NEW s \in Seq(Msg), NEW i \in 0 .. Len(s), NEW m \in Msg
  PROVE  /\ Put(s, i, m) \in Seq(Msg) /\ Len(Put(s, i, m)) = Len(s) + 1
         /\ \A k \in 1 .. i : Put(s, i, m)[k] = s[k]
         /\ Put(s, i, m)[i + 1] = m
         /\ \A k \in i + 2 .. Len(s) + 1 : Put(s, i, m)[k] = s[k - 1]
<1> DEFINE a == SubSeq(s, 1, i)
           b == SubSeq(s, i + 1, Len(s))
           c == <<m>>
           d == a \o c
<1>1. Len(s) \in Nat /\ i \in Nat /\ i <= Len(s)
  OBVIOUS
<1>2. /\ a \in Seq(Msg) /\ Len(a) = i
      /\ \A k \in 1 .. i : a[k] = s[k]
  BY <1>1
<1>3. /\ b \in Seq(Msg) /\ Len(b) = Len(s) - i
      /\ \A k \in 1 .. Len(s) - i : b[k] = s[i + k]
  BY <1>1
<1>4. c \in Seq(Msg) /\ Len(c) = 1 /\ c[1] = m
  OBVIOUS
<1>5. Put(s, i, m) = d \o b
  BY DEF Put
<1> HIDE DEF a, b, c
<1>6. d \in Seq(Msg) /\ Len(d) = i + 1 /\ (\A k \in 1 .. i : d[k] = s[k]) /\ d[i + 1] = m
  <2>1. /\ d \in Seq(Msg) /\ Len(d) = Len(a) + Len(c)
        /\ \A k \in 1 .. Len(a) : d[k] = a[k]
        /\ \A k \in 1 .. Len(c) : d[Len(a) + k] = c[k]
    BY <1>2, <1>4, JoinAt
  <2>2. d[i + 1] = c[1]
    BY <1>1, <1>2, <1>4, <2>1
  <2> QED
    BY <1>1, <1>2, <1>4, <2>1, <2>2
<1> HIDE DEF d
<1>7. /\ d \o b \in Seq(Msg) /\ Len(d \o b) = Len(d) + Len(b)
      /\ \A k \in 1 .. Len(d) : (d \o b)[k] = d[k]
      /\ \A k \in 1 .. Len(b) : (d \o b)[Len(d) + k] = b[k]
  BY <1>3, <1>6, JoinAt
<1>8. ASSUME NEW k \in i + 2 .. Len(s) + 1 PROVE (d \o b)[k] = s[k - 1]
  <2>1. k - (i + 1) \in 1 .. Len(b) /\ Len(d) + (k - (i + 1)) = k /\ i + (k - (i + 1)) = k - 1
    BY <1>1, <1>3, <1>6
  <2>2. (d \o b)[k] = b[k - (i + 1)] /\ b[k - (i + 1)] = s[i + (k - (i + 1))]
    BY <1>3, <1>7, <2>1
  <2> QED
    BY <2>1, <2>2
<1> QED
  BY <1>1, <1>3, <1>5, <1>6, <1>7, <1>8
-----------------------------------------------------------------------------
(* Each piece of surgery turns lists into lists.                           *)

\* What Shape says of a record on a list.
LEMMA ShapeAt ==
  ASSUME NEW L, NEW q, NEW X, Shape(L, q, X), NEW l \in List
  PROVE  /\ q[l] \in Seq(Msg) /\ Len(q[l]) \in Nat
         /\ L.head[l] = At(q[l], 1) /\ L.tail[l] = At(q[l], Len(q[l]))
         /\ \A i \in 1 .. Len(q[l]) : /\ q[l][i] \in Msg /\ q[l][i] # NULL
                                      /\ L.next[q[l][i]] = At(q[l], i + 1)
                                      /\ L.prev[q[l][i]] = At(q[l], i - 1)
<1>1. q[l] \in Seq(Msg)
  BY DEF Shape
<1> QED
  BY <1>1, NullAssumption DEF Shape, IsList

LEMMA CleanNodeShape ==
  ASSUME NEW L, NEW q, NEW X, NEW Y, Shape(L, q, X), NEW m \in Msg, Off(q, m),
         X \subseteq Y \cup {m}
  PROVE  Shape(CleanNode(L, m), q, Y)
<1> DEFINE R == CleanNode(L, m)
<1>1. /\ R \in Links /\ R.head = L.head /\ R.tail = L.tail
      /\ \A x \in Msg : /\ R.next[x] = IF x = m THEN NULL ELSE L.next[x]
                        /\ R.prev[x] = IF x = m THEN NULL ELSE L.prev[x]
  BY CleanNodeWrites DEF Shape
<1> HIDE DEF R
<1>2. ASSUME NEW l \in List PROVE IsList(R, l, q[l])
  <2>1. \A i \in 1 .. Len(q[l]) : q[l][i] # m
    BY DEF Off
  <2> QED
    <3>1. /\ L.head[l] = At(q[l], 1) /\ L.tail[l] = At(q[l], Len(q[l]))
          /\ \A i \in 1 .. Len(q[l]) : /\ q[l][i] \in Msg
                                       /\ L.next[q[l][i]] = At(q[l], i + 1)
                                       /\ L.prev[q[l][i]] = At(q[l], i - 1)
      BY ShapeAt
    <3> QED
      BY <1>1, <2>1, <3>1 DEF IsList
<1>3. \A x \in Msg \ Y : Off(q, x) => R.next[x] = NULL /\ R.prev[x] = NULL
  BY <1>1 DEF Shape
<1>4. Shape(R, q, Y)
  BY <1>1, <1>2, <1>3 DEF Shape
<1> QED
  BY <1>4 DEF R

\* The records of t are on no list, linked among themselves.
Linking(L, q, t) ==
  /\ t \in Seq(Msg) /\ Len(t) >= 1
  /\ \A i \in 1 .. Len(t) : Off(q, t[i])
  /\ \A i, j \in 1 .. Len(t) : t[i] = t[j] => i = j
  /\ \A i \in 1 .. Len(t) - 1 : L.next[t[i]] = t[i + 1] /\ L.prev[t[i + 1]] = t[i]

\* Places of two sequences that are joined.
LEMMA NextPlace ==
  ASSUME NEW a \in Nat, NEW n \in Nat, NEW j \in 1 .. n, j # n
  PROVE  /\ j \in 1 .. n - 1 /\ j + 1 \in 1 .. n /\ n \in 1 .. n
         /\ a + j + 1 = a + (j + 1) /\ a + j + 1 \in 1 .. a + n
OBVIOUS

LEMMA InsertTailShape ==
  ASSUME NEW L, NEW q, NEW X, NEW Y, Shape(L, q, X), NEW l \in List, NEW t, Linking(L, q, t),
         \A x \in X \ Y : \E i \in 1 .. Len(t) : t[i] = x
  PROVE  Shape(InsertTail(L, l, t[1], t[Len(t)]), [q EXCEPT ![l] = @ \o t], Y)
<1> DEFINE n == Len(t)
           R == InsertTail(L, l, t[1], t[n])
           s == q[l]
           a == Len(s)
           u == s \o t
           p == [q EXCEPT ![l] = @ \o t]
<1>1. /\ t \in Seq(Msg) /\ n \in Nat /\ n >= 1
      /\ \A i \in 1 .. n : t[i] \in Msg /\ t[i] # NULL
      /\ t[1] \in Msg /\ t[n] \in Msg
  BY NullAssumption DEF Linking
<1>2. /\ s \in Seq(Msg) /\ a \in Nat
      /\ L.head[l] = At(s, 1) /\ L.tail[l] = At(s, a)
      /\ \A i \in 1 .. a : /\ s[i] \in Msg /\ s[i] # NULL
                           /\ L.next[s[i]] = At(s, i + 1) /\ L.prev[s[i]] = At(s, i - 1)
  BY ShapeAt
<1>3. /\ R \in Links
      /\ \A x \in Msg : /\ R.next[x] = IF x = L.tail[l] THEN t[1]
                                       ELSE IF x = t[n] THEN NULL ELSE L.next[x]
                        /\ R.prev[x] = IF x = t[1] THEN L.tail[l] ELSE L.prev[x]
      /\ \A k \in List : /\ R.head[k] = IF k = l /\ L.tail[l] = NULL THEN t[1] ELSE L.head[k]
                         /\ R.tail[k] = IF k = l THEN t[n] ELSE L.tail[k]
  <2>1. L \in Links
    BY DEF Shape
  <2>2. Hooked(R, L, l, t[1], t[n])
    BY <1>1, <2>1, InsertTailWrites
  <2> HIDE DEF R
  <2> QED
    BY <2>2 DEF Hooked
<1>4. /\ u \in Seq(Msg) /\ Len(u) = a + n
      /\ \A k \in 1 .. a : u[k] = s[k]
      /\ \A k \in 1 .. n : u[a + k] = t[k]
  BY <1>1, <1>2, JoinAt
<1>5. q \in [List -> Seq(Msg)] /\ p \in [List -> Seq(Msg)] /\ p[l] = u
      /\ \A k \in List : k # l => p[k] = q[k]
  BY <1>4 DEF Shape
<1>6. \A k \in List : \A i \in 1 .. Len(q[k]) : \A j \in 1 .. n : q[k][i] # t[j]
  BY DEF Linking, Off
<1>7. \A i, j \in 1 .. n : t[i] = t[j] => i = j
  BY DEF Linking
<1>8. \A i \in 1 .. n - 1 : L.next[t[i]] = t[i + 1] /\ L.prev[t[i + 1]] = t[i]
  BY DEF Linking
<1>9. \A i, j \in 1 .. a : s[i] = s[j] => i = j
  BY DEF Shape, OnePlace
<1>10. \A i \in 1 .. a + n : i \in 1 .. a \/ (i - a \in 1 .. n /\ u[i] = t[i - a])
  <2> SUFFICES ASSUME NEW i \in 1 .. a + n, i \notin 1 .. a
               PROVE  i - a \in 1 .. n /\ u[i] = t[i - a]
    OBVIOUS
  <2>1. i - a \in 1 .. n /\ a + (i - a) = i
    BY <1>1, <1>2
  <2> QED
    BY <1>4, <2>1
<1> HIDE DEF R, p, u
<1>11. IsList(R, l, u)
  <2>1. R.head[l] = At(u, 1)
    <3>1. CASE a = 0
      <4>1. L.tail[l] = NULL /\ u[0 + 1] = t[1]
        BY <1>1, <1>2, <1>4, <3>1 DEF At
      <4> QED
        BY <1>1, <1>3, <1>4, <3>1, <4>1 DEF At
    <3>2. CASE a # 0
      <4>1. L.tail[l] # NULL /\ u[1] = s[1] /\ L.head[l] = s[1]
        BY <1>1, <1>2, <1>4, <3>2 DEF At
      <4> QED
        BY <1>1, <1>2, <1>3, <1>4, <3>2, <4>1 DEF At
    <3> QED
      BY <3>1, <3>2
  <2>2. R.tail[l] = At(u, Len(u))
    <3>1. u[a + n] = t[n] /\ a + n \in 1 .. a + n
      BY <1>1, <1>2, <1>4
    <3> QED
      BY <1>3, <1>4, <3>1 DEF At
  <2>3. ASSUME NEW i \in 1 .. a
        PROVE  R.next[u[i]] = At(u, i + 1) /\ R.prev[u[i]] = At(u, i - 1)
    <3>1. u[i] = s[i] /\ s[i] \in Msg /\ s[i] # t[1] /\ s[i] # t[n]
      BY <1>1, <1>2, <1>4, <1>6
    <3>2. R.prev[u[i]] = At(u, i - 1)
      <4>1. R.prev[u[i]] = At(s, i - 1)
        <5>1. L.prev[s[i]] = At(s, i - 1)
          BY <1>2
        <5>2. R.prev[s[i]] = L.prev[s[i]]
          BY <1>3, <3>1
        <5> QED
          BY <3>1, <5>1, <5>2
      <4>2. At(s, i - 1) = At(u, i - 1)
        BY <1>1, <1>2, <1>4 DEF At
      <4> QED
        BY <4>1, <4>2
    <3>3. CASE i = a
      <4>1. s[i] = L.tail[l] /\ u[a + 1] = t[1] /\ a + 1 \in 1 .. a + n
        BY <1>1, <1>2, <1>4, <3>3 DEF At
      <4> QED
        BY <1>3, <1>4, <3>1, <3>2, <3>3, <4>1 DEF At
    <3>4. CASE i # a
      <4>1. i + 1 \in 1 .. a /\ a \in 1 .. a /\ i + 1 \in 1 .. a + n
        BY <1>1, <1>2, <3>4
      <4>2. s[i] # L.tail[l]
        BY <1>2, <1>9, <3>4, <4>1 DEF At
      <4>3. R.next[u[i]] = s[i + 1] /\ u[i + 1] = s[i + 1]
        <5>1. L.next[s[i]] = s[i + 1]
          BY <1>2, <4>1 DEF At
        <5> QED
          BY <1>3, <1>4, <3>1, <4>1, <4>2, <5>1
      <4> QED
        BY <1>4, <3>2, <4>1, <4>3 DEF At
    <3> QED
      BY <3>3, <3>4
  <2>4. ASSUME NEW i \in 1 .. a + n, i \notin 1 .. a
        PROVE  R.next[u[i]] = At(u, i + 1) /\ R.prev[u[i]] = At(u, i - 1)
    <3> DEFINE j == i - a
    <3>1. j \in 1 .. n /\ u[i] = t[j] /\ i = a + j
      BY <1>2, <1>10, <2>4
    <3> HIDE DEF j
    <3>2. t[j] \in Msg /\ t[j] # L.tail[l]
      <4>1. \A k \in 1 .. a : s[k] # t[j]
        BY <1>6, <3>1
      <4> QED
        BY <1>1, <1>2, <3>1, <4>1 DEF At
    <3>3. R.next[u[i]] = At(u, i + 1)
      <4>1. CASE j = n
        BY <1>1, <1>2, <1>3, <1>4, <3>1, <3>2, <4>1 DEF At
      <4>2. CASE j # n
        <5>1. j \in 1 .. n - 1 /\ j + 1 \in 1 .. n /\ n \in 1 .. n
              /\ i + 1 = a + (j + 1) /\ i + 1 \in 1 .. a + n
          <6>1. a \in Nat /\ n \in Nat /\ j \in 1 .. n /\ i = a + j
            BY <1>1, <1>2, <3>1
          <6>2. /\ j \in 1 .. n - 1 /\ j + 1 \in 1 .. n /\ n \in 1 .. n
                /\ a + j + 1 = a + (j + 1) /\ a + j + 1 \in 1 .. a + n
            BY <4>2, <6>1, NextPlace
          <6> QED
            BY <6>1, <6>2
        <5>2. t[j] # t[n] /\ R.next[t[j]] = t[j + 1]
          BY <1>3, <1>7, <1>8, <3>1, <3>2, <4>2, <5>1
        <5>3. u[i + 1] = t[j + 1]
          <6>1. u[a + (j + 1)] = t[j + 1]
            BY <1>4, <5>1
          <6> QED
            BY <5>1, <6>1
        <5> QED
          BY <1>4, <3>1, <5>1, <5>2, <5>3 DEF At
      <4> QED
        BY <4>1, <4>2
    <3>4. R.prev[u[i]] = At(u, i - 1)
      <4>1. CASE j = 1
        <5>1. R.prev[u[i]] = At(s, a) /\ i - 1 = a
          BY <1>2, <1>3, <3>1, <3>2, <4>1
        <5>2. At(s, a) = At(u, a)
          <6>1. CASE a = 0
            BY <1>4, <6>1 DEF At
          <6>2. CASE a # 0
            <7>1. a \in 1 .. a /\ a \in 1 .. a + n
              BY <1>1, <1>2, <6>2
            <7> QED
              BY <1>4, <7>1 DEF At
          <6> QED
            BY <6>1, <6>2
        <5> QED
          BY <5>1, <5>2
      <4>2. CASE j # 1
        <5>1. j - 1 \in 1 .. n - 1 /\ j - 1 \in 1 .. n /\ (j - 1) + 1 = j /\ 1 \in 1 .. n
              /\ i - 1 = a + (j - 1) /\ i - 1 \in 1 .. a + n
          BY <1>1, <1>2, <3>1, <4>2
        <5>2. t[j] # t[1] /\ L.prev[t[(j - 1) + 1]] = t[j - 1]
          BY <1>7, <1>8, <3>1, <4>2, <5>1
        <5>3. R.prev[t[j]] = t[j - 1]
          BY <1>3, <3>2, <5>1, <5>2
        <5>4. u[i - 1] = t[j - 1]
          BY <1>4, <5>1
        <5> QED
          BY <1>4, <3>1, <5>1, <5>3, <5>4 DEF At
      <4> QED
        BY <4>1, <4>2
    <3> QED
      BY <3>3, <3>4
  <2> QED
    BY <1>4, <2>1, <2>2, <2>3, <2>4 DEF IsList
<1>12. ASSUME NEW k \in List, k # l PROVE IsList(R, k, q[k])
  <2>1. ASSUME NEW i \in 1 .. Len(q[k]) PROVE q[k][i] # t[1] /\ q[k][i] # t[n] /\ q[k][i] # L.tail[l]
    <3>1. q[k][i] # t[1] /\ q[k][i] # t[n]
      BY <1>1, <1>6
    <3>2. \A j \in 1 .. a : q[k][i] # s[j]
      BY <1>12 DEF Shape, OnePlace
    <3> QED
      BY <1>2, <3>1, <3>2, ShapeAt DEF At
  <2> QED
    <3>1. /\ L.head[k] = At(q[k], 1) /\ L.tail[k] = At(q[k], Len(q[k]))
          /\ \A i \in 1 .. Len(q[k]) : /\ q[k][i] \in Msg
                                       /\ L.next[q[k][i]] = At(q[k], i + 1)
                                       /\ L.prev[q[k][i]] = At(q[k], i - 1)
      BY ShapeAt
    <3> QED
      BY <1>3, <1>12, <2>1, <3>1 DEF IsList
<1>13. OnePlace(p)
  <2> SUFFICES ASSUME NEW k \in List, NEW h \in List, NEW i \in 1 .. Len(p[k]), NEW j \in 1 .. Len(p[h]),
                      p[k][i] = p[h][j]
               PROVE  k = h /\ i = j
    BY DEF OnePlace
  <2>1. \A x \in List : \A y \in 1 .. Len(p[x]) :
          \/ y \in 1 .. Len(q[x]) /\ p[x][y] = q[x][y]
          \/ x = l /\ y - a \in 1 .. n /\ p[x][y] = t[y - a] /\ y \in Int
    <3> SUFFICES ASSUME NEW x \in List, NEW y \in 1 .. Len(p[x])
                 PROVE  \/ y \in 1 .. Len(q[x]) /\ p[x][y] = q[x][y]
                        \/ x = l /\ y - a \in 1 .. n /\ p[x][y] = t[y - a] /\ y \in Int
      OBVIOUS
    <3>1. CASE x = l
      BY <1>4, <1>5, <1>10, <3>1
    <3>2. CASE x # l
      BY <1>5, <3>2
    <3> QED
      BY <3>1, <3>2
  <2>2. CASE i \in 1 .. Len(q[k]) /\ p[k][i] = q[k][i] /\ j \in 1 .. Len(q[h]) /\ p[h][j] = q[h][j]
    <3>1. q[k][i] = q[h][j]
      BY <2>2
    <3>2. OnePlace(q)
      BY DEF Shape
    <3> QED
      BY <2>2, <3>1, <3>2 DEF OnePlace
  <2>3. CASE /\ k = l /\ i - a \in 1 .. n /\ p[k][i] = t[i - a] /\ i \in Int
             /\ h = l /\ j - a \in 1 .. n /\ p[h][j] = t[j - a] /\ j \in Int
    <3>1. i - a = j - a
      BY <1>7, <2>3
    <3> QED
      BY <1>2, <2>3, <3>1
  <2>4. CASE /\ i \in 1 .. Len(q[k]) /\ p[k][i] = q[k][i]
             /\ h = l /\ j - a \in 1 .. n /\ p[h][j] = t[j - a]
    <3> DEFINE b == j - a
    <3>1. i \in 1 .. Len(q[k]) /\ b \in 1 .. n
      BY <2>4
    <3> HIDE DEF b
    <3>2. q[k][i] # t[b]
      BY <1>6, <3>1
    <3> QED
      BY <2>4, <3>2 DEF b
  <2>5. CASE /\ j \in 1 .. Len(q[h]) /\ p[h][j] = q[h][j]
             /\ k = l /\ i - a \in 1 .. n /\ p[k][i] = t[i - a]
    <3> DEFINE b == i - a
    <3>1. j \in 1 .. Len(q[h]) /\ b \in 1 .. n
      BY <2>5
    <3> HIDE DEF b
    <3>2. q[h][j] # t[b]
      BY <1>6, <3>1
    <3> QED
      BY <2>5, <3>2 DEF b
  <2> QED
    BY <2>1, <2>2, <2>3, <2>4, <2>5
<1>14. ASSUME NEW m \in Msg \ Y, Off(p, m) PROVE R.next[m] = NULL /\ R.prev[m] = NULL
  <2>1. \A k \in 1 .. a + n : u[k] # m
    BY <1>4, <1>5, <1>14 DEF Off
  <2>2. \A k \in 1 .. n : t[k] # m
    <3> SUFFICES ASSUME NEW k \in 1 .. n PROVE t[k] # m
      OBVIOUS
    <3>1. a + k \in 1 .. a + n /\ u[a + k] = t[k]
      BY <1>1, <1>2, <1>4
    <3> QED
      BY <2>1, <3>1
  <2>3. \A k \in 1 .. a : s[k] # m
    <3> SUFFICES ASSUME NEW k \in 1 .. a PROVE s[k] # m
      OBVIOUS
    <3>1. k \in 1 .. a + n /\ u[k] = s[k]
      BY <1>1, <1>2, <1>4
    <3> QED
      BY <2>1, <3>1
  <2>4. Off(q, m)
    <3> SUFFICES ASSUME NEW k \in List, NEW i \in 1 .. Len(q[k]) PROVE q[k][i] # m
      BY DEF Off
    <3>1. CASE k = l
      BY <2>3, <3>1
    <3>2. CASE k # l
      BY <1>5, <1>14, <3>2 DEF Off
    <3> QED
      BY <3>1, <3>2
  <2>5. m \notin X
    BY <2>2
  <2>6. m # L.tail[l] /\ m # t[1] /\ m # t[n]
    BY <1>1, <1>2, <2>2, <2>3, NullAssumption DEF At
  <2> QED
    BY <1>3, <2>4, <2>5, <2>6 DEF Shape
<1>15. Shape(R, p, Y)
  <2>1. \A k \in List : IsList(R, k, p[k])
    BY <1>5, <1>11, <1>12
  <2> QED
    BY <1>3, <1>5, <1>13, <1>14, <2>1 DEF Shape
<1> QED
  BY <1>15 DEF R, p

LEMMA UnlinkShape ==
  ASSUME NEW L, NEW q, Shape(L, q, {}), NEW l \in List,
         NEW i \in 1 .. Len(q[l]), NEW j \in 1 .. Len(q[l]), i <= j
  PROVE  /\ Shape(Unlink(L, l, q[l][i], q[l][j]), [q EXCEPT ![l] = Cut(@, i, j)],
                  {q[l][k] : k \in i .. j})
         /\ Linking(Unlink(L, l, q[l][i], q[l][j]), [q EXCEPT ![l] = Cut(@, i, j)], SubSeq(q[l], i, j))
<1> DEFINE s == q[l]
           n == Len(s)
           R == Unlink(L, l, s[i], s[j])
           u == Cut(s, i, j)
           p == [q EXCEPT ![l] = Cut(@, i, j)]
           w == j - i + 1
           v == n - w
           t == SubSeq(s, i, j)
           Y == {s[k] : k \in i .. j}
<1>1. \A k \in List : /\ L.head[k] = At(q[k], 1) /\ L.tail[k] = At(q[k], Len(q[k]))
                      /\ \A a \in 1 .. Len(q[k]) : /\ q[k][a] \in Msg /\ q[k][a] # NULL
                                                   /\ L.next[q[k][a]] = At(q[k], a + 1)
                                                   /\ L.prev[q[k][a]] = At(q[k], a - 1)
  BY ShapeAt
<1>2. /\ s \in Seq(Msg) /\ n \in Nat
      /\ L.head[l] = At(s, 1) /\ L.tail[l] = At(s, n)
      /\ \A k \in 1 .. n : /\ s[k] \in Msg /\ s[k] # NULL
                           /\ L.next[s[k]] = At(s, k + 1) /\ L.prev[s[k]] = At(s, k - 1)
  BY ShapeAt
<1>3. i \in Nat /\ j \in Nat /\ 1 <= i /\ i <= j /\ j <= n /\ n \in Nat /\ n = Len(s) /\ w = j - i + 1 /\ w \in Nat /\ w >= 1
      /\ v \in Nat /\ n = v + w
  <2>1. i \in Nat /\ j \in Nat /\ n \in Nat /\ n = Len(s) /\ 1 <= i /\ j <= n
    BY <1>2
  <2> HIDE DEF n, s
  <2> QED
    BY <2>1
<1>4. /\ R \in Links
      /\ \A x \in Msg : /\ R.next[x] = IF x = At(s, i - 1) THEN At(s, j + 1) ELSE L.next[x]
                        /\ R.prev[x] = IF x = At(s, j + 1) THEN At(s, i - 1) ELSE L.prev[x]
      /\ \A k \in List :
           /\ R.head[k] = IF k = l /\ At(s, i - 1) = NULL THEN At(s, j + 1) ELSE L.head[k]
           /\ R.tail[k] = IF k = l /\ At(s, j + 1) = NULL THEN At(s, i - 1) ELSE L.tail[k]
  <2>1. /\ L \in Links /\ s[i] \in Msg /\ s[j] \in Msg
        /\ L.prev[s[i]] = At(s, i - 1) /\ L.next[s[j]] = At(s, j + 1)
    BY <1>2 DEF Shape
  <2>2. Joined(R, L, l, L.prev[s[i]], L.next[s[j]])
    BY <2>1, UnlinkWrites
  <2> QED
    BY <2>1, <2>2 DEF Joined
<1>5. /\ u \in Seq(Msg) /\ Len(u) = v
      /\ \A k \in 1 .. i - 1 : u[k] = s[k]
      /\ \A k \in i .. v : u[k] = s[k + w]
  BY <1>2, CutAt
<1>6. q \in [List -> Seq(Msg)] /\ p \in [List -> Seq(Msg)] /\ p[l] = u
      /\ \A k \in List : k # l => p[k] = q[k]
  BY <1>5 DEF Shape
<1>7. /\ \A a, b \in 1 .. n : s[a] = s[b] => a = b
      /\ \A k \in List : k # l => \A a \in 1 .. Len(q[k]) : \A b \in 1 .. n : q[k][a] # s[b]
  BY DEF Shape, OnePlace
<1>8. /\ t \in Seq(Msg) /\ Len(t) = w
      /\ \A k \in 1 .. w : t[k] = s[i + k - 1] /\ i + k - 1 \in i .. j /\ i + k - 1 \in 1 .. n
  <2>1. s \in Seq(Msg) /\ i \in Nat /\ j \in Nat /\ 1 <= i /\ j <= Len(s) /\ i <= j + 1
    BY <1>2, <1>3
  <2>2. t \in Seq(Msg) /\ Len(t) = w /\ \A k \in 1 .. w : t[k] = s[i + k - 1]
    BY <2>1, PieceAt
  <2> HIDE DEF s, n, t, w
  <2>3. \A k \in 1 .. w : i + k - 1 \in i .. j /\ i + k - 1 \in 1 .. n
    BY <1>3
  <2> QED
    BY <2>2, <2>3
\* The records on both sides of the gap.
<1>9. /\ i = 1 => At(s, i - 1) = NULL
      /\ i # 1 => i - 1 \in 1 .. n /\ At(s, i - 1) = s[i - 1]
      /\ j = n => At(s, j + 1) = NULL
      /\ j # n => j + 1 \in 1 .. n /\ At(s, j + 1) = s[j + 1]
  BY <1>3 DEF At
<1> HIDE DEF s, n, w, v, R, p, u, t, Y
<1>10. /\ i \in Int /\ j \in Int /\ n \in Int /\ v \in Int /\ w \in Int
       /\ 1 <= i /\ i <= j /\ j <= n /\ w = j - i + 1 /\ n = v + w
  BY <1>3
<1>11. /\ \A k \in 1 .. n : At(s, k) = s[k]
       /\ \A k : k \notin 1 .. n => At(s, k) = NULL
       /\ \A k \in 1 .. v : At(u, k) = u[k]
       /\ \A k : k \notin 1 .. v => At(u, k) = NULL
  BY <1>3, <1>5 DEF At
<1>12. ASSUME NEW k \in 1 .. n, k < i \/ j < k
       PROVE  /\ R.next[s[k]] = IF k = i - 1 THEN At(s, j + 1) ELSE At(s, k + 1)
              /\ R.prev[s[k]] = IF k = j + 1 THEN At(s, i - 1) ELSE At(s, k - 1)
  <2>1. s[k] = At(s, i - 1) <=> k = i - 1
    <3>1. CASE i = 1
      <4>1. s[k] # NULL
        BY <1>2
      <4> QED
        BY <1>3, <1>9, <3>1, <4>1
    <3>2. CASE i # 1
      <4>1. s[k] = s[i - 1] => k = i - 1
        BY <1>7, <1>9, <3>2
      <4> QED
        BY <1>9, <3>2, <4>1
    <3> QED
      BY <3>1, <3>2
  <2>2. s[k] = At(s, j + 1) <=> k = j + 1
    <3>1. CASE j = n
      <4>1. s[k] # NULL
        BY <1>2
      <4>2. k # j + 1
        BY <1>10, <3>1
      <4> QED
        BY <1>9, <3>1, <4>1, <4>2
    <3>2. CASE j # n
      <4>1. j + 1 \in 1 .. n /\ At(s, j + 1) = s[j + 1]
        BY <1>9, <3>2
      <4> QED
        BY <1>7, <4>1
    <3> QED
      BY <3>1, <3>2
  <2> QED
    BY <1>2, <1>4, <2>1, <2>2
<1>13. IsList(R, l, u)
  <2>1. R.head[l] = At(u, 1)
    <3>1. CASE i = 1
      <4>1. R.head[l] = At(s, j + 1)
        BY <1>4, <1>9, <3>1
      <4>2. CASE j = n
        BY <1>11, <1>3, <1>5, <1>9, <3>1, <4>1, <4>2
      <4>3. CASE j # n
        <5>1. 1 \in i .. v /\ 1 + w = j + 1 /\ 1 \in 1 .. v
          BY <1>3, <3>1, <4>3
        <5> QED
          BY <1>11, <1>5, <1>9, <4>1, <4>3, <5>1
      <4> QED
        BY <4>2, <4>3
    <3>2. CASE i # 1
      <4>1. R.head[l] = L.head[l]
        BY <1>2, <1>4, <1>9, <3>2
      <4>2. 1 \in 1 .. i - 1 /\ 1 \in 1 .. v /\ 1 \in 1 .. n
        BY <1>3, <3>2
      <4> QED
        BY <1>11, <1>2, <1>5, <4>1, <4>2
    <3> QED
      BY <3>1, <3>2
  <2>2. R.tail[l] = At(u, Len(u))
    <3>1. CASE j = n
      <4>1. R.tail[l] = At(s, i - 1)
        BY <1>4, <1>9, <3>1
      <4>2. Len(u) = i - 1
        <5>1. v = i - 1
          BY <1>10, <3>1
        <5> QED
          BY <1>5, <5>1
      <4>3. CASE i = 1
        BY <1>11, <1>9, <4>1, <4>2, <4>3
      <4>4. CASE i # 1
        <5>1. i - 1 \in 1 .. i - 1
          BY <1>3, <4>4
        <5> QED
          BY <1>11, <1>5, <1>9, <4>1, <4>2, <4>4, <5>1
      <4> QED
        BY <4>3, <4>4
    <3>2. CASE j # n
      <4>1. R.tail[l] = At(s, n)
        BY <1>2, <1>4, <1>9, <3>2
      <4>2. v \in i .. v /\ (v) + w = n /\ n \in 1 .. n /\ v \in 1 .. v
        <5>1. i <= v /\ 1 <= v /\ 1 <= n
          BY <1>10, <3>2
        <5> QED
          BY <1>10, <5>1
      <4> QED
        BY <1>11, <1>5, <4>1, <4>2
    <3> QED
      BY <3>1, <3>2
  <2>3. ASSUME NEW k \in 1 .. Len(u), k < i
        PROVE  R.next[u[k]] = At(u, k + 1) /\ R.prev[u[k]] = At(u, k - 1)
    <3>1. k \in 1 .. n /\ k \in 1 .. i - 1 /\ u[k] = s[k] /\ k # j + 1
      BY <1>3, <1>5, <2>3
    <3>2. R.prev[u[k]] = At(u, k - 1)
      <4>1. R.prev[u[k]] = At(s, k - 1)
        BY <1>12, <2>3, <3>1
      <4>2. At(s, k - 1) = At(u, k - 1)
        BY <1>11, <1>3, <1>5, <2>3
      <4> QED
        BY <4>1, <4>2
    <3>3. CASE k = i - 1
      <4>1. R.next[u[k]] = At(s, j + 1)
        BY <1>12, <2>3, <3>1, <3>3
      <4>2. At(s, j + 1) = At(u, i)
        <5>1. CASE j = n
          BY <1>11, <1>3, <1>5, <1>9, <5>1
        <5>2. CASE j # n
          <6>1. i \in i .. v /\ i + w = j + 1 /\ i \in 1 .. v
            BY <1>3, <5>2
          <6> QED
            BY <1>11, <1>5, <1>9, <5>2, <6>1
        <5> QED
          BY <5>1, <5>2
      <4>3. k + 1 = i
        BY <1>3, <3>3
      <4> QED
        BY <3>2, <4>1, <4>2, <4>3
    <3>4. CASE k # i - 1
      <4>1. R.next[u[k]] = At(s, k + 1)
        BY <1>12, <2>3, <3>1, <3>4
      <4>2. k + 1 \in 1 .. i - 1 /\ k + 1 \in 1 .. n /\ k + 1 \in 1 .. v
        BY <1>3, <1>5, <2>3, <3>4
      <4> QED
        BY <1>11, <1>5, <3>2, <4>1, <4>2
    <3> QED
      BY <3>3, <3>4
  <2>4. ASSUME NEW k \in 1 .. Len(u), ~(k < i)
        PROVE  R.next[u[k]] = At(u, k + 1) /\ R.prev[u[k]] = At(u, k - 1)
    <3>1. k + w \in 1 .. n /\ k \in i .. v /\ u[k] = s[k + w] /\ j < k + w /\ k + w # i - 1
      BY <1>3, <1>5, <2>4
    <3>2. R.next[u[k]] = At(u, k + 1)
      <4>1. R.next[u[k]] = At(s, k + w + 1)
        BY <1>12, <3>1
      <4>2. CASE k = v
        BY <1>11, <1>3, <1>5, <4>1, <4>2
      <4>3. CASE k # v
        <5>1. k + 1 \in i .. v /\ k + 1 \in 1 .. v /\ (k + 1) + w = k + w + 1 /\ k + w + 1 \in 1 .. n
          BY <1>3, <1>5, <3>1, <4>3
        <5> QED
          BY <1>11, <1>5, <4>1, <5>1
      <4> QED
        BY <4>2, <4>3
    <3>3. R.prev[u[k]] = At(u, k - 1)
      <4>1. CASE k = i
        <5>1. k + w = j + 1 /\ R.prev[u[k]] = At(s, i - 1)
          BY <1>3, <1>12, <3>1, <4>1
        <5>2. At(s, i - 1) = At(u, i - 1)
          BY <1>11, <1>3, <1>5
        <5> QED
          BY <4>1, <5>1, <5>2
      <4>2. CASE k # i
        <5>1. R.prev[u[k]] = At(s, k + w - 1)
          BY <1>3, <1>12, <3>1, <4>2
        <5>2. k - 1 \in i .. v /\ k - 1 \in 1 .. v /\ (k - 1) + w = k + w - 1 /\ k + w - 1 \in 1 .. n
          <6>1. k \in Int /\ i <= k /\ k <= v
            BY <1>10, <3>1
          <6>2. i <= k - 1 /\ k - 1 <= v /\ 1 <= k + w - 1 /\ k + w - 1 <= n
            BY <1>10, <4>2, <6>1
          <6> QED
            BY <1>10, <6>1, <6>2
        <5> QED
          BY <1>11, <1>5, <5>1, <5>2
      <4> QED
        BY <4>1, <4>2
    <3> QED
      BY <3>2, <3>3
  <2> QED
    BY <2>1, <2>2, <2>3, <2>4 DEF IsList
<1>14. ASSUME NEW k \in List, k # l PROVE IsList(R, k, q[k])
  <2>1. \A a \in 1 .. Len(q[k]) : q[k][a] # At(s, i - 1) /\ q[k][a] # At(s, j + 1)
    BY <1>1, <1>7, <1>9, <1>14
  <2>2. /\ L.head[k] = At(q[k], 1) /\ L.tail[k] = At(q[k], Len(q[k]))
        /\ \A a \in 1 .. Len(q[k]) : /\ q[k][a] \in Msg
                                     /\ L.next[q[k][a]] = At(q[k], a + 1)
                                     /\ L.prev[q[k][a]] = At(q[k], a - 1)
    BY <1>1
  <2> QED
    BY <1>4, <1>14, <2>1, <2>2 DEF IsList
\* Where the records of the lists were.
<1>15. \A k \in 1 .. v : \/ k < i /\ u[k] = s[k] /\ k \in 1 .. n
                         \/ k >= i /\ u[k] = s[k + w] /\ k + w > j /\ k + w \in 1 .. n
  <2>1. ASSUME NEW k \in 1 .. v, k < i
        PROVE  u[k] = s[k] /\ k \in 1 .. n
    <3>1. k \in 1 .. i - 1 /\ k \in 1 .. n
      BY <1>3, <2>1
    <3> QED
      BY <1>5, <3>1
  <2>2. ASSUME NEW k \in 1 .. v, k >= i
        PROVE  u[k] = s[k + w] /\ k + w > j /\ k + w \in 1 .. n
    <3>1. k \in i .. v /\ k + w > j /\ k + w \in 1 .. n
      BY <1>3, <2>2
    <3> QED
      BY <1>5, <3>1
  <2>3. \A k \in 1 .. v : k < i \/ k >= i
    BY <1>3
  <2> QED
    BY <2>1, <2>2, <2>3
<1>16. \A x \in List : \A y \in 1 .. Len(p[x]) :
         \/ x # l /\ y \in 1 .. Len(q[x]) /\ p[x][y] = q[x][y]
         \/ x = l /\ y \in 1 .. v /\ p[x][y] = u[y]
  BY <1>5, <1>6
<1>17. OnePlace(p)
  <2> SUFFICES ASSUME NEW k \in List, NEW h \in List, NEW a \in 1 .. Len(p[k]), NEW b \in 1 .. Len(p[h]),
                      p[k][a] = p[h][b]
               PROVE  k = h /\ a = b
    BY DEF OnePlace
  <2>1. CASE k # l /\ h # l
    <3>1. a \in 1 .. Len(q[k]) /\ b \in 1 .. Len(q[h]) /\ q[k][a] = q[h][b]
      BY <1>16, <2>1
    <3>2. OnePlace(q)
      BY DEF Shape
    <3> QED
      BY <3>1, <3>2 DEF OnePlace
  <2>2. CASE k = l /\ h = l
    <3>1. a \in 1 .. v /\ b \in 1 .. v /\ u[a] = u[b]
      BY <1>16, <2>2
    <3> QED
      BY <1>3, <1>7, <1>15, <2>2, <3>1
  <2>3. CASE k = l /\ h # l
    <3>1. b \in 1 .. Len(q[h]) /\ a \in 1 .. v /\ u[a] = q[h][b]
      BY <1>16, <2>3
    <3> QED
      BY <1>7, <1>15, <2>3, <3>1
  <2>4. CASE k # l /\ h = l
    <3>1. a \in 1 .. Len(q[k]) /\ b \in 1 .. v /\ u[b] = q[k][a]
      BY <1>16, <2>4
    <3> QED
      BY <1>7, <1>15, <2>4, <3>1
  <2> QED
    BY <2>1, <2>2, <2>3, <2>4
<1>18. \A k \in i .. j : Off(p, s[k])
  <2> SUFFICES ASSUME NEW k \in i .. j, NEW x \in List, NEW y \in 1 .. Len(p[x]) PROVE p[x][y] # s[k]
    BY DEF Off
  <2>1. k \in 1 .. n
    BY <1>3
  <2>2. CASE x # l
    BY <1>7, <1>16, <2>1, <2>2
  <2>3. CASE x = l
    <3>1. y \in 1 .. v /\ p[x][y] = u[y]
      BY <1>16, <2>3
    <3> QED
      BY <1>3, <1>7, <1>15, <2>1, <3>1
  <2> QED
    BY <2>2, <2>3
<1>19. ASSUME NEW m \in Msg \ Y, Off(p, m) PROVE R.next[m] = NULL /\ R.prev[m] = NULL
  <2>1. ASSUME NEW k \in 1 .. n PROVE s[k] # m
    <3>1. CASE k \in i .. j
      BY <1>19, <3>1 DEF Y
    <3>2. CASE k < i
      <4>1. k \in 1 .. Len(p[l]) /\ p[l][k] = s[k]
        BY <1>3, <1>5, <1>6, <3>2
      <4> QED
        BY <1>19, <4>1 DEF Off
    <3>3. CASE j < k
      <4>1. k - w \in i .. v /\ (k - w) + w = k /\ k - w \in 1 .. v
        BY <1>3, <3>3
      <4>2. k - w \in 1 .. Len(p[l]) /\ p[l][k - w] = s[k]
        BY <1>5, <1>6, <4>1
      <4> QED
        BY <1>19, <4>2 DEF Off
    <3> QED
      BY <1>3, <3>1, <3>2, <3>3
  <2>2. Off(q, m)
    <3> SUFFICES ASSUME NEW k \in List, NEW a \in 1 .. Len(q[k]) PROVE q[k][a] # m
      BY DEF Off
    <3>1. CASE k = l
      BY <2>1, <3>1 DEF s, n
    <3>2. CASE k # l
      BY <1>6, <1>19, <3>2 DEF Off
    <3> QED
      BY <3>1, <3>2
  <2>3. m # At(s, i - 1) /\ m # At(s, j + 1)
    BY <1>9, <2>1, NullAssumption
  <2> QED
    BY <1>4, <2>2, <2>3 DEF Shape
<1>20. Shape(R, p, Y)
  <2>1. \A k \in List : IsList(R, k, p[k])
    BY <1>6, <1>13, <1>14
  <2> QED
    BY <1>4, <1>6, <1>17, <1>19, <2>1 DEF Shape
<1>21. Linking(R, p, t)
  <2>1. \A k \in 1 .. w : Off(p, t[k])
    BY <1>8, <1>18
  <2>2. \A a, b \in 1 .. w : t[a] = t[b] => a = b
    <3> SUFFICES ASSUME NEW a \in 1 .. w, NEW b \in 1 .. w, t[a] = t[b] PROVE a = b
      OBVIOUS
    <3>1. i + a - 1 = i + b - 1
      BY <1>7, <1>8
    <3> QED
      BY <1>3, <3>1
  <2>3. ASSUME NEW k \in 1 .. w - 1 PROVE R.next[t[k]] = t[k + 1] /\ R.prev[t[k + 1]] = t[k]
    <3> DEFINE a == i + k - 1
    <3>1. /\ a \in 1 .. n /\ a + 1 \in 1 .. n /\ t[k] = s[a] /\ t[k + 1] = s[a + 1]
          /\ i <= a /\ a + 1 <= j /\ k + 1 \in 1 .. w
      <4>1. k \in 1 .. w /\ k + 1 \in 1 .. w /\ i + (k + 1) - 1 = a + 1
        BY <1>3
      <4>2. /\ t[k] = s[a] /\ a \in i .. j /\ a \in 1 .. n
            /\ t[k + 1] = s[a + 1] /\ a + 1 \in i .. j /\ a + 1 \in 1 .. n
        <5>1. t[k] = s[a] /\ a \in i .. j /\ a \in 1 .. n
          BY <1>8, <4>1
        <5> DEFINE b == k + 1
        <5>2. b \in 1 .. w /\ i + b - 1 = a + 1
          BY <4>1
        <5> HIDE DEF a, b
        <5>3. t[b] = s[i + b - 1] /\ i + b - 1 \in i .. j /\ i + b - 1 \in 1 .. n
          BY <1>8, <5>2
        <5> QED
          BY <5>1, <5>2, <5>3 DEF b
      <4> QED
        BY <1>3, <4>1, <4>2
    <3> HIDE DEF a
    <3>2. s[a] # At(s, i - 1) /\ s[a + 1] # At(s, j + 1)
      <4>1. i = 1 => s[a] # At(s, i - 1)
        BY <1>2, <1>9, <3>1
      <4>2. i # 1 => s[a] # At(s, i - 1)
        BY <1>3, <1>7, <1>9, <3>1
      <4>3. j = n => s[a + 1] # At(s, j + 1)
        BY <1>2, <1>9, <3>1
      <4>4. j # n => s[a + 1] # At(s, j + 1)
        BY <1>3, <1>7, <1>9, <3>1
      <4> QED
        BY <4>1, <4>2, <4>3, <4>4
    <3>3. R.next[s[a]] = At(s, a + 1) /\ R.prev[s[a + 1]] = At(s, a + 1 - 1)
      <4>1. s[a] \in Msg /\ s[a + 1] \in Msg
        BY <1>2, <3>1
      <4>2. R.next[s[a]] = L.next[s[a]] /\ R.prev[s[a + 1]] = L.prev[s[a + 1]]
        BY <1>4, <3>2, <4>1
      <4>3. a \in 1 .. n /\ a + 1 \in 1 .. n
        BY <3>1
      <4>4. L.next[s[a]] = At(s, a + 1)
        BY <1>2, <4>3
      <4>5. L.prev[s[a + 1]] = At(s, a + 1 - 1)
        BY <1>2, <4>3
      <4> QED
        BY <4>2, <4>4, <4>5
    <3>4. a + 1 - 1 = a
      BY <3>1
    <3> QED
      BY <1>11, <3>1, <3>3, <3>4
  <2> QED
    BY <1>3, <1>8, <2>1, <2>2, <2>3 DEF Linking
<1> QED
  BY <1>20, <1>21 DEF R, p, t, s, Y

LEMMA PlaceAfterShape ==
  ASSUME NEW L, NEW q, Shape(L, q, {}), NEW l \in List, NEW i \in 1 .. Len(q[l]),
         NEW m \in Msg, Off(q, m)
  PROVE  Shape(PlaceAfter(L, l, m, q[l][i]), [q EXCEPT ![l] = Put(@, i, m)], {})
<1> DEFINE s == q[l]
           n == Len(s)
           R == PlaceAfter(L, l, m, s[i])
           u == Put(s, i, m)
           p == [q EXCEPT ![l] = Put(@, i, m)]
<1>1. \A k \in List : /\ L.head[k] = At(q[k], 1) /\ L.tail[k] = At(q[k], Len(q[k]))
                      /\ \A a \in 1 .. Len(q[k]) : /\ q[k][a] \in Msg /\ q[k][a] # NULL
                                                   /\ L.next[q[k][a]] = At(q[k], a + 1)
                                                   /\ L.prev[q[k][a]] = At(q[k], a - 1)
  BY ShapeAt
<1>2. /\ s \in Seq(Msg) /\ n \in Nat /\ n = Len(s) /\ i \in 1 .. n
      /\ L.head[l] = At(s, 1) /\ L.tail[l] = At(s, n)
      /\ \A k \in 1 .. n : /\ s[k] \in Msg /\ s[k] # NULL
                           /\ L.next[s[k]] = At(s, k + 1) /\ L.prev[s[k]] = At(s, k - 1)
  BY ShapeAt
<1>3. n \in Int /\ i \in Int /\ 1 <= i /\ i <= n
  BY <1>2
<1>4. /\ \A a, b \in 1 .. n : s[a] = s[b] => a = b
      /\ \A k \in List : k # l => \A a \in 1 .. Len(q[k]) : \A b \in 1 .. n : q[k][a] # s[b]
      /\ \A k \in List : \A a \in 1 .. Len(q[k]) : q[k][a] # m
      /\ \A a \in 1 .. n : s[a] # m
  BY DEF Shape, OnePlace, Off
<1>5. Placed(R, L, l, m, s[i], At(s, i + 1))
  <2>1. L \in Links /\ s[i] \in Msg /\ m # s[i] /\ L.next[s[i]] = At(s, i + 1)
    BY <1>2, <1>4 DEF Shape
  <2>2. Placed(R, L, l, m, s[i], L.next[s[i]])
    BY <2>1, PlaceAfterWrites
  <2> QED
    BY <2>1, <2>2
<1>6. /\ u \in Seq(Msg) /\ Len(u) = n + 1
      /\ \A k \in 1 .. i : u[k] = s[k]
      /\ u[i + 1] = m
      /\ \A k \in i + 2 .. n + 1 : u[k] = s[k - 1]
  <2>1. s \in Seq(Msg) /\ i \in 0 .. Len(s)
    BY <1>2
  <2> QED
    BY <2>1, PutAt
<1>7. q \in [List -> Seq(Msg)] /\ p \in [List -> Seq(Msg)] /\ p[l] = u
      /\ \A k \in List : k # l => p[k] = q[k]
  BY <1>6 DEF Shape
<1> HIDE DEF s, n, R, p, u
<1>8. /\ \A k \in 1 .. n : At(s, k) = s[k]
      /\ \A k : k \notin 1 .. n => At(s, k) = NULL
      /\ \A k \in 1 .. n + 1 : At(u, k) = u[k]
      /\ \A k : k \notin 1 .. n + 1 => At(u, k) = NULL
  BY <1>2, <1>6 DEF At
<1>9. /\ R \in Links /\ R.head = L.head
      /\ \A x \in Msg : /\ R.next[x] = IF x = s[i] THEN m ELSE IF x = m THEN At(s, i + 1) ELSE L.next[x]
                        /\ R.prev[x] = IF x = At(s, i + 1) THEN m ELSE IF x = m THEN s[i] ELSE L.prev[x]
      /\ \A k \in List : R.tail[k] = IF k = l /\ At(s, i + 1) = NULL THEN m ELSE L.tail[k]
  BY <1>5 DEF Placed
<1>10. /\ i = n => At(s, i + 1) = NULL
       /\ i # n => i + 1 \in 1 .. n /\ At(s, i + 1) = s[i + 1]
  BY <1>2, <1>8
<1>11. ASSUME NEW k \in 1 .. n
       PROVE  /\ R.next[s[k]] = IF k = i THEN m ELSE At(s, k + 1)
              /\ R.prev[s[k]] = IF k = i + 1 THEN m ELSE At(s, k - 1)
  <2>1. s[k] = s[i] <=> k = i
    BY <1>2, <1>4
  <2>2. s[k] = At(s, i + 1) <=> k = i + 1
    <3>1. CASE i = n
      <4>1. s[k] # NULL /\ k # i + 1
        BY <1>2, <3>1
      <4> QED
        BY <1>10, <3>1, <4>1
    <3>2. CASE i # n
      BY <1>4, <1>10, <3>2
    <3> QED
      BY <3>1, <3>2
  <2>3. s[k] \in Msg /\ s[k] # m /\ L.next[s[k]] = At(s, k + 1) /\ L.prev[s[k]] = At(s, k - 1)
    BY <1>2, <1>4
  <2> QED
    BY <1>9, <2>1, <2>2, <2>3
<1>12. IsList(R, l, u)
  <2>1. R.head[l] = At(u, 1)
    <3>1. 1 \in 1 .. i /\ 1 \in 1 .. n /\ 1 \in 1 .. n + 1
      BY <1>2
    <3> QED
      BY <1>2, <1>6, <1>8, <1>9, <3>1
  <2>2. R.tail[l] = At(u, Len(u))
    <3>1. CASE i = n
      <4>1. R.tail[l] = m /\ i + 1 = n + 1 /\ n + 1 \in 1 .. n + 1
        BY <1>2, <1>9, <1>10, <3>1
      <4> QED
        BY <1>6, <1>8, <4>1
    <3>2. CASE i # n
      <4>1. n + 1 \in i + 2 .. n + 1 /\ n + 1 \in 1 .. n + 1 /\ n \in 1 .. n /\ n + 1 - 1 = n
        BY <1>2, <3>2
      <4>2. At(s, i + 1) # NULL
        BY <1>2, <1>10, <3>2
      <4>3. u[n + 1] = s[n] /\ R.tail[l] = s[n]
        <5>1. u[n + 1] = s[n]
          BY <1>6, <4>1
        <5>2. R.tail[l] = L.tail[l] /\ L.tail[l] = s[n]
          BY <1>2, <1>8, <1>9, <4>1, <4>2
        <5> QED
          BY <5>1, <5>2
      <4> QED
        BY <1>6, <1>8, <4>1, <4>3
    <3> QED
      BY <3>1, <3>2
  <2>3. ASSUME NEW k \in 1 .. n + 1, k <= i
        PROVE  R.next[u[k]] = At(u, k + 1) /\ R.prev[u[k]] = At(u, k - 1)
    <3>1. k \in 1 .. n /\ k \in 1 .. i /\ u[k] = s[k] /\ k # i + 1
      BY <1>2, <1>6, <2>3
    <3>2. R.prev[u[k]] = At(u, k - 1)
      <4>1. R.prev[u[k]] = At(s, k - 1)
        BY <1>11, <3>1
      <4>2. CASE k = 1
        <5>1. k - 1 \notin 1 .. n /\ k - 1 \notin 1 .. n + 1
          BY <4>2
        <5> QED
          BY <1>8, <4>1, <5>1
      <4>3. CASE k # 1
        <5>1. k - 1 \in 1 .. n /\ k - 1 \in 1 .. n + 1 /\ k - 1 \in 1 .. i
          BY <1>2, <3>1, <4>3
        <5> QED
          BY <1>6, <1>8, <4>1, <5>1
      <4> QED
        BY <4>2, <4>3
    <3>3. R.next[u[k]] = At(u, k + 1)
      <4>1. CASE k = i
        <5>1. R.next[u[k]] = m /\ k + 1 = i + 1 /\ k + 1 \in 1 .. n + 1
          BY <1>2, <1>11, <3>1, <4>1
        <5> QED
          BY <1>6, <1>8, <5>1
      <4>2. CASE k # i
        <5>1. k + 1 \in 1 .. n /\ k + 1 \in 1 .. n + 1 /\ k + 1 \in 1 .. i
          BY <1>2, <3>1, <4>2
        <5>2. R.next[u[k]] = At(s, k + 1)
          BY <1>11, <3>1, <4>2
        <5> QED
          BY <1>6, <1>8, <5>1, <5>2
      <4> QED
        BY <4>1, <4>2
    <3> QED
      BY <3>2, <3>3
  <2>4. ASSUME NEW k \in 1 .. n + 1, k = i + 1
        PROVE  R.next[u[k]] = At(u, k + 1) /\ R.prev[u[k]] = At(u, k - 1)
    <3>1. u[k] = m /\ R.prev[u[k]] = s[i] /\ R.next[u[k]] = At(s, i + 1)
      <4>1. m # At(s, i + 1) /\ m # s[i]
        BY <1>2, <1>4, <1>10, NullAssumption
      <4> QED
        BY <1>6, <1>9, <2>4, <4>1
    <3>2. k - 1 = i /\ i \in 1 .. i /\ i \in 1 .. n + 1 /\ u[i] = s[i]
      <4>1. k - 1 = i /\ i \in 1 .. i /\ i \in 1 .. n + 1
        BY <1>2, <2>4
      <4> QED
        BY <1>6, <4>1
    <3>3. At(s, i + 1) = At(u, k + 1)
      <4>1. CASE i = n
        <5>1. k + 1 \notin 1 .. n + 1
          BY <1>2, <2>4, <4>1
        <5> QED
          BY <1>8, <1>10, <4>1, <5>1
      <4>2. CASE i # n
        <5>1. k + 1 \in i + 2 .. n + 1 /\ k + 1 \in 1 .. n + 1 /\ k + 1 - 1 = i + 1
          BY <1>2, <2>4, <4>2
        <5> QED
          BY <1>6, <1>8, <1>10, <4>2, <5>1
      <4> QED
        BY <4>1, <4>2
    <3> QED
      BY <1>8, <3>1, <3>2, <3>3
  <2>5. ASSUME NEW k \in 1 .. n + 1, k > i + 1
        PROVE  R.next[u[k]] = At(u, k + 1) /\ R.prev[u[k]] = At(u, k - 1)
    <3>1. k \in i + 2 .. n + 1 /\ k - 1 \in 1 .. n /\ k - 1 # i /\ k - 1 + 1 = k
      BY <1>2, <2>5
    <3>2. u[k] = s[k - 1] /\ R.next[u[k]] = At(s, k)
      BY <1>6, <1>11, <3>1
    <3>3. At(s, k) = At(u, k + 1)
      <4>1. CASE k = n + 1
        <5>1. k \notin 1 .. n /\ k + 1 \notin 1 .. n + 1
          BY <1>2, <4>1
        <5> QED
          BY <1>8, <5>1
      <4>2. CASE k # n + 1
        <5>1. k \in 1 .. n /\ k + 1 \in 1 .. n + 1 /\ k + 1 \in i + 2 .. n + 1 /\ k + 1 - 1 = k
          BY <1>3, <3>1, <4>2
        <5> QED
          BY <1>6, <1>8, <5>1
      <4> QED
        BY <4>1, <4>2
    <3>4. R.prev[u[k]] = At(u, k - 1)
      <4>1. CASE k = i + 2
        <5>1. k - 1 = i + 1 /\ k - 1 \in 1 .. n + 1
          BY <1>2, <3>1, <4>1
        <5>2. R.prev[u[k]] = m /\ u[k - 1] = m
          BY <1>6, <1>11, <3>1, <3>2, <5>1
        <5> QED
          BY <1>8, <5>1, <5>2
      <4>2. CASE k # i + 2
        <5>1. k - 1 # i + 1 /\ k - 1 - 1 \in 1 .. n /\ k - 1 \in i + 2 .. n + 1 /\ k - 1 \in 1 .. n + 1
          <6>1. k \in Int /\ i \in Int /\ n \in Int /\ 1 <= i /\ i + 2 < k /\ k <= n + 1
            BY <1>3, <2>5, <3>1, <4>2
          <6> QED
            BY <6>1
        <5>2. R.prev[u[k]] = At(s, k - 1 - 1)
          BY <1>11, <3>1, <3>2, <5>1
        <5>3. At(s, k - 1 - 1) = s[k - 1 - 1] /\ u[k - 1] = s[k - 1 - 1]
          BY <1>6, <1>8, <5>1
        <5> QED
          BY <1>8, <5>1, <5>2, <5>3
      <4> QED
        BY <4>1, <4>2
    <3> QED
      BY <3>2, <3>3, <3>4
  <2>6. \A k \in 1 .. n + 1 : k <= i \/ k = i + 1 \/ k > i + 1
    BY <1>2
  <2>7. \A k \in 1 .. Len(u) : R.next[u[k]] = At(u, k + 1) /\ R.prev[u[k]] = At(u, k - 1)
    BY <1>6, <2>3, <2>4, <2>5, <2>6
  <2> QED
    BY <2>1, <2>2, <2>7 DEF IsList
<1>13. ASSUME NEW k \in List, k # l PROVE IsList(R, k, q[k])
  <2>1. \A a \in 1 .. Len(q[k]) : q[k][a] # s[i] /\ q[k][a] # At(s, i + 1) /\ q[k][a] # m
    BY <1>1, <1>2, <1>4, <1>10, <1>13
  <2>2. /\ L.head[k] = At(q[k], 1) /\ L.tail[k] = At(q[k], Len(q[k]))
        /\ \A a \in 1 .. Len(q[k]) : /\ q[k][a] \in Msg
                                     /\ L.next[q[k][a]] = At(q[k], a + 1)
                                     /\ L.prev[q[k][a]] = At(q[k], a - 1)
    BY <1>1
  <2> QED
    BY <1>9, <1>13, <2>1, <2>2 DEF IsList
\* Where the records of the lists were.
<1>14. \A k \in 1 .. n + 1 : \/ k < i + 1 /\ u[k] = s[k] /\ k \in 1 .. n
                             \/ k = i + 1 /\ u[k] = m
                             \/ k > i + 1 /\ u[k] = s[k - 1] /\ k - 1 \in 1 .. n
  <2>1. ASSUME NEW k \in 1 .. n + 1, k < i + 1 PROVE u[k] = s[k] /\ k \in 1 .. n
    <3>1. k \in 1 .. i /\ k \in 1 .. n
      BY <1>2, <2>1
    <3> QED
      BY <1>6, <3>1
  <2>2. ASSUME NEW k \in 1 .. n + 1, k > i + 1 PROVE u[k] = s[k - 1] /\ k - 1 \in 1 .. n
    <3>1. k \in i + 2 .. n + 1 /\ k - 1 \in 1 .. n
      BY <1>2, <2>2
    <3> QED
      BY <1>6, <3>1
  <2>3. \A k \in 1 .. n + 1 : k < i + 1 \/ k = i + 1 \/ k > i + 1
    BY <1>2
  <2> QED
    BY <1>6, <2>1, <2>2, <2>3
<1>15. /\ \A k \in 1 .. n + 1 : k < i + 1 => u[k] = s[k] /\ k \in 1 .. n
       /\ \A k \in 1 .. n + 1 : k > i + 1 => u[k] = s[k - 1] /\ k - 1 \in 1 .. n
  <2>1. \A k \in 1 .. n + 1 : k < i + 1 => ~(k > i + 1) /\ k # i + 1
    BY <1>3
  <2>2. \A k \in 1 .. n + 1 : k > i + 1 => k # i + 1
    BY <1>3
  <2> QED
    BY <1>14, <2>1, <2>2
<1>16. \A x \in List : \A y \in 1 .. Len(p[x]) :
         \/ x # l /\ y \in 1 .. Len(q[x]) /\ p[x][y] = q[x][y]
         \/ x = l /\ y \in 1 .. n + 1 /\ p[x][y] = u[y]
  BY <1>6, <1>7
<1>17. OnePlace(p)
  <2> SUFFICES ASSUME NEW k \in List, NEW h \in List, NEW a \in 1 .. Len(p[k]), NEW b \in 1 .. Len(p[h]),
                      p[k][a] = p[h][b]
               PROVE  k = h /\ a = b
    BY DEF OnePlace
  <2>1. CASE k # l /\ h # l
    <3>1. a \in 1 .. Len(q[k]) /\ b \in 1 .. Len(q[h]) /\ q[k][a] = q[h][b]
      BY <1>16, <2>1
    <3>2. OnePlace(q)
      BY DEF Shape
    <3> QED
      BY <3>1, <3>2 DEF OnePlace
  <2>2. CASE k = l /\ h = l
    <3>1. a \in 1 .. n + 1 /\ b \in 1 .. n + 1 /\ u[a] = u[b]
      BY <1>16, <2>2
    <3>2. CASE a = i + 1
      <4>1. ASSUME b # a PROVE FALSE
        <5>1. u[a] = m /\ \E c \in 1 .. n : u[b] = s[c]
          BY <1>14, <3>1, <3>2, <4>1
        <5> QED
          BY <1>4, <3>1, <5>1
      <4> QED
        BY <2>2, <4>1
    <3>3. CASE a < i + 1
      <4>1. a \in 1 .. n /\ u[a] = s[a] /\ a <= i
        BY <1>2, <1>14, <3>1, <3>3
      <4>2. b # i + 1
        BY <1>4, <1>6, <3>1, <4>1
      <4>3. b > i + 1 => FALSE
        <5> SUFFICES ASSUME b > i + 1 PROVE FALSE
          OBVIOUS
        <5>1. u[b] = s[b - 1] /\ b - 1 \in 1 .. n
          BY <1>15, <3>1
        <5>2. a = b - 1
          BY <1>4, <3>1, <4>1, <5>1
        <5> QED
          BY <1>2, <3>1, <4>1, <5>2
      <4>4. u[b] = s[b] /\ b \in 1 .. n
        BY <1>14, <3>1, <4>2, <4>3
      <4> QED
        BY <1>4, <2>2, <3>1, <4>1, <4>4
    <3>4. CASE a > i + 1
      <4>1. a - 1 \in 1 .. n /\ u[a] = s[a - 1]
        BY <1>2, <1>14, <3>1, <3>4
      <4>2. b # i + 1
        BY <1>4, <1>6, <3>1, <4>1
      <4>3. b < i + 1 => FALSE
        <5> SUFFICES ASSUME b < i + 1 PROVE FALSE
          OBVIOUS
        <5>1. u[b] = s[b] /\ b \in 1 .. n
          BY <1>15, <3>1
        <5>2. a - 1 = b
          BY <1>4, <3>1, <4>1, <5>1
        <5> QED
          BY <1>2, <3>1, <3>4, <5>2
      <4>4. u[b] = s[b - 1] /\ b - 1 \in 1 .. n
        BY <1>14, <3>1, <4>2, <4>3
      <4>5. a - 1 = b - 1
        BY <1>4, <3>1, <4>1, <4>4
      <4> QED
        BY <2>2, <3>1, <4>5
    <3> QED
      BY <1>2, <3>1, <3>2, <3>3, <3>4
  <2>3. CASE k = l /\ h # l
    <3>1. b \in 1 .. Len(q[h]) /\ a \in 1 .. n + 1 /\ u[a] = q[h][b]
      BY <1>16, <2>3
    <3> QED
      BY <1>4, <1>14, <2>3, <3>1
  <2>4. CASE k # l /\ h = l
    <3>1. a \in 1 .. Len(q[k]) /\ b \in 1 .. n + 1 /\ u[b] = q[k][a]
      BY <1>16, <2>4
    <3> QED
      BY <1>4, <1>14, <2>4, <3>1
  <2> QED
    BY <2>1, <2>2, <2>3, <2>4
<1>18. ASSUME NEW x \in Msg, Off(p, x) PROVE R.next[x] = NULL /\ R.prev[x] = NULL
  <2>1. ASSUME NEW k \in 1 .. n PROVE s[k] # x
    <3>1. CASE k <= i
      <4>1. k \in 1 .. i /\ k \in 1 .. Len(p[l])
        BY <1>2, <1>6, <1>7, <3>1
      <4> QED
        BY <1>6, <1>7, <1>18, <4>1 DEF Off
    <3>2. CASE i < k
      <4>1. k + 1 \in i + 2 .. n + 1 /\ k + 1 - 1 = k /\ k + 1 \in 1 .. Len(p[l])
        BY <1>2, <1>6, <1>7, <3>2
      <4> QED
        BY <1>6, <1>7, <1>18, <4>1 DEF Off
    <3> QED
      BY <1>2, <3>1, <3>2
  <2>2. x # m
    <3>1. i + 1 \in 1 .. Len(p[l]) /\ p[l][i + 1] = m
      BY <1>2, <1>6, <1>7
    <3> QED
      BY <1>18, <3>1 DEF Off
  <2>3. Off(q, x)
    <3> SUFFICES ASSUME NEW k \in List, NEW a \in 1 .. Len(q[k]) PROVE q[k][a] # x
      BY DEF Off
    <3>1. CASE k = l
      BY <2>1, <3>1 DEF s, n
    <3>2. CASE k # l
      BY <1>7, <1>18, <3>2 DEF Off
    <3> QED
      BY <3>1, <3>2
  <2>4. x # s[i] /\ x # At(s, i + 1)
    BY <1>2, <1>10, <2>1, NullAssumption
  <2> QED
    BY <1>9, <2>2, <2>3, <2>4 DEF Shape
<1>19. Shape(R, p, {})
  <2>1. \A k \in List : IsList(R, k, p[k])
    BY <1>7, <1>12, <1>13
  <2> QED
    BY <1>7, <1>9, <1>17, <1>18, <2>1 DEF Shape
<1> QED
  BY <1>19 DEF R, p, s
-----------------------------------------------------------------------------
(* What the operations of the code do to the sequences.                    *)

Lists(L) == [l \in List |-> Chain(L, l)]

Elems(s) == {s[i] : i \in 1 .. Len(s)}

LEMMA ListsAre ==
  ASSUME NEW L, NEW q, Shape(L, q, {})
  PROVE  /\ Lists(L) = q
         /\ \A l \in List : On(L, l) = Elems(q[l])
         /\ \A m \in Msg : m \in Loose(L) <=> Off(q, m)
<1>1. \A l \in List : Chain(L, l) = q[l]
  BY ChainIs
<1>2. q \in [List -> Seq(Msg)]
  BY DEF Shape
<1>3. Lists(L) = q
  BY <1>1, <1>2 DEF Lists
<1>4. \A l \in List : On(L, l) = Elems(q[l])
  BY <1>1, <1>2 DEF On, Range, Elems
<1>5. \A m \in Msg : m \in Loose(L) <=> Off(q, m)
  BY <1>4 DEF Loose, Off, Elems
<1> QED
  BY <1>3, <1>4, <1>5

\* One record, wherever its links point, goes to the tail of a list.
LEMMA HookShape ==
  ASSUME NEW L, NEW q, NEW X, Shape(L, q, X), NEW m \in Msg, Off(q, m), X \subseteq {m},
         NEW l \in List
  PROVE  Shape(InsertTail(CleanNode(L, m), l, m, m), [q EXCEPT ![l] = @ \o <<m>>], {})
<1> DEFINE C == CleanNode(L, m)
           t == <<m>>
<1>1. Shape(C, q, {})
  BY CleanNodeShape
<1>2. t \in Seq(Msg) /\ Len(t) = 1 /\ t[1] = m
  OBVIOUS
<1> HIDE DEF C, t
<1>3. Linking(C, q, t)
  <2>1. \A i \in 1 .. Len(t) : t[i] = m /\ i = 1
    BY <1>2
  <2>2. 1 .. Len(t) - 1 = {}
    BY <1>2
  <2> QED
    BY <1>2, <2>1, <2>2 DEF Linking
<1>4. Shape(InsertTail(C, l, t[1], t[Len(t)]), [q EXCEPT ![l] = @ \o t], {})
  <2>1. \A x \in {} \ {} : \E i \in 1 .. Len(t) : t[i] = x
    OBVIOUS
  <2> QED
    BY <1>1, <1>3, <2>1, InsertTailShape
<1> QED
  BY <1>2, <1>4 DEF C, t

\* A run goes from one list to the tail of another.
LEMMA MoveShape ==
  ASSUME NEW L, NEW q, Shape(L, q, {}), NEW k \in List, NEW l \in List, k # l,
         NEW i \in 1 .. Len(q[k]), NEW j \in 1 .. Len(q[k]), i <= j
  PROVE  Shape(InsertTail(Unlink(L, k, q[k][i], q[k][j]), l, q[k][i], q[k][j]),
               [q EXCEPT ![k] = Cut(@, i, j), ![l] = @ \o SubSeq(q[k], i, j)], {})
<1> DEFINE R == Unlink(L, k, q[k][i], q[k][j])
           p == [q EXCEPT ![k] = Cut(@, i, j)]
           t == SubSeq(q[k], i, j)
           X == {q[k][x] : x \in i .. j}
<1>1. Shape(R, p, X) /\ Linking(R, p, t)
  BY UnlinkShape
<1>2. /\ q[k] \in Seq(Msg) /\ i \in Nat /\ j \in Nat /\ 1 <= i /\ j <= Len(q[k]) /\ i <= j + 1
      /\ q \in [List -> Seq(Msg)] /\ Len(q[k]) \in Nat
  BY DEF Shape
<1>3. /\ t \in Seq(Msg) /\ Len(t) = j - i + 1
      /\ \A x \in 1 .. j - i + 1 : t[x] = q[k][i + x - 1]
  BY <1>2, PieceAt
<1>4. t[1] = q[k][i] /\ t[Len(t)] = q[k][j]
  <2>1. 1 \in 1 .. j - i + 1 /\ j - i + 1 \in 1 .. j - i + 1 /\ i + 1 - 1 = i /\ i + (j - i + 1) - 1 = j
    BY <1>2
  <2> QED
    BY <1>3, <2>1
<1>5. \A x \in X \ {} : \E y \in 1 .. Len(t) : t[y] = x
  <2> SUFFICES ASSUME NEW x \in i .. j PROVE \E y \in 1 .. Len(t) : t[y] = q[k][x]
    OBVIOUS
  <2>1. x - i + 1 \in 1 .. j - i + 1 /\ i + (x - i + 1) - 1 = x
    BY <1>2
  <2> QED
    BY <1>3, <2>1
<1> HIDE DEF R, p, t, X
<1>6. Shape(InsertTail(R, l, t[1], t[Len(t)]), [p EXCEPT ![l] = @ \o t], {})
  BY <1>1, <1>5, InsertTailShape
<1> QED
  BY <1>4, <1>6 DEF R, p, t

\* One record goes from one list to the tail of another.
LEMMA DropShape ==
  ASSUME NEW L, NEW q, Shape(L, q, {}), NEW k \in List, NEW l \in List, k # l,
         NEW i \in 1 .. Len(q[k])
  PROVE  Shape(InsertTail(CleanNode(Unlink(L, k, q[k][i], q[k][i]), q[k][i]), l, q[k][i], q[k][i]),
               [q EXCEPT ![k] = Cut(@, i, i), ![l] = @ \o <<q[k][i]>>], {})
<1> DEFINE m == q[k][i]
           R == Unlink(L, k, m, m)
           p == [q EXCEPT ![k] = Cut(@, i, i)]
           X == {q[k][x] : x \in i .. i}
<1>1. q[k] \in Seq(Msg) /\ i \in Nat /\ 1 <= i /\ i <= Len(q[k]) /\ i <= i /\ m \in Msg
  BY DEF Shape
<1>2. Shape(R, p, X) /\ Linking(R, p, SubSeq(q[k], i, i))
  BY <1>1, UnlinkShape
<1>3. X \subseteq {m}
  BY <1>1
<1>4. Off(p, m)
  <2>1. Len(SubSeq(q[k], i, i)) = 1 /\ SubSeq(q[k], i, i)[1] = m
    BY <1>1
  <2> QED
    BY <1>2, <2>1 DEF Linking
<1> HIDE DEF R, p, X, m
<1>5. Shape(InsertTail(CleanNode(R, m), l, m, m), [p EXCEPT ![l] = @ \o <<m>>], {})
  BY <1>1, <1>2, <1>3, <1>4, HookShape
<1> QED
  BY <1>5 DEF R, p, m

\* A record is queued behind another.
LEMMA PlaceShape ==
  ASSUME NEW L, NEW q, Shape(L, q, {}), NEW l \in List, NEW i \in 1 .. Len(q[l]),
         NEW m \in Msg, Off(q, m)
  PROVE  Shape(PlaceAfter(CleanNode(L, m), l, m, q[l][i]), [q EXCEPT ![l] = Put(@, i, m)], {})
<1>1. Shape(CleanNode(L, m), q, {})
  BY CleanNodeShape
<1> QED
  BY <1>1, PlaceAfterShape

\* The sequences once a record was allocated.
Allocated(q) == IF q["freed"] = <<>> THEN q ELSE [q EXCEPT !["freed"] = Cut(@, 1, 1)]

LEMMA AllocateShape ==
  ASSUME NEW L, NEW q, Shape(L, q, {}), NEW m \in Allocatable(L)
  PROVE  /\ m \in Msg
         /\ Shape(Allocate(L, m), Allocated(q), {})
         /\ Off(Allocated(q), m)
         /\ IF q["freed"] = <<>> THEN Off(q, m) /\ m \notin node
                                 ELSE 1 \in 1 .. Len(q["freed"]) /\ m = q["freed"][1]
<1>1. "freed" \in List /\ q["freed"] \in Seq(Msg)
  BY DEF List, Shape
<1>2. L.head["freed"] = At(q["freed"], 1)
  BY <1>1, ShapeAt
<1>3. CASE q["freed"] = <<>>
  <2>1. L.head["freed"] = NULL
    BY <1>2, <1>3 DEF At
  <2>2. m \in Fresh(L)
    BY <2>1 DEF Allocatable
  <2>3. m \in Msg /\ Off(q, m) /\ m \notin node /\ L.head["freed"] # m
    BY <2>1, <2>2, ListsAre, NullAssumption DEF Fresh, Loose
  <2>4. Allocate(L, m) = CleanNode(L, m) /\ Allocated(q) = q
    BY <1>3, <2>3 DEF Allocate, Allocated
  <2>5. Shape(CleanNode(L, m), q, {})
    BY <2>3, CleanNodeShape
  <2> QED
    BY <1>3, <2>3, <2>4, <2>5
<1>4. CASE q["freed"] # <<>>
  <2>1. 1 \in 1 .. Len(q["freed"]) /\ 1 <= 1
    BY <1>1, <1>4
  <2>2. L.head["freed"] = q["freed"][1] /\ q["freed"][1] \in Msg
    BY <1>1, <1>2, <2>1 DEF At
  <2>3. m = q["freed"][1]
    BY <2>2, NullAssumption DEF Allocatable
  <2> DEFINE R == Unlink(L, "freed", m, m)
             p == [q EXCEPT !["freed"] = Cut(@, 1, 1)]
             X == {q["freed"][k] : k \in 1 .. 1}
  <2>4. Allocate(L, m) = CleanNode(R, m) /\ Allocated(q) = p
    BY <1>4, <2>2, <2>3 DEF Allocate, Allocated
  <2>5. Shape(R, p, X) /\ Linking(R, p, SubSeq(q["freed"], 1, 1))
    <3>1. /\ Shape(Unlink(L, "freed", q["freed"][1], q["freed"][1]), p, X)
          /\ Linking(Unlink(L, "freed", q["freed"][1], q["freed"][1]), p, SubSeq(q["freed"], 1, 1))
      BY <1>1, <2>1, UnlinkShape
    <3> QED
      BY <2>3, <3>1
  <2>6. X \subseteq {m}
    BY <2>3
  <2>7. Off(p, m)
    <3> DEFINE t == SubSeq(q["freed"], 1, 1)
    <3>1. Len(t) = 1 /\ t[1] = m
      BY <1>1, <2>1, <2>3
    <3> HIDE DEF t, p
    <3>2. 1 \in 1 .. Len(t)
      BY <3>1
    <3>3. \A i \in 1 .. Len(t) : Off(p, t[i])
      BY <2>5 DEF Linking, t
    <3> QED
      BY <3>1, <3>2, <3>3
  <2> HIDE DEF R, p, X
  <2>8. Shape(CleanNode(R, m), p, {})
    BY <2>2, <2>3, <2>5, <2>6, <2>7, CleanNodeShape
  <2> QED
    BY <1>4, <2>1, <2>2, <2>3, <2>4, <2>7, <2>8
<1> QED
  BY <1>3, <1>4

\* Two sets of pointers with the same values are the same.
LEMMA LinksSame ==
  ASSUME NEW A \in Links, NEW B \in Links,
         \A m \in Msg : A.next[m] = B.next[m] /\ A.prev[m] = B.prev[m],
         \A l \in List : A.head[l] = B.head[l] /\ A.tail[l] = B.tail[l]
  PROVE  A = B
<1>1. /\ A.next \in [Msg -> Ptr] /\ A.prev \in [Msg -> Ptr]
      /\ A.head \in [List -> Ptr] /\ A.tail \in [List -> Ptr]
      /\ B.next \in [Msg -> Ptr] /\ B.prev \in [Msg -> Ptr]
      /\ B.head \in [List -> Ptr] /\ B.tail \in [List -> Ptr]
  BY DEF Links
<1>2. A.next = B.next /\ A.prev = B.prev /\ A.head = B.head /\ A.tail = B.tail
  BY <1>1
<1> QED
  BY <1>2 DEF Links

\* clean_checkpoint moves what is before first.
LEMMA SpliceShape ==
  ASSUME NEW L, NEW q, Shape(L, q, {}), NEW k \in 1 .. Len(q["in"]), k # 1
  PROVE  /\ k - 1 \in 1 .. Len(q["in"])
         /\ L.prev[q["in"][k]] = q["in"][k - 1]
         /\ Shape(Splice(L, q["in"][k]), MoveSeq(q, "in", "remove", 1, k - 1), {})
<1> DEFINE s == q["in"]
           first == s[k]
           from == s[1]
           to == s[k - 1]
           U == Unlink(L, "in", from, to)
           R == InsertTail(U, "remove", from, to)
           S == Splice(L, first)
<1>1. /\ "in" \in List /\ "remove" \in List /\ "in" # "remove"
      /\ s \in Seq(Msg) /\ L \in Links
  BY DEF List, Shape
<1>2. 1 \in 1 .. Len(s) /\ k - 1 \in 1 .. Len(s) /\ 1 <= k - 1 /\ (k - 1) + 1 = k /\ 1 - 1 = 0
      /\ 0 \notin 1 .. Len(s)
  BY <1>1
<1>3. /\ L.head["in"] = At(s, 1)
      /\ \A i \in 1 .. Len(s) : /\ s[i] \in Msg /\ s[i] # NULL
                                /\ L.next[s[i]] = At(s, i + 1) /\ L.prev[s[i]] = At(s, i - 1)
  BY <1>1, ShapeAt
<1>4. /\ first \in Msg /\ from \in Msg /\ to \in Msg /\ first # NULL
      /\ L.head["in"] = from /\ L.prev[first] = to /\ L.prev[from] = NULL /\ L.next[to] = first
  BY <1>2, <1>3 DEF At
<1>5. from # first
  BY <1>1, <1>2 DEF Shape, OnePlace
<1>6. L.tail["remove"] \in Ptr /\ NULL \in Ptr /\ Msg \subseteq Ptr /\ \A x \in Msg : x # NULL
  BY <1>1, NullAssumption DEF Links, Ptr
<1> HIDE DEF s, first, from, to
<1>7. Joined(U, L, "in", NULL, first)
  <2>1. Joined(U, L, "in", L.prev[from], L.next[to])
    BY <1>1, <1>4, UnlinkWrites
  <2> QED
    BY <1>4, <2>1
<1> HIDE DEF U
<1>8. /\ U \in Links
      /\ \A x \in Msg : /\ U.next[x] = L.next[x]
                        /\ U.prev[x] = IF x = first THEN NULL ELSE L.prev[x]
      /\ \A l \in List : /\ U.head[l] = IF l = "in" THEN first ELSE L.head[l]
                         /\ U.tail[l] = L.tail[l]
  BY <1>4, <1>6, <1>7 DEF Joined
<1>9. /\ R \in Links
      /\ \A x \in Msg : /\ R.next[x] = IF x = L.tail["remove"] THEN from
                                       ELSE IF x = to THEN NULL ELSE L.next[x]
                        /\ R.prev[x] = IF x = from THEN L.tail["remove"]
                                       ELSE IF x = first THEN NULL ELSE L.prev[x]
      /\ \A l \in List : /\ R.head[l] = IF l = "remove" /\ L.tail["remove"] = NULL THEN from
                                        ELSE IF l = "in" THEN first ELSE L.head[l]
                         /\ R.tail[l] = IF l = "remove" THEN to ELSE L.tail[l]
  <2>1. Hooked(R, U, "remove", from, to)
    BY <1>1, <1>4, <1>8, InsertTailWrites
  <2> HIDE DEF R
  <2> QED
    BY <1>1, <1>8, <2>1 DEF Hooked
<1>10. /\ S \in Links
       /\ \A x \in Msg : /\ S.next[x] = IF x = L.tail["remove"] THEN from
                                        ELSE IF x = to THEN NULL ELSE L.next[x]
                         /\ S.prev[x] = IF x = from THEN L.tail["remove"]
                                        ELSE IF x = first THEN NULL ELSE L.prev[x]
       /\ \A l \in List : /\ S.head[l] = IF l = "remove" /\ L.tail["remove"] = NULL THEN from
                                         ELSE IF l = "in" THEN first ELSE L.head[l]
                          /\ S.tail[l] = IF l = "remove" THEN to ELSE L.tail[l]
  <2> DEFINE cut == [L EXCEPT !.head["in"] = first, !.prev[first] = NULL, !.next[to] = NULL,
                              !.prev[from] = L.tail["remove"], !.tail["remove"] = to]
  <2>1. /\ cut \in Links
        /\ cut.next = [L.next EXCEPT ![to] = NULL]
        /\ cut.prev = [L.prev EXCEPT ![first] = NULL, ![from] = L.tail["remove"]]
        /\ cut.head = [L.head EXCEPT !["in"] = first]
        /\ cut.tail = [L.tail EXCEPT !["remove"] = to]
    BY <1>1, <1>4, <1>6 DEF Links
  <2>2. S = IF L.tail["remove"] # NULL THEN [cut EXCEPT !.next[L.tail["remove"]] = from]
                                       ELSE [cut EXCEPT !.head["remove"] = from]
    BY <1>4 DEF Splice
  <2> HIDE DEF cut, S
  <2>3. CASE L.tail["remove"] = NULL
    BY <1>1, <1>4, <1>6, <2>1, <2>2, <2>3 DEF Links
  <2>4. CASE L.tail["remove"] # NULL
    <3>1. L.tail["remove"] \in Msg
      BY <1>6, <2>4 DEF Ptr
    <3>2. S = [cut EXCEPT !.next[L.tail["remove"]] = from]
      BY <2>2, <2>4
    <3>3. S.next = [cut.next EXCEPT ![L.tail["remove"]] = from]
      BY <2>1, <3>2 DEF Links
    <3>4. S.prev = cut.prev /\ S.head = cut.head /\ S.tail = cut.tail
      BY <2>1, <3>2 DEF Links
    <3>5. S \in Links
      BY <1>4, <1>6, <2>1, <3>2 DEF Links
    <3>6. L.next \in [Msg -> Ptr] /\ L.prev \in [Msg -> Ptr] /\ L.head \in [List -> Ptr] /\ L.tail \in [List -> Ptr]
      BY <1>1 DEF Links
    <3>7. \A x \in Msg : S.next[x] = IF x = L.tail["remove"] THEN from ELSE IF x = to THEN NULL ELSE L.next[x]
      BY <2>1, <3>1, <3>3, <3>6
    <3>8. \A x \in Msg : S.prev[x] = IF x = from THEN L.tail["remove"] ELSE IF x = first THEN NULL ELSE L.prev[x]
      BY <2>1, <3>4, <3>6
    <3>9. \A l \in List : /\ S.head[l] = IF l = "in" THEN first ELSE L.head[l]
                          /\ S.tail[l] = IF l = "remove" THEN to ELSE L.tail[l]
      BY <2>1, <3>4, <3>6
    <3> QED
      BY <2>4, <3>5, <3>7, <3>8, <3>9
  <2> QED
    BY <2>3, <2>4
<1> HIDE DEF R, S
<1>11. S = R
  BY <1>9, <1>10, LinksSame
<1>12. Shape(R, MoveSeq(q, "in", "remove", 1, k - 1), {})
  <2>1. 1 \in 1 .. Len(q["in"]) /\ k - 1 \in 1 .. Len(q["in"]) /\ 1 <= k - 1
    BY <1>2 DEF s
  <2>2. Shape(InsertTail(Unlink(L, "in", q["in"][1], q["in"][k - 1]), "remove", q["in"][1], q["in"][k - 1]),
              [q EXCEPT !["in"] = Cut(@, 1, k - 1), !["remove"] = @ \o SubSeq(q["in"], 1, k - 1)], {})
    BY <1>1, <2>1, MoveShape
  <2> QED
    BY <2>2 DEF R, U, from, to, s, MoveSeq
<1> QED
  BY <1>2, <1>4, <1>11, <1>12 DEF S, s, first, to

\* nbc_prune moves a whole list.
LEMMA AgeShape ==
  ASSUME NEW L, NEW q, Shape(L, q, {}), L.head["remove"] # NULL
  PROVE  Shape(InsertTail([L EXCEPT !.head["remove"] = NULL, !.tail["remove"] = NULL],
                          "old", L.head["remove"], L.tail["remove"]),
               [q EXCEPT !["remove"] = <<>>, !["old"] = @ \o q["remove"]], {})
<1> DEFINE s == q["remove"]
           n == Len(s)
           from == s[1]
           to == s[n]
           U == Unlink(L, "remove", from, to)
           E == [L EXCEPT !.head["remove"] = NULL, !.tail["remove"] = NULL]
<1>1. /\ "remove" \in List /\ "old" \in List /\ "remove" # "old"
      /\ s \in Seq(Msg) /\ L \in Links /\ n \in Nat
  BY DEF List, Shape
<1>2. /\ L.head["remove"] = At(s, 1) /\ L.tail["remove"] = At(s, n)
      /\ \A i \in 1 .. n : /\ s[i] \in Msg /\ s[i] # NULL
                           /\ L.next[s[i]] = At(s, i + 1) /\ L.prev[s[i]] = At(s, i - 1)
  BY <1>1, ShapeAt
<1>3. 1 \in 1 .. n /\ n \in 1 .. n /\ 1 <= n /\ n + 1 \notin 1 .. n /\ 1 - 1 \notin 1 .. n
  <2>1. 1 \in 1 .. n
    BY <1>2 DEF At
  <2> QED
    BY <1>1, <2>1
<1>4. /\ from \in Msg /\ to \in Msg
      /\ L.head["remove"] = from /\ L.tail["remove"] = to /\ L.prev[from] = NULL /\ L.next[to] = NULL
  BY <1>2, <1>3 DEF At
<1>5. \A x \in Msg : x # NULL
  BY NullAssumption
<1> HIDE DEF s, n, from, to
<1>6. Joined(U, L, "remove", NULL, NULL)
  <2>1. Joined(U, L, "remove", L.prev[from], L.next[to])
    BY <1>1, <1>4, UnlinkWrites
  <2> QED
    BY <1>4, <2>1
<1>7. /\ E \in Links /\ E.next = L.next /\ E.prev = L.prev
      /\ \A l \in List : /\ E.head[l] = IF l = "remove" THEN NULL ELSE L.head[l]
                         /\ E.tail[l] = IF l = "remove" THEN NULL ELSE L.tail[l]
  <2>1. NULL \in Ptr
    BY DEF Ptr
  <2> QED
    BY <1>1, <2>1 DEF Links
<1> HIDE DEF U, E
<1>8. E = U
  <2>1. U \in Links
    BY <1>6 DEF Joined
  <2>2. \A m \in Msg : E.next[m] = U.next[m] /\ E.prev[m] = U.prev[m]
    BY <1>5, <1>6, <1>7 DEF Joined
  <2>3. \A l \in List : E.head[l] = U.head[l] /\ E.tail[l] = U.tail[l]
    BY <1>6, <1>7 DEF Joined
  <2> QED
    BY <1>7, <2>1, <2>2, <2>3, LinksSame
<1>9. Shape(InsertTail(U, "old", from, to),
            [q EXCEPT !["remove"] = Cut(@, 1, n), !["old"] = @ \o SubSeq(s, 1, n)], {})
  <2>1. 1 \in 1 .. Len(q["remove"]) /\ Len(q["remove"]) \in 1 .. Len(q["remove"]) /\ 1 <= Len(q["remove"])
    BY <1>3 DEF n, s
  <2> QED
    BY <1>1, <2>1, MoveShape DEF U, from, to, n, s
<1>10. SubSeq(s, 1, n) = s
  BY <1>1 DEF n
<1>11. Cut(s, 1, n) = <<>>
  <2>1. Cut(s, 1, n) \in Seq(Msg) /\ Len(Cut(s, 1, n)) = n - (n - 1 + 1)
    BY <1>1, <1>3, CutAt DEF n
  <2> QED
    BY <1>1, <2>1
<1> QED
  BY <1>4, <1>8, <1>9, <1>10, <1>11 DEF E, s
-----------------------------------------------------------------------------
(* The same for the records of a list, whatever their order.               *)

LEMMA ElemsJoin ==
  ASSUME NEW s \in Seq(Msg), NEW t \in Seq(Msg)
  PROVE  Elems(s \o t) = Elems(s) \cup Elems(t)
<1> DEFINE u == s \o t
<1>1. /\ Len(s) \in Nat /\ Len(t) \in Nat /\ Len(u) = Len(s) + Len(t)
      /\ \A k \in 1 .. Len(s) : u[k] = s[k]
      /\ \A k \in 1 .. Len(t) : u[Len(s) + k] = t[k]
  BY JoinAt
<1> HIDE DEF u
<1>2. ASSUME NEW k \in 1 .. Len(u) PROVE u[k] \in Elems(s) \cup Elems(t)
  <2>1. CASE k \in 1 .. Len(s)
    BY <1>1, <2>1 DEF Elems
  <2>2. CASE k \notin 1 .. Len(s)
    <3>1. k - Len(s) \in 1 .. Len(t) /\ Len(s) + (k - Len(s)) = k
      BY <1>1, <2>2
    <3>2. u[k] = t[k - Len(s)]
      BY <1>1, <3>1
    <3> QED
      BY <3>1, <3>2 DEF Elems
  <2> QED
    BY <2>1, <2>2
<1>3. ASSUME NEW k \in 1 .. Len(s) PROVE s[k] \in Elems(u)
  <2>1. k \in 1 .. Len(u) /\ u[k] = s[k]
    BY <1>1
  <2> QED
    BY <2>1 DEF Elems
<1>4. ASSUME NEW k \in 1 .. Len(t) PROVE t[k] \in Elems(u)
  <2>1. Len(s) + k \in 1 .. Len(u) /\ u[Len(s) + k] = t[k]
    BY <1>1
  <2> QED
    BY <2>1 DEF Elems
<1>5. Elems(u) = Elems(s) \cup Elems(t)
  BY <1>2, <1>3, <1>4 DEF Elems
<1> QED
  BY <1>5 DEF u

LEMMA ElemsOne == ASSUME NEW m \in Msg PROVE <<m>> \in Seq(Msg) /\ Elems(<<m>>) = {m}
<1>1. <<m>> \in Seq(Msg) /\ Len(<<m>>) = 1 /\ <<m>>[1] = m
  OBVIOUS
<1>2. 1 .. 1 = {1}
  OBVIOUS
<1> QED
  BY <1>1, <1>2 DEF Elems

LEMMA ElemsPiece ==
  ASSUME NEW s \in Seq(Msg), NEW i \in 1 .. Len(s), NEW j \in 1 .. Len(s), i <= j
  PROVE  SubSeq(s, i, j) \in Seq(Msg) /\ Elems(SubSeq(s, i, j)) = {s[k] : k \in i .. j}
<1> DEFINE t == SubSeq(s, i, j)
<1>1. Len(s) \in Nat /\ i \in Nat /\ j \in Nat /\ 1 <= i /\ j <= Len(s) /\ i <= j + 1
  OBVIOUS
<1>2. /\ t \in Seq(Msg) /\ Len(t) = j - i + 1
      /\ \A k \in 1 .. j - i + 1 : t[k] = s[i + k - 1]
  BY <1>1, PieceAt
<1> HIDE DEF t
<1>3. ASSUME NEW k \in 1 .. Len(t) PROVE i + k - 1 \in i .. j /\ t[k] = s[i + k - 1]
  BY <1>1, <1>2
<1>4. ASSUME NEW k \in i .. j PROVE k - i + 1 \in 1 .. Len(t) /\ t[k - i + 1] = s[k]
  <2>1. k - i + 1 \in 1 .. j - i + 1 /\ i + (k - i + 1) - 1 = k
    BY <1>1
  <2> QED
    BY <1>2, <2>1
<1>5. Elems(t) = {s[k] : k \in i .. j}
  <2>1. ASSUME NEW e \in Elems(t) PROVE e \in {s[k] : k \in i .. j}
    <3>1. PICK k \in 1 .. Len(t) : e = t[k]
      BY <2>1 DEF Elems
    <3> QED
      BY <1>3, <3>1
  <2>2. ASSUME NEW k \in i .. j PROVE s[k] \in Elems(t)
    BY <1>4 DEF Elems
  <2> QED
    BY <2>1, <2>2
<1> QED
  BY <1>2, <1>5 DEF t

LEMMA ElemsCut ==
  ASSUME NEW s \in Seq(Msg), NEW i \in 1 .. Len(s), NEW j \in 1 .. Len(s), i <= j,
         \A a, b \in 1 .. Len(s) : s[a] = s[b] => a = b
  PROVE  Cut(s, i, j) \in Seq(Msg) /\ Elems(Cut(s, i, j)) = Elems(s) \ {s[k] : k \in i .. j}
<1> DEFINE u == Cut(s, i, j)
           w == j - i + 1
           n == Len(s)
<1>1. n \in Nat /\ i \in Nat /\ j \in Nat /\ 1 <= i /\ i <= j /\ j <= n /\ w \in Nat /\ w = j - i + 1
  OBVIOUS
<1>2. /\ u \in Seq(Msg) /\ Len(u) = n - w
      /\ \A k \in 1 .. i - 1 : u[k] = s[k]
      /\ \A k \in i .. n - w : u[k] = s[k + w]
  BY CutAt
<1>3. \A a, b \in 1 .. n : s[a] = s[b] => a = b
  OBVIOUS
<1> HIDE DEF u, w, n
<1>4. ASSUME NEW k \in 1 .. n - w PROVE \E x \in 1 .. n : x \notin i .. j /\ u[k] = s[x]
  <2>1. CASE k < i
    <3>1. k \in 1 .. i - 1 /\ k \in 1 .. n /\ k \notin i .. j
      BY <1>1, <2>1
    <3> QED
      BY <1>2, <3>1
  <2>2. CASE k >= i
    <3>1. k \in i .. n - w /\ k + w \in 1 .. n /\ k + w \notin i .. j
      BY <1>1, <2>2
    <3> QED
      BY <1>2, <3>1
  <2> QED
    BY <1>1, <2>1, <2>2
<1>5. ASSUME NEW x \in 1 .. n, x \notin i .. j PROVE \E k \in 1 .. n - w : u[k] = s[x]
  <2>1. CASE x < i
    <3>1. x \in 1 .. i - 1 /\ x \in 1 .. n - w
      BY <1>1, <2>1
    <3> QED
      BY <1>2, <3>1
  <2>2. CASE x > j
    <3>1. x - w \in i .. n - w /\ x - w \in 1 .. n - w /\ (x - w) + w = x
      BY <1>1, <2>2
    <3>2. u[x - w] = s[x]
      BY <1>2, <3>1
    <3> QED
      BY <3>1, <3>2
  <2> QED
    BY <1>1, <1>5, <2>1, <2>2
<1>6. \A x \in i .. j : x \in 1 .. n
  BY <1>1
<1>7. Elems(u) = {s[k] : k \in 1 .. n} \ {s[k] : k \in i .. j}
  <2>1. ASSUME NEW e \in Elems(u) PROVE e \in {s[k] : k \in 1 .. n} \ {s[k] : k \in i .. j}
    <3>1. PICK k \in 1 .. n - w : e = u[k]
      BY <1>2, <2>1 DEF Elems
    <3>2. PICK x \in 1 .. n : x \notin i .. j /\ e = s[x]
      BY <1>4, <3>1
    <3> QED
      BY <1>3, <1>6, <3>2
  <2>2. ASSUME NEW e \in {s[k] : k \in 1 .. n} \ {s[k] : k \in i .. j} PROVE e \in Elems(u)
    <3>1. PICK x \in 1 .. n : x \notin i .. j /\ e = s[x]
      BY <2>2
    <3> QED
      BY <1>2, <1>5, <3>1 DEF Elems
  <2> QED
    BY <2>1, <2>2
<1> QED
  BY <1>2, <1>7 DEF u, n, Elems

LEMMA ElemsPut ==
  ASSUME NEW s \in Seq(Msg), NEW i \in 1 .. Len(s), NEW m \in Msg
  PROVE  Put(s, i, m) \in Seq(Msg) /\ Elems(Put(s, i, m)) = Elems(s) \cup {m}
<1> DEFINE u == Put(s, i, m)
           n == Len(s)
<1>1. n \in Nat /\ i \in Nat /\ 1 <= i /\ i <= n
  OBVIOUS
<1>2. /\ u \in Seq(Msg) /\ Len(u) = n + 1
      /\ \A k \in 1 .. i : u[k] = s[k]
      /\ u[i + 1] = m
      /\ \A k \in i + 2 .. n + 1 : u[k] = s[k - 1]
  <2>1. i \in 0 .. Len(s)
    BY <1>1
  <2> QED
    BY <2>1, PutAt
<1> HIDE DEF u, n
<1>3. ASSUME NEW k \in 1 .. n + 1 PROVE u[k] = m \/ \E x \in 1 .. n : u[k] = s[x]
  <2>1. CASE k < i + 1
    <3>1. k \in 1 .. i /\ k \in 1 .. n
      BY <1>1, <2>1
    <3> QED
      BY <1>2, <3>1
  <2>2. CASE k > i + 1
    <3>1. k \in i + 2 .. n + 1 /\ k - 1 \in 1 .. n
      BY <1>1, <2>2
    <3> QED
      BY <1>2, <3>1
  <2>3. k < i + 1 \/ k = i + 1 \/ k > i + 1
    BY <1>1
  <2> QED
    BY <1>2, <2>1, <2>2, <2>3
<1>4. ASSUME NEW x \in 1 .. n PROVE \E k \in 1 .. n + 1 : u[k] = s[x]
  <2>1. CASE x <= i
    <3>1. x \in 1 .. i /\ x \in 1 .. n + 1
      BY <1>1, <2>1
    <3> QED
      BY <1>2, <3>1
  <2>2. CASE x > i
    <3>1. x + 1 \in i + 2 .. n + 1 /\ x + 1 \in 1 .. n + 1 /\ x + 1 - 1 = x
      BY <1>1, <2>2
    <3>2. u[x + 1] = s[x]
      BY <1>2, <3>1
    <3> QED
      BY <3>1, <3>2
  <2> QED
    BY <1>1, <2>1, <2>2
<1>5. i + 1 \in 1 .. n + 1
  BY <1>1
<1>6. Elems(u) = {s[k] : k \in 1 .. n} \cup {m}
  <2>1. ASSUME NEW e \in Elems(u) PROVE e \in {s[k] : k \in 1 .. n} \cup {m}
    <3>1. PICK k \in 1 .. n + 1 : e = u[k]
      BY <1>2, <2>1 DEF Elems
    <3> QED
      BY <1>3, <3>1
  <2>2. ASSUME NEW x \in 1 .. n PROVE s[x] \in Elems(u)
    BY <1>2, <1>4 DEF Elems
  <2>3. m \in Elems(u)
    BY <1>2, <1>5 DEF Elems
  <2> QED
    BY <2>1, <2>2, <2>3
<1> QED
  BY <1>2, <1>6 DEF u, n, Elems

\* No record is on two lists, or twice on one.
LEMMA OnOne ==
  ASSUME NEW L, NEW q, Shape(L, q, {})
  PROVE  /\ \A l \in List : q[l] \in Seq(Msg) /\ On(L, l) \subseteq Msg
         /\ \A l \in List : \A a, b \in 1 .. Len(q[l]) : q[l][a] = q[l][b] => a = b
         /\ \A k, l \in List : k # l => On(L, k) \cap On(L, l) = {}
         /\ \A m : Off(q, m) <=> \A l \in List : m \notin On(L, l)
<1>1. \A l \in List : On(L, l) = Elems(q[l]) /\ q[l] \in Seq(Msg)
  BY ListsAre DEF Shape
<1>2. OnePlace(q)
  BY DEF Shape
<1>3. \A l \in List : On(L, l) \subseteq Msg
  BY <1>1 DEF Elems
<1>4. \A l \in List : \A a, b \in 1 .. Len(q[l]) : q[l][a] = q[l][b] => a = b
  BY <1>2 DEF OnePlace
<1>5. \A k, l \in List : k # l => On(L, k) \cap On(L, l) = {}
  <2> SUFFICES ASSUME NEW k \in List, NEW l \in List, k # l,
                      NEW a \in 1 .. Len(q[k]), NEW b \in 1 .. Len(q[l]), q[k][a] = q[l][b]
               PROVE  FALSE
    BY <1>1 DEF Elems
  <2> QED
    BY <1>2 DEF OnePlace
<1>6. \A m : Off(q, m) <=> \A l \in List : m \notin On(L, l)
  BY <1>1 DEF Off, Elems
<1> QED
  BY <1>1, <1>3, <1>4, <1>5, <1>6

LEMMA AllocateOn ==
  ASSUME NEW L, NEW q, Shape(L, q, {}), NEW m \in Allocatable(L)
  PROVE  /\ \A l \in List : On(Allocate(L, m), l) = On(L, l) \ {m}
         /\ \A l \in List : l # "freed" => m \notin On(L, l)
         /\ m \in node => m \in On(L, "freed")
         /\ Allocate(L, m).head["in"] = L.head["in"]
<1> DEFINE R == Allocate(L, m)
           p == Allocated(q)
<1>1. /\ m \in Msg /\ Shape(R, p, {})
      /\ IF q["freed"] = <<>> THEN Off(q, m) /\ m \notin node
                              ELSE 1 \in 1 .. Len(q["freed"]) /\ m = q["freed"][1]
  BY AllocateShape
<1> HIDE DEF R
<1>2. \A l \in List : On(L, l) = Elems(q[l]) /\ On(R, l) = Elems(p[l])
  BY <1>1, ListsAre
<1>3. "freed" \in List /\ "in" \in List /\ "in" # "freed" /\ q \in [List -> Seq(Msg)]
  BY DEF List, Shape
<1>4. L.head["in"] = At(q["in"], 1) /\ R.head["in"] = At(p["in"], 1)
  BY <1>1, <1>3, ShapeAt
<1>5. CASE q["freed"] = <<>>
  <2>1. p = q
    BY <1>5 DEF Allocated
  <2>2. \A l \in List : m \notin On(L, l)
    BY <1>1, <1>5, OnOne
  <2> QED
    BY <1>1, <1>2, <1>4, <1>5, <2>1, <2>2 DEF R
<1>6. CASE q["freed"] # <<>>
  <2>1. p = [q EXCEPT !["freed"] = Cut(@, 1, 1)]
    BY <1>6 DEF Allocated
  <2>2. 1 \in 1 .. Len(q["freed"]) /\ m = q["freed"][1] /\ 1 <= 1
    BY <1>1, <1>6
  <2>3. m \in On(L, "freed")
    BY <1>2, <1>3, <2>2 DEF Elems
  <2>4. \A l \in List : l # "freed" => m \notin On(L, l)
    BY <1>3, <2>3, OnOne
  <2>5. Elems(Cut(q["freed"], 1, 1)) = Elems(q["freed"]) \ {m}
    <3>1. Elems(Cut(q["freed"], 1, 1)) = Elems(q["freed"]) \ {q["freed"][k] : k \in 1 .. 1}
      BY <1>3, <2>2, OnOne, ElemsCut
    <3>2. {q["freed"][k] : k \in 1 .. 1} = {m}
      BY <2>2
    <3> QED
      BY <3>1, <3>2
  <2>6. \A l \in List : p[l] = IF l = "freed" THEN Cut(q["freed"], 1, 1) ELSE q[l]
    BY <1>3, <2>1
  <2> HIDE DEF p
  <2> QED
    BY <1>2, <1>3, <1>4, <2>3, <2>4, <2>5, <2>6 DEF R
<1> QED
  BY <1>5, <1>6

LEMMA HookOn ==
  ASSUME NEW L, NEW q, Shape(L, q, {}), NEW m \in Msg, Off(q, m), NEW k \in List
  PROVE  \A l \in List : On(InsertTail(CleanNode(L, m), k, m, m), l) =
                           IF l = k THEN On(L, l) \cup {m} ELSE On(L, l)
<1> DEFINE R == InsertTail(CleanNode(L, m), k, m, m)
           p == [q EXCEPT ![k] = @ \o <<m>>]
<1>1. Shape(R, p, {})
  <2>1. {} \subseteq {m}
    OBVIOUS
  <2> QED
    BY <2>1, HookShape
<1> HIDE DEF R
<1>2. \A l \in List : On(L, l) = Elems(q[l]) /\ On(R, l) = Elems(p[l])
  BY <1>1, ListsAre
<1>3. q \in [List -> Seq(Msg)]
  BY DEF Shape
<1>4. Elems(q[k] \o <<m>>) = Elems(q[k]) \cup {m}
  <2>1. q[k] \in Seq(Msg) /\ <<m>> \in Seq(Msg) /\ Elems(<<m>>) = {m}
    BY <1>3, ElemsOne
  <2>2. Elems(q[k] \o <<m>>) = Elems(q[k]) \cup Elems(<<m>>)
    BY <2>1, ElemsJoin
  <2> QED
    BY <2>1, <2>2
<1>5. \A l \in List : p[l] = IF l = k THEN q[k] \o <<m>> ELSE q[l]
  BY <1>3
<1> HIDE DEF p
<1> QED
  BY <1>2, <1>4, <1>5 DEF R

\* R is L, from whose list k the records of run went to l.
Moved(L, R, k, l, run) ==
  /\ run \subseteq On(L, k)
  /\ \A h \in List : On(R, h) = IF h = k THEN On(L, h) \ run
                                ELSE IF h = l THEN On(L, h) \cup run ELSE On(L, h)

\* The records i .. j of s.
Part(s, i, j) == {s[x] : x \in i .. j}

LEMMA MoveOn ==
  ASSUME NEW L, NEW R, NEW q, Shape(L, q, {}), NEW k \in List, NEW l \in List, k # l,
         NEW i \in 1 .. Len(q[k]), NEW j \in 1 .. Len(q[k]), i <= j,
         Shape(R, MoveSeq(q, k, l, i, j), {})
  PROVE  Moved(L, R, k, l, Part(q[k], i, j))
<1> DEFINE p == MoveSeq(q, k, l, i, j)
           run == {q[k][x] : x \in i .. j}
<1>1. \A h \in List : On(L, h) = Elems(q[h]) /\ On(R, h) = Elems(p[h])
  BY ListsAre
<1>2. q \in [List -> Seq(Msg)] /\ q[k] \in Seq(Msg) /\ q[l] \in Seq(Msg) /\ Len(q[k]) \in Nat
  BY DEF Shape
<1>3. Elems(Cut(q[k], i, j)) = Elems(q[k]) \ run
  BY <1>2, OnOne, ElemsCut
<1>4. Elems(q[l] \o SubSeq(q[k], i, j)) = Elems(q[l]) \cup run
  <2> DEFINE t == SubSeq(q[k], i, j)
  <2>1. t \in Seq(Msg) /\ Elems(t) = run
    BY <1>2, ElemsPiece
  <2> HIDE DEF t, run
  <2>2. Elems(q[l] \o t) = Elems(q[l]) \cup Elems(t)
    BY <1>2, <2>1, ElemsJoin
  <2> QED
    BY <2>1, <2>2 DEF t
<1>5. \A h \in List : p[h] = IF h = k THEN Cut(q[k], i, j)
                             ELSE IF h = l THEN q[l] \o SubSeq(q[k], i, j) ELSE q[h]
  BY <1>2 DEF MoveSeq
<1>6. \A x \in i .. j : x \in 1 .. Len(q[k])
  BY <1>2
<1>7. run \subseteq On(L, k)
  BY <1>1, <1>6 DEF Elems
<1> HIDE DEF p, run
<1>8. \A h \in List : On(R, h) = IF h = k THEN On(L, h) \ run
                                 ELSE IF h = l THEN On(L, h) \cup run ELSE On(L, h)
  BY <1>1, <1>3, <1>4, <1>5
<1> QED
  BY <1>7, <1>8 DEF run, Moved, Part
-----------------------------------------------------------------------------
(* The invariant.                                                          *)

Good(L)  == Shape(L, Lists(L), {})

\* The bound is queued, and the head of the queue was committed.
Queued == bound \in On(links, "in") /\ links.head["in"] \notin node

\* max_outgoing_ts covers the event itself and those it sent, and what is in
\* the calendar queue is not before the GVT.
Covered ==
  \A c \in node :
    /\ gvt <= ts[c] /\ ts[c] <= most[c]
    /\ father[c] # NULL => ts[c] <= most[father[c]]

\* A father was executed and is not free.
Fathered ==
  \A c \in node :
    /\ c \notin On(links, "freed")
    /\ father[c] # NULL => father[c] \in On(links, "in") \cup On(links, "remove") \cup On(links, "old")

IInv == TypeOK /\ Good(links) /\ Queued /\ Covered /\ Fathered /\ NoStrayWindow

LEMMA GoodIs ==
  ASSUME NEW L, NEW q, Shape(L, q, {})
  PROVE  Good(L) /\ L \in Links
<1>1. Lists(L) = q
  BY ListsAre
<1> QED
  BY <1>1 DEF Good, Shape

LEMMA TypeIs == TypeOK <=> /\ links \in Links
                           /\ node \subseteq Msg /\ marked \subseteq Msg
                           /\ ts \in [Msg -> 0 .. MaxTs] /\ most \in [Msg -> 0 .. MaxTs]
                           /\ father \in [Msg -> Ptr] /\ window \in [Msg -> {"none", "own", "last"}]
                           /\ bound \in Msg /\ gvt \in 0 .. MaxTs + 1
BY DEF TypeOK, Links

LEMMA ListNames ==
  /\ "in" \in List /\ "remove" \in List /\ "old" \in List /\ "freed" \in List
  /\ "in" # "freed" /\ "in" # "remove" /\ "in" # "old" /\ "remove" # "old" /\ "remove" # "freed" /\ "old" # "freed"
  /\ \A l \in List : l = "in" \/ l = "remove" \/ l = "old" \/ l = "freed"
BY DEF List

\* The queue is never empty.
LEMMA HeadOn ==
  ASSUME IInv
  PROVE  /\ Lists(links)["in"] \in Seq(Msg) /\ 1 \in 1 .. Len(Lists(links)["in"])
         /\ links.head["in"] = Lists(links)["in"][1] /\ links.head["in"] \in On(links, "in")
         /\ \E i \in 1 .. Len(Lists(links)["in"]) : Lists(links)["in"][i] = bound
<1> DEFINE q == Lists(links)
<1>1. /\ links.head["in"] = At(q["in"], 1) /\ On(links, "in") = Elems(q["in"])
      /\ q["in"] \in Seq(Msg) /\ bound \in Elems(q["in"])
  BY ListNames, ShapeAt, ListsAre DEF IInv, Queued, Good
<1>2. 1 \in 1 .. Len(q["in"])
  BY <1>1 DEF Elems
<1> QED
  BY <1>1, <1>2 DEF At, Elems

LEMMA SendStep ==
  ASSUME IInv, NEW c \in Msg, NEW t \in 1 .. MaxTs, Send(c, t)
  PROVE  IInv'
<1> DEFINE q == Lists(links)
<1>1. /\ Shape(links, q, {}) /\ c \in Allocatable(links) /\ gvt < t
      /\ links' = Allocate(links, c)
      /\ node' = node \cup {c} /\ marked' = marked \ {c}
      /\ ts' = [ts EXCEPT ![c] = t] /\ most' = [most EXCEPT ![c] = t]
      /\ father' = [father EXCEPT ![c] = NULL]
      /\ UNCHANGED <<window, bound, gvt>>
  BY DEF IInv, Good, Send
<1>2. Shape(links', Allocated(q), {})
  BY <1>1, AllocateShape
<1>3. /\ \A l \in List : On(links', l) = On(links, l) \ {c}
      /\ \A l \in List : l # "freed" => c \notin On(links, l)
      /\ c \in node => c \in On(links, "freed")
      /\ links'.head["in"] = links.head["in"]
  BY <1>1, AllocateOn
<1>4. Good(links)' /\ links' \in Links
  BY <1>2, GoodIs DEF Good, Lists
<1>5. "in" \in List /\ "remove" \in List /\ "old" \in List /\ "freed" \in List
  BY ListNames
<1>6. c \notin node
  BY <1>3 DEF IInv, Fathered
<1>7. /\ node \subseteq Msg /\ marked \subseteq Msg /\ ts \in [Msg -> 0 .. MaxTs] /\ most \in [Msg -> 0 .. MaxTs]
      /\ father \in [Msg -> Ptr] /\ window \in [Msg -> {"none", "own", "last"}]
      /\ bound \in Msg /\ gvt \in 0 .. MaxTs + 1 /\ MaxTs \in Nat /\ t \in 0 .. MaxTs /\ NULL \in Ptr
  BY MaxTsAssumption, TypeIs DEF IInv, Ptr
<1>8. TypeOK'
  BY <1>1, <1>4, <1>7 DEF TypeOK, Links
<1>9. Queued'
  <2>1. On(links', "in") = On(links, "in") /\ c # links.head["in"]
    <3>1. links.head["in"] \in On(links, "in")
      BY HeadOn
    <3> QED
      BY <1>3, <1>5, <3>1
  <2> QED
    BY <1>1, <1>3, <2>1 DEF IInv, Queued
<1>10. Covered'
  <2> SUFFICES ASSUME NEW x \in node'
               PROVE  /\ gvt' <= ts'[x] /\ ts'[x] <= most'[x]
                      /\ father'[x] # NULL => ts'[x] <= most'[father'[x]]
    BY DEF Covered
  <2>1. CASE x = c
    BY <1>1, <1>7, <2>1
  <2>2. CASE x # c
    <3>1. x \in node /\ ts'[x] = ts[x] /\ most'[x] = most[x] /\ father'[x] = father[x]
      BY <1>1, <1>7, <2>2
    <3>2. father[x] # NULL => father[x] # c /\ father[x] \in Msg
      BY <1>3, <1>5, <1>7, <3>1 DEF IInv, Fathered, Ptr
    <3>3. father[x] # NULL => most'[father[x]] = most[father[x]]
      BY <1>1, <1>7, <3>2
    <3> QED
      BY <1>1, <3>1, <3>3 DEF IInv, Covered
  <2> QED
    BY <2>1, <2>2
<1>11. Fathered'
  <2> SUFFICES ASSUME NEW x \in node'
               PROVE  /\ x \notin On(links', "freed")
                      /\ father'[x] # NULL =>
                           father'[x] \in On(links', "in") \cup On(links', "remove") \cup On(links', "old")
    BY DEF Fathered
  <2>1. CASE x = c
    BY <1>1, <1>3, <1>5, <1>7, <2>1
  <2>2. CASE x # c
    <3>1. x \in node /\ father'[x] = father[x]
      BY <1>1, <1>7, <2>2
    <3>2. x \notin On(links, "freed")
      BY <3>1 DEF IInv, Fathered
    <3>3. father[x] # NULL => father[x] \in On(links, "in") \cup On(links, "remove") \cup On(links, "old")
      BY <3>1 DEF IInv, Fathered
    <3> QED
      BY <1>3, <1>5, <3>1, <3>2, <3>3
  <2> QED
    BY <2>1, <2>2
<1>12. NoStrayWindow'
  BY <1>1, <1>3, <1>5 DEF IInv, NoStrayWindow
<1> QED
  BY <1>4, <1>8, <1>9, <1>10, <1>11, <1>12 DEF IInv

\* The steps that touch no list.
LEMMA SilentStep ==
  ASSUME IInv, NEW m \in Msg, Invalidate(m) \/ AdvanceGvt \/ Commit(m) \/ Rollback(m)
  PROVE  IInv' /\ links' = links
<1> DEFINE q == Lists(links)
           s == q["in"]
<1>1. /\ links \in Links /\ node \subseteq Msg /\ marked \subseteq Msg
      /\ ts \in [Msg -> 0 .. MaxTs] /\ most \in [Msg -> 0 .. MaxTs]
      /\ father \in [Msg -> Ptr] /\ window \in [Msg -> {"none", "own", "last"}]
      /\ bound \in Msg /\ gvt \in 0 .. MaxTs + 1 /\ MaxTs \in Nat
  BY MaxTsAssumption, TypeIs DEF IInv
<1>2. /\ UNCHANGED <<links, ts, most, father, window>>
      /\ node' \subseteq node /\ marked' \subseteq Msg
  BY <1>1 DEF Invalidate, AdvanceGvt, Commit, Rollback
<1>3. gvt' \in 0 .. MaxTs + 1 /\ \A c \in node : gvt' <= ts[c]
  <2>1. CASE AdvanceGvt
    <3>1. \A c \in node : ts[c] \in 0 .. MaxTs
      BY <1>1
    <3> QED
      BY <1>1, <2>1, <3>1 DEF AdvanceGvt
  <2>2. CASE ~AdvanceGvt
    BY <1>1, <2>2 DEF Invalidate, Commit, Rollback, IInv, Covered
  <2> QED
    BY <2>1, <2>2
<1>4. bound' \in On(links, "in") /\ bound' \in Msg
  <2>1. CASE ~Rollback(m)
    BY <1>1, <2>1 DEF Invalidate, AdvanceGvt, Commit, IInv, Queued
  <2>2. CASE Rollback(m)
    <3>1. s \in Seq(Msg) /\ Chain(links, "in") = s
      BY HeadOn, ListNames DEF Lists
    <3>2. On(links, "in") = Elems(s)
      BY ListNames, ListsAre DEF IInv, Good
    <3>3. Executed \subseteq Elems(s)
      BY <3>1 DEF Executed, Upto, Elems
    <3>4. Elems(s) \subseteq Msg
      BY <3>1 DEF Elems
    <3>5. CASE bound' \in Executed
      BY <3>2, <3>3, <3>4, <3>5
    <3>6. CASE bound' \notin Executed
      <4>1. m \in node /\ m \in Executed /\ bound' = links.prev[m]
        BY <2>2, <3>6 DEF Rollback
      <4>2. PICK i \in 1 .. Len(s) : m = s[i]
        BY <3>3, <4>1 DEF Elems
      <4>3. i # 1
        BY <4>1, <4>2, HeadOn DEF IInv, Queued
      <4>4. i - 1 \in 1 .. Len(s)
        BY <3>1, <4>3
      <4>5. links.prev[m] = At(s, i - 1)
        BY <4>2, ListNames, ShapeAt DEF IInv, Good
      <4>6. bound' = s[i - 1]
        BY <4>1, <4>4, <4>5 DEF At
      <4> QED
        BY <3>2, <3>4, <4>4, <4>6 DEF Elems
    <3> QED
      BY <3>5, <3>6
  <2> QED
    BY <2>1, <2>2
<1>5. TypeOK'
  BY <1>1, <1>2, <1>3, <1>4 DEF TypeOK, Links
<1>6. Good(links)'
  BY <1>2 DEF IInv, Good, Lists
<1>7. Queued'
  BY <1>2, <1>4 DEF IInv, Queued
<1>8. Covered'
  BY <1>2, <1>3 DEF IInv, Covered
<1>9. Fathered' /\ NoStrayWindow'
  BY <1>2 DEF IInv, Fathered, NoStrayWindow
<1> QED
  BY <1>2, <1>5, <1>6, <1>7, <1>8, <1>9 DEF IInv

LEMMA DeallocateStep ==
  ASSUME IInv, NEW c \in Msg, Deallocate(c)
  PROVE  IInv'
<1> DEFINE q == Lists(links)
           A == Allocate(links, c)
<1>1. /\ Shape(links, q, {}) /\ c \in Allocatable(links)
      /\ links' = InsertTail(CleanNode(A, c), "freed", c, c)
      /\ UNCHANGED <<node, marked, ts, most, father, window, bound, gvt>>
  BY DEF IInv, Good, Deallocate
<1>2. Shape(A, Allocated(q), {}) /\ Off(Allocated(q), c)
  BY <1>1, AllocateShape
<1>3. /\ \A l \in List : On(A, l) = On(links, l) \ {c}
      /\ \A l \in List : l # "freed" => c \notin On(links, l)
      /\ c \in node => c \in On(links, "freed")
      /\ A.head["in"] = links.head["in"]
  BY <1>1, AllocateOn
<1> HIDE DEF A, q
<1>4. Shape(links', [Allocated(q) EXCEPT !["freed"] = @ \o <<c>>], {})
  <2>1. {} \subseteq {c}
    OBVIOUS
  <2> QED
    BY <1>1, <1>2, <2>1, ListNames, HookShape
<1>5. \A l \in List : On(links', l) = IF l = "freed" THEN On(A, l) \cup {c} ELSE On(A, l)
  BY <1>1, <1>2, ListNames, HookOn
<1>6. Good(links)' /\ links' \in Links
  BY <1>4, GoodIs DEF Good, Lists
<1>7. c \notin node
  BY <1>3 DEF IInv, Fathered
<1>8. /\ On(links', "in") = On(links, "in") /\ On(links', "remove") = On(links, "remove")
      /\ On(links', "old") = On(links, "old") /\ On(links', "freed") \subseteq On(links, "freed") \cup {c}
  <2>1. \A l \in List : l # "freed" => On(links', l) = On(links, l)
    BY <1>3, <1>5
  <2>2. On(links', "freed") = (On(links, "freed") \ {c}) \cup {c}
    BY <1>3, <1>5, ListNames
  <2> QED
    BY <2>1, <2>2, ListNames
<1>9. links'.head["in"] = links.head["in"]
  <2> DEFINE p == [Allocated(q) EXCEPT !["freed"] = @ \o <<c>>]
  <2>1. p["in"] = Allocated(q)["in"]
    BY <1>2, ListNames DEF Shape
  <2>2. A.head["in"] = At(Allocated(q)["in"], 1)
    BY <1>2, ListNames, ShapeAt
  <2>3. Shape(links', p, {})
    BY <1>4
  <2> HIDE DEF p
  <2>4. links'.head["in"] = At(p["in"], 1)
    BY <2>3, ListNames, ShapeAt
  <2> QED
    BY <1>3, <2>1, <2>2, <2>4
<1>10. TypeOK'
  BY <1>1, <1>6, TypeIs DEF IInv, TypeOK, Links
<1>11. Queued' /\ NoStrayWindow' /\ Covered'
  BY <1>1, <1>8, <1>9 DEF IInv, Queued, NoStrayWindow, Covered
<1>12. Fathered'
  BY <1>1, <1>7, <1>8 DEF IInv, Fathered
<1> QED
  BY <1>6, <1>10, <1>11, <1>12 DEF IInv

LEMMA PieceOne ==
  ASSUME NEW s \in Seq(Msg), NEW i \in 1 .. Len(s)
  PROVE  SubSeq(s, i, i) = <<s[i]>>
<1>1. s[i] \in Msg /\ i \in Nat /\ Len(s) \in Nat
  OBVIOUS
<1>2. <<s[i]>> \in Seq(Msg) /\ Len(<<s[i]>>) = 1 /\ <<s[i]>>[1] = s[i]
  BY <1>1
<1>3. i <= Len(s) /\ 1 <= i /\ i <= i + 1 /\ i - i + 1 = 1 /\ i + 1 - 1 = i
  BY <1>1
<1> DEFINE t == SubSeq(s, i, i)
           u == <<s[i]>>
<1>4. t \in Seq(Msg) /\ Len(t) = 1 /\ t[1] = s[i]
  BY <1>1, <1>3, PieceAt
<1>5. u \in Seq(Msg) /\ Len(u) = 1 /\ u[1] = s[i]
  BY <1>2
<1> HIDE DEF t, u
<1>6. t = u
  BY <1>4, <1>5
<1> QED
  BY <1>6 DEF t, u

LEMMA FetchDropMoves ==
  ASSUME IInv, FetchDrop
  PROVE  LET q == Lists(links)
         IN  \E i \in 1 .. Len(q["in"]) :
               /\ i # 1 /\ q["in"][i] = links.next[bound] /\ q["in"][i - 1] = bound /\ i - 1 \in 1 .. Len(q["in"])
               /\ links' = InsertTail(CleanNode(Unlink(links, "in", q["in"][i], q["in"][i]), q["in"][i]),
                                      "remove", q["in"][i], q["in"][i])
               /\ Shape(links', [q EXCEPT !["in"] = Cut(@, i, i), !["remove"] = @ \o SubSeq(q["in"], i, i)], {})
<1> DEFINE q == Lists(links)
           s == q["in"]
           d == links.next[bound]
<1>1. PICK k \in 1 .. Len(s) : s[k] = bound
  BY HeadOn
<1>2. Shape(links, q, {}) /\ s \in Seq(Msg)
  BY HeadOn DEF IInv, Good
<1>3. d = At(s, k + 1)
  BY <1>1, <1>2, ListNames, ShapeAt
<1>4. k + 1 \in 1 .. Len(s) /\ s[k + 1] = d
  BY <1>3 DEF FetchDrop, At
<1> DEFINE i == k + 1
<1>5. i \in 1 .. Len(s) /\ i # 1 /\ i - 1 = k
  BY <1>4
<1>6. Shape(InsertTail(CleanNode(Unlink(links, "in", s[i], s[i]), s[i]), "remove", s[i], s[i]),
            [q EXCEPT !["in"] = Cut(@, i, i), !["remove"] = @ \o <<s[i]>>], {})
  BY <1>2, <1>5, ListNames, DropShape
<1>7. SubSeq(s, i, i) = <<s[i]>>
  BY <1>2, <1>5, PieceOne
<1>8. links' = InsertTail(CleanNode(Unlink(links, "in", s[i], s[i]), s[i]), "remove", s[i], s[i])
  BY <1>4 DEF FetchDrop
<1> QED
  BY <1>1, <1>4, <1>5, <1>6, <1>7, <1>8

LEMMA FetchDropStep ==
  ASSUME IInv, FetchDrop
  PROVE  IInv'
<1> DEFINE q == Lists(links)
           s == q["in"]
           d == links.next[bound]
<1>1. PICK i \in 1 .. Len(s) :
        /\ i # 1 /\ s[i] = d /\ s[i - 1] = bound /\ i - 1 \in 1 .. Len(s)
        /\ Shape(links', [q EXCEPT !["in"] = Cut(@, i, i), !["remove"] = @ \o SubSeq(s, i, i)], {})
  BY FetchDropMoves
<1>2. /\ Shape(links, q, {}) /\ s \in Seq(Msg) /\ d \in Msg /\ s[1] = links.head["in"] /\ 1 \in 1 .. Len(s)
      /\ "in" \in List /\ "remove" \in List /\ "in" # "remove"
  BY <1>1, HeadOn, ListNames DEF IInv, Good
<1>3. \A a, b \in 1 .. Len(s) : s[a] = s[b] => a = b
  BY <1>2, OnOne
<1>4. s = q["in"] /\ d = links.next[bound]
  OBVIOUS
<1> HIDE DEF q, s, d
<1>5. /\ d \in On(links, "in")
      /\ \A h \in List : On(links', h) = IF h = "in" THEN On(links, h) \ {d}
                                         ELSE IF h = "remove" THEN On(links, h) \cup {d} ELSE On(links, h)
  <2> DEFINE run == {s[x] : x \in i .. i}
  <2>1. run = {d}
    BY <1>1
  <2>2. i <= i
    BY <1>1
  <2>3. /\ run \subseteq On(links, "in")
        /\ \A h \in List : On(links', h) = IF h = "in" THEN On(links, h) \ run
                                           ELSE IF h = "remove" THEN On(links, h) \cup run ELSE On(links, h)
    <3>1. Shape(links', MoveSeq(q, "in", "remove", i, i), {})
      BY <1>1, <1>4 DEF MoveSeq
    <3>2. i \in 1 .. Len(q["in"]) /\ run = {q["in"][x] : x \in i .. i}
      BY <1>4
    <3>3. Moved(links, links', "in", "remove", Part(q["in"], i, i))
      BY <1>2, <2>2, <3>1, <3>2, MoveOn
    <3> HIDE DEF run
    <3> QED
      BY <3>2, <3>3 DEF Moved, Part
  <2> QED
    BY <2>1, <2>3
<1>6. Good(links)' /\ links' \in Links
  BY <1>1, GoodIs DEF Good, Lists
<1>7. d # bound
  <2>1. i - 1 # i
    BY <1>1
  <2> QED
    BY <1>1, <1>3, <2>1
<1>8. links'.head["in"] = links.head["in"]
  <2> DEFINE p == [q EXCEPT !["in"] = Cut(@, i, i), !["remove"] = @ \o SubSeq(s, i, i)]
             u == Cut(s, i, i)
  <2>1. Shape(links', p, {})
    BY <1>1
  <2>2. p["in"] = u
    BY <1>2, <1>4 DEF Shape
  <2>3. i <= i /\ i \in Nat /\ Len(s) \in Nat
    BY <1>1, <1>2
  <2>4. u \in Seq(Msg) /\ Len(u) = Len(s) - (i - i + 1) /\ \A k \in 1 .. i - 1 : u[k] = s[k]
    BY <1>1, <1>2, <2>3, CutAt
  <2> HIDE DEF p, u
  <2>5. 1 \in 1 .. i - 1 /\ 1 \in 1 .. Len(s) - (i - i + 1)
    BY <1>1, <2>3
  <2>6. links'.head["in"] = At(p["in"], 1)
    BY <1>2, <2>1, ShapeAt
  <2> QED
    BY <1>2, <2>2, <2>4, <2>5, <2>6 DEF At
<1>9. /\ window' = [window EXCEPT ![d] = "none"] /\ marked' = marked \cup Children(d)
      /\ UNCHANGED <<node, ts, most, father, bound, gvt>>
  BY DEF FetchDrop, d
<1>10. TypeOK'
  <2>1. Children(d) \subseteq Msg
    BY DEF Children, IInv, TypeOK
  <2> QED
    BY <1>2, <1>6, <1>9, <2>1, TypeIs DEF IInv, TypeOK, Links
<1>11. Queued' /\ Covered'
  BY <1>2, <1>5, <1>7, <1>8, <1>9 DEF IInv, Queued, Covered
<1>12. NoStrayWindow'
  BY <1>2, <1>5, <1>9, TypeIs DEF IInv, NoStrayWindow
<1>13. Fathered'
  BY <1>2, <1>5, <1>9, ListNames DEF IInv, Fathered
<1> QED
  BY <1>6, <1>10, <1>11, <1>12, <1>13 DEF IInv

LEMMA RemoveNodeStep ==
  ASSUME IInv, NEW m \in Msg, RemoveNode(m)
  PROVE  IInv'
<1> DEFINE q == Lists(links)
           p == [q EXCEPT !["remove"] = @ \o <<m>>]
<1>1. /\ Shape(links, q, {}) /\ m \in node /\ node' = node \ {m}
      /\ links' = IF m \in Loose(links) THEN InsertTail(CleanNode(links, m), "remove", m, m) ELSE links
      /\ UNCHANGED <<marked, ts, most, father, window, bound, gvt>>
  BY DEF IInv, Good, RemoveNode
<1>2. /\ Good(links)' /\ links' \in Links
      /\ \A h \in List : h # "remove" => On(links', h) = On(links, h)
      /\ On(links, "remove") \subseteq On(links', "remove")
      /\ links'.head["in"] = links.head["in"]
  <2>1. CASE m \notin Loose(links)
    BY <1>1, <2>1 DEF IInv, Good, Lists, TypeOK, Links
  <2>2. CASE m \in Loose(links)
    <3>1. Off(q, m)
      BY <1>1, <2>2, ListsAre
    <3>2. Shape(links', p, {})
      <4>1. {} \subseteq {m}
        OBVIOUS
      <4> QED
        BY <1>1, <2>2, <3>1, <4>1, ListNames, HookShape
    <3>3. \A h \in List : On(links', h) = IF h = "remove" THEN On(links, h) \cup {m} ELSE On(links, h)
      BY <1>1, <2>2, <3>1, ListNames, HookOn
    <3>4. Good(links)' /\ links' \in Links
      BY <3>2, GoodIs DEF Good, Lists
    <3>5. p["in"] = q["in"]
      BY <1>1, ListNames DEF Shape
    <3>6. links.head["in"] = At(q["in"], 1)
      BY <1>1, ListNames, ShapeAt
    <3> HIDE DEF p, q
    <3>7. links'.head["in"] = At(p["in"], 1)
      BY <3>2, ListNames, ShapeAt
    <3> QED
      BY <3>3, <3>4, <3>5, <3>6, <3>7, ListNames
  <2> QED
    BY <2>1, <2>2
<1>3. TypeOK'
  BY <1>1, <1>2, TypeIs DEF IInv, TypeOK, Links
<1>4. Queued' /\ Covered' /\ NoStrayWindow'
  BY <1>1, <1>2, ListNames DEF IInv, Queued, Covered, NoStrayWindow
<1>5. Fathered'
  BY <1>1, <1>2, ListNames DEF IInv, Fathered
<1> QED
  BY <1>2, <1>3, <1>4, <1>5 DEF IInv

LEMMA CleanCheckpointMoves ==
  ASSUME IInv, NEW first \in Msg, CleanCheckpoint(first)
  PROVE  LET q == Lists(links)
         IN  \E k \in 1 .. Len(q["in"]) :
               /\ k # 1 /\ k - 1 \in 1 .. Len(q["in"]) /\ q["in"][k] = first
               /\ links.prev[first] = q["in"][k - 1]
               /\ \E b \in 1 .. Len(q["in"]) : k <= b /\ q["in"][b] = bound
               /\ Upto(first) \ {first} = {q["in"][x] : x \in 1 .. k - 1}
               /\ Shape(links', MoveSeq(q, "in", "remove", 1, k - 1), {})
<1> DEFINE q == Lists(links)
           s == q["in"]
<1>1. Shape(links, q, {}) /\ s \in Seq(Msg) /\ Len(s) \in Nat /\ Chain(links, "in") = s
  BY HeadOn, ListNames DEF IInv, Good, Lists
<1>2. \A a, b \in 1 .. Len(s) : s[a] = s[b] => a = b
  BY <1>1, ListNames, OnOne
<1>3. \A m : Upto(m) = {s[i] : i \in {j \in 1 .. Len(s) : \E k \in 1 .. Len(s) : j <= k /\ s[k] = m}}
  BY <1>1 DEF Upto
<1>4. /\ first \in Executed /\ links.prev[first] # NULL
      /\ links' = Splice(links, first)
  BY DEF CleanCheckpoint
<1>5. PICK k \in 1 .. Len(s) : s[k] = first /\ \E b \in 1 .. Len(s) : k <= b /\ s[b] = bound
  BY <1>3, <1>4 DEF Executed
<1>6. links.prev[first] = At(s, k - 1)
  BY <1>1, <1>5, ListNames, ShapeAt
<1>7. k # 1
  <2>1. 1 - 1 \notin 1 .. Len(s)
    OBVIOUS
  <2> QED
    BY <1>4, <1>6, <2>1 DEF At
<1>8. /\ k - 1 \in 1 .. Len(s) /\ links.prev[first] = s[k - 1]
      /\ Shape(links', MoveSeq(q, "in", "remove", 1, k - 1), {})
  <2> HIDE DEF q
  <2>1. /\ k - 1 \in 1 .. Len(q["in"]) /\ links.prev[q["in"][k]] = q["in"][k - 1]
        /\ Shape(Splice(links, q["in"][k]), MoveSeq(q, "in", "remove", 1, k - 1), {})
    BY <1>1, <1>5, <1>7, SpliceShape
  <2> QED
    BY <1>4, <1>5, <2>1
<1> HIDE DEF q, s
<1>9. Upto(first) \ {first} = {s[x] : x \in 1 .. k - 1}
  <2>1. ASSUME NEW m \in Upto(first) \ {first} PROVE \E x \in 1 .. k - 1 : m = s[x]
    <3>1. PICK j \in 1 .. Len(s) : m = s[j] /\ \E h \in 1 .. Len(s) : j <= h /\ s[h] = first
      BY <1>3, <2>1
    <3>2. j <= k
      BY <1>2, <1>5, <3>1
    <3>3. j # k
      BY <1>5, <2>1, <3>1
    <3>4. j \in 1 .. k - 1
      BY <1>5, <3>1, <3>2, <3>3
    <3> QED
      BY <3>1, <3>4
  <2>2. ASSUME NEW x \in 1 .. k - 1 PROVE s[x] \in Upto(first) \ {first}
    <3>1. x \in 1 .. Len(s) /\ x <= k /\ x # k
      BY <1>1
    <3>2. s[x] # first
      BY <1>2, <1>5, <3>1
    <3> QED
      BY <1>3, <1>5, <3>1, <3>2
  <2> QED
    BY <2>1, <2>2
<1>10. /\ k # 1 /\ k - 1 \in 1 .. Len(s) /\ s[k] = first
       /\ links.prev[first] = s[k - 1]
       /\ \E b \in 1 .. Len(s) : k <= b /\ s[b] = bound
       /\ Upto(first) \ {first} = {s[x] : x \in 1 .. k - 1}
       /\ Shape(links', MoveSeq(q, "in", "remove", 1, k - 1), {})
  BY <1>5, <1>7, <1>8, <1>9
<1> QED
  BY <1>10 DEF q, s

LEMMA CleanCheckpointStep ==
  ASSUME IInv, NEW first \in Msg, CleanCheckpoint(first)
  PROVE  IInv'
<1> DEFINE q == Lists(links)
           s == q["in"]
           thrown == Upto(first) \ {first}
<1>1. PICK k \in 1 .. Len(s) :
        /\ k # 1 /\ k - 1 \in 1 .. Len(s) /\ s[k] = first
        /\ \E b \in 1 .. Len(s) : k <= b /\ s[b] = bound
        /\ thrown = {s[x] : x \in 1 .. k - 1}
        /\ Shape(links', MoveSeq(q, "in", "remove", 1, k - 1), {})
  BY CleanCheckpointMoves
<1>2. /\ Shape(links, q, {}) /\ s \in Seq(Msg) /\ Len(s) \in Nat /\ 1 \in 1 .. Len(s)
      /\ "in" \in List /\ "remove" \in List /\ "in" # "remove"
  BY HeadOn, ListNames DEF IInv, Good
<1>3. \A a, b \in 1 .. Len(s) : s[a] = s[b] => a = b
  BY <1>2, OnOne
<1>4. 1 <= k - 1
  BY <1>1, <1>2
<1>5. Moved(links, links', "in", "remove", thrown)
  <2> HIDE DEF q, thrown
  <2>1. Moved(links, links', "in", "remove", {q["in"][x] : x \in 1 .. k - 1})
    <3> DEFINE i == 1
               j == k - 1
    <3>1. /\ i \in 1 .. Len(q["in"]) /\ j \in 1 .. Len(q["in"]) /\ i <= j
          /\ Shape(links', MoveSeq(q, "in", "remove", i, j), {})
      BY <1>1, <1>2, <1>4
    <3> HIDE DEF i, j
    <3>2. Moved(links, links', "in", "remove", Part(q["in"], i, j))
      BY <1>2, <3>1, MoveOn
    <3> QED
      BY <3>2 DEF i, j, Part
  <2> QED
    BY <1>1, <2>1
<1>6. /\ first \notin node /\ thrown \cap node = {}
      /\ window' = [m \in Msg |->
           IF m \in thrown /\ window[m] # "none"
             THEN IF m = links.prev[first] THEN "last" ELSE "none"
             ELSE window[m]]
      /\ UNCHANGED <<node, marked, ts, most, father, bound, gvt>>
  BY DEF CleanCheckpoint
<1>7. Good(links)' /\ links' \in Links
  BY <1>1, GoodIs DEF Good, Lists
<1>8. bound \notin thrown
  <2>1. PICK b \in 1 .. Len(s) : k <= b /\ s[b] = bound
    BY <1>1
  <2> HIDE DEF s, thrown
  <2>2. ASSUME NEW x \in 1 .. k - 1 PROVE s[x] # bound
    <3>1. x \in 1 .. Len(s) /\ x # b
      BY <1>1, <1>2, <2>1
    <3> QED
      BY <1>3, <2>1, <3>1
  <2> QED
    BY <1>1, <2>2
<1>9. links'.head["in"] = first
  <2> DEFINE p == MoveSeq(q, "in", "remove", 1, k - 1)
             u == Cut(s, 1, k - 1)
  <2>1. Shape(links', p, {}) /\ q \in [List -> Seq(Msg)]
    BY <1>1, <1>2 DEF Shape
  <2>2. p["in"] = u
    BY <1>2, <2>1 DEF MoveSeq
  <2>3. /\ u \in Seq(Msg) /\ Len(u) = Len(s) - (k - 1 - 1 + 1)
        /\ \A x \in 1 .. Len(s) - (k - 1 - 1 + 1) : u[x] = s[x + (k - 1 - 1 + 1)]
    <3> DEFINE a == 1
               b == k - 1
    <3>1. a \in 1 .. Len(s) /\ b \in 1 .. Len(s) /\ a <= b
      BY <1>1, <1>2, <1>4
    <3> HIDE DEF a, b, s
    <3>2. /\ Cut(s, a, b) \in Seq(Msg) /\ Len(Cut(s, a, b)) = Len(s) - (b - a + 1)
          /\ \A x \in a .. Len(s) - (b - a + 1) : Cut(s, a, b)[x] = s[x + (b - a + 1)]
      BY <1>2, <3>1, CutAt
    <3> QED
      BY <3>2 DEF a, b
  <2> HIDE DEF p, u, s, q
  <2>4. 1 \in 1 .. Len(s) - (k - 1 - 1 + 1) /\ 1 + (k - 1 - 1 + 1) = k
    BY <1>1, <1>2
  <2>5. links'.head["in"] = At(p["in"], 1)
    BY <1>2, <2>1, ShapeAt
  <2> QED
    BY <1>1, <2>2, <2>3, <2>4, <2>5 DEF At
<1> HIDE DEF thrown, q, s
<1>10. TypeOK'
  <2>1. window' \in [Msg -> {"none", "own", "last"}]
    BY <1>6, TypeIs DEF IInv
  <2> QED
    BY <1>6, <1>7, <2>1, TypeIs DEF IInv, TypeOK, Links
<1>11. Queued' /\ Covered'
  BY <1>2, <1>5, <1>6, <1>8, <1>9 DEF IInv, Queued, Covered, Moved
<1>12. NoStrayWindow'
  <2> SUFFICES ASSUME NEW m \in Msg, m \notin On(links', "in") PROVE window'[m] # "own"
    BY DEF NoStrayWindow
  <2>1. CASE m \in thrown
    BY <1>6, <2>1
  <2>2. CASE m \notin thrown
    <3>1. m \notin On(links, "in")
      BY <1>2, <1>5, <2>2 DEF Moved
    <3> QED
      BY <1>6, <2>2, <3>1 DEF IInv, NoStrayWindow
  <2> QED
    BY <2>1, <2>2
<1>13. Fathered'
  BY <1>2, <1>5, <1>6, ListNames DEF IInv, Fathered, Moved
<1> QED
  BY <1>7, <1>10, <1>11, <1>12, <1>13 DEF IInv

LEMMA AgeStep ==
  ASSUME IInv, Age
  PROVE  /\ IInv'
         /\ LET q == Lists(links)
            IN  Shape(links', [q EXCEPT !["remove"] = <<>>, !["old"] = @ \o q["remove"]], {})
<1> DEFINE q == Lists(links)
           p == [q EXCEPT !["remove"] = <<>>, !["old"] = @ \o q["remove"]]
<1>1. Shape(links, q, {}) /\ q \in [List -> Seq(Msg)]
  BY DEF IInv, Good, Shape
<1>2. UNCHANGED <<node, marked, ts, most, father, window, bound, gvt>>
  BY DEF Age
<1>3. Shape(links', p, {})
  BY <1>1, AgeShape DEF Age
<1>4. \A l \in List : On(links, l) = Elems(q[l]) /\ On(links', l) = Elems(p[l])
  BY <1>1, <1>3, ListsAre
<1>5. /\ p["in"] = q["in"] /\ p["freed"] = q["freed"] /\ p["old"] = q["old"] \o q["remove"]
  BY <1>1, ListNames
<1>6. Elems(p["old"]) = Elems(q["old"]) \cup Elems(q["remove"])
  BY <1>1, <1>5, ListNames, ElemsJoin
<1>7. links.head["in"] = At(q["in"], 1)
  BY <1>1, ListNames, ShapeAt
<1> HIDE DEF p, q
<1>8. links'.head["in"] = links.head["in"]
  BY <1>3, <1>5, <1>7, ListNames, ShapeAt
<1>9. /\ On(links', "in") = On(links, "in") /\ On(links', "freed") = On(links, "freed")
      /\ On(links', "old") = On(links, "old") \cup On(links, "remove")
  BY <1>4, <1>5, <1>6, ListNames
<1>10. Good(links)' /\ links' \in Links
  BY <1>3, GoodIs DEF Good, Lists
<1>11. TypeOK'
  BY <1>2, <1>10, TypeIs DEF IInv, TypeOK, Links
<1>12. Queued' /\ Covered' /\ NoStrayWindow'
  BY <1>2, <1>8, <1>9 DEF IInv, Queued, Covered, NoStrayWindow
<1>13. Fathered'
  BY <1>2, <1>9 DEF IInv, Fathered
<1>14. IInv'
  BY <1>10, <1>11, <1>12, <1>13 DEF IInv
<1> QED
  BY <1>3, <1>14 DEF p, q

\* Only what no record of the calendar queue needs becomes free.
LEMMA PruneStep ==
  ASSUME IInv, Prune
  PROVE  /\ IInv'
         /\ LET q == Lists(links)
            IN  \E i, j \in 1 .. Len(q["old"]) :
                  i <= j /\ Shape(links', MoveSeq(q, "old", "freed", i, j), {})
<1> DEFINE q == Lists(links)
           s == q["old"]
<1>1. /\ Shape(links, q, {}) /\ q \in [List -> Seq(Msg)] /\ Chain(links, "old") = s
      /\ s \in Seq(Msg) /\ "old" \in List /\ "freed" \in List /\ "in" \in List /\ "old" # "freed"
  BY ListNames DEF IInv, Good, Shape, Lists
<1>2. PICK i, j \in 1 .. Len(s) :
        /\ Run(s, i, j)
        /\ links' = InsertTail(Unlink(links, "old", s[i], s[j]), "freed", s[i], s[j])
  BY <1>1 DEF Prune
<1>3. UNCHANGED <<node, marked, ts, most, father, window, bound, gvt>>
  BY DEF Prune
<1> DEFINE run == {s[x] : x \in i .. j}
           p == MoveSeq(q, "old", "freed", i, j)
<1>4. i <= j /\ \A m \in run : most[m] < gvt
  BY <1>2 DEF Run, Collectable
<1>5. Shape(links', p, {})
  BY <1>1, <1>2, <1>4, MoveShape DEF MoveSeq
<1>6. Moved(links, links', "old", "freed", run)
  <2>1. i \in 1 .. Len(q["old"]) /\ j \in 1 .. Len(q["old"])
    BY <1>2
  <2> HIDE DEF q
  <2>2. Moved(links, links', "old", "freed", Part(q["old"], i, j))
    BY <1>1, <1>4, <1>5, <2>1, MoveOn
  <2> QED
    BY <2>2 DEF Part
<1>7. links.head["in"] = At(q["in"], 1)
  BY <1>1, ShapeAt
<1>8. p["in"] = q["in"]
  BY <1>1, ListNames DEF MoveSeq
<1> HIDE DEF p, q, s, run
<1>9. links'.head["in"] = links.head["in"]
  BY <1>1, <1>5, <1>7, <1>8, ShapeAt
<1>10. Good(links)' /\ links' \in Links
  BY <1>5, GoodIs DEF Good, Lists
<1>11. /\ On(links', "in") = On(links, "in") /\ On(links', "remove") = On(links, "remove")
       /\ On(links', "old") = On(links, "old") \ run /\ On(links', "freed") = On(links, "freed") \cup run
  BY <1>6, ListNames DEF Moved
\* Who has a record in the calendar queue, or one it is the father of, is not
\* collectable.
<1>12. ASSUME NEW c \in node PROVE c \notin run /\ (father[c] # NULL => father[c] \notin run)
  <2>1. /\ gvt <= ts[c] /\ ts[c] <= most[c]
        /\ father[c] # NULL => ts[c] <= most[father[c]]
        /\ gvt \in Int /\ ts[c] \in Int /\ most[c] \in Int
        /\ father[c] # NULL => most[father[c]] \in Int
    <3>1. c \in Msg /\ father[c] \in Ptr /\ (father[c] # NULL => father[c] \in Msg)
      BY DEF IInv, TypeOK, Ptr
    <3> QED
      BY <3>1, MaxTsAssumption DEF IInv, Covered, TypeOK
  <2> QED
    BY <1>4, <2>1
<1>13. TypeOK'
  BY <1>3, <1>10, TypeIs DEF IInv, TypeOK, Links
<1>14. Queued' /\ Covered' /\ NoStrayWindow'
  BY <1>3, <1>9, <1>11 DEF IInv, Queued, Covered, NoStrayWindow
<1>15. Fathered'
  BY <1>3, <1>11, <1>12 DEF IInv, Fathered
<1>16. IInv'
  BY <1>10, <1>13, <1>14, <1>15 DEF IInv
<1> QED
  BY <1>4, <1>5, <1>16 DEF p, q, s

\* The lists once the next event is in its place.
PlacedFor(m) ==
  IF m = links.next[bound] THEN links ELSE PlaceAfter(CleanNode(links, m), "in", m, bound)

LEMMA ExecutePlaces ==
  ASSUME IInv, NEW m \in Msg, m = links.next[bound] \/ m \in Loose(links)
  PROVE  LET q == Lists(links)
         IN  \E p : /\ Shape(PlacedFor(m), p, {})
                    /\ \/ p = q
                       \/ Off(q, m) /\ \E i \in 1 .. Len(q["in"]) : p = [q EXCEPT !["in"] = Put(@, i, m)]
                    /\ \A l \in List : On(PlacedFor(m), l) = IF l = "in" THEN On(links, l) \cup {m} ELSE On(links, l)
                    /\ PlacedFor(m).head["in"] = links.head["in"]
<1> DEFINE q == Lists(links)
           s == q["in"]
<1>1. /\ Shape(links, q, {}) /\ q \in [List -> Seq(Msg)] /\ s \in Seq(Msg) /\ 1 \in 1 .. Len(s)
      /\ "in" \in List /\ On(links, "in") = Elems(s) /\ links.head["in"] = s[1]
      /\ \A l \in List : On(links, l) = Elems(q[l])
  BY HeadOn, ListNames, ListsAre DEF IInv, Good, Shape
<1>2. PICK i \in 1 .. Len(s) : s[i] = bound
  BY HeadOn
<1>3. CASE m = links.next[bound]
  <2>1. PlacedFor(m) = links
    BY <1>3 DEF PlacedFor
  <2>2. links.next[bound] = At(s, i + 1)
    BY <1>1, <1>2, ShapeAt
  <2>3. m \in On(links, "in")
    BY <1>1, <1>3, <2>2, NullAssumption DEF At, Elems
  <2> HIDE DEF q
  <2>4. \A l \in List : On(links, l) = IF l = "in" THEN On(links, l) \cup {m} ELSE On(links, l)
    BY <2>3
  <2> QED
    BY <1>1, <2>1, <2>4 DEF q
<1>4. CASE m # links.next[bound]
  <2> DEFINE P == PlaceAfter(CleanNode(links, m), "in", m, bound)
             p == [q EXCEPT !["in"] = Put(@, i, m)]
  <2>1. PlacedFor(m) = P
    BY <1>4 DEF PlacedFor
  <2>2. Off(q, m)
    BY <1>1, <1>4, ListsAre
  <2>3. Shape(P, p, {})
    <3> HIDE DEF q
    <3>1. Shape(PlaceAfter(CleanNode(links, m), "in", m, q["in"][i]), [q EXCEPT !["in"] = Put(@, i, m)], {})
      BY <1>1, <1>2, <2>2, PlaceShape
    <3> QED
      BY <1>2, <3>1
  <2>4. /\ p["in"] = Put(s, i, m)
        /\ \A l \in List : l # "in" => p[l] = q[l]
    BY <1>1
  <2>5. Elems(Put(s, i, m)) = Elems(s) \cup {m}
    BY <1>1, ElemsPut
  <2>6. Put(s, i, m)[1] = s[1] /\ 1 \in 1 .. Len(Put(s, i, m))
    <3>1. i \in 0 .. Len(s) /\ 1 \in 1 .. i /\ 1 \in 1 .. Len(s) + 1
      BY <1>1
    <3> QED
      BY <1>1, <3>1, PutAt
  <2> HIDE DEF P, p, q, s
  <2>7. \A l \in List : On(P, l) = IF l = "in" THEN On(links, l) \cup {m} ELSE On(links, l)
    <3>1. \A l \in List : On(P, l) = Elems(p[l])
      BY <2>3, ListsAre
    <3> QED
      BY <1>1, <2>4, <2>5, <3>1
  <2>8. P.head["in"] = links.head["in"]
    <3>1. P.head["in"] = At(p["in"], 1)
      BY <1>1, <2>3, ShapeAt
    <3> QED
      BY <1>1, <2>4, <2>6, <3>1 DEF At
  <2>9. \E k \in 1 .. Len(q["in"]) : p = [q EXCEPT !["in"] = Put(@, k, m)]
    BY DEF p, s
  <2> QED
    BY <2>1, <2>2, <2>3, <2>7, <2>8, <2>9 DEF q
<1> QED
  BY <1>3, <1>4

LEMMA ExecuteStep ==
  ASSUME IInv, NEW m \in Msg, NEW c \in Ptr, NEW t \in 1 .. MaxTs, Execute(m, c, t)
  PROVE  IInv'
<1> DEFINE q == Lists(links)
           P == PlacedFor(m)
<1>1. /\ m \in node \ marked /\ (m = links.next[bound] \/ m \in Loose(links))
      /\ bound' = m /\ window' = [window EXCEPT ![m] = "own"] /\ gvt' = gvt
  BY DEF Execute
<1>2. IF c = NULL
        THEN /\ links' = P /\ marked' = marked \cup Children(m)
             /\ UNCHANGED <<node, ts, most, father>>
        ELSE /\ c \in Allocatable(P) /\ ts[m] < t
             /\ links' = Allocate(P, c)
             /\ node' = node \cup {c} /\ marked' = (marked \cup Children(m)) \ {c}
             /\ ts' = [ts EXCEPT ![c] = t]
             /\ most' = [most EXCEPT ![c] = t, ![m] = Larger(@, t)]
             /\ father' = [father EXCEPT ![c] = m]
  BY DEF Execute, PlacedFor
<1>3. PICK p : /\ Shape(P, p, {})
               /\ \A l \in List : On(P, l) = IF l = "in" THEN On(links, l) \cup {m} ELSE On(links, l)
               /\ P.head["in"] = links.head["in"]
  BY <1>1, ExecutePlaces
<1>4. /\ links.head["in"] \in On(links, "in") /\ links.head["in"] \notin node
  BY HeadOn DEF IInv, Queued
<1>5. /\ node \subseteq Msg /\ marked \subseteq Msg /\ ts \in [Msg -> 0 .. MaxTs] /\ most \in [Msg -> 0 .. MaxTs]
      /\ father \in [Msg -> Ptr] /\ window \in [Msg -> {"none", "own", "last"}]
      /\ bound \in Msg /\ gvt \in 0 .. MaxTs + 1 /\ MaxTs \in Nat /\ t \in 0 .. MaxTs /\ t \in Int
      /\ Msg \subseteq Ptr /\ Children(m) \subseteq Msg
  BY MaxTsAssumption, TypeIs DEF IInv, Ptr, Children
<1>6. window' \in [Msg -> {"none", "own", "last"}]
  BY <1>1, <1>5
<1>7. CASE c = NULL
  <2>1. /\ links' = P /\ marked' = marked \cup Children(m)
        /\ UNCHANGED <<node, ts, most, father>>
    BY <1>2, <1>7
  <2> HIDE DEF P
  <2>2. Good(links)' /\ links' \in Links
    BY <1>3, <2>1, GoodIs DEF Good, Lists
  <2>3. TypeOK'
    BY <1>1, <1>5, <1>6, <2>1, <2>2 DEF TypeOK, Links
  <2>4. Queued' /\ Covered' /\ Fathered'
    BY <1>1, <1>3, <1>4, <2>1, ListNames DEF IInv, Queued, Covered, Fathered
  <2>5. NoStrayWindow'
    <3> SUFFICES ASSUME NEW x \in Msg, x \notin On(links', "in") PROVE window'[x] # "own"
      BY DEF NoStrayWindow
    <3>1. x # m /\ x \notin On(links, "in")
      BY <1>3, <2>1, ListNames
    <3> QED
      BY <1>1, <1>5, <3>1 DEF IInv, NoStrayWindow
  <2> QED
    BY <2>2, <2>3, <2>4, <2>5 DEF IInv
<1>8. CASE c # NULL
  <2>1. /\ c \in Allocatable(P) /\ ts[m] < t
        /\ links' = Allocate(P, c)
        /\ node' = node \cup {c} /\ marked' = (marked \cup Children(m)) \ {c}
        /\ ts' = [ts EXCEPT ![c] = t]
        /\ most' = [most EXCEPT ![c] = t, ![m] = Larger(@, t)]
        /\ father' = [father EXCEPT ![c] = m]
    BY <1>2, <1>8
  <2>2. c \in Msg
    BY <1>8 DEF Ptr
  <2> HIDE DEF P
  <2>3. Shape(links', Allocated(p), {})
    BY <1>3, <2>1, AllocateShape
  <2>4. /\ \A l \in List : On(links', l) = On(P, l) \ {c}
        /\ \A l \in List : l # "freed" => c \notin On(P, l)
        /\ c \in node => c \in On(P, "freed")
        /\ links'.head["in"] = P.head["in"]
    BY <1>3, <2>1, AllocateOn
  <2>5. c \notin node
    BY <1>3, <2>4, ListNames DEF IInv, Fathered
  <2>6. /\ On(links', "in") = On(links, "in") \cup {m} /\ On(links', "remove") = On(links, "remove")
        /\ On(links', "old") = On(links, "old") /\ On(links', "freed") = On(links, "freed") \ {c}
        /\ c \notin On(links, "in") \cup {m} /\ c \notin On(links, "remove") /\ c \notin On(links, "old")
        /\ c # m
    <3>1. "in" \in List /\ "remove" \in List /\ "old" \in List /\ "freed" \in List
      BY ListNames
    <3>2. /\ On(P, "in") = On(links, "in") \cup {m} /\ On(P, "remove") = On(links, "remove")
          /\ On(P, "old") = On(links, "old") /\ On(P, "freed") = On(links, "freed")
      BY <1>3, <3>1
    <3>3. c \notin On(P, "in") /\ c \notin On(P, "remove") /\ c \notin On(P, "old")
      BY <2>4, <3>1
    <3>4. /\ On(links', "in") = On(P, "in") \ {c} /\ On(links', "remove") = On(P, "remove") \ {c}
          /\ On(links', "old") = On(P, "old") \ {c} /\ On(links', "freed") = On(P, "freed") \ {c}
      BY <2>4, <3>1
    <3> QED
      BY <3>2, <3>3, <3>4
  <2>7. Good(links)' /\ links' \in Links
    BY <2>3, GoodIs DEF Good, Lists
  \* The record of the event sent, and those of other events.
  <2>8. /\ ts'[c] = t /\ most'[c] = t /\ father'[c] = m
        /\ most[m] <= most'[m] /\ t <= most'[m] /\ most'[m] \in 0 .. MaxTs
        /\ \A x \in Msg : x # c => ts'[x] = ts[x] /\ father'[x] = father[x] /\ most[x] <= most'[x]
    <3>1. most[m] \in Int /\ most[m] \in 0 .. MaxTs /\ \A x \in Msg : most[x] \in Int
      BY <1>5
    <3>2. /\ most[m] <= Larger(most[m], t) /\ t <= Larger(most[m], t) /\ Larger(most[m], t) \in 0 .. MaxTs
      BY <1>5, <3>1 DEF Larger
    <3>3. /\ most'[m] = Larger(most[m], t) /\ most'[c] = t
          /\ \A x \in Msg : x # c /\ x # m => most'[x] = most[x]
      BY <1>5, <2>1, <2>2, <2>6
    <3>4. \A x \in Msg : x # c => most[x] <= most'[x]
      BY <3>1, <3>2, <3>3
    <3> QED
      BY <1>5, <2>1, <2>2, <3>2, <3>3, <3>4
  <2>9. TypeOK'
    <3>1. ts' \in [Msg -> 0 .. MaxTs] /\ father' \in [Msg -> Ptr]
      BY <1>5, <2>1
    <3>2. most' \in [Msg -> 0 .. MaxTs]
      <4>1. Larger(most[m], t) \in 0 .. MaxTs
        BY <1>5 DEF Larger
      <4> QED
        BY <1>5, <2>1, <2>2, <2>6, <4>1
    <3> QED
      BY <1>1, <1>5, <1>6, <2>1, <2>2, <2>7, <3>1, <3>2 DEF TypeOK, Links
  <2>10. Queued'
    BY <1>1, <1>3, <1>4, <2>1, <2>4, <2>6 DEF Queued
  <2>11. Covered'
    <3> SUFFICES ASSUME NEW x \in node'
                 PROVE  /\ gvt' <= ts'[x] /\ ts'[x] <= most'[x]
                        /\ father'[x] # NULL => ts'[x] <= most'[father'[x]]
      BY DEF Covered
    <3>1. CASE x = c
      <4>1. gvt <= ts[m] /\ ts[m] \in Int /\ gvt \in Int
        BY <1>1, <1>5 DEF IInv, Covered
      <4>2. gvt <= t
        BY <1>5, <2>1, <4>1
      <4> QED
        BY <1>1, <1>5, <2>8, <3>1, <4>2
    <3>2. CASE x # c
      <4>1. x \in node /\ x \in Msg
        BY <1>5, <2>1, <3>2
      <4>2. /\ gvt <= ts[x] /\ ts[x] <= most[x] /\ ts'[x] = ts[x] /\ father'[x] = father[x]
            /\ most[x] <= most'[x]
            /\ father[x] # NULL => ts[x] <= most[father[x]]
        BY <2>8, <3>2, <4>1 DEF IInv, Covered
      <4>3. ts[x] \in Int /\ most[x] \in Int /\ most'[x] \in Int
        BY <1>5, <2>9, <4>1 DEF TypeOK
      <4>4. ASSUME father[x] # NULL PROVE ts[x] <= most'[father[x]]
        <5>1. father[x] \in Msg /\ father[x] # c
          BY <1>5, <2>6, <4>1, <4>4 DEF IInv, Fathered, Ptr
        <5>2. most[father[x]] <= most'[father[x]]
          BY <2>8, <5>1
        <5>3. most[father[x]] \in Int /\ most'[father[x]] \in Int
          BY <1>5, <2>9, <5>1 DEF TypeOK
        <5> QED
          BY <4>2, <4>3, <4>4, <5>2, <5>3
      <4> QED
        BY <1>1, <4>2, <4>3, <4>4
    <3> QED
      BY <3>1, <3>2
  <2>12. Fathered'
    <3> SUFFICES ASSUME NEW x \in node'
                 PROVE  /\ x \notin On(links', "freed")
                        /\ father'[x] # NULL =>
                             father'[x] \in On(links', "in") \cup On(links', "remove") \cup On(links', "old")
      BY DEF Fathered
    <3>1. CASE x = c
      BY <2>6, <2>8, <3>1
    <3>2. CASE x # c
      <4>1. x \in node /\ father'[x] = father[x]
        BY <1>5, <2>1, <2>8, <3>2
      <4>2. /\ x \notin On(links, "freed")
            /\ father[x] # NULL => father[x] \in On(links, "in") \cup On(links, "remove") \cup On(links, "old")
        BY <4>1 DEF IInv, Fathered
      <4> QED
        BY <2>6, <4>1, <4>2
    <3> QED
      BY <3>1, <3>2
  <2>13. NoStrayWindow'
    <3> SUFFICES ASSUME NEW x \in Msg, x \notin On(links', "in") PROVE window'[x] # "own"
      BY DEF NoStrayWindow
    <3>1. x # m /\ x \notin On(links, "in")
      BY <2>6
    <3> QED
      BY <1>1, <1>5, <3>1 DEF IInv, NoStrayWindow
  <2> QED
    BY <2>7, <2>9, <2>10, <2>11, <2>12, <2>13 DEF IInv
<1> QED
  BY <1>7, <1>8

LEMMA InitStep ==
  ASSUME Init
  PROVE  /\ IInv
         /\ \E m \in Msg : Shape(links, [l \in List |-> IF l = "in" THEN <<m>> ELSE <<>>], {})
<1> DEFINE first == CHOOSE m \in Msg : TRUE
           E == [next |-> [m \in Msg |-> NULL], prev |-> [m \in Msg |-> NULL],
                 head |-> [l \in List |-> NULL], tail |-> [l \in List |-> NULL]]
           o == [l \in List |-> <<>>]
           t == <<first>>
           q == [l \in List |-> IF l = "in" THEN <<first>> ELSE <<>>]
<1>1. first \in Msg
  BY MsgAssumption, FS_EmptySet
<1>2. /\ links = InsertTail(E, "in", first, first)
      /\ bound = first /\ gvt = 0 /\ node = {} /\ marked = {}
      /\ ts = [m \in Msg |-> 0] /\ most = ts /\ father = [m \in Msg |-> NULL]
      /\ window = [m \in Msg |-> IF m = first THEN "own" ELSE "none"]
  BY DEF Init
<1>3. t \in Seq(Msg) /\ Len(t) = 1 /\ t[1] = first
  BY <1>1
<1> HIDE DEF first
<1>4. Shape(E, o, {})
  <2>1. E \in Links
    BY DEF Links, Ptr
  <2>2. o \in [List -> Seq(Msg)] /\ \A l \in List : Len(o[l]) = 0
    OBVIOUS
  <2>3. \A l \in List : E.head[l] = NULL /\ E.tail[l] = NULL
    OBVIOUS
  <2>4. \A m \in Msg : E.next[m] = NULL /\ E.prev[m] = NULL
    OBVIOUS
  <2> HIDE DEF E, o
  <2>5. \A l \in List : IsList(E, l, o[l])
    BY <2>2, <2>3 DEF IsList, At
  <2>6. OnePlace(o)
    BY <2>2 DEF OnePlace
  <2> QED
    BY <2>1, <2>2, <2>4, <2>5, <2>6 DEF Shape
<1>5. [o EXCEPT !["in"] = @ \o t] = q
  <2>1. o["in"] \o t = t
    <3>1. <<>> \in Seq(Msg) /\ Len(<<>>) = 0 /\ o["in"] = <<>>
      BY ListNames
    <3> HIDE DEF t, o
    <3>2. <<>> \o t \in Seq(Msg) /\ Len(<<>> \o t) = 1 /\ (<<>> \o t)[1] = t[1]
      BY <1>3, <3>1
    <3> QED
      BY <1>3, <3>1, <3>2
  <2>2. \A l \in List : l # "in" => o[l] = <<>>
    OBVIOUS
  <2>3. o = [l \in List |-> o[l]]
    OBVIOUS
  <2> HIDE DEF o
  <2> QED
    BY <2>1, <2>2, <2>3
<1>6. Shape(links, q, {})
  <2>1. Linking(E, o, t)
    <3>1. \A i \in 1 .. Len(t) : t[i] = first /\ i = 1
      BY <1>3
    <3>2. 1 .. Len(t) - 1 = {}
      BY <1>3
    <3>3. Off(o, first)
      BY DEF Off
    <3> HIDE DEF E, o, t
    <3> QED
      BY <1>3, <3>1, <3>2, <3>3 DEF Linking
  <2> HIDE DEF E, o, t, q
  <2>2. Shape(InsertTail(E, "in", t[1], t[Len(t)]), [o EXCEPT !["in"] = @ \o t], {})
    <3>1. \A x \in {} \ {} : \E i \in 1 .. Len(t) : t[i] = x
      OBVIOUS
    <3> QED
      BY <1>4, <2>1, <3>1, ListNames, InsertTailShape
  <2> QED
    BY <1>2, <1>3, <1>5, <2>2
<1>7. Good(links) /\ links \in Links /\ On(links, "in") = {first}
  <2>1. q["in"] = t /\ Elems(t) = {first}
    BY <1>1, ListNames, ElemsOne
  <2> HIDE DEF q, t
  <2>2. On(links, "in") = Elems(q["in"])
    BY <1>6, ListNames, ListsAre
  <2> QED
    BY <1>6, <2>1, <2>2, GoodIs
<1> HIDE DEF E, o, t, q
<1>8. TypeOK
  <2>1. 0 \in 0 .. MaxTs /\ 0 \in 0 .. MaxTs + 1 /\ NULL \in Ptr
    BY MaxTsAssumption DEF Ptr
  <2> QED
    BY <1>1, <1>2, <1>7, <2>1, TypeIs
<1>9. Queued /\ Covered /\ Fathered
  BY <1>2, <1>7 DEF Queued, Covered, Fathered
<1>10. NoStrayWindow
  BY <1>2, <1>7 DEF NoStrayWindow
<1> QED
  BY <1>1, <1>6, <1>7, <1>8, <1>9, <1>10 DEF IInv, q

LEMMA NextStep == ASSUME IInv, Next PROVE IInv'
<1>1. ASSUME NEW c \in Msg, NEW t \in 1 .. MaxTs, Send(c, t) PROVE IInv'
  BY <1>1, SendStep
<1>2. ASSUME NEW c \in Msg, Deallocate(c) PROVE IInv'
  BY <1>2, DeallocateStep
<1>3. ASSUME NEW m \in Msg, Invalidate(m) \/ Commit(m) \/ Rollback(m) PROVE IInv'
  BY <1>3, SilentStep
<1>4. ASSUME AdvanceGvt PROVE IInv'
  <2>1. bound \in Msg
    BY DEF IInv, TypeOK
  <2> QED
    BY <1>4, <2>1, SilentStep
<1>5. ASSUME NEW m \in Msg, RemoveNode(m) PROVE IInv'
  BY <1>5, RemoveNodeStep
<1>6. ASSUME NEW m \in Msg, CleanCheckpoint(m) PROVE IInv'
  BY <1>6, CleanCheckpointStep
<1>7. ASSUME NEW m \in Msg, NEW c \in Ptr, NEW t \in 1 .. MaxTs, Execute(m, c, t) PROVE IInv'
  BY <1>7, ExecuteStep
<1>8. ASSUME FetchDrop \/ Age \/ Prune PROVE IInv'
  BY <1>8, FetchDropStep, AgeStep, PruneStep
<1> QED
  BY <1>1, <1>2, <1>3, <1>4, <1>5, <1>6, <1>7, <1>8 DEF Next

LEMMA StutterStep == ASSUME IInv, UNCHANGED vars PROVE IInv'
<1>1. /\ links' = links /\ node' = node /\ marked' = marked /\ ts' = ts /\ most' = most
      /\ father' = father /\ window' = window /\ bound' = bound /\ gvt' = gvt
  BY DEF vars
<1> QED
  BY <1>1 DEF IInv, TypeOK, Good, Lists, Queued, Covered, Fathered, NoStrayWindow

\* The inductive invariant: the pointers of every list run through one sequence
\* of records both ways, no record is in two places, the bound is queued behind
\* a committed head, max_outgoing_ts covers what was sent, and a father in use
\* is on a list that is not the free one.
THEOREM Invariance == Spec => []IInv
<1>1. Init => IInv
  BY InitStep
<1>2. IInv /\ [Next]_vars => IInv'
  BY NextStep, StutterStep
<1> QED
  BY <1>1, <1>2, PTL DEF Spec

\* The links are pointers to records, the timestamps are bounded, and a window is
\* empty, written in this life of the record or left by clean_checkpoint.
THEOREM TypeCorrect == Spec => []TypeOK
<1>1. IInv => TypeOK
  BY DEF IInv
<1> QED
  BY <1>1, Invariance, PTL

LEMMA GoodLinked == ASSUME Good(links) PROVE Linked
<1> DEFINE q == Lists(links)
<1>1. Shape(links, q, {})
  BY DEF Good
<1>2. \A l \in List : Chain(links, l) = q[l]
  BY DEF Lists
<1> HIDE DEF q
<1>3. ASSUME NEW l \in List
      PROVE  IF q[l] = <<>> THEN links.tail[l] = NULL
             ELSE /\ links.tail[l] = q[l][Len(q[l])] /\ links.prev[q[l][1]] = NULL
                  /\ links.next[q[l][Len(q[l])]] = NULL
                  /\ \A i \in 1 .. Len(q[l]) - 1 : links.prev[q[l][i + 1]] = q[l][i]
  <2> DEFINE s == q[l]
             n == Len(s)
  <2>1. /\ s \in Seq(Msg) /\ n \in Nat /\ links.tail[l] = At(s, n)
        /\ \A i \in 1 .. n : links.next[s[i]] = At(s, i + 1) /\ links.prev[s[i]] = At(s, i - 1)
    BY <1>1, ShapeAt
  <2>2. CASE s = <<>>
    BY <2>1, <2>2 DEF At
  <2>3. CASE s # <<>>
    <3>1. n = Len(s) /\ n \in 1 .. n /\ 1 \in 1 .. n /\ n + 1 \notin 1 .. n /\ 1 - 1 \notin 1 .. n
      BY <2>1, <2>3
    <3>2. ASSUME NEW i \in 1 .. n - 1 PROVE i + 1 \in 1 .. n /\ i + 1 - 1 = i /\ i \in 1 .. n
      BY <2>1
    <3> HIDE DEF s, n
    <3>3. links.tail[l] = s[n] /\ links.prev[s[1]] = NULL /\ links.next[s[n]] = NULL
      BY <2>1, <3>1 DEF At
    <3>4. \A i \in 1 .. n - 1 : links.prev[s[i + 1]] = s[i]
      BY <2>1, <3>1, <3>2 DEF At
    <3> QED
      BY <2>3, <3>3, <3>4 DEF s, n
  <2> QED
    BY <2>2, <2>3
<1>4. \A k, l \in List : k # l => On(links, k) \cap On(links, l) = {}
  BY <1>1, OnOne
<1>5. \A l \in List :
        LET r == Chain(links, l)
        IN  IF r = <<>> THEN links.tail[l] = NULL
            ELSE /\ links.tail[l] = r[Len(r)] /\ links.prev[r[1]] = NULL
                 /\ links.next[r[Len(r)]] = NULL
                 /\ \A i \in 1 .. Len(r) - 1 : links.prev[r[i + 1]] = r[i]
  <2> SUFFICES ASSUME NEW l \in List
               PROVE  LET r == Chain(links, l)
                      IN  IF r = <<>> THEN links.tail[l] = NULL
                          ELSE /\ links.tail[l] = r[Len(r)] /\ links.prev[r[1]] = NULL
                               /\ links.next[r[Len(r)]] = NULL
                               /\ \A i \in 1 .. Len(r) - 1 : links.prev[r[i + 1]] = r[i]
    OBVIOUS
  <2>1. Chain(links, l) = q[l]
    BY <1>2
  <2> QED
    BY <1>3, <2>1
<1> QED
  BY <1>4, <1>5 DEF Linked

\* After every piece of pointer surgery the four lists are lists, from head to
\* tail and back, and share no record.
THEOREM ListsLinked == Spec => []Linked
<1>1. IInv => Linked
  BY GoodLinked DEF IInv
<1> QED
  BY <1>1, Invariance, PTL

\* No record is free while the calendar queue holds its node or that of an event
\* it is the father of.
THEOREM FathersKept == Spec => []FatherKept
<1>1. IInv => FatherKept
  <2> SUFFICES ASSUME IInv, NEW c \in node
               PROVE  c \notin On(links, "freed") /\ father[c] \notin On(links, "freed")
    BY DEF FatherKept
  <2>1. /\ c \notin On(links, "freed")
        /\ father[c] # NULL => father[c] \in On(links, "in") \cup On(links, "remove") \cup On(links, "old")
    BY DEF IInv, Fathered
  <2>2. /\ On(links, "freed") \subseteq Msg
        /\ \A l \in List : l # "freed" => On(links, l) \cap On(links, "freed") = {}
    BY ListNames, OnOne DEF IInv, Good
  <2> QED
    BY <2>1, <2>2, ListNames, NullAssumption
<1> QED
  BY <1>1, Invariance, PTL

\* Off the queue, no record holds a window written by the life it left: the drops
\* of fetch_internal and reversibleio_collect took it.
THEOREM WindowsTaken == Spec => []NoStrayWindow
<1>1. IInv => NoStrayWindow
  BY DEF IInv
<1> QED
  BY <1>1, Invariance, PTL
-----------------------------------------------------------------------------
(* The refinement: the sequences of Shape are those of AbstractPool.       *)

\* What a list is, when its sequence is known before and after a step.
LEMMA PoolIs ==
  ASSUME NEW q, Shape(links, q, {}), NEW p, Shape(links', p, {})
  PROVE  /\ Chain(links, "in") = q["in"] /\ Chain(links, "remove") = q["remove"]
         /\ Chain(links, "old") = q["old"] /\ Chain(links, "freed") = q["freed"]
         /\ Chain(links', "in") = p["in"] /\ Chain(links', "remove") = p["remove"]
         /\ Chain(links', "old") = p["old"] /\ Chain(links', "freed") = p["freed"]
         /\ \A m \in Msg : Off(q, m) => m \in Pool!Free
<1>1. \A l \in List : Chain(links, l) = q[l] /\ Chain(links', l) = p[l]
  BY ListsAre DEF Lists
<1>2. \A m \in Msg : Off(q, m) => m \in Pool!Free
  <2> SUFFICES ASSUME NEW m \in Msg, Off(q, m) PROVE m \in Pool!Free
    OBVIOUS
  <2>1. \A l \in List : q[l] \in Seq(Msg)
    BY DEF Shape
  <2>2. \A l \in List : \A i \in DOMAIN q[l] : q[l][i] # m
    BY <2>1 DEF Off
  <2> QED
    BY <1>1, <2>2, ListNames DEF Pool!Free, Pool!Taken
<1> QED
  BY <1>1, <1>2, ListNames

\* The first record and the others.
LEMMA CutFirst ==
  ASSUME NEW s \in Seq(Msg), s # <<>>
  PROVE  Cut(s, 1, 1) = Tail(s) /\ Head(s) = s[1]
<1>1. Len(s) \in Nat /\ 1 \in 1 .. Len(s) /\ 1 <= 1
  OBVIOUS
<1>2. /\ Cut(s, 1, 1) \in Seq(Msg) /\ Len(Cut(s, 1, 1)) = Len(s) - (1 - 1 + 1)
      /\ \A k \in 1 .. Len(s) - (1 - 1 + 1) : Cut(s, 1, 1)[k] = s[k + (1 - 1 + 1)]
  BY <1>1, CutAt
<1> DEFINE c == Cut(s, 1, 1)
           t == Tail(s)
<1>3. t \in Seq(Msg) /\ Len(t) = Len(s) - 1 /\ \A k \in 1 .. Len(s) - 1 : t[k] = s[k + 1]
  BY <1>1
<1>4. c \in Seq(Msg) /\ Len(c) = Len(s) - 1 /\ \A k \in 1 .. Len(s) - 1 : c[k] = s[k + 1]
  BY <1>1, <1>2
<1> HIDE DEF c, t
<1>5. c = t
  BY <1>1, <1>3, <1>4
<1> QED
  BY <1>5 DEF c, t

LEMMA OneMore == ASSUME NEW s \in Seq(Msg), NEW m \in Msg PROVE Append(s, m) = s \o <<m>>
OBVIOUS

\* What allocating a record does to the free ones.
LEMMA PoolAllocates ==
  ASSUME NEW q, q \in [List -> Seq(Msg)]
  PROVE  /\ \A l \in List : l # "freed" => Allocated(q)[l] = q[l]
         /\ q["freed"] = <<>> => Allocated(q) = q
         /\ q["freed"] # <<>> => Allocated(q)["freed"] = Tail(q["freed"])
<1>1. q["freed"] # <<>> => Cut(q["freed"], 1, 1) = Tail(q["freed"])
  BY ListNames, CutFirst
<1> QED
  BY <1>1, ListNames DEF Allocated

LEMMA SendPool ==
  ASSUME IInv, NEW c \in Msg, NEW t \in 1 .. MaxTs, Send(c, t)
  PROVE  Pool!Reuse \/ UNCHANGED Pool!vars
<1> DEFINE q == Lists(links)
<1>1. Shape(links, q, {}) /\ q \in [List -> Seq(Msg)]
  BY DEF IInv, Good, Shape
<1> HIDE DEF q
<1>2. Shape(links', Allocated(q), {})
  BY <1>1, AllocateShape DEF Send
<1>3. CASE q["freed"] = <<>>
  <2>1. UNCHANGED Pool!vars
    BY <1>1, <1>2, <1>3, PoolAllocates, PoolIs DEF Pool!vars
  <2> QED
    BY <2>1
<1>4. CASE q["freed"] # <<>>
  <2> DEFINE p == Allocated(q)
  <2>1. p["freed"] = Tail(q["freed"]) /\ \A l \in List : l # "freed" => p[l] = q[l]
    BY <1>1, <1>4, PoolAllocates
  <2>2. Shape(links', p, {})
    BY <1>2
  <2> HIDE DEF p
  <2>3. Pool!Reuse
    BY <1>1, <1>4, <2>1, <2>2, ListNames, PoolIs DEF Pool!Reuse
  <2> QED
    BY <2>3
<1> QED
  BY <1>3, <1>4

LEMMA DeallocatePool ==
  ASSUME IInv, NEW c \in Msg, Deallocate(c)
  PROVE  Pool!Rotate \/ Pool!Return
<1> DEFINE q == Lists(links)
           a == Allocated(q)
           p == [a EXCEPT !["freed"] = @ \o <<c>>]
<1>1. Shape(links, q, {}) /\ q \in [List -> Seq(Msg)] /\ c \in Allocatable(links)
  BY DEF IInv, Good, Shape, Deallocate
<1> HIDE DEF q
<1>2. /\ Shape(Allocate(links, c), a, {}) /\ Off(a, c) /\ a \in [List -> Seq(Msg)]
      /\ IF q["freed"] = <<>> THEN Off(q, c) ELSE c = q["freed"][1]
  BY <1>1, AllocateShape DEF Shape
<1>3. Shape(links', p, {})
  <2> HIDE DEF a
  <2>1. {} \subseteq {c}
    OBVIOUS
  <2>2. links' = InsertTail(CleanNode(Allocate(links, c), c), "freed", c, c)
    BY DEF Deallocate
  <2>3. Shape(Allocate(links, c), a, {}) /\ Off(a, c)
    BY <1>2
  <2> QED
    BY <2>1, <2>2, <2>3, ListNames, HookShape
<1>4. p["freed"] = Append(a["freed"], c) /\ \A l \in List : l # "freed" => p[l] = a[l]
  <2> HIDE DEF a
  <2>1. Append(a["freed"], c) = a["freed"] \o <<c>>
    BY <1>2, ListNames, OneMore
  <2> QED
    BY <1>2, <2>1, ListNames
<1>5. \A l \in List : l # "freed" => p[l] = q[l]
  BY <1>1, <1>4, PoolAllocates
<1> HIDE DEF a, p
<1>6. CASE q["freed"] = <<>>
  <2>1. p["freed"] = Append(q["freed"], c)
    BY <1>1, <1>4, <1>6, PoolAllocates DEF a
  <2>2. Off(q, c)
    BY <1>2, <1>6
  <2>3. Pool!Return
    BY <1>1, <1>3, <1>5, <2>1, <2>2, ListNames, PoolIs DEF Pool!Return
  <2> QED
    BY <2>3
<1>7. CASE q["freed"] # <<>>
  <2>1. p["freed"] = Append(Tail(q["freed"]), Head(q["freed"]))
    <3>1. c = Head(q["freed"])
      BY <1>1, <1>2, <1>7, ListNames, CutFirst
    <3>2. a["freed"] = Tail(q["freed"])
      BY <1>1, <1>7, PoolAllocates DEF a
    <3> QED
      BY <1>4, <3>1, <3>2
  <2>2. Pool!Rotate
    BY <1>1, <1>3, <1>5, <1>7, <2>1, ListNames, PoolIs DEF Pool!Rotate
  <2> QED
    BY <2>2
<1> QED
  BY <1>6, <1>7

LEMMA RemoveNodePool ==
  ASSUME IInv, NEW m \in Msg, RemoveNode(m)
  PROVE  Pool!Return \/ UNCHANGED Pool!vars
<1> DEFINE q == Lists(links)
           p == [q EXCEPT !["remove"] = @ \o <<m>>]
<1>1. Shape(links, q, {}) /\ q \in [List -> Seq(Msg)]
  BY DEF IInv, Good, Shape
<1>2. CASE m \notin Loose(links)
  <2>1. links' = links
    BY <1>2 DEF RemoveNode
  <2> QED
    BY <2>1 DEF Pool!vars
<1>3. CASE m \in Loose(links)
  <2>1. Off(q, m)
    BY <1>1, <1>3, ListsAre
  <2> HIDE DEF q
  <2>2. Shape(links', p, {})
    <3>1. {} \subseteq {m}
      OBVIOUS
    <3>2. links' = InsertTail(CleanNode(links, m), "remove", m, m)
      BY <1>3 DEF RemoveNode
    <3>3. Shape(links, q, {})
      BY <1>1
    <3> QED
      BY <2>1, <3>1, <3>2, <3>3, ListNames, HookShape
  <2>3. p["remove"] = Append(q["remove"], m) /\ \A l \in List : l # "remove" => p[l] = q[l]
    <3>1. Append(q["remove"], m) = q["remove"] \o <<m>>
      BY <1>1, ListNames, OneMore
    <3> QED
      BY <1>1, <3>1, ListNames
  <2> HIDE DEF p
  <2>4. Pool!Return
    BY <1>1, <2>1, <2>2, <2>3, ListNames, PoolIs DEF Pool!Return
  <2> QED
    BY <2>4
<1> QED
  BY <1>2, <1>3

\* p is q, whose run i .. j of list k went to the tail of l.
RunMoved(q, p, k, l, i, j) ==
  /\ p[k] = Pool!Without(q[k], i, j) /\ p[l] = q[l] \o Pool!Between(q[k], i, j)
  /\ \A h \in List : h # k /\ h # l => p[h] = q[h]

LEMMA MovedSeqs ==
  ASSUME NEW L, NEW q, Shape(L, q, {}), NEW k \in List, NEW l \in List, k # l, NEW i, NEW j
  PROVE  RunMoved(q, MoveSeq(q, k, l, i, j), k, l, i, j)
<1>1. q \in [List -> Seq(Msg)]
  BY DEF Shape
<1> QED
  BY <1>1 DEF RunMoved, MoveSeq, Cut, Pool!Without, Pool!Between

\* The two steps by which records leave the queue.
LEMMA LeavePool ==
  ASSUME NEW q, Shape(links, q, {}), NEW i \in 1 .. Len(q["in"]), NEW j \in 1 .. Len(q["in"]),
         i = j \/ i = 1, Shape(links', MoveSeq(q, "in", "remove", i, j), {})
  PROVE  Pool!Leave
<1> DEFINE p == MoveSeq(q, "in", "remove", i, j)
<1>1. q \in [List -> Seq(Msg)] /\ i \in DOMAIN q["in"] /\ j \in DOMAIN q["in"]
  BY ListNames DEF Shape
<1>2. /\ p["in"] = Pool!Without(q["in"], i, j) /\ p["remove"] = q["remove"] \o Pool!Between(q["in"], i, j)
      /\ p["old"] = q["old"] /\ p["freed"] = q["freed"]
  <2>1. /\ "in" \in List /\ "remove" \in List /\ "old" \in List /\ "freed" \in List
        /\ "in" # "remove" /\ "old" # "in" /\ "old" # "remove" /\ "freed" # "in" /\ "freed" # "remove"
    BY ListNames
  <2>2. RunMoved(q, p, "in", "remove", i, j)
    BY <2>1, MovedSeqs
  <2> HIDE DEF p
  <2> QED
    BY <2>1, <2>2 DEF RunMoved
<1>3. Shape(links', p, {})
  OBVIOUS
<1> HIDE DEF p
<1>4. /\ Chain(links, "in") = q["in"] /\ Chain(links, "remove") = q["remove"]
      /\ Chain(links, "old") = q["old"] /\ Chain(links, "freed") = q["freed"]
      /\ Chain(links', "in") = p["in"] /\ Chain(links', "remove") = p["remove"]
      /\ Chain(links', "old") = p["old"] /\ Chain(links', "freed") = p["freed"]
  BY <1>3, PoolIs
<1> QED
  BY <1>1, <1>2, <1>4 DEF Pool!Leave

LEMMA FetchDropPool == ASSUME IInv, FetchDrop PROVE Pool!Leave
<1> DEFINE q == Lists(links)
<1>1. Shape(links, q, {})
  BY DEF IInv, Good
<1>2. PICK i \in 1 .. Len(q["in"]) :
        Shape(links', [q EXCEPT !["in"] = Cut(@, i, i), !["remove"] = @ \o SubSeq(q["in"], i, i)], {})
  BY FetchDropMoves
<1>3. Shape(links', MoveSeq(q, "in", "remove", i, i), {})
  BY <1>2 DEF MoveSeq
<1> HIDE DEF q
<1> QED
  BY <1>1, <1>2, <1>3, LeavePool

LEMMA CleanCheckpointPool == ASSUME IInv, NEW first \in Msg, CleanCheckpoint(first) PROVE Pool!Leave
<1> DEFINE q == Lists(links)
<1>1. Shape(links, q, {})
  BY DEF IInv, Good
<1>2. PICK k \in 1 .. Len(q["in"]) :
        k - 1 \in 1 .. Len(q["in"]) /\ Shape(links', MoveSeq(q, "in", "remove", 1, k - 1), {})
  BY CleanCheckpointMoves
<1>3. 1 \in 1 .. Len(q["in"])
  BY HeadOn
<1> HIDE DEF q
<1> QED
  BY <1>1, <1>2, <1>3, LeavePool

LEMMA AgePool == ASSUME IInv, Age PROVE Pool!Age
<1> DEFINE q == Lists(links)
           p == [q EXCEPT !["remove"] = <<>>, !["old"] = @ \o q["remove"]]
<1>1. Shape(links, q, {}) /\ q \in [List -> Seq(Msg)]
  BY DEF IInv, Good, Shape
<1>2. Shape(links', p, {})
  BY AgeStep
<1>3. /\ p["remove"] = <<>> /\ p["old"] = q["old"] \o q["remove"]
      /\ p["in"] = q["in"] /\ p["freed"] = q["freed"]
  BY <1>1, ListNames
<1> HIDE DEF q, p
<1>4. /\ Chain(links, "in") = q["in"] /\ Chain(links, "remove") = q["remove"]
      /\ Chain(links, "old") = q["old"] /\ Chain(links, "freed") = q["freed"]
      /\ Chain(links', "in") = p["in"] /\ Chain(links', "remove") = p["remove"]
      /\ Chain(links', "old") = p["old"] /\ Chain(links', "freed") = p["freed"]
  BY <1>1, <1>2, PoolIs
<1> QED
  BY <1>3, <1>4 DEF Pool!Age

LEMMA PrunePool == ASSUME IInv, Prune PROVE Pool!Prune
<1> DEFINE q == Lists(links)
<1>1. Shape(links, q, {}) /\ q \in [List -> Seq(Msg)]
  BY DEF IInv, Good, Shape
<1>2. PICK i, j \in 1 .. Len(q["old"]) :
        i <= j /\ Shape(links', MoveSeq(q, "old", "freed", i, j), {})
  BY PruneStep
<1> DEFINE p == MoveSeq(q, "old", "freed", i, j)
<1> HIDE DEF q
<1>3. /\ p["old"] = Pool!Without(q["old"], i, j) /\ p["freed"] = q["freed"] \o Pool!Between(q["old"], i, j)
      /\ p["in"] = q["in"] /\ p["remove"] = q["remove"]
  <2>1. /\ "in" \in List /\ "remove" \in List /\ "old" \in List /\ "freed" \in List
        /\ "old" # "freed" /\ "in" # "old" /\ "in" # "freed" /\ "remove" # "old" /\ "remove" # "freed"
    BY ListNames
  <2>2. Shape(links, q, {})
    BY <1>1
  <2>3. RunMoved(q, p, "old", "freed", i, j)
    BY <2>1, <2>2, MovedSeqs
  <2> HIDE DEF p
  <2> QED
    BY <2>1, <2>3 DEF RunMoved
<1>4. i \in DOMAIN q["old"] /\ j \in DOMAIN q["old"] /\ Shape(links', p, {})
  BY <1>1, <1>2, ListNames
<1> HIDE DEF p
<1>5. /\ Chain(links, "in") = q["in"] /\ Chain(links, "remove") = q["remove"]
      /\ Chain(links, "old") = q["old"] /\ Chain(links, "freed") = q["freed"]
      /\ Chain(links', "in") = p["in"] /\ Chain(links', "remove") = p["remove"]
      /\ Chain(links', "old") = p["old"] /\ Chain(links', "freed") = p["freed"]
  BY <1>1, <1>4, PoolIs
<1> QED
  BY <1>2, <1>3, <1>4, <1>5 DEF Pool!Prune

\* The event executed enters the queue or is in it; the event it sends takes the
\* first free record, a new one, or there is none.
LEMMA ExecutePool ==
  ASSUME IInv, NEW m \in Msg, NEW c \in Ptr, NEW t \in 1 .. MaxTs, Execute(m, c, t)
  PROVE  Pool!Enter \/ Pool!Reuse \/ Pool!ReuseEnter \/ UNCHANGED Pool!vars
<1> DEFINE q == Lists(links)
<1>1. Shape(links, q, {}) /\ q \in [List -> Seq(Msg)] /\ Len(q["in"]) \in Nat
  BY HeadOn DEF IInv, Good, Shape
<1>2. m = links.next[bound] \/ m \in Loose(links)
  BY DEF Execute
<1>3. IF c = NULL THEN links' = PlacedFor(m)
                  ELSE c \in Allocatable(PlacedFor(m)) /\ links' = Allocate(PlacedFor(m), c)
  BY DEF Execute, PlacedFor
<1>4. PICK p : /\ Shape(PlacedFor(m), p, {})
               /\ p = q \/ (Off(q, m) /\ \E i \in 1 .. Len(q["in"]) : p = [q EXCEPT !["in"] = Put(@, i, m)])
  BY <1>2, ExecutePlaces
<1>5. p \in [List -> Seq(Msg)]
  BY <1>4 DEF Shape
<1> HIDE DEF q
\* The queue after the step, and the other lists but the free one.
<1>6. /\ p["remove"] = q["remove"] /\ p["old"] = q["old"] /\ p["freed"] = q["freed"]
      /\ \/ p["in"] = q["in"]
         \/ Off(q, m) /\ \E i \in 0 .. Len(q["in"]) :
              p["in"] = Pool!Between(q["in"], 1, i) \o <<m>> \o Pool!Between(q["in"], i + 1, Len(q["in"]))
  <2>1. CASE p = q
    BY <2>1
  <2>2. ASSUME Off(q, m), NEW i \in 1 .. Len(q["in"]), p = [q EXCEPT !["in"] = Put(@, i, m)]
        PROVE  /\ p["remove"] = q["remove"] /\ p["old"] = q["old"] /\ p["freed"] = q["freed"]
               /\ i \in 0 .. Len(q["in"])
               /\ p["in"] = Pool!Between(q["in"], 1, i) \o <<m>> \o Pool!Between(q["in"], i + 1, Len(q["in"]))
    <3>1. i \in 0 .. Len(q["in"])
      BY <1>1
    <3>2. p["in"] = Put(q["in"], i, m)
      BY <1>1, <2>2, ListNames
    <3> QED
      BY <1>1, <2>2, <3>1, <3>2, ListNames DEF Put, Pool!Between
  <2> QED
    BY <1>4, <2>1, <2>2
<1>7. CASE c = NULL \/ q["freed"] = <<>>
  <2>1. Shape(links', p, {})
    <3>1. CASE c = NULL
      BY <1>3, <1>4, <3>1
    <3>2. CASE c # NULL
      <4>1. Shape(links', Allocated(p), {})
        BY <1>3, <1>4, <3>2, AllocateShape
      <4>2. Allocated(p) = p
        BY <1>5, <1>6, <1>7, <3>2, PoolAllocates
      <4> QED
        BY <4>1, <4>2
    <3> QED
      BY <3>1, <3>2
  <2>2. /\ Chain(links, "in") = q["in"] /\ Chain(links, "remove") = q["remove"]
        /\ Chain(links, "old") = q["old"] /\ Chain(links, "freed") = q["freed"]
        /\ Chain(links', "in") = p["in"] /\ Chain(links', "remove") = p["remove"]
        /\ Chain(links', "old") = p["old"] /\ Chain(links', "freed") = p["freed"]
        /\ Off(q, m) => m \in Pool!Free
    BY <1>1, <2>1, PoolIs
  <2>3. CASE p["in"] = q["in"]
    <3>1. UNCHANGED Pool!vars
      BY <1>6, <2>2, <2>3 DEF Pool!vars
    <3> QED
      BY <3>1
  <2>4. CASE p["in"] # q["in"]
    <3>1. Pool!Enter
      BY <1>6, <2>2, <2>4 DEF Pool!Enter
    <3> QED
      BY <3>1
  <2> QED
    BY <2>3, <2>4
<1>8. CASE c # NULL /\ q["freed"] # <<>>
  <2> DEFINE r == Allocated(p)
  <2>1. Shape(links', r, {})
    BY <1>3, <1>4, <1>8, AllocateShape
  <2>2. /\ r["in"] = p["in"] /\ r["remove"] = q["remove"] /\ r["old"] = q["old"]
        /\ r["freed"] = Tail(q["freed"])
    BY <1>5, <1>6, <1>8, ListNames, PoolAllocates
  <2> HIDE DEF r
  <2>3. /\ Chain(links, "in") = q["in"] /\ Chain(links, "remove") = q["remove"]
        /\ Chain(links, "old") = q["old"] /\ Chain(links, "freed") = q["freed"]
        /\ Chain(links', "in") = r["in"] /\ Chain(links', "remove") = r["remove"]
        /\ Chain(links', "old") = r["old"] /\ Chain(links', "freed") = r["freed"]
        /\ Off(q, m) => m \in Pool!Free
    BY <1>1, <2>1, PoolIs
  <2>4. CASE p["in"] = q["in"]
    <3>1. Pool!Reuse
      BY <1>8, <2>2, <2>3, <2>4 DEF Pool!Reuse
    <3> QED
      BY <3>1
  <2>5. CASE p["in"] # q["in"]
    <3>1. Pool!ReuseEnter
      BY <1>6, <1>8, <2>2, <2>3, <2>5 DEF Pool!ReuseEnter
    <3> QED
      BY <3>1
  <2> QED
    BY <2>4, <2>5
<1> QED
  BY <1>7, <1>8

LEMMA InitPool == ASSUME Init PROVE Pool!Init
<1>1. PICK m \in Msg : Shape(links, [l \in List |-> IF l = "in" THEN <<m>> ELSE <<>>], {})
  BY InitStep
<1> DEFINE q == [l \in List |-> IF l = "in" THEN <<m>> ELSE <<>>]
<1>2. q["in"] = <<m>> /\ q["remove"] = <<>> /\ q["old"] = <<>> /\ q["freed"] = <<>>
  BY ListNames
<1> HIDE DEF q
<1>3. Shape(links, q, {})
  BY <1>1 DEF q
<1>4. \A l \in List : Chain(links, l) = q[l]
  BY <1>3, ListsAre DEF Lists
<1> QED
  BY <1>2, <1>4, ListNames DEF Pool!Init

\* The four lists, however their pointers are written, move the records whole and
\* in order: from the queue to those to be removed, the old ones, the free ones,
\* and from those to the next event.
THEOREM Refinement == Spec => ImplementsPool
<1>1. Init => Pool!Init
  BY InitPool
<1>2. ASSUME IInv, [Next]_vars PROVE Pool!Next \/ UNCHANGED Pool!vars
  <2>1. ASSUME NEW c \in Msg, NEW t \in 1 .. MaxTs, Send(c, t) PROVE Pool!Next \/ UNCHANGED Pool!vars
    BY <1>2, <2>1, SendPool DEF Pool!Next
  <2>2. ASSUME NEW c \in Msg, Deallocate(c) PROVE Pool!Next
    BY <1>2, <2>2, DeallocatePool DEF Pool!Next
  <2>3. ASSUME links' = links PROVE UNCHANGED Pool!vars
    BY <2>3 DEF Pool!vars
  <2>4. ASSUME NEW m \in Msg, Invalidate(m) \/ AdvanceGvt \/ Commit(m) \/ Rollback(m) PROVE UNCHANGED Pool!vars
    BY <1>2, <2>3, <2>4, SilentStep
  <2>5. ASSUME AdvanceGvt PROVE UNCHANGED Pool!vars
    BY <2>3, <2>5 DEF AdvanceGvt
  <2>6. ASSUME NEW m \in Msg, RemoveNode(m) PROVE Pool!Next \/ UNCHANGED Pool!vars
    BY <1>2, <2>6, RemoveNodePool DEF Pool!Next
  <2>7. ASSUME NEW m \in Msg, CleanCheckpoint(m) PROVE Pool!Next
    BY <1>2, <2>7, CleanCheckpointPool DEF Pool!Next
  <2>8. ASSUME NEW m \in Msg, NEW c \in Ptr, NEW t \in 1 .. MaxTs, Execute(m, c, t)
        PROVE  Pool!Next \/ UNCHANGED Pool!vars
    BY <1>2, <2>8, ExecutePool DEF Pool!Next
  <2>9. ASSUME FetchDrop \/ Age \/ Prune PROVE Pool!Next
    BY <1>2, <2>9, FetchDropPool, AgePool, PrunePool DEF Pool!Next
  <2>10. ASSUME UNCHANGED vars PROVE UNCHANGED Pool!vars
    BY <2>3, <2>10 DEF vars
  <2> QED
    BY <1>2, <2>1, <2>2, <2>4, <2>5, <2>6, <2>7, <2>8, <2>9, <2>10 DEF Next
<1> QED
  BY <1>1, <1>2, Invariance, PTL DEF Spec, ImplementsPool, Pool!Spec
=============================================================================
