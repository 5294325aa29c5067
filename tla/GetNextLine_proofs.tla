------------------------- MODULE GetNextLine_proofs -------------------------
(***************************************************************************)
(* Proofs about GetNextLine: no byte of a descriptor is dropped or doubled *)
(* and each call hands out the next line, for any texts, any alternation   *)
(* of descriptors, any BUFF_SIZE and reads of any length.  What the list   *)
(* holds of a descriptor is a text put together from its nodes, so that    *)
(* the first part is about FlattenSeq: induction over a sequence, which is *)
(* stated with sets of positions.                                          *)
(***************************************************************************)
EXTENDS GetNextLine, SequenceTheorems, FiniteSetTheorems, TLAPS

-----------------------------------------------------------------------------
(***************************************************************************)
(* Induction.                                                              *)
(***************************************************************************)

\* Of natural numbers one is the least: the sets 0..x are ordered like x, and finite
\* sets are well-founded.
LEMMA LeastNat == ASSUME NEW T, T \subseteq Nat, T # {} PROVE \E x \in T : \A y \in T : x <= y
<1> DEFINE F == {0..x : x \in T}
<1>1. /\ F \subseteq FiniteSubsetsOf(Nat) /\ F # {}
  <2>1. ASSUME NEW x \in T PROVE 0..x \in FiniteSubsetsOf(Nat)
    <3>1. IsFiniteSet(0..x) BY FS_Interval
    <3>2. 0..x \subseteq Nat  OBVIOUS
    <3> QED BY <3>1, <3>2 DEF FiniteSubsetsOf
  <2> QED BY <2>1
<1>2. PICK s \in F : \A t \in F : ~(<<t, s>> \in StrictSubsetOrdering(Nat))
  <2> HIDE DEF F
  <2> QED BY <1>1, WFMin, FS_StrictSubsetOrderingWellFounded
<1>3. PICK x \in T : s = 0..x
  BY <1>2
<1>4. ASSUME NEW y \in T, y < x PROVE FALSE
  <2>1. 0..y \subseteq 0..x /\ x \in 0..x /\ x \notin 0..y
    BY <1>4
  <2>2. <<0..y, 0..x>> \in StrictSubsetOrdering(Nat)
    BY <2>1 DEF StrictSubsetOrdering
  <2> QED BY <2>2, <1>2, <1>3
<1> QED BY <1>4

\* A set that has 0 and, with each number below n, the next one, has all up to n.
LEMMA Induction ==
  ASSUME NEW n \in Nat, NEW G, 0 \in G, \A i \in 1..n : i - 1 \in G => i \in G
  PROVE  0..n \subseteq G
<1> SUFFICES ASSUME (0..n) \ G # {} PROVE FALSE
  OBVIOUS
<1>1. PICK x \in (0..n) \ G : \A y \in (0..n) \ G : x <= y
  <2>1. (0..n) \ G \subseteq Nat
    OBVIOUS
  <2> QED BY <2>1, LeastNat
<1>2. x \in 1..n /\ x - 1 \in 0..n /\ ~(x <= x - 1)
  BY <1>1
<1> QED BY <1>1, <1>2

-----------------------------------------------------------------------------
(***************************************************************************)
(* FlattenSeq.  Of the sequences of characters it is used only that they   *)
(* can be put one after the other.                                         *)
(***************************************************************************)

Closed(S) == /\ <<>> \in S
             /\ \A x, y \in S : x \o y \in S
             /\ \A x \in S : <<>> \o x = x /\ x \o <<>> = x
             /\ \A x, y, z \in S : (x \o y) \o z = x \o (y \o z)

\* Sequences are closed under concatenation, which is associative with <<>> as unit.
LEMMA SeqClosed == ASSUME NEW C PROVE Closed(Seq(C))
<1>1. \A x, y \in Seq(C) : x \o y \in Seq(C)
  BY ConcatProperties
<1>2. \A x \in Seq(C) : <<>> \o x = x /\ x \o <<>> = x
  BY ConcatEmptySeq
<1>3. \A x, y, z \in Seq(C) : (x \o y) \o z = x \o (y \o z)
  BY ConcatAssociative
<1>4. <<>> \in Seq(C)
  BY EmptySeq
<1> QED BY <1>1, <1>2, <1>3, <1>4 DEF Closed

\* g[i] is the first i of n sequences s, one after the other.
Flattens(g, s, n) == g[0] = <<>> /\ \A i \in 1..n : g[i] = g[i - 1] \o s[i]

\* The function FlattenSeq is defined by exists: what the first i texts make together.
LEMMA Flattening ==
  ASSUME NEW S, Closed(S), NEW n \in Nat, NEW s, \A i \in 1..n : s[i] \in S
  PROVE  \E g \in [0..n -> S] : Flattens(g, s, n)
<1> DEFINE G == {m \in 0..n : \E g \in [0..m -> S] : Flattens(g, s, m)}
<1>1. 0 \in G
  <2>1. [i \in 0..0 |-> <<>>] \in [0..0 -> S] /\ Flattens([i \in 0..0 |-> <<>>], s, 0)
    BY DEF Flattens, Closed
  <2> QED BY <2>1
<1>2. ASSUME NEW m \in 1..n, m - 1 \in G PROVE m \in G
  <2>1. PICK g \in [0..(m - 1) -> S] : Flattens(g, s, m - 1)
    BY <1>2
  <2> DEFINE h == [i \in 0..m |-> IF i < m THEN g[i] ELSE g[m - 1] \o s[m]]
  <2>2. g[m - 1] \in S /\ s[m] \in S /\ m \in Nat /\ m - 1 \in Nat
    OBVIOUS
  <2>3. g[m - 1] \o s[m] \in S
    BY <2>2 DEF Closed
  <2>4. h \in [0..m -> S]
    BY <2>2, <2>3
  <2>5. h[0] = <<>>
    BY <2>1, <2>2 DEF Flattens
  <2>6. ASSUME NEW i \in 1..m PROVE h[i] = h[i - 1] \o s[i]
    <3>1. CASE i < m
      <4>1. h[i] = g[i] /\ h[i - 1] = g[i - 1] /\ i \in 1..(m - 1)
        BY <2>2, <3>1
      <4> QED BY <2>1, <4>1 DEF Flattens
    <3>2. CASE i = m
      BY <2>2, <3>2
    <3> QED BY <3>1, <3>2, <2>2
  <2>7. Flattens(h, s, m)
    BY <2>5, <2>6 DEF Flattens
  <2>8. \E f \in [0..m -> S] : Flattens(f, s, m)
    <3> HIDE DEF h
    <3> QED BY <2>4, <2>7
  <2> QED BY <2>2, <2>8
<1>3. n \in G
  <2> HIDE DEF G
  <2> QED BY <1>1, <1>2, Induction
<1> QED BY <1>3

\* Two of them are the same where the sequences are.
LEMMA SameUpTo ==
  ASSUME NEW n \in Nat, NEW s, NEW t, NEW g, NEW h, Flattens(g, s, n), Flattens(h, t, n),
         \A i \in 1..n : s[i] = t[i]
  PROVE  \A i \in 0..n : g[i] = h[i]
<1> DEFINE G == {i \in 0..n : g[i] = h[i]}
<1>1. 0 \in G
  BY DEF Flattens
<1>2. ASSUME NEW i \in 1..n, i - 1 \in G PROVE i \in G
  <2>1. g[i] = g[i - 1] \o s[i] /\ h[i] = h[i - 1] \o t[i] /\ s[i] = t[i]
    BY DEF Flattens
  <2>2. g[i - 1] = h[i - 1]
    BY <1>2
  <2>3. g[i] = h[i]
    <3> HIDE DEF G
    <3> QED BY <2>1, <2>2, Zenon
  <2> QED BY <2>3
<1>3. 0..n \subseteq G
  <2> HIDE DEF G
  <2> QED BY <1>1, <1>2, Induction
<1> QED BY <1>3

\* Nothing is added by sequences that are empty.
LEMMA NothingBehind ==
  ASSUME NEW S, Closed(S), NEW n \in Nat, NEW k \in 0..n, NEW s, NEW g \in [0..n -> S],
         Flattens(g, s, n), \A i \in (k + 1)..n : s[i] = <<>>
  PROVE  g[n] = g[k]
<1> DEFINE G == {i \in 0..n : i >= k => g[i] = g[k]}
<1>1. 0 \in G
  BY DEF Flattens
<1>2. ASSUME NEW i \in 1..n, i - 1 \in G PROVE i \in G
  <2>1. CASE i <= k
    BY <2>1
  <2>2. CASE i > k
    <3>1. i - 1 >= k /\ i \in (k + 1)..n /\ i - 1 \in 0..n
      BY <2>2
    <3>2. g[i - 1] = g[k] /\ g[i - 1] \in S
      BY <1>2, <3>1
    <3>3. g[i] = g[i - 1] \o <<>>
      BY <3>1 DEF Flattens
    <3> QED BY <3>2, <3>3 DEF Closed
  <2> QED BY <2>1, <2>2
<1>3. 0..n \subseteq G
  <2> HIDE DEF G
  <2> QED BY <1>1, <1>2, Induction
<1> QED BY <1>3

\* FlattenSeq is the last value of any such function.
LEMMA FlattenIs ==
  ASSUME NEW S, Closed(S), NEW s, NEW n \in Nat, Len(s) = n, n = 0 => s = <<>>,
         \A i \in 1..n : s[i] \in S, NEW g \in [0..n -> S], Flattens(g, s, n)
  PROVE  FlattenSeq(s) = g[n]
<1>1. CASE n = 0
  BY <1>1 DEF FlattenSeq, Flattens
<1>2. CASE n # 0
  <2> DEFINE e == [i \in 1..n |-> g[i]]
  <2>1. e = [i \in 1..n |-> IF i = 1 THEN s[i] ELSE e[i - 1] \o s[i]]
    <3>1. ASSUME NEW i \in 1..n PROVE g[i] = IF i = 1 THEN s[i] ELSE e[i - 1] \o s[i]
      <4>1. CASE i = 1
        <5>1. g[1] = <<>> \o s[1] /\ s[1] \in S
          <6>1. 1 \in 1..n /\ 1 - 1 = 0
            BY <4>1
          <6> QED BY <6>1 DEF Flattens
        <5> QED BY <4>1, <5>1 DEF Closed
      <4>2. CASE i # 1
        <5>1. i - 1 \in 1..n /\ e[i - 1] = g[i - 1]
          BY <4>2
        <5> QED BY <4>2, <5>1 DEF Flattens
      <4> QED BY <4>1, <4>2
    <3> QED BY <3>1
  <2>2. PICK f : /\ f = [i \in 1..n |-> IF i = 1 THEN s[i] ELSE f[i - 1] \o s[i]]
                 /\ FlattenSeq(s) = f[n]
    <3> HIDE DEF e
    <3> QED BY <1>2, <2>1 DEF FlattenSeq
  <2> DEFINE h == [i \in 0..n |-> IF i = 0 THEN <<>> ELSE f[i]]
  <2>3. ASSUME NEW i \in 1..n PROVE h[i] = h[i - 1] \o s[i]
    <3>0. h[i] = f[i] /\ f[i] = IF i = 1 THEN s[i] ELSE f[i - 1] \o s[i]
      <4>1. f[i] = [j \in 1..n |-> IF j = 1 THEN s[j] ELSE f[j - 1] \o s[j]][i]
        BY <2>2
      <4> QED BY <4>1
    <3>1. CASE i = 1
      <4>1. h[i - 1] = <<>> /\ s[i] \in S
        BY <3>1
      <4> QED BY <3>0, <3>1, <4>1 DEF Closed
    <3>2. CASE i # 1
      <4>1. h[i - 1] = f[i - 1]
        BY <3>2
      <4> QED BY <3>0, <3>2, <4>1
    <3> QED BY <3>1, <3>2
  <2>4. Flattens(h, s, n)
    <3>1. h[0] = <<>>
      OBVIOUS
    <3> HIDE DEF h
    <3> QED BY <2>3, <3>1 DEF Flattens
  <2>5. h[n] = g[n] /\ h[n] = f[n]
    <3>1. h[n] = f[n]
      BY <1>2
    <3> HIDE DEF h
    <3>2. n \in 0..n
      OBVIOUS
    <3> QED BY <2>4, <3>1, <3>2, SameUpTo
  <2> QED BY <2>2, <2>5
<1> QED BY <1>1, <1>2

\* A sequence of sequences.
Listed(s, n, S) == n \in Nat /\ Len(s) = n /\ (n = 0 => s = <<>>) /\ \A i \in 1..n : s[i] \in S

\* Texts make a text.
LEMMA FlattenType ==
  ASSUME NEW S, Closed(S), NEW s, NEW n, Listed(s, n, S) PROVE FlattenSeq(s) \in S
<1>1. PICK g \in [0..n -> S] : Flattens(g, s, n)
  BY Flattening DEF Listed
<1>2. g[n] \in S
  BY DEF Listed
<1> QED BY <1>1, <1>2, FlattenIs DEF Listed

\* Of empty sequences.
LEMMA FlattenNone ==
  ASSUME NEW S, Closed(S), NEW s, NEW n, Listed(s, n, S), \A i \in 1..n : s[i] = <<>>
  PROVE  FlattenSeq(s) = <<>>
<1>1. PICK g \in [0..n -> S] : Flattens(g, s, n)
  BY Flattening DEF Listed
<1>2. 0 \in 0..n /\ n \in Nat /\ \A i \in (0 + 1)..n : s[i] = <<>>
  BY DEF Listed
<1>3. g[n] = g[0]
  BY <1>1, <1>2, NothingBehind
<1>4. FlattenSeq(s) = g[n]
  BY <1>1, FlattenIs DEF Listed
<1> QED BY <1>1, <1>3, <1>4 DEF Flattens

\* Of empty sequences but for one.
LEMMA FlattenOne ==
  ASSUME NEW S, Closed(S), NEW s, NEW n, Listed(s, n, S), NEW k \in 1..n,
         \A i \in 1..n : i # k => s[i] = <<>>
  PROVE  FlattenSeq(s) = s[k]
<1>0. n \in Nat /\ k \in Nat /\ k - 1 \in Nat /\ s[k] \in S /\ k \in 0..n /\ k - 1 \in 0..(k - 1)
  BY DEF Listed
<1>1. PICK g \in [0..n -> S] : Flattens(g, s, n)
  BY Flattening DEF Listed
<1>2. g[n] = g[k]
  <2>1. \A i \in (k + 1)..n : s[i] = <<>>
    BY <1>0
  <2> QED BY <1>0, <1>1, <2>1, NothingBehind
<1>3. g[k - 1] = <<>>
  <2> DEFINE h == [i \in 0..(k - 1) |-> <<>>]
  <2>1. Flattens(g, s, k - 1) /\ \A i \in 1..(k - 1) : s[i] = <<>>
    BY <1>0, <1>1 DEF Flattens
  <2>2. h[k - 1] = <<>> /\ h[0] = <<>> /\ \A i \in 1..(k - 1) : h[i] = <<>> /\ h[i - 1] = <<>>
    BY <1>0
  <2> HIDE DEF h
  <2>3. <<>> \o <<>> = <<>>
    BY DEF Closed
  <2>4. Flattens(h, s, k - 1)
    BY <2>1, <2>2, <2>3 DEF Flattens
  <2> QED BY <1>0, <2>1, <2>2, <2>4, SameUpTo
<1>4. g[k] = <<>> \o s[k]
  BY <1>0, <1>1, <1>3 DEF Flattens
<1>5. FlattenSeq(s) = g[n]
  BY <1>1, FlattenIs DEF Listed
<1> QED BY <1>0, <1>2, <1>4, <1>5 DEF Closed

\* One more that is empty.
LEMMA FlattenMore ==
  ASSUME NEW S, Closed(S), NEW s, NEW n, Listed(s, n, S), NEW t, Listed(t, n + 1, S),
         \A i \in 1..n : t[i] = s[i], t[n + 1] = <<>>
  PROVE  FlattenSeq(t) = FlattenSeq(s)
<1>0. n \in Nat /\ n + 1 \in Nat /\ n \in 0..(n + 1) /\ n \in 0..n
  BY DEF Listed
<1>1. PICK g \in [0..n -> S] : Flattens(g, s, n)
  BY Flattening DEF Listed
<1>2. PICK h \in [0..(n + 1) -> S] : Flattens(h, t, n + 1)
  BY Flattening DEF Listed
<1>3. h[n + 1] = h[n]
  <2>1. \A i \in (n + 1)..(n + 1) : t[i] = <<>>
    BY <1>0
  <2> QED BY <1>0, <1>2, <2>1, NothingBehind
<1>4. Flattens(h, t, n)
  <2>1. \A i \in 1..n : i \in 1..(n + 1)
    BY <1>0
  <2> QED BY <1>2, <2>1 DEF Flattens
<1>5. h[n] = g[n]
  BY <1>0, <1>1, <1>4, SameUpTo
<1>6. FlattenSeq(s) = g[n]
  BY <1>1, FlattenIs DEF Listed
<1>7. FlattenSeq(t) = h[n + 1]
  BY <1>2, FlattenIs DEF Listed
<1> QED BY <1>3, <1>5, <1>6, <1>7

\* The last that is not empty gets longer.
Longer(t, s, k, n, u) ==
  /\ t[k] = s[k] \o u
  /\ \A i \in 1..n : (i < k => t[i] = s[i]) /\ (i > k => t[i] = <<>> /\ s[i] = <<>>)

\* A text that is longer by u, behind which there is nothing, makes the whole longer by u.
LEMMA FlattenLonger ==
  ASSUME NEW S, Closed(S), NEW s, NEW n, Listed(s, n, S), NEW t, Listed(t, n, S), NEW k \in 1..n,
         NEW u \in S, Longer(t, s, k, n, u)
  PROVE  FlattenSeq(t) = FlattenSeq(s) \o u
<1>0. n \in Nat /\ k \in Nat /\ k - 1 \in Nat /\ s[k] \in S /\ k \in 0..n /\ k - 1 \in 0..(k - 1)
  BY DEF Listed
<1>1. PICK g \in [0..n -> S] : Flattens(g, s, n)
  BY Flattening DEF Listed
<1>2. PICK h \in [0..n -> S] : Flattens(h, t, n)
  BY Flattening DEF Listed
<1>3. g[n] = g[k] /\ h[n] = h[k]
  <2>1. \A i \in (k + 1)..n : t[i] = <<>> /\ s[i] = <<>>
    BY <1>0 DEF Longer
  <2>2. g[n] = g[k]
    BY <1>0, <1>1, <2>1, NothingBehind
  <2>3. h[n] = h[k]
    BY <1>0, <1>2, <2>1, NothingBehind
  <2> QED BY <2>2, <2>3
<1>4. Flattens(g, s, k - 1) /\ Flattens(h, t, k - 1) /\ \A i \in 1..(k - 1) : s[i] = t[i]
  <2>1. \A i \in 1..(k - 1) : i \in 1..n /\ i < k
    BY <1>0
  <2> QED BY <1>1, <1>2, <2>1 DEF Flattens, Longer
<1>5. h[k - 1] = g[k - 1] /\ g[k - 1] \in S
  <2>1. k - 1 \in 0..n
    BY <1>0
  <2>2. h[k - 1] = g[k - 1]
    BY <1>0, <1>4, SameUpTo
  <2> QED BY <2>1, <2>2
<1>6. g[k] = g[k - 1] \o s[k] /\ h[k] = g[k - 1] \o (s[k] \o u)
  BY <1>0, <1>1, <1>2, <1>5 DEF Flattens, Longer
<1>7. h[k] = g[k] \o u
  <2>1. (g[k - 1] \o s[k]) \o u = g[k - 1] \o (s[k] \o u)
    BY <1>0, <1>5 DEF Closed
  <2> QED BY <1>6, <2>1
<1>8. FlattenSeq(s) = g[n]
  BY <1>1, FlattenIs DEF Listed
<1>9. FlattenSeq(t) = h[n]
  BY <1>2, FlattenIs DEF Listed
<1> QED BY <1>3, <1>7, <1>8, <1>9

-----------------------------------------------------------------------------
(***************************************************************************)
(* The list.                                                               *)
(***************************************************************************)
Chars == UNION {UNION {Range(t[d]) : d \in DOMAIN t} : t \in Texts}
Text  == Seq(Chars)
Nodes == [fd : DOMAIN texts, stock : Text, heap : BOOLEAN, given : Text]

\* What StockOf and Taken are of any list.
IsList(ns) == ns \in Seq(Nodes)
StockIn(ns, first, d) ==
  FlattenSeq([m \in 1..Len(ns) |-> IF ns[m].fd = d /\ ~(m < first) THEN ns[m].stock ELSE <<>>])
TakenIn(ns, d) ==
  FlattenSeq([m \in 1..Len(ns) |-> IF ns[m].fd = d THEN ns[m].given \o ns[m].stock ELSE <<>>])

\* What is said of sequences holds of the texts of this module.
LEMMA TextClosed == Closed(Text)
  BY SeqClosed DEF Text

\* A function on 1..n is a sequence of n texts.
LEMMA ListedFunction ==
  ASSUME NEW S, NEW n \in Nat, NEW s \in [1..n -> S]
  PROVE  Listed(s, n, S)
<1>1. s \in Seq(S)
  BY SeqDef
<1>2. DOMAIN s = 1..Len(s) /\ Len(s) \in Nat /\ DOMAIN s = 1..n
  BY <1>1, LenProperties
<1>3. Len(s) = n
  BY <1>2
<1>4. n = 0 => s = <<>>
  BY <1>1, <1>3, EmptySeq
<1> QED BY <1>3, <1>4 DEF Listed

\* The fields of a node.
LEMMA ListNodes ==
  ASSUME NEW ns, IsList(ns)
  PROVE  /\ Len(ns) \in Nat
         /\ \A m \in 1..Len(ns) : /\ ns[m] \in Nodes /\ ns[m].fd \in DOMAIN texts
                                  /\ ns[m].stock \in Text /\ ns[m].given \in Text
<1>1. Len(ns) \in Nat
  BY LenProperties DEF IsList
<1>2. ASSUME NEW m \in 1..Len(ns)
      PROVE  /\ ns[m] \in Nodes /\ ns[m].fd \in DOMAIN texts
             /\ ns[m].stock \in Text /\ ns[m].given \in Text
  <2>1. ns[m] \in Nodes
    BY ElementOfSeq DEF IsList
  <2> QED BY <2>1 DEF Nodes
<1> QED BY <1>1, <1>2

\* What the list holds of a descriptor is put together from texts, one for each node.
LEMMA StockListed ==
  ASSUME NEW ns, IsList(ns), NEW first, NEW d
  PROVE  Listed([m \in 1..Len(ns) |-> IF ns[m].fd = d /\ ~(m < first) THEN ns[m].stock ELSE <<>>],
                Len(ns), Text)
<1> DEFINE s == [m \in 1..Len(ns) |-> IF ns[m].fd = d /\ ~(m < first) THEN ns[m].stock ELSE <<>>]
<1>1. <<>> \in Text
  BY TextClosed DEF Closed
<1>2. s \in [1..Len(ns) -> Text] /\ Len(ns) \in Nat
  BY <1>1, ListNodes
<1>3. Listed(s, Len(ns), Text)
  <2> HIDE DEF s
  <2> QED BY <1>2, ListedFunction
<1> QED BY <1>3

\* So is what its nodes gave out and hold.
LEMMA TakenListed ==
  ASSUME NEW ns, IsList(ns), NEW d
  PROVE  Listed([m \in 1..Len(ns) |-> IF ns[m].fd = d THEN ns[m].given \o ns[m].stock ELSE <<>>],
                Len(ns), Text)
<1> DEFINE s == [m \in 1..Len(ns) |-> IF ns[m].fd = d THEN ns[m].given \o ns[m].stock ELSE <<>>]
<1>1. <<>> \in Text /\ \A m \in 1..Len(ns) : ns[m].given \o ns[m].stock \in Text
  BY ListNodes, TextClosed DEF Closed
<1>2. s \in [1..Len(ns) -> Text] /\ Len(ns) \in Nat
  BY <1>1, ListNodes
<1>3. Listed(s, Len(ns), Text)
  <2> HIDE DEF s
  <2> QED BY <1>2, ListedFunction
<1> QED BY <1>3

\* The static pointer reaches one node of a descriptor at most.
OneEachIn(ns, first) == \A m, k \in 1..Len(ns) : ns[m].fd = ns[k].fd /\ m < k => m < first

\* What is read ahead of a descriptor is what its one node holds.
LEMMA StockOne ==
  ASSUME NEW ns, IsList(ns), NEW first \in Nat, OneEachIn(ns, first),
         NEW m \in 1..Len(ns), ~(m < first)
  PROVE  StockIn(ns, first, ns[m].fd) = ns[m].stock
<1> DEFINE d == ns[m].fd
           s == [k \in 1..Len(ns) |-> IF ns[k].fd = d /\ ~(k < first) THEN ns[k].stock ELSE <<>>]
<1>1. Len(ns) \in Nat
  BY ListNodes
<1>2. \A k \in 1..Len(ns) : k # m => s[k] = <<>>
  BY <1>1 DEF OneEachIn
<1>3. s[m] = ns[m].stock
  OBVIOUS
<1>4. Listed(s, Len(ns), Text)
  BY StockListed
<1>5. StockIn(ns, first, ns[m].fd) = FlattenSeq(s)
  BY DEF StockIn
<1> HIDE DEF s, d
<1> QED BY <1>2, <1>3, <1>4, <1>5, TextClosed, FlattenOne

\* Without a node in reach nothing is held.
LEMMA StockNone ==
  ASSUME NEW ns, IsList(ns), NEW first \in Nat, NEW d,
         \A m \in 1..Len(ns) : ns[m].fd = d => m < first
  PROVE  StockIn(ns, first, d) = <<>>
<1> DEFINE s == [k \in 1..Len(ns) |-> IF ns[k].fd = d /\ ~(k < first) THEN ns[k].stock ELSE <<>>]
<1>1. \A k \in 1..Len(ns) : s[k] = <<>>
  OBVIOUS
<1>2. Listed(s, Len(ns), Text)
  BY StockListed
<1>3. StockIn(ns, first, d) = FlattenSeq(s)
  BY DEF StockIn
<1> HIDE DEF s
<1> QED BY <1>1, <1>2, <1>3, TextClosed, FlattenNone

\* What is held is a text.
LEMMA StockType ==
  ASSUME NEW ns, IsList(ns), NEW first, NEW d
  PROVE  StockIn(ns, first, d) \in Text
  BY StockListed, TextClosed, FlattenType DEF StockIn

\* What was taken is a text.
LEMMA TakenType ==
  ASSUME NEW ns, IsList(ns), NEW d
  PROVE  TakenIn(ns, d) \in Text
  BY TakenListed, TextClosed, FlattenType DEF TakenIn

\* A new node at the end adds nothing.
LEMMA TakenMore ==
  ASSUME NEW ns, IsList(ns), NEW ms, IsList(ms), Len(ms) = Len(ns) + 1,
         \A m \in 1..Len(ns) : ms[m] = ns[m],
         ms[Len(ns) + 1].given = <<>>, ms[Len(ns) + 1].stock = <<>>, NEW d
  PROVE  TakenIn(ms, d) = TakenIn(ns, d)
<1> DEFINE s == [m \in 1..Len(ns) |-> IF ns[m].fd = d THEN ns[m].given \o ns[m].stock ELSE <<>>]
           t == [m \in 1..Len(ms) |-> IF ms[m].fd = d THEN ms[m].given \o ms[m].stock ELSE <<>>]
<1>0. Len(ns) \in Nat /\ <<>> \o <<>> = <<>>
  BY ListNodes, TextClosed DEF Closed
<1>1. t[Len(ns) + 1] = <<>> /\ \A m \in 1..Len(ns) : t[m] = s[m]
  <2>1. t[Len(ns) + 1] = <<>>
    BY <1>0
  <2>2. ASSUME NEW m \in 1..Len(ns) PROVE t[m] = s[m]
    <3>1. m \in 1..Len(ms) /\ ms[m] = ns[m]
      BY <1>0
    <3> QED BY <3>1
  <2> QED BY <2>1, <2>2
<1>2. Listed(s, Len(ns), Text) /\ Listed(t, Len(ns) + 1, Text)
  BY TakenListed
<1>3. TakenIn(ns, d) = FlattenSeq(s) /\ TakenIn(ms, d) = FlattenSeq(t)
  BY DEF TakenIn
<1> HIDE DEF s, t
<1> QED BY <1>1, <1>2, <1>3, TextClosed, FlattenMore

\* The last node of a descriptor holds more.
LEMMA TakenLonger ==
  ASSUME NEW ns, IsList(ns), NEW ms, IsList(ms), Len(ms) = Len(ns), NEW k \in 1..Len(ns), NEW u \in Text,
         \A m \in 1..Len(ns) : m # k => ms[m] = ns[m],
         ms[k].fd = ns[k].fd, ms[k].given = ns[k].given, ms[k].stock = ns[k].stock \o u,
         \A m \in 1..Len(ns) : m > k => ns[m].fd # ns[k].fd
  PROVE  /\ TakenIn(ms, ns[k].fd) = TakenIn(ns, ns[k].fd) \o u
         /\ \A d : d # ns[k].fd => TakenIn(ms, d) = TakenIn(ns, d)
<1>0. Len(ns) \in Nat /\ ns[k].given \in Text /\ ns[k].stock \in Text
  BY ListNodes
<1>1. ASSUME NEW d, d # ns[k].fd PROVE TakenIn(ms, d) = TakenIn(ns, d)
  <2>1. \A m \in 1..Len(ns) : (IF ms[m].fd = d THEN ms[m].given \o ms[m].stock ELSE <<>>)
                             = (IF ns[m].fd = d THEN ns[m].given \o ns[m].stock ELSE <<>>)
    BY <1>1
  <2>2. [m \in 1..Len(ms) |-> IF ms[m].fd = d THEN ms[m].given \o ms[m].stock ELSE <<>>]
        = [m \in 1..Len(ns) |-> IF ns[m].fd = d THEN ns[m].given \o ns[m].stock ELSE <<>>]
    BY <2>1
  <2> QED BY <2>2 DEF TakenIn
<1>2. TakenIn(ms, ns[k].fd) = TakenIn(ns, ns[k].fd) \o u
  <2> DEFINE d == ns[k].fd
             s == [m \in 1..Len(ns) |-> IF ns[m].fd = d THEN ns[m].given \o ns[m].stock ELSE <<>>]
             t == [m \in 1..Len(ms) |-> IF ms[m].fd = d THEN ms[m].given \o ms[m].stock ELSE <<>>]
  <2>1. t[k] = s[k] \o u
    <3>1. s[k] = ns[k].given \o ns[k].stock /\ t[k] = ns[k].given \o (ns[k].stock \o u)
      OBVIOUS
    <3> QED BY <1>0, <3>1, TextClosed DEF Closed
  <2>2. \A m \in 1..Len(ns) : (m < k => t[m] = s[m]) /\ (m > k => t[m] = <<>> /\ s[m] = <<>>)
    BY <1>0
  <2>3. Listed(s, Len(ns), Text) /\ Listed(t, Len(ns), Text)
    BY TakenListed
  <2>4. TakenIn(ns, ns[k].fd) = FlattenSeq(s) /\ TakenIn(ms, ns[k].fd) = FlattenSeq(t)
    BY DEF TakenIn
  <2>5. FlattenSeq(t) = FlattenSeq(s) \o u
    <3> HIDE DEF s, t
    <3>1. Longer(t, s, k, Len(ns), u)
      BY <2>1, <2>2 DEF Longer
    <3> QED BY <2>3, <3>1, TextClosed, FlattenLonger
  <2> QED BY <2>4, <2>5
<1> QED BY <1>1, <1>2

\* A node gives out of its stock.
LEMMA TakenSame ==
  ASSUME NEW ns, IsList(ns), NEW ms, Len(ms) = Len(ns), NEW d,
         \A m \in 1..Len(ns) : /\ ms[m].fd = ns[m].fd
                               /\ ms[m].given \o ms[m].stock = ns[m].given \o ns[m].stock
  PROVE  TakenIn(ms, d) = TakenIn(ns, d)
<1>1. [m \in 1..Len(ms) |-> IF ms[m].fd = d THEN ms[m].given \o ms[m].stock ELSE <<>>]
      = [m \in 1..Len(ns) |-> IF ns[m].fd = d THEN ns[m].given \o ns[m].stock ELSE <<>>]
  OBVIOUS
<1> QED BY <1>1 DEF TakenIn

-----------------------------------------------------------------------------
(***************************************************************************)
(* The invariant.                                                          *)
(***************************************************************************)
TypeInv ==
  /\ texts \in Texts /\ unread \in [DOMAIN texts -> Text]
  /\ IsList(nodes)
  /\ pc \in {"idle", "find", "answer", "abort"}
  /\ cut \in BOOLEAN /\ cuts \in Nat

\* The static pointer, where it was before the call, and the node find returned.
PointerInv ==
  /\ list \in Nat /\ begin \in Nat /\ at \in Nat
  /\ list = 0 => nodes = <<>>
  /\ pc = "idle" => list <= Len(nodes)
  /\ pc # "idle" => 1 <= begin /\ begin <= at /\ at <= Len(nodes) /\ list = at

OneEach == OneEachIn(nodes, First)

\* find is left at a newline, at the end of the text, or at a read that was cut.
FoundInv ==
  /\ cut => pc = "answer" /\ cuts > 0
  /\ pc = "answer" => cut \/ Contains(nodes[at].stock, NewLine) \/ unread[nodes[at].fd] = <<>>

\* The static pointer moves on from a descriptor only when that is at its end.
EndInv == First > 1 /\ cuts = 0 => nodes[First].stock = <<>> /\ unread[nodes[First].fd] = <<>>

TextInv == \A d \in DOMAIN texts : texts[d] = TakenIn(nodes, d) \o unread[d]

IInv == TypeInv /\ PointerInv /\ OneEach /\ FoundInv /\ EndInv /\ TextInv

-----------------------------------------------------------------------------
\* The assumption about the texts, as the invariant needs it.
LEMMA TextsAssumed ==
  ASSUME texts \in Texts
  PROVE  /\ texts \in [DOMAIN texts -> Text]
         /\ DOMAIN texts \cap Refused = {}
<1>1. /\ texts = [d \in DOMAIN texts |-> texts[d]] /\ DOMAIN texts \cap Refused = {}
      /\ \A d \in DOMAIN texts : texts[d] \in Seq(Range(texts[d]))
  BY GetNextLineAssumption
<1>2. ASSUME NEW d \in DOMAIN texts PROVE texts[d] \in Text
  <2>1. Range(texts[d]) \subseteq Chars
    BY DEF Chars
  <2> QED BY <1>1, <2>1, SeqMonotonic DEF Text
<1> QED BY <1>1, <1>2

\* No node, and all text unread.
LEMMA Initially == Init => IInv
<1> SUFFICES ASSUME Init PROVE IInv
  OBVIOUS
<1>0. /\ texts \in Texts /\ unread = texts /\ nodes = <<>> /\ list = 0 /\ begin = 0 /\ at = 0
      /\ pc = "idle" /\ cuts = 0 /\ cut = FALSE /\ Len(nodes) = 0
  BY DEF Init
<1>1. IsList(nodes)
  BY <1>0, EmptySeq DEF IsList
<1>2. TypeInv
  BY <1>0, <1>1, TextsAssumed DEF TypeInv
<1>3. PointerInv /\ OneEach /\ FoundInv /\ EndInv
  BY <1>0 DEF PointerInv, OneEach, OneEachIn, FoundInv, EndInv, First
<1>4. ASSUME NEW d \in DOMAIN texts PROVE texts[d] = TakenIn(nodes, d) \o unread[d]
  <2> DEFINE s == [m \in 1..Len(nodes) |-> IF nodes[m].fd = d THEN nodes[m].given \o nodes[m].stock ELSE <<>>]
  <2>1. Listed(s, Len(nodes), Text) /\ TakenIn(nodes, d) = FlattenSeq(s)
    BY <1>1, TakenListed DEF TakenIn
  <2>2. \A m \in 1..Len(nodes) : s[m] = <<>>
    BY <1>0
  <2>3. TakenIn(nodes, d) = <<>>
    <3> HIDE DEF s
    <3> QED BY <2>1, <2>2, TextClosed, FlattenNone
  <2>4. unread[d] = texts[d] /\ texts[d] \in Text
    BY <1>0, TextsAssumed
  <2> QED BY <2>3, <2>4, TextClosed DEF Closed
<1>5. TextInv
  BY <1>4 DEF TextInv
<1> QED BY <1>2, <1>3, <1>5 DEF IInv

\* One node is exchanged for another.
LEMMA NodeExchanged ==
  ASSUME TypeInv, NEW k \in 1..Len(nodes), NEW e \in Nodes, nodes' = [nodes EXCEPT ![k] = e],
         texts' = texts
  PROVE  /\ IsList(nodes)' /\ IsList(nodes') /\ Len(nodes') = Len(nodes) /\ nodes'[k] = e
         /\ \A m \in 1..Len(nodes) : m # k => nodes'[m] = nodes[m]
<1>1. nodes \in Seq(Nodes)
  BY DEF TypeInv, IsList
<1>2. nodes' \in Seq(Nodes) /\ Len(nodes') = Len(nodes)
      /\ \A m \in 1..Len(nodes) : nodes'[m] = IF m = k THEN e ELSE nodes[m]
  BY <1>1, ExceptSeq
<1>3. Nodes' = Nodes
  BY DEF Nodes, Text, Chars
<1> QED BY <1>2, <1>3 DEF IsList

\* A text is its first n characters and those behind them.
LEMMA TextSplit ==
  ASSUME NEW x \in Text, NEW n \in 0..Len(x)
  PROVE  /\ SubSeq(x, 1, n) \in Text /\ SubSeq(x, n + 1, Len(x)) \in Text
         /\ x = SubSeq(x, 1, n) \o SubSeq(x, n + 1, Len(x))
         /\ Len(SubSeq(x, 1, n)) = n
         /\ \A i \in 1..n : SubSeq(x, 1, n)[i] = x[i]
<1>0. Len(x) \in Nat /\ x \in Seq(Chars) /\ \A i \in 1..Len(x) : x[i] \in Chars
  BY LenProperties, ElementOfSeq DEF Text
<1>1. /\ SubSeq(x, 1, n) \in Seq(Chars) /\ Len(SubSeq(x, 1, n)) = n
      /\ \A i \in 1..n : SubSeq(x, 1, n)[i] = x[i]
  <2>1. \A i \in 1..n : x[i] \in Chars
    BY <1>0
  <2>2. /\ SubSeq(x, 1, n) \in Seq(Chars) /\ Len(SubSeq(x, 1, n)) = (IF 1 <= n THEN n - 1 + 1 ELSE 0)
        /\ \A i \in 1..(n - 1 + 1) : SubSeq(x, 1, n)[i] = x[1 + i - 1]
    BY <2>1, SubSeqProperties
  <2> QED BY <2>2
<1>2. SubSeq(x, n + 1, Len(x)) \in Seq(Chars)
  <2>1. n + 1 \in Int /\ Len(x) \in Int /\ \A i \in (n + 1)..Len(x) : x[i] \in Chars
    BY <1>0
  <2> QED BY <2>1, SubSeqProperties
<1>3. SubSeq(x, 1, n) \o SubSeq(x, n + 1, Len(x)) = SubSeq(x, 1, Len(x))
  <2>1. 1 \in 1..(Len(x) + 1) /\ n \in (1 - 1)..Len(x) /\ Len(x) \in n..Len(x)
    BY <1>0
  <2> QED BY <1>0, <2>1, ConcatAdjacentSubSeq
<1>4. SubSeq(x, 1, Len(x)) = x
  BY <1>0, SubSeqFull
<1> QED BY <1>1, <1>2, <1>3, <1>4 DEF Text

\* What is put behind a text stays in it.
LEMMA TextContains ==
  ASSUME NEW x \in Text, NEW y \in Text
  PROVE  /\ Contains(y, NewLine) => Contains(x \o y, NewLine)
         /\ x # <<>> => x \o y # <<>>
<1>0. /\ x \o y \in Text /\ Len(x \o y) = Len(x) + Len(y) /\ Len(x) \in Nat /\ Len(y) \in Nat
      /\ \A i \in 1..(Len(x) + Len(y)) : (x \o y)[i] = IF i <= Len(x) THEN x[i] ELSE y[i - Len(x)]
  BY ConcatProperties, LenProperties DEF Text
<1>1. ASSUME NEW i \in 1..Len(y), y[i] = NewLine PROVE Contains(x \o y, NewLine)
  <2>1. i + Len(x) \in 1..Len(x \o y) /\ (x \o y)[i + Len(x)] = NewLine
    BY <1>0, <1>1
  <2> QED BY <2>1 DEF Contains
<1>2. x # <<>> => x \o y # <<>>
  BY ConcatSimplifications, ConcatEqualIffEmpty DEF Text
<1> QED BY <1>1, <1>2 DEF Contains

\* While a call is at work its node is in reach, and the only one of its descriptor there.
LEMMA NodeAtHand ==
  ASSUME IInv, pc # "idle"
  PROVE  /\ at \in 1..Len(nodes) /\ nodes[at] \in Nodes /\ nodes[at].fd \in DOMAIN texts
         /\ unread[nodes[at].fd] \in Text /\ nodes[at].stock \in Text /\ nodes[at].given \in Text
         /\ Len(nodes) \in Nat /\ First = begin /\ begin \in 1..at
         /\ \A m \in 1..Len(nodes) : m > at => nodes[m].fd # nodes[at].fd
<1>1. at \in 1..Len(nodes) /\ Len(nodes) \in Nat /\ First = begin /\ begin \in 1..at
  BY ListNodes DEF IInv, TypeInv, PointerInv, First
<1>2. nodes[at] \in Nodes /\ nodes[at].fd \in DOMAIN texts /\ nodes[at].stock \in Text /\ nodes[at].given \in Text
  BY <1>1, ListNodes DEF IInv, TypeInv
<1>3. unread[nodes[at].fd] \in Text
  BY <1>2 DEF IInv, TypeInv
<1>4. \A m \in 1..Len(nodes) : m > at => nodes[m].fd # nodes[at].fd
  BY <1>1 DEF IInv, OneEach, OneEachIn
<1> QED BY <1>1, <1>2, <1>3, <1>4

\* What an action does with the node at hand.
NodeBecomes(stock, given) ==
  /\ IsList(nodes)' /\ IsList(nodes') /\ Len(nodes') = Len(nodes)
  /\ \A m \in 1..Len(nodes) : m # at => nodes'[m] = nodes[m]
  /\ nodes'[at].fd = nodes[at].fd /\ nodes'[at].stock = stock /\ nodes'[at].given = given

\* A read moves the first part of what is unread to the node; find is left if it brought a newline.
LEMMA ReadChanges ==
  ASSUME IInv, NEW n \in 1..BuffSize, Read(n)
  PROVE  \E u \in Text, v \in Text :
           /\ unread[nodes[at].fd] = u \o v /\ unread' = [unread EXCEPT ![nodes[at].fd] = v]
           /\ u # <<>>
           /\ NodeBecomes(nodes[at].stock \o u, nodes[at].given)
           /\ pc' = "answer" => Contains(u, NewLine)
           /\ pc = "find" /\ pc' \in {"find", "answer"}
           /\ UNCHANGED <<list, begin, at, texts, last, calls, cuts, cut>>
<1> DEFINE fd == nodes[at].fd
           u  == SubSeq(unread[fd], 1, n)
           v  == SubSeq(unread[fd], n + 1, Len(unread[fd]))
           e  == [nodes[at] EXCEPT !.stock = @ \o u]
<1>0. pc = "find" /\ n <= Len(unread[fd])
  BY DEF Read, Node
<1>1. /\ at \in 1..Len(nodes) /\ nodes[at] \in Nodes /\ fd \in DOMAIN texts /\ unread[fd] \in Text
      /\ nodes[at].stock \in Text /\ nodes[at].given \in Text
  BY <1>0, NodeAtHand
<1>2. n \in Nat /\ n >= 1 /\ n \in 0..Len(unread[fd])
  <2>1. n \in Nat /\ n >= 1 /\ Len(unread[fd]) \in Nat
    BY <1>1, GetNextLineAssumption, LenProperties DEF Text
  <2> QED BY <1>0, <2>1
<1>3. u \in Text /\ v \in Text /\ unread[fd] = u \o v /\ Len(u) = n
  BY <1>1, <1>2, TextSplit
<1>4. u # <<>>
  BY <1>2, <1>3, EmptySeq
<1>5. nodes[at].stock \o u \in Text
  BY <1>1, <1>3, TextClosed DEF Closed
<1>6. nodes' = [nodes EXCEPT ![at] = e] /\ texts' = texts
  BY DEF Read, Node
<1>7. e \in Nodes /\ e.fd = fd /\ e.stock = nodes[at].stock \o u /\ e.given = nodes[at].given
  <2> HIDE DEF u
  <2> QED BY <1>1, <1>5 DEF Nodes
<1>8. NodeBecomes(nodes[at].stock \o u, nodes[at].given)
  <2>1. TypeInv
    BY DEF IInv
  <2> HIDE DEF e, u
  <2> QED BY <1>1, <1>6, <1>7, <2>1, NodeExchanged DEF NodeBecomes
<1>9. unread' = [unread EXCEPT ![fd] = v] /\ UNCHANGED <<list, begin, at, texts, last, calls, cuts, cut>>
  BY DEF Read, Node
<1>10. (pc' = "answer" => Contains(u, NewLine)) /\ pc' \in {"find", "answer"}
  BY DEF Read, Node
<1> HIDE DEF u, v, fd, e
<1> QED BY <1>0, <1>3, <1>4, <1>8, <1>9, <1>10 DEF fd

\* The place of the first newline.
EndOf(x) == SelectInSeq(x, LAMBDA c : c = NewLine)

\* EndOf is the first of the newlines, if there are any.
LEMMA FirstNewLine ==
  ASSUME NEW x \in Text, Contains(x, NewLine)
  PROVE  /\ EndOf(x) \in 1..Len(x) /\ x[EndOf(x)] = NewLine
         /\ \A i \in 1..Len(x) : i < EndOf(x) => x[i] # NewLine
<1> DEFINE I == {i \in 1..Len(x) : x[i] = NewLine}
<1>0. Len(x) \in Nat
  BY LenProperties DEF Text
<1>1. I # {} /\ I \subseteq Nat
  BY <1>0 DEF Contains
<1>2. PICK e \in I : \A j \in I : e <= j
  <2> HIDE DEF I
  <2> QED BY <1>1, LeastNat
<1>3. EndOf(x) = Min(I)
  BY <1>1 DEF EndOf, SelectInSeq
<1>4. Min(I) \in I /\ \A j \in I : Min(I) <= j
  <2> HIDE DEF I
  <2> QED BY <1>2 DEF Min
<1>5. \A i \in 1..Len(x) : i < Min(I) => x[i] # NewLine
  <2>1. ASSUME NEW i \in 1..Len(x), i < Min(I), x[i] = NewLine PROVE FALSE
    <3>1. i \in I
      BY <2>1
    <3>2. Min(I) <= i /\ Min(I) \in Nat
      BY <1>1, <1>4, <3>1
    <3> HIDE DEF I
    <3> QED BY <1>0, <2>1, <3>2
  <2> QED BY <2>1
<1> QED BY <1>3, <1>4, <1>5

\* The two ways to answer with a line.
LEMMA AnswerChanges ==
  ASSUME IInv, AnswerLine \/ AnswerRest
  PROVE  \E l \in Text, r \in Text :
           /\ nodes[at].stock = l \o r /\ l # <<>>
           /\ NodeBecomes(r, nodes[at].given \o l)
           /\ \/ /\ AnswerLine /\ Contains(nodes[at].stock, NewLine)
                 /\ l = SubSeq(nodes[at].stock, 1, EndOf(nodes[at].stock))
                 /\ last' = [fd |-> nodes[at].fd, ret |-> 1,
                             line |-> SubSeq(nodes[at].stock, 1, EndOf(nodes[at].stock) - 1)]
              \/ /\ AnswerRest /\ ~Contains(nodes[at].stock, NewLine) /\ l = nodes[at].stock /\ r = <<>>
                 /\ last' = [fd |-> nodes[at].fd, ret |-> 1, line |-> l]
           /\ pc = "answer" /\ pc' = "idle" /\ cut' = FALSE /\ list' = begin
           /\ UNCHANGED <<begin, at, unread, texts, calls, cuts>>
<1> DEFINE fd == nodes[at].fd
           s  == nodes[at].stock
<1>0. pc = "answer" /\ pc' = "idle" /\ cut' = FALSE /\ list' = begin
      /\ UNCHANGED <<begin, at, unread, texts, calls, cuts>>
  BY DEF AnswerLine, AnswerRest, Answers
<1>1. /\ at \in 1..Len(nodes) /\ nodes[at] \in Nodes /\ s \in Text /\ nodes[at].given \in Text
      /\ TypeInv
  BY <1>0, NodeAtHand DEF IInv
<1>2. CASE AnswerLine
  <2> DEFINE n == EndOf(s)
             l == SubSeq(s, 1, n)
             r == SubSeq(s, n + 1, Len(s))
             e == [nodes[at] EXCEPT !.stock = r, !.heap = TRUE, !.given = @ \o l]
  <2>1. Contains(s, NewLine)
    BY <1>2 DEF AnswerLine, Node
  <2>2. n \in 1..Len(s) /\ n \in 0..Len(s)
    <3>1. n \in 1..Len(s)
      BY <1>1, <2>1, FirstNewLine
    <3> QED BY <3>1
  <2>3. l \in Text /\ r \in Text /\ s = l \o r /\ Len(l) = n
    <3> HIDE DEF n
    <3> QED BY <1>1, <2>2, TextSplit
  <2>4. l # <<>>
    <3> HIDE DEF n
    <3> QED BY <2>2, <2>3, EmptySeq
  <2>5. nodes' = [nodes EXCEPT ![at] = e]
    BY <1>2 DEF AnswerLine, Node, LineEnd, Rest, EndOf
  <2>6. nodes[at].given \o l \in Text
    BY <1>1, <2>3, TextClosed DEF Closed
  <2>7. e \in Nodes /\ e.fd = fd /\ e.stock = r /\ e.given = nodes[at].given \o l
    <3> HIDE DEF l, r
    <3> QED BY <1>1, <2>3, <2>6 DEF Nodes
  <2>8. NodeBecomes(r, nodes[at].given \o l)
    <3> HIDE DEF e, l, r
    <3> QED BY <1>0, <1>1, <2>5, <2>7, NodeExchanged DEF NodeBecomes
  <2>9. last' = [fd |-> fd, ret |-> 1, line |-> SubSeq(s, 1, n - 1)]
    BY <1>2 DEF AnswerLine, Answers, Node, LineEnd, EndOf
  <2>10. l = SubSeq(s, 1, EndOf(s)) /\ last' = [fd |-> fd, ret |-> 1, line |-> SubSeq(s, 1, EndOf(s) - 1)]
    BY <2>9
  <2> HIDE DEF l, r, e, n
  <2> QED BY <1>0, <1>2, <2>1, <2>3, <2>4, <2>8, <2>10
<1>3. CASE AnswerRest
  <2> DEFINE e == [nodes[at] EXCEPT !.stock = <<>>, !.heap = FALSE, !.given = @ \o s]
  <2>1. ~Contains(s, NewLine) /\ s # <<>> /\ nodes' = [nodes EXCEPT ![at] = e]
        /\ last' = [fd |-> fd, ret |-> 1, line |-> s]
    BY <1>3 DEF AnswerRest, Answers, Node
  <2>2. <<>> \in Text /\ s = s \o <<>> /\ nodes[at].given \o s \in Text
    BY <1>1, TextClosed DEF Closed
  <2>3. e \in Nodes /\ e.fd = fd /\ e.stock = <<>> /\ e.given = nodes[at].given \o s
    BY <1>1, <2>2 DEF Nodes
  <2>4. NodeBecomes(<<>>, nodes[at].given \o s)
    <3> HIDE DEF e
    <3> QED BY <1>0, <1>1, <2>1, <2>3, NodeExchanged DEF NodeBecomes
  <2> HIDE DEF e
  <2> QED BY <1>0, <1>1, <1>3, <2>1, <2>2, <2>4
<1> QED BY <1>2, <1>3

\* What a call does with the list: it finds a node from the static pointer on, or adds one.
LEMMA CallChanges ==
  ASSUME IInv, NEW fd \in DOMAIN texts, Call(fd)
  PROVE  /\ pc = "idle" /\ pc' = "find" /\ cut = FALSE /\ list' = at'
         /\ UNCHANGED <<unread, texts, last, cuts, cut>>
         /\ begin' = (IF list = 0 THEN 1 ELSE list) /\ begin' \in Nat /\ begin' \in 1..at'
         /\ at' \in 1..Len(nodes')
         /\ IsList(nodes)' /\ IsList(nodes')
         /\ \/ nodes' = nodes /\ nodes[at'].fd = fd
            \/ /\ Len(nodes') = Len(nodes) + 1 /\ at' = Len(nodes')
               /\ \A m \in 1..Len(nodes) : nodes'[m] = nodes[m]
               /\ \A m \in 1..Len(nodes) : nodes[m].fd = fd => m < begin'
               /\ nodes'[at'].fd = fd /\ nodes'[at'].stock = <<>> /\ nodes'[at'].given = <<>>
<1> DEFINE head  == IF list = 0 THEN 1 ELSE list
           found == Find(fd, head)
           e     == [fd |-> fd, stock |-> <<>>, heap |-> TRUE, given |-> <<>>]
<1>0. /\ pc = "idle" /\ pc' = "find" /\ cut = FALSE /\ begin' = head /\ list' = at'
      /\ UNCHANGED <<unread, texts, last, cuts, cut>>
  BY DEF Call, Calling, IInv, FoundInv, TypeInv
<1>1. Len(nodes) \in Nat /\ nodes \in Seq(Nodes) /\ IsList(nodes)
  BY ListNodes DEF IInv, TypeInv, IsList
<1>2. head \in Nat /\ head >= 1 /\ head <= Len(nodes) + 1
  BY <1>0, <1>1 DEF IInv, PointerInv
<1>3. Nodes' = Nodes
  BY <1>0 DEF Nodes, Text, Chars
<1>4. CASE found = {}
  <2>1. nodes' = Append(nodes, e) /\ at' = Len(nodes) + 1
    BY <1>4 DEF Call
  <2>2. e \in Nodes /\ e.fd = fd /\ e.stock = <<>> /\ e.given = <<>>
    BY TextClosed DEF Nodes, Closed
  <2>3. /\ nodes' \in Seq(Nodes) /\ Len(nodes') = Len(nodes) + 1 /\ nodes'[Len(nodes) + 1] = e
        /\ \A m \in 1..Len(nodes) : nodes'[m] = nodes[m]
    <3> HIDE DEF e
    <3> QED BY <1>1, <2>1, <2>2, AppendProperties
  <2>4. \A m \in 1..Len(nodes) : nodes[m].fd = fd => m < head
    BY <1>1, <1>2, <1>4 DEF Find
  <2>5. IsList(nodes)' /\ IsList(nodes')
    BY <1>3, <2>3 DEF IsList
  <2> HIDE DEF e
  <2> QED BY <1>0, <1>1, <1>2, <2>1, <2>2, <2>3, <2>4, <2>5
<1>5. CASE found # {}
  <2>1. found \subseteq Nat /\ \A m \in found : m \in 1..Len(nodes) /\ head <= m /\ nodes[m].fd = fd
    BY <1>1, <1>2 DEF Find
  <2>2. nodes' = nodes /\ at' = CHOOSE m \in found : \A k \in found : m <= k
    BY <1>5 DEF Call
  <2>3. at' \in found
    <3> HIDE DEF found
    <3>1. \E m \in found : \A k \in found : m <= k
      BY <1>5, <2>1, LeastNat
    <3> QED BY <2>2, <3>1
  <2>4. at' \in 1..Len(nodes) /\ head <= at' /\ nodes[at'].fd = fd
    <3> HIDE DEF found
    <3> QED BY <2>1, <2>3
  <2>5. IsList(nodes)' /\ IsList(nodes')
    BY <1>1, <1>3, <2>2 DEF IsList
  <2> HIDE DEF found
  <2> QED BY <1>0, <1>1, <1>2, <2>2, <2>4, <2>5
<1> QED BY <1>4, <1>5

-----------------------------------------------------------------------------
\* The invariant is kept by each step: a call, which may add a node at the end,
LEMMA CallKeeps == ASSUME IInv, NEW fd \in DOMAIN texts, Call(fd) PROVE IInv'
<1>c. /\ pc = "idle" /\ pc' = "find" /\ cut = FALSE /\ list' = at'
      /\ UNCHANGED <<unread, texts, last, cuts, cut>>
      /\ begin' = (IF list = 0 THEN 1 ELSE list) /\ begin' \in Nat /\ begin' \in 1..at'
      /\ at' \in 1..Len(nodes') /\ IsList(nodes)' /\ IsList(nodes')
  BY CallChanges
<1>d. \/ nodes' = nodes
      \/ /\ Len(nodes') = Len(nodes) + 1 /\ at' = Len(nodes')
         /\ \A m \in 1..Len(nodes) : nodes'[m] = nodes[m]
         /\ \A m \in 1..Len(nodes) : nodes[m].fd = fd => m < begin'
         /\ nodes'[at'].fd = fd /\ nodes'[at'].stock = <<>> /\ nodes'[at'].given = <<>>
  BY CallChanges
<1>0. Len(nodes) \in Nat /\ Len(nodes') \in Nat /\ First = list /\ First' = begin' /\ list \in Nat
      /\ IsList(nodes) /\ IsList(nodes') /\ (list = 0 => Len(nodes) = 0) /\ list <= Len(nodes)
  <2>1. IsList(nodes) /\ IsList(nodes')
    BY <1>c DEF IInv, TypeInv
  <2>2. list = 0 => Len(nodes) = 0
    BY DEF IInv, PointerInv
  <2> QED BY <1>c, <2>1, <2>2, ListNodes DEF IInv, PointerInv, First
<1>1. TypeInv'
  <2>1. Text' = Text
    BY <1>c DEF Text, Chars
  <2> QED BY <1>c, <2>1 DEF IInv, TypeInv
<1>2. PointerInv'
  BY <1>0, <1>c DEF PointerInv
<1>3. OneEach'
  <2> SUFFICES ASSUME NEW m \in 1..Len(nodes'), NEW k \in 1..Len(nodes'),
                      nodes'[m].fd = nodes'[k].fd, m < k
               PROVE  m < begin'
    BY <1>0 DEF OneEach, OneEachIn
  <2>1. CASE k \in 1..Len(nodes)
    <3>1. m \in 1..Len(nodes) /\ nodes'[m] = nodes[m] /\ nodes'[k] = nodes[k]
      BY <1>0, <1>d, <2>1
    <3>2. m < list
      BY <1>0, <2>1, <3>1 DEF IInv, OneEach, OneEachIn
    <3> QED BY <1>0, <1>c, <3>2
  <2>2. CASE k \notin 1..Len(nodes)
    <3>0. /\ Len(nodes') = Len(nodes) + 1 /\ at' = Len(nodes')
          /\ \A j \in 1..Len(nodes) : nodes'[j] = nodes[j]
          /\ \A j \in 1..Len(nodes) : nodes[j].fd = fd => j < begin'
          /\ nodes'[at'].fd = fd
      BY <1>d, <2>2
    <3>1. k = at' /\ m \in 1..Len(nodes)
      BY <1>0, <2>2, <3>0
    <3>2. nodes[m].fd = fd
      BY <3>0, <3>1
    <3> QED BY <3>0, <3>1, <3>2
  <2> QED BY <2>1, <2>2
<1>4. FoundInv'
  BY <1>c DEF FoundInv
<1>5. EndInv'
  <2> SUFFICES ASSUME begin' > 1, cuts = 0
               PROVE  nodes'[begin'].stock = <<>> /\ unread[nodes'[begin'].fd] = <<>>
    BY <1>0, <1>c DEF EndInv
  <2>1. begin' = list /\ list \in 1..Len(nodes)
    BY <1>0, <1>c
  <2>2. nodes'[list] = nodes[list]
    BY <1>d, <2>1
  <2> QED BY <1>0, <2>1, <2>2 DEF IInv, EndInv
<1>6. TextInv'
  <2> SUFFICES ASSUME NEW d \in DOMAIN texts PROVE TakenIn(nodes', d) = TakenIn(nodes, d)
    BY <1>c DEF IInv, TextInv
  <2>1. CASE nodes' = nodes
    BY <2>1
  <2>2. CASE nodes' # nodes
    <3>1. /\ Len(nodes') = Len(nodes) + 1 /\ \A m \in 1..Len(nodes) : nodes'[m] = nodes[m]
          /\ nodes'[Len(nodes) + 1].given = <<>> /\ nodes'[Len(nodes) + 1].stock = <<>>
      BY <1>d, <2>2
    <3> QED BY <1>0, <3>1, TakenMore
  <2> QED BY <2>1, <2>2
<1> QED BY <1>1, <1>2, <1>3, <1>4, <1>5, <1>6 DEF IInv

\* a read, which moves text to the node,
LEMMA ReadKeeps == ASSUME IInv, NEW n \in 1..BuffSize, Read(n) PROVE IInv'
<1>1. PICK u \in Text, v \in Text :
           /\ unread[nodes[at].fd] = u \o v /\ unread' = [unread EXCEPT ![nodes[at].fd] = v]
           /\ u # <<>>
           /\ NodeBecomes(nodes[at].stock \o u, nodes[at].given)
           /\ pc' = "answer" => Contains(u, NewLine)
           /\ pc = "find" /\ pc' \in {"find", "answer"}
           /\ UNCHANGED <<list, begin, at, texts, last, calls, cuts, cut>>
  BY ReadChanges
<1>2. /\ at \in 1..Len(nodes) /\ nodes[at].fd \in DOMAIN texts
      /\ unread[nodes[at].fd] \in Text /\ nodes[at].stock \in Text
      /\ Len(nodes) \in Nat /\ First = begin /\ begin \in 1..at
      /\ \A m \in 1..Len(nodes) : m > at => nodes[m].fd # nodes[at].fd
  BY <1>1, NodeAtHand
<1>3. /\ IsList(nodes)' /\ IsList(nodes') /\ Len(nodes') = Len(nodes)
      /\ \A m \in 1..Len(nodes) : m # at => nodes'[m] = nodes[m]
      /\ nodes'[at].fd = nodes[at].fd /\ nodes'[at].stock = nodes[at].stock \o u
      /\ nodes'[at].given = nodes[at].given /\ \A m \in 1..Len(nodes) : nodes'[m].fd = nodes[m].fd
  BY <1>1 DEF NodeBecomes
<1>4. First' = First
  BY <1>1 DEF First
<1>5. unread \in [DOMAIN texts -> Text] /\ IsList(nodes) /\ unread' \in [DOMAIN texts -> Text]
      /\ unread'[nodes[at].fd] = v /\ \A d \in DOMAIN texts : d # nodes[at].fd => unread'[d] = unread[d]
  BY <1>1, <1>2 DEF IInv, TypeInv
<1>6. TypeInv'
  <2>1. Text' = Text
    BY DEF Text, Chars
  <2> QED BY <1>1, <1>3, <1>5, <2>1 DEF IInv, TypeInv
<1>7. PointerInv'
  BY <1>1, <1>2, <1>3 DEF IInv, PointerInv
<1>8. OneEach'
  BY <1>3, <1>4 DEF IInv, OneEach, OneEachIn
<1>9. FoundInv'
  <2>1. ~cut'
    BY <1>1 DEF IInv, TypeInv, FoundInv
  <2>2. pc' = "answer" => Contains(nodes'[at].stock, NewLine)
    BY <1>1, <1>2, <1>3, TextContains
  <2> QED BY <1>1, <2>1, <2>2 DEF FoundInv
<1>10. EndInv'
  <2> SUFFICES ASSUME First > 1, cuts = 0
               PROVE  nodes'[First].stock = <<>> /\ unread'[nodes'[First].fd] = <<>>
    BY <1>1, <1>4 DEF EndInv
  <2>1. nodes[First].stock = <<>> /\ unread[nodes[First].fd] = <<>>
    BY DEF IInv, EndInv
  <2>2. unread[nodes[at].fd] # <<>>
    BY <1>1, TextContains
  <2>3. First # at /\ First \in 1..Len(nodes) /\ nodes[First].fd # nodes[at].fd
    BY <1>2, <2>1, <2>2
  <2>4. nodes'[First] = nodes[First]
    BY <1>3, <2>3
  <2>5. nodes[First].fd \in DOMAIN texts
    BY <1>5, <2>3, ListNodes
  <2> QED BY <1>5, <2>1, <2>3, <2>4, <2>5
<1>11. TextInv'
  <2> SUFFICES ASSUME NEW d \in DOMAIN texts PROVE texts[d] = TakenIn(nodes', d) \o unread'[d]
    BY <1>1 DEF TextInv
  <2>1. texts[d] = TakenIn(nodes, d) \o unread[d]
    BY DEF IInv, TextInv
  <2>2. /\ TakenIn(nodes', nodes[at].fd) = TakenIn(nodes, nodes[at].fd) \o u
        /\ \A f : f # nodes[at].fd => TakenIn(nodes', f) = TakenIn(nodes, f)
    BY <1>2, <1>3, <1>5, TakenLonger
  <2>3. CASE d = nodes[at].fd
    <3>1. TakenIn(nodes, d) \in Text
      BY <1>5, TakenType
    <3>2. (TakenIn(nodes, d) \o u) \o v = TakenIn(nodes, d) \o (u \o v)
      BY <3>1, TextClosed DEF Closed
    <3> QED BY <1>1, <1>5, <2>1, <2>2, <2>3, <3>2
  <2>4. CASE d # nodes[at].fd
    BY <1>5, <2>1, <2>2, <2>4
  <2> QED BY <2>3, <2>4
<1> QED BY <1>6, <1>7, <1>8, <1>9, <1>10, <1>11 DEF IInv

\* a line, which the node gives out while the pointer is put back,
LEMMA AnswerKeeps == ASSUME IInv, AnswerLine \/ AnswerRest PROVE IInv'
<1>1. PICK l \in Text, r \in Text :
        /\ nodes[at].stock = l \o r /\ l # <<>>
        /\ NodeBecomes(r, nodes[at].given \o l)
        /\ pc = "answer" /\ pc' = "idle" /\ cut' = FALSE /\ list' = begin
        /\ UNCHANGED <<begin, at, unread, texts, calls, cuts>>
  BY AnswerChanges
<1>2. /\ at \in 1..Len(nodes) /\ nodes[at].given \in Text /\ nodes[at].stock \in Text
      /\ Len(nodes) \in Nat /\ First = begin /\ begin \in 1..at
  BY <1>1, NodeAtHand
<1>3. /\ IsList(nodes)' /\ IsList(nodes') /\ Len(nodes') = Len(nodes)
      /\ \A m \in 1..Len(nodes) : m # at => nodes'[m] = nodes[m]
      /\ nodes'[at].fd = nodes[at].fd /\ nodes'[at].stock = r
      /\ nodes'[at].given = nodes[at].given \o l /\ \A m \in 1..Len(nodes) : nodes'[m].fd = nodes[m].fd
  BY <1>1 DEF NodeBecomes
<1>4. First' = First
  BY <1>1, <1>2 DEF First
<1>6. TypeInv'
  <2>1. Text' = Text
    BY DEF Text, Chars
  <2> QED BY <1>1, <1>3, <2>1 DEF IInv, TypeInv
<1>7. PointerInv'
  BY <1>1, <1>2, <1>3 DEF IInv, PointerInv
<1>8. OneEach'
  BY <1>3, <1>4 DEF IInv, OneEach, OneEachIn
<1>9. FoundInv'
  BY <1>1 DEF FoundInv
<1>10. EndInv'
  <2> SUFFICES ASSUME First > 1, cuts = 0
               PROVE  nodes'[First].stock = <<>> /\ unread[nodes'[First].fd] = <<>>
    BY <1>1, <1>4 DEF EndInv
  <2>1. nodes[First].stock = <<>> /\ unread[nodes[First].fd] = <<>>
    BY DEF IInv, EndInv
  <2>2. nodes[at].stock # <<>>
    BY <1>1, TextContains
  <2>3. First # at /\ First \in 1..Len(nodes)
    BY <1>2, <2>1, <2>2
  <2> QED BY <1>3, <2>1, <2>3
<1>11. TextInv'
  <2> SUFFICES ASSUME NEW d \in DOMAIN texts PROVE TakenIn(nodes', d) = TakenIn(nodes, d)
    BY <1>1 DEF IInv, TextInv
  <2>1. (nodes[at].given \o l) \o r = nodes[at].given \o nodes[at].stock
    <3>1. (nodes[at].given \o l) \o r = nodes[at].given \o (l \o r)
      BY <1>2, TextClosed DEF Closed
    <3> QED BY <1>1, <3>1
  <2>2. \A m \in 1..Len(nodes) : /\ nodes'[m].fd = nodes[m].fd
                                 /\ nodes'[m].given \o nodes'[m].stock = nodes[m].given \o nodes[m].stock
    BY <1>2, <1>3, <2>1
  <2>3. IsList(nodes)
    BY DEF IInv, TypeInv
  <2> QED BY <1>3, <2>2, <2>3, TakenSame
<1> QED BY <1>6, <1>7, <1>8, <1>9, <1>10, <1>11 DEF IInv

\* and an end, where the pointer stays at the node.
LEMMA EndKeeps == ASSUME IInv, AnswerEnd PROVE IInv'
<1>1. /\ pc = "answer" /\ nodes[at].stock = <<>> /\ pc' = "idle" /\ cut' = FALSE
      /\ UNCHANGED <<list, nodes, begin, at, unread, texts, calls, cuts>>
  BY DEF AnswerEnd, Answers, Node
<1>2. at \in 1..Len(nodes) /\ Len(nodes) \in Nat /\ First = begin /\ begin \in 1..at
  BY <1>1, NodeAtHand
<1>3. First' = at
  BY <1>1 DEF First, IInv, PointerInv
<1>4. TypeInv'
  BY <1>1 DEF IInv, TypeInv, IsList, Nodes, Text, Chars
<1>5. PointerInv'
  BY <1>1, <1>2 DEF IInv, PointerInv
<1>6. OneEach'
  <2> SUFFICES ASSUME NEW m \in 1..Len(nodes), NEW k \in 1..Len(nodes),
                      nodes[m].fd = nodes[k].fd, m < k
               PROVE  m < at
    BY <1>1, <1>3 DEF OneEach, OneEachIn
  <2>1. m < begin
    BY <1>2 DEF IInv, OneEach, OneEachIn
  <2> QED BY <1>2, <2>1
<1>7. FoundInv'
  BY <1>1 DEF FoundInv
<1>8. EndInv'
  <2> SUFFICES ASSUME cuts = 0 PROVE unread[nodes[at].fd] = <<>>
    BY <1>1, <1>3 DEF EndInv
  <2>1. ~Contains(nodes[at].stock, NewLine)
    BY <1>1, EmptySeq DEF Contains
  <2> QED BY <1>1, <2>1 DEF IInv, FoundInv
<1>9. TextInv'
  BY <1>1 DEF IInv, TextInv
<1> QED BY <1>4, <1>5, <1>6, <1>7, <1>8, <1>9 DEF IInv

\* All the other steps leave the list alone.
LEMMA StepKeeps == IInv /\ [Next]_vars => IInv'
<1> SUFFICES ASSUME IInv, [Next]_vars PROVE IInv'
  OBVIOUS
<1>1. ASSUME NEW fd \in DOMAIN texts, Call(fd) PROVE IInv'
  BY <1>1, CallKeeps
<1>2. ASSUME NEW n \in 1..BuffSize, Read(n) PROVE IInv'
  BY <1>2, ReadKeeps
<1>3. CASE AnswerLine \/ AnswerRest
  BY <1>3, AnswerKeeps
<1>4. CASE AnswerEnd
  BY <1>4, EndKeeps
<1>5. ASSUME UNCHANGED <<nodes, list, begin, at, unread, texts, cut, cuts, pc>> PROVE IInv'
  BY <1>5 DEF IInv, TypeInv, PointerInv, OneEach, OneEachIn, FoundInv, EndInv, TextInv, First,
              IsList, Nodes, Text, Chars
<1>6. ASSUME NEW fd \in Refused, Refuse(fd) PROVE IInv'
  BY <1>5, <1>6 DEF Refuse
<1>7. CASE UNCHANGED vars
  BY <1>5, <1>7 DEF vars
<1>8. CASE ReadLiteral \/ ReadEnd \/ ReadCut
  <2>1. /\ pc = "find" /\ pc' \in {"abort", "answer"} /\ cuts' \in Nat
        /\ UNCHANGED <<nodes, list, begin, at, unread, texts>>
        /\ cut' => pc' = "answer" /\ cuts' > 0
        /\ cuts' = 0 => cuts = 0
        /\ pc' = "answer" => cut' \/ unread[nodes[at].fd] = <<>>
    BY <1>8 DEF ReadLiteral, ReadEnd, ReadCut, Node, IInv, TypeInv, FoundInv
  <2>2. cut' \in BOOLEAN
    BY <1>8 DEF ReadLiteral, ReadEnd, ReadCut, IInv, TypeInv
  <2>3. First' = First
    BY <2>1 DEF First
  <2>4. TypeInv'
    BY <2>1, <2>2 DEF IInv, TypeInv, IsList, Nodes, Text, Chars
  <2>5. PointerInv'
    BY <2>1 DEF IInv, PointerInv
  <2>6. OneEach' /\ EndInv' /\ TextInv'
    BY <2>1, <2>3 DEF IInv, OneEach, OneEachIn, EndInv, TextInv
  <2>7. FoundInv'
    BY <2>1 DEF FoundInv
  <2> QED BY <2>4, <2>5, <2>6, <2>7 DEF IInv
<1> QED BY <1>1, <1>2, <1>3, <1>4, <1>6, <1>7, <1>8 DEF Next, Work, Finished

\* The list, the static pointer and the texts fit together, in any state of any run.
LEMMA Invariance == Spec => []IInv
<1>1. Init => IInv
  BY Initially
<1>2. IInv /\ [Next]_vars => IInv'
  BY StepKeeps
<1> QED BY <1>1, <1>2, PTL DEF Spec

\* No byte of a descriptor is dropped or doubled, in any order of calls and with reads
\* of any length, for any texts and any BUFF_SIZE.
THEOREM NoByteLost == Spec => []Accounted
<1>1. IInv => Accounted
  <2> SUFFICES ASSUME IInv PROVE Accounted
    OBVIOUS
  <2>1. \A d \in DOMAIN texts : texts[d] = Taken(d) \o unread[d]
    BY DEF IInv, TextInv, TakenIn, Taken
  <2>2. \A m, k \in 1..Len(nodes) : nodes[m].fd = nodes[k].fd /\ m < k => Lost(m)
    BY DEF IInv, OneEach, OneEachIn, Lost
  <2>3. ASSUME First > 1, cuts = 0 PROVE StockOf(nodes[First].fd) \o unread[nodes[First].fd] = <<>>
    <3>1. nodes[First].stock = <<>> /\ unread[nodes[First].fd] = <<>>
      BY <2>3 DEF IInv, EndInv
    <3>2. First \in 1..Len(nodes) /\ First \in Nat /\ ~(First < First)
      BY <2>3, ListNodes DEF IInv, TypeInv, PointerInv, First
    <3>3. StockIn(nodes, First, nodes[First].fd) = <<>>
      BY <3>1, <3>2, StockOne DEF IInv, TypeInv, OneEach
    <3>4. StockOf(nodes[First].fd) = <<>>
      BY <3>3 DEF StockOf, StockIn, Lost
    <3> QED BY <3>1, <3>4, TextClosed DEF Closed
  <2> QED BY <2>1, <2>2, <2>3 DEF Accounted
<1> QED BY <1>1, Invariance, PTL

-----------------------------------------------------------------------------
(***************************************************************************)
(* The reader of lines.  What is left of a descriptor is what its node     *)
(* holds and what is unread.                                               *)
(***************************************************************************)
LEMMA TextParts ==
  ASSUME NEW l \in Text, NEW y \in Text
  PROVE  /\ l \o y \in Text /\ Len(l) \in Nat /\ Len(l) \in 0..Len(l \o y) /\ Len(l \o y) = Len(l) + Len(y)
         /\ SubSeq(l \o y, 1, Len(l)) = l /\ SubSeq(l \o y, Len(l) + 1, Len(l \o y)) = y
<1> DEFINE x == l \o y
           a == SubSeq(x, 1, Len(l))
           b == SubSeq(x, Len(l) + 1, Len(x))
<1>1. /\ x \in Text /\ Len(x) = Len(l) + Len(y) /\ Len(l) \in Nat /\ Len(y) \in Nat
      /\ \A i \in 1..(Len(l) + Len(y)) : x[i] = IF i <= Len(l) THEN l[i] ELSE y[i - Len(l)]
  BY ConcatProperties, LenProperties DEF Text
<1>2. Len(l) \in 0..Len(x)
  BY <1>1
<1>3. a \in Text /\ b \in Text /\ x = a \o b /\ Len(a) = Len(l) /\ \A i \in 1..Len(l) : a[i] = x[i]
  <2> HIDE DEF x
  <2> QED BY <1>1, <1>2, TextSplit
<1>4. a = l
  <2>1. \A i \in 1..Len(a) : a[i] = l[i]
    BY <1>1, <1>3
  <2> HIDE DEF a
  <2> QED BY <1>3, <2>1, SeqEqual DEF Text
<1>5. b = y
  <2> HIDE DEF a, b
  <2>1. l \o b = l \o y
    BY <1>3, <1>4 DEF x
  <2> QED BY <1>3, <2>1, ConcatSimplifications DEF Text
<1> QED BY <1>1, <1>2, <1>4, <1>5

\* A part from the start is a prefix of every longer one.
LEMMA PrefixIs ==
  ASSUME NEW x \in Text, NEW n \in 0..Len(x), NEW m \in 0..n
  PROVE  IsPrefix(SubSeq(x, 1, m), SubSeq(x, 1, n))
<1> DEFINE l == SubSeq(x, 1, m)
           z == SubSeq(x, 1, n)
<1>0. Len(x) \in Nat /\ m \in 0..Len(x) /\ m \in Nat /\ n \in Nat
  BY LenProperties DEF Text
<1>1. l \in Text /\ Len(l) = m /\ \A i \in 1..m : l[i] = x[i]
  BY <1>0, TextSplit
<1>2. z \in Text /\ Len(z) = n /\ \A i \in 1..n : z[i] = x[i]
  BY <1>0, TextSplit
<1> HIDE DEF l, z
<1>3. SubSeq(l, 1, m) = l
  BY <1>1, SubSeqFull DEF Text
<1>4. SubSeq(z, 1, m) \in Text /\ Len(SubSeq(z, 1, m)) = m /\ \A i \in 1..m : SubSeq(z, 1, m)[i] = z[i]
  BY <1>0, <1>2, TextSplit
<1>5. \A i \in 1..m : l[i] = z[i]
  BY <1>0, <1>1, <1>2
<1>6. l = SubSeq(z, 1, m)
  BY <1>1, <1>4, <1>5, SeqEqual DEF Text
<1>7. IsPrefix(l, z)
  BY <1>0, <1>1, <1>2, <1>3, <1>6 DEF IsPrefix
<1> QED BY <1>7 DEF l, z

\* The characters of a text in reverse.
LEMMA ReverseIs ==
  ASSUME NEW x \in Text
  PROVE  /\ Reverse(x) \in Text /\ Len(Reverse(x)) = Len(x) /\ Len(x) \in Nat
         /\ \A i \in 1..Len(x) : Reverse(x)[i] = x[Len(x) - i + 1]
<1>0. Len(x) \in Nat /\ \A i \in 1..Len(x) : x[i] \in Chars
  BY LenProperties, ElementOfSeq DEF Text
<1>1. \A i \in 1..Len(x) : Len(x) - i + 1 \in 1..Len(x)
  BY <1>0
<1>2. Reverse(x) \in [1..Len(x) -> Chars]
  BY <1>0, <1>1 DEF Reverse
<1>3. Listed(Reverse(x), Len(x), Chars) /\ Reverse(x) \in Seq(Chars)
  BY <1>0, <1>2, ListedFunction, SeqDef
<1>4. \A i \in 1..Len(x) : Reverse(x)[i] = x[Len(x) - i + 1]
  BY DEF Reverse
<1> QED BY <1>0, <1>3, <1>4 DEF Listed, Text

\* What is concatenated last is a suffix.
LEMMA SuffixIs ==
  ASSUME NEW x \in Text, NEW y \in Text
  PROVE  IsSuffix(y, x \o y)
<1> DEFINE z == x \o y
           p == Reverse(y)
           q == Reverse(z)
<1>1. /\ z \in Text /\ Len(z) = Len(x) + Len(y) /\ Len(x) \in Nat /\ Len(y) \in Nat
      /\ \A i \in 1..(Len(x) + Len(y)) : z[i] = IF i <= Len(x) THEN x[i] ELSE y[i - Len(x)]
  BY ConcatProperties, LenProperties DEF Text
<1> HIDE DEF z
<1>2. p \in Text /\ Len(p) = Len(y) /\ \A i \in 1..Len(y) : p[i] = y[Len(y) - i + 1]
  BY ReverseIs
<1>3. q \in Text /\ Len(q) = Len(z) /\ \A i \in 1..Len(z) : q[i] = z[Len(z) - i + 1]
  BY <1>1, ReverseIs
<1> HIDE DEF p, q
<1>4. Len(p) \in 0..Len(q)
  BY <1>1, <1>2, <1>3
<1>5. SubSeq(q, 1, Len(p)) \in Text /\ Len(SubSeq(q, 1, Len(p))) = Len(p)
      /\ \A i \in 1..Len(p) : SubSeq(q, 1, Len(p))[i] = q[i]
  BY <1>3, <1>4, TextSplit
<1>6. ASSUME NEW i \in 1..Len(p) PROVE p[i] = q[i]
  <2>1. p[i] = y[Len(y) - i + 1] /\ i \in 1..Len(z) /\ q[i] = z[Len(z) - i + 1]
    BY <1>1, <1>2, <1>3
  <2>2. Len(z) - i + 1 \in 1..(Len(x) + Len(y)) /\ ~(Len(z) - i + 1 <= Len(x))
        /\ (Len(z) - i + 1) - Len(x) = Len(y) - i + 1
    BY <1>1, <1>2
  <2> QED BY <1>1, <2>1, <2>2
<1>7. p = SubSeq(q, 1, Len(p))
  BY <1>2, <1>5, <1>6, SeqEqual DEF Text
<1>8. SubSeq(p, 1, Len(p)) = p
  BY <1>2, SubSeqFull DEF Text
<1>9. IsPrefix(p, q)
  BY <1>4, <1>7, <1>8 DEF IsPrefix
<1> QED BY <1>9 DEF IsSuffix, p, q, z

\* Of a text that goes on behind a part with a newline, the first line is in that part.
LEMMA LineIsInPart ==
  ASSUME NEW s \in Text, NEW y \in Text, Contains(s, NewLine)
  PROVE  /\ Contains(s \o y, NewLine) /\ EndOf(s \o y) = EndOf(s)
<1>1. /\ Len(s) \in Nat /\ Len(y) \in Nat /\ Len(s \o y) = Len(s) + Len(y) /\ s \o y \in Text
      /\ \A i \in 1..(Len(s) + Len(y)) : (s \o y)[i] = IF i <= Len(s) THEN s[i] ELSE y[i - Len(s)]
  BY ConcatProperties, LenProperties DEF Text
<1>2. /\ EndOf(s) \in 1..Len(s) /\ s[EndOf(s)] = NewLine
      /\ \A i \in 1..Len(s) : i < EndOf(s) => s[i] # NewLine
  BY FirstNewLine
<1>3. EndOf(s) \in 1..Len(s \o y) /\ (s \o y)[EndOf(s)] = NewLine
  BY <1>1, <1>2
<1>4. Contains(s \o y, NewLine)
  BY <1>3 DEF Contains
<1>5. /\ EndOf(s \o y) \in 1..Len(s \o y) /\ (s \o y)[EndOf(s \o y)] = NewLine
      /\ \A i \in 1..Len(s \o y) : i < EndOf(s \o y) => (s \o y)[i] # NewLine
  BY <1>1, <1>4, FirstNewLine
<1>6. ~(EndOf(s) < EndOf(s \o y))
  BY <1>3, <1>5
<1>7. ~(EndOf(s \o y) < EndOf(s))
  <2> SUFFICES ASSUME EndOf(s \o y) < EndOf(s) PROVE FALSE
    OBVIOUS
  <2> DEFINE e == EndOf(s \o y)
  <2>1. e \in 1..Len(s) /\ e \in 1..(Len(s) + Len(y)) /\ e < EndOf(s) /\ (s \o y)[e] = NewLine
    BY <1>1, <1>2, <1>5
  <2> HIDE DEF e
  <2>2. s[e] = NewLine
    BY <1>1, <2>1
  <2> QED BY <1>2, <2>1, <2>2
<1> QED BY <1>2, <1>4, <1>5, <1>6, <1>7

\* The reader's own copies of the operators.
LEMMA ReaderWords ==
  /\ \A x : Reader!First(x) = IF Contains(x, NewLine) THEN SubSeq(x, 1, EndOf(x)) ELSE x
  /\ \A x : Reader!LineOf(x) = IF x[Len(x)] = NewLine THEN SubSeq(x, 1, Len(x) - 1) ELSE x
  /\ \A x, y : Reader!IsPrefix(x, y) <=> IsPrefix(x, y)
  /\ \A x, y : Reader!IsSuffix(x, y) <=> IsSuffix(x, y)
<1>1. \A x : Reader!First(x) = IF Contains(x, NewLine) THEN SubSeq(x, 1, EndOf(x)) ELSE x
  BY DEF Reader!First, Reader!Contains, Reader!SelectInSeq, Reader!Min, Contains, EndOf, SelectInSeq, Min
<1>2. \A x : Reader!LineOf(x) = IF x[Len(x)] = NewLine THEN SubSeq(x, 1, Len(x) - 1) ELSE x
  BY DEF Reader!LineOf, Reader!Last, Reader!Front
<1>3. \A x, y : Reader!IsPrefix(x, y) <=> IsPrefix(x, y)
  BY DEF Reader!IsPrefix, IsPrefix
<1>4. \A x, y : Reader!IsSuffix(x, y) <=> IsSuffix(x, y)
  BY DEF Reader!IsSuffix, Reader!IsPrefix, Reader!Reverse, IsSuffix, IsPrefix, Reverse
<1> QED BY <1>1, <1>2, <1>3, <1>4

\* The line of a text that begins with s, a part with a newline.
LEMMA FirstIsLine ==
  ASSUME NEW s \in Text, NEW y \in Text, Contains(s, NewLine), NEW l, l = SubSeq(s, 1, EndOf(s))
  PROVE  /\ Reader!First(s \o y) = l
         /\ Reader!LineOf(l) = SubSeq(s, 1, EndOf(s) - 1)
<1> DEFINE e == EndOf(s)
<1>0. /\ e \in 1..Len(s) /\ s[e] = NewLine /\ Len(s) \in Nat /\ e \in 0..Len(s) /\ e - 1 \in 0..Len(s)
      /\ e - 1 \in 0..e
  <2>1. e \in 1..Len(s) /\ s[e] = NewLine /\ Len(s) \in Nat
    BY FirstNewLine, LenProperties DEF Text
  <2> HIDE DEF e
  <2> QED BY <2>1
<1>1. Contains(s \o y, NewLine) /\ EndOf(s \o y) = e
  BY LineIsInPart
<1> HIDE DEF e
<1>2. Reader!First(s \o y) = SubSeq(s \o y, 1, e)
  BY <1>1, ReaderWords
<1>3. l = SubSeq(s, 1, e) /\ l \in Text /\ Len(l) = e /\ \A i \in 1..e : l[i] = s[i]
  <2>1. l = SubSeq(s, 1, e)
    BY DEF e
  <2> QED BY <1>0, <2>1, TextSplit
<1>4. SubSeq(s \o y, 1, e) = l
  <2>1. 1 \in 1..Len(s) /\ e \in 1..Len(s)
    BY <1>0
  <2> QED BY <1>3, <2>1, SubSeqOfConcat1 DEF Text
<1>5. Reader!LineOf(l) = SubSeq(l, 1, e - 1)
  <2>1. Len(l) = e /\ l[Len(l)] = NewLine
    <3>1. e \in 1..e
      BY <1>0
    <3> QED BY <1>0, <1>3, <3>1
  <2> QED BY <2>1, ReaderWords
<1>6. SubSeq(l, 1, e - 1) = SubSeq(s, 1, e - 1)
  <2> DEFINE a == SubSeq(l, 1, e - 1)
             b == SubSeq(s, 1, e - 1)
  <2>1. a \in Text /\ Len(a) = e - 1 /\ \A i \in 1..(e - 1) : a[i] = l[i]
    BY <1>0, <1>3, TextSplit
  <2>2. b \in Text /\ Len(b) = e - 1 /\ \A i \in 1..(e - 1) : b[i] = s[i]
    BY <1>0, TextSplit
  <2>3. \A i \in 1..(e - 1) : l[i] = s[i]
    <3>1. \A i \in 1..(e - 1) : i \in 1..e
      BY <1>0
    <3> QED BY <1>3, <3>1
  <2> HIDE DEF a, b
  <2>4. a = b
    BY <2>1, <2>2, <2>3, SeqEqual DEF Text
  <2> QED BY <2>4 DEF a, b
<1> QED BY <1>2, <1>4, <1>5, <1>6 DEF e

\* Text without a newline is all of the line, or the part of it that was there.
LEMMA PartOfLine ==
  ASSUME NEW s \in Text, NEW y \in Text, ~Contains(s, NewLine), s # <<>>
  PROVE  /\ y = <<>> => Reader!First(s \o y) = s
         /\ IsPrefix(s, Reader!First(s \o y))
         /\ Reader!LineOf(s) = s
<1> DEFINE x == s \o y
<1>0. /\ x \in Text /\ Len(s) \in Nat /\ Len(s) \in 0..Len(x) /\ Len(x) = Len(s) + Len(y)
      /\ SubSeq(x, 1, Len(s)) = s /\ Len(s) > 0 /\ Len(x) \in Nat /\ Len(y) \in Nat
  <2>1. Len(s) \in Nat \ {0} /\ Len(y) \in Nat
    BY EmptySeq, LenProperties DEF Text
  <2>2. Len(s) > 0
    BY <2>1
  <2>3. /\ x \in Text /\ Len(s) \in 0..Len(x) /\ Len(x) = Len(s) + Len(y) /\ SubSeq(x, 1, Len(s)) = s
    BY TextParts
  <2>4. Len(x) \in Nat
    BY <2>3, LenProperties DEF Text
  <2> HIDE DEF x
  <2> QED BY <2>1, <2>2, <2>3, <2>4
<1>1. \A i \in 1..Len(s) : x[i] = s[i] /\ s[i] # NewLine
  <2>1. \A i \in 1..(Len(s) + Len(y)) : x[i] = IF i <= Len(s) THEN s[i] ELSE y[i - Len(s)]
    BY ConcatProperties DEF Text
  <2> HIDE DEF x
  <2> QED BY <1>0, <2>1 DEF Contains
<1>2. y = <<>> => x = s
  BY TextClosed DEF Closed
<1> HIDE DEF x
<1>3. IsPrefix(s, Reader!First(x)) /\ (y = <<>> => Reader!First(x) = s)
  <2>1. CASE Contains(x, NewLine)
    <3>1. EndOf(x) \in 1..Len(x) /\ x[EndOf(x)] = NewLine
      BY <1>0, <2>1, FirstNewLine
    <3>2. EndOf(x) \in 0..Len(x) /\ Len(s) \in 0..EndOf(x)
      BY <1>0, <1>1, <3>1
    <3>3. Reader!First(x) = SubSeq(x, 1, EndOf(x))
      BY <2>1, ReaderWords
    <3>4. IsPrefix(SubSeq(x, 1, Len(s)), SubSeq(x, 1, EndOf(x)))
      BY <1>0, <3>2, PrefixIs
    <3>5. y # <<>>
      BY <1>2, <2>1
    <3> QED BY <1>0, <3>3, <3>4, <3>5
  <2>2. CASE ~Contains(x, NewLine)
    <3>1. Reader!First(x) = x
      BY <2>2, ReaderWords
    <3>2. SubSeq(x, 1, Len(x)) = x
      BY <1>0, SubSeqFull DEF Text
    <3>3. Len(x) \in 0..Len(x)
      BY <1>0
    <3>4. IsPrefix(SubSeq(x, 1, Len(s)), SubSeq(x, 1, Len(x)))
      BY <1>0, <3>3, PrefixIs
    <3> QED BY <1>0, <1>2, <3>1, <3>2, <3>4
  <2> QED BY <2>1, <2>2
<1>4. Reader!LineOf(s) = s
  <2>1. Len(s) \in 1..Len(s)
    BY <1>0
  <2> QED BY <1>1, <2>1, ReaderWords
<1> QED BY <1>3, <1>4 DEF x

-----------------------------------------------------------------------------
LeftOf(d) == StockIn(nodes, First, d) \o unread[d]

\* What the reader has for left.
Left == [d \in DOMAIN texts |-> StockOf(d) \o unread[d]]

\* The refinement mapping, descriptor by descriptor.
LEMMA LeftIs ==
  /\ Left = [d \in DOMAIN texts |-> LeftOf(d)]
  /\ Left' = [d \in DOMAIN texts' |-> LeftOf(d)']
  BY DEF Left, LeftOf, StockOf, StockIn, Lost

\* What the invariant says of what is left.
LEMMA StockKnown ==
  ASSUME IInv
  PROVE  /\ First \in Nat /\ IsList(nodes)
         /\ \A m \in 1..Len(nodes) : ~(m < First) => StockIn(nodes, First, nodes[m].fd) = nodes[m].stock
         /\ \A d : (\A m \in 1..Len(nodes) : nodes[m].fd = d => m < First) => StockIn(nodes, First, d) = <<>>
         /\ \A d : StockIn(nodes, First, d) \in Text
<1>1. First \in Nat /\ IsList(nodes) /\ OneEachIn(nodes, First)
  BY DEF IInv, TypeInv, PointerInv, OneEach, First
<1> QED BY <1>1, StockOne, StockNone, StockType

\* Nodes of other descriptors do not matter.
LEMMA StockSame ==
  ASSUME NEW ns, NEW ms, Len(ms) = Len(ns), NEW first, NEW d,
         \A m \in 1..Len(ns) : ms[m].fd = ns[m].fd /\ (ns[m].fd = d => ms[m].stock = ns[m].stock)
  PROVE  StockIn(ms, first, d) = StockIn(ns, first, d)
<1>1. [m \in 1..Len(ms) |-> IF ms[m].fd = d /\ ~(m < first) THEN ms[m].stock ELSE <<>>]
      = [m \in 1..Len(ns) |-> IF ns[m].fd = d /\ ~(m < first) THEN ns[m].stock ELSE <<>>]
  OBVIOUS
<1> QED BY <1>1 DEF StockIn

\* The node at hand holds what is read ahead of its descriptor.
LEMMA StockAtHand ==
  ASSUME IInv, pc # "idle"
  PROVE  StockIn(nodes, First, nodes[at].fd) = nodes[at].stock
<1>1. at \in 1..Len(nodes) /\ ~(at < First)
  BY NodeAtHand
<1> QED BY <1>1, StockKnown

\* A call leaves all as it is.
LEMMA CallLeaves ==
  ASSUME IInv, IInv', NEW fd \in DOMAIN texts, Call(fd), NEW d
  PROVE  StockIn(nodes', First', d) = StockIn(nodes, First, d)
<1>c. /\ pc = "idle" /\ pc' = "find" /\ begin' = (IF list = 0 THEN 1 ELSE list)
      /\ IsList(nodes') /\ at' \in 1..Len(nodes')
  BY CallChanges
<1>d. \/ nodes' = nodes
      \/ /\ Len(nodes') = Len(nodes) + 1 /\ at' = Len(nodes')
         /\ \A m \in 1..Len(nodes) : nodes'[m] = nodes[m]
         /\ nodes'[at'].stock = <<>>
  BY CallChanges
<1>0. Len(nodes) \in Nat /\ First = list /\ First' = begin' /\ list \in Nat /\ begin' \in Nat
      /\ IsList(nodes) /\ (list = 0 => Len(nodes) = 0) /\ OneEachIn(nodes', First')
  <2>1. IsList(nodes)
    BY DEF IInv, TypeInv
  <2>2. list = 0 => Len(nodes) = 0
    BY DEF IInv, PointerInv
  <2>3. OneEachIn(nodes', First')
    BY DEF IInv, OneEach
  <2> QED BY <1>c, <2>1, <2>2, <2>3, ListNodes DEF IInv, PointerInv, First
<1>1. CASE \E m \in 1..Len(nodes) : nodes[m].fd = d /\ ~(m < First)
  <2>1. PICK m \in 1..Len(nodes) : nodes[m].fd = d /\ ~(m < First)
    BY <1>1
  <2>2. m \in 1..Len(nodes') /\ nodes'[m] = nodes[m] /\ ~(m < First')
    BY <1>0, <1>c, <1>d, <2>1
  <2>3. StockIn(nodes', First', nodes'[m].fd) = nodes'[m].stock
    BY <1>0, <1>c, <2>2, StockOne
  <2> QED BY <2>1, <2>2, <2>3, StockKnown
<1>2. CASE ~\E m \in 1..Len(nodes) : nodes[m].fd = d /\ ~(m < First)
  <2>1. StockIn(nodes, First, d) = <<>>
    BY <1>2, StockKnown
  <2>2. CASE nodes' = nodes
    <3>1. \A m \in 1..Len(nodes') : nodes'[m].fd = d => m < First'
      BY <1>0, <1>c, <1>2, <2>2
    <3> QED BY <1>0, <1>c, <2>1, <3>1, StockNone
  <2>3. CASE nodes' # nodes /\ nodes'[at'].fd # d
    <3>1. ASSUME NEW m \in 1..Len(nodes'), nodes'[m].fd = d PROVE m < First'
      <4>1. m # at' /\ m \in 1..Len(nodes) /\ nodes'[m] = nodes[m]
        BY <1>0, <1>d, <2>3, <3>1
      <4> QED BY <1>0, <1>c, <1>2, <3>1, <4>1
    <3> QED BY <1>0, <1>c, <2>1, <3>1, StockNone
  <2>4. CASE nodes' # nodes /\ nodes'[at'].fd = d
    <3>1. nodes'[at'].stock = <<>>
      BY <1>d, <2>4
    <3>2. ~(at' < First')
      <4>1. begin' \in 1..at' /\ at' \in 1..Len(nodes')
        BY CallChanges
      <4>2. Len(nodes') \in Nat
        BY <1>c, ListNodes
      <4> QED BY <1>0, <4>1, <4>2
    <3>3. StockIn(nodes', First', nodes'[at'].fd) = nodes'[at'].stock
      BY <1>0, <1>c, <3>2, StockOne
    <3> QED BY <2>1, <2>4, <3>1, <3>3
  <2> QED BY <2>2, <2>3, <2>4
<1> QED BY <1>1, <1>2

\* So does a read, which moves text from what is unread to the node.
LEMMA ReadLeaves ==
  ASSUME IInv, NEW n \in 1..BuffSize, Read(n), NEW d \in DOMAIN texts
  PROVE  LeftOf(d)' = LeftOf(d)
<1>1. PICK u \in Text, v \in Text :
           /\ unread[nodes[at].fd] = u \o v /\ unread' = [unread EXCEPT ![nodes[at].fd] = v]
           /\ NodeBecomes(nodes[at].stock \o u, nodes[at].given)
           /\ pc = "find" /\ pc' \in {"find", "answer"}
           /\ UNCHANGED <<list, begin, at, texts>>
  BY ReadChanges
<1>2. /\ at \in 1..Len(nodes) /\ nodes[at].fd \in DOMAIN texts /\ nodes[at].stock \in Text
      /\ ~(at < First) /\ unread \in [DOMAIN texts -> Text] /\ IInv'
  BY <1>1, NodeAtHand, ReadKeeps DEF IInv, TypeInv
<1>3. /\ IsList(nodes') /\ Len(nodes') = Len(nodes) /\ First' = First
      /\ \A m \in 1..Len(nodes) : m # at => nodes'[m] = nodes[m]
      /\ nodes'[at].fd = nodes[at].fd /\ nodes'[at].stock = nodes[at].stock \o u
      /\ \A m \in 1..Len(nodes) : nodes'[m].fd = nodes[m].fd
  BY <1>1 DEF NodeBecomes, First
<1>4. CASE d = nodes[at].fd
  <2>1. StockIn(nodes, First, d) = nodes[at].stock
    BY <1>1, <1>4, StockAtHand
  <2>2. StockIn(nodes', First', nodes'[at].fd) = nodes'[at].stock
    <3>1. OneEachIn(nodes', First') /\ First' \in Nat
      BY <1>2, <1>3, StockKnown DEF IInv, OneEach
    <3> QED BY <1>2, <1>3, <3>1, StockOne
  <2>3. (nodes[at].stock \o u) \o v = nodes[at].stock \o (u \o v)
    BY <1>2, TextClosed DEF Closed
  <2>4. unread'[d] = v
    BY <1>1, <1>2, <1>4
  <2> QED BY <1>1, <1>3, <1>4, <2>1, <2>2, <2>3, <2>4 DEF LeftOf
<1>5. CASE d # nodes[at].fd
  <2>1. StockIn(nodes', First, d) = StockIn(nodes, First, d)
    <3>1. \A m \in 1..Len(nodes) : nodes'[m].fd = nodes[m].fd
                                   /\ (nodes[m].fd = d => nodes'[m].stock = nodes[m].stock)
      BY <1>3, <1>5
    <3> QED BY <1>3, <3>1, StockSame
  <2>2. unread'[d] = unread[d]
    BY <1>1, <1>2, <1>5
  <2> QED BY <1>3, <2>1, <2>2 DEF LeftOf
<1> QED BY <1>4, <1>5

\* An answer hands out the first line of what is left, or the part of it that was there.
LEMMA AnswerHandsOut ==
  ASSUME IInv, AnswerLine \/ AnswerRest
  PROVE  \E d \in DOMAIN Left : \E n \in 1..Len(Left[d]) : Reader!Line(d, SubSeq(Left[d], 1, n))
<1>0. PICK d : d = nodes[at].fd
  OBVIOUS
<1> USE <1>0
<1> DEFINE s == nodes[at].stock
           y == unread[d]
<1>1. PICK l \in Text, r \in Text :
           /\ s = l \o r /\ l # <<>>
           /\ NodeBecomes(r, nodes[at].given \o l)
           /\ \/ /\ AnswerLine /\ Contains(s, NewLine)
                 /\ l = SubSeq(s, 1, EndOf(s))
                 /\ last' = [fd |-> d, ret |-> 1, line |-> SubSeq(s, 1, EndOf(s) - 1)]
              \/ /\ AnswerRest /\ ~Contains(s, NewLine) /\ l = s /\ r = <<>>
                 /\ last' = [fd |-> d, ret |-> 1, line |-> l]
           /\ pc = "answer" /\ pc' = "idle" /\ cut' = FALSE /\ list' = begin
           /\ UNCHANGED <<begin, at, unread, texts, calls, cuts>>
  BY AnswerChanges
<1>2. /\ at \in 1..Len(nodes) /\ d \in DOMAIN texts /\ s \in Text /\ y \in Text
      /\ ~(at < First) /\ unread \in [DOMAIN texts -> Text] /\ IInv'
  BY <1>1, NodeAtHand, AnswerKeeps DEF IInv, TypeInv
<1>3. /\ IsList(nodes') /\ Len(nodes') = Len(nodes) /\ First' = First
      /\ \A m \in 1..Len(nodes) : m # at => nodes'[m] = nodes[m]
      /\ nodes'[at].fd = d /\ nodes'[at].stock = r
      /\ \A m \in 1..Len(nodes) : nodes'[m].fd = nodes[m].fd
  <2>1. First = begin
    BY <1>1, NodeAtHand
  <2> QED BY <1>1, <2>1 DEF NodeBecomes, First
<1>4. LeftOf(d) = s \o y /\ LeftOf(d)' = r \o y
  <2>1. StockIn(nodes, First, d) = s
    BY <1>1, StockAtHand
  <2>2. StockIn(nodes', First', nodes'[at].fd) = nodes'[at].stock
    <3>1. OneEachIn(nodes', First') /\ First' \in Nat
      BY <1>2, <1>3, StockKnown DEF IInv, OneEach
    <3> QED BY <1>2, <1>3, <3>1, StockOne
  <2> QED BY <1>1, <1>3, <2>1, <2>2 DEF LeftOf
<1>5. ASSUME NEW f \in DOMAIN texts, f # d PROVE LeftOf(f)' = LeftOf(f)
  <2>1. \A m \in 1..Len(nodes) : nodes'[m].fd = nodes[m].fd
                                 /\ (nodes[m].fd = f => nodes'[m].stock = nodes[m].stock)
    BY <1>3, <1>5
  <2>2. StockIn(nodes', First, f) = StockIn(nodes, First, f)
    BY <1>3, <2>1, StockSame
  <2> QED BY <1>1, <1>3, <2>2 DEF LeftOf
<1>6. Left[d] = s \o y /\ DOMAIN Left = DOMAIN texts /\ d \in DOMAIN Left
  BY <1>2, <1>4, LeftIs
<1>7. /\ SubSeq(Left[d], 1, Len(l)) = l /\ SubSeq(Left[d], Len(l) + 1, Len(Left[d])) = r \o y
      /\ Len(l) \in 1..Len(Left[d])
  <2>1. r \o y \in Text /\ s \o y = l \o (r \o y)
    <3>1. l \in Text /\ r \in Text /\ y \in Text /\ s = l \o r
      BY <1>1, <1>2
    <3>2. r \o y \in Text
      BY <3>1, TextClosed DEF Closed
    <3>3. (l \o r) \o y = l \o (r \o y)
      BY <3>1, TextClosed DEF Closed
    <3> QED BY <3>1, <3>2, <3>3
  <2>2. Len(l) # 0
    BY <1>1, EmptySeq DEF Text
  <2>3. Len(l) \in 0..Len(l \o (r \o y)) /\ Len(l) \in Nat /\ SubSeq(l \o (r \o y), 1, Len(l)) = l
        /\ SubSeq(l \o (r \o y), Len(l) + 1, Len(l \o (r \o y))) = r \o y
    BY <2>1, TextParts
  <2>4. Len(l \o (r \o y)) \in Nat
    BY <2>1, LenProperties, TextClosed DEF Text, Closed
  <2>5. Len(l) \in 1..Len(l \o (r \o y))
    BY <2>2, <2>3, <2>4
  <2> QED BY <1>6, <2>1, <2>3, <2>5
<1>8. Left' = [Left EXCEPT ![d] = SubSeq(@, Len(l) + 1, Len(@))]
  <2>1. DOMAIN Left = DOMAIN texts /\ texts' = texts /\ Left' = [f \in DOMAIN texts |-> LeftOf(f)']
    BY <1>1, LeftIs
  <2>2. ASSUME NEW f \in DOMAIN texts
        PROVE LeftOf(f)' = [Left EXCEPT ![d] = SubSeq(@, Len(l) + 1, Len(@))][f]
    <3>1. CASE f = d
      <4>1. LeftOf(f)' = r \o y
        BY <1>4, <3>1
      <4>2. [Left EXCEPT ![d] = SubSeq(@, Len(l) + 1, Len(@))][d] = SubSeq(Left[d], Len(l) + 1, Len(Left[d]))
        BY <1>6
      <4> QED BY <1>7, <3>1, <4>1, <4>2
    <3>2. CASE f # d
      BY <1>5, <2>1, <3>2, LeftIs
    <3> QED BY <3>1, <3>2
  <2> QED BY <2>1, <2>2, LeftIs
<1>9. /\ l = Reader!First(Left[d]) \/ (cut /\ Reader!IsPrefix(l, Reader!First(Left[d])))
      /\ last' = [fd |-> d, ret |-> 1, line |-> Reader!LineOf(l)]
  <2>1. CASE Contains(s, NewLine)
    <3>1. l = SubSeq(s, 1, EndOf(s)) /\ last' = [fd |-> d, ret |-> 1, line |-> SubSeq(s, 1, EndOf(s) - 1)]
      BY <1>1, <2>1
    <3>2. Reader!First(s \o y) = l /\ Reader!LineOf(l) = SubSeq(s, 1, EndOf(s) - 1)
      BY <1>2, <2>1, <3>1, FirstIsLine
    <3> QED BY <1>6, <3>1, <3>2
  <2>2. CASE ~Contains(s, NewLine)
    <3>1. l = s /\ last' = [fd |-> d, ret |-> 1, line |-> l]
      BY <1>1, <2>2
    <3>2. cut \/ y = <<>>
      BY <1>1, <2>2 DEF IInv, FoundInv
    <3>3. /\ y = <<>> => Reader!First(s \o y) = s
          /\ IsPrefix(s, Reader!First(s \o y))
          /\ Reader!LineOf(s) = s
      BY <1>1, <1>2, <2>2, <3>1, PartOfLine
    <3> QED BY <1>6, <3>1, <3>2, <3>3, ReaderWords
  <2> QED BY <2>1, <2>2
<1>10. cut' = FALSE
  BY <1>1
<1> HIDE <1>0
<1>11. Reader!Line(d, SubSeq(Left[d], 1, Len(l)))
  BY <1>7, <1>8, <1>9, <1>10 DEF Reader!Line, Left
<1> HIDE DEF s, y
<1> QED BY <1>6, <1>7, <1>11 DEF Reader!Line

\* The end is said at the end; text of others that was read ahead may go with it.
LEMMA AnswerSaysEnd ==
  ASSUME IInv, AnswerEnd
  PROVE  \E d \in DOMAIN Left : Reader!End(d)
<1>0. PICK d : d = nodes[at].fd
  OBVIOUS
<1> USE <1>0
<1>1. /\ pc = "answer" /\ nodes[at].stock = <<>> /\ pc' = "idle" /\ cut' = FALSE
      /\ UNCHANGED <<list, nodes, begin, at, unread, texts, calls, cuts>>
      /\ last' = [fd |-> d, ret |-> 0, line |-> <<>>]
  BY DEF AnswerEnd, Answers, Node
<1>2. /\ at \in 1..Len(nodes) /\ d \in DOMAIN texts /\ unread[d] \in Text /\ Len(nodes) \in Nat
      /\ First = begin /\ begin \in 1..at /\ at \in Nat
      /\ unread \in [DOMAIN texts -> Text] /\ IInv' /\ IsList(nodes)
      /\ \A m \in 1..Len(nodes) : m > at => nodes[m].fd # d
  BY <1>1, NodeAtHand, EndKeeps DEF IInv, TypeInv
<1>3. First' = at
  BY <1>1 DEF First, IInv, PointerInv
<1>4. OneEachIn(nodes, at) /\ OneEachIn(nodes, begin)
  BY <1>1, <1>2, <1>3 DEF IInv, OneEach
<1>5. LeftOf(d) = unread[d] /\ LeftOf(d)' = unread[d]
  <2>1. StockIn(nodes, First, d) = <<>>
    BY <1>1, StockAtHand
  <2>2. StockIn(nodes, at, d) = <<>>
    BY <1>1, <1>2, <1>4, StockOne
  <2>3. <<>> \o unread[d] = unread[d]
    BY <1>2, TextClosed DEF Closed
  <2> QED BY <1>1, <1>3, <2>1, <2>2, <2>3 DEF LeftOf
<1>6. ASSUME NEW f \in DOMAIN texts PROVE IsSuffix(LeftOf(f)', LeftOf(f))
  <2>0. unread[f] \in Text /\ StockIn(nodes, First, f) \in Text /\ LeftOf(f) \in Text
        /\ LeftOf(f) = <<>> \o LeftOf(f) /\ unread[f] = <<>> \o unread[f] /\ <<>> \in Text
    <3>1. unread[f] \in Text /\ StockIn(nodes, First, f) \in Text
      BY <1>2, StockKnown
    <3>2. LeftOf(f) \in Text
      BY <3>1, TextClosed DEF Closed, LeftOf
    <3> QED BY <3>1, <3>2, TextClosed DEF Closed
  <2>1. StockIn(nodes, at, f) = StockIn(nodes, First, f) \/ StockIn(nodes, at, f) = <<>>
    <3>1. CASE \E m \in 1..Len(nodes) : nodes[m].fd = f /\ ~(m < at)
      <4>1. PICK m \in 1..Len(nodes) : nodes[m].fd = f /\ ~(m < at)
        BY <3>1
      <4>2. StockIn(nodes, at, f) = nodes[m].stock
        BY <1>2, <1>4, <4>1, StockOne
      <4>3. ~(m < First)
        BY <1>2, <4>1
      <4> QED BY <4>1, <4>2, <4>3, StockKnown
    <3>2. CASE ~\E m \in 1..Len(nodes) : nodes[m].fd = f /\ ~(m < at)
      BY <1>2, <3>2, StockNone
    <3> QED BY <3>1, <3>2
  <2>2. LeftOf(f)' = StockIn(nodes, at, f) \o unread[f]
    BY <1>1, <1>3 DEF LeftOf
  <2>3. CASE StockIn(nodes, at, f) = StockIn(nodes, First, f)
    <3>1. LeftOf(f)' = LeftOf(f)
      BY <2>2, <2>3 DEF LeftOf
    <3>2. IsSuffix(LeftOf(f), <<>> \o LeftOf(f))
      BY <2>0, SuffixIs
    <3> QED BY <2>0, <3>1, <3>2
  <2>4. CASE StockIn(nodes, at, f) = <<>>
    <3>1. LeftOf(f)' = unread[f]
      BY <2>0, <2>2, <2>4
    <3>2. IsSuffix(unread[f], StockIn(nodes, First, f) \o unread[f])
      BY <2>0, SuffixIs
    <3> QED BY <3>1, <3>2 DEF LeftOf
  <2> QED BY <2>1, <2>3, <2>4
<1>7. unread[d] = <<>> \/ cut
  <2>1. ~Contains(nodes[at].stock, NewLine)
    BY <1>1, EmptySeq DEF Contains
  <2> QED BY <1>1, <2>1 DEF IInv, FoundInv
<1>8. /\ DOMAIN Left = DOMAIN texts /\ DOMAIN Left' = DOMAIN texts
      /\ Left[d] = unread[d] /\ Left'[d] = unread[d]
      /\ \A f \in DOMAIN texts : Reader!IsSuffix(Left'[f], Left[f])
  <2>1. Left = [f \in DOMAIN texts |-> LeftOf(f)] /\ Left' = [f \in DOMAIN texts |-> LeftOf(f)']
    BY <1>1, LeftIs
  <2>2. \A f \in DOMAIN texts : Left[f] = LeftOf(f) /\ Left'[f] = LeftOf(f)'
    BY <2>1
  <2>3. ASSUME NEW f \in DOMAIN texts PROVE Reader!IsSuffix(Left'[f], Left[f])
    BY <1>6, <2>2, ReaderWords
  <2>4. Left[d] = unread[d] /\ Left'[d] = unread[d]
    BY <1>2, <1>5, <2>2
  <2> QED BY <2>1, <2>3, <2>4
<1>9. Reader!End(d)
  BY <1>1, <1>7, <1>8 DEF Reader!End, Left
<1>10. d \in DOMAIN Left
  BY <1>2, <1>8
<1> QED BY <1>9, <1>10

\* Each step is one of the reader or leaves the reader where it is.
LEMMA StepHandsOut == IInv /\ IInv' /\ [Next]_vars => [Reader!Next]_<<Left, cut, last>>
<1> SUFFICES ASSUME IInv, IInv', [Next]_vars PROVE [Reader!Next]_<<Left, cut, last>>
  OBVIOUS
<1>1. ASSUME NEW fd \in DOMAIN texts, Call(fd) PROVE UNCHANGED <<Left, cut, last>>
  <2>1. UNCHANGED <<unread, texts, cut, last>>
    BY <1>1, CallChanges
  <2>2. \A d : StockIn(nodes', First', d) = StockIn(nodes, First, d)
    BY <1>1, CallLeaves
  <2>3. \A d : LeftOf(d)' = LeftOf(d)
    BY <2>1, <2>2 DEF LeftOf
  <2> QED BY <2>1, <2>3, LeftIs
<1>2. ASSUME NEW n \in 1..BuffSize, Read(n) PROVE UNCHANGED <<Left, cut, last>>
  <2>1. UNCHANGED <<texts, cut, last>>
    BY <1>2 DEF Read
  <2>2. \A d \in DOMAIN texts : LeftOf(d)' = LeftOf(d)
    BY <1>2, ReadLeaves
  <2> QED BY <2>1, <2>2, LeftIs
<1>3. CASE AnswerLine \/ AnswerRest
  BY <1>3, AnswerHandsOut DEF Reader!Next, Left
<1>4. CASE AnswerEnd
  BY <1>4, AnswerSaysEnd DEF Reader!Next, Left
<1>5. ASSUME UNCHANGED <<nodes, texts, unread>>, First' = First PROVE Left' = Left
  BY <1>5 DEF Left, StockOf, Lost
<1>6. ASSUME NEW fd \in Refused, Refuse(fd) PROVE Reader!Next
  <2>1. UNCHANGED <<nodes, texts, unread, list, begin, pc, cut>> /\ last' = [fd |-> fd, ret |-> -1, line |-> <<>>]
    BY <1>6 DEF Refuse
  <2>2. Left' = Left /\ DOMAIN Left = DOMAIN texts
    BY <1>5, <2>1, LeftIs DEF First
  <2>3. fd \notin DOMAIN texts
    BY TextsAssumed DEF IInv, TypeInv
  <2>4. Reader!Refuse
    BY <2>1, <2>2, <2>3 DEF Reader!Refuse, Left
  <2> QED BY <2>4 DEF Reader!Next
<1>7. CASE UNCHANGED vars
  BY <1>5, <1>7 DEF vars, First
<1>8. CASE ReadLiteral \/ ReadEnd
  <2>1. UNCHANGED <<nodes, texts, unread, begin, cut, last>> /\ pc # "idle" /\ pc' # "idle"
    BY <1>8 DEF ReadLiteral, ReadEnd
  <2> QED BY <1>5, <2>1 DEF First
<1>9. CASE ReadCut
  <2>1. UNCHANGED <<nodes, texts, unread, begin, last>> /\ pc = "find" /\ pc' # "idle" /\ cut' = TRUE
    BY <1>9 DEF ReadCut
  <2>2. Left' = Left
    BY <1>5, <2>1 DEF First
  <2>3. ~cut
    BY <2>1 DEF IInv, FoundInv, TypeInv
  <2>4. Reader!Cut
    BY <2>1, <2>2, <2>3 DEF Reader!Cut, Left
  <2> QED BY <2>4 DEF Reader!Next
<1> QED BY <1>1, <1>2, <1>3, <1>4, <1>6, <1>7, <1>8, <1>9 DEF Next, Work, Finished

\* Each call hands out the next line of its descriptor, whole, or says that it is at its
\* end when it is, for any texts, any alternation of descriptors and any BUFF_SIZE.
THEOREM LinesInTurn == Spec => Implements
<1>1. Init => Reader!Init
  <2> SUFFICES ASSUME Init PROVE Reader!Init
    OBVIOUS
  <2>0. IInv /\ nodes = <<>> /\ unread = texts /\ texts \in Texts /\ cut = FALSE /\ last = NoAnswer
    BY Initially DEF Init
  <2>1. ASSUME NEW d \in DOMAIN texts PROVE LeftOf(d) = texts[d]
    <3>1. \A m \in 1..Len(nodes) : nodes[m].fd = d => m < First
      BY <2>0, EmptySeq
    <3>2. StockIn(nodes, First, d) = <<>>
      BY <2>0, <3>1, StockKnown
    <3>3. texts[d] \in Text
      BY <2>0, TextsAssumed
    <3> QED BY <2>0, <3>2, <3>3, TextClosed DEF LeftOf, Closed
  <2>2. Left = texts
    BY <2>0, <2>1, LeftIs, TextsAssumed
  <2> QED BY <2>0, <2>2 DEF Reader!Init, Reader!NoAnswer, NoAnswer, Left
<1>2. IInv /\ IInv' /\ [Next]_vars => [Reader!Next]_<<[d \in DOMAIN texts |-> StockOf(d) \o unread[d]], cut, last>>
  BY StepHandsOut DEF Left
<1>3. QED
  BY <1>1, <1>2, Invariance, PTL DEF Spec, Implements, Reader!Spec
=============================================================================
