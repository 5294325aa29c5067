--------------------------- MODULE FtPrintf_proofs ---------------------------
(***************************************************************************)
(* Proofs about FtPrintf: for any calls, ft_printf stays in its strings but *)
(* for the named ways out, takes the arguments it was given, returns the   *)
(* number of characters it wrote while that is an int and a wide character *)
(* is one byte, and writes what C says, where C says                       *)
(* something and the code is not known to differ.  The format is a string  *)
(* that was made from directives and is read back character by character:  *)
(* the invariant says which directive the position belongs to and what of  *)
(* it was read.  What it rests on: sums and FlattenSeq over the directives *)
(* of a call, the text of a directive (Spelling), numerals and what        *)
(* ft_atoi reads of them (ReadNumber), the lengths of what each conversion *)
(* puts together (WritesCounted), and the texts themselves (ConvC).        *)
(***************************************************************************)
EXTENDS FtPrintf, SequenceTheorems, FiniteSetTheorems, TLAPS

(***************************************************************************)
(* Induction.                                                              *)
(***************************************************************************)

\* Of natural numbers one is the least: the sets 0..x are ordered like x, and finite
\* sets are well-founded.
LEMMA LeastNat == ASSUME NEW T, T \subseteq Nat, T # {} PROVE \E x \in T : \A y \in T : x <= y
<1> DEFINE F == {0..x : x \in T}
<1>1. /\ F \subseteq FiniteSubsetsOf(Nat) /\ F # {}
  <2>1. ASSUME NEW x \in T PROVE 0..x \in FiniteSubsetsOf(Nat)
    <3>1. IsFiniteSet(0..x) BY FS_Interval
    <3>2. 0..x \subseteq Nat  OBVIOUS
    <3> QED BY <3>1, <3>2 DEF FiniteSubsetsOf
  <2> QED BY <2>1
<1>2. PICK s \in F : \A t \in F : ~(<<t, s>> \in StrictSubsetOrdering(Nat))
  <2> HIDE DEF F
  <2> QED BY <1>1, WFMin, FS_StrictSubsetOrderingWellFounded
<1>3. PICK x \in T : s = 0..x
  BY <1>2
<1>4. ASSUME NEW y \in T, y < x PROVE FALSE
  <2>1. 0..y \subseteq 0..x /\ x \in 0..x /\ x \notin 0..y
    BY <1>4
  <2>2. <<0..y, 0..x>> \in StrictSubsetOrdering(Nat)
    BY <2>1 DEF StrictSubsetOrdering
  <2> QED BY <2>2, <1>2, <1>3
<1> QED BY <1>4

\* A set that has 0 and, with each number below n, the next one, has all up to n.
LEMMA Induction ==
  ASSUME NEW n \in Nat, NEW G, 0 \in G, \A j \in 1..n : j - 1 \in G => j \in G
  PROVE  0..n \subseteq G
<1> SUFFICES ASSUME (0..n) \ G # {} PROVE FALSE
  OBVIOUS
<1>1. PICK x \in (0..n) \ G : \A y \in (0..n) \ G : x <= y
  <2>1. (0..n) \ G \subseteq Nat
    OBVIOUS
  <2> QED BY <2>1, LeastNat
<1>2. x \in 1..n /\ x - 1 \in 0..n /\ ~(x <= x - 1)
  BY <1>1
<1> QED BY <1>1, <1>2

\* A set that has each number below which it has all has all up to n.
LEMMA StrongInduction ==
  ASSUME NEW n \in Nat, NEW G, \A m \in 0..n : (\A j \in 0..(m - 1) : j \in G) => m \in G
  PROVE  0..n \subseteq G
<1> SUFFICES ASSUME (0..n) \ G # {} PROVE FALSE
  OBVIOUS
<1>1. PICK x \in (0..n) \ G : \A y \in (0..n) \ G : x <= y
  <2>1. (0..n) \ G \subseteq Nat
    OBVIOUS
  <2> QED BY <2>1, LeastNat
<1>2. \A j \in 0..(x - 1) : j \in 0..n /\ ~(x <= j)
  BY <1>1
<1> QED BY <1>1, <1>2

\* A function that gives each number its value from that of the one before.
Steps(h, n, b, step) == h[0] = b /\ \A j \in 1..n : h[j] = step[j][h[j - 1]]

\* Such a function exists: it is built up to n by induction.
LEMMA Recursion ==
  ASSUME NEW S, NEW b \in S, NEW n \in Nat, NEW step \in [1..n -> [S -> S]]
  PROVE  \E h \in [0..n -> S] : Steps(h, n, b, step)
<1> DEFINE G == {m \in 0..n : \E h \in [0..m -> S] : Steps(h, m, b, step)}
<1>1. 0 \in G
  <2>1. [j \in 0..0 |-> b] \in [0..0 -> S] /\ Steps([j \in 0..0 |-> b], 0, b, step)
    BY DEF Steps
  <2> QED BY <2>1
<1>2. ASSUME NEW m \in 1..n, m - 1 \in G PROVE m \in G
  <2>1. PICK g \in [0..(m - 1) -> S] : Steps(g, m - 1, b, step)
    BY <1>2
  <2>2. PICK x : x = step[m][g[m - 1]]
    OBVIOUS
  <2>3. x \in S /\ m \in Nat
    BY <2>2
  <2> DEFINE h == [j \in 0..m |-> IF j < m THEN g[j] ELSE x]
  <2>4. h \in [0..m -> S] /\ h[0] = b
    BY <2>1, <2>3 DEF Steps
  <2>5. ASSUME NEW j \in 1..m PROVE h[j] = step[j][h[j - 1]]
    <3>1. CASE j < m
      <4>1. h[j] = g[j] /\ h[j - 1] = g[j - 1] /\ j \in 1..(m - 1)
        BY <2>3, <3>1
      <4> QED BY <2>1, <4>1 DEF Steps
    <3>2. CASE j = m
      <4>1. h[j] = x /\ h[j - 1] = g[m - 1]
        BY <2>3, <3>2
      <4> QED BY <2>2, <3>2, <4>1
    <3> QED BY <2>3, <3>1, <3>2
  <2>6. \E f \in [0..m -> S] : Steps(f, m, b, step)
    <3> HIDE DEF h
    <3> QED BY <2>4, <2>5 DEF Steps
  <2> QED BY <2>3, <2>6
<1>3. 0..n \subseteq G
  <2> HIDE DEF G
  <2> QED BY <1>1, <1>2, Induction
<1>4. n \in 0..n
  OBVIOUS
<1> QED BY <1>3, <1>4

-----------------------------------------------------------------------------
(***************************************************************************)
(* FlattenSeq.  Of the sequences of characters it is used only that they   *)
(* can be put one after the other.                                         *)
(***************************************************************************)

\* What is used of Seq.
Closed(S) == /\ <<>> \in S
             /\ \A x, y \in S : x \o y \in S
             /\ \A x \in S : <<>> \o x = x /\ x \o <<>> = x
             /\ \A x, y, z \in S : (x \o y) \o z = x \o (y \o z)

\* Sequences are closed under concatenation, which is associative with <<>> as unit.
LEMMA SeqClosed == ASSUME NEW C PROVE Closed(Seq(C))
<1>1. \A x, y \in Seq(C) : x \o y \in Seq(C)
  BY ConcatProperties
<1>2. \A x \in Seq(C) : <<>> \o x = x /\ x \o <<>> = x
  BY ConcatEmptySeq
<1>3. \A x, y, z \in Seq(C) : (x \o y) \o z = x \o (y \o z)
  BY ConcatAssociative
<1>4. <<>> \in Seq(C)
  BY EmptySeq
<1> QED BY <1>1, <1>2, <1>3, <1>4 DEF Closed

\* g[j] is the first j of n sequences s, one after the other.
Flattens(g, s, n) == g[0] = <<>> /\ \A j \in 1..n : g[j] = g[j - 1] \o s[j]

\* The function FlattenSeq is defined by exists: what the first j texts make together.
LEMMA Flattening ==
  ASSUME NEW S, Closed(S), NEW n \in Nat, NEW s, \A j \in 1..n : s[j] \in S
  PROVE  \E g \in [0..n -> S] : Flattens(g, s, n)
<1> DEFINE step == [j \in 1..n |-> [x \in S |-> x \o s[j]]]
<1>1. \A j \in 1..n : \A x \in S : x \o s[j] \in S
  BY DEF Closed
<1>2. step \in [1..n -> [S -> S]] /\ <<>> \in S
  BY <1>1 DEF Closed
<1>3. \A j \in 1..n : \A x \in S : step[j][x] = x \o s[j]
  OBVIOUS
<1> HIDE DEF step
<1>4. PICK g \in [0..n -> S] : Steps(g, n, <<>>, step)
  BY <1>2, Recursion
<1>5. \A j \in 1..n : g[j - 1] \in S
  OBVIOUS
<1> QED BY <1>3, <1>4, <1>5 DEF Steps, Flattens

\* Two of them are the same where the sequences are.
LEMMA SameUpTo ==
  ASSUME NEW n \in Nat, NEW s, NEW t, NEW g, NEW h, Flattens(g, s, n), Flattens(h, t, n),
         \A j \in 1..n : s[j] = t[j]
  PROVE  \A j \in 0..n : g[j] = h[j]
<1> DEFINE G == {j \in 0..n : g[j] = h[j]}
<1>1. 0 \in G
  BY DEF Flattens
<1>2. ASSUME NEW j \in 1..n, j - 1 \in G PROVE j \in G
  <2>1. g[j] = g[j - 1] \o s[j] /\ h[j] = h[j - 1] \o t[j] /\ s[j] = t[j]
    BY DEF Flattens
  <2>2. g[j - 1] = h[j - 1]
    BY <1>2
  <2>3. g[j] = h[j]
    <3> HIDE DEF G
    <3> QED BY <2>1, <2>2, Zenon
  <2> QED BY <2>3
<1>3. 0..n \subseteq G
  <2> HIDE DEF G
  <2> QED BY <1>1, <1>2, Induction
<1> QED BY <1>3

\* FlattenSeq is the last value of any such function.
LEMMA FlattenIs ==
  ASSUME NEW S, Closed(S), NEW s, NEW n \in Nat, Len(s) = n, n = 0 => s = <<>>,
         \A j \in 1..n : s[j] \in S, NEW g \in [0..n -> S], Flattens(g, s, n)
  PROVE  FlattenSeq(s) = g[n]
<1>1. CASE n = 0
  BY <1>1 DEF FlattenSeq, Flattens
<1>2. CASE n # 0
  <2> DEFINE e == [j \in 1..n |-> g[j]]
  <2>1. e = [j \in 1..n |-> IF j = 1 THEN s[j] ELSE e[j - 1] \o s[j]]
    <3>1. ASSUME NEW j \in 1..n PROVE g[j] = IF j = 1 THEN s[j] ELSE e[j - 1] \o s[j]
      <4>1. CASE j = 1
        <5>1. g[1] = <<>> \o s[1] /\ s[1] \in S
          <6>1. 1 \in 1..n /\ 1 - 1 = 0
            BY <4>1
          <6> QED BY <6>1 DEF Flattens
        <5> QED BY <4>1, <5>1 DEF Closed
      <4>2. CASE j # 1
        <5>1. j - 1 \in 1..n /\ e[j - 1] = g[j - 1]
          BY <4>2
        <5> QED BY <4>2, <5>1 DEF Flattens
      <4> QED BY <4>1, <4>2
    <3> QED BY <3>1
  <2>2. PICK f : /\ f = [j \in 1..n |-> IF j = 1 THEN s[j] ELSE f[j - 1] \o s[j]]
                 /\ FlattenSeq(s) = f[n]
    <3> HIDE DEF e
    <3> QED BY <1>2, <2>1 DEF FlattenSeq
  <2> DEFINE h == [j \in 0..n |-> IF j = 0 THEN <<>> ELSE f[j]]
  <2>3. ASSUME NEW j \in 1..n PROVE h[j] = h[j - 1] \o s[j]
    <3>0. h[j] = f[j] /\ f[j] = IF j = 1 THEN s[j] ELSE f[j - 1] \o s[j]
      <4>1. f[j] = [x \in 1..n |-> IF x = 1 THEN s[x] ELSE f[x - 1] \o s[x]][j]
        BY <2>2
      <4> QED BY <4>1
    <3>1. CASE j = 1
      <4>1. h[j - 1] = <<>> /\ s[j] \in S
        BY <3>1
      <4> QED BY <3>0, <3>1, <4>1 DEF Closed
    <3>2. CASE j # 1
      <4>1. h[j - 1] = f[j - 1]
        BY <3>2
      <4> QED BY <3>0, <3>2, <4>1
    <3> QED BY <3>1, <3>2
  <2>4. Flattens(h, s, n)
    <3>1. h[0] = <<>>
      OBVIOUS
    <3> HIDE DEF h
    <3> QED BY <2>3, <3>1 DEF Flattens
  <2>5. h[n] = g[n] /\ h[n] = f[n]
    <3>1. h[n] = f[n]
      BY <1>2
    <3> HIDE DEF h
    <3>2. n \in 0..n
      OBVIOUS
    <3> QED BY <2>4, <3>1, <3>2, SameUpTo
  <2> QED BY <2>2, <2>5
<1> QED BY <1>1, <1>2
\* Where the pieces of a sequence are: e[j] is how much the first j have.
Ends(e, s, n) == e[0] = 0 /\ \A j \in 1..n : e[j] = e[j - 1] + Len(s[j])

\* The first m pieces and where they are.
Placed(m, g, e, s) ==
  /\ Len(g[m]) = e[m]
  /\ \A j \in 1..m : e[j] <= e[m] /\ \A x \in 1..Len(s[j]) : g[m][e[j - 1] + x] = s[j][x]

\* Each piece is in the whole as it is, behind those before it.
LEMMA Pieces ==
  ASSUME NEW C, NEW n \in Nat, NEW s, \A j \in 1..n : s[j] \in Seq(C),
         NEW g \in [0..n -> Seq(C)], Flattens(g, s, n), NEW e \in [0..n -> Nat], Ends(e, s, n)
  PROVE  Placed(n, g, e, s)
<1> DEFINE G == {m \in 0..n : Placed(m, g, e, s)}
<1>1. 0 \in G
  BY DEF Flattens, Ends, Placed
<1>2. ASSUME NEW m \in 1..n, m - 1 \in G PROVE m \in G
  <2>1. Placed(m - 1, g, e, s) /\ m - 1 \in 0..n /\ m \in 0..n
    BY <1>2
  <2>2. PICK u, v : u = g[m - 1] /\ v = s[m]
    OBVIOUS
  <2>3. u \in Seq(C) /\ v \in Seq(C) /\ g[m] = u \o v
    BY <2>1, <2>2 DEF Flattens
  <2>4. Len(u \o v) = Len(u) + Len(v) /\ Len(u) \in Nat /\ Len(v) \in Nat
    BY <2>3
  <2>5. e[m] = e[m - 1] + Len(v) /\ e[m - 1] = Len(u)
    BY <2>1, <2>2 DEF Ends, Placed
  <2>6. Len(g[m]) = e[m]
    BY <2>3, <2>4, <2>5
  <2>7. ASSUME NEW j \in 1..m
        PROVE  e[j] <= e[m] /\ \A x \in 1..Len(s[j]) : g[m][e[j - 1] + x] = s[j][x]
    <3>1. CASE j = m
      <4>1. ASSUME NEW x \in 1..Len(v) PROVE (u \o v)[Len(u) + x] = v[x]
        BY <2>3, <2>4
      <4>2. e[j] <= e[m]
        BY <3>1, <2>4, <2>5
      <4> QED BY <2>2, <2>3, <2>5, <3>1, <4>1, <4>2
    <3>2. CASE j # m
      <4>1. j \in 1..(m - 1) /\ j \in 1..n /\ j \in 0..n /\ j - 1 \in 0..n
        BY <3>2
      <4>2. e[j] <= e[m - 1] /\ \A x \in 1..Len(s[j]) : u[e[j - 1] + x] = s[j][x]
        BY <2>1, <2>2, <4>1 DEF Placed
      <4>3. e[j] \in Nat /\ e[j - 1] \in Nat /\ e[j] = e[j - 1] + Len(s[j])
        BY <4>1 DEF Ends
      <4>4. \A y \in 1..Len(u) : (u \o v)[y] = u[y]
        BY <2>3, <2>4
      <4>5. ASSUME NEW x \in 1..Len(s[j]) PROVE (u \o v)[e[j - 1] + x] = s[j][x]
        <5>0. Len(s[j]) \in Nat
          BY <4>1
        <5>1. e[j - 1] + x \in 1..Len(u)
          <6>1. PICK l : l = Len(s[j])
            OBVIOUS
          <6>2. PICK k : k = e[j - 1]
            OBVIOUS
          <6>3. x \in 1..l /\ l \in Nat /\ k \in Nat /\ k + l <= Len(u)
            BY <4>2, <4>3, <2>5, <2>4, <5>0, <6>1, <6>2
          <6>4. PICK w : w = Len(u) /\ w \in Nat
            BY <2>4
          <6>5. k + l <= w
            BY <6>3, <6>4
          <6>6. k + x \in 1..w
            BY <6>3, <6>4, <6>5
          <6> QED BY <6>2, <6>4, <6>6
        <5> QED BY <5>1, <4>2, <4>4
      <4>6. e[j] <= e[m]
        BY <4>2, <4>3, <2>4, <2>5
      <4> QED BY <2>3, <4>5, <4>6
    <3> QED BY <3>1, <3>2
  <2> QED BY <2>1, <2>6, <2>7 DEF Placed
<1>3. 0..n \subseteq G
  <2> HIDE DEF G
  <2> QED BY <1>1, <1>2, Induction
<1>4. n \in 0..n
  OBVIOUS
<1> QED BY <1>3, <1>4

-----------------------------------------------------------------------------
(***************************************************************************)
(* Sums, powers and numerals: functions that the model gives by recursion. *)
(***************************************************************************)

\* What Sums gives.
LEMMA SumsOf ==
  ASSUME NEW t, NEW n \in Nat, Len(t) = n, \A j \in 1..n : t[j] \in Nat
  PROVE  /\ Sums(t) \in [0..n -> Nat] /\ Sums(t)[0] = 0
         /\ \A j \in 1..n : Sums(t)[j] = Sums(t)[j - 1] + t[j]
<1> DEFINE step == [j \in 1..n |-> [x \in Nat |-> x + t[j]]]
<1>1. step \in [1..n -> [Nat -> Nat]] /\ 0 \in Nat
  OBVIOUS
<1>2. \A j \in 1..n : \A x \in Nat : step[j][x] = x + t[j]
  OBVIOUS
<1> HIDE DEF step
<1>3. PICK h \in [0..n -> Nat] : Steps(h, n, 0, step)
  BY <1>1, Recursion
<1>4. h = [m \in 0..n |-> IF m = 0 THEN 0 ELSE h[m - 1] + t[m]]
  <2>1. ASSUME NEW m \in 0..n PROVE h[m] = IF m = 0 THEN 0 ELSE h[m - 1] + t[m]
    <3>1. CASE m = 0
      BY <3>1, <1>3 DEF Steps
    <3>2. CASE m # 0
      <4>1. m \in 1..n /\ h[m - 1] \in Nat
        BY <3>2
      <4> QED BY <3>2, <4>1, <1>2, <1>3 DEF Steps
    <3> QED BY <3>1, <3>2
  <2> QED BY <2>1
<1>5. PICK f : f = [m \in 0..n |-> IF m = 0 THEN 0 ELSE f[m - 1] + t[m]] /\ Sums(t) = f
  BY <1>4 DEF Sums
<1>6. f[0] = 0 /\ \A j \in 1..n : f[j] = f[j - 1] + t[j]
  <2>1. ASSUME NEW m \in 0..n PROVE f[m] = IF m = 0 THEN 0 ELSE f[m - 1] + t[m]
    <3>1. f[m] = [x \in 0..n |-> IF x = 0 THEN 0 ELSE f[x - 1] + t[x]][m]
      BY <1>5
    <3> QED BY <3>1
  <2> QED BY <2>1
<1>7. \A m \in 0..n : f[m] \in Nat
  <2> DEFINE G == {m \in 0..n : f[m] \in Nat}
  <2>0. 0 \in G
    BY <1>6
  <2>1. \A m \in 1..n : m - 1 \in G => m \in G
    BY <1>6
  <2>2. 0..n \subseteq G
    <3> HIDE DEF G
    <3> QED BY <2>0, <2>1, Induction
  <2> QED BY <2>2
<1>8. f \in [0..n -> Nat]
  BY <1>5, <1>7
<1> QED BY <1>5, <1>6, <1>8

\* The sums grow.
LEMMA SumsGrow ==
  ASSUME NEW n \in Nat, NEW e \in [0..n -> Nat], \A j \in 1..n : e[j - 1] <= e[j]
  PROVE  \A j \in 0..n : e[j] <= e[n]
<1> DEFINE G == {m \in 0..n : \A j \in 0..m : e[j] <= e[m]}
<1>1. 0 \in G
  OBVIOUS
<1>2. ASSUME NEW m \in 1..n, m - 1 \in G PROVE m \in G
  <2>1. ASSUME NEW j \in 0..m PROVE e[j] <= e[m]
    <3>1. CASE j = m
      BY <3>1
    <3>2. CASE j # m
      <4>1. j \in 0..(m - 1) /\ e[j] <= e[m - 1] /\ e[m - 1] <= e[m]
        BY <1>2, <3>2
      <4>2. e[j] \in Nat /\ e[m - 1] \in Nat /\ e[m] \in Nat
        BY <4>1
      <4> QED BY <4>1, <4>2
    <3> QED BY <3>1, <3>2
  <2> QED BY <2>1
<1>3. 0..n \subseteq G
  <2> HIDE DEF G
  <2> QED BY <1>1, <1>2, Induction
<1>4. n \in 0..n
  OBVIOUS
<1> QED BY <1>3, <1>4

\* The characters: any, and those the model names (of which the provers do not
\* know that they are strings).
Literals == {"0", "1", "2", "3", "4", "5", "6", "7", "8", "9", "a", "b", "c", "d", "e", "f",
             "A", "B", "C", "D", "E", "F", "h", "i", "j", "l", "n", "o", "p", "s", "u", "x", "z",
             "O", "S", "U", "X", "#", "-", "+", " ", "%", ".", "*", "(", ")"}
Char     == STRING \cup Literals

\* The digits of the bases there are.
DigitSets == {Base(2), Base(8), Base(10), Hex, BigHex}
\* What is used of a sequence of digits: there are two at least, all literals and different, and 0 comes first.
Digital(digits) ==
  /\ digits \in Seq(Char) /\ Len(digits) \in {2, 8, 10, 16}
  /\ digits[1] = "0" /\ \A j \in 2..Len(digits) : digits[j] # "0"
  /\ \A j \in 1..Len(digits) : digits[j] # "-"

\* The sixteen digits of itoa_hexbase are such a sequence, in small letters.
LEMMA HexIs ==
  /\ Hex \in Seq(Char) /\ Len(Hex) = 16 /\ Hex[1] = "0"
  /\ \A j \in 2..16 : Hex[j] # "0"
  /\ \A j \in 1..16 : Hex[j] # "-"
<1>1. Hex \in Seq(Char)
  BY DEF Hex, Char, Literals
<1>2. Len(Hex) = 16 /\ Hex[1] = "0"
  BY DEF Hex
<1>3. \A j \in 2..16 : Hex[j] # "0"
  BY DEF Hex
<1>4. \A j \in 1..16 : Hex[j] # "-"
  BY DEF Hex
<1> QED BY <1>1, <1>2, <1>3, <1>4

\* And in capitals.
LEMMA BigHexIs == Digital(BigHex)
<1>1. BigHex \in Seq(Char)
  BY DEF BigHex, Char, Literals
<1>2. Len(BigHex) = 16 /\ BigHex[1] = "0"
  BY DEF BigHex
<1>3. \A j \in 2..16 : BigHex[j] # "0"
  BY DEF BigHex
<1>4. \A j \in 1..16 : BigHex[j] # "-"
  BY DEF BigHex
<1> QED BY <1>1, <1>2, <1>3, <1>4 DEF Digital

\* So are the first b of them, the digits in base b.
LEMMA BaseIs ==
  ASSUME NEW b \in {2, 8, 10}
  PROVE  Base(b) \in Seq(Char) /\ Len(Base(b)) = b /\ \A j \in 1..b : Base(b)[j] = Hex[j]
<1>1. 1 \in 1..(Len(Hex) + 1) /\ b \in 1..Len(Hex) /\ b \in Nat /\ b - 1 + 1 = b
  BY HexIs
<1>a. 1 \in Int /\ b \in Int /\ \A j \in 1..b : Hex[j] \in Char
  <2>1. ASSUME NEW j \in 1..b PROVE Hex[j] \in Char
    <3>1. j \in 1..Len(Hex)
      BY <1>1
    <3> QED BY <3>1, HexIs, ElementOfSeq
  <2> QED BY <1>1, <2>1
<1>2. /\ SubSeq(Hex, 1, b) \in Seq(Char) /\ Len(SubSeq(Hex, 1, b)) = IF 1 <= b THEN b - 1 + 1 ELSE 0
      /\ \A j \in 1..(b - 1 + 1) : SubSeq(Hex, 1, b)[j] = Hex[1 + j - 1]
  BY <1>a, SubSeqProperties
<1>3. ASSUME NEW j \in 1..b PROVE SubSeq(Hex, 1, b)[j] = Hex[j]
  <2>1. 1 + j - 1 = j /\ j \in 1..(b - 1 + 1)
    BY <1>1
  <2> QED BY <1>2, <2>1
<1> QED BY <1>1, <1>2, <1>3 DEF Base

\* The first digit is the zero, and no digit is a sign.
LEMMA DigitsAre == ASSUME NEW digits \in DigitSets PROVE Digital(digits)
<1>1. Digital(Hex)
  BY HexIs DEF Digital
<1>2. Digital(BigHex)
  BY BigHexIs
<1>3. ASSUME NEW b \in {2, 8, 10} PROVE Digital(Base(b))
  <2>1. Base(b) \in Seq(Char) /\ Len(Base(b)) = b /\ \A j \in 1..b : Base(b)[j] = Hex[j]
    BY BaseIs
  <2>2. 1 \in 1..b /\ \A j \in 2..b : j \in 1..b /\ j \in 2..16
    OBVIOUS
  <2>3. \A j \in 1..b : j \in 1..16
    OBVIOUS
  <2>4. \A j \in 2..b : Base(b)[j] # "0"
    BY <2>1, <2>2, HexIs
  <2>5. \A j \in 1..b : Base(b)[j] # "-"
    BY <2>1, <2>3, HexIs
  <2>6. Base(b)[1] = "0"
    BY <2>1, <2>2, HexIs
  <2> QED BY <2>1, <2>4, <2>5, <2>6 DEF Digital
<1> QED BY <1>1, <1>2, <1>3 DEF DigitSets

\* Quotient and remainder.
Divided(m, b) == /\ m \div b \in Nat /\ m % b \in 0..(b - 1) /\ m = b * (m \div b) + (m % b)
                 /\ m >= b => m \div b \in 1..(m - 1)
\* What division by a base gives.
LEMMA Division ==
  ASSUME NEW b \in {2, 8, 10, 16}, NEW m \in Nat
  PROVE  Divided(m, b)
<1>1. CASE b = 2
  BY <1>1 DEF Divided
<1>2. CASE b = 8
  BY <1>2 DEF Divided
<1>3. CASE b = 10
  BY <1>3 DEF Divided
<1>4. CASE b = 16
  BY <1>4 DEF Divided
<1> QED BY <1>1, <1>2, <1>3, <1>4

\* A digit is added to the numeral of the quotient.
NumeralOf(f, m, digits) ==
  f[m] = IF m < Len(digits) THEN <<digits[m + 1]>>
         ELSE Append(f[m \div Len(digits)], digits[(m % Len(digits)) + 1])

\* Numeral is the last value of such a function.
LEMMA NumeralIs ==
  ASSUME NEW digits \in DigitSets, NEW n \in Nat
  PROVE  \E f \in [0..n -> Seq(Char)] :
           Numeral(n, digits) = f[n] /\ \A m \in 0..n : NumeralOf(f, m, digits)
<1>1. PICK b : b = Len(digits) /\ b \in {2, 8, 10, 16}
  BY DigitsAre DEF Digital
<1>2. ASSUME NEW j \in 1..b PROVE digits[j] \in Char
  <2>1. digits \in Seq(Char)
    BY DigitsAre DEF Digital
  <2> QED BY <1>1, <2>1, ElementOfSeq
<1> DEFINE G == {m \in 0..n : \E f \in [0..m -> Seq(Char)] : \A j \in 0..m : NumeralOf(f, j, digits)}
<1>3. 0 \in G
  <2>1. PICK x : x = <<digits[0 + 1]>>
    OBVIOUS
  <2>2. x \in Seq(Char)
    BY <2>1, <1>1, <1>2
  <2>3. PICK f : f = [j \in 0..0 |-> x]
    OBVIOUS
  <2>4. f[0] = x /\ f \in [0..0 -> Seq(Char)]
    BY <2>2, <2>3
  <2>5. NumeralOf(f, 0, digits)
    <3>1. 0 < b
      BY <1>1
    <3> QED BY <1>1, <2>1, <2>4, <3>1 DEF NumeralOf
  <2>6. \A j \in 0..0 : NumeralOf(f, j, digits)
    <3>1. \A j \in 0..0 : j = 0
      OBVIOUS
    <3> QED BY <2>5, <3>1
  <2> QED BY <2>4, <2>6
<1>4. ASSUME NEW m \in 1..n, m - 1 \in G PROVE m \in G
  <2>1. PICK g \in [0..(m - 1) -> Seq(Char)] : \A j \in 0..(m - 1) : NumeralOf(g, j, digits)
    BY <1>4
  <2>2. PICK x : x = IF m < b THEN <<digits[m + 1]>> ELSE Append(g[m \div b], digits[(m % b) + 1])
    OBVIOUS
  <2>3. m \div b \in Nat /\ m % b \in 0..(b - 1) /\ (m >= b => m \div b \in 1..(m - 1))
    <3>0. m \in Nat
      OBVIOUS
    <3>1. Divided(m, b)
      BY <1>1, <3>0, Division
    <3> QED BY <3>1 DEF Divided
  <2>4. x \in Seq(Char)
    <3>1. CASE m < b
      <4>1. m + 1 \in 1..b
        BY <1>1, <3>1
      <4> QED BY <1>2, <2>2, <3>1, <4>1
    <3>2. CASE ~(m < b)
      <4>1. (m % b) + 1 \in 1..b /\ m \div b \in 0..(m - 1)
        BY <1>1, <2>3, <3>2
      <4>2. g[m \div b] \in Seq(Char) /\ digits[(m % b) + 1] \in Char
        BY <1>2, <4>1
      <4>3. x = Append(g[m \div b], digits[(m % b) + 1])
        BY <2>2, <3>2
      <4> QED BY <4>2, <4>3, AppendProperties
    <3> QED BY <3>1, <3>2
  <2> DEFINE h == [j \in 0..m |-> IF j < m THEN g[j] ELSE x]
  <2>5. h \in [0..m -> Seq(Char)]
    BY <2>1, <2>4
  <2>6. ASSUME NEW j \in 0..m PROVE NumeralOf(h, j, digits)
    <3>1. CASE j = m
      <4>1. h[j] = x
        BY <3>1
      <4>2. ~(m < b) => h[m \div b] = g[m \div b]
        BY <1>1, <2>3
      <4> HIDE DEF h
      <4> QED BY <1>1, <2>2, <3>1, <4>1, <4>2 DEF NumeralOf
    <3>2. CASE j # m
      <4>1. j \in 0..(m - 1) /\ h[j] = g[j]
        BY <3>2
      <4>2. j >= b => j \div b \in 1..(j - 1)
        <5>0. j \in Nat
          OBVIOUS
        <5>1. Divided(j, b)
          BY <1>1, <5>0, Division
        <5> QED BY <4>1, <5>1 DEF Divided
      <4>3. ~(j < b) => h[j \div b] = g[j \div b]
        BY <1>1, <4>1, <4>2
      <4>4. NumeralOf(g, j, digits)
        BY <2>1, <4>1
      <4> HIDE DEF h
      <4> QED BY <1>1, <4>1, <4>3, <4>4 DEF NumeralOf
    <3> QED BY <3>1, <3>2
  <2>7. \E f \in [0..m -> Seq(Char)] : \A j \in 0..m : NumeralOf(f, j, digits)
    <3> HIDE DEF h
    <3> QED BY <2>5, <2>6
  <2>8. m \in 0..n
    OBVIOUS
  <2> QED BY <2>7, <2>8
<1>5. n \in G
  <2>1. 0..n \subseteq G
    <3> HIDE DEF G
    <3> QED BY <1>3, <1>4, Induction
  <2>2. n \in 0..n
    OBVIOUS
  <2> QED BY <2>1, <2>2
<1>6. PICK h \in [0..n -> Seq(Char)] : \A j \in 0..n : NumeralOf(h, j, digits)
  BY <1>5
<1>7. h = [m \in 0..n |-> IF m < Len(digits) THEN <<digits[m + 1]>>
                          ELSE Append(h[m \div Len(digits)], digits[(m % Len(digits)) + 1])]
  BY <1>6 DEF NumeralOf
<1>8. PICK f : /\ f = [m \in 0..n |-> IF m < Len(digits) THEN <<digits[m + 1]>>
                                      ELSE Append(f[m \div Len(digits)], digits[(m % Len(digits)) + 1])]
               /\ Numeral(n, digits) = f[n]
  BY <1>7 DEF Numeral
<1>9. ASSUME NEW m \in 0..n PROVE NumeralOf(f, m, digits)
  <2>1. f[m] = [x \in 0..n |-> IF x < Len(digits) THEN <<digits[x + 1]>>
                               ELSE Append(f[x \div Len(digits)], digits[(x % Len(digits)) + 1])][m]
    BY <1>8
  <2> QED BY <2>1 DEF NumeralOf
<1>10. ASSUME NEW m \in 0..n, \A j \in 0..(m - 1) : f[j] = h[j] PROVE f[m] = h[m]
  <2>1. NumeralOf(f, m, digits) /\ NumeralOf(h, m, digits)
    BY <1>6, <1>9
  <2>2. m >= b => m \div b \in 0..(m - 1)
    <3>0. m \in Nat
      OBVIOUS
    <3>1. Divided(m, b)
      BY <1>1, <3>0, Division
    <3> QED BY <3>1 DEF Divided
  <2>3. m >= b => f[m \div b] = h[m \div b]
    BY <1>10, <2>2
  <2> QED BY <1>1, <2>1, <2>3 DEF NumeralOf
<1>11. \A m \in 0..n : f[m] = h[m]
  <2> DEFINE H == {m \in 0..n : f[m] = h[m]}
  <2>1. ASSUME NEW m \in 0..n, \A j \in 0..(m - 1) : j \in H PROVE m \in H
    BY <1>10, <2>1
  <2>2. 0..n \subseteq H
    <3> HIDE DEF H
    <3> QED BY <2>1, StrongInduction
  <2> QED BY <2>2
<1>12. f = h
  BY <1>8, <1>11
<1> QED BY <1>8, <1>9, <1>12

\* What a numeral looks like: digits, the first of which is a zero for zero alone.
LooksLike(x, m, digits) ==
  /\ x \in Seq(Char) /\ Len(x) >= 1 /\ (x[1] = "0" <=> m = 0) /\ (m = 0 => Len(x) = 1)
  /\ \A k \in 1..Len(x) : x[k] \in {digits[j] : j \in 1..Len(digits)}

\* Append, character by character.
LEMMA Appended ==
  ASSUME NEW x \in Seq(Char), NEW c \in Char
  PROVE  /\ Append(x, c) \in Seq(Char) /\ Len(Append(x, c)) = Len(x) + 1 /\ Append(x, c)[Len(x) + 1] = c
         /\ \A k \in 1..Len(x) : Append(x, c)[k] = x[k]
BY AppendProperties

\* A numeral that is not a digit is that of the quotient and a digit.
LEMMA NumeralStep ==
  ASSUME NEW digits \in DigitSets, NEW n \in Nat, NEW f \in [0..n -> Seq(Char)],
         \A m \in 0..n : NumeralOf(f, m, digits), NEW m \in 0..n, m >= Len(digits)
  PROVE  LET b == Len(digits)
             x == f[m \div b]
             c == digits[(m % b) + 1] IN
         /\ m \div b \in 1..(m - 1) /\ m % b \in 0..(b - 1) /\ m = b * (m \div b) + (m % b)
         /\ f[m] = Append(x, c) /\ f[m] \in Seq(Char) /\ x \in Seq(Char) /\ c \in Char
         /\ Len(f[m]) = Len(x) + 1 /\ f[m][Len(x) + 1] = c /\ \A k \in 1..Len(x) : f[m][k] = x[k]
<1>1. PICK b : b = Len(digits) /\ b \in {2, 8, 10, 16}
  BY DigitsAre DEF Digital
<1>2. m \in Nat
  OBVIOUS
<1>3. Divided(m, b)
  BY <1>1, <1>2, Division
<1>4. PICK x, c : x = f[m \div b] /\ c = digits[(m % b) + 1]
  OBVIOUS
<1>5. m \div b \in 1..(m - 1) /\ m % b \in 0..(b - 1) /\ m = b * (m \div b) + (m % b)
  BY <1>1, <1>3 DEF Divided
<1>6. x \in Seq(Char)
  <2>1. m \div b \in 0..n
    BY <1>5
  <2> QED BY <1>4, <2>1
<1>7. c \in Char
  <2>0. b \in Nat /\ m % b \in 0..(b - 1)
    BY <1>1, <1>5
  <2>1. (m % b) + 1 \in 1..Len(digits)
    BY <1>1, <2>0
  <2> QED BY <1>4, <2>1, DigitsAre, ElementOfSeq DEF Digital
<1>8. f[m] = Append(x, c)
  <2>1. ~(m < Len(digits))
    BY <1>1, <1>2
  <2> QED BY <1>1, <1>4, <2>1 DEF NumeralOf
<1>9. /\ Append(x, c) \in Seq(Char) /\ Len(Append(x, c)) = Len(x) + 1 /\ Append(x, c)[Len(x) + 1] = c
      /\ \A k \in 1..Len(x) : Append(x, c)[k] = x[k]
  BY <1>6, <1>7, Appended
<1> QED BY <1>1, <1>4, <1>5, <1>6, <1>7, <1>8, <1>9

\* A numeral that is a digit.
LEMMA NumeralDigit ==
  ASSUME NEW digits \in DigitSets, NEW f, NEW m \in Nat, NumeralOf(f, m, digits), m < Len(digits)
  PROVE  /\ m + 1 \in 1..Len(digits) /\ digits[m + 1] \in Char /\ f[m] = <<digits[m + 1]>>
         /\ f[m] \in Seq(Char) /\ Len(f[m]) = 1 /\ f[m][1] = digits[m + 1]
<1>1. m + 1 \in 1..Len(digits)
  BY DigitsAre DEF Digital
<1>2. digits[m + 1] \in Char
  BY <1>1, DigitsAre, ElementOfSeq DEF Digital
<1>3. f[m] = <<digits[m + 1]>>
  BY DEF NumeralOf
<1> QED BY <1>1, <1>2, <1>3

\* A numeral looks like the number: the definition of Numeral has one solution, and by strong induction its text is one of digits.
LEMMA NumeralText ==
  ASSUME NEW digits \in DigitSets, NEW n \in Nat PROVE LooksLike(Numeral(n, digits), n, digits)
<1>1. PICK f \in [0..n -> Seq(Char)] : Numeral(n, digits) = f[n] /\ \A m \in 0..n : NumeralOf(f, m, digits)
  BY NumeralIs
<1>2. PICK b : b = Len(digits) /\ b \in {2, 8, 10, 16}
  BY DigitsAre DEF Digital
<1> DEFINE G == {m \in 0..n : LooksLike(f[m], m, digits)}
<1>3. ASSUME NEW m \in 0..n, \A j \in 0..(m - 1) : j \in G PROVE LooksLike(f[m], m, digits)
  <2>1. CASE m < b
    <3>1. /\ m + 1 \in 1..Len(digits) /\ f[m] \in Seq(Char) /\ Len(f[m]) = 1
          /\ f[m][1] = digits[m + 1]
      <4>1. m \in Nat /\ m < Len(digits) /\ NumeralOf(f, m, digits)
        BY <1>1, <1>2, <2>1
      <4> QED BY <4>1, NumeralDigit
    <3>2. digits[m + 1] = "0" <=> m = 0
      <4>1. m # 0 => m + 1 \in 2..Len(digits)
        BY <3>1
      <4> QED BY <4>1, DigitsAre DEF Digital
    <3>3. \A k \in 1..1 : k = 1
      OBVIOUS
    <3> QED BY <3>1, <3>2, <3>3 DEF LooksLike
  <2>2. CASE ~(m < b)
    <3>1. PICK x, c : /\ x = f[m \div b] /\ c = digits[(m % b) + 1]
      OBVIOUS
    <3>2. /\ m \div b \in 1..(m - 1) /\ m % b \in 0..(b - 1)
          /\ f[m] \in Seq(Char) /\ x \in Seq(Char) /\ c \in Char
          /\ Len(f[m]) = Len(x) + 1 /\ f[m][Len(x) + 1] = c /\ \A k \in 1..Len(x) : f[m][k] = x[k]
      <4>1. m >= Len(digits)
        BY <1>2, <2>2
      <4> QED BY <1>1, <1>2, <3>1, <4>1, NumeralStep
    <3>3. LooksLike(x, m \div b, digits)
      BY <1>3, <3>1, <3>2
    <3>4. (m % b) + 1 \in 1..Len(digits)
      BY <1>2, <3>2
    <3>5. PICK l : l = Len(x) /\ l \in Nat /\ l >= 1 /\ 1 \in 1..l
      <4>1. x \in Seq(Char) /\ Len(x) >= 1
        BY <3>2, <3>3 DEF LooksLike
      <4>2. Len(x) \in Nat
        BY <4>1
      <4> QED BY <4>1, <4>2
    <3>6. f[m][1] # "0" /\ m # 0
      BY <3>2, <3>3, <3>5 DEF LooksLike
    <3>7. \A k \in 1..Len(f[m]) : f[m][k] \in {digits[j] : j \in 1..Len(digits)}
      <4>1. ASSUME NEW k \in 1..Len(f[m]) PROVE k \in 1..l \/ k = l + 1
        BY <3>2, <3>5
      <4>2. f[m][l + 1] \in {digits[j] : j \in 1..Len(digits)}
        BY <3>1, <3>2, <3>4, <3>5
      <4>3. ASSUME NEW k \in 1..l PROVE f[m][k] \in {digits[j] : j \in 1..Len(digits)}
        BY <3>2, <3>3, <3>5 DEF LooksLike
      <4> QED BY <4>1, <4>2, <4>3
    <3>8. Len(f[m]) >= 1
      BY <3>2, <3>5
    <3> QED BY <3>2, <3>6, <3>7, <3>8 DEF LooksLike
  <2> QED BY <2>1, <2>2
<1>4. n \in G
  <2>1. \A m \in 0..n : (\A j \in 0..(m - 1) : j \in G) => m \in G
    BY <1>3
  <2>2. 0..n \subseteq G
    <3> HIDE DEF G
    <3> QED BY <2>1, StrongInduction
  <2>3. n \in 0..n
    OBVIOUS
  <2> QED BY <2>2, <2>3
<1> QED BY <1>1, <1>4

\* What Power gives.
LEMMA PowerFunction ==
  ASSUME NEW b \in Nat, NEW e \in Nat
  PROVE  \E f \in [0..e -> Nat] :
           Power(b, e) = f[e] /\ f[0] = 1 /\ \A m \in 1..e : f[m] = b * f[m - 1]
<1> DEFINE step == [j \in 1..e |-> [x \in Nat |-> b * x]]
<1>0. \A x \in Nat : b * x \in Nat
  OBVIOUS
<1>1. step \in [1..e -> [Nat -> Nat]] /\ 1 \in Nat
  BY <1>0
<1>2. \A j \in 1..e : \A x \in Nat : step[j][x] = b * x
  OBVIOUS
<1> HIDE DEF step
<1>3. PICK h \in [0..e -> Nat] : Steps(h, e, 1, step)
  BY <1>1, Recursion
<1>4. h[0] = 1 /\ \A m \in 1..e : h[m] = b * h[m - 1]
  <2>1. \A m \in 1..e : h[m - 1] \in Nat
    OBVIOUS
  <2> QED BY <1>2, <1>3, <2>1 DEF Steps
<1>5. h = [m \in 0..e |-> IF m = 0 THEN 1 ELSE b * h[m - 1]]
  <2>1. ASSUME NEW m \in 0..e PROVE h[m] = IF m = 0 THEN 1 ELSE b * h[m - 1]
    <3>1. m # 0 => m \in 1..e
      OBVIOUS
    <3> QED BY <3>1, <1>4
  <2> QED BY <2>1
<1>6. PICK f : f = [m \in 0..e |-> IF m = 0 THEN 1 ELSE b * f[m - 1]] /\ Power(b, e) = f[e]
  BY <1>5 DEF Power
<1>7. \A m \in 0..e : f[m] = h[m]
  <2> DEFINE G == {m \in 0..e : f[m] = h[m]}
  <2>0. ASSUME NEW m \in 0..e PROVE f[m] = IF m = 0 THEN 1 ELSE b * f[m - 1]
    <3>1. f[m] = [x \in 0..e |-> IF x = 0 THEN 1 ELSE b * f[x - 1]][m]
      BY <1>6
    <3> QED BY <3>1
  <2>1. 0 \in G
    BY <1>4, <2>0
  <2>2. ASSUME NEW m \in 1..e, m - 1 \in G PROVE m \in G
    <3>1. f[m] = b * f[m - 1] /\ h[m] = b * h[m - 1]
      BY <1>4, <2>0
    <3>2. f[m - 1] = h[m - 1]
      BY <2>2
    <3> QED BY <3>1, <3>2
  <2>3. 0..e \subseteq G
    <3> HIDE DEF G
    <3> QED BY <2>1, <2>2, Induction
  <2> QED BY <2>3
<1>8. f = h
  BY <1>6, <1>7
<1> QED BY <1>4, <1>6, <1>8

\* Powers grow by the base.
LEMMA PowerStep ==
  ASSUME NEW b \in Nat, NEW e \in Nat
  PROVE  /\ Power(b, 0) = 1 /\ Power(b, e) \in Nat /\ Power(b, e + 1) = b * Power(b, e)
<1>1. PICK f \in [0..e -> Nat] : Power(b, e) = f[e] /\ f[0] = 1 /\ \A m \in 1..e : f[m] = b * f[m - 1]
  BY PowerFunction
<1>2. PICK h \in [0..(e + 1) -> Nat] :
        Power(b, e + 1) = h[e + 1] /\ h[0] = 1 /\ \A m \in 1..(e + 1) : h[m] = b * h[m - 1]
  <2>1. e + 1 \in Nat
    OBVIOUS
  <2> QED BY <2>1, PowerFunction
<1>3. \A m \in 0..e : f[m] = h[m]
  <2> DEFINE G == {m \in 0..e : f[m] = h[m]}
  <2>1. 0 \in G
    BY <1>1, <1>2
  <2>2. ASSUME NEW m \in 1..e, m - 1 \in G PROVE m \in G
    <3>1. f[m] = b * f[m - 1] /\ m \in 1..(e + 1)
      BY <1>1
    <3>2. h[m] = b * h[m - 1]
      BY <1>2, <3>1
    <3>3. f[m - 1] = h[m - 1]
      BY <2>2
    <3> QED BY <3>1, <3>2, <3>3
  <2>3. 0..e \subseteq G
    <3> HIDE DEF G
    <3> QED BY <2>1, <2>2, Induction
  <2> QED BY <2>3
<1>4. Power(b, 0) = 1
  <2>1. PICK g \in [0..0 -> Nat] : Power(b, 0) = g[0] /\ g[0] = 1
    BY PowerFunction
  <2> QED BY <2>1
<1>5. h[e + 1] = b * h[e] /\ e \in 0..e
  <2>1. e + 1 \in 1..(e + 1) /\ (e + 1) - 1 = e
    OBVIOUS
  <2> QED BY <1>2, <2>1
<1>6. Power(b, e) = h[e] /\ h[e] \in Nat
  BY <1>1, <1>3, <1>5
<1> QED BY <1>2, <1>4, <1>5, <1>6

\* A number has at most the digits that a power of ten gives it.
LEMMA TenBound ==
  ASSUME NEW n \in Nat PROVE n < Power(10, Len(Numeral(n, Base(10))))
<1>0. PICK digits : digits = Base(10) /\ digits \in DigitSets /\ Len(digits) = 10
  BY BaseIs DEF DigitSets
<1>b. PICK b : b = Len(digits)
  OBVIOUS
<1>c. b = 10
  BY <1>0, <1>b
<1>1. PICK f \in [0..n -> Seq(Char)] :
        Numeral(n, digits) = f[n] /\ \A m \in 0..n : NumeralOf(f, m, digits)
  BY <1>0, NumeralIs
<1> DEFINE G == {m \in 0..n : m < Power(10, Len(f[m]))}
<1>2. ASSUME NEW m \in 0..n, \A j \in 0..(m - 1) : j \in G PROVE m < Power(10, Len(f[m]))
  <2>1. CASE m < b
    <3>1. Len(f[m]) = 1
      <4>1. m \in Nat /\ NumeralOf(f, m, digits)
        BY <1>1
      <4> QED BY <4>1, <1>0, <1>b, <2>1, NumeralDigit
    <3>2. Power(10, 0 + 1) = 10 * 1
      <4>1. Power(10, 0) = 1 /\ Power(10, 0 + 1) = 10 * Power(10, 0)
        BY PowerStep
      <4> QED BY <4>1
    <3>3. 0 + 1 = 1 /\ 10 * 1 = 10
      OBVIOUS
    <3> QED BY <1>c, <2>1, <3>1, <3>2, <3>3
  <2>2. CASE ~(m < b)
    <3>1. PICK q, r, x : q = m \div 10 /\ r = m % 10 /\ x = f[q]
      OBVIOUS
    <3>2. q \in 1..(m - 1) /\ r \in 0..9 /\ m = 10 * q + r /\ Len(f[m]) = Len(x) + 1 /\ x \in Seq(Char)
      <4>1. m >= Len(digits)
        BY <1>b, <1>c, <2>2
      <4>2. /\ m \div Len(digits) \in 1..(m - 1) /\ m % Len(digits) \in 0..(Len(digits) - 1)
            /\ m = Len(digits) * (m \div Len(digits)) + (m % Len(digits))
            /\ f[m \div Len(digits)] \in Seq(Char) /\ Len(f[m]) = Len(f[m \div Len(digits)]) + 1
        BY <1>0, <1>1, <4>1, NumeralStep
      <4>3. /\ m \div b \in 1..(m - 1) /\ m % b \in 0..(b - 1) /\ m = b * (m \div b) + (m % b)
            /\ x \in Seq(Char) /\ Len(f[m]) = Len(x) + 1 /\ q = m \div b /\ r = m % b
        BY <1>b, <1>c, <3>1, <4>2
      <4> QED BY <1>c, <4>3
    <3>3. q < Power(10, Len(x)) /\ Len(x) \in Nat
      BY <1>2, <3>1, <3>2
    <3>4. PICK w : w = Power(10, Len(x)) /\ w \in Nat /\ Power(10, Len(x) + 1) = 10 * w
      BY <3>3, PowerStep
    <3>5. m < 10 * w
      BY <3>2, <3>3, <3>4
    <3> QED BY <3>2, <3>4, <3>5
  <2> QED BY <2>1, <2>2
<1>3. n \in G
  <2>1. \A m \in 0..n : (\A j \in 0..(m - 1) : j \in G) => m \in G
    BY <1>2
  <2>2. 0..n \subseteq G
    <3> HIDE DEF G
    <3> QED BY <2>1, StrongInduction
  <2>3. n \in 0..n
    OBVIOUS
  <2> QED BY <2>2, <2>3
<1> QED BY <1>0, <1>1, <1>3

\* A number reaches the power of eight that its digits, but for one, give.
LEMMA EightBound ==
  ASSUME NEW n \in Nat, n # 0 PROVE Power(8, Len(Numeral(n, Base(8))) - 1) <= n
<1>0. PICK digits : digits = Base(8) /\ digits \in DigitSets /\ Len(digits) = 8
  BY BaseIs DEF DigitSets
<1>b. PICK b : b = Len(digits)
  OBVIOUS
<1>c. b = 8
  BY <1>0, <1>b
<1>1. PICK f \in [0..n -> Seq(Char)] :
        Numeral(n, digits) = f[n] /\ \A m \in 0..n : NumeralOf(f, m, digits)
  BY <1>0, NumeralIs
<1> DEFINE G == {m \in 0..n : m # 0 => Len(f[m]) >= 1 /\ Power(8, Len(f[m]) - 1) <= m}
<1>2. ASSUME NEW m \in 0..n, \A j \in 0..(m - 1) : j \in G, m # 0
      PROVE  Len(f[m]) >= 1 /\ Power(8, Len(f[m]) - 1) <= m
  <2>1. CASE m < b
    <3>1. Len(f[m]) = 1
      <4>1. m \in Nat /\ NumeralOf(f, m, digits)
        BY <1>1
      <4> QED BY <4>1, <1>0, <1>b, <2>1, NumeralDigit
    <3>2. Power(8, 0) = 1
      BY PowerStep
    <3>3. 1 - 1 = 0 /\ 1 <= m /\ 1 >= 1
      BY <1>2
    <3> QED BY <3>1, <3>2, <3>3
  <2>2. CASE ~(m < b)
    <3>1. PICK q, r, x : q = m \div 8 /\ r = m % 8 /\ x = f[q]
      OBVIOUS
    <3>2. q \in 1..(m - 1) /\ r \in 0..7 /\ m = 8 * q + r /\ Len(f[m]) = Len(x) + 1 /\ x \in Seq(Char)
      <4>1. m >= Len(digits)
        BY <1>b, <1>c, <2>2
      <4>2. /\ m \div Len(digits) \in 1..(m - 1) /\ m % Len(digits) \in 0..(Len(digits) - 1)
            /\ m = Len(digits) * (m \div Len(digits)) + (m % Len(digits))
            /\ f[m \div Len(digits)] \in Seq(Char) /\ Len(f[m]) = Len(f[m \div Len(digits)]) + 1
        BY <1>0, <1>1, <4>1, NumeralStep
      <4>3. /\ m \div b \in 1..(m - 1) /\ m % b \in 0..(b - 1) /\ m = b * (m \div b) + (m % b)
            /\ x \in Seq(Char) /\ Len(f[m]) = Len(x) + 1 /\ q = m \div b /\ r = m % b
        BY <1>b, <1>c, <3>1, <4>2
      <4> QED BY <1>c, <4>3
    <3>3. Len(x) >= 1 /\ Power(8, Len(x) - 1) <= q /\ Len(x) \in Nat
      BY <1>2, <3>1, <3>2
    <3>4. PICK l : l = Len(x) - 1 /\ l \in Nat /\ l + 1 = Len(x)
      BY <3>3
    <3>5. PICK w : w = Power(8, l) /\ w \in Nat /\ Power(8, l + 1) = 8 * w
      <4>1. Power(8, l) \in Nat /\ Power(8, l + 1) = 8 * Power(8, l)
        BY <3>4, PowerStep
      <4> QED BY <4>1
    <3>6. w <= q
      BY <3>3, <3>4, <3>5
    <3>8. 8 * w <= m
      BY <3>2, <3>5, <3>6
    <3>7. Len(f[m]) - 1 = l + 1 /\ Len(f[m]) >= 1
      BY <3>2, <3>3, <3>4
    <3> QED BY <3>5, <3>7, <3>8
  <2> QED BY <2>1, <2>2
<1>3. n \in G
  <2>1. \A m \in 0..n : (\A j \in 0..(m - 1) : j \in G) => m \in G
    BY <1>2
  <2>2. 0..n \subseteq G
    <3> HIDE DEF G
    <3> QED BY <2>1, StrongInduction
  <2>3. n \in 0..n
    OBVIOUS
  <2> QED BY <2>2, <2>3
<1> QED BY <1>0, <1>1, <1>3

\* Powers do not get smaller.
LEMMA PowerGrows ==
  ASSUME NEW e \in Nat, NEW k \in 0..e PROVE Power(8, k) <= Power(8, e)
<1>1. PICK f \in [0..e -> Nat] : f = [m \in 0..e |-> Power(8, m)]
  <2>1. \A m \in 0..e : Power(8, m) \in Nat
    BY PowerStep
  <2> QED BY <2>1
<1>2. ASSUME NEW m \in 1..e PROVE f[m - 1] <= f[m]
  <2>1. m - 1 \in Nat /\ (m - 1) + 1 = m /\ m \in 0..e /\ m - 1 \in 0..e
    OBVIOUS
  <2>2. PICK w : w = Power(8, m - 1) /\ w \in Nat /\ Power(8, m) = 8 * w
    <3>1. PICK l : l = m - 1 /\ l \in Nat /\ l + 1 = m
      BY <2>1
    <3>2. Power(8, l) \in Nat /\ Power(8, l + 1) = 8 * Power(8, l)
      BY <3>1, PowerStep
    <3> QED BY <3>1, <3>2
  <2>3. w <= 8 * w
    BY <2>2
  <2> QED BY <1>1, <2>1, <2>2, <2>3
<1>3. \A j \in 0..e : f[j] <= f[e]
  BY <1>2, SumsGrow
<1> QED BY <1>1, <1>3

\* What ft_atoi makes of a digit.
LEMMA DigitIs == ASSUME NEW m \in 0..9 PROVE Hex[m + 1] \in Decimal /\ Digit(Hex[m + 1]) = m
<1>1. \A j, k \in 1..16 : Hex[j] = Hex[k] => j = k
  BY DEF Hex
<1>2. \A d \in 0..9 : Hex[d + 1] = Hex[m + 1] => d = m
  <2>1. ASSUME NEW d \in 0..9, Hex[d + 1] = Hex[m + 1] PROVE d = m
    <3>1. d + 1 \in 1..16 /\ m + 1 \in 1..16
      OBVIOUS
    <3>2. d + 1 = m + 1
      BY <1>1, <2>1, <3>1
    <3> QED BY <3>2
  <2> QED BY <2>1
<1>3. Digit(Hex[m + 1]) = m
  BY <1>2 DEF Digit
<1>4. m + 1 \in 1..10
  OBVIOUS
<1> QED BY <1>3, <1>4 DEF Decimal

\* h is what has been read of the digits x.
Reads(h, x) == h[0] = 0 /\ \A k \in 1..Len(x) : h[k] = h[k - 1] * 10 + Digit(x[k])

\* What is read of a numeral is the number.
LEMMA NumeralReads ==
  ASSUME NEW n \in Nat, NEW h, Reads(h, Numeral(n, Base(10)))
  PROVE  h[Len(Numeral(n, Base(10)))] = n
<1>0. PICK digits : digits = Base(10) /\ digits \in DigitSets /\ Len(digits) = 10
  BY BaseIs DEF DigitSets
<1>b. PICK b : b = Len(digits)
  OBVIOUS
<1>c. b = 10
  BY <1>0, <1>b
<1>d. ASSUME NEW m \in 0..9 PROVE Digit(digits[m + 1]) = m
  <2>1. m + 1 \in 1..10
    OBVIOUS
  <2>2. digits[m + 1] = Hex[m + 1]
    BY <1>0, <2>1, BaseIs
  <2> QED BY <2>2, DigitIs
<1>1. PICK f \in [0..n -> Seq(Char)] :
        Numeral(n, digits) = f[n] /\ \A m \in 0..n : NumeralOf(f, m, digits)
  BY <1>0, NumeralIs
<1> DEFINE G == {m \in 0..n : \A g : Reads(g, f[m]) => g[Len(f[m])] = m}
<1>2. ASSUME NEW m \in 0..n, \A j \in 0..(m - 1) : j \in G, NEW g, Reads(g, f[m]) PROVE g[Len(f[m])] = m
  <2>1. CASE m < b
    <3>1. Len(f[m]) = 1 /\ f[m][1] = digits[m + 1]
      <4>1. m \in Nat /\ NumeralOf(f, m, digits)
        BY <1>1
      <4> QED BY <4>1, <1>0, <1>b, <2>1, NumeralDigit
    <3>2. g[0] = 0 /\ g[1] = g[1 - 1] * 10 + Digit(f[m][1])
      BY <1>2, <3>1 DEF Reads
    <3>3. Digit(f[m][1]) = m /\ m \in 0..9
      <4>1. m \in 0..9
        BY <1>c, <2>1
      <4> QED BY <1>d, <3>1, <4>1
    <3>4. g[1] = 0 * 10 + m /\ 0 * 10 + m = m
      BY <3>2, <3>3
    <3> QED BY <3>1, <3>4
  <2>2. CASE ~(m < b)
    <3>1. PICK q, r, x, c : q = m \div 10 /\ r = m % 10 /\ x = f[q] /\ c = digits[r + 1]
      OBVIOUS
    <3>2. /\ q \in 1..(m - 1) /\ r \in 0..9 /\ m = 10 * q + r /\ Len(f[m]) = Len(x) + 1 /\ x \in Seq(Char)
          /\ f[m][Len(x) + 1] = c /\ \A k \in 1..Len(x) : f[m][k] = x[k]
      <4>1. m >= Len(digits)
        BY <1>b, <1>c, <2>2
      <4>2. /\ m \div Len(digits) \in 1..(m - 1) /\ m % Len(digits) \in 0..(Len(digits) - 1)
            /\ m = Len(digits) * (m \div Len(digits)) + (m % Len(digits))
            /\ f[m \div Len(digits)] \in Seq(Char) /\ Len(f[m]) = Len(f[m \div Len(digits)]) + 1
            /\ f[m][Len(f[m \div Len(digits)]) + 1] = digits[(m % Len(digits)) + 1]
            /\ \A k \in 1..Len(f[m \div Len(digits)]) : f[m][k] = f[m \div Len(digits)][k]
        BY <1>0, <1>1, <4>1, NumeralStep
      <4>3. /\ m \div b \in 1..(m - 1) /\ m % b \in 0..(b - 1) /\ m = b * (m \div b) + (m % b)
            /\ q = m \div b /\ r = m % b
        BY <1>b, <1>c, <3>1, <4>2
      <4>4. /\ x \in Seq(Char) /\ Len(f[m]) = Len(x) + 1
            /\ f[m][Len(x) + 1] = c /\ \A k \in 1..Len(x) : f[m][k] = x[k]
        BY <1>b, <1>c, <3>1, <4>2
      <4>5. q \in 1..(m - 1) /\ r \in 0..9 /\ m = 10 * q + r
        BY <1>c, <4>3
      <4> QED BY <4>4, <4>5
    <3>3. PICK l : l = Len(x) /\ l \in Nat
      <4>1. x \in Seq(Char)
        BY <3>2
      <4>2. Len(x) \in Nat
        BY <4>1, LenProperties
      <4> QED BY <4>2
    <3>4. Reads(g, x)
      <4>1. g[0] = 0
        BY <1>2 DEF Reads
      <4>2. ASSUME NEW k \in 1..l PROVE g[k] = g[k - 1] * 10 + Digit(x[k])
        <5>1. k \in 1..(l + 1) /\ f[m][k] = x[k]
          BY <3>2, <3>3
        <5> QED BY <1>2, <3>2, <3>3, <5>1 DEF Reads
      <4> QED BY <3>3, <4>1, <4>2 DEF Reads
    <3>5. g[l] = q
      <4>0. q \in 0..(m - 1)
        BY <3>2
      <4>1. q \in G
        BY <1>2, <4>0
      <4> QED BY <3>1, <3>3, <3>4, <4>1
    <3>6. g[l + 1] = g[l] * 10 + Digit(c)
      <4>1. l + 1 \in 1..(l + 1) /\ (l + 1) - 1 = l
        BY <3>3
      <4> QED BY <1>2, <3>2, <3>3, <4>1 DEF Reads
    <3>7. Digit(c) = r
      BY <1>d, <3>1, <3>2
    <3>8. q * 10 + r = m
      BY <3>2
    <3> QED BY <3>2, <3>3, <3>5, <3>6, <3>7, <3>8
  <2> QED BY <2>1, <2>2
<1>3. n \in G
  <2>1. \A m \in 0..n : (\A j \in 0..(m - 1) : j \in G) => m \in G
    BY <1>2
  <2>2. 0..n \subseteq G
    <3> HIDE DEF G
    <3> QED BY <2>1, StrongInduction
  <2>3. n \in 0..n
    OBVIOUS
  <2> QED BY <2>2, <2>3
<1> QED BY <1>0, <1>1, <1>3

\* The characters of a numeral are decimal digits.
LEMMA NumeralDecimal ==
  ASSUME NEW n \in Nat, NEW k \in 1..Len(Numeral(n, Base(10)))
  PROVE  Numeral(n, Base(10))[k] \in Decimal /\ Digit(Numeral(n, Base(10))[k]) \in Nat
<1>1. Base(10) \in DigitSets /\ Len(Base(10)) = 10
  BY BaseIs DEF DigitSets
<1>2. PICK j \in 1..10 : Numeral(n, Base(10))[k] = Base(10)[j]
  <2>1. LooksLike(Numeral(n, Base(10)), n, Base(10))
    BY <1>1, NumeralText
  <2>2. Numeral(n, Base(10))[k] \in {Base(10)[j] : j \in 1..Len(Base(10))}
    BY <2>1 DEF LooksLike
  <2> QED BY <1>1, <2>2
<1>3. Base(10)[j] = Hex[j]
  BY BaseIs
<1>4. PICK m : m = j - 1 /\ m \in 0..9 /\ m + 1 = j
  OBVIOUS
<1> QED BY <1>2, <1>3, <1>4, DigitIs

\* nb_digit counts the digits up to the first character that is none.
LEMMA NbDigit ==
  ASSUME NEW l \in Nat, NEW q \in Nat, format \in Seq(Char), q + l <= Len(format) + 1,
         \A k \in 0..(l - 1) : format[q + k] \in Decimal,
         q + l <= Len(format) => format[q + l] \notin Decimal
  PROVE  nb_digit(q) = l
<1>0. PICK n : n = Len(format) /\ n \in Nat
  OBVIOUS
<1>1. {r \in q..Len(format) : \A t \in q..r : format[t] \in Decimal} = q..(q + l - 1)
  <2>1. ASSUME NEW r \in q..n, \A t \in q..r : format[t] \in Decimal PROVE r \in q..(q + l - 1)
    <3>1. ~(r >= q + l)
      <4>1. r >= q + l => q + l \in q..r /\ q + l <= n
        <5>1. r \in Int /\ n \in Int /\ r <= n
          BY <1>0
        <5> QED BY <5>1
      <4> QED BY <1>0, <2>1, <4>1
    <3> QED BY <3>1
  <2>2. ASSUME NEW r \in q..(q + l - 1) PROVE r \in q..n /\ \A t \in q..r : format[t] \in Decimal
    <3>1. r \in q..n
      BY <1>0
    <3>2. ASSUME NEW t \in q..r PROVE format[t] \in Decimal
      <4>1. PICK k : k = t - q /\ k \in 0..(l - 1) /\ q + k = t
        OBVIOUS
      <4> QED BY <4>1
    <3> QED BY <3>1, <3>2
  <2> QED BY <1>0, <2>1, <2>2
<1>2. Cardinality(q..(q + l - 1)) = l
  <2>1. PICK u : u = q + l - 1 /\ u \in Int
    OBVIOUS
  <2>2. Cardinality(q..u) = IF q > u THEN 0 ELSE u - q + 1
    BY <2>1, FS_Interval
  <2>3. (IF q > u THEN 0 ELSE u - q + 1) = l
    BY <2>1
  <2> QED BY <2>1, <2>2, <2>3
<1> QED BY <1>1, <1>2 DEF nb_digit

\* ft_atoi reads the number whose numeral stands there.
LEMMA AtoiIs ==
  ASSUME NEW n \in Nat, NEW q \in Nat, nb_digit(q) = Len(Numeral(n, Base(10))),
         \A k \in 1..Len(Numeral(n, Base(10))) : format[q + k - 1] = Numeral(n, Base(10))[k]
  PROVE  ft_atoi(q) = n
<1>1. PICK x : x = Numeral(n, Base(10))
  OBVIOUS
<1>2. PICK l : l = Len(x) /\ l \in Nat
  <2>1. Base(10) \in DigitSets
    BY DEF DigitSets
  <2>2. x \in Seq(Char)
    BY <1>1, <2>1, NumeralText DEF LooksLike
  <2> QED BY <2>2
<1>3. ASSUME NEW k \in 1..l PROVE Digit(x[k]) \in Nat /\ format[q + k - 1] = x[k]
  BY <1>1, <1>2, NumeralDecimal
<1>4. PICK d \in [1..l -> Nat] : \A k \in 1..l : d[k] = Digit(format[q + k - 1])
  <2>1. [k \in 1..l |-> Digit(format[q + k - 1])] \in [1..l -> Nat]
    BY <1>3
  <2> QED BY <2>1
<1> DEFINE step == [j \in 1..l |-> [y \in Nat |-> y * 10 + d[j]]]
<1>5. step \in [1..l -> [Nat -> Nat]] /\ 0 \in Nat
  OBVIOUS
<1>6. \A j \in 1..l : \A y \in Nat : step[j][y] = y * 10 + d[j]
  OBVIOUS
<1> HIDE DEF step
<1>7. PICK h \in [0..l -> Nat] : Steps(h, l, 0, step)
  BY <1>2, <1>5, Recursion
<1>8. h = [m \in 0..l |-> IF m = 0 THEN 0 ELSE h[m - 1] * 10 + Digit(format[q + m - 1])]
  <2>1. ASSUME NEW m \in 0..l PROVE h[m] = IF m = 0 THEN 0 ELSE h[m - 1] * 10 + Digit(format[q + m - 1])
    <3>1. CASE m = 0
      BY <3>1, <1>7 DEF Steps
    <3>2. CASE m # 0
      <4>1. m \in 1..l /\ m - 1 \in 0..l
        BY <1>2, <3>2
      <4>2. h[m - 1] \in Nat
        BY <4>1
      <4>3. h[m] = step[m][h[m - 1]]
        BY <1>7, <4>1 DEF Steps
      <4>4. h[m] = h[m - 1] * 10 + d[m]
        BY <1>6, <4>1, <4>2, <4>3
      <4> QED BY <3>2, <4>1, <4>4, <1>4
    <3> QED BY <3>1, <3>2
  <2> QED BY <2>1
<1>9. nb_digit(q) = l
  BY <1>1, <1>2
<1>10. PICK f : /\ f = [m \in 0..l |-> IF m = 0 THEN 0 ELSE f[m - 1] * 10 + Digit(format[q + m - 1])]
                /\ ft_atoi(q) = f[l]
  BY <1>8, <1>9 DEF ft_atoi
<1>11. Reads(f, x)
  <2>1. ASSUME NEW m \in 0..l PROVE f[m] = IF m = 0 THEN 0 ELSE f[m - 1] * 10 + Digit(format[q + m - 1])
    <3>1. f[m] = [y \in 0..l |-> IF y = 0 THEN 0 ELSE f[y - 1] * 10 + Digit(format[q + y - 1])][m]
      BY <1>10
    <3> QED BY <3>1
  <2>2. \A k \in 1..l : k \in 0..l /\ k # 0
    OBVIOUS
  <2>3. 0 \in 0..l
    BY <1>2
  <2> QED BY <1>2, <1>3, <2>1, <2>2, <2>3 DEF Reads
<1>12. f[l] = n
  BY <1>1, <1>2, <1>11, NumeralReads
<1> QED BY <1>10, <1>12

-----------------------------------------------------------------------------
(***************************************************************************)
(* The characters of a directive, and where in them its parts end.         *)
(***************************************************************************)

\* Directives that are not a character to copy.
Conversion(d) ==
  /\ DOMAIN d = {"flags", "width", "prec", "length", "conv"}
  /\ d.flags \subseteq Range(Flags) /\ d.length \in Lengths
  /\ d.width \in {None, Star} \cup 1..(IntMod \div 2 - 1)
  /\ d.prec \in {None, Star} \cup 0..(IntMod \div 2 - 1)
  /\ is_f(d.conv) \/ d.conv \in {"%", Open}

WidthAt(d)  == 1 + Len(FlagsOf(d))
PrecAt(d)   == WidthAt(d) + Len(Number(d.width))
NumAt(d)    == PrecAt(d) + Len(PointOf(d))
\* The place of the length modifier in a directive.
LengthAt(d) == NumAt(d) + Len(Number(d.prec))
ConvAt(d)   == LengthAt(d) + Len(d.length) + 1

\* One sequence before another.
LEMMA Joined ==
  ASSUME NEW x \in Seq(Char), NEW y \in Seq(Char)
  PROVE  /\ x \o y \in Seq(Char) /\ Len(x \o y) = Len(x) + Len(y)
         /\ \A k \in 1..Len(x) : (x \o y)[k] = x[k]
         /\ \A k \in 1..Len(y) : (x \o y)[Len(x) + k] = y[k]
<1>1. PICK l, m : l = Len(x) /\ m = Len(y)
  OBVIOUS
<1>2. l \in Nat /\ m \in Nat
  BY <1>1, LenProperties
<1>3. /\ x \o y \in Seq(Char) /\ Len(x \o y) = l + m
      /\ \A k \in 1..(l + m) : (x \o y)[k] = IF k <= l THEN x[k] ELSE y[k - l]
  BY <1>1, ConcatProperties
<1>4. ASSUME NEW k \in 1..l PROVE (x \o y)[k] = x[k]
  <2>1. k \in 1..(l + m) /\ k <= l
    BY <1>2
  <2> QED BY <1>3, <2>1
<1>5. ASSUME NEW k \in 1..m PROVE (x \o y)[l + k] = y[k]
  <2>1. l + k \in 1..(l + m) /\ ~(l + k <= l) /\ (l + k) - l = k
    BY <1>2
  <2> QED BY <1>3, <2>1
<1> QED BY <1>1, <1>3, <1>4, <1>5

\* z begins with x.
Begins(z, x) == /\ z \in Seq(Char) /\ x \in Seq(Char) /\ Len(x) <= Len(z)
                /\ \A k \in 1..Len(x) : z[k] = x[k]

\* z has y behind its first l characters.
Holds(z, l, y) == /\ z \in Seq(Char) /\ y \in Seq(Char) /\ l \in Nat /\ l + Len(y) <= Len(z)
                 /\ \A k \in 1..Len(y) : z[l + k] = y[k]

\* A text begins what it is put before.
LEMMA BeginsJoined ==
  ASSUME NEW x \in Seq(Char), NEW y \in Seq(Char)
  PROVE  Begins(x \o y, x) /\ Holds(x \o y, Len(x), y)
<1>1. Len(x) \in Nat /\ Len(y) \in Nat
  BY LenProperties
<1> QED BY <1>1, Joined DEF Begins, Holds

\* What begins a text begins the text with more behind it.
LEMMA BeginsOn ==
  ASSUME NEW x, NEW y, NEW z, Begins(z, y), Begins(y, x) PROVE Begins(z, x)
<1>1. PICK l, m, n : l = Len(x) /\ m = Len(y) /\ n = Len(z)
  OBVIOUS
<1>2. l \in Nat /\ m \in Nat /\ n \in Nat /\ l <= m /\ m <= n
  BY <1>1, LenProperties DEF Begins
<1>3. ASSUME NEW k \in 1..l PROVE z[k] = x[k]
  <2>1. k \in 1..m
    BY <1>2
  <2> QED BY <1>1, <2>1 DEF Begins
<1> QED BY <1>1, <1>2, <1>3 DEF Begins

\* What is in a text at a place is there still with more behind it.
LEMMA HasOn ==
  ASSUME NEW l, NEW y, NEW z, NEW v, Begins(v, z), Holds(z, l, y) PROVE Holds(v, l, y)
<1>1. PICK m, n, w : m = Len(y) /\ n = Len(z) /\ w = Len(v)
  OBVIOUS
<1>2. l \in Nat /\ m \in Nat /\ n \in Nat /\ w \in Nat /\ l + m <= n /\ n <= w
  BY <1>1, LenProperties DEF Begins, Holds
<1>3. ASSUME NEW k \in 1..m PROVE v[l + k] = y[k]
  <2>1. l + k \in 1..n
    BY <1>2
  <2> QED BY <1>1, <2>1 DEF Begins, Holds
<1>4. l + m <= w
  BY <1>2
<1> QED BY <1>1, <1>2, <1>3, <1>4 DEF Begins, Holds

\* The flags of d that are shown are those of S.
Shows(x, S, d) ==
  /\ x \in Seq(Char) /\ \A k \in 1..Len(x) : x[k] \in S \cap d.flags
  /\ \A f \in S \cap d.flags : \E k \in 1..Len(x) : x[k] = f

\* One more flag is shown behind those shown so far.
LEMMA ShowsMore ==
  ASSUME NEW d, NEW S, NEW x, Shows(x, S, d), NEW f \in Char
  PROVE  Shows(x \o Shown(f, d), S \cup {f}, d)
<1>1. CASE f \notin d.flags
  <2>1. x \o Shown(f, d) = x
    BY <1>1, ConcatEmptySeq DEF Shows, Shown
  <2> QED BY <1>1, <2>1 DEF Shows
<1>2. CASE f \in d.flags
  <2>0. PICK y : y = <<f>>
    OBVIOUS
  <2>1. y = <<f>> /\ y \in Seq(Char) /\ Len(y) = 1 /\ y[1] = f
    BY <2>0
  <2>2. Shown(f, d) = y
    BY <1>2, <2>1 DEF Shown
  <2>3. PICK l : l = Len(x)
    OBVIOUS
  <2>4. x \in Seq(Char) /\ l \in Nat
    BY <2>3, LenProperties DEF Shows
  <2>5. /\ x \o y \in Seq(Char) /\ Len(x \o y) = l + 1
        /\ \A k \in 1..l : (x \o y)[k] = x[k]
        /\ (x \o y)[l + 1] = f
    BY <2>1, <2>3, <2>4, Joined
  <2>6. \A k \in 1..(l + 1) : k \in 1..l \/ k = l + 1
    BY <2>4
  <2>7. l + 1 \in 1..(l + 1) /\ \A k \in 1..l : k \in 1..(l + 1)
    BY <2>4
  <2>8. \A k \in 1..(l + 1) : (x \o y)[k] \in (S \cup {f}) \cap d.flags
    BY <1>2, <2>3, <2>5, <2>6 DEF Shows
  <2>9. \A g \in (S \cup {f}) \cap d.flags : \E k \in 1..(l + 1) : (x \o y)[k] = g
    <3>1. ASSUME NEW g \in S \cap d.flags PROVE \E k \in 1..(l + 1) : (x \o y)[k] = g
      <4>1. PICK k \in 1..l : x[k] = g
        BY <2>3 DEF Shows
      <4> QED BY <2>5, <2>7, <4>1
    <3>2. \E k \in 1..(l + 1) : (x \o y)[k] = f
      BY <2>5, <2>7
    <3> QED BY <3>1, <3>2
  <2> QED BY <2>2, <2>5, <2>8, <2>9 DEF Shows
<1> QED BY <1>1, <1>2

\* The flags are written each once.
LEMMA FlagsAre ==
  ASSUME NEW d, Conversion(d)
  PROVE  /\ FlagsOf(d) \in Seq(Char) /\ d.flags = {FlagsOf(d)[k] : k \in 1..Len(FlagsOf(d))}
         /\ \A k \in 1..Len(FlagsOf(d)) : FlagsOf(d)[k] \in {"#", "-", "+", " ", "0"}
<1>0. {"#", "-", "+", " ", "0"} \subseteq Char
  BY DEF Char, Literals
<1>1. d.flags \subseteq {"#", "-", "+", " ", "0"}
  <2>1. Range(Flags) \subseteq {"#", "-", "+", " ", "0"}
    <3>1. DOMAIN Flags = 1..Len(Flags)
      BY DEF Flags
    <3>0. Flags \in Seq({"#", "-", "+", " ", "0"})
      BY DEF Flags
    <3>2. \A k \in 1..Len(Flags) : Flags[k] \in {"#", "-", "+", " ", "0"}
      BY <3>0, ElementOfSeq
    <3> QED BY <3>1, <3>2 DEF Range
  <2> QED BY <2>1 DEF Conversion
<1>2. Shows(<<>>, {}, d)
  BY DEF Shows
<1>3. <<>> \o Shown("#", d) = Shown("#", d)
  <2>0. "#" \in Char
    BY <1>0
  <2>1. <<"#">> \in Seq(Char)
    BY <2>0
  <2>2. <<>> \in Seq(Char)
    BY EmptySeq
  <2> QED BY <2>1, <2>2, ConcatEmptySeq DEF Shown
<1>4. Shows(Shown("#", d), {"#"}, d)
  <2>1. "#" \in Char /\ {} \cup {"#"} = {"#"}
    BY <1>0
  <2> QED BY <1>2, <1>3, <2>1, ShowsMore
<1> DEFINE x2 == Shown("#", d) \o Shown("-", d)
           x3 == x2 \o Shown("+", d)
           x4 == x3 \o Shown(" ", d)
<1>5. Shows(x2, {"#"} \cup {"-"}, d)
  BY <1>0, <1>4, ShowsMore
<1>6. Shows(x3, ({"#"} \cup {"-"}) \cup {"+"}, d)
  BY <1>0, <1>5, ShowsMore
<1>7. Shows(x4, (({"#"} \cup {"-"}) \cup {"+"}) \cup {" "}, d)
  BY <1>0, <1>6, ShowsMore
<1>8. Shows(x4 \o Shown("0", d), ((({"#"} \cup {"-"}) \cup {"+"}) \cup {" "}) \cup {"0"}, d)
  BY <1>0, <1>7, ShowsMore
<1>9. Shows(FlagsOf(d), {"#", "-", "+", " ", "0"}, d)
  <2>1. ((({"#"} \cup {"-"}) \cup {"+"}) \cup {" "}) \cup {"0"} = {"#", "-", "+", " ", "0"}
    OBVIOUS
  <2> QED BY <1>8, <2>1 DEF FlagsOf
<1>10. d.flags \cap {"#", "-", "+", " ", "0"} = d.flags
  BY <1>1
<1>11. /\ FlagsOf(d) \in Seq(Char)
       /\ \A k \in 1..Len(FlagsOf(d)) : FlagsOf(d)[k] \in d.flags
       /\ \A f \in d.flags : \E k \in 1..Len(FlagsOf(d)) : FlagsOf(d)[k] = f
  BY <1>9, <1>10 DEF Shows
<1>12. d.flags = {FlagsOf(d)[k] : k \in 1..Len(FlagsOf(d))}
  BY <1>11
<1> QED BY <1>1, <1>11, <1>12

\* A width or a precision: nothing, a star, or a numeral.
LEMMA NumberIs ==
  ASSUME NEW w, w \in {None, Star} \cup Nat
  PROVE  /\ Number(w) \in Seq(Char) /\ Len(Number(w)) \in Nat
         /\ w = None => Len(Number(w)) = 0
         /\ w = Star => Len(Number(w)) = 1 /\ Number(w)[1] = "*"
         /\ w \in Nat => /\ Number(w) = Numeral(w, Base(10)) /\ Len(Number(w)) >= 1
                         /\ Number(w)[1] = "0" <=> w = 0
                         /\ \A k \in 1..Len(Number(w)) : Number(w)[k] \in Decimal
<1>0. None \notin Nat /\ Star \notin Nat /\ None # Star
  BY DEF None, Star
<1>1. CASE w = None
  BY <1>0, <1>1, EmptySeq DEF Number
<1>2. CASE w = Star
  <2>1. Number(w) = <<"*">>
    BY <1>0, <1>2 DEF Number
  <2>2. "*" \in Char
    BY DEF Char, Literals
  <2> QED BY <1>0, <1>2, <2>1, <2>2
<1>3. CASE w \in Nat
  <2>1. Number(w) = Numeral(w, Base(10))
    BY <1>0, <1>3 DEF Number
  <2>2. LooksLike(Numeral(w, Base(10)), w, Base(10))
    BY <1>3, NumeralText DEF DigitSets
  <2>3. \A k \in 1..Len(Number(w)) : Number(w)[k] \in Decimal
    BY <1>3, <2>1, NumeralDecimal
  <2>4. /\ Number(w) \in Seq(Char) /\ Len(Number(w)) >= 1
        /\ Number(w)[1] = "0" <=> w = 0
    BY <2>1, <2>2 DEF LooksLike
  <2>5. Len(Number(w)) \in Nat
    BY <2>4, LenProperties
  <2> QED BY <1>0, <1>3, <2>1, <2>3, <2>4, <2>5
<1> QED BY <1>1, <1>2, <1>3

\* The parts of a directive are characters.
LEMMA PartsAre ==
  ASSUME NEW d, Conversion(d)
  PROVE  /\ FlagsOf(d) \in Seq(Char) /\ Len(FlagsOf(d)) \in Nat
         /\ Number(d.width) \in Seq(Char) /\ Len(Number(d.width)) \in Nat
         /\ PointOf(d) \in Seq(Char) /\ Len(PointOf(d)) = IF d.prec = None THEN 0 ELSE 1
         /\ d.prec # None => PointOf(d)[1] = "."
         /\ Number(d.prec) \in Seq(Char) /\ Len(Number(d.prec)) \in Nat
         /\ d.length \in Seq(Char) /\ Len(d.length) \in Nat
         /\ \A k \in 1..Len(d.length) : d.length[k] \in {"h", "l", "j", "z"}
         /\ ConvOf(d) \in Seq(Char) /\ Len(ConvOf(d)) = IF IsOpen(d) THEN 0 ELSE 1
         /\ ~IsOpen(d) => ConvOf(d)[1] = d.conv
<1>1. FlagsOf(d) \in Seq(Char) /\ Len(FlagsOf(d)) \in Nat
  BY FlagsAre, LenProperties
<1>2. Number(d.width) \in Seq(Char) /\ Len(Number(d.width)) \in Nat
  <2>1. d.width \in {None, Star} \cup Nat
    BY DEF Conversion
  <2> QED BY <2>1, NumberIs
<1>3. Number(d.prec) \in Seq(Char) /\ Len(Number(d.prec)) \in Nat
  <2>1. d.prec \in {None, Star} \cup Nat
    BY DEF Conversion
  <2> QED BY <2>1, NumberIs
<1>4. PointOf(d) \in Seq(Char) /\ Len(PointOf(d)) = IF d.prec = None THEN 0 ELSE 1
  <2>1. "." \in Char
    BY DEF Char, Literals
  <2>2. CASE d.prec = None
    BY <2>2, EmptySeq DEF PointOf
  <2>3. CASE d.prec # None
    BY <2>1, <2>3 DEF PointOf
  <2> QED BY <2>2, <2>3
<1>5. d.prec # None => PointOf(d)[1] = "."
  BY DEF PointOf
<1>6. /\ d.length \in Seq(Char) /\ Len(d.length) \in Nat
      /\ \A k \in 1..Len(d.length) : d.length[k] \in {"h", "l", "j", "z"}
  <2>1. {"h", "l", "j", "z"} \subseteq Char
    BY DEF Char, Literals
  <2>2. d.length \in Lengths
    BY DEF Conversion
  <2>3. CASE d.length = <<>>
    BY <2>3, EmptySeq
  <2>4. CASE \E c \in {"h", "l", "j", "z"} : d.length = <<c>>
    <3>1. PICK c \in {"h", "l", "j", "z"} : d.length = <<c>>
      BY <2>4
    <3>2. c \in Char
      BY <2>1
    <3>3. <<c>> \in Seq(Char) /\ Len(<<c>>) = 1 /\ <<c>>[1] = c
      BY <3>2
    <3> QED BY <3>1, <3>3
  <2>5. CASE \E c \in {"h", "l"} : d.length = <<c, c>>
    <3>1. PICK c \in {"h", "l"} : d.length = <<c, c>>
      BY <2>5
    <3>2. c \in Char /\ c \in {"h", "l", "j", "z"}
      BY <2>1
    <3>3. <<c, c>> \in Seq(Char) /\ Len(<<c, c>>) = 2 /\ <<c, c>>[1] = c /\ <<c, c>>[2] = c
      BY <3>2
    <3>4. \A k \in 1..2 : <<c, c>>[k] = c
      OBVIOUS
    <3> QED BY <3>1, <3>2, <3>3, <3>4
  <2> QED BY <2>2, <2>3, <2>4, <2>5 DEF Lengths
<1>7. CASE IsOpen(d)
  BY <1>1, <1>2, <1>3, <1>4, <1>5, <1>6, <1>7, EmptySeq DEF ConvOf
<1>8. CASE ~IsOpen(d)
  <2>1. d.conv \in Char
    <3>1. d.conv # Open
      BY <1>8 DEF Conversion, IsOpen
    <3> QED BY <3>1 DEF Conversion, is_f, Char, Literals
  <2>2. ConvOf(d) = <<d.conv>>
    BY <1>8 DEF ConvOf
  <2>3. ConvOf(d) \in Seq(Char) /\ Len(ConvOf(d)) = 1 /\ ConvOf(d)[1] = d.conv
    BY <2>1, <2>2
  <2> QED BY <1>1, <1>2, <1>3, <1>4, <1>5, <1>6, <1>8, <2>3
<1> QED BY <1>7, <1>8

\* One more part.
Adds(x, y) == /\ x \o y \in Seq(Char) /\ Len(x \o y) = Len(x) + Len(y)
              /\ Begins(x \o y, x) /\ Holds(x \o y, Len(x), y)

\* The length of two texts together.
LEMMA Adding == ASSUME NEW x, NEW y, x \in Seq(Char), y \in Seq(Char) PROVE Adds(x, y)
BY Joined, BeginsJoined DEF Adds

\* The parts of a directive, one behind the other.
LEMMA Layout ==
  ASSUME NEW d, Conversion(d)
  PROVE  /\ Holds(Characters(d), 0, <<"%">>) /\ Holds(Characters(d), 1, FlagsOf(d))
         /\ Holds(Characters(d), WidthAt(d), Number(d.width))
         /\ Holds(Characters(d), PrecAt(d), PointOf(d))
         /\ Holds(Characters(d), NumAt(d), Number(d.prec))
         /\ Holds(Characters(d), LengthAt(d), d.length)
         /\ Holds(Characters(d), LengthAt(d) + Len(d.length), ConvOf(d))
         /\ Len(Characters(d)) = LengthAt(d) + Len(d.length) + Len(ConvOf(d))
<1>0. "%" \in Char
  BY DEF Char, Literals
<1> DEFINE c1 == <<"%">>
           c2 == c1 \o FlagsOf(d)
           c3 == c2 \o Number(d.width)
           c4 == c3 \o PointOf(d)
           c5 == c4 \o Number(d.prec)
           c6 == c5 \o d.length
           c7 == c6 \o ConvOf(d)
<1>1. c1 \in Seq(Char) /\ Len(c1) = 1 /\ c1[1] = "%"
  BY <1>0
<1>2. c2 \in Seq(Char) /\ Len(c2) = WidthAt(d) /\ Begins(c2, c1) /\ Holds(c2, Len(c1), FlagsOf(d))
  <2>1. c1 \in Seq(Char)
    BY <1>1
  <2> HIDE DEF c1
  <2>2. FlagsOf(d) \in Seq(Char)
    BY PartsAre
  <2>3. Adds(c1, FlagsOf(d))
    BY <2>1, <2>2, Adding
  <2> QED BY <1>1, <2>3 DEF Adds, WidthAt
<1>3. c3 \in Seq(Char) /\ Len(c3) = PrecAt(d) /\ Begins(c3, c2) /\ Holds(c3, Len(c2), Number(d.width))
  <2>1. c2 \in Seq(Char)
    BY <1>2
  <2> HIDE DEF c2
  <2>2. Number(d.width) \in Seq(Char)
    BY PartsAre
  <2>3. Adds(c2, Number(d.width))
    BY <2>1, <2>2, Adding
  <2> QED BY <1>2, <2>3 DEF Adds, PrecAt
<1>4. c4 \in Seq(Char) /\ Len(c4) = NumAt(d) /\ Begins(c4, c3) /\ Holds(c4, Len(c3), PointOf(d))
  <2>1. c3 \in Seq(Char)
    BY <1>3
  <2> HIDE DEF c3
  <2>2. PointOf(d) \in Seq(Char)
    BY PartsAre
  <2>3. Adds(c3, PointOf(d))
    BY <2>1, <2>2, Adding
  <2> QED BY <1>3, <2>3 DEF Adds, NumAt
<1>5. c5 \in Seq(Char) /\ Len(c5) = LengthAt(d) /\ Begins(c5, c4) /\ Holds(c5, Len(c4), Number(d.prec))
  <2>1. c4 \in Seq(Char)
    BY <1>4
  <2> HIDE DEF c4
  <2>2. Number(d.prec) \in Seq(Char)
    BY PartsAre
  <2>3. Adds(c4, Number(d.prec))
    BY <2>1, <2>2, Adding
  <2> QED BY <1>4, <2>3 DEF Adds, LengthAt
<1>6. /\ c6 \in Seq(Char) /\ Len(c6) = LengthAt(d) + Len(d.length)
      /\ Begins(c6, c5) /\ Holds(c6, Len(c5), d.length)
  <2>1. c5 \in Seq(Char)
    BY <1>5
  <2> HIDE DEF c5
  <2>2. d.length \in Seq(Char)
    BY PartsAre
  <2>3. Adds(c5, d.length)
    BY <2>1, <2>2, Adding
  <2> QED BY <1>5, <2>3 DEF Adds
<1>7. /\ c7 \in Seq(Char) /\ Len(c7) = LengthAt(d) + Len(d.length) + Len(ConvOf(d))
      /\ Begins(c7, c6) /\ Holds(c7, Len(c6), ConvOf(d))
  <2>1. c6 \in Seq(Char)
    BY <1>6
  <2> HIDE DEF c6
  <2>2. ConvOf(d) \in Seq(Char)
    BY PartsAre
  <2>3. Adds(c6, ConvOf(d))
    BY <2>1, <2>2, Adding
  <2> QED BY <1>6, <2>3 DEF Adds
<1>8. Characters(d) = c7
  <2>1. "copy" \notin DOMAIN d
    BY DEF Conversion
  <2> QED BY <2>1 DEF Characters
<1> HIDE DEF c1, c2, c3, c4, c5, c6, c7
<1>9. Begins(c7, c5)
  BY <1>6, <1>7, BeginsOn
<1>10. Begins(c7, c4)
  BY <1>5, <1>9, BeginsOn
<1>11. Begins(c7, c3)
  BY <1>4, <1>10, BeginsOn
<1>12. Begins(c7, c2)
  BY <1>3, <1>11, BeginsOn
<1>13. Begins(c7, c1)
  BY <1>2, <1>12, BeginsOn
<1>14. Holds(c7, 0, c1)
  BY <1>1, <1>13 DEF Begins, Holds
<1>15. Holds(c7, 1, FlagsOf(d)) /\ Holds(c7, WidthAt(d), Number(d.width))
  BY <1>1, <1>2, <1>3, <1>11, <1>12, HasOn
<1>16. Holds(c7, PrecAt(d), PointOf(d)) /\ Holds(c7, NumAt(d), Number(d.prec))
  BY <1>3, <1>4, <1>5, <1>9, <1>10, HasOn
<1>17. Holds(c7, LengthAt(d), d.length)
  BY <1>5, <1>6, <1>7, HasOn
<1> QED BY <1>6, <1>7, <1>8, <1>14, <1>15, <1>16, <1>17 DEF c1

\* The characters that end a directive.
Closes(c) == is_f(c) \/ c = "%"

\* The characters x of a directive, by the part they are in.
Spelled(x, d) ==
  /\ x \in Seq(Char) /\ {WidthAt(d), PrecAt(d), NumAt(d), LengthAt(d), ConvAt(d)} \subseteq Nat
  /\ 1 <= WidthAt(d) /\ WidthAt(d) <= PrecAt(d) /\ PrecAt(d) <= NumAt(d) /\ NumAt(d) <= LengthAt(d)
  /\ LengthAt(d) < ConvAt(d) /\ Len(x) = IF IsOpen(d) THEN ConvAt(d) - 1 ELSE ConvAt(d)
  /\ x[1] = "%"
  /\ \A m \in 2..WidthAt(d) : x[m] = FlagsOf(d)[m - 1] /\ x[m] \in {"#", "-", "+", " ", "0"}
  /\ \A m \in (WidthAt(d) + 1)..PrecAt(d) : x[m] = Number(d.width)[m - WidthAt(d)]
  /\ NumAt(d) = IF d.prec = None THEN PrecAt(d) ELSE PrecAt(d) + 1
  /\ d.prec # None => x[PrecAt(d) + 1] = "."
  /\ \A m \in (NumAt(d) + 1)..LengthAt(d) : x[m] = Number(d.prec)[m - NumAt(d)]
  /\ \A m \in (LengthAt(d) + 1)..(ConvAt(d) - 1) :
       x[m] = d.length[m - LengthAt(d)] /\ x[m] \in {"h", "l", "j", "z"}
  /\ ~IsOpen(d) => x[ConvAt(d)] = d.conv
  /\ \A m \in 2..(ConvAt(d) - 1) : ~Closes(x[m])

\* What a numeral is made of is no other character of a directive.
LEMMA DecimalIs ==
  ASSUME NEW c \in Decimal
  PROVE  ~Closes(c) /\ c \notin {"#", "-", "+", " ", "*", ".", "h", "l", "j", "z"}
<1>1. PICK k \in 1..10 : c = Hex[k]
  BY DEF Decimal
<1>2. \A j \in 1..10 : Hex[j] \notin {"#", "-", "+", " ", "*", ".", "h", "l", "j", "z"}
  <2>1. Hex \in Seq({"0", "1", "2", "3", "4", "5", "6", "7", "8", "9", "a", "b", "c", "d", "e", "f"})
    BY DEF Hex
  <2>2. ASSUME NEW j \in 1..10
        PROVE  Hex[j] \in {"0", "1", "2", "3", "4", "5", "6", "7", "8", "9", "a", "b", "c", "d", "e", "f"}
    <3>1. j \in 1..Len(Hex)
      BY HexIs
    <3> QED BY <2>1, <3>1, ElementOfSeq
  <2> QED BY <2>2
<1>3. \A j \in 1..10 : ~Closes(Hex[j])
  BY DEF Hex, Closes, is_f
<1> QED BY <1>1, <1>2, <1>3

\* Every directive is spelled: the parts of its text stand at the places named for them.
LEMMA Spelling == ASSUME NEW d, Conversion(d) PROVE Spelled(Characters(d), d)
<1>1. PICK x, fl, wl, ol, nl, ll :
        /\ x = Characters(d) /\ fl = Len(FlagsOf(d)) /\ wl = Len(Number(d.width))
        /\ ol = Len(PointOf(d)) /\ nl = Len(Number(d.prec)) /\ ll = Len(d.length)
  OBVIOUS
<1>2. {fl, wl, ol, nl, ll} \subseteq Nat /\ ol = IF d.prec = None THEN 0 ELSE 1
  <2>1. fl \in Nat /\ wl \in Nat /\ nl \in Nat /\ ll \in Nat
    BY <1>1, PartsAre
  <2>2. ol = IF d.prec = None THEN 0 ELSE 1
    BY <1>1, PartsAre
  <2> QED BY <2>1, <2>2
<1>3. /\ WidthAt(d) = 1 + fl /\ PrecAt(d) = 1 + fl + wl /\ NumAt(d) = 1 + fl + wl + ol
      /\ LengthAt(d) = 1 + fl + wl + ol + nl /\ ConvAt(d) = 1 + fl + wl + ol + nl + ll + 1
  BY <1>1 DEF WidthAt, PrecAt, NumAt, LengthAt, ConvAt
<1>4. /\ Holds(x, 0, <<"%">>) /\ Holds(x, 1, FlagsOf(d))
      /\ Holds(x, WidthAt(d), Number(d.width)) /\ Holds(x, PrecAt(d), PointOf(d))
      /\ Holds(x, NumAt(d), Number(d.prec)) /\ Holds(x, LengthAt(d), d.length)
      /\ Holds(x, LengthAt(d) + Len(d.length), ConvOf(d))
      /\ Len(x) = LengthAt(d) + Len(d.length) + Len(ConvOf(d))
  BY <1>1, Layout
<1>5. /\ {WidthAt(d), PrecAt(d), NumAt(d), LengthAt(d), ConvAt(d)} \subseteq Nat
      /\ 1 <= WidthAt(d) /\ WidthAt(d) <= PrecAt(d) /\ PrecAt(d) <= NumAt(d) /\ NumAt(d) <= LengthAt(d)
      /\ LengthAt(d) < ConvAt(d) /\ NumAt(d) = IF d.prec = None THEN PrecAt(d) ELSE PrecAt(d) + 1
  BY <1>2, <1>3
<1>6. x \in Seq(Char) /\ x[1] = "%"
  <2>1. 1 \in 1..Len(<<"%">>) /\ 0 + 1 = 1 /\ <<"%">>[1] = "%"
    OBVIOUS
  <2> QED BY <1>4, <2>1 DEF Holds
<1>7. Len(x) = IF IsOpen(d) THEN ConvAt(d) - 1 ELSE ConvAt(d)
  <2>1. Len(ConvOf(d)) = IF IsOpen(d) THEN 0 ELSE 1
    BY PartsAre
  <2>2. Len(x) = LengthAt(d) + ll + Len(ConvOf(d)) /\ ConvAt(d) = LengthAt(d) + ll + 1
    BY <1>1, <1>4 DEF ConvAt
  <2> QED BY <1>2, <1>5, <2>1, <2>2
<1>8. ASSUME NEW m \in 2..WidthAt(d)
      PROVE  x[m] = FlagsOf(d)[m - 1] /\ x[m] \in {"#", "-", "+", " ", "0"}
  <2>1. PICK k : k = m - 1 /\ k \in 1..fl /\ m = 1 + k
    BY <1>2, <1>3
  <2>2. x[1 + k] = FlagsOf(d)[k] /\ FlagsOf(d)[k] \in {"#", "-", "+", " ", "0"}
    BY <1>1, <1>4, <2>1, FlagsAre DEF Holds
  <2> QED BY <2>1, <2>2
<1>9. ASSUME NEW m \in (WidthAt(d) + 1)..PrecAt(d) PROVE x[m] = Number(d.width)[m - WidthAt(d)]
  <2>1. PICK k : k = m - WidthAt(d) /\ k \in 1..wl /\ m = WidthAt(d) + k
    BY <1>2, <1>3
  <2> QED BY <1>1, <1>4, <2>1 DEF Holds
<1>10. d.prec # None => x[PrecAt(d) + 1] = "."
  <2>1. d.prec # None => 1 \in 1..Len(PointOf(d)) /\ PointOf(d)[1] = "."
    BY PartsAre
  <2> QED BY <1>4, <2>1 DEF Holds
<1>11. ASSUME NEW m \in (NumAt(d) + 1)..LengthAt(d) PROVE x[m] = Number(d.prec)[m - NumAt(d)]
  <2>1. PICK k : k = m - NumAt(d) /\ k \in 1..nl /\ m = NumAt(d) + k
    BY <1>2, <1>3
  <2> QED BY <1>1, <1>4, <2>1 DEF Holds
<1>12. ASSUME NEW m \in (LengthAt(d) + 1)..(ConvAt(d) - 1)
       PROVE  x[m] = d.length[m - LengthAt(d)] /\ x[m] \in {"h", "l", "j", "z"}
  <2>1. PICK k : k = m - LengthAt(d) /\ k \in 1..ll /\ m = LengthAt(d) + k
    BY <1>2, <1>3
  <2>2. x[m] = d.length[k]
    BY <1>1, <1>4, <2>1 DEF Holds
  <2>3. d.length[k] \in {"h", "l", "j", "z"}
    BY <1>1, <2>1, PartsAre
  <2> QED BY <2>1, <2>2, <2>3
<1>13. ~IsOpen(d) => x[ConvAt(d)] = d.conv
  <2>1. ~IsOpen(d) => 1 \in 1..Len(ConvOf(d)) /\ ConvOf(d)[1] = d.conv
    BY PartsAre
  <2>2. ~IsOpen(d) => x[LengthAt(d) + Len(d.length) + 1] = d.conv
    BY <1>4, <2>1 DEF Holds
  <2> QED BY <2>2 DEF ConvAt
<1>14. ASSUME NEW m \in 2..(ConvAt(d) - 1) PROVE ~Closes(x[m])
  <2>1. \A c \in {"#", "-", "+", " ", "0", ".", "*", "h", "l", "j", "z"} : ~Closes(c)
    BY DEF Closes, is_f
  <2>2. ASSUME NEW w, w \in {None, Star} \cup Nat, NEW k \in 1..Len(Number(w)) PROVE ~Closes(Number(w)[k])
    <3>1. CASE w = None
      BY <2>2, <3>1, NumberIs
    <3>2. CASE w = Star
      <4>0. Len(Number(w)) = 1 /\ Number(w)[1] = "*"
        BY <3>2, NumberIs
      <4>1. k = 1 /\ Number(w)[1] = "*"
        BY <2>2, <4>0
      <4> QED BY <2>1, <4>1
    <3>3. CASE w \in Nat
      BY <3>3, NumberIs, DecimalIs
    <3> QED BY <2>2, <3>1, <3>2, <3>3
  <2>3. CASE m <= WidthAt(d)
    <3>1. m \in 2..WidthAt(d)
      BY <1>5, <2>3
    <3> QED BY <1>8, <2>1, <3>1
  <2>4. CASE m > WidthAt(d) /\ m <= PrecAt(d)
    <3>1. PICK k : k = m - WidthAt(d) /\ k \in 1..wl /\ m \in (WidthAt(d) + 1)..PrecAt(d)
      BY <1>2, <1>3, <2>4
    <3>2. d.width \in {None, Star} \cup Nat
      BY DEF Conversion
    <3> QED BY <1>1, <1>9, <2>2, <3>1, <3>2
  <2>5. CASE m > PrecAt(d) /\ m <= NumAt(d)
    <3>1. d.prec # None /\ m = PrecAt(d) + 1
      BY <1>5, <2>5
    <3> QED BY <1>10, <2>1, <3>1
  <2>6. CASE m > NumAt(d) /\ m <= LengthAt(d)
    <3>1. PICK k : k = m - NumAt(d) /\ k \in 1..nl /\ m \in (NumAt(d) + 1)..LengthAt(d)
      BY <1>2, <1>3, <2>6
    <3>2. d.prec \in {None, Star} \cup Nat
      BY DEF Conversion
    <3> QED BY <1>1, <1>11, <2>2, <3>1, <3>2
  <2>7. CASE m > LengthAt(d)
    <3>1. m \in (LengthAt(d) + 1)..(ConvAt(d) - 1)
      BY <1>5, <2>7
    <3> QED BY <1>12, <2>1, <3>1
  <2>8. m \in Int /\ WidthAt(d) \in Int /\ PrecAt(d) \in Int /\ NumAt(d) \in Int /\ LengthAt(d) \in Int
    BY <1>5
  <2> QED BY <2>3, <2>4, <2>5, <2>6, <2>7, <2>8
<1>15. Spelled(x, d)
  BY <1>5, <1>6, <1>7, <1>8, <1>9, <1>10, <1>11, <1>12, <1>13, <1>14 DEF Spelled
<1> QED BY <1>1, <1>15

-----------------------------------------------------------------------------
(***************************************************************************)
(* A call and its format.                                                  *)
(***************************************************************************)

\* The last character of each directive in the format.
Lasts(c) == Sums([q \in 1..Len(c.spec) |-> Len(Characters(c.spec[q]))])

\* The directives that are a character.
Copied(d) == DOMAIN d = {"copy"} /\ d.copy \in STRING \ {"%"}

\* A directive of a call is a character to copy or a conversion, of one character at least.
LEMMA Directive ==
  ASSUME NEW d, IsDirective(d)
  PROVE  /\ (Conversion(d) /\ "copy" \notin DOMAIN d /\ "conv" \in DOMAIN d)
            \/ (Copied(d) /\ "copy" \in DOMAIN d /\ "conv" \notin DOMAIN d)
BY DEF IsDirective, Conversion, Copied

\* The arguments of a directive: one for each star, and its own.
StarsOf(d) == (IF d.width = Star THEN 1 ELSE 0) + (IF d.prec = Star THEN 1 ELSE 0)
\* A directive takes as many arguments as it has stars, and one for its conversion.
LEMMA TakesIs ==
  ASSUME NEW d
  PROVE  /\ Conversion(d) => /\ Takes(d) = StarsOf(d) + (IF d.conv \in {"%", Open} THEN 0 ELSE 1)
                             /\ StarsOf(d) \in 0..2
         /\ Copied(d) => Takes(d) = 0
<1>1. ASSUME Conversion(d)
      PROVE  Takes(d) = StarsOf(d) + (IF d.conv \in {"%", Open} THEN 0 ELSE 1) /\ StarsOf(d) \in 0..2
  <2> DEFINE S == {w \in {"width", "prec"} : d[w] = Star}
  <2>1. Cardinality(S) = StarsOf(d)
    <3>1. CASE d.width = Star /\ d.prec = Star
      <4>1. S = {"prec"} \cup {"width"}
        BY <3>1
      <4>2. IsFiniteSet({"prec"}) /\ Cardinality({"prec"}) = 1 /\ "width" \notin {"prec"}
        BY FS_Singleton
      <4>3. Cardinality({"prec"} \cup {"width"}) = 1 + 1
        BY <4>2, FS_AddElement
      <4> QED BY <3>1, <4>1, <4>3 DEF StarsOf
    <3>2. CASE d.width = Star /\ d.prec # Star
      <4>1. S = {"width"}
        BY <3>2
      <4>2. Cardinality({"width"}) = 1
        BY FS_Singleton
      <4> QED BY <3>2, <4>1, <4>2 DEF StarsOf
    <3>3. CASE d.width # Star /\ d.prec = Star
      <4>1. S = {"prec"}
        BY <3>3
      <4>2. Cardinality({"prec"}) = 1
        BY FS_Singleton
      <4> QED BY <3>3, <4>1, <4>2 DEF StarsOf
    <3>4. CASE d.width # Star /\ d.prec # Star
      <4>1. S = {}
        BY <3>4
      <4> QED BY <3>4, <4>1, FS_EmptySet DEF StarsOf
    <3> QED BY <3>1, <3>2, <3>3, <3>4
  <2>2. "copy" \notin DOMAIN d
    BY <1>1 DEF Conversion
  <2>3. Takes(d) = Cardinality(S) + (IF d.conv \in {"%", Open} THEN 0 ELSE 1)
    BY <2>2 DEF Takes
  <2>4. StarsOf(d) \in 0..2
    BY DEF StarsOf
  <2> HIDE DEF S
  <2> QED BY <2>1, <2>3, <2>4
<1>2. ASSUME Copied(d) PROVE Takes(d) = 0
  BY <1>2 DEF Copied, Takes
<1> QED BY <1>1, <1>2

\* What is known of a call: its directives, how many arguments they take and where in
\* the format they end.
Known(c) ==
  /\ Len(c.spec) \in Nat /\ Len(c.args) \in Nat
  /\ \A q \in 1..Len(c.spec) : /\ Conversion(c.spec[q]) \/ Copied(c.spec[q])
                               /\ IsDirective(c.spec[q])
                               /\ Takes(c.spec[q]) \in Nat /\ Characters(c.spec[q]) \in Seq(Char)
                               /\ Len(Characters(c.spec[q])) \in Nat
  /\ \A k \in 1..Len(c.args) : IsArg(c.args[k])
  /\ Taken(c.spec) \in [0..Len(c.spec) -> Nat] /\ Taken(c.spec)[0] = 0
  /\ \A q \in 1..Len(c.spec) : Taken(c.spec)[q] = Taken(c.spec)[q - 1] + Takes(c.spec[q])
  /\ \A q \in 0..Len(c.spec) : Taken(c.spec)[q] <= Len(c.args)
  /\ Taken(c.spec)[Len(c.spec)] = Len(c.args)
  /\ Lasts(c) \in [0..Len(c.spec) -> Nat] /\ Lasts(c)[0] = 0
  /\ \A q \in 1..Len(c.spec) : Lasts(c)[q] = Lasts(c)[q - 1] + Len(Characters(c.spec[q]))

\* It is known of every call.
LEMMA CallKnown == ASSUME NEW c \in Calls PROVE Known(c)
<1>1. PICK n : n = Len(c.spec)
  OBVIOUS
<1>2. n \in Nat /\ Len(c.args) \in Nat
  BY <1>1, CallsAssumption, LenProperties DEF IsCall
<1>3. /\ \A q \in 1..n : IsDirective(c.spec[q])
      /\ \A k \in 1..Len(c.args) : IsArg(c.args[k])
      /\ Len(c.args) = Taken(c.spec)[n]
  BY <1>1, CallsAssumption DEF IsCall
<1>4. ASSUME NEW q \in 1..n
      PROVE  /\ Conversion(c.spec[q]) \/ Copied(c.spec[q])
             /\ Takes(c.spec[q]) \in Nat /\ Characters(c.spec[q]) \in Seq(Char)
             /\ Len(Characters(c.spec[q])) \in Nat
  <2>1. PICK d : d = c.spec[q]
    OBVIOUS
  <2>2. Conversion(d) \/ (Copied(d) /\ "copy" \in DOMAIN d)
    BY <1>3, <2>1, Directive
  <2>3. Takes(d) \in Nat
    <3>1. CASE Conversion(d)
      <4>1. Takes(d) = StarsOf(d) + (IF d.conv \in {"%", Open} THEN 0 ELSE 1) /\ StarsOf(d) \in 0..2
        BY <3>1, TakesIs
      <4> QED BY <4>1
    <3>2. CASE Copied(d)
      BY <3>2, TakesIs
    <3> QED BY <2>2, <3>1, <3>2
  <2>4. Characters(d) \in Seq(Char)
    <3>1. CASE Conversion(d)
      BY <3>1, Spelling DEF Spelled
    <3>2. CASE Copied(d) /\ "copy" \in DOMAIN d
      <4>1. d.copy \in Char
        BY <3>2 DEF Copied, Char
      <4>2. Characters(d) = <<d.copy>>
        BY <3>2 DEF Characters
      <4> QED BY <4>1, <4>2
    <3> QED BY <2>2, <3>1, <3>2
  <2>5. Len(Characters(d)) \in Nat
    BY <2>4, LenProperties
  <2> QED BY <2>1, <2>2, <2>3, <2>4, <2>5
<1>5. /\ Taken(c.spec) \in [0..n -> Nat] /\ Taken(c.spec)[0] = 0
      /\ \A q \in 1..n : Taken(c.spec)[q] = Taken(c.spec)[q - 1] + Takes(c.spec[q])
  <2>1. PICK t : t = [q \in 1..n |-> Takes(c.spec[q])]
    OBVIOUS
  <2>2. Len(t) = n /\ \A q \in 1..n : t[q] \in Nat /\ t[q] = Takes(c.spec[q])
    BY <1>2, <1>4, <2>1
  <2>3. Taken(c.spec) = Sums(t)
    BY <1>1, <2>1 DEF Taken
  <2>4. Sums(t) \in [0..n -> Nat] /\ Sums(t)[0] = 0 /\ \A q \in 1..n : Sums(t)[q] = Sums(t)[q - 1] + t[q]
    BY <1>2, <2>2, SumsOf
  <2> QED BY <2>2, <2>3, <2>4
<1>6. /\ Lasts(c) \in [0..n -> Nat] /\ Lasts(c)[0] = 0
      /\ \A q \in 1..n : Lasts(c)[q] = Lasts(c)[q - 1] + Len(Characters(c.spec[q]))
  <2>1. PICK t : t = [q \in 1..n |-> Len(Characters(c.spec[q]))]
    OBVIOUS
  <2>2. Len(t) = n /\ \A q \in 1..n : t[q] \in Nat /\ t[q] = Len(Characters(c.spec[q]))
    BY <1>2, <1>4, <2>1
  <2>3. Lasts(c) = Sums(t)
    BY <1>1, <2>1 DEF Lasts
  <2>4. Sums(t) \in [0..n -> Nat] /\ Sums(t)[0] = 0 /\ \A q \in 1..n : Sums(t)[q] = Sums(t)[q - 1] + t[q]
    BY <1>2, <2>2, SumsOf
  <2> QED BY <2>2, <2>3, <2>4
<1>7. \A q \in 0..n : Taken(c.spec)[q] <= Taken(c.spec)[n]
  <2>1. PICK e \in [0..n -> Nat] : e = Taken(c.spec)
    BY <1>5
  <2>2. ASSUME NEW q \in 1..n PROVE e[q - 1] <= e[q]
    <3>1. q - 1 \in 0..n /\ q \in 0..n
      BY <1>2
    <3>2. e[q - 1] \in Nat /\ Takes(c.spec[q]) \in Nat /\ e[q] = e[q - 1] + Takes(c.spec[q])
      BY <1>4, <1>5, <2>1, <3>1
    <3> QED BY <3>2
  <2>3. \A q \in 0..n : e[q] <= e[n]
    BY <1>2, <2>2, SumsGrow
  <2> QED BY <2>1, <2>3
<1> QED BY <1>1, <1>2, <1>3, <1>4, <1>5, <1>6, <1>7 DEF Known

\* The format is the characters of the directives.
Formatted(x, c) ==
  /\ x \in Seq(Char) /\ Len(x) = Lasts(c)[Len(c.spec)] /\ Len(x) \in Nat
  /\ \A q \in 1..Len(c.spec) :
       /\ Lasts(c)[q] <= Len(x)
       /\ \A m \in 1..Len(Characters(c.spec[q])) : x[Lasts(c)[q - 1] + m] = Characters(c.spec[q])[m]

\* g is what the first of the n sequences s make together.
Whole(S, s, n, g) == /\ Closed(S) /\ n \in Nat /\ Len(s) = n /\ (n = 0 => s = <<>>)
                     /\ (\A j \in 1..n : s[j] \in S) /\ g \in [0..n -> S] /\ Flattens(g, s, n)

\* FlattenSeq of them is the last value.
LEMMA FlattenWhole == ASSUME NEW S, NEW s, NEW n, NEW g, Whole(S, s, n, g) PROVE FlattenSeq(s) = g[n]
BY FlattenIs DEF Whole

\* The format of a call is its directives, each at its place.
LEMMA FormatIs ==
  ASSUME NEW c \in Calls
  PROVE  Formatted(FlattenSeq([q \in 1..Len(c.spec) |-> Characters(c.spec[q])]), c)
<1>1. PICK n, s : n = Len(c.spec) /\ s = [q \in 1..n |-> Characters(c.spec[q])]
  OBVIOUS
<1>2. Known(c)
  BY CallKnown
<1>3. n \in Nat /\ Len(s) = n /\ \A q \in 1..n : s[q] \in Seq(Char) /\ s[q] = Characters(c.spec[q])
  BY <1>1, <1>2 DEF Known
<1>4. n = 0 => s = <<>>
  BY <1>1
<1>5. PICK g \in [0..n -> Seq(Char)] : Flattens(g, s, n)
  BY <1>3, SeqClosed, Flattening
<1>6. FlattenSeq(s) = g[n]
  <2>1. PICK S : S = Seq(Char)
    OBVIOUS
  <2>2. Closed(S) /\ g \in [0..n -> S] /\ \A q \in 1..n : s[q] \in S
    BY <1>3, <1>5, <2>1, SeqClosed
  <2>3. \A j \in 1..n : s[j] \in S
    BY <2>2
  <2>4. n \in Nat /\ Len(s) = n /\ (n = 0 => s = <<>>) /\ Flattens(g, s, n)
    BY <1>3, <1>4, <1>5
  <2> QED BY <2>2, <2>3, <2>4, FlattenWhole DEF Whole
<1>7. Lasts(c) \in [0..n -> Nat] /\ Ends(Lasts(c), s, n)
  BY <1>1, <1>2, <1>3 DEF Known, Ends
<1>8. Placed(n, g, Lasts(c), s)
  BY <1>3, <1>5, <1>7, Pieces
<1>9. g[n] \in Seq(Char) /\ Len(g[n]) \in Nat
  <2>1. n \in 0..n
    BY <1>3
  <2> QED BY <1>5, <2>1, LenProperties
<1>10. PICK x : x = g[n]
  OBVIOUS
<1>11. x = FlattenSeq([q \in 1..Len(c.spec) |-> Characters(c.spec[q])])
  BY <1>1, <1>6, <1>10
<1>12. ASSUME NEW q \in 1..n
       PROVE  /\ Lasts(c)[q] <= Len(x)
              /\ \A m \in 1..Len(Characters(c.spec[q])) : x[Lasts(c)[q - 1] + m] = Characters(c.spec[q])[m]
  <2>1. s[q] = Characters(c.spec[q])
    BY <1>3
  <2>2. Lasts(c)[q] <= Lasts(c)[n] /\ \A m \in 1..Len(s[q]) : x[Lasts(c)[q - 1] + m] = s[q][m]
    BY <1>8, <1>10 DEF Placed
  <2>3. Len(x) = Lasts(c)[n]
    BY <1>8, <1>10 DEF Placed
  <2> QED BY <2>1, <2>2, <2>3
<1>13. Len(x) = Lasts(c)[n]
  BY <1>8, <1>10 DEF Placed
<1>14. Formatted(x, c)
  BY <1>1, <1>9, <1>10, <1>12, <1>13 DEF Formatted
<1> QED BY <1>11, <1>14

-----------------------------------------------------------------------------
(***************************************************************************)
(* The inductive invariant.  Where the format is read is told by a         *)
(* directive q and by how far set_flags has come in it.                    *)
(***************************************************************************)

\* The arguments taken before the flags of d are read, with k before the directive,
\* and behind its width and its precision.
First(d, k)  == IF d.conv = "S" THEN k + 1 ELSE k
Second(d, k) == IF d.width = Star THEN First(d, k) + 1 ELSE First(d, k)
Third(d, k)  == IF d.prec = Star THEN Second(d, k) + 1 ELSE Second(d, k)
Size(v)      == IF v < 0 THEN -v ELSE v

\* set_flags is at the character o of directive d: among the flags, behind the width,
\* or behind the precision.
AtFlags(d, o, k) ==
  /\ o \in 2..(WidthAt(d) + 1) /\ a = First(d, k)
  /\ data = [flags |-> {FlagsOf(d)[m] : m \in 1..(o - 2)}, width |-> 0, precision |-> -1]
AtPoint(d, o, k) ==
  /\ o = PrecAt(d) + 1 /\ a = Second(d, k)
  /\ data = [flags |-> d.flags, width |-> Size(WidthOf(d, First(d, k))), precision |-> -1]
AtLength(d, o, k) ==
  /\ o \in (LengthAt(d) + 1)..(ConvAt(d) + 1) /\ a = Third(d, k)
  /\ data = [flags |-> d.flags, width |-> Size(WidthOf(d, First(d, k))),
             precision |-> PrecisionOf(d, First(d, k))]

\* The directive d, with k arguments and e characters before it, is being read.
Reading(q, d, k, e) ==
  /\ q \in 1..Len(call.spec) /\ d = call.spec[q] /\ k = Before(q) /\ e = Lasts(call)[q - 1]
  /\ Conversion(d) /\ ~IsOpen(d) /\ i = e + 1 /\ stop = e + ConvAt(d)
Come(d, o, k, e) ==
  /\ o \in 2..(ConvAt(d) + 1) /\ p = e + o
  /\ AtFlags(d, o, k) \/ AtPoint(d, o, k) \/ AtLength(d, o, k)

\* Between two directives: what is before i is what the first q directives are spelled with,
\* and the arguments taken are theirs.
InFormat == \E q \in 0..Len(call.spec) : i = Lasts(call)[q] + 1 /\ a = Taken(call.spec)[q]
InDirective == \E q, d, k, e, o : Reading(q, d, k, e) /\ Come(d, o, k, e)

\* The first number that is not an int.
Half == IntMod \div 2
LEMMA HalfIs == Half \in Nat
<1>1. IntMod \in Nat \ {0}
  BY CallsAssumption
<1> QED BY <1>1 DEF Half

\* What was written is counted, if that many characters can be.
Returned == Len(out) < Half => nbr = Len(out)

\* The inductive invariant: the position in the format is between two directives or within
\* one, in set_flags, with the arguments taken and the data that belong to that place.
IInv ==
  /\ call \in Calls
  /\ format = FlattenSeq([q \in 1..Len(call.spec) |-> Characters(call.spec[q])])
  /\ out \in Seq(Char) /\ Counted
  /\ pc \in {"text", "flags", "done", "beyond"}
  /\ pc = "text" => InFormat
  /\ pc = "flags" => InDirective
  /\ Inside

\* What is known of the format and the arguments of a directive.
Spot(q, d, k, e) ==
  /\ q \in 1..Len(call.spec) /\ d = call.spec[q] /\ k = Taken(call.spec)[q - 1] /\ k = Before(q)
  /\ e = Lasts(call)[q - 1]
  /\ IsDirective(d) /\ k \in Nat /\ e \in Nat /\ Takes(d) \in Nat
  /\ Taken(call.spec)[q] = k + Takes(d) /\ k + Takes(d) <= Len(call.args)
  /\ Len(call.args) \in Nat /\ \A m \in 1..Len(call.args) : IsArg(call.args[m])
  /\ format \in Seq(Char) /\ Len(format) \in Nat
  /\ Lasts(call)[q] = e + Len(Characters(d)) /\ Lasts(call)[q] <= Len(format)
  /\ \A m \in 1..Len(Characters(d)) : format[e + m] = Characters(d)[m]

\* Of any directive of a call.
LEMMA SpotIs ==
  ASSUME call \in Calls, NEW q \in 1..Len(call.spec),
         format = FlattenSeq([m \in 1..Len(call.spec) |-> Characters(call.spec[m])])
  PROVE  Spot(q, call.spec[q], Taken(call.spec)[q - 1], Lasts(call)[q - 1])
<1>1. PICK c, n, d : c = call /\ n = Len(c.spec) /\ d = c.spec[q]
  OBVIOUS
<1>2. Known(c) /\ Formatted(format, c)
  BY <1>1, CallKnown, FormatIs
<1>3. q \in 1..n /\ q \in 0..n /\ q - 1 \in 0..n
  <2>1. n \in Nat /\ q \in 1..n
    BY <1>1, <1>2 DEF Known
  <2> QED BY <2>1
<1>4. Taken(c.spec)[q - 1] \in Nat /\ Lasts(c)[q - 1] \in Nat
  BY <1>1, <1>2, <1>3 DEF Known
<1>5. /\ IsDirective(d) /\ Takes(d) \in Nat /\ Taken(c.spec)[q] = Taken(c.spec)[q - 1] + Takes(d)
      /\ Taken(c.spec)[q] <= Len(c.args) /\ Lasts(c)[q] = Lasts(c)[q - 1] + Len(Characters(d))
      /\ Len(c.args) \in Nat /\ \A m \in 1..Len(c.args) : IsArg(c.args[m])
  BY <1>1, <1>2, <1>3 DEF Known
<1>6. /\ format \in Seq(Char) /\ Len(format) \in Nat /\ Lasts(c)[q] <= Len(format)
      /\ \A m \in 1..Len(Characters(d)) : format[Lasts(c)[q - 1] + m] = Characters(d)[m]
  BY <1>1, <1>2, <1>3 DEF Formatted
<1> QED BY <1>1, <1>3, <1>4, <1>5, <1>6 DEF Spot, Before

\* Signed gives integers.
LEMMA SignedInt == ASSUME NEW v \in Int, NEW b \in Nat \ {0} PROVE Signed(v, b) \in Int
BY DEF Signed

\* A sum that is an int is as it is, and one that is not wraps to something smaller.
LEMMA AsIntIs == ASSUME NEW v \in Nat PROVE AsInt(v) \in Int /\ AsInt(v) <= v /\ (v < Half => AsInt(v) = v)
<1>1. PICK b : b = IntMod /\ b \in Nat \ {0}
  BY CallsAssumption
<1>2. PICK w : w = v % b
  OBVIOUS
<1>3. w \in 0..(b - 1) /\ w <= v /\ (v < b => w = v)
  BY <1>1, <1>2
<1>4. b \div 2 \in Nat /\ b \div 2 <= b
  BY <1>1
<1>5. AsInt(v) = IF w >= b \div 2 THEN w - b ELSE w
  BY <1>1, <1>2 DEF AsInt, Signed
<1>6. Half = b \div 2
  BY <1>1 DEF Half
<1>7. PICK h : h = b \div 2 /\ h \in Nat /\ h <= b
  BY <1>4
<1> QED BY <1>1, <1>3, <1>5, <1>6, <1>7

\* The characters of the format, by the part of the directive they are in.
Shape(d, e) ==
  /\ e \in Nat /\ format \in Seq(Char) /\ Len(format) \in Nat /\ e + ConvAt(d) <= Len(format)
  /\ WidthAt(d) \in Nat /\ PrecAt(d) \in Nat /\ NumAt(d) \in Nat /\ LengthAt(d) \in Nat /\ ConvAt(d) \in Nat
  /\ 1 <= WidthAt(d) /\ WidthAt(d) <= PrecAt(d) /\ PrecAt(d) <= NumAt(d) /\ NumAt(d) <= LengthAt(d)
  /\ LengthAt(d) < ConvAt(d)
  /\ format[e + 1] = "%"
  /\ \A m \in 2..WidthAt(d) : format[e + m] = FlagsOf(d)[m - 1] /\ format[e + m] \in {"#", "-", "+", " ", "0"}
  /\ \A m \in (WidthAt(d) + 1)..PrecAt(d) : format[e + m] = Number(d.width)[m - WidthAt(d)]
  /\ NumAt(d) = IF d.prec = None THEN PrecAt(d) ELSE PrecAt(d) + 1
  /\ d.prec # None => format[e + (PrecAt(d) + 1)] = "."
  /\ \A m \in (NumAt(d) + 1)..LengthAt(d) : format[e + m] = Number(d.prec)[m - NumAt(d)]
  /\ \A m \in (LengthAt(d) + 1)..(ConvAt(d) - 1) :
       format[e + m] = d.length[m - LengthAt(d)] /\ format[e + m] \in {"h", "l", "j", "z"}
  /\ format[e + ConvAt(d)] = d.conv
  /\ \A m \in 2..(ConvAt(d) - 1) : ~Closes(format[e + m])

\* Of any conversion of a call.
LEMMA ShapeIs ==
  ASSUME NEW q, NEW d, NEW k, NEW e, Spot(q, d, k, e), Conversion(d), ~IsOpen(d)
  PROVE  Shape(d, e) /\ Lasts(call)[q] = e + ConvAt(d)
<1>1. PICK x : x = Characters(d)
  OBVIOUS
<1>2. Spelled(x, d)
  BY <1>1, Spelling
<1>3. Len(x) = ConvAt(d)
  BY <1>2 DEF Spelled
<1>4. /\ e \in Nat /\ format \in Seq(Char) /\ Len(format) \in Nat /\ e + ConvAt(d) <= Len(format)
      /\ Lasts(call)[q] = e + ConvAt(d) /\ \A m \in 1..ConvAt(d) : format[e + m] = x[m]
  BY <1>1, <1>3 DEF Spot
<1>5. /\ WidthAt(d) \in Nat /\ PrecAt(d) \in Nat /\ NumAt(d) \in Nat /\ LengthAt(d) \in Nat /\ ConvAt(d) \in Nat
      /\ 1 <= WidthAt(d) /\ WidthAt(d) <= PrecAt(d) /\ PrecAt(d) <= NumAt(d) /\ NumAt(d) <= LengthAt(d)
      /\ LengthAt(d) < ConvAt(d) /\ NumAt(d) = IF d.prec = None THEN PrecAt(d) ELSE PrecAt(d) + 1
  BY <1>2 DEF Spelled
<1>6. format[e + 1] = "%" /\ format[e + ConvAt(d)] = d.conv
  <2>1. 1 \in 1..ConvAt(d) /\ ConvAt(d) \in 1..ConvAt(d)
    BY <1>5
  <2>2. x[1] = "%" /\ x[ConvAt(d)] = d.conv
    BY <1>2 DEF Spelled
  <2> QED BY <1>4, <2>1, <2>2
<1>7. ASSUME NEW m \in 2..WidthAt(d)
      PROVE  format[e + m] = FlagsOf(d)[m - 1] /\ format[e + m] \in {"#", "-", "+", " ", "0"}
  <2>1. m \in 1..ConvAt(d)
    BY <1>5
  <2>2. x[m] = FlagsOf(d)[m - 1] /\ x[m] \in {"#", "-", "+", " ", "0"}
    BY <1>2 DEF Spelled
  <2> QED BY <1>4, <2>1, <2>2
<1>8. ASSUME NEW m \in (WidthAt(d) + 1)..PrecAt(d) PROVE format[e + m] = Number(d.width)[m - WidthAt(d)]
  <2>1. m \in 1..ConvAt(d)
    BY <1>5
  <2>2. x[m] = Number(d.width)[m - WidthAt(d)]
    BY <1>2 DEF Spelled
  <2> QED BY <1>4, <2>1, <2>2
<1>9. d.prec # None => format[e + (PrecAt(d) + 1)] = "."
  <2>1. d.prec # None => PrecAt(d) + 1 \in 1..ConvAt(d)
    BY <1>5
  <2>2. d.prec # None => x[PrecAt(d) + 1] = "."
    BY <1>2 DEF Spelled
  <2> QED BY <1>4, <2>1, <2>2
<1>10. ASSUME NEW m \in (NumAt(d) + 1)..LengthAt(d) PROVE format[e + m] = Number(d.prec)[m - NumAt(d)]
  <2>1. m \in 1..ConvAt(d)
    BY <1>5
  <2>2. x[m] = Number(d.prec)[m - NumAt(d)]
    BY <1>2 DEF Spelled
  <2> QED BY <1>4, <2>1, <2>2
<1>11. ASSUME NEW m \in (LengthAt(d) + 1)..(ConvAt(d) - 1)
       PROVE  format[e + m] = d.length[m - LengthAt(d)] /\ format[e + m] \in {"h", "l", "j", "z"}
  <2>1. m \in 1..ConvAt(d)
    BY <1>5
  <2>2. x[m] = d.length[m - LengthAt(d)] /\ x[m] \in {"h", "l", "j", "z"}
    BY <1>2 DEF Spelled
  <2> QED BY <1>4, <2>1, <2>2
<1>12. ASSUME NEW m \in 2..(ConvAt(d) - 1) PROVE ~Closes(format[e + m])
  <2>1. m \in 1..ConvAt(d)
    BY <1>5
  <2>2. ~Closes(x[m])
    BY <1>2 DEF Spelled
  <2> QED BY <1>4, <2>1, <2>2
<1> QED BY <1>4, <1>5, <1>6, <1>7, <1>8, <1>9, <1>10, <1>11, <1>12 DEF Shape

\* The number of a width or a precision that is given is read as it is.
Stands(w, s, t, d, e) ==
  /\ Shape(d, e) /\ w \in Nat /\ s \in Nat /\ t \in Nat /\ t = s + Len(Number(w)) /\ t < ConvAt(d)
  /\ \A m \in (s + 1)..t : format[e + m] = Number(w)[m - s]
  /\ format[e + (t + 1)] \notin Decimal

\* nb_digit and ft_atoi read the number that stands at w and no further.
LEMMA ReadNumber ==
  ASSUME NEW d, NEW e, NEW w, NEW s, NEW t, Stands(w, s, t, d, e)
  PROVE  nb_digit(e + (s + 1)) = Len(Number(w)) /\ ft_atoi(e + (s + 1)) = w
<1>0. /\ Shape(d, e) /\ w \in Nat /\ s \in Nat /\ t \in Nat /\ t = s + Len(Number(w)) /\ t < ConvAt(d)
      /\ \A m \in (s + 1)..t : format[e + m] = Number(w)[m - s]
      /\ format[e + (t + 1)] \notin Decimal
  BY DEF Stands
<1>1. PICK x, l, r : x = Number(w) /\ l = Len(x) /\ r = e + (s + 1)
  OBVIOUS
<1>2. x = Numeral(w, Base(10)) /\ l \in Nat /\ \A j \in 1..l : x[j] \in Decimal
  BY <1>0, <1>1, NumberIs
<1>3. /\ e \in Nat /\ format \in Seq(Char) /\ Len(format) \in Nat /\ r \in Nat
      /\ ConvAt(d) \in Nat /\ e + ConvAt(d) <= Len(format)
  <2>1. /\ e \in Nat /\ format \in Seq(Char) /\ Len(format) \in Nat
        /\ ConvAt(d) \in Nat /\ e + ConvAt(d) <= Len(format)
    BY <1>0 DEF Shape
  <2>2. r \in Nat
    BY <1>0, <1>1, <2>1
  <2> QED BY <2>1, <2>2
<1>4. ASSUME NEW j \in 1..l PROVE format[r + j - 1] = x[j]
  <2>1. PICK m : m = s + j /\ m \in (s + 1)..t /\ m - s = j
    BY <1>0, <1>1, <1>2
  <2>2. r + j - 1 = e + m
    BY <1>0, <1>1, <1>3, <2>1
  <2>3. format[e + m] = x[j]
    BY <1>0, <1>1, <2>1
  <2> QED BY <2>2, <2>3
<1>5. ASSUME NEW j \in 0..(l - 1) PROVE format[r + j] \in Decimal
  <2>1. PICK m : m = j + 1 /\ m \in 1..l /\ r + m - 1 = r + j
    BY <1>2, <1>3
  <2> QED BY <1>2, <1>4, <2>1
<1>6. r + l = e + (t + 1) /\ r + l <= Len(format) + 1
  BY <1>0, <1>1, <1>2, <1>3
<1>7. nb_digit(r) = l
  <2>1. format[r + l] \notin Decimal
    BY <1>0, <1>6
  <2> QED BY <1>2, <1>3, <1>5, <1>6, <2>1, NbDigit
<1>8. ft_atoi(r) = w
  <2>1. nb_digit(r) = Len(Numeral(w, Base(10)))
    BY <1>1, <1>2, <1>7
  <2>2. \A j \in 1..Len(Numeral(w, Base(10))) : format[r + j - 1] = Numeral(w, Base(10))[j]
    BY <1>1, <1>2, <1>4
  <2> QED BY <1>0, <1>3, <2>1, <2>2, AtoiIs
<1> QED BY <1>1, <1>7, <1>8


-----------------------------------------------------------------------------
(***************************************************************************)
(* Reading a directive.                                                    *)
(***************************************************************************)

\* What is known while the directive d is read.
Amid(q, d, k, e) == Reading(q, d, k, e) /\ Spot(q, d, k, e) /\ Shape(d, e) /\ Lasts(call)[q] = e + ConvAt(d)

\* All of it is known of a directive that is being read.
LEMMA AmidIs ==
  ASSUME IInv, NEW q, NEW d, NEW k, NEW e, Reading(q, d, k, e) PROVE Amid(q, d, k, e)
<1>1. Spot(q, call.spec[q], Taken(call.spec)[q - 1], Lasts(call)[q - 1])
  BY SpotIs DEF IInv, Reading
<1>2. Spot(q, d, k, e)
  BY <1>1 DEF Reading, Before
<1>3. Shape(d, e) /\ Lasts(call)[q] = e + ConvAt(d)
  BY <1>2, ShapeIs DEF Reading
<1> QED BY <1>2, <1>3 DEF Amid

\* A width and a precision are at least as long as what there is of them.
LEMMA SomeNumber ==
  ASSUME NEW d, Conversion(d)
  PROVE  /\ d.width = None => PrecAt(d) = WidthAt(d)
         /\ d.width = Star => PrecAt(d) = WidthAt(d) + 1 /\ Number(d.width)[1] = "*"
         /\ d.width \in Nat => PrecAt(d) >= WidthAt(d) + 1 /\ Number(d.width)[1] \in Decimal \ {"0"}
         /\ d.prec = None => LengthAt(d) = NumAt(d) /\ NumAt(d) = PrecAt(d)
         /\ d.prec = Star => LengthAt(d) = PrecAt(d) + 2 /\ Number(d.prec)[1] = "*"
         /\ d.prec \in Nat => LengthAt(d) >= PrecAt(d) + 2 /\ Number(d.prec)[1] \in Decimal
         /\ d.width \in {None, Star} \cup (Nat \ {0}) /\ d.prec \in {None, Star} \cup Nat
<1>1. d.width \in {None, Star} \cup (Nat \ {0}) /\ d.prec \in {None, Star} \cup Nat
  BY DEF Conversion
<1>2. Spelled(Characters(d), d)
  BY Spelling
<1>3. WidthAt(d) \in Nat /\ PrecAt(d) \in Nat /\ NumAt(d) \in Nat /\ NumAt(d) = IF d.prec = None THEN PrecAt(d) ELSE PrecAt(d) + 1
  BY <1>2 DEF Spelled
<1>4. PrecAt(d) = WidthAt(d) + Len(Number(d.width)) /\ LengthAt(d) = NumAt(d) + Len(Number(d.prec))
  BY DEF PrecAt, LengthAt
<1>5. ASSUME NEW w, w \in {None, Star} \cup Nat
      PROVE  /\ w = None => Len(Number(w)) = 0
             /\ w = Star => Len(Number(w)) = 1 /\ Number(w)[1] = "*"
             /\ w \in Nat => /\ Len(Number(w)) >= 1 /\ Len(Number(w)) \in Nat
                             /\ Number(w)[1] \in Decimal /\ (w # 0 => Number(w)[1] # "0")
  <2>1. /\ Len(Number(w)) \in Nat
        /\ w = None => Len(Number(w)) = 0
        /\ w = Star => Len(Number(w)) = 1 /\ Number(w)[1] = "*"
        /\ w \in Nat => /\ Len(Number(w)) >= 1
                        /\ Number(w)[1] = "0" <=> w = 0
                        /\ \A m \in 1..Len(Number(w)) : Number(w)[m] \in Decimal
    BY <1>5, NumberIs
  <2>2. w \in Nat => 1 \in 1..Len(Number(w))
    <3>1. PICK l : l = Len(Number(w))
      OBVIOUS
    <3>2. l \in Nat /\ (w \in Nat => l >= 1)
      BY <2>1, <3>1
    <3> QED BY <3>1, <3>2
  <2> QED BY <2>1, <2>2
<1>6. None \notin Nat /\ Star \notin Nat /\ None # Star
  BY DEF None, Star
<1>7. /\ d.width = None => PrecAt(d) = WidthAt(d)
      /\ d.width = Star => PrecAt(d) = WidthAt(d) + 1 /\ Number(d.width)[1] = "*"
      /\ d.width \in Nat => PrecAt(d) >= WidthAt(d) + 1 /\ Number(d.width)[1] \in Decimal \ {"0"}
  <2>1. CASE d.width = None
    <3>1. Len(Number(d.width)) = 0
      BY <2>1, <1>5
    <3> QED BY <1>3, <1>4, <1>6, <2>1, <3>1
  <2>2. CASE d.width = Star
    <3>1. Len(Number(d.width)) = 1 /\ Number(d.width)[1] = "*"
      BY <2>2, <1>5
    <3> QED BY <1>3, <1>4, <1>6, <2>2, <3>1
  <2>3. CASE d.width \in Nat \ {0}
    <3>1. /\ Len(Number(d.width)) >= 1 /\ Len(Number(d.width)) \in Nat
          /\ Number(d.width)[1] \in Decimal /\ Number(d.width)[1] # "0"
      BY <2>3, <1>5
    <3> QED BY <1>3, <1>4, <1>6, <2>3, <3>1
  <2> QED BY <1>1, <2>1, <2>2, <2>3
<1>8. /\ d.prec = None => LengthAt(d) = NumAt(d) /\ NumAt(d) = PrecAt(d)
      /\ d.prec = Star => LengthAt(d) = PrecAt(d) + 2 /\ Number(d.prec)[1] = "*"
      /\ d.prec \in Nat => LengthAt(d) >= PrecAt(d) + 2 /\ Number(d.prec)[1] \in Decimal
  <2>1. CASE d.prec = None
    <3>1. Len(Number(d.prec)) = 0
      BY <2>1, <1>5
    <3> QED BY <1>3, <1>4, <1>6, <2>1, <3>1
  <2>2. CASE d.prec = Star
    <3>1. Len(Number(d.prec)) = 1 /\ Number(d.prec)[1] = "*"
      BY <2>2, <1>5
    <3> QED BY <1>3, <1>4, <1>6, <2>2, <3>1
  <2>3. CASE d.prec \in Nat
    <3>1. /\ Len(Number(d.prec)) >= 1 /\ Len(Number(d.prec)) \in Nat
          /\ Number(d.prec)[1] \in Decimal
      BY <2>3, <1>5
    <3> QED BY <1>3, <1>4, <1>6, <2>3, <3>1
  <2> QED BY <1>1, <2>1, <2>2, <2>3
<1> QED BY <1>1, <1>7, <1>8

\* Behind a width and a precision there is no digit.
LEMMA NoDigit ==
  ASSUME NEW d, NEW e, Shape(d, e), Conversion(d), ~IsOpen(d)
  PROVE  /\ format[e + (PrecAt(d) + 1)] \notin Decimal
         /\ format[e + (LengthAt(d) + 1)] \notin Decimal
<1>1. /\ "." \notin Decimal /\ "*" \notin Decimal
      /\ \A c \in {"h", "l", "j", "z"} : c \notin Decimal
      /\ \A c : Closes(c) => c \notin Decimal
  BY DecimalIs
<1>2. Closes(d.conv)
  BY DEF Conversion, Closes, IsOpen
<1>3. format[e + (LengthAt(d) + 1)] \notin Decimal
  <2>1. CASE LengthAt(d) + 1 = ConvAt(d)
    BY <1>1, <1>2, <2>1 DEF Shape
  <2>2. CASE LengthAt(d) + 1 # ConvAt(d)
    <3>0. LengthAt(d) \in Nat /\ ConvAt(d) \in Nat /\ LengthAt(d) < ConvAt(d)
      BY DEF Shape
    <3>1. LengthAt(d) + 1 \in (LengthAt(d) + 1)..(ConvAt(d) - 1)
      BY <2>2, <3>0
    <3> QED BY <1>1, <3>1 DEF Shape
  <2> QED BY <2>1, <2>2
<1>4. d.prec = None => LengthAt(d) = PrecAt(d)
  BY SomeNumber
<1>5. d.prec # None => format[e + (PrecAt(d) + 1)] = "."
  BY DEF Shape
<1> QED BY <1>1, <1>3, <1>4, <1>5

\* The characters of a directive that set_flags reads, one region after the other.
InFlagsOf(d, o, k) == o \in 2..WidthAt(d) /\ AtFlags(d, o, k)
\* At the width.
InWidth(d, o, k) == o = WidthAt(d) + 1 /\ d.width # None /\ AtFlags(d, o, k) /\ data.flags = d.flags
\* At the point of the precision.
InPoint(d, o, k) == d.prec # None /\ AtPoint(d, o, k)

\* Where set_flags can be before it is done.
LEMMA Regions ==
  ASSUME NEW d, NEW e, NEW k, NEW o, Shape(d, e), Conversion(d), Come(d, o, k, e)
  PROVE  InFlagsOf(d, o, k) \/ InWidth(d, o, k) \/ InPoint(d, o, k) \/ AtLength(d, o, k)
<1>1. None \notin Nat /\ Star \notin Nat /\ None # Star /\ None = -1
  BY DEF None, Star
<1>2. /\ d.width = None => PrecAt(d) = WidthAt(d)
      /\ d.prec = None => LengthAt(d) = PrecAt(d)
  BY SomeNumber
<1>3. WidthAt(d) \in Nat /\ PrecAt(d) \in Nat /\ LengthAt(d) \in Nat /\ ConvAt(d) \in Nat /\ LengthAt(d) < ConvAt(d)
  BY DEF Shape
<1>4. ASSUME d.prec = None, AtPoint(d, o, k) PROVE AtLength(d, o, k)
  <2>1. o \in (LengthAt(d) + 1)..(ConvAt(d) + 1)
    BY <1>2, <1>3, <1>4 DEF AtPoint
  <2>2. Third(d, k) = Second(d, k) /\ PrecisionOf(d, First(d, k)) = -1
    BY <1>1, <1>4 DEF Third, PrecisionOf
  <2> QED BY <1>4, <2>1, <2>2 DEF AtPoint, AtLength
<1>5. ASSUME AtFlags(d, o, k), o = WidthAt(d) + 1 PROVE data.flags = d.flags
  <2>1. d.flags = {FlagsOf(d)[m] : m \in 1..Len(FlagsOf(d))} /\ Len(FlagsOf(d)) \in Nat
    BY FlagsAre, PartsAre
  <2>2. o - 2 = Len(FlagsOf(d))
    BY <1>5, <2>1 DEF WidthAt
  <2>3. data.flags = {FlagsOf(d)[m] : m \in 1..(o - 2)}
    BY <1>5 DEF AtFlags
  <2> QED BY <2>1, <2>2, <2>3
<1>6. ASSUME AtFlags(d, o, k), o = WidthAt(d) + 1, d.width = None PROVE AtPoint(d, o, k)
  <2>1. data = [flags |-> d.flags, width |-> 0, precision |-> -1]
    BY <1>5, <1>6 DEF AtFlags
  <2>2. a = Second(d, k)
    BY <1>1, <1>6 DEF AtFlags, Second
  <2>3. Size(WidthOf(d, First(d, k))) = 0
    <3>1. WidthOf(d, First(d, k)) = Max({-1, 0})
      BY <1>1, <1>6 DEF WidthOf
    <3>2. Max({-1, 0}) = 0
      BY DEF Max
    <3> QED BY <3>1, <3>2 DEF Size
  <2> QED BY <1>2, <1>6, <2>1, <2>2, <2>3 DEF AtPoint
<1>7. ASSUME AtFlags(d, o, k) PROVE InFlagsOf(d, o, k) \/ o = WidthAt(d) + 1
  BY <1>3, <1>7 DEF AtFlags, InFlagsOf
<1> QED BY <1>4, <1>5, <1>6, <1>7 DEF Come, InWidth, InPoint

\* What a character of each region is to set_flags.
LEMMA AtFlag ==
  ASSUME NEW q, NEW d, NEW k, NEW e, NEW o, Amid(q, d, k, e), p = e + o, o \in 2..WidthAt(d)
  PROVE  /\ format[p] \in Range(Flags) /\ format[p] = FlagsOf(d)[o - 1] /\ format[p] # "."
         /\ ~ReadsWidth /\ ~ReadsStar
<1>1. format[p] = FlagsOf(d)[o - 1] /\ format[p] \in {"#", "-", "+", " ", "0"}
  BY DEF Amid, Shape
<1>2. {"#", "-", "+", " "} \cap Decimal = {}
  BY DecimalIs
<1>3. format[p] \in d.flags
  <2>1. o - 1 \in 1..Len(FlagsOf(d))
    <3>1. Len(FlagsOf(d)) \in Nat
      BY PartsAre DEF Amid, Reading
    <3> QED BY <3>1 DEF WidthAt
  <2>2. Conversion(d)
    BY DEF Amid, Reading
  <2>3. d.flags = {FlagsOf(d)[m] : m \in 1..Len(FlagsOf(d))}
    BY <2>2, FlagsAre
  <2> QED BY <1>1, <2>1, <2>3
<1>4. format[p] \in Range(Flags)
  BY <1>3 DEF Amid, Reading, Conversion
<1>5. format[p] # "." /\ format[p] # "*"
  BY <1>1
<1> QED BY <1>1, <1>2, <1>4, <1>5 DEF ReadsWidth, ReadsStar

\* At a width a character is a digit other than zero with no point before it, or a star.
LEMMA AtWidth ==
  ASSUME NEW q, NEW d, NEW k, NEW e, NEW o, Amid(q, d, k, e), p = e + o, o = WidthAt(d) + 1, d.width # None
  PROVE  /\ format[p] # "." /\ (d.width = Star <=> format[p] = "*")
         /\ d.width = Star => ReadsStar /\ ~ReadsWidth
         /\ d.width # Star => /\ ReadsWidth /\ ~ReadsStar
                              /\ nb_digit(p) = Len(Number(d.width)) /\ ft_atoi(p) = d.width
<1>1. /\ Conversion(d) /\ ~IsOpen(d) /\ Shape(d, e) /\ i = e + 1
      /\ WidthAt(d) \in Nat /\ PrecAt(d) \in Nat /\ ConvAt(d) \in Nat /\ e \in Nat
      /\ PrecAt(d) < ConvAt(d)
  <2>1. Conversion(d) /\ ~IsOpen(d) /\ Shape(d, e) /\ i = e + 1
    BY DEF Amid, Reading
  <2>2. /\ WidthAt(d) \in Nat /\ PrecAt(d) \in Nat /\ NumAt(d) \in Nat /\ LengthAt(d) \in Nat
        /\ ConvAt(d) \in Nat /\ e \in Nat
        /\ PrecAt(d) <= NumAt(d) /\ NumAt(d) <= LengthAt(d) /\ LengthAt(d) < ConvAt(d)
    BY <2>1 DEF Shape
  <2> QED BY <2>1, <2>2
<1>2. /\ d.width = Star => PrecAt(d) = WidthAt(d) + 1 /\ Number(d.width)[1] = "*"
      /\ d.width \in Nat => PrecAt(d) >= WidthAt(d) + 1 /\ Number(d.width)[1] \in Decimal \ {"0"}
      /\ d.width \in {None, Star} \cup (Nat \ {0})
  BY <1>1, SomeNumber
<1>3. format[p] = Number(d.width)[1]
  <2>1. o \in (WidthAt(d) + 1)..PrecAt(d) /\ o - WidthAt(d) = 1
    BY <1>1, <1>2
  <2>2. format[e + o] = Number(d.width)[o - WidthAt(d)]
    BY <1>1, <2>1 DEF Shape
  <2> QED BY <2>1, <2>2
<1>4. \A c \in Decimal : c \notin {"*", "."}
  BY DecimalIs
<1>5. CASE d.width = Star
  <2>1. format[p] = "*" /\ "*" \notin Decimal
    BY <1>2, <1>3, <1>4, <1>5
  <2> QED BY <1>5, <2>1 DEF ReadsStar, ReadsWidth
<1>6. CASE d.width \in Nat \ {0}
  <2>1. format[p] \in Decimal \ {"0"} /\ format[p] # "*" /\ format[p] # "."
    BY <1>2, <1>3, <1>4, <1>6
  <2>2. ASSUME NEW r \in i..p PROVE format[r] # "."
    <3>1. PICK m : m = r - e
      OBVIOUS
    <3>2. r = e + m /\ (m = 1 \/ m \in 2..WidthAt(d) \/ m = o)
      BY <1>1, <3>1
    <3>3. format[e + 1] = "%" /\ \A j \in 2..WidthAt(d) : format[e + j] \in {"#", "-", "+", " ", "0"}
      BY <1>1 DEF Shape
    <3>4. CASE m = 1
      BY <3>2, <3>3, <3>4
    <3>5. CASE m \in 2..WidthAt(d)
      BY <3>2, <3>3, <3>5
    <3>6. CASE m = o
      BY <2>1, <3>2, <3>6
    <3> QED BY <3>2, <3>4, <3>5, <3>6
  <2>3. ReadsWidth /\ ~ReadsStar
    BY <2>1, <2>2 DEF ReadsWidth, ReadsStar
  <2>4. nb_digit(p) = Len(Number(d.width)) /\ ft_atoi(p) = d.width
    <3>1. PICK w, s, t : w = d.width /\ s = WidthAt(d) /\ t = PrecAt(d)
      OBVIOUS
    <3>2. w \in Nat /\ s \in Nat /\ t \in Nat /\ t = s + Len(Number(w)) /\ t < ConvAt(d)
      BY <1>1, <1>6, <3>1 DEF PrecAt
    <3>3. \A m \in (s + 1)..t : format[e + m] = Number(w)[m - s]
      BY <1>1, <3>1 DEF Shape
    <3>4. format[e + (t + 1)] \notin Decimal
      BY <1>1, <3>1, NoDigit
    <3>5. Stands(w, s, t, d, e)
      BY <1>1, <3>2, <3>3, <3>4 DEF Stands
    <3>7. nb_digit(e + (s + 1)) = Len(Number(w)) /\ ft_atoi(e + (s + 1)) = w
      BY <3>5, ReadNumber
    <3> QED BY <3>1, <3>7
  <2>5. d.width # Star
    BY <1>6 DEF Star
  <2> QED BY <2>1, <2>3, <2>4, <2>5
<1> QED BY <1>2, <1>5, <1>6

\* At a precision it is a point, with a star, digits or nothing behind it.
LEMMA AtPrecision ==
  ASSUME NEW q, NEW d, NEW k, NEW e, NEW o, Amid(q, d, k, e), p = e + o, o = PrecAt(d) + 1, d.prec # None
  PROVE  /\ format[p] = "." /\ ~ReadsWidth /\ (d.prec = Star <=> ReadsStar)
         /\ d.prec # Star => nb_digit(p + 1) = Len(Number(d.prec)) /\ ft_atoi(p + 1) = d.prec
<1>1. /\ Conversion(d) /\ ~IsOpen(d) /\ Shape(d, e) /\ e \in Nat
      /\ PrecAt(d) \in Nat /\ NumAt(d) \in Nat /\ LengthAt(d) \in Nat /\ ConvAt(d) \in Nat
      /\ LengthAt(d) < ConvAt(d) /\ format[p] = "." /\ NumAt(d) = PrecAt(d) + 1
  BY DEF Amid, Reading, Shape
<1>2. /\ d.prec = Star => LengthAt(d) = PrecAt(d) + 2 /\ Number(d.prec)[1] = "*"
      /\ d.prec \in Nat => LengthAt(d) >= PrecAt(d) + 2 /\ Number(d.prec)[1] \in Decimal
      /\ d.prec \in {None, Star} \cup Nat
  BY <1>1, SomeNumber
<1>3. format[p + 1] = Number(d.prec)[1]
  <2>1. PICK m : m = o + 1 /\ m \in (NumAt(d) + 1)..LengthAt(d) /\ m - NumAt(d) = 1 /\ p + 1 = e + m
    BY <1>1, <1>2
  <2>2. format[e + m] = Number(d.prec)[m - NumAt(d)]
    BY <1>1, <2>1 DEF Shape
  <2> QED BY <2>1, <2>2
<1>4. \A c \in Decimal : c \notin {"*", "."}
  BY DecimalIs
<1>5. ~ReadsWidth
  BY <1>1, <1>4 DEF ReadsWidth
<1>6. CASE d.prec = Star
  BY <1>1, <1>2, <1>3, <1>5, <1>6 DEF ReadsStar
<1>7. CASE d.prec \in Nat
  <2>1. format[p + 1] # "*" /\ format[p] # "*"
    BY <1>1, <1>2, <1>3, <1>4, <1>7
  <2>2. ~ReadsStar /\ d.prec # Star
    BY <1>7, <2>1 DEF ReadsStar, Star
  <2>3. nb_digit(p + 1) = Len(Number(d.prec)) /\ ft_atoi(p + 1) = d.prec
    <3>1. PICK w, s, t : w = d.prec /\ s = NumAt(d) /\ t = LengthAt(d)
      OBVIOUS
    <3>2. w \in Nat /\ s \in Nat /\ t \in Nat /\ t = s + Len(Number(w)) /\ t < ConvAt(d)
      BY <1>1, <1>7, <3>1 DEF LengthAt
    <3>3. \A m \in (s + 1)..t : format[e + m] = Number(w)[m - s]
      BY <1>1, <3>1 DEF Shape
    <3>4. format[e + (t + 1)] \notin Decimal
      BY <1>1, <3>1, NoDigit
    <3>5. Stands(w, s, t, d, e)
      BY <1>1, <3>2, <3>3, <3>4 DEF Stands
    <3>7. nb_digit(e + (s + 1)) = Len(Number(w)) /\ ft_atoi(e + (s + 1)) = w
      BY <3>5, ReadNumber
    <3>6. e + (s + 1) = p + 1
      BY <1>1, <3>1
    <3> QED BY <3>1, <3>6, <3>7
  <2> QED BY <1>1, <1>5, <2>2, <2>3
<1> QED BY <1>2, <1>6, <1>7

\* Behind it, it is one of the length modifier, which set_flags passes over.
LEMMA AtLengths ==
  ASSUME NEW q, NEW d, NEW k, NEW e, NEW o, Amid(q, d, k, e), p = e + o,
         o \in (LengthAt(d) + 1)..(ConvAt(d) - 1)
  PROVE  format[p] \notin Range(Flags) /\ format[p] # "." /\ ~ReadsWidth /\ ~ReadsStar
<1>1. format[p] \in {"h", "l", "j", "z"}
  BY DEF Amid, Shape
<1>2. {"h", "l", "j", "z"} \cap Decimal = {}
  BY DecimalIs
<1>3. Range(Flags) \subseteq {"#", "-", "+", " ", "0"}
  <2>1. DOMAIN Flags = 1..Len(Flags)
    BY DEF Flags
  <2>2. Flags \in Seq({"#", "-", "+", " ", "0"})
    BY DEF Flags
  <2>3. \A m \in 1..Len(Flags) : Flags[m] \in {"#", "-", "+", " ", "0"}
    BY <2>2, ElementOfSeq
  <2> QED BY <2>1, <2>3 DEF Range
<1>4. format[p] \notin {"#", "-", "+", " ", "0", ".", "*"}
  BY <1>1
<1> QED BY <1>1, <1>2, <1>3, <1>4 DEF ReadsWidth, ReadsStar

\* The arguments taken at each point of a directive.
LEMMA TakenThere ==
  ASSUME NEW q, NEW d, NEW k, NEW e, Spot(q, d, k, e), Conversion(d)
  PROVE  /\ First(d, k) \in Nat /\ Second(d, k) \in Nat /\ Third(d, k) \in Nat
         /\ First(d, k) <= Second(d, k) /\ Second(d, k) <= Third(d, k)
         /\ Third(d, k) + (IF d.conv \in {"S", "%", Open} THEN 0 ELSE 1) = k + Takes(d)
         /\ Third(d, k) <= Len(call.args) /\ StarsOf(d) = Third(d, k) - First(d, k)
<1>1. /\ k \in Nat /\ Takes(d) = StarsOf(d) + (IF d.conv \in {"%", Open} THEN 0 ELSE 1)
      /\ k + Takes(d) <= Len(call.args) /\ Len(call.args) \in Nat
  BY TakesIs DEF Spot
<1>2. "S" # "%" /\ "S" # Open
  BY DEF Open
<1>3. StarsOf(d) = (IF d.width = Star THEN 1 ELSE 0) + (IF d.prec = Star THEN 1 ELSE 0)
  BY DEF StarsOf
<1> QED BY <1>1, <1>2, <1>3 DEF First, Second, Third

\* An argument that is there is a number of the register.
LEMMA ArgThere ==
  ASSUME NEW q, NEW d, NEW k, NEW e, Spot(q, d, k, e), NEW m \in 1..Len(call.args)
  PROVE  /\ IsArg(call.args[m]) /\ call.args[m].slot \in Nat /\ call.args[m].slot < LongMod
         /\ Signed(call.args[m].slot, IntMod) \in Int
<1>1. IsArg(call.args[m])
  BY DEF Spot
<1>2. LongMod \in Nat \ {0} /\ IntMod \in Nat \ {0}
  BY CallsAssumption
<1>3. call.args[m].slot \in Nat /\ call.args[m].slot < LongMod
  BY <1>1, <1>2 DEF IsArg
<1>4. Signed(call.args[m].slot, IntMod) \in Int
  <2>1. PICK v : v = call.args[m].slot /\ v \in Int
    BY <1>3
  <2> QED BY <1>2, <2>1, SignedInt
<1> QED BY <1>1, <1>3, <1>4

\* set_flags stays in the directive.
LEMMA ReadStep ==
  ASSUME NEW q, NEW d, NEW k, NEW e, NEW o, Amid(q, d, k, e), Come(d, o, k, e),
         Width \/ flags_star \/ Precision \/ Flag
  PROVE  \E n : Come(d, n, k, e)'
<1>1. UNCHANGED <<call, format, i, stop>> /\ p < stop
  BY DEF Width, flags_star, Precision, Flag, InFlags
<1>2. /\ Conversion(d) /\ ~IsOpen(d) /\ Shape(d, e) /\ Spot(q, d, k, e) /\ stop = e + ConvAt(d)
      /\ p = e + o /\ o \in 2..(ConvAt(d) + 1)
  BY DEF Amid, Reading, Come
<1>3. /\ WidthAt(d) \in Nat /\ PrecAt(d) \in Nat /\ NumAt(d) \in Nat /\ LengthAt(d) \in Nat /\ ConvAt(d) \in Nat
      /\ 1 <= WidthAt(d) /\ WidthAt(d) <= PrecAt(d) /\ PrecAt(d) <= NumAt(d) /\ NumAt(d) <= LengthAt(d)
      /\ LengthAt(d) < ConvAt(d) /\ e \in Nat
  BY <1>2 DEF Shape
<1>4. o < ConvAt(d) /\ o \in Nat
  BY <1>1, <1>2, <1>3
<1>5. PICK f, w, r : f = First(d, k) /\ w = WidthOf(d, f) /\ r = PrecisionOf(d, f)
  OBVIOUS
<1>6. WidthOf(d, f)' = w /\ PrecisionOf(d, f)' = r
  BY <1>1, <1>5 DEF WidthOf, PrecisionOf, Value
<1>7. /\ f \in Nat /\ Second(d, k) \in Nat /\ Third(d, k) \in Nat
      /\ f <= Second(d, k) /\ Second(d, k) <= Third(d, k) /\ Third(d, k) <= Len(call.args)
      /\ Len(call.args) \in Nat
  <2>1. Len(call.args) \in Nat
    BY <1>2 DEF Spot
  <2> QED BY <1>2, <1>5, <2>1, TakenThere
<1>8. /\ AtFlags(d, o, k) => a = f /\ o \in 2..(WidthAt(d) + 1)
                             /\ data = [flags |-> {FlagsOf(d)[m] : m \in 1..(o - 2)}, width |-> 0, precision |-> -1]
      /\ AtPoint(d, o, k) => o = PrecAt(d) + 1 /\ a = Second(d, k)
                             /\ data = [flags |-> d.flags, width |-> Size(w), precision |-> -1]
      /\ AtLength(d, o, k) => o \in (LengthAt(d) + 1)..(ConvAt(d) + 1) /\ a = Third(d, k)
                              /\ data = [flags |-> d.flags, width |-> Size(w), precision |-> r]
  BY <1>5 DEF AtFlags, AtPoint, AtLength
<1>9. ASSUME NEW n, n \in 2..(ConvAt(d) + 1), p' = e + n,
             \/ /\ a' = f /\ n \in 2..(WidthAt(d) + 1)
                /\ data' = [flags |-> {FlagsOf(d)[m] : m \in 1..(n - 2)}, width |-> 0, precision |-> -1]
             \/ /\ n = PrecAt(d) + 1 /\ a' = Second(d, k)
                /\ data' = [flags |-> d.flags, width |-> Size(w), precision |-> -1]
             \/ /\ n \in (LengthAt(d) + 1)..(ConvAt(d) + 1) /\ a' = Third(d, k)
                /\ data' = [flags |-> d.flags, width |-> Size(w), precision |-> r]
      PROVE  Come(d, n, k, e)'
  BY <1>5, <1>6, <1>9 DEF Come, AtFlags, AtPoint, AtLength
<1>10. CASE InFlagsOf(d, o, k)
  <2>1. /\ format[p] \in Range(Flags) /\ format[p] = FlagsOf(d)[o - 1] /\ format[p] # "."
        /\ ~ReadsWidth /\ ~ReadsStar
    BY <1>2, <1>10, AtFlag DEF InFlagsOf
  <2>2. Flag /\ AddFlag(format[p]) /\ p' = p + 1 /\ a' = a
    BY <2>1 DEF Width, flags_star, Precision, Flag
  <2>3. /\ a = f /\ o \in 2..WidthAt(d)
        /\ data = [flags |-> {FlagsOf(d)[m] : m \in 1..(o - 2)}, width |-> 0, precision |-> -1]
    BY <1>8, <1>10 DEF InFlagsOf
  <2>4. {FlagsOf(d)[m] : m \in 1..(o - 2)} \cup {FlagsOf(d)[o - 1]} = {FlagsOf(d)[m] : m \in 1..((o + 1) - 2)}
    <3>1. \A m : m \in 1..((o + 1) - 2) <=> (m \in 1..(o - 2) \/ m = o - 1)
      BY <2>3
    <3> QED BY <3>1
  <2>5. data' = [flags |-> {FlagsOf(d)[m] : m \in 1..((o + 1) - 2)}, width |-> 0, precision |-> -1]
    BY <2>1, <2>2, <2>3, <2>4 DEF AddFlag
  <2>6. o + 1 \in 2..(WidthAt(d) + 1) /\ o + 1 \in 2..(ConvAt(d) + 1) /\ p' = e + (o + 1)
    BY <1>2, <1>3, <1>4, <2>2, <2>3
  <2>7. Come(d, o + 1, k, e)'
    BY <1>9, <2>2, <2>3, <2>5, <2>6
  <2> QED BY <2>7
<1>11. CASE InWidth(d, o, k)
  <2>1. /\ o = WidthAt(d) + 1 /\ d.width # None /\ a = f
        /\ data = [flags |-> d.flags, width |-> 0, precision |-> -1]
    BY <1>8, <1>11 DEF InWidth
  <2>2. /\ format[p] # "." /\ (d.width = Star <=> format[p] = "*")
        /\ d.width = Star => ReadsStar /\ ~ReadsWidth
        /\ d.width # Star => /\ ReadsWidth /\ ~ReadsStar
                             /\ nb_digit(p) = Len(Number(d.width)) /\ ft_atoi(p) = d.width
    BY <1>2, <2>1, AtWidth
  <2>3. CASE d.width = Star
    <3>1. flags_star /\ format[p] = "*"
      BY <2>2, <2>3 DEF Width, flags_star, Precision, Flag
    <3>2. PICK v : v = NextInt
      OBVIOUS
    <3>3. data' = [data EXCEPT !.width = IF v < 0 THEN -v ELSE v] /\ p' = p + 1 /\ a' = a + 1
      BY <3>1, <3>2 DEF flags_star
    <3>4. w = v
      BY <1>5, <2>1, <2>3, <3>2 DEF WidthOf, NextInt, Value
    <3>5. a' = Second(d, k) /\ PrecAt(d) = WidthAt(d) + 1
      BY <1>2, <1>5, <2>1, <2>3, <3>3, SomeNumber DEF Second
    <3>6. data' = [flags |-> d.flags, width |-> Size(w), precision |-> -1]
      BY <2>1, <3>3, <3>4 DEF Size
    <3>7. o + 1 = PrecAt(d) + 1 /\ o + 1 \in 2..(ConvAt(d) + 1) /\ p' = e + (o + 1)
      BY <1>2, <1>3, <1>4, <2>1, <3>3, <3>5
    <3>8. Come(d, o + 1, k, e)'
      BY <1>9, <3>5, <3>6, <3>7
    <3> QED BY <3>8
  <2>4. CASE d.width # Star
    <3>1. Width
      BY <2>2, <2>4 DEF Width, flags_star, Precision, Flag
    <3>2. data' = [data EXCEPT !.width = d.width] /\ p' = p + Len(Number(d.width)) /\ a' = a
      BY <2>2, <2>4, <3>1 DEF Width
    <3>3. d.width \in Nat
      BY <1>2, <2>1, <2>4, SomeNumber
    <3>4. Size(w) = d.width
      <4>1. w = Max({d.width, 0})
        BY <1>5, <2>4 DEF WidthOf
      <4>2. Max({d.width, 0}) = d.width
        BY <3>3 DEF Max
      <4> QED BY <3>3, <4>1, <4>2 DEF Size
    <3>5. a' = Second(d, k) /\ PrecAt(d) = WidthAt(d) + Len(Number(d.width))
      BY <1>5, <2>1, <2>4, <3>2 DEF Second, PrecAt
    <3>6. data' = [flags |-> d.flags, width |-> Size(w), precision |-> -1]
      BY <2>1, <3>2, <3>4
    <3>7. PICK n : n = PrecAt(d) + 1
      OBVIOUS
    <3>8. Len(Number(d.width)) \in Nat
      BY <1>2, PartsAre
    <3>9. n \in 2..(ConvAt(d) + 1) /\ p' = e + n
      <4>1. PICK l, x, y, z : l = Len(Number(d.width)) /\ x = WidthAt(d) /\ y = PrecAt(d) /\ z = ConvAt(d)
        OBVIOUS
      <4>2. p' = p + l /\ p = e + o /\ o = x + 1 /\ y = x + l /\ n = y + 1
        BY <1>2, <2>1, <3>2, <3>5, <3>7, <4>1
      <4>3. l \in Nat /\ x \in Nat /\ y \in Nat /\ z \in Nat /\ 1 <= x /\ y < z /\ e \in Nat
        BY <1>3, <3>8, <4>1
      <4>4. n \in 2..(z + 1) /\ p' = e + n
        BY <4>2, <4>3
      <4> QED BY <4>1, <4>4
    <3>10. Come(d, n, k, e)'
      BY <1>9, <3>5, <3>6, <3>7, <3>9
    <3> QED BY <3>10
  <2> QED BY <2>3, <2>4
<1>12. CASE InPoint(d, o, k)
  <2>1. /\ o = PrecAt(d) + 1 /\ a = Second(d, k) /\ d.prec # None
        /\ data = [flags |-> d.flags, width |-> Size(w), precision |-> -1]
    BY <1>8, <1>12 DEF InPoint
  <2>2. /\ format[p] = "." /\ ~ReadsWidth /\ (d.prec = Star <=> ReadsStar)
        /\ d.prec # Star => nb_digit(p + 1) = Len(Number(d.prec)) /\ ft_atoi(p + 1) = d.prec
    BY <1>2, <2>1, AtPrecision
  <2>3. CASE d.prec = Star
    <3>1. flags_star /\ format[p] # "*"
      BY <2>2, <2>3 DEF Width, flags_star, Precision, Flag
    <3>2. PICK v : v = NextInt
      OBVIOUS
    <3>3. data' = [data EXCEPT !.precision = IF v < 0 THEN -1 ELSE v] /\ p' = p + 2 /\ a' = a + 1
      BY <3>1, <3>2 DEF flags_star
    <3>4. a' = Third(d, k) /\ LengthAt(d) = PrecAt(d) + 2
      BY <1>2, <2>1, <2>3, <3>3, SomeNumber DEF Third
    <3>5. v = Signed(Value(a + 1), IntMod) /\ v \in Int
      <4>1. a + 1 \in 1..Len(call.args)
        BY <1>7, <2>1, <3>3, <3>4
      <4> QED BY <1>2, <3>2, <4>1, ArgThere DEF NextInt, Value
    <3>6. r = IF v < 0 THEN -1 ELSE v
      <4>1. f + (IF d.width = Star THEN 2 ELSE 1) = a + 1
        BY <1>5, <1>7, <2>1 DEF Second
      <4>2. r = Max({v, -1})
        BY <1>5, <2>3, <3>5, <4>1 DEF PrecisionOf, None
      <4>3. Max({v, -1}) = IF v < 0 THEN -1 ELSE v
        BY <3>5 DEF Max
      <4> QED BY <4>2, <4>3
    <3>7. data' = [flags |-> d.flags, width |-> Size(w), precision |-> r]
      BY <2>1, <3>3, <3>6
    <3>8. o + 2 \in (LengthAt(d) + 1)..(ConvAt(d) + 1) /\ o + 2 \in 2..(ConvAt(d) + 1) /\ p' = e + (o + 2)
      BY <1>2, <1>3, <1>4, <2>1, <3>3, <3>4
    <3>9. Come(d, o + 2, k, e)'
      BY <1>9, <3>4, <3>7, <3>8
    <3> QED BY <3>9
  <2>4. CASE d.prec # Star
    <3>1. Precision
      BY <2>2, <2>4 DEF Width, flags_star, Precision, Flag
    <3>2. data' = [data EXCEPT !.precision = d.prec] /\ p' = p + Len(Number(d.prec)) + 2 /\ a' = a
      BY <2>2, <2>4, <3>1 DEF Precision
    <3>3. r = d.prec
      BY <1>5, <2>4 DEF PrecisionOf
    <3>4. a' = Third(d, k) /\ LengthAt(d) = NumAt(d) + Len(Number(d.prec)) /\ NumAt(d) = PrecAt(d) + 1
      BY <1>2, <2>1, <2>4, <3>2 DEF Third, LengthAt, Shape
    <3>5. data' = [flags |-> d.flags, width |-> Size(w), precision |-> r]
      BY <2>1, <3>2, <3>3
    <3>6. PICK n : n = LengthAt(d) + 2
      OBVIOUS
    <3>7. Len(Number(d.prec)) \in Nat
      BY <1>2, PartsAre
    <3>8. n \in (LengthAt(d) + 1)..(ConvAt(d) + 1) /\ n \in 2..(ConvAt(d) + 1) /\ p' = e + n
      <4>1. PICK l, x, y, z : l = Len(Number(d.prec)) /\ x = LengthAt(d) /\ y = PrecAt(d) /\ z = ConvAt(d)
        OBVIOUS
      <4>2. p' = p + l + 2 /\ p = e + o /\ o = y + 1 /\ x = (y + 1) + l /\ n = x + 2
        BY <1>2, <2>1, <3>2, <3>4, <3>6, <4>1
      <4>3. l \in Nat /\ x \in Nat /\ y \in Nat /\ z \in Nat /\ 1 <= x /\ x < z /\ e \in Nat
        BY <1>3, <3>7, <4>1
      <4>4. n \in (x + 1)..(z + 1) /\ n \in 2..(z + 1) /\ p' = e + n
        BY <4>2, <4>3
      <4> QED BY <4>1, <4>4
    <3>9. Come(d, n, k, e)'
      BY <1>9, <3>4, <3>5, <3>8
    <3> QED BY <3>9
  <2> QED BY <2>3, <2>4
<1>13. CASE AtLength(d, o, k)
  <2>1. /\ o \in (LengthAt(d) + 1)..(ConvAt(d) - 1) /\ a = Third(d, k)
        /\ data = [flags |-> d.flags, width |-> Size(w), precision |-> r]
    BY <1>3, <1>4, <1>8, <1>13
  <2>2. format[p] \notin Range(Flags) /\ format[p] # "." /\ ~ReadsWidth /\ ~ReadsStar
    BY <1>2, <2>1, AtLengths
  <2>3. Flag /\ data' = data /\ p' = p + 1 /\ a' = a
    BY <2>2 DEF Width, flags_star, Precision, Flag
  <2>4. o + 1 \in (LengthAt(d) + 1)..(ConvAt(d) + 1) /\ o + 1 \in 2..(ConvAt(d) + 1) /\ p' = e + (o + 1)
    BY <1>2, <1>3, <1>4, <2>1, <2>3
  <2>5. Come(d, o + 1, k, e)'
    BY <1>9, <2>1, <2>3, <2>4
  <2> QED BY <2>5
<1> QED BY <1>2, <1>10, <1>11, <1>12, <1>13, Regions

\* A width from an argument that has no negative is the way out it is named as.
LEMMA StarBreaks ==
  ASSUME NEW q, NEW d, NEW k, NEW e, NEW o, Amid(q, d, k, e), Come(d, o, k, e), star_overflow
  PROVE  Escapes(d, k)
<1>1. p < stop /\ format[p] = "*" /\ NextInt = LeastInt
  BY DEF star_overflow, InFlags, NoNegative
<1>2. /\ Conversion(d) /\ ~IsOpen(d) /\ Shape(d, e) /\ Spot(q, d, k, e) /\ stop = e + ConvAt(d)
      /\ p = e + o /\ o \in 2..(ConvAt(d) + 1)
  BY DEF Amid, Reading, Come
<1>3. /\ WidthAt(d) \in Nat /\ PrecAt(d) \in Nat /\ NumAt(d) \in Nat /\ LengthAt(d) \in Nat /\ ConvAt(d) \in Nat
      /\ 1 <= WidthAt(d) /\ WidthAt(d) <= PrecAt(d) /\ PrecAt(d) <= NumAt(d) /\ NumAt(d) <= LengthAt(d)
      /\ LengthAt(d) < ConvAt(d) /\ e \in Nat
  BY <1>2 DEF Shape
<1>4. o < ConvAt(d) /\ o \in Nat
  BY <1>1, <1>2, <1>3
<1>5. ReadsStar
  BY <1>1 DEF ReadsStar
<1>6. CASE InFlagsOf(d, o, k)
  BY <1>2, <1>5, <1>6, AtFlag DEF InFlagsOf
<1>7. CASE InWidth(d, o, k)
  <2>1. o = WidthAt(d) + 1 /\ d.width # None /\ a = First(d, k)
    BY <1>7 DEF InWidth, AtFlags
  <2>2. d.width = Star
    BY <1>1, <1>2, <2>1, AtWidth
  <2>3. First(d, k) = IF d.conv = "S" THEN k + 1 ELSE k
    BY DEF First
  <2>4. CASE d.conv = "S"
    BY <2>2, <2>4 DEF Escapes, Open
  <2>5. CASE d.conv # "S"
    <3>1. WidthOf(d, k) = LeastInt
      BY <1>1, <2>1, <2>2, <2>3, <2>5 DEF WidthOf, NextInt, Value
    <3> QED BY <2>2, <3>1 DEF Escapes, LeastWidth
  <2> QED BY <2>4, <2>5
<1>8. CASE InPoint(d, o, k)
  <2>1. o = PrecAt(d) + 1 /\ d.prec # None
    BY <1>8 DEF InPoint, AtPoint, AtFlags
  <2>2. format[p] = "."
    BY <1>2, <2>1, AtPrecision
  <2> QED BY <1>1, <2>2
<1>9. CASE AtLength(d, o, k)
  <2>1. o \in (LengthAt(d) + 1)..(ConvAt(d) - 1)
    BY <1>3, <1>4, <1>9 DEF AtLength
  <2>2. ~ReadsStar
    BY <1>2, <2>1, AtLengths
  <2> QED BY <1>5, <2>2
<1> QED BY <1>2, <1>4, <1>6, <1>7, <1>8, <1>9, Regions

-----------------------------------------------------------------------------
(***************************************************************************)
(* Between the directives.                                                 *)
(***************************************************************************)

\* A directive is one character at least.
LEMMA SomeCharacter ==
  ASSUME NEW d, IsDirective(d) PROVE Len(Characters(d)) \in Nat /\ Len(Characters(d)) >= 1
<1>1. Conversion(d) \/ (Copied(d) /\ "copy" \in DOMAIN d)
  BY Directive
<1>2. ASSUME Conversion(d) PROVE Len(Characters(d)) \in Nat /\ Len(Characters(d)) >= 1
  <2>1. Spelled(Characters(d), d)
    BY <1>2, Spelling
  <2>2. /\ WidthAt(d) \in Nat /\ PrecAt(d) \in Nat /\ NumAt(d) \in Nat /\ LengthAt(d) \in Nat /\ ConvAt(d) \in Nat
        /\ 1 <= WidthAt(d) /\ WidthAt(d) <= PrecAt(d) /\ PrecAt(d) <= NumAt(d) /\ NumAt(d) <= LengthAt(d)
        /\ LengthAt(d) < ConvAt(d)
        /\ Len(Characters(d)) = IF IsOpen(d) THEN ConvAt(d) - 1 ELSE ConvAt(d)
    BY <2>1 DEF Spelled
  <2> QED BY <2>2
<1>3. ASSUME "copy" \in DOMAIN d PROVE Len(Characters(d)) = 1
  BY <1>3 DEF Characters
<1> QED BY <1>1, <1>2, <1>3

\* Between the directives the format is at its end or at the next one.
LEMMA NextOne ==
  ASSUME IInv, pc = "text"
  PROVE  \/ i = Len(format) + 1 /\ a = Len(call.args)
         \/ \E q, d, k, e : Spot(q, d, k, e) /\ i = e + 1 /\ a = k /\ i <= Len(format)
<1>1. PICK n : n = Len(call.spec)
  OBVIOUS
<1>2. PICK m \in 0..n : i = Lasts(call)[m] + 1 /\ a = Taken(call.spec)[m]
  BY <1>1 DEF IInv, InFormat
<1>3. Known(call) /\ Formatted(format, call)
  BY CallKnown, FormatIs DEF IInv
<1>4. n \in Nat
  BY <1>1, <1>3 DEF Known
<1>5. CASE m = n
  BY <1>1, <1>2, <1>3, <1>5 DEF Known, Formatted
<1>6. CASE m # n
  <2>1. PICK q : q = m + 1 /\ q \in 1..n /\ q - 1 = m
    BY <1>2, <1>4, <1>6
  <2>2. Spot(q, call.spec[q], Taken(call.spec)[q - 1], Lasts(call)[q - 1])
    BY <1>1, <2>1, SpotIs DEF IInv
  <2>3. PICK d, k, e : d = call.spec[q] /\ k = Taken(call.spec)[q - 1] /\ e = Lasts(call)[q - 1]
    OBVIOUS
  <2>4. Spot(q, d, k, e) /\ i = e + 1 /\ a = k
    BY <1>2, <2>1, <2>2, <2>3
  <2>5. Len(Characters(d)) \in Nat /\ Len(Characters(d)) >= 1
    BY <2>4, SomeCharacter DEF Spot
  <2>6. i <= Len(format)
    <3>1. e \in Nat /\ Len(format) \in Nat /\ e + Len(Characters(d)) <= Len(format)
      BY <2>4 DEF Spot
    <3> QED BY <2>4, <2>5, <3>1
  <2> QED BY <2>4, <2>6
<1> QED BY <1>5, <1>6

\* A percent sign is read with the directive it begins.
LEMMA OpenOne ==
  ASSUME NEW q, NEW d, NEW k, NEW e, Spot(q, d, k, e), Conversion(d), i = e + 1, call \in Calls,
         format = FlattenSeq([m \in 1..Len(call.spec) |-> Characters(call.spec[m])])
  PROVE  /\ format[i] = "%"
         /\ IsOpen(d) => Ahead = {}
         /\ ~IsOpen(d) => Ahead # {} /\ Min(Ahead) = e + ConvAt(d) /\ format[e + ConvAt(d)] = d.conv
<1>1. PICK x : x = Characters(d)
  OBVIOUS
<1>2. Spelled(x, d)
  BY <1>1, Spelling
<1>3. /\ WidthAt(d) \in Nat /\ PrecAt(d) \in Nat /\ NumAt(d) \in Nat /\ LengthAt(d) \in Nat /\ ConvAt(d) \in Nat
      /\ 1 <= WidthAt(d) /\ WidthAt(d) <= PrecAt(d) /\ PrecAt(d) <= NumAt(d) /\ NumAt(d) <= LengthAt(d)
      /\ LengthAt(d) < ConvAt(d) /\ Len(x) = IF IsOpen(d) THEN ConvAt(d) - 1 ELSE ConvAt(d)
      /\ x[1] = "%" /\ \A m \in 2..(ConvAt(d) - 1) : ~Closes(x[m])
  BY <1>2 DEF Spelled
<1>4. /\ e \in Nat /\ Len(format) \in Nat /\ Lasts(call)[q] = e + Len(x) /\ Lasts(call)[q] <= Len(format)
      /\ \A m \in 1..Len(x) : format[e + m] = x[m]
  BY <1>1 DEF Spot
<1>5. format[i] = "%"
  <2>1. 1 \in 1..Len(x)
    BY <1>3
  <2> QED BY <1>3, <1>4, <2>1
<1>6. Ahead = {r \in (e + 2)..Len(format) : Closes(format[r])}
  <2>1. i + 1 = e + 2
    BY <1>4
  <2> QED BY <2>1 DEF Ahead, Closes
<1>7. ASSUME NEW r \in (e + 2)..Len(format), r < e + ConvAt(d) PROVE ~Closes(format[r])
  <2>1. PICK m : m = r - e
    OBVIOUS
  <2>2. m \in 2..(ConvAt(d) - 1) /\ m \in 1..Len(x) /\ r = e + m
    <3>1. PICK l, t : l = Len(x) /\ t = ConvAt(d)
      OBVIOUS
    <3>2. t \in Nat /\ l \in Nat /\ l >= t - 1 /\ e \in Nat /\ r \in Nat /\ r >= e + 2 /\ r < e + t
      BY <1>3, <1>4, <1>7, <3>1
    <3>3. m \in 2..(t - 1) /\ m \in 1..l /\ r = e + m
      BY <2>1, <3>2
    <3> QED BY <3>1, <3>3
  <2>3. format[e + m] = x[m] /\ ~Closes(x[m])
    BY <1>3, <1>4, <2>2
  <2> QED BY <2>2, <2>3
<1>8. CASE IsOpen(d)
  <2>1. q = Len(call.spec)
    BY <1>8, CallsAssumption DEF Spot, IsCall
  <2>2. Len(format) = Lasts(call)[q]
    BY <2>1, FormatIs DEF Formatted
  <2>3. \A r \in (e + 2)..Len(format) : r < e + ConvAt(d)
    BY <1>3, <1>4, <1>8, <2>2
  <2> QED BY <1>5, <1>6, <1>7, <1>8, <2>3
<1>9. CASE ~IsOpen(d)
  <2>1. Closes(d.conv)
    BY <1>9 DEF Conversion, Closes, IsOpen
  <2>2. PICK r : r = e + ConvAt(d)
    OBVIOUS
  <2>3. format[r] = d.conv
    <3>1. ConvAt(d) \in 1..Len(x)
      BY <1>3, <1>9
    <3>2. x[ConvAt(d)] = d.conv
      BY <1>2, <1>9 DEF Spelled
    <3> QED BY <1>4, <2>2, <3>1, <3>2
  <2>4. r \in (e + 2)..Len(format) /\ r \in Int
    BY <1>3, <1>4, <1>9, <2>2
  <2>5. r \in Ahead
    BY <1>6, <2>1, <2>3, <2>4
  <2>6. \A m \in Ahead : m \in Int /\ m >= r
    <3> SUFFICES ASSUME NEW m \in Ahead PROVE m \in Int /\ m >= r
      OBVIOUS
    <3>1. m \in (e + 2)..Len(format) /\ Closes(format[m]) /\ m \in Int
      BY <1>4, <1>6
    <3>2. ~(m < r)
      BY <1>7, <2>2, <3>1
    <3> QED BY <2>4, <3>1, <3>2
  <2>7. Min(Ahead) = r
    <3>1. PICK T : T = Ahead
      OBVIOUS
    <3>2. r \in T /\ \A m \in T : m \in Int /\ m >= r
      BY <2>5, <2>6, <3>1
    <3>3. \A m \in T : (\A y \in T : m <= y) <=> m = r
      BY <3>2
    <3>4. (CHOOSE m \in T : \A y \in T : m <= y) = r
      BY <3>2, <3>3
    <3> QED BY <3>1, <3>4 DEF Min
  <2> QED BY <1>5, <1>9, <2>2, <2>3, <2>5, <2>7
<1> QED BY <1>8, <1>9

\* move_format passes one character to copy.
LEMMA CopyStep ==
  ASSUME IInv, Copy PROVE InFormat' /\ out' \in Seq(Char) /\ (Returned => Returned')
<1>1. pc = "text" /\ i <= Len(format) /\ format[i] # "%" /\ call' = call
      /\ out' = Append(out, format[i]) /\ nbr' = AsInt(nbr + 1) /\ i' = i + 1 /\ a' = a
  BY DEF Copy
<1>2. PICK q, d, k, e : Spot(q, d, k, e) /\ i = e + 1 /\ a = k
  <2>1. Len(format) \in Nat
    BY FormatIs DEF IInv, Formatted
  <2>2. ~(Len(format) + 1 <= Len(format))
    BY <2>1
  <2> QED BY <1>1, <2>2, NextOne
<1>3. ~Conversion(d)
  BY <1>1, <1>2, OpenOne DEF IInv
<1>4. Copied(d) /\ "copy" \in DOMAIN d
  BY <1>2, <1>3, Directive DEF Spot
<1>5. Len(Characters(d)) = 1 /\ Takes(d) = 0
  BY <1>4, TakesIs DEF Characters
<1>6. q \in 0..Len(call.spec) /\ Lasts(call)[q] = e + 1 /\ Taken(call.spec)[q] = k
  <2>1. /\ q \in 1..Len(call.spec) /\ Lasts(call)[q] = e + Len(Characters(d)) /\ k \in Nat
        /\ Taken(call.spec)[q] = k + Takes(d)
    BY <1>2 DEF Spot
  <2>2. \A m \in 1..Len(call.spec) : m \in 0..Len(call.spec)
    OBVIOUS
  <2> QED BY <1>5, <2>1, <2>2
<1>7. InFormat'
  <2>1. q \in 0..Len(call'.spec) /\ i' = Lasts(call')[q] + 1 /\ a' = Taken(call'.spec)[q]
    BY <1>1, <1>2, <1>6
  <2> QED BY <2>1 DEF InFormat
<1>8. format[i] \in Char
  <2>1. format \in Seq(Char) /\ i \in 1..Len(format)
    <3>1. e \in Nat /\ Len(format) \in Nat /\ format \in Seq(Char)
      BY <1>2 DEF Spot
    <3> QED BY <1>1, <1>2, <3>1
  <2> QED BY <2>1, ElementOfSeq
<1>9. out \in Seq(Char)
  BY DEF IInv
<1>10. out' \in Seq(Char) /\ Len(out') = Len(out) + 1
  BY <1>1, <1>8, <1>9, AppendProperties
<1>11. ASSUME Returned PROVE Returned'
  <2>1. PICK l : l = Len(out) /\ l \in Nat
    BY <1>9, LenProperties
  <2>2. l + 1 < Half => AsInt(l + 1) = l + 1
    BY <2>1, AsIntIs
  <2>3. l + 1 < Half => l < Half
    BY <2>1, HalfIs
  <2>4. Half' = Half
    BY DEF Half
  <2> QED BY <1>1, <1>10, <1>11, <2>1, <2>2, <2>3, <2>4 DEF Returned
<1> QED BY <1>7, <1>10, <1>11

\* move_i finds the conversion character of the directive at hand.
LEMMA PercentStep ==
  ASSUME IInv, Percent PROVE \E q, d, k, e : Spot(q, d, k, e) /\ Conversion(d) /\ Reading(q, d, k, e)' /\ Come(d, 2, k, e)'
<1>1. /\ pc = "text" /\ i <= Len(format) /\ Ahead # {} /\ stop' = Min(Ahead) /\ format[i] = "%"
      /\ p' = i + 1 /\ data' = NoData /\ a' = (IF format[stop'] = "S" THEN a + 1 ELSE a)
      /\ call' = call /\ format' = format /\ i' = i
  BY DEF Percent
<1>2. PICK q, d, k, e : Spot(q, d, k, e) /\ i = e + 1 /\ a = k
  <2>1. Len(format) \in Nat
    BY FormatIs DEF IInv, Formatted
  <2>2. ~(Len(format) + 1 <= Len(format))
    BY <2>1
  <2> QED BY <1>1, <2>2, NextOne
<1>3. Conversion(d)
  <2>1. ASSUME Copied(d), "copy" \in DOMAIN d PROVE FALSE
    <3>1. Characters(d) = <<d.copy>> /\ d.copy # "%"
      BY <2>1 DEF Copied, Characters
    <3>2. Len(Characters(d)) = 1 /\ Characters(d)[1] = d.copy
      BY <3>1
    <3>3. 1 \in 1..Len(Characters(d))
      BY <3>2
    <3>4. format[e + 1] = d.copy
      BY <1>2, <3>2, <3>3 DEF Spot
    <3> QED BY <1>1, <1>2, <3>1, <3>4
  <2> QED BY <1>2, <2>1, Directive DEF Spot
<1>4. ~IsOpen(d) /\ stop' = e + ConvAt(d) /\ format[stop'] = d.conv
  BY <1>1, <1>2, <1>3, OpenOne DEF IInv
<1>5. Reading(q, d, k, e)'
  <2>1. q \in 1..Len(call'.spec) /\ d = call'.spec[q] /\ k = Taken(call'.spec)[q - 1] /\ e = Lasts(call')[q - 1]
    BY <1>1, <1>2 DEF Spot
  <2> QED BY <1>1, <1>2, <1>3, <1>4, <2>1 DEF Reading, Before
<1>6. Come(d, 2, k, e)'
  <2>1. e \in Nat /\ k \in Nat
    BY <1>2 DEF Spot
  <2>2. Shape(d, e)
    BY <1>2, <1>3, <1>4, ShapeIs
  <2>3. 2 \in 2..(WidthAt(d) + 1) /\ 2 \in 2..(ConvAt(d) + 1)
    <3>1. /\ WidthAt(d) \in Nat /\ PrecAt(d) \in Nat /\ NumAt(d) \in Nat /\ LengthAt(d) \in Nat /\ ConvAt(d) \in Nat
          /\ 1 <= WidthAt(d) /\ WidthAt(d) <= PrecAt(d) /\ PrecAt(d) <= NumAt(d) /\ NumAt(d) <= LengthAt(d)
          /\ LengthAt(d) < ConvAt(d)
      BY <2>2 DEF Shape
    <3> QED BY <3>1
  <2>4. p' = e + 2 /\ a' = First(d, k)
    BY <1>1, <1>2, <1>4, <2>1 DEF First
  <2>5. data' = [flags |-> {FlagsOf(d)[m] : m \in 1..(2 - 2)}, width |-> 0, precision |-> -1]
    <3>1. {FlagsOf(d)[m] : m \in 1..(2 - 2)} = {}
      OBVIOUS
    <3> QED BY <1>1, <3>1 DEF NoData
  <2>6. AtFlags(d, 2, k)'
    BY <2>3, <2>4, <2>5 DEF AtFlags
  <2> QED BY <2>3, <2>4, <2>6 DEF Come
<1> QED BY <1>2, <1>3, <1>5, <1>6

\* It finds none only in a directive that is open.
LEMMA PastStep ==
  ASSUME IInv, PastFormat
  PROVE  \E q \in 1..Len(call.spec) : "conv" \in DOMAIN call.spec[q] /\ Escapes(call.spec[q], Before(q))
<1>1. pc = "text" /\ i <= Len(format) /\ Ahead = {} /\ format[i] = "%"
  BY DEF PastFormat
<1>2. PICK q, d, k, e : Spot(q, d, k, e) /\ i = e + 1 /\ a = k
  <2>1. Len(format) \in Nat
    BY FormatIs DEF IInv, Formatted
  <2>2. ~(Len(format) + 1 <= Len(format))
    BY <2>1
  <2> QED BY <1>1, <2>2, NextOne
<1>3. Conversion(d)
  <2>1. ASSUME Copied(d), "copy" \in DOMAIN d PROVE FALSE
    <3>1. Characters(d) = <<d.copy>> /\ d.copy # "%"
      BY <2>1 DEF Copied, Characters
    <3>2. Len(Characters(d)) = 1 /\ Characters(d)[1] = d.copy
      BY <3>1
    <3>3. 1 \in 1..Len(Characters(d))
      BY <3>2
    <3>4. format[e + 1] = d.copy
      BY <1>2, <3>2, <3>3 DEF Spot
    <3> QED BY <1>1, <1>2, <3>1, <3>4
  <2> QED BY <1>2, <2>1, Directive DEF Spot
<1>4. IsOpen(d) /\ d = call.spec[q] /\ q \in 1..Len(call.spec)
  BY <1>1, <1>2, <1>3, OpenOne DEF IInv, Spot
<1>5. "conv" \in DOMAIN d /\ Escapes(d, Before(q))
  BY <1>3, <1>4 DEF IsOpen, Escapes, Open, Conversion
<1> QED BY <1>4, <1>5

\* At the end of the format all arguments are taken.
LEMMA ReturnStep == ASSUME IInv, Return PROVE a = Len(call.args)
<1>1. pc = "text" /\ i > Len(format)
  BY DEF Return
<1>2. Len(format) \in Nat
  BY FormatIs DEF IInv, Formatted
<1>3. ASSUME NEW q, NEW d, NEW k, NEW e, Spot(q, d, k, e), i = e + 1, i <= Len(format) PROVE FALSE
  <2>1. e \in Nat
    BY <1>3 DEF Spot
  <2> QED BY <1>1, <1>2, <1>3, <2>1
<1> QED BY <1>1, <1>3, NextOne

-----------------------------------------------------------------------------
(***************************************************************************)
(* The conversions: what one writes is as long as it says, if that is an   *)
(* int.                                                                    *)
(***************************************************************************)

\* A text of n characters.
Sized(x, n) == x \in Seq(Char) /\ Len(x) = n /\ n \in Nat
Sound(w)    == w.text \in Seq(Char) /\ (Len(w.text) < Half => w.len = Len(w.text))
Field       == data.width \in Nat /\ data.precision \in Int /\ data.precision >= -1

\* What is to be shown of each way to put a text together.
LEMMA SoundText ==
  ASSUME NEW w, NEW x, NEW m, NEW n, Sized(x, m), w = Written(x, n), m < Half => m = n PROVE Sound(w)
BY DEF Sound, Sized, Written

\* Lengths add up.
LEMMA SizedJoin ==
  ASSUME NEW x, NEW y, NEW m, NEW n, Sized(x, m), Sized(y, n) PROVE Sized(x \o y, m + n)
<1>1. x \o y \in Seq(Char) /\ Len(x \o y) = Len(x) + Len(y)
  BY Joined DEF Sized
<1> QED BY <1>1 DEF Sized

\* ft_putnchar writes as many characters as it is told to.
LEMMA SizedTimes == ASSUME NEW n \in Nat, NEW c \in Char PROVE Sized(Times(n, c), n)
BY DEF Times, Sized

\* And none for a number below 0.
Clip(n) == IF n > 0 THEN n ELSE 0
LEMMA SizedClip == ASSUME NEW n \in Int, NEW c \in Char PROVE Sized(Times(n, c), Clip(n))
<1>1. CASE n > 0
  BY <1>1, SizedTimes DEF Clip
<1>2. CASE ~(n > 0)
  <2>1. Times(n, c) = [j \in 1..0 |-> c]
    BY <1>2 DEF Times
  <2>2. [j \in 1..0 |-> c] = <<>>
    OBVIOUS
  <2> QED BY <1>2, <2>1, <2>2, EmptySeq DEF Clip, Sized
<1> QED BY <1>1, <1>2

\* One character.
LEMMA SizedOne == ASSUME NEW c \in Char PROVE Sized(<<c>>, 1)
BY DEF Sized

\* No character.
LEMMA SizedNone == Sized(<<>>, 0)
BY EmptySeq DEF Sized

\* Three texts, one behind the other.
LEMMA SizedThree ==
  ASSUME NEW x, NEW y, NEW z, NEW l, NEW m, NEW n, Sized(x, l), Sized(y, m), Sized(z, n)
  PROVE  Sized(x \o y \o z, (l + m) + n)
<1>1. Sized(x \o y, l + m)
  BY SizedJoin
<1> QED BY <1>1, SizedJoin

\* plus_blank gives one character or none.
LEMMA SignIs ==
  ASSUME NEW v
  PROVE  /\ Sized(Sign(v), Len(Sign(v))) /\ Len(Sign(v)) \in 0..1 /\ (Sign(v) = <<>> <=> Len(Sign(v)) = 0)
<1>1. "-" \in Char /\ "+" \in Char /\ " " \in Char
  BY DEF Char, Literals
<1>2. \A c \in {"-", "+", " "} : Sized(<<c>>, 1) /\ <<c>> # <<>>
  BY <1>1, SizedOne
<1>3. Sign(v) = <<>> \/ \E c \in {"-", "+", " "} : Sign(v) = <<c>>
  BY DEF Sign
<1>4. CASE Sign(v) = <<>>
  BY <1>4, SizedNone DEF Sized
<1>5. CASE \E c \in {"-", "+", " "} : Sign(v) = <<c>>
  <2>1. PICK x : x = Sign(v)
    OBVIOUS
  <2>2. Sized(x, 1) /\ x # <<>>
    BY <1>2, <1>5, <2>1
  <2>3. Len(x) = 1
    BY <2>2 DEF Sized
  <2> QED BY <2>1, <2>2, <2>3
<1> QED BY <1>3, <1>4, <1>5

\* The string of a number: digits, with a minus before them.
Numbered(x) ==
  /\ x \in Seq(Char) /\ Len(x) \in Nat /\ Len(x) >= 1
  /\ x[1] = "-" => Tail(x) \in Seq(Char) /\ Len(Tail(x)) = Len(x) - 1 /\ Len(x) >= 2

\* The string of a natural number is one of digits.
LEMMA NumeralNumbered ==
  ASSUME NEW n \in Nat, NEW digits \in DigitSets
  PROVE  /\ Numbered(Numeral(n, digits)) /\ Numeral(n, digits)[1] # "-"
         /\ (Numeral(n, digits)[1] = "0" <=> n = 0) /\ (n = 0 => Len(Numeral(n, digits)) = 1)
<1>1. PICK x : x = Numeral(n, digits)
  OBVIOUS
<1>2. LooksLike(x, n, digits)
  BY <1>1, NumeralText
<1>3. /\ x \in Seq(Char) /\ Len(x) >= 1 /\ (x[1] = "0" <=> n = 0) /\ (n = 0 => Len(x) = 1)
      /\ \A k \in 1..Len(x) : x[k] \in {digits[j] : j \in 1..Len(digits)}
  BY <1>2 DEF LooksLike
<1>4. Len(x) \in Nat /\ 1 \in 1..Len(x)
  BY <1>3, LenProperties
<1>5. PICK j \in 1..Len(digits) : x[1] = digits[j]
  BY <1>3, <1>4
<1>6. digits[j] # "-"
  BY DigitsAre DEF Digital
<1>7. Numbered(x) /\ x[1] # "-"
  BY <1>3, <1>4, <1>5, <1>6 DEF Numbered
<1> QED BY <1>1, <1>3, <1>7

\* ft_itoa gives digits behind a sign or none.
LEMMA ItoaNumbered == ASSUME NEW n \in Int PROVE Numbered(ft_itoa(n))
<1>1. Base(10) \in DigitSets
  BY DEF DigitSets
<1>2. CASE n >= 0
  <2>1. n \in Nat /\ ft_itoa(n) = Numeral(n, Base(10))
    BY <1>2 DEF ft_itoa
  <2> QED BY <1>1, <2>1, NumeralNumbered
<1>3. CASE n < 0
  <2>0. PICK m : m = -n /\ m \in Nat
    BY <1>3
  <2>1. PICK x, y : x = Numeral(m, Base(10)) /\ y = <<"-">>
    OBVIOUS
  <2>2. ft_itoa(n) = y \o x
    BY <1>3, <2>0, <2>1 DEF ft_itoa
  <2>3. x \in Seq(Char) /\ Len(x) \in Nat /\ Len(x) >= 1
    BY <1>1, <2>0, <2>1, NumeralNumbered DEF Numbered
  <2>4. "-" \in Char
    BY DEF Char, Literals
  <2>5. y \in Seq(Char) /\ Len(y) = 1
    BY <2>1, <2>4
  <2>6. y \o x \in Seq(Char) /\ Len(y \o x) = 1 + Len(x)
    <3>1. y \o x \in Seq(Char) /\ Len(y \o x) = Len(y) + Len(x)
      BY <2>3, <2>5, Joined
    <3> QED BY <2>5, <3>1
  <2>7. Tail(y \o x) \in Seq(Char) /\ Len(Tail(y \o x)) = Len(y \o x) - 1
    <3>1. PICK z : z = y \o x
      OBVIOUS
    <3>2. z \in Seq(Char) /\ z # <<>>
      BY <2>3, <2>6, <3>1, EmptySeq
    <3> QED BY <3>1, <3>2, HeadTailProperties
  <2> QED BY <2>2, <2>3, <2>6, <2>7 DEF Numbered
<1> QED BY <1>2, <1>3

\* set_d_len counts what set_print_d puts out, in each of its cases.
LEMMA SoundD == ASSUME NEW ori, Numbered(ori), Field PROVE Sound(set_print_d(ori))
<1> DEFINE sign == Sign(ori[1] = "-")
           body == IF ori[1] = "-" THEN Tail(ori) ELSE ori
           prec == Max({data.precision, Len(body)})
           pad  == Times(prec - Len(body), "0")
           len  == Max({data.width, prec, IF ori[1] = "-" THEN 0 ELSE Len(ori)})
           d    == set_d_len(ori, prec)
<1>0. "0" \in Char /\ " " \in Char
  BY DEF Char, Literals
<1>1. PICK s, b : s = Len(sign) /\ b = Len(body)
  OBVIOUS
<1>2. Sized(sign, s) /\ s \in 0..1 /\ (sign = <<>> <=> s = 0)
  BY <1>1, SignIs
<1>3. Sized(body, b) /\ b >= 1 /\ b \in Nat
  <2>1. CASE ori[1] = "-"
    BY <1>1, <2>1 DEF Numbered, Sized
  <2>2. CASE ori[1] # "-"
    BY <1>1, <2>2 DEF Numbered, Sized
  <2> QED BY <2>1, <2>2
<1>4. (IF ori[1] = "-" THEN 0 ELSE Len(ori)) \in 0..b
  BY <1>1, <1>3 DEF Numbered
<1>5. prec \in Nat /\ prec >= b /\ (data.precision = -1 => prec = b)
  BY <1>1, <1>3 DEF Max, Field
<1> HIDE DEF prec
<1>6. len \in Nat /\ len >= prec /\ len >= data.width /\ (len = prec \/ len = data.width)
  BY <1>3, <1>4, <1>5 DEF Max, Field
<1>7. set_d_len(ori, prec) = CASE sign = <<>> -> [len |-> len, blank |-> len - prec]
                               [] sign # <<>> /\ len = prec -> [len |-> AsInt(len + 1), blank |-> 0]
                               [] sign # <<>> /\ len # prec -> [len |-> len, blank |-> len - prec - 1]
  BY DEF set_d_len
<1> HIDE DEF sign, body, len
<1>8. d.blank \in Nat /\ ((s + prec) + d.blank < Half => (s + prec) + d.blank = d.len)
  <2>1. CASE s = 0
    <3>1. set_d_len(ori, prec) = [len |-> len, blank |-> len - prec]
      BY <1>2, <1>7, <2>1
    <3> QED BY <1>5, <1>6, <2>1, <3>1
  <2>2. CASE s = 1 /\ len = prec
    <3>1. set_d_len(ori, prec) = [len |-> AsInt(len + 1), blank |-> 0]
      BY <1>2, <1>7, <2>2
    <3>2. len + 1 < Half => AsInt(len + 1) = len + 1
      BY <1>6, AsIntIs
    <3>3. (s + prec) + 0 = len + 1
      BY <1>5, <1>6, <2>2
    <3>4. d.blank = 0 /\ d.len = AsInt(len + 1)
      BY <3>1
    <3> QED BY <3>2, <3>3, <3>4
  <2>3. CASE s = 1 /\ len # prec
    <3>1. set_d_len(ori, prec) = [len |-> len, blank |-> len - prec - 1]
      BY <1>2, <1>7, <2>3
    <3> QED BY <1>5, <1>6, <2>3, <3>1
  <2> QED BY <1>2, <2>1, <2>2, <2>3
<1>9. Sized(pad \o body, prec)
  <2>1. PICK m : m = prec - b /\ m \in Nat
    BY <1>3, <1>5
  <2>2. Sized(pad, m)
    BY <1>0, <1>1, <2>1, SizedTimes
  <2>3. Sized(pad \o body, m + b)
    <3> HIDE DEF pad
    <3> QED BY <1>3, <2>2, SizedJoin
  <2>4. m + b = prec
    BY <1>3, <1>5, <2>1
  <2> QED BY <2>3, <2>4
<1>10. CASE ori[1] = "0" /\ data.precision = 0
  <2>1. CASE data.width = 0
    <3>1. set_print_d(ori) = Written(<<>>, 0)
      BY <1>10, <2>1 DEF set_print_d
    <3> QED BY <3>1, SizedNone, SoundText
  <2>2. CASE data.width # 0
    <3>1. set_print_d(ori) = zero_noze
      BY <1>10, <2>2 DEF set_print_d
    <3>2. PICK x, l : x = Sign(FALSE) /\ l = Len(x)
      OBVIOUS
    <3>3. Sized(x, l) /\ l \in 0..1
      BY <3>2, SignIs
    <3>4. PICK m \in Nat : m = data.width - l /\ l + m = data.width
      <4>1. data.width - l \in Nat /\ l + (data.width - l) = data.width
        <5>1. PICK wide : wide = data.width
          OBVIOUS
        <5>2. wide \in Nat /\ wide # 0
          BY <2>2, <5>1 DEF Field
        <5>3. wide - l \in Nat /\ l + (wide - l) = wide
          BY <3>3, <5>2
        <5> QED BY <5>1, <5>3
      <4> QED BY <4>1
    <3>5. Sized(Times(m, " "), m)
      BY <1>0, <3>4, SizedTimes
    <3>6. Sized(x \o Times(m, " "), l + m)
      BY <3>3, <3>5, SizedJoin
    <3>7. zero_noze = Written(x \o Times(m, " "), data.width)
      BY <3>2, <3>4 DEF zero_noze
    <3> QED BY <3>1, <3>4, <3>6, <3>7, SoundText
  <2> QED BY <2>1, <2>2
<1>11. CASE ~(ori[1] = "0" /\ data.precision = 0)
  <2> DEFINE text == CASE Has("-") -> sign \o (pad \o body) \o Times(d.blank, " ")
                       [] ~Has("-") /\ Has("0") /\ Bare -> sign \o Times(d.blank, "0") \o body
                       [] ~Has("-") /\ ~(Has("0") /\ Bare) -> Times(d.blank, " ") \o sign \o (pad \o body)
  <2>1. set_print_d(ori) = Written(text, d.len)
    BY <1>11 DEF set_print_d, prec, sign, body
  <2>2. PICK n : n = d.blank /\ n \in Nat
    BY <1>8
  <2>3. Sized(Times(n, " "), n) /\ Sized(Times(n, "0"), n)
    BY <1>0, <2>2, SizedTimes
  <2>4. CASE Has("-")
    <3>1. text = sign \o (pad \o body) \o Times(n, " ")
      BY <2>2, <2>4
    <3>2. Sized(sign \o (pad \o body) \o Times(n, " "), (s + prec) + n)
      <4> HIDE DEF pad
      <4> QED BY <1>2, <1>9, <2>3, SizedThree
    <3>3. (s + prec) + n < Half => (s + prec) + n = d.len
      BY <1>8, <2>2
    <3> QED BY <2>1, <3>1, <3>2, <3>3, SoundText
  <2>5. CASE ~Has("-") /\ Has("0") /\ Bare
    <3>1. text = sign \o Times(n, "0") \o body
      BY <2>2, <2>5
    <3>2. Sized(sign \o Times(n, "0") \o body, (s + n) + b)
      BY <1>2, <1>3, <2>3, SizedThree
    <3>3. (s + n) + b < Half => (s + n) + b = d.len
      <4>1. (s + n) + b = (s + prec) + n
        BY <1>2, <1>3, <1>5, <2>2, <2>5 DEF Bare
      <4> QED BY <1>8, <2>2, <4>1
    <3> QED BY <2>1, <3>1, <3>2, <3>3, SoundText
  <2>6. CASE ~Has("-") /\ ~(Has("0") /\ Bare)
    <3>1. text = Times(n, " ") \o sign \o (pad \o body)
      BY <2>2, <2>6
    <3>2. Sized(Times(n, " ") \o sign \o (pad \o body), (n + s) + prec)
      <4> HIDE DEF pad
      <4> QED BY <1>2, <1>9, <2>3, SizedThree
    <3>3. (n + s) + prec < Half => (n + s) + prec = d.len
      <4>1. (n + s) + prec = (s + prec) + n
        BY <1>2, <1>5, <2>2
      <4> QED BY <1>8, <2>2, <4>1
    <3> QED BY <2>1, <3>1, <3>2, <3>3, SoundText
  <2> QED BY <2>4, <2>5, <2>6
<1> QED BY <1>10, <1>11

\* A prefix has two characters at most.
LEMMA PrefixIs ==
  ASSUME NEW ori, NEW flags
  PROVE  Sized(PrefixShown(ori, flags), Len(PrefixShown(ori, flags))) /\ Len(PrefixShown(ori, flags)) \in 0..2
<1>1. "0" \in Char /\ "x" \in Char /\ "X" \in Char
  BY DEF Char, Literals
<1>2. \A x \in {<<>>, <<"0">>, <<"0", "x">>, <<"0", "X">>} : x \in Seq(Char) /\ Len(x) \in 0..2
  <2>1. \A c \in Char : <<c>> \in Seq(Char) /\ Len(<<c>>) = 1
    OBVIOUS
  <2>2. \A c, b \in Char : <<c, b>> \in Seq(Char) /\ Len(<<c, b>>) = 2
    OBVIOUS
  <2>3. <<>> \in Seq(Char) /\ Len(<<>>) = 0
    BY EmptySeq
  <2>4. <<"0">> \in Seq(Char) /\ Len(<<"0">>) = 1
    BY <1>1, <2>1
  <2>5. <<"0", "x">> \in Seq(Char) /\ Len(<<"0", "x">>) = 2
    BY <1>1, <2>2
  <2>6. <<"0", "X">> \in Seq(Char) /\ Len(<<"0", "X">>) = 2
    BY <1>1, <2>2
  <2>7. 0 \in 0..2 /\ 1 \in 0..2 /\ 2 \in 0..2
    OBVIOUS
  <2> QED BY <2>3, <2>4, <2>5, <2>6, <2>7
<1>3. PICK x : x = PrefixShown(ori, flags)
  OBVIOUS
<1>4. x \in {<<>>, <<"0">>, <<"0", "x">>, <<"0", "X">>}
  BY <1>3 DEF PrefixShown, Prefix
<1>5. x \in Seq(Char) /\ Len(x) \in 0..2
  BY <1>2, <1>4
<1> QED BY <1>3, <1>5 DEF Sized

\* for_setoux counts what the functions of an unsigned number put out, in each case.
LEMMA SoundOux == ASSUME NEW ori, NEW flags, Numbered(ori), Field PROVE Sound(set_print_oxu_hash(ori, flags))
<1>0. "0" \in Char /\ " " \in Char
  BY DEF Char, Literals
<1>1. PICK l, W, P : l = Len(ori) /\ W = data.width /\ P = data.precision
  OBVIOUS
<1>2. Sized(ori, l) /\ l \in Nat /\ l >= 1 /\ W \in Nat /\ P \in Int /\ P >= -1
  BY <1>1 DEF Numbered, Sized, Field
<1>3. PICK pre, n : pre = PrefixShown(ori, flags) /\ n = Len(pre)
  OBVIOUS
<1>4. Sized(pre, n) /\ n \in 0..2
  BY <1>3, PrefixIs
<1>5. PICK r : r = OxuPrecision(ori)
  OBVIOUS
<1>6. CASE ori[1] = "0"
  <2>1. r \in Nat /\ (P # 0 => r >= 1) /\ (P = 0 => r = 0)
    <3>1. CASE P = 0
      BY <1>1, <1>5, <1>6, <3>1 DEF OxuPrecision
    <3>2. CASE P # 0
      <4>1. r = Max({P, l})
        BY <1>1, <1>5, <3>2 DEF OxuPrecision
      <4>2. Max({P, l}) \in Nat /\ Max({P, l}) >= l
        BY <1>2 DEF Max
      <4> QED BY <1>2, <3>2, <4>1, <4>2
    <3> QED BY <3>1, <3>2
  <2>2. PICK o : o = set_oxu(ori, flags)
    OBVIOUS
  <2>3. /\ o.prec = r
        /\ o.len = IF W = 0 /\ r = 0 THEN 0 ELSE Max({W, l, r})
    BY <1>1, <1>5, <1>6, <2>2 DEF set_oxu
  <2>4. o.len \in Nat /\ o.len >= r /\ o.prec = r
    <3>1. Max({W, l, r}) \in Nat /\ Max({W, l, r}) >= r
      BY <1>2, <2>1 DEF Max
    <3> QED BY <2>1, <2>3, <3>1
  <2>5. set_print_oxu_hash(ori, flags) = put_zero_oux(o, flags)
    BY <1>6, <2>2 DEF set_print_oxu_hash
  <2>6. PICK len : len = o.len /\ len \in Nat /\ len >= r
    BY <2>4
  <2>7. CASE len = 0
    <3>1. put_zero_oux(o, flags) = Written(<<"0">>, 1) \/ put_zero_oux(o, flags) = Written(<<>>, 0)
      BY <2>6, <2>7 DEF put_zero_oux
    <3>2. Sized(<<"0">>, 1) /\ Sized(<<>>, 0)
      BY <1>0, SizedOne, SizedNone
    <3> QED BY <2>5, <3>1, <3>2, SoundText
  <2>8. CASE len # 0
    <3> DEFINE text == CASE Bare /\ Has("0") -> Times(o.len, "0")
                         [] Bare /\ ~Has("0") /\ Has("-")  -> <<"0">> \o Times(o.len - 1, " ")
                         [] Bare /\ ~Has("0") /\ ~Has("-") -> Times(o.len - 1, " ") \o <<"0">>
                         [] ~Bare /\ Has("-")  -> Times(o.prec, "0") \o Times(o.len - o.prec, " ")
                         [] ~Bare /\ ~Has("-") -> Times(o.len - o.prec, " ") \o Times(o.prec, "0")
    <3>1. put_zero_oux(o, flags) = Written(text, len)
      BY <2>6, <2>8 DEF put_zero_oux
    <3>2. PICK k, m : k = len - 1 /\ m = len - r
      OBVIOUS
    <3>3. k \in Nat /\ m \in Nat /\ 1 + k = len /\ k + 1 = len /\ r + m = len /\ m + r = len
      BY <2>1, <2>6, <2>8, <3>2
    <3>4. /\ Sized(Times(len, "0"), len) /\ Sized(Times(k, " "), k) /\ Sized(Times(m, " "), m)
          /\ Sized(Times(r, "0"), r) /\ Sized(<<"0">>, 1)
      BY <1>0, <2>1, <2>6, <3>3, SizedTimes, SizedOne
    <3>5. CASE Bare /\ Has("0")
      <4>1. text = Times(len, "0")
        BY <2>6, <3>5
      <4> QED BY <2>5, <3>1, <3>4, <4>1, SoundText
    <3>6. CASE Bare /\ ~Has("0") /\ Has("-")
      <4>1. text = <<"0">> \o Times(k, " ")
        BY <2>6, <3>2, <3>6
      <4>2. Sized(<<"0">> \o Times(k, " "), 1 + k)
        BY <3>4, SizedJoin
      <4> QED BY <2>5, <3>1, <3>3, <4>1, <4>2, SoundText
    <3>7. CASE Bare /\ ~Has("0") /\ ~Has("-")
      <4>1. text = Times(k, " ") \o <<"0">>
        BY <2>6, <3>2, <3>7
      <4>2. Sized(Times(k, " ") \o <<"0">>, k + 1)
        BY <3>4, SizedJoin
      <4> QED BY <2>5, <3>1, <3>3, <4>1, <4>2, SoundText
    <3>8. CASE ~Bare /\ Has("-")
      <4>1. text = Times(r, "0") \o Times(m, " ")
        BY <2>4, <2>6, <3>2, <3>8
      <4>2. Sized(Times(r, "0") \o Times(m, " "), r + m)
        BY <3>4, SizedJoin
      <4> QED BY <2>5, <3>1, <3>3, <4>1, <4>2, SoundText
    <3>9. CASE ~Bare /\ ~Has("-")
      <4>1. text = Times(m, " ") \o Times(r, "0")
        BY <2>4, <2>6, <3>2, <3>9
      <4>2. Sized(Times(m, " ") \o Times(r, "0"), m + r)
        BY <3>4, SizedJoin
      <4> QED BY <2>5, <3>1, <3>3, <4>1, <4>2, SoundText
    <3> QED BY <3>5, <3>6, <3>7, <3>8, <3>9
  <2> QED BY <2>7, <2>8
<1>7. CASE ori[1] # "0"
  <2>1. r \in Nat /\ r >= l /\ (P = -1 => r = l)
    <3>1. r = Max({P, l})
      BY <1>1, <1>5, <1>7 DEF OxuPrecision
    <3>2. Max({P, l}) \in Nat /\ Max({P, l}) >= l /\ (P = -1 => Max({P, l}) = l)
      BY <1>2 DEF Max
    <3> QED BY <3>1, <3>2
  <2>2. PICK o : o = set_oxu(ori, flags)
    OBVIOUS
  <2>3. /\ o.prec = r /\ o.len = Max({W, l, AsInt(r + n)}) /\ o.blank = o.len - r - n
    BY <1>1, <1>3, <1>5, <1>7, <2>2 DEF set_oxu
  <2>4. PICK len, blank, k, m, z, y : /\ len = o.len /\ blank = o.blank /\ k = r - l /\ m = len - n - l
                                      /\ z = Clip(blank) /\ y = Clip(m)
    OBVIOUS
  <2>5. /\ len \in Nat /\ blank \in Int /\ k \in Nat /\ m \in Int /\ z \in Nat /\ y \in Nat /\ k + l = r
        /\ ((n + r) + z < Half => (n + r) + z = len) /\ ((z + n) + r < Half => (z + n) + r = len)
        /\ (r = l => ((n + y) + l < Half => (n + y) + l = len))
    <3>1. PICK u : u = AsInt(r + n) /\ u \in Int /\ (r + n < Half => u = r + n)
      BY <1>4, <2>1, AsIntIs
    <3>2. len \in Nat /\ len >= u
      <4>1. Max({W, l, u}) \in Nat /\ Max({W, l, u}) >= u
        BY <1>2, <3>1 DEF Max
      <4> QED BY <2>3, <2>4, <3>1, <4>1
    <3>3. blank = len - r - n /\ m = len - n - l /\ k = r - l
      BY <2>3, <2>4
    <3>4. Half \in Nat
      BY HalfIs
    <3>5. z = (IF blank > 0 THEN blank ELSE 0) /\ y = (IF m > 0 THEN m ELSE 0)
      BY <2>4 DEF Clip
    <3>6. CASE r + n < Half
      BY <1>2, <1>4, <2>1, <3>1, <3>2, <3>3, <3>4, <3>5, <3>6
    <3>7. CASE ~(r + n < Half)
      BY <1>2, <1>4, <2>1, <3>2, <3>3, <3>4, <3>5, <3>7
    <3> QED BY <3>6, <3>7
  <2> DEFINE body == Times(k, "0") \o ori
             text == IF Has("-") THEN pre \o body \o Times(blank, " ")
                     ELSE IF Has("0") /\ Bare THEN pre \o Times(m, "0") \o ori
                     ELSE Times(blank, " ") \o pre \o body
  <2>6. Sized(body, r)
    <3>1. Sized(Times(k, "0"), k)
      BY <1>0, <2>5, SizedTimes
    <3>2. Sized(Times(k, "0") \o ori, k + l)
      BY <1>2, <3>1, SizedJoin
    <3> QED BY <2>5, <3>2
  <2>7. Sized(Times(blank, " "), z) /\ Sized(Times(m, "0"), y)
    BY <1>0, <2>4, <2>5, SizedClip
  <2>8. set_print_oxu_hash(ori, flags)
          = Written(IF Has("-") THEN pre \o Times(r - Len(ori), "0") \o ori \o Times(blank, " ")
                    ELSE IF Has("0") /\ Bare THEN pre \o Times(len - Len(pre) - Len(ori), "0") \o ori
                    ELSE Times(blank, " ") \o pre \o Times(r - Len(ori), "0") \o ori, len)
    BY <1>3, <1>7, <2>2, <2>3, <2>4 DEF set_print_oxu_hash, go_right_oux
  <2>9. Times(r - Len(ori), "0") = Times(k, "0") /\ Times(len - Len(pre) - Len(ori), "0") = Times(m, "0")
    BY <1>1, <1>3, <2>4
  <2>10. /\ Sized(pre \o body \o Times(blank, " "), (n + r) + z)
         /\ Sized(pre \o Times(m, "0") \o ori, (n + y) + l)
         /\ Sized(Times(blank, " ") \o pre \o body, (z + n) + r)
    <3> HIDE DEF body
    <3> QED BY <1>2, <1>4, <2>6, <2>7, SizedThree
  <2>11. CASE Has("-")
    <3>1. set_print_oxu_hash(ori, flags) = Written(pre \o Times(k, "0") \o ori \o Times(blank, " "), len)
      BY <2>8, <2>9, <2>11
    <3>2. pre \o Times(k, "0") \o ori = pre \o (Times(k, "0") \o ori)
      <4>1. Sized(Times(k, "0"), k)
        BY <1>0, <2>5, SizedTimes
      <4>2. pre \in Seq(Char) /\ Times(k, "0") \in Seq(Char) /\ ori \in Seq(Char)
        BY <1>2, <1>4, <4>1 DEF Sized
      <4> QED BY <4>2, ConcatAssociative
    <3> QED BY <2>5, <2>10, <3>1, <3>2, SoundText
  <2>12. CASE ~Has("-") /\ Has("0") /\ Bare
    <3>1. set_print_oxu_hash(ori, flags) = Written(pre \o Times(m, "0") \o ori, len)
      BY <2>8, <2>9, <2>12
    <3>2. r = l
      BY <1>1, <2>1, <2>12 DEF Bare
    <3> QED BY <2>5, <2>10, <3>1, <3>2, SoundText
  <2>13. CASE ~Has("-") /\ ~(Has("0") /\ Bare)
    <3>1. set_print_oxu_hash(ori, flags) = Written(Times(blank, " ") \o pre \o Times(k, "0") \o ori, len)
      BY <2>8, <2>9, <2>13
    <3>2. Times(blank, " ") \o pre \o Times(k, "0") \o ori = Times(blank, " ") \o pre \o (Times(k, "0") \o ori)
      <4>1. PICK x, g : x = Times(blank, " ") \o pre /\ g = Times(k, "0")
        OBVIOUS
      <4>2. Sized(g, k) /\ Sized(x, z + n)
        BY <1>0, <1>4, <2>5, <2>7, <4>1, SizedTimes, SizedJoin
      <4>3. x \in Seq(Char) /\ g \in Seq(Char) /\ ori \in Seq(Char)
        BY <1>2, <4>2 DEF Sized
      <4>4. (x \o g) \o ori = x \o (g \o ori)
        BY <4>3, ConcatAssociative
      <4> QED BY <4>1, <4>4
    <3> QED BY <2>5, <2>10, <3>1, <3>2, SoundText
  <2> QED BY <2>11, <2>12, <2>13
<1> QED BY <1>6, <1>7

\* The width of a field is its length.
LEMMA SoundField ==
  ASSUME NEW x, NEW l, Sized(x, l), NEW c \in Char, Field PROVE Sound(InField(x, c))
<1>0. " " \in Char
  BY DEF Char, Literals
<1>1. PICK len : len = Max({data.width, l})
  OBVIOUS
<1>2. len \in Nat /\ len >= l /\ l \in Nat
  <2>1. l \in Nat /\ data.width \in Nat
    BY DEF Field, Sized
  <2> QED BY <1>1, <2>1 DEF Max
<1>3. PICK m : m = len - l /\ m \in Nat /\ l + m = len /\ m + l = len
  BY <1>2
<1>4. Sized(Times(m, c), m) /\ Sized(Times(m, " "), m)
  BY <1>0, <1>3, SizedTimes
<1>5. InField(x, c) = Written(IF Has("-") THEN x \o Times(m, " ") ELSE Times(m, c) \o x, len)
  <2>1. l = Len(x)
    BY DEF Sized
  <2> QED BY <1>1, <1>3, <2>1 DEF InField
<1>6. Sized(x \o Times(m, " "), l + m) /\ Sized(Times(m, c) \o x, m + l)
  BY <1>4, SizedJoin
<1>7. CASE Has("-")
  <2>1. InField(x, c) = Written(x \o Times(m, " "), len)
    BY <1>5, <1>7
  <2> QED BY <1>3, <1>6, <2>1, SoundText
<1>8. CASE ~Has("-")
  <2>1. InField(x, c) = Written(Times(m, c) \o x, len)
    BY <1>5, <1>8
  <2> QED BY <1>3, <1>6, <2>1, SoundText
<1> QED BY <1>7, <1>8

\* Also of a text that is cut off at its precision.
LEMMA SoundS == ASSUME NEW x, x \in Seq(Char), Field PROVE Sound(set_print_s(x))
<1>0. " " \in Char
  BY DEF Char, Literals
<1>1. PICK l : l = Len(x) /\ l \in Nat
  BY LenProperties
<1>2. CASE data.precision = -1 \/ data.precision > l
  <2>1. set_print_s(x) = InField(x, " ")
    BY <1>1, <1>2 DEF set_print_s
  <2> QED BY <1>0, <1>1, <2>1, SoundField DEF Sized
<1>3. CASE ~(data.precision = -1 \/ data.precision > l)
  <2>1. PICK P : P = data.precision /\ P \in 0..l
    BY <1>1, <1>3 DEF Field
  <2>2. set_print_s(x) = InField(SubSeq(x, 1, P), " ")
    BY <1>1, <1>3, <2>1 DEF set_print_s
  <2>3. Sized(SubSeq(x, 1, P), P)
    <3>1. \A j \in 1..P : x[j] \in Char
      BY <1>1, <2>1, ElementOfSeq
    <3>2. SubSeq(x, 1, P) \in Seq(Char) /\ Len(SubSeq(x, 1, P)) = IF 1 <= P THEN P - 1 + 1 ELSE 0
      BY <2>1, <3>1, SubSeqProperties
    <3>3. (IF 1 <= P THEN P - 1 + 1 ELSE 0) = P
      BY <2>1
    <3> QED BY <2>1, <3>2, <3>3 DEF Sized
  <2> QED BY <1>0, <2>2, <2>3, SoundField
<1> QED BY <1>2, <1>3

-----------------------------------------------------------------------------
(***************************************************************************)
(* A directive that is read to its end.                                    *)
(***************************************************************************)

\* What a conversion finds.
Ready(q, d, k, e) ==
  /\ i = e + 1 /\ stop = e + ConvAt(d) /\ Conv = d.conv /\ a = Third(d, k)
  /\ data = [flags |-> d.flags, width |-> Size(WidthOf(d, First(d, k))),
             precision |-> PrecisionOf(d, First(d, k))]

\* Where set_flags is done, it has found all that the directive has.
LEMMA Complete ==
  ASSUME NEW q, NEW d, NEW k, NEW e, NEW o, Amid(q, d, k, e), Come(d, o, k, e), Converts
  PROVE  Ready(q, d, k, e)
<1>1. /\ Conversion(d) /\ ~IsOpen(d) /\ Shape(d, e) /\ Spot(q, d, k, e) /\ stop = e + ConvAt(d) /\ i = e + 1
      /\ p = e + o /\ o \in 2..(ConvAt(d) + 1) /\ p >= stop
  BY DEF Amid, Reading, Come, Converts
<1>2. /\ WidthAt(d) \in Nat /\ PrecAt(d) \in Nat /\ NumAt(d) \in Nat /\ LengthAt(d) \in Nat /\ ConvAt(d) \in Nat
      /\ 1 <= WidthAt(d) /\ WidthAt(d) <= PrecAt(d) /\ PrecAt(d) <= NumAt(d) /\ NumAt(d) <= LengthAt(d)
      /\ LengthAt(d) < ConvAt(d) /\ e \in Nat /\ format[e + ConvAt(d)] = d.conv
  BY <1>1 DEF Shape
<1>3. o >= ConvAt(d) /\ o \in Nat
  BY <1>1, <1>2
<1>4. ~InFlagsOf(d, o, k)
  BY <1>2, <1>3 DEF InFlagsOf
<1>5. ~InWidth(d, o, k)
  <2>1. d.width # None => PrecAt(d) >= WidthAt(d) + 1
    BY <1>1, <1>2, SomeNumber
  <2> QED BY <1>2, <1>3, <2>1 DEF InWidth
<1>6. ~InPoint(d, o, k)
  <2>1. d.prec # None => LengthAt(d) >= PrecAt(d) + 2
    BY <1>1, <1>2, SomeNumber
  <2> QED BY <1>2, <1>3, <2>1 DEF InPoint, AtPoint
<1>7. AtLength(d, o, k)
  BY <1>1, <1>4, <1>5, <1>6, Regions
<1> QED BY <1>1, <1>2, <1>7 DEF Ready, AtLength, Conv

\* A width or a precision is an int.
LEMMA FieldIs ==
  ASSUME NEW q, NEW d, NEW k, NEW e, Amid(q, d, k, e), Ready(q, d, k, e)
  PROVE  Field /\ WidthOf(d, First(d, k)) \in Int
<1>1. Conversion(d) /\ Spot(q, d, k, e)
  BY DEF Amid, Reading
<1>2. PICK f, s, t, l : f = First(d, k) /\ s = Second(d, k) /\ t = Third(d, k) /\ l = Len(call.args)
  OBVIOUS
<1>3. l \in Nat
  BY <1>1, <1>2 DEF Spot
<1>4. f \in Nat /\ s \in Nat /\ t \in Nat /\ f <= s /\ s <= t /\ t <= l
  BY <1>1, <1>2, TakenThere
<1>5. d.width \in {None, Star} \cup (Nat \ {0}) /\ d.prec \in {None, Star} \cup Nat
  BY <1>1, SomeNumber
<1>6. ASSUME NEW m, m \in 1..l PROVE Signed(Value(m), IntMod) \in Int
  BY <1>1, <1>2, <1>6, ArgThere DEF Value
<1>7. WidthOf(d, f) \in Int
  <2>1. CASE d.width = Star
    <3>1. s = f + 1 /\ f + 1 \in 1..l
      BY <1>2, <1>3, <1>4, <2>1 DEF Second
    <3> QED BY <1>6, <2>1, <3>1 DEF WidthOf
  <2>2. CASE d.width # Star
    <3>1. d.width \in Int
      BY <1>5, <2>2 DEF None
    <3>2. Max({d.width, 0}) \in Int
      BY <3>1 DEF Max
    <3> QED BY <2>2, <3>2 DEF WidthOf
  <2> QED BY <2>1, <2>2
<1>8. Size(WidthOf(d, f)) \in Nat
  BY <1>7 DEF Size
<1>9. PrecisionOf(d, f) \in Int /\ PrecisionOf(d, f) >= -1
  <2>1. CASE d.prec = Star
    <3>1. PICK m : m = f + (IF d.width = Star THEN 2 ELSE 1)
      OBVIOUS
    <3>2. t = m /\ m \in 1..l
      BY <1>2, <1>3, <1>4, <2>1, <3>1 DEF Second, Third
    <3>3. PICK v : v = Signed(Value(m), IntMod) /\ v \in Int
      BY <1>6, <3>2
    <3>4. PrecisionOf(d, f) = Max({v, -1})
      BY <2>1, <3>1, <3>3 DEF PrecisionOf, None
    <3>5. Max({v, -1}) \in Int /\ Max({v, -1}) >= -1
      BY <3>3 DEF Max
    <3> QED BY <3>4, <3>5
  <2>2. CASE d.prec # Star
    <3>1. d.prec \in Int /\ d.prec >= -1
      BY <1>5, <2>2 DEF None
    <3> QED BY <2>2, <3>1 DEF PrecisionOf
  <2> QED BY <2>1, <2>2
<1>10. data.width = Size(WidthOf(d, f)) /\ data.precision = PrecisionOf(d, f)
  BY <1>2 DEF Ready
<1> QED BY <1>2, <1>7, <1>8, <1>9, <1>10 DEF Field

\* The argument of a conversion is the one it says, but for %S.
LEMMA ArgIs ==
  ASSUME NEW q, NEW d, NEW k, NEW e, Amid(q, d, k, e), Ready(q, d, k, e), d.conv \notin {"S", "%"}
  PROVE  /\ Arg = LastArg(d, k) /\ IsArg(Arg) /\ Arg.slot \in Nat /\ Arg.slot < LongMod
         /\ a + 1 = Taken(call.spec)[q]
<1>1. Conversion(d) /\ Spot(q, d, k, e) /\ ~IsOpen(d) /\ a = Third(d, k)
  BY DEF Amid, Reading, Ready
<1>2. d.conv \notin {"S", "%", Open}
  BY <1>1 DEF IsOpen, Conversion
<1>3. a + 1 = k + Takes(d) /\ a \in Nat
  BY <1>1, <1>2, TakenThere
<1>4. k + Takes(d) <= Len(call.args) /\ Len(call.args) \in Nat /\ Taken(call.spec)[q] = k + Takes(d)
  BY <1>1 DEF Spot
<1>5. a + 1 \in 1..Len(call.args)
  BY <1>3, <1>4
<1>6. /\ IsArg(call.args[a + 1]) /\ call.args[a + 1].slot \in Nat /\ call.args[a + 1].slot < LongMod
  BY <1>1, <1>5, ArgThere
<1> QED BY <1>3, <1>4, <1>6 DEF Arg, LastArg

\* The stars of a directive are those of its width and its precision.
LEMMA StarCount ==
  ASSUME NEW q, NEW d, NEW k, NEW e, Amid(q, d, k, e) PROVE Stars = StarsOf(d)
<1>1. Conversion(d) /\ ~IsOpen(d) /\ Shape(d, e) /\ i = e + 1 /\ stop = e + ConvAt(d)
  BY DEF Amid, Reading
<1>2. PICK x, y, z, l, t : x = WidthAt(d) /\ y = PrecAt(d) /\ z = NumAt(d) /\ l = LengthAt(d) /\ t = ConvAt(d)
  OBVIOUS
<1>3. /\ x \in Nat /\ y \in Nat /\ z \in Nat /\ l \in Nat /\ t \in Nat /\ e \in Nat
      /\ 1 <= x /\ x <= y /\ y <= z /\ z <= l /\ l < t
  BY <1>1, <1>2 DEF Shape
<1>4. /\ d.width = Star => y = x + 1
      /\ d.prec = None => l = z /\ z = y
      /\ d.prec = Star => l = z + 1 /\ z = y + 1
      /\ d.prec # None => z = y + 1
      /\ d.width \in {None, Star} \cup Nat /\ d.prec \in {None, Star} \cup Nat
  <2>1. z = IF d.prec = None THEN y ELSE y + 1
    BY <1>1, <1>2 DEF Shape
  <2>2. /\ d.width = Star => y = x + 1
        /\ d.prec = None => l = z /\ z = y
        /\ d.prec = Star => l = y + 2
        /\ d.width \in {None, Star} \cup Nat /\ d.prec \in {None, Star} \cup Nat
    BY <1>1, <1>2, SomeNumber
  <2> QED BY <1>3, <2>1, <2>2 DEF None, Star
<1>5. ASSUME NEW w, w \in {None, Star} \cup Nat, NEW m \in 1..Len(Number(w))
      PROVE  Number(w)[m] = "*" <=> w = Star
  <2>1. CASE w = None
    <3>1. Len(Number(w)) = 0
      BY <2>1, NumberIs
    <3> QED BY <3>1
  <2>2. CASE w = Star
    <3>1. Len(Number(w)) = 1 /\ Number(w)[1] = "*"
      BY <2>2, NumberIs
    <3>2. m = 1
      BY <3>1
    <3> QED BY <2>2, <3>1, <3>2
  <2>3. CASE w \in Nat
    <3>1. Number(w)[m] \in Decimal
      BY <2>3, NumberIs
    <3>2. Number(w)[m] # "*"
      BY <3>1, DecimalIs
    <3>3. w # Star
      BY <2>3 DEF Star
    <3> QED BY <3>2, <3>3
  <2> QED BY <1>5, <2>1, <2>2, <2>3
<1> DEFINE A == IF d.width = Star THEN {e + (x + 1)} ELSE {}
           B == IF d.prec = Star THEN {e + (z + 1)} ELSE {}
           S == {r \in i..stop : format[r] = "*"}
<1>6. ASSUME NEW m \in 1..t
      PROVE  format[e + m] = "*" <=> (d.width = Star /\ m = x + 1) \/ (d.prec = Star /\ m = z + 1)
  <2>1. CASE m <= x
    <3>1. format[e + 1] = "%" /\ \A j \in 2..x : format[e + j] \in {"#", "-", "+", " ", "0"}
      BY <1>1, <1>2 DEF Shape
    <3>2. m = 1 \/ m \in 2..x
      BY <1>3, <2>1
    <3>3. format[e + m] # "*"
      BY <3>1, <3>2
    <3>4. m # x + 1 /\ m # z + 1
      BY <1>3, <2>1
    <3> QED BY <3>3, <3>4
  <2>2. CASE m > x /\ m <= y
    <3>1. PICK h : h = m - x
      OBVIOUS
    <3>2. m \in (x + 1)..y /\ h \in 1..(y - x) /\ y - x = Len(Number(d.width)) /\ m # z + 1
      <4>1. y = x + Len(Number(d.width)) /\ Len(Number(d.width)) \in Nat
        BY <1>1, <1>2, PartsAre DEF PrecAt
      <4> QED BY <1>3, <2>2, <3>1, <4>1
    <3>3. format[e + m] = Number(d.width)[h]
      BY <1>1, <1>2, <3>1, <3>2 DEF Shape
    <3>4. Number(d.width)[h] = "*" <=> d.width = Star
      <4>1. h \in 1..Len(Number(d.width))
        BY <3>2
      <4> QED BY <1>4, <1>5, <4>1
    <3>5. d.width = Star => m = x + 1
      BY <1>3, <1>4, <2>2
    <3> QED BY <3>2, <3>3, <3>4, <3>5
  <2>3. CASE m > y /\ m <= z
    <3>1. d.prec # None /\ m = y + 1 /\ m # z + 1
      BY <1>3, <1>4, <2>3
    <3>2. format[e + (y + 1)] = "."
      BY <1>1, <1>2, <3>1 DEF Shape
    <3>3. d.width = Star => m # x + 1
      BY <1>3, <1>4, <2>3
    <3> QED BY <3>1, <3>2, <3>3
  <2>4. CASE m > z /\ m <= l
    <3>1. PICK h : h = m - z
      OBVIOUS
    <3>2. m \in (z + 1)..l /\ h \in 1..(l - z) /\ l - z = Len(Number(d.prec))
      <4>1. l = z + Len(Number(d.prec)) /\ Len(Number(d.prec)) \in Nat
        BY <1>1, <1>2, PartsAre DEF LengthAt
      <4> QED BY <1>3, <2>4, <3>1, <4>1
    <3>3. format[e + m] = Number(d.prec)[h]
      BY <1>1, <1>2, <3>1, <3>2 DEF Shape
    <3>4. Number(d.prec)[h] = "*" <=> d.prec = Star
      <4>1. h \in 1..Len(Number(d.prec))
        BY <3>2
      <4> QED BY <1>4, <1>5, <4>1
    <3>5. (d.prec = Star => m = z + 1) /\ (d.width = Star => m # x + 1)
      BY <1>3, <1>4, <2>4
    <3> QED BY <3>3, <3>4, <3>5
  <2>5. CASE m > l /\ m < t
    <3>1. m \in (l + 1)..(t - 1)
      BY <1>3, <2>5
    <3>2. format[e + m] \in {"h", "l", "j", "z"}
      BY <1>1, <1>2, <3>1 DEF Shape
    <3>3. (d.width = Star => m # x + 1) /\ (d.prec = Star => m # z + 1)
      BY <1>3, <1>4, <2>5
    <3> QED BY <3>2, <3>3
  <2>6. CASE m = t
    <3>1. format[e + m] = d.conv
      BY <1>1, <1>2, <2>6 DEF Shape
    <3>2. d.conv # "*"
      BY <1>1 DEF Conversion, is_f, IsOpen
    <3>3. (d.width = Star => m # x + 1) /\ (d.prec = Star => m # z + 1)
      BY <1>3, <1>4, <2>6
    <3> QED BY <3>1, <3>2, <3>3
  <2> QED BY <1>3, <2>1, <2>2, <2>3, <2>4, <2>5, <2>6
<1>7. S = A \cup B
  <2>1. ASSUME NEW r \in S PROVE r \in A \cup B
    <3>1. PICK m : m = r - e /\ m \in 1..t /\ r = e + m
      BY <1>1, <1>2, <1>3
    <3>2. (d.width = Star /\ m = x + 1) \/ (d.prec = Star /\ m = z + 1)
      BY <1>6, <3>1
    <3> QED BY <3>1, <3>2
  <2>2. ASSUME NEW r \in A \cup B PROVE r \in S
    <3>1. PICK m : r = e + m /\ ((d.width = Star /\ m = x + 1) \/ (d.prec = Star /\ m = z + 1))
      BY <2>2
    <3>2. m \in 1..t /\ r \in i..stop
      BY <1>1, <1>2, <1>3, <1>4, <3>1
    <3>3. format[e + m] = "*"
      BY <1>6, <3>1, <3>2
    <3> QED BY <3>1, <3>2, <3>3
  <2> QED BY <2>1, <2>2
<1>8. Stars = Cardinality(A \cup B)
  BY <1>7 DEF Stars
<1>9. CASE d.width = Star /\ d.prec = Star
  <2>1. PICK u, v : u = e + (x + 1) /\ v = e + (z + 1)
    OBVIOUS
  <2>2. u # v
    BY <1>3, <1>4, <1>9, <2>1
  <2>3. A \cup B = {v} \cup {u}
    BY <1>9, <2>1
  <2>4. IsFiniteSet({v}) /\ Cardinality({v}) = 1 /\ u \notin {v}
    BY <2>2, FS_Singleton
  <2>5. Cardinality({v} \cup {u}) = 1 + 1
    BY <2>4, FS_AddElement
  <2> HIDE DEF A, B
  <2> QED BY <1>8, <1>9, <2>3, <2>5 DEF StarsOf
<1>10. CASE ~(d.width = Star /\ d.prec = Star) /\ (d.width = Star \/ d.prec = Star)
  <2>1. PICK u : A \cup B = {u}
    BY <1>10
  <2>2. Cardinality({u}) = 1
    BY FS_Singleton
  <2> HIDE DEF A, B
  <2> QED BY <1>8, <1>10, <2>1, <2>2 DEF StarsOf
<1>11. CASE d.width # Star /\ d.prec # Star
  <2>1. A \cup B = {}
    BY <1>11
  <2> HIDE DEF A, B
  <2> QED BY <1>8, <1>11, <2>1, FS_EmptySet DEF StarsOf
<1> QED BY <1>9, <1>10, <1>11

\* The text of %S, before its stars.
LEMMA TextIs ==
  ASSUME NEW q, NEW d, NEW k, NEW e, Amid(q, d, k, e), Ready(q, d, k, e), d.conv \in {"s", "S"}
  PROVE  /\ IsArg(TextArg)
         /\ d.conv = "s" \/ Star \notin {d.width, d.prec} => TextArg = LastArg(d, k)
<1>1. Conversion(d) /\ Spot(q, d, k, e) /\ Conv = d.conv /\ a = Third(d, k)
  BY DEF Amid, Reading, Ready
<1>2. CASE d.conv = "s"
  <2>1. d.conv \notin {"S", "%"}
    BY <1>2
  <2>2. Arg = LastArg(d, k) /\ IsArg(Arg)
    BY <2>1, ArgIs
  <2> QED BY <1>1, <1>2, <2>2 DEF TextArg
<1>3. CASE d.conv = "S"
  <2>1. Stars = StarsOf(d)
    BY StarCount
  <2>2. /\ First(d, k) = k + 1 /\ StarsOf(d) = Third(d, k) - First(d, k) /\ Third(d, k) \in Nat
        /\ Third(d, k) = k + Takes(d) /\ Third(d, k) <= Len(call.args) /\ First(d, k) <= Third(d, k)
        /\ First(d, k) \in Nat
    <3>1. First(d, k) = k + 1
      BY <1>3 DEF First
    <3>2. Third(d, k) + 0 = k + Takes(d)
      BY <1>1, <1>3, TakenThere
    <3> QED BY <1>1, <3>1, <3>2, TakenThere
  <2>3. k \in Nat /\ Len(call.args) \in Nat
    BY <1>1 DEF Spot
  <2>4. a - Stars = k + 1
    BY <1>1, <2>1, <2>2, <2>3
  <2>5. TextArg = call.args[k + 1]
    BY <1>1, <1>3, <2>4 DEF TextArg
  <2>6. k + 1 \in 1..Len(call.args)
    BY <2>2, <2>3
  <2>7. IsArg(call.args[k + 1])
    BY <1>1, <2>6, ArgThere
  <2>8. Star \notin {d.width, d.prec} => k + Takes(d) = k + 1
    BY <2>2, <2>3 DEF Second, Third
  <2> QED BY <1>3, <2>5, <2>7, <2>8 DEF LastArg
<1> QED BY <1>2, <1>3

\* What one conversion puts is counted.
LEMMA PutsCounted ==
  ASSUME NEW w, w.text \in Seq(Char), Puts(w), out \in Seq(Char)
  PROVE  out' \in Seq(Char) /\ (Sound(w) /\ Returned => Returned')
<1>1. out \o w.text \in Seq(Char) /\ Len(out \o w.text) = Len(out) + Len(w.text)
  BY Joined
<1>2. PICK l, m : l = Len(out) /\ m = Len(w.text) /\ l \in Nat /\ m \in Nat
  BY LenProperties
<1>3. out' = out \o w.text /\ nbr' = AsInt(nbr + w.len) /\ Half' = Half
  BY DEF Puts, Half
<1>4. l + m < Half => l < Half /\ m < Half /\ AsInt(l + m) = l + m
  BY <1>2, HalfIs, AsIntIs
<1>5. ASSUME Sound(w), Returned, l + m < Half PROVE nbr' = l + m
  <2>1. nbr = l /\ w.len = m
    BY <1>2, <1>4, <1>5 DEF Sound, Returned
  <2> QED BY <1>3, <1>4, <1>5, <2>1
<1> QED BY <1>1, <1>2, <1>3, <1>5 DEF Returned

\* The string of a number.
LEMMA OriD == ASSUME NEW slot \in Nat PROVE Numbered(SignedOri(slot))
<1>1. \A b \in {CharMod, ShortMod, IntMod, LongMod} : Signed(slot, b) \in Int
  <2>1. {CharMod, ShortMod, IntMod, LongMod} \subseteq Nat \ {0}
    BY CallsAssumption
  <2>2. ASSUME NEW b \in {CharMod, ShortMod, IntMod, LongMod} PROVE Signed(slot, b) \in Int
    <3>1. b \in Nat \ {0} /\ slot \in Int
      BY <2>1
    <3> QED BY <3>1, SignedInt
  <2> QED BY <2>2
<1>2. \E b \in {CharMod, ShortMod, IntMod, LongMod} : SignedOri(slot) = ft_itoa(Signed(slot, b))
  BY DEF SignedOri
<1> QED BY <1>1, <1>2, ItoaNumbered

\* The argument of an unsigned conversion is a natural number.
LEMMA UnsignedIs ==
  ASSUME NEW slot \in Nat
  PROVE  UnsignedArg(slot) \in Nat /\ UnsignedArg(slot) <= slot /\ UnsignedArg(slot) \in {slot, slot % IntMod}
<1>1. IntMod \in Nat \ {0}
  BY CallsAssumption
<1>2. slot % IntMod \in Nat /\ slot % IntMod <= slot
  BY <1>1
<1> QED BY <1>2 DEF UnsignedArg

\* Its string is one of digits.
LEMMA OriOux ==
  ASSUME NEW slot \in Nat, Conv \in {"u", "U", "o", "O", "x", "X", "b"} PROVE Numbered(UnsignedOri(slot))
<1>1. PICK v : v = UnsignedArg(slot) /\ v \in Nat
  BY UnsignedIs
<1>2. \A digits \in DigitSets : Numbered(Numeral(v, digits))
  BY <1>1, NumeralNumbered
<1>3. Base(10) \in DigitSets /\ Base(8) \in DigitSets /\ Base(2) \in DigitSets /\ Hex \in DigitSets /\ BigHex \in DigitSets
  BY DEF DigitSets
<1>4. Signed(slot, LongMod) \in Int
  BY CallsAssumption, SignedInt
<1>5. CASE Conv = "U"
  <2>1. UnsignedOri(slot) = ft_itoa(Signed(slot, LongMod))
    BY <1>5 DEF UnsignedOri
  <2> QED BY <1>4, <2>1, ItoaNumbered
<1>6. CASE Conv # "U"
  <2>1. \E digits \in DigitSets : UnsignedOri(slot) = Numeral(v, digits)
    BY <1>1, <1>3, <1>6 DEF UnsignedOri
  <2> QED BY <1>2, <2>1
<1> QED BY <1>5, <1>6

\* What a conversion writes.
Writes(w) ==
  \/ con_d /\ w = set_print_d(SignedOri(Arg.slot))
  \/ con_oux /\ w = set_print_oxu_hash(UnsignedOri(Arg.slot), data.flags)
  \/ con_pointer /\ w = con_p(Arg.slot)
  \/ con_s /\ w = set_print_s(IF TextArg.slot = 0 THEN Null ELSE TextArg.text)
  \/ con_c /\ w = set_print_c(Arg.text)
  \/ con_per /\ w = InField(<<"%">>, Fill)

\* set_print_c writes one character as text in a field.
LEMMA OneCharacter == ASSUME NEW x, Len(x) = 1 PROVE set_print_c(x) = InField(x, Fill)
BY DEF set_print_c, InField

\* It writes a wide one as well, with as many blanks or zeros.
LEMMA CharacterText == ASSUME NEW x \in Seq(Char), Field PROVE set_print_c(x).text \in Seq(Char)
<1>1. PICK len, W : len = Max({W, 1}) /\ W = data.width
  OBVIOUS
<1>2. len - 1 \in Nat
  <2>1. W \in Nat
    BY <1>1 DEF Field
  <2>2. PICK T, t : T = {W, 1} /\ t = IF W >= 1 THEN W ELSE 1
    OBVIOUS
  <2>3. t \in T /\ \A u \in T : u \in Int /\ t >= u
    BY <2>1, <2>2
  <2>4. \A u \in T : (\A v \in T : u >= v) <=> u = t
    BY <2>3
  <2>5. (CHOOSE u \in T : \A v \in T : u >= v) = t
    BY <2>3, <2>4
  <2>6. len = t
    BY <1>1, <2>2, <2>5 DEF Max
  <2> QED BY <2>1, <2>2, <2>6
<1>3. Fill \in Char /\ " " \in Char
  BY DEF Fill, Char, Literals
<1>4. PICK y, z : y = Times(len - 1, " ") /\ z = Times(len - 1, Fill)
  OBVIOUS
<1>5. y \in Seq(Char) /\ z \in Seq(Char)
  BY <1>2, <1>3, <1>4, SizedTimes DEF Sized
<1>6. set_print_c(x).text = IF Has("-") THEN x \o y ELSE z \o x
  BY <1>1, <1>4 DEF set_print_c, Written
<1>7. x \o y \in Seq(Char) /\ z \o x \in Seq(Char)
  BY <1>5, Joined
<1> QED BY <1>6, <1>7

\* It is written, and as long as it says: a wide character only if it is one byte.
LEMMA WritesCounted ==
  ASSUME NEW q, NEW d, NEW k, NEW e, Amid(q, d, k, e), Ready(q, d, k, e), NEW w, Writes(w)
  PROVE  Puts(w) /\ w.text \in Seq(Char) /\ (OneByte => Sound(w))
<1>0. Field /\ Conv = d.conv
  BY FieldIs DEF Ready
<1>a. Fill \in Char /\ " " \in Char
  BY DEF Fill, Char, Literals
<1>b. \A x \in Seq(STRING) : x \in Seq(Char)
  <2>1. STRING \subseteq Char
    BY DEF Char
  <2> QED BY <2>1, SeqMonotonic
<1>1. CASE con_d /\ w = set_print_d(SignedOri(Arg.slot))
  <2>1. Arg.slot \in Nat
    BY <1>0, <1>1, ArgIs DEF con_d
  <2>2. Sound(set_print_d(SignedOri(Arg.slot)))
    BY <1>0, <2>1, OriD, SoundD
  <2> QED BY <1>1, <2>2 DEF con_d, Sound
<1>2. CASE con_oux /\ w = set_print_oxu_hash(UnsignedOri(Arg.slot), data.flags)
  <2>1. Arg.slot \in Nat /\ Conv \in {"u", "U", "o", "O", "x", "X", "b"}
    BY <1>0, <1>2, ArgIs DEF con_oux
  <2>2. Sound(set_print_oxu_hash(UnsignedOri(Arg.slot), data.flags))
    BY <1>0, <2>1, OriOux, SoundOux
  <2> QED BY <1>2, <2>2 DEF con_oux, Sound
<1>3. CASE con_pointer /\ w = con_p(Arg.slot)
  <2>1. Arg.slot \in Nat
    BY <1>0, <1>3, ArgIs DEF con_pointer
  <2>2. PICK n : n = Arg.slot
    OBVIOUS
  <2>3. CASE n = 0
    <3>1. PICK x : x = <<"0", "x", "0">>
      OBVIOUS
    <3>2. "0" \in Char /\ "x" \in Char
      BY DEF Char, Literals
    <3>3. x \in Seq(Char) /\ Len(x) = 3
      BY <3>1, <3>2
    <3>4. Sound(InField(x, " "))
      BY <1>0, <1>a, <3>3, SoundField DEF Sized
    <3>5. con_p(n) = InField(x, " ")
      BY <2>3, <3>1 DEF con_p
    <3> QED BY <1>3, <2>2, <3>4, <3>5 DEF con_pointer, Sound
  <2>4. CASE n # 0
    <3>1. con_p(n) = set_print_oxu_hash(Numeral(n, Hex), data.flags \cup {"#"})
      BY <2>4 DEF con_p
    <3>2. Hex \in DigitSets
      BY DEF DigitSets
    <3>3. Numbered(Numeral(n, Hex))
      BY <2>1, <2>2, <3>2, NumeralNumbered
    <3>4. Sound(con_p(n))
      BY <1>0, <3>1, <3>3, SoundOux
    <3> QED BY <1>3, <2>2, <3>4 DEF con_pointer, Sound
  <2> QED BY <2>3, <2>4
<1>4. CASE con_s /\ w = set_print_s(IF TextArg.slot = 0 THEN Null ELSE TextArg.text)
  <2>1. d.conv \in {"s", "S"}
    BY <1>0, <1>4 DEF con_s
  <2>2. TextArg.text \in Seq(Char)
    BY <1>b, <2>1, TextIs DEF IsArg
  <2>3. Null \in Seq(Char)
    <3>1. "(" \in Char /\ "n" \in Char /\ "u" \in Char /\ "l" \in Char /\ ")" \in Char
      BY DEF Char, Literals
    <3>2. <<"(", "n", "u", "l", "l", ")">> \in Seq(Char)
      BY <3>1
    <3>3. <<>> \in Seq(Char)
      BY EmptySeq
    <3> QED BY <3>2, <3>3 DEF Null
  <2>4. PICK x : x = IF TextArg.slot = 0 THEN Null ELSE TextArg.text
    OBVIOUS
  <2>5. x \in Seq(Char) /\ Puts(w) /\ w = set_print_s(x)
    BY <1>4, <2>2, <2>3, <2>4 DEF con_s
  <2> QED BY <1>0, <2>5, SoundS DEF Sound
<1>5. CASE con_c /\ w = set_print_c(Arg.text)
  <2>1. Arg.text \in Seq(STRING) /\ Arg = LastArg(d, k) /\ d.conv \in {"c", "C"}
    BY <1>0, <1>5, ArgIs DEF con_c, IsArg
  <2>2. PICK x : x = Arg.text /\ x \in Seq(Char)
    BY <1>b, <2>1
  <2>3. w = set_print_c(x) /\ Puts(w) /\ w.text \in Seq(Char)
    BY <1>0, <1>5, <2>2, CharacterText DEF con_c
  <2>4. ASSUME OneByte PROVE Sound(w)
    <3>1. q \in 1..Len(call.spec) /\ d = call.spec[q] /\ k = Before(q) /\ "conv" \in DOMAIN d
      BY DEF Amid, Reading, Conversion
    <3>2. Len(x) = 1
      BY <2>1, <2>2, <2>4, <3>1 DEF OneByte, IsChar
    <3>3. Sized(x, 1)
      BY <2>2, <3>2 DEF Sized
    <3>4. Sound(InField(x, Fill))
      BY <1>0, <1>a, <3>3, SoundField
    <3> QED BY <2>3, <3>2, <3>4, OneCharacter
  <2> QED BY <2>3, <2>4
<1>6. CASE con_per /\ w = InField(<<"%">>, Fill)
  <2>1. "%" \in Char
    BY DEF Char, Literals
  <2>2. Sized(<<"%">>, 1)
    BY <2>1, SizedOne
  <2>3. Sound(InField(<<"%">>, Fill))
    BY <1>0, <1>a, <2>2, SoundField
  <2> QED BY <1>6, <2>3 DEF con_per, Sound
<1> QED BY <1>1, <1>2, <1>3, <1>4, <1>5, <1>6 DEF Writes

\* So does every conversion.
LEMMA ConvCounted ==
  ASSUME NEW q, NEW d, NEW k, NEW e, Amid(q, d, k, e), Ready(q, d, k, e),
         con_d \/ con_oux \/ con_pointer \/ con_s \/ con_c \/ con_per
  PROVE  \E w : Writes(w) /\ Puts(w) /\ w.text \in Seq(Char) /\ (OneByte => Sound(w))
<1>1. \E w : Writes(w)
  BY DEF Writes
<1> QED BY <1>1, WritesCounted

\* Every conversion takes the arguments of its directive, and the rest of the format is
\* what is behind it.
LEMMA ConvGoes ==
  ASSUME IInv, NEW q, NEW d, NEW k, NEW e, Amid(q, d, k, e), Ready(q, d, k, e),
         con_d \/ con_oux \/ con_pointer \/ con_s \/ con_c \/ con_per
  PROVE  /\ i' = Lasts(call)[q] + 1 /\ a' = Taken(call.spec)[q] /\ call' = call /\ format' = format
         /\ pc' = "text"
<1>1. /\ Conversion(d) /\ ~IsOpen(d) /\ Spot(q, d, k, e) /\ stop = e + ConvAt(d) /\ Conv = d.conv
      /\ a = Third(d, k) /\ Lasts(call)[q] = e + ConvAt(d)
  BY DEF Amid, Reading, Ready
<1>2. i' = stop + 1 /\ call' = call /\ format' = format /\ pc' = "text"
  BY DEF con_d, con_oux, con_pointer, con_s, con_c, con_per, Goes
<1>3. CASE d.conv \notin {"S", "%"}
  <2>1. a' = a + 1
    BY <1>1, <1>3 DEF con_d, con_oux, con_pointer, con_s, con_c, con_per
  <2>2. a + 1 = Taken(call.spec)[q]
    BY <1>3, ArgIs
  <2> QED BY <1>1, <1>2, <2>1, <2>2
<1>4. CASE d.conv \in {"S", "%"}
  <2>1. a' = a
    BY <1>1, <1>4 DEF con_d, con_oux, con_pointer, con_s, con_c, con_per
  <2>2. Third(d, k) + 0 = k + Takes(d) /\ Third(d, k) \in Nat
    BY <1>1, <1>4, TakenThere
  <2>3. Taken(call.spec)[q] = k + Takes(d)
    BY <1>1 DEF Spot
  <2> QED BY <1>1, <1>2, <2>1, <2>2, <2>3
<1> QED BY <1>3, <1>4

\* The ways out of a conversion.
LEMMA ConvBreaks ==
  ASSUME NEW q, NEW d, NEW k, NEW e, Amid(q, d, k, e), Ready(q, d, k, e), con_overflow \/ con_s_endless
  PROVE  Escapes(d, k)
<1>1. Conv = d.conv
  BY DEF Ready
<1>2. CASE con_s_endless
  <2>1. d.conv \in {"s", "S"} /\ ~TextArg.zero
    BY <1>1, <1>2 DEF con_s_endless
  <2>2. d.conv = "s" \/ Star \notin {d.width, d.prec} => TextArg = LastArg(d, k)
    BY <2>1, TextIs
  <2> QED BY <2>1, <2>2 DEF Escapes, Open
<1>3. CASE con_overflow
  <2>1. d.conv \in {"o", "O", "b"} /\ Overflows(Arg.slot)
    BY <1>1, <1>3 DEF con_overflow
  <2>2. Arg = LastArg(d, k) /\ Arg.slot \in Nat
    BY <2>1, ArgIs
  <2>3. PICK s, v : s = Arg.slot /\ v = UnsignedArg(s)
    OBVIOUS
  <2>4. v \in Nat /\ v <= s /\ v \in {s, s % IntMod} /\ s \in Nat
    BY <2>2, <2>3, UnsignedIs
  <2>5. PICK m : m = Len(Numeral(v, Base(10)))
    OBVIOUS
  <2>6. m \in Nat /\ m >= 1 /\ (v = 0 => m = 1)
    <3>1. Base(10) \in DigitSets
      BY DEF DigitSets
    <3> QED BY <2>4, <2>5, <3>1, NumeralNumbered DEF Numbered
  <2>7. CASE d.conv = "b"
    <3>1. Len(Numeral(v, Base(2))) > m
      BY <1>1, <2>1, <2>3, <2>5, <2>7 DEF Overflows, UnsignedOri, nb_dg_inbase
    <3>2. ASSUME v < 2 PROVE Len(Numeral(v, Base(2))) = 1
      <4>1. Base(2) \in DigitSets /\ Len(Base(2)) = 2
        BY BaseIs DEF DigitSets
      <4>2. PICK f : Numeral(v, Base(2)) = f[v] /\ \A j \in 0..v : NumeralOf(f, j, Base(2))
        BY <2>4, <4>1, NumeralIs
      <4>3. v \in 0..v /\ v < Len(Base(2))
        BY <2>4, <3>2, <4>1
      <4>4. NumeralOf(f, v, Base(2))
        BY <4>2, <4>3
      <4> QED BY <2>4, <4>1, <4>2, <4>3, <4>4, NumeralDigit
    <3>3. ~(v < 2)
      <4>1. ~(1 > m)
        BY <2>6
      <4>2. ASSUME v < 2 PROVE FALSE
        <5>1. Len(Numeral(v, Base(2))) = 1
          BY <3>2, <4>2
        <5> QED BY <3>1, <4>1, <5>1
      <4> QED BY <4>2
    <3>4. s > 1
      BY <2>4, <3>3
    <3> QED BY <2>2, <2>3, <2>7, <3>4 DEF Escapes, Open
  <2>8. CASE d.conv \in {"o", "O"}
    <3>1. PICK l : l = Len(Numeral(v, Base(8)))
      OBVIOUS
    <3>2. l > m
      BY <1>1, <2>1, <2>3, <2>5, <2>8, <3>1 DEF Overflows, UnsignedOri, nb_dg_inbase
    <3>3. l \in Nat /\ (v = 0 => l = 1)
      <4>1. Base(8) \in DigitSets
        BY DEF DigitSets
      <4> QED BY <2>4, <3>1, <4>1, NumeralNumbered DEF Numbered
    <3>4. v # 0
      BY <2>6, <3>2, <3>3
    <3>5. v < Power(10, m)
      BY <2>4, <2>5, TenBound
    <3>6. Power(8, l - 1) <= v
      BY <2>4, <3>1, <3>4, EightBound
    <3>7. Power(8, m) <= Power(8, l - 1) /\ Power(8, m) \in Nat /\ Power(8, l - 1) \in Nat
      <4>1. PICK r : r = l - 1 /\ r \in Nat /\ m \in 0..r
        BY <2>6, <3>2, <3>3
      <4>2. Power(8, m) <= Power(8, r)
        BY <4>1, PowerGrows
      <4>3. Power(8, m) \in Nat /\ Power(8, r) \in Nat
        BY <2>6, <4>1, PowerStep
      <4> QED BY <4>1, <4>2, <4>3
    <3>8. Power(8, m) <= v /\ m \in 1..l
      BY <2>4, <2>6, <3>2, <3>3, <3>6, <3>7
    <3>9. \E w \in {LastArg(d, k).slot, LastArg(d, k).slot % IntMod} :
             \E h \in 1..Len(Numeral(w, Base(8))) : Power(8, h) <= w /\ w < Power(10, h)
      <4>1. v \in {LastArg(d, k).slot, LastArg(d, k).slot % IntMod}
        BY <2>2, <2>3, <2>4
      <4>2. \E h \in 1..Len(Numeral(v, Base(8))) : Power(8, h) <= v /\ v < Power(10, h)
        BY <3>1, <3>5, <3>8
      <4> QED BY <4>1, <4>2
    <3> QED BY <2>8, <3>9 DEF Escapes, Open
  <2> QED BY <2>1, <2>7, <2>8
<1> QED BY <1>2, <1>3

-----------------------------------------------------------------------------
(***************************************************************************)
(* The theorems on the way through the format and on the lengths.          *)
(***************************************************************************)

\* ft_printf begins before the first directive.
LEMMA InitHolds == Init => IInv
<1> SUFFICES ASSUME Init PROVE IInv
  OBVIOUS
<1>1. /\ call \in Calls /\ i = 1 /\ a = 0 /\ pc = "text" /\ out = <<>> /\ nbr = 0
      /\ format = FlattenSeq([q \in 1..Len(call.spec) |-> Characters(call.spec[q])])
  BY DEF Init
<1>2. Known(call)
  BY <1>1, CallKnown
<1>3. out \in Seq(Char) /\ Counted
  BY <1>1, EmptySeq DEF Counted
<1>4. InFormat
  <2>1. 0 \in 0..Len(call.spec) /\ Lasts(call)[0] = 0 /\ Taken(call.spec)[0] = 0
    BY <1>2 DEF Known
  <2> QED BY <1>1, <2>1 DEF InFormat
<1>5. Inside
  <2>1. a <= Len(call.args)
    BY <1>1, <1>2 DEF Known
  <2> QED BY <1>1, <2>1 DEF Inside
<1> QED BY <1>1, <1>3, <1>4, <1>5 DEF IInv

\* While a directive is read, the arguments taken are some of its own.
LEMMA FewTaken ==
  ASSUME NEW q, NEW d, NEW k, NEW e, NEW n, Spot(q, d, k, e), Conversion(d), Come(d, n, k, e)'
  PROVE  a' <= Len(call.args)
<1>1. a' \in {First(d, k), Second(d, k), Third(d, k)}
  BY DEF Come, AtFlags, AtPoint, AtLength
<1>2. Len(call.args) \in Nat
  BY DEF Spot
<1>3. /\ First(d, k) \in Nat /\ Second(d, k) \in Nat /\ Third(d, k) \in Nat
      /\ First(d, k) <= Second(d, k) /\ Second(d, k) <= Third(d, k) /\ Third(d, k) <= Len(call.args)
  BY TakenThere
<1> QED BY <1>1, <1>2, <1>3

\* The ways out are those of the call.
LEMMA EscapesStay == ASSUME NEW d, NEW k, call' = call PROVE Escapes(d, k)' = Escapes(d, k)
<1>1. LastArg(d, k)' = LastArg(d, k)
  BY DEF LastArg
<1>2. LeastWidth(d, k)' = LeastWidth(d, k)
  BY DEF LeastWidth, LeastInt, WidthOf, Value
<1> QED BY <1>1, <1>2 DEF Escapes

\* Every step keeps the invariant.
LEMMA NextHolds == IInv /\ [Next]_vars => IInv'
<1> SUFFICES ASSUME IInv, [Next]_vars PROVE IInv'
  OBVIOUS
<1>1. /\ call \in Calls /\ out \in Seq(Char) /\ Counted /\ Inside
      /\ format = FlattenSeq([q \in 1..Len(call.spec) |-> Characters(call.spec[q])])
  BY DEF IInv
<1>2. Known(call)
  BY <1>1, CallKnown
<1>a. ASSUME call' = call PROVE OneByte' = OneByte
  BY <1>a DEF OneByte, Before, LastArg
<1>b. Counted <=> (OneByte => Returned)
  BY DEF Counted, Returned, Half
<1>c. Counted' <=> (OneByte' => Returned')
  BY DEF Counted, Returned, Half
<1>d. ASSUME call' = call, out' = out, nbr' = nbr PROVE Counted'
  <2>1. Returned' = Returned
    BY <1>d DEF Returned, Half
  <2> QED BY <1>1, <1>a, <1>b, <1>c, <1>d, <2>1
<1>3. ASSUME call' = call, format' = format, out' \in Seq(Char), OneByte /\ Returned => Returned', InFormat', pc' = "text"
      PROVE  IInv'
  <2>1. a' <= Len(call.args)
    <3>1. PICK q \in 0..Len(call.spec) : a' = Taken(call.spec)[q]
      BY <1>3 DEF InFormat
    <3> QED BY <1>2, <3>1 DEF Known
  <2>2. Inside'
    BY <1>3, <2>1 DEF Inside
  <2>3. Counted'
    BY <1>1, <1>3, <1>a, <1>b, <1>c
  <2> QED BY <1>1, <1>3, <2>2, <2>3 DEF IInv
<1>4. ASSUME call' = call, format' = format, out' = out, nbr' = nbr, pc' = "flags",
             NEW q, NEW d, NEW k, NEW e, NEW n, Spot(q, d, k, e), Conversion(d),
             Reading(q, d, k, e)', Come(d, n, k, e)'
      PROVE  IInv'
  <2>1. a' <= Len(call.args)
    BY <1>4, FewTaken
  <2>2. Inside'
    BY <1>4, <2>1 DEF Inside
  <2>3. InDirective'
    BY <1>4 DEF InDirective
  <2>4. Counted'
    BY <1>4, <1>d
  <2> QED BY <1>1, <1>4, <2>2, <2>3, <2>4 DEF IInv
<1>5. ASSUME call' = call, format' = format, out' = out, nbr' = nbr, a' = a, pc' = "beyond",
             \E q \in 1..Len(call.spec) : "conv" \in DOMAIN call.spec[q] /\ Escapes(call.spec[q], Before(q))
      PROVE  IInv'
  <2>1. \A q : Before(q)' = Before(q)
    BY <1>5 DEF Before
  <2>2. ASSUME NEW d, NEW k PROVE Escapes(d, k)' = Escapes(d, k)
    BY <1>5, EscapesStay
  <2>3. Inside'
    BY <1>1, <1>5, <2>1, <2>2 DEF Inside
  <2>4. Counted'
    BY <1>5, <1>d
  <2> QED BY <1>1, <1>5, <2>3, <2>4 DEF IInv
<1>6. CASE Copy
  <2>1. InFormat' /\ out' \in Seq(Char) /\ (Returned => Returned')
    BY <1>6, CopyStep
  <2> QED BY <1>3, <1>6, <2>1 DEF Copy
<1>7. CASE Percent
  <2>1. PICK q, d, k, e : Spot(q, d, k, e) /\ Conversion(d) /\ Reading(q, d, k, e)' /\ Come(d, 2, k, e)'
    BY <1>7, PercentStep
  <2> QED BY <1>4, <1>7, <2>1 DEF Percent
<1>8. CASE PastFormat
  <2>1. \E q \in 1..Len(call.spec) : "conv" \in DOMAIN call.spec[q] /\ Escapes(call.spec[q], Before(q))
    BY <1>8, PastStep
  <2> QED BY <1>5, <1>8, <2>1 DEF PastFormat
<1>9. CASE Width \/ flags_star \/ Precision \/ Flag
  <2>1. /\ pc = "flags" /\ pc' = pc /\ call' = call /\ format' = format /\ out' = out /\ nbr' = nbr
        /\ i' = i /\ stop' = stop
    BY <1>9 DEF Width, flags_star, Precision, Flag, InFlags
  <2>2. PICK q, d, k, e, o : Reading(q, d, k, e) /\ Come(d, o, k, e)
    BY <2>1 DEF IInv, InDirective
  <2>3. Amid(q, d, k, e)
    BY <2>2, AmidIs
  <2>4. PICK n : Come(d, n, k, e)'
    BY <1>9, <2>2, <2>3, ReadStep
  <2>5. Reading(q, d, k, e)'
    BY <2>1, <2>2 DEF Reading, Before
  <2>6. Spot(q, d, k, e) /\ Conversion(d)
    BY <2>3 DEF Amid, Reading
  <2> QED BY <1>4, <2>1, <2>4, <2>5, <2>6
<1>10. CASE con_d \/ con_oux \/ con_pointer \/ con_s \/ con_c \/ con_per
  <2>1. Converts
    BY <1>10 DEF con_d, con_oux, con_pointer, con_s, con_c, con_per
  <2>2. PICK q, d, k, e, o : Reading(q, d, k, e) /\ Come(d, o, k, e)
    BY <2>1 DEF IInv, InDirective, Converts
  <2>3. Amid(q, d, k, e)
    BY <2>2, AmidIs
  <2>4. Ready(q, d, k, e)
    BY <2>1, <2>2, <2>3, Complete
  <2>5. PICK w : Puts(w) /\ w.text \in Seq(Char) /\ (OneByte => Sound(w))
    BY <1>10, <2>3, <2>4, ConvCounted
  <2>6. out' \in Seq(Char) /\ (OneByte /\ Returned => Returned')
    BY <1>1, <2>5, PutsCounted
  <2>7. /\ i' = Lasts(call)[q] + 1 /\ a' = Taken(call.spec)[q] /\ call' = call /\ format' = format
        /\ pc' = "text"
    BY <1>10, <2>3, <2>4, ConvGoes
  <2>8. q \in 0..Len(call.spec)
    <3>1. q \in 1..Len(call.spec)
      BY <2>2 DEF Reading
    <3> QED BY <3>1
  <2>9. InFormat'
    BY <2>7, <2>8 DEF InFormat
  <2> QED BY <1>3, <2>6, <2>7, <2>9
<1>11. CASE con_overflow \/ con_s_endless
  <2>1. /\ Converts /\ call' = call /\ format' = format /\ out' = out /\ nbr' = nbr /\ a' = a /\ pc' = "beyond"
    BY <1>11 DEF con_overflow, con_s_endless, Breaks
  <2>2. PICK q, d, k, e, o : Reading(q, d, k, e) /\ Come(d, o, k, e)
    BY <2>1 DEF IInv, InDirective, Converts
  <2>3. Amid(q, d, k, e)
    BY <2>2, AmidIs
  <2>4. Ready(q, d, k, e)
    BY <2>1, <2>2, <2>3, Complete
  <2>5. Escapes(d, k)
    BY <1>11, <2>3, <2>4, ConvBreaks
  <2>6. q \in 1..Len(call.spec) /\ d = call.spec[q] /\ k = Before(q) /\ "conv" \in DOMAIN d
    BY <2>2 DEF Reading, Conversion
  <2> QED BY <1>5, <2>1, <2>5, <2>6
<1>14. CASE star_overflow
  <2>1. /\ InFlags /\ call' = call /\ format' = format /\ out' = out /\ nbr' = nbr /\ a' = a /\ pc' = "beyond"
    BY <1>14 DEF star_overflow
  <2>2. PICK q, d, k, e, o : Reading(q, d, k, e) /\ Come(d, o, k, e)
    BY <2>1 DEF IInv, InDirective, InFlags
  <2>3. Amid(q, d, k, e)
    BY <2>2, AmidIs
  <2>4. Escapes(d, k)
    BY <1>14, <2>2, <2>3, StarBreaks
  <2>5. q \in 1..Len(call.spec) /\ d = call.spec[q] /\ k = Before(q) /\ "conv" \in DOMAIN d
    BY <2>2 DEF Reading, Conversion
  <2> QED BY <1>5, <2>1, <2>4, <2>5
<1>12. CASE Return
  <2>1. a = Len(call.args)
    BY <1>12, ReturnStep
  <2>2. /\ call' = call /\ format' = format /\ out' = out /\ nbr' = nbr /\ a' = a /\ pc' = "done"
    BY <1>12 DEF Return
  <2>3. Inside'
    BY <1>1, <2>1, <2>2 DEF Inside
  <2>4. Counted'
    BY <1>d, <2>2
  <2> QED BY <1>1, <2>2, <2>3, <2>4 DEF IInv
<1>13. CASE Finished \/ UNCHANGED vars
  <2>1. /\ call' = call /\ format' = format /\ i' = i /\ stop' = stop /\ p' = p /\ data' = data /\ a' = a
        /\ pc' = pc /\ out' = out /\ nbr' = nbr
    BY <1>13 DEF Finished, vars
  <2>2. InFormat => InFormat'
    BY <2>1 DEF InFormat
  <2>3. InDirective => InDirective'
    <3>1. ASSUME NEW q, NEW d, NEW k, NEW e, NEW o, Reading(q, d, k, e), Come(d, o, k, e)
          PROVE  Reading(q, d, k, e)' /\ Come(d, o, k, e)'
      <4>1. Reading(q, d, k, e)'
        BY <2>1, <3>1 DEF Reading, Before
      <4>2. WidthOf(d, First(d, k))' = WidthOf(d, First(d, k)) /\ PrecisionOf(d, First(d, k))' = PrecisionOf(d, First(d, k))
        BY <2>1 DEF WidthOf, PrecisionOf, Value
      <4>3. Come(d, o, k, e)'
        BY <2>1, <3>1, <4>2 DEF Come, AtFlags, AtPoint, AtLength
      <4> QED BY <4>1, <4>3
    <3> QED BY <3>1 DEF InDirective
  <2>4. Inside'
    <3>1. \A q : Before(q)' = Before(q)
      BY <2>1 DEF Before
    <3>2. ASSUME NEW d, NEW k PROVE Escapes(d, k)' = Escapes(d, k)
      BY <2>1, EscapesStay
    <3> QED BY <1>1, <2>1, <3>1, <3>2 DEF Inside
  <2>5. (pc = "text" => InFormat) /\ (pc = "flags" => InDirective) /\ pc \in {"text", "flags", "done", "beyond"}
    BY DEF IInv
  <2>6. Counted'
    BY <1>d, <2>1
  <2> QED BY <1>1, <2>1, <2>2, <2>3, <2>4, <2>5, <2>6 DEF IInv
<1> QED BY <1>6, <1>7, <1>8, <1>9, <1>10, <1>11, <1>12, <1>13, <1>14 DEF Next

\* ft_printf is always between two directives of its format or at a known place in one,
\* with the flags, width, precision and arguments that belong to the place, whatever
\* directives a call has.
THEOREM IInvHolds == Spec => []IInv
BY InitHolds, NextHolds, PTL DEF Spec

\* For any call: set_flags and the conversions take the arguments there are and no more, and
\* leave the format, a text, ft_convert_base's buffer or the ints a width can be in the five
\* named ways only.
THEOREM SpecInside == Spec => []Inside
<1>1. IInv => Inside
  BY DEF IInv
<1> QED BY <1>1, IInvHolds, PTL

\* For any call in which wide characters are one byte, what ft_printf returns is the number of
\* characters it wrote, as long as that is an int: what set_d_len and for_setoux add up, in
\* ints that wrap, is what the calls of ft_putnchar come to.
THEOREM SpecCounted == Spec => []Counted
<1>1. IInv => Counted
  BY DEF IInv
<1> QED BY <1>1, IInvHolds, PTL

-----------------------------------------------------------------------------
(***************************************************************************)
(* What a conversion writes, and what C says of it.  A text is in its field*)
(* as C pads it (FieldText, TextD, TextOux, TextZero), its digits are those*)
(* of the number in the type of the directive (CastIs, UnsignedC).         *)
(***************************************************************************)

-----------------------------------------------------------------------------
(***************************************************************************)
(* What C says of a conversion is what is put together for it.             *)
(***************************************************************************)

\* Two texts of one length with the same characters are the same.
LEMMA SameText ==
  ASSUME NEW x \in Seq(Char), NEW y \in Seq(Char), NEW n \in Nat, Len(x) = n, Len(y) = n,
         \A j \in 1..n : x[j] = y[j]
  PROVE  x = y
BY SeqEqual

\* ft_putnchar writes nothing for a number below 1.
LEMMA TimesNone == ASSUME NEW n \in Int, n <= 0, NEW c PROVE Times(n, c) = <<>>
<1>1. Times(n, c) = [j \in 1..0 |-> c]
  BY DEF Times
<1>2. [j \in 1..0 |-> c] = <<>>
  OBVIOUS
<1> QED BY <1>1, <1>2

\* A character before or behind as many of it makes one more.
LEMMA TimesMore ==
  ASSUME NEW n \in Nat, NEW c \in Char
  PROVE  Times(n, c) \o <<c>> = Times(n + 1, c) /\ <<c>> \o Times(n, c) = Times(n + 1, c)
<1>1. PICK x, y, z : x = Times(n, c) /\ y = <<c>> /\ z = Times(n + 1, c)
  OBVIOUS
<1>2. n + 1 \in Nat
  OBVIOUS
<1>3. Sized(x, n) /\ Sized(y, 1) /\ Sized(z, n + 1)
  BY <1>1, <1>2, SizedTimes, SizedOne
<1>4. (\A j \in 1..n : x[j] = c) /\ y[1] = c /\ (\A j \in 1..(n + 1) : z[j] = c)
  BY <1>1 DEF Times
<1>a. x \in Seq(Char) /\ y \in Seq(Char) /\ z \in Seq(Char) /\ Len(x) = n /\ Len(y) = 1 /\ Len(z) = n + 1
  BY <1>3 DEF Sized
<1>5. /\ x \o y \in Seq(Char) /\ Len(x \o y) = n + 1
      /\ \A j \in 1..(n + 1) : (x \o y)[j] = IF j <= n THEN x[j] ELSE y[j - n]
  <2>1. /\ x \o y \in Seq(Char) /\ Len(x \o y) = Len(x) + Len(y)
        /\ \A j \in 1..(Len(x) + Len(y)) : (x \o y)[j] = IF j <= Len(x) THEN x[j] ELSE y[j - Len(x)]
    BY <1>a, ConcatProperties
  <2> QED BY <1>a, <2>1
<1>6. /\ y \o x \in Seq(Char) /\ Len(y \o x) = 1 + n
      /\ \A j \in 1..(1 + n) : (y \o x)[j] = IF j <= 1 THEN y[j] ELSE x[j - 1]
  <2>1. /\ y \o x \in Seq(Char) /\ Len(y \o x) = Len(y) + Len(x)
        /\ \A j \in 1..(Len(y) + Len(x)) : (y \o x)[j] = IF j <= Len(y) THEN y[j] ELSE x[j - Len(y)]
    BY <1>a, ConcatProperties
  <2> QED BY <1>a, <2>1
<1>7. ASSUME NEW j \in 1..(n + 1) PROVE (x \o y)[j] = z[j] /\ (y \o x)[j] = z[j]
  <2>1. IF j <= n THEN j \in 1..n ELSE j - n = 1
    OBVIOUS
  <2>2. IF j <= 1 THEN j = 1 ELSE j - 1 \in 1..n
    OBVIOUS
  <2>3. j \in 1..(1 + n)
    OBVIOUS
  <2>4. (x \o y)[j] = c
    <3>1. (x \o y)[j] = IF j <= n THEN x[j] ELSE y[j - n]
      BY <1>5
    <3> QED BY <1>4, <2>1, <3>1
  <2>5. (y \o x)[j] = c
    <3>1. (y \o x)[j] = IF j <= 1 THEN y[j] ELSE x[j - 1]
      BY <1>6, <2>3
    <3> QED BY <1>4, <2>2, <3>1
  <2> QED BY <1>4, <2>4, <2>5
<1>8. x \o y = z
  BY <1>2, <1>a, <1>5, <1>7, SameText
<1>9. y \o x = z
  <2>1. Len(y \o x) = n + 1
    BY <1>6
  <2> QED BY <1>2, <1>a, <1>6, <1>7, <2>1, SameText
<1> QED BY <1>1, <1>8, <1>9

\* It writes the same for two numbers that are equal or both below 1.
Same(m, n) == m \in Int /\ n \in Int /\ (m = n \/ (m <= 0 /\ n <= 0))

\* So it does not matter which of the two numbers the code has.
LEMMA TimesSame == ASSUME NEW m, NEW n, Same(m, n), NEW c PROVE Times(m, c) = Times(n, c)
<1>1. m <= 0 /\ n <= 0 => Times(m, c) = <<>> /\ Times(n, c) = <<>>
  BY TimesNone DEF Same
<1> QED BY <1>1 DEF Same

\* Nothing before or behind a text.
LEMMA NoneJoined == ASSUME NEW x \in Seq(Char) PROVE x \o <<>> = x /\ <<>> \o x = x
BY ConcatEmptySeq

\* What set_flags has come to: the width W and the precision P of directive d.
Given(d, W, P) ==
  /\ data = [flags |-> d.flags, width |-> W, precision |-> P]
  /\ W \in Nat /\ P \in Int /\ P >= -1

\* A text in a field of blanks.
LEMMA FieldText ==
  ASSUME NEW d, NEW W, NEW P, Given(d, W, P), NEW x, x \in Seq(Char)
  PROVE  InField(x, " ").text = Padded(d, W, <<>>, x, FALSE)
<1>0. W \in Nat /\ data.width = W /\ (Has("-") <=> "-" \in d.flags)
  BY DEF Given, Has
<1>1. PICK l : l = Len(x)
  OBVIOUS
<1>2. l \in Nat
  BY <1>1, LenProperties
<1>3. PICK n : n = Max({W, l}) - l
  OBVIOUS
<1>4. Same(n, W - 0 - l)
  <2>1. Max({W, l}) = IF W >= l THEN W ELSE l
    BY <1>0, <1>2 DEF Max
  <2> QED BY <1>0, <1>2, <1>3, <2>1 DEF Same
<1>5. PICK t, z : t = Times(n, " ") /\ z = Times(W - 0 - l, " ")
  OBVIOUS
<1>6. t = z
  BY <1>4, <1>5, TimesSame
<1>7. InField(x, " ").text = IF Has("-") THEN x \o t ELSE t \o x
  BY <1>0, <1>1, <1>3, <1>5 DEF InField, Written
<1>8. Len(<<>>) = 0 /\ <<>> \o x = x
  BY NoneJoined
<1>9. Padded(d, W, <<>>, x, FALSE) = IF "-" \in d.flags THEN <<>> \o x \o z ELSE z \o <<>> \o x
  <2>1. ~(W < 0) /\ W - Len(<<>>) - Len(x) = W - 0 - l
    BY <1>0, <1>1, <1>8
  <2> QED BY <1>5, <2>1 DEF Padded
<1>10. z \in Seq(Char)
  <2>1. " " \in Char
    BY DEF Char, Literals
  <2>2. n \in Nat
    <3>1. Max({W, l}) = IF W >= l THEN W ELSE l
      BY <1>0, <1>2 DEF Max
    <3> QED BY <1>0, <1>2, <1>3, <3>1
  <2> QED BY <1>5, <1>6, <2>1, <2>2, SizedTimes DEF Sized
<1>11. z \o <<>> = z
  BY <1>10, NoneJoined
<1> QED BY <1>0, <1>6, <1>7, <1>8, <1>9, <1>11

\* ft_itoa gives a sign and the digits of the size of the number.
LEMMA ItoaParts ==
  ASSUME NEW v \in Int
  PROVE  /\ v < 0 => ft_itoa(v)[1] = "-" /\ Tail(ft_itoa(v)) = Numeral(-v, Base(10))
         /\ v >= 0 => /\ ft_itoa(v) = Numeral(v, Base(10)) /\ ft_itoa(v)[1] # "-"
                      /\ (ft_itoa(v)[1] = "0" <=> v = 0)
<1>1. Base(10) \in DigitSets
  BY DEF DigitSets
<1>2. CASE v >= 0
  <2>1. v \in Nat /\ ft_itoa(v) = Numeral(v, Base(10))
    BY <1>2 DEF ft_itoa
  <2>2. Numeral(v, Base(10))[1] # "-" /\ (Numeral(v, Base(10))[1] = "0" <=> v = 0)
    BY <1>1, <2>1, NumeralNumbered
  <2> QED BY <1>2, <2>1, <2>2
<1>3. CASE v < 0
  <2>1. PICK m : m = -v /\ m \in Nat
    BY <1>3
  <2>2. PICK x, y, z : x = Numeral(m, Base(10)) /\ y = <<"-">> /\ z = y \o x
    OBVIOUS
  <2>3. ft_itoa(v) = z
    BY <1>3, <2>1, <2>2 DEF ft_itoa
  <2>4. x \in Seq(Char) /\ Len(x) \in Nat
    BY <1>1, <2>1, <2>2, NumeralNumbered DEF Numbered
  <2>5. PICK n : n = Len(x)
    OBVIOUS
  <2>6. y \in Seq(Char) /\ Len(y) = 1 /\ y[1] = "-"
    <3>1. "-" \in Char
      BY DEF Char, Literals
    <3> QED BY <2>2, <3>1
  <2>7. z \in Seq(Char) /\ Len(z) = 1 + n /\ z[1] = "-" /\ \A k \in 1..n : z[1 + k] = x[k]
    <3>1. /\ y \o x \in Seq(Char) /\ Len(y \o x) = Len(y) + Len(x)
          /\ \A k \in 1..Len(y) : (y \o x)[k] = y[k]
          /\ \A k \in 1..Len(x) : (y \o x)[Len(y) + k] = x[k]
      BY <2>4, <2>6, Joined
    <3>2. 1 \in 1..Len(y)
      BY <2>6
    <3> QED BY <2>2, <2>5, <2>6, <3>1, <3>2
  <2>8. PICK t : t = Tail(z)
    OBVIOUS
  <2>9. t \in Seq(Char) /\ Len(t) = n /\ \A k \in 1..n : t[k] = z[k + 1]
    <3>1. z # <<>>
      BY <2>4, <2>5, <2>7, EmptySeq
    <3>2. /\ Tail(z) \in Seq(Char) /\ Len(Tail(z)) = Len(z) - 1
          /\ \A k \in 1..Len(Tail(z)) : Tail(z)[k] = z[k + 1]
      BY <2>7, <3>1, HeadTailProperties
    <3>3. (1 + n) - 1 = n
      BY <2>4, <2>5
    <3> QED BY <2>7, <2>8, <3>2, <3>3
  <2>10. \A k \in 1..n : t[k] = x[k]
    <3>1. \A k \in 1..n : k + 1 = 1 + k
      BY <2>4, <2>5
    <3> QED BY <2>7, <2>9, <3>1
  <2>11. t = x
    BY <2>4, <2>5, <2>9, <2>10, SameText
  <2> QED BY <1>3, <2>1, <2>2, <2>3, <2>7, <2>8, <2>11
<1> QED BY <1>2, <1>3

\* plus_blank gives what C has before the digits.
LEMMA LeadIs ==
  ASSUME NEW d, NEW W, NEW P, Given(d, W, P), NEW v \in Int, d.conv \in {"d", "i"}
  PROVE  Sign(ft_itoa(v)[1] = "-") = Lead(d, v)
<1>1. ft_itoa(v)[1] = "-" <=> v < 0
  BY ItoaParts
<1>2. (Has("+") <=> "+" \in d.flags) /\ (Has(" ") <=> " " \in d.flags)
  BY DEF Given, Has
<1>3. d.conv # "p" /\ d.conv # "x" /\ d.conv # "X"
  OBVIOUS
<1>4. CASE v < 0
  <2>1. Sign(ft_itoa(v)[1] = "-") = <<"-">>
    BY <1>1, <1>4 DEF Sign
  <2>2. ~(v >= 0)
    BY <1>4
  <2>3. Lead(d, v) = <<"-">>
    BY <1>3, <1>4, <2>2 DEF Lead
  <2> QED BY <2>1, <2>3
<1>5. CASE v >= 0
  <2>1. Sign(ft_itoa(v)[1] = "-") = IF Has("+") THEN <<"+">> ELSE IF Has(" ") THEN <<" ">> ELSE <<>>
    <3>1. ~(ft_itoa(v)[1] = "-")
      BY <1>1, <1>5
    <3> QED BY <3>1 DEF Sign
  <2>2. ~(v < 0)
    BY <1>5
  <2>3. CASE "+" \in d.flags
    <3>1. Lead(d, v) = <<"+">>
      BY <1>3, <1>5, <2>2, <2>3 DEF Lead
    <3> QED BY <1>2, <2>1, <2>3, <3>1
  <2>4. CASE "+" \notin d.flags /\ " " \in d.flags
    <3>1. Lead(d, v) = <<" ">>
      BY <1>3, <1>5, <2>2, <2>4 DEF Lead
    <3> QED BY <1>2, <2>1, <2>4, <3>1
  <2>5. CASE "+" \notin d.flags /\ " " \notin d.flags
    <3>1. Lead(d, v) = <<>>
      BY <1>3, <1>5, <2>2, <2>5 DEF Lead
    <3> QED BY <1>2, <2>1, <2>5, <3>1
  <2> QED BY <2>3, <2>4, <2>5
<1> QED BY <1>4, <1>5

\* The sums of set_d_len: s characters of sign, Q digits, a field of W.
LEMMA BlankD ==
  ASSUME NEW W \in Nat, data.width = W, NEW ori, NEW Q \in Nat, NEW s,
         s = Len(Sign(ori[1] = "-")),
         (IF ori[1] = "-" THEN 0 ELSE Len(ori)) \in 0..Q
  PROVE  Same(set_d_len(ori, Q).blank, W - s - Q)
<1>1. PICK l, r : l = Max({W, Q, r}) /\ r = IF ori[1] = "-" THEN 0 ELSE Len(ori)
  OBVIOUS
<1>2. r \in 0..Q
  BY <1>1
<1>3. l \in Nat /\ l >= Q /\ l >= W /\ (l = Q \/ l = W)
  BY <1>1, <1>2 DEF Max
<1>4. s \in 0..1 /\ (Sign(ori[1] = "-") = <<>> <=> s = 0)
  BY SignIs
<1>5. set_d_len(ori, Q) = CASE Sign(ori[1] = "-") = <<>> -> [len |-> l, blank |-> l - Q]
                            [] Sign(ori[1] = "-") # <<>> /\ l = Q -> [len |-> AsInt(l + 1), blank |-> 0]
                            [] Sign(ori[1] = "-") # <<>> /\ l # Q -> [len |-> l, blank |-> l - Q - 1]
  BY <1>1 DEF set_d_len
<1>6. CASE s = 0
  <2>1. set_d_len(ori, Q).blank = l - Q
    BY <1>4, <1>5, <1>6
  <2> QED BY <1>3, <1>6, <2>1 DEF Same
<1>7. CASE s = 1 /\ l = Q
  <2>1. set_d_len(ori, Q).blank = 0
    BY <1>4, <1>5, <1>7
  <2> QED BY <1>3, <1>7, <2>1 DEF Same
<1>8. CASE s = 1 /\ l # Q
  <2>1. set_d_len(ori, Q).blank = l - Q - 1
    BY <1>4, <1>5, <1>8
  <2>2. l = W /\ l \in Int /\ Q \in Int
    BY <1>3, <1>8
  <2>3. W - Q - 1 = W - 1 - Q /\ W - Q - 1 \in Int
    OBVIOUS
  <2> QED BY <1>8, <2>1, <2>2, <2>3 DEF Same
<1> QED BY <1>4, <1>6, <1>7, <1>8

\* set_print_d writes what C says of a signed number, but for a zero without digits.
LEMMA TextD ==
  ASSUME NEW d, NEW W, NEW P, Given(d, W, P), NEW v \in Int, d.conv \in {"d", "i"}, ~(v = 0 /\ P = 0)
  PROVE  set_print_d(ft_itoa(v)).text
           = Padded(d, W, Lead(d, v), Digits(d, v, P), "0" \in d.flags /\ P = None)
<1>0. /\ W \in Nat /\ P \in Int /\ P >= -1 /\ data.width = W /\ data.precision = P
      /\ (Has("-") <=> "-" \in d.flags) /\ (Has("0") <=> "0" \in d.flags) /\ (Bare <=> P = None)
  BY DEF Given, Has, Bare, None
<1>1. PICK ori, size : ori = ft_itoa(v) /\ size = IF v < 0 THEN -v ELSE v
  OBVIOUS
<1>2. PICK y, b : y = Numeral(size, Base(10)) /\ b = Len(y)
  OBVIOUS
<1>3. size \in Nat /\ y \in Seq(Char) /\ b \in Nat /\ b >= 1
  <2>1. Base(10) \in DigitSets
    BY DEF DigitSets
  <2>2. size \in Nat
    BY <1>1
  <2>3. Numbered(y)
    BY <1>2, <2>1, <2>2, NumeralNumbered
  <2> QED BY <1>2, <2>2, <2>3 DEF Numbered
<1>4. /\ ori[1] = "-" => Tail(ori) = y
      /\ ori[1] # "-" => ori = y
      /\ ori[1] = "-" <=> v < 0
      /\ ori[1] = "0" => v = 0
  <2>1. v < 0 => ori[1] = "-" /\ Tail(ori) = y
    BY <1>1, <1>2, ItoaParts
  <2>2. v >= 0 => ori = y /\ ori[1] # "-" /\ (ori[1] = "0" <=> v = 0)
    BY <1>1, <1>2, ItoaParts
  <2>3. v < 0 \/ v >= 0
    OBVIOUS
  <2>4. ~(v < 0 /\ v >= 0)
    OBVIOUS
  <2>5. "-" # "0"
    OBVIOUS
  <2> QED BY <2>1, <2>2, <2>3, <2>4, <2>5
<1>5. PICK sign, s : sign = Lead(d, v) /\ s = Len(sign)
  OBVIOUS
<1>6. Sign(ori[1] = "-") = sign /\ sign \in Seq(Char) /\ s \in 0..1
  <2>1. Sign(ori[1] = "-") = sign
    BY <1>1, <1>5, LeadIs
  <2> QED BY <1>5, <2>1, SignIs DEF Sized
<1>7. PICK Q : Q = Max({P, b})
  OBVIOUS
<1>8. Q \in Nat /\ Q >= b /\ Same(Q - b, P - b) /\ (P = None => Q = b)
  <2>1. Q = IF P >= b THEN P ELSE b
    BY <1>0, <1>3, <1>7 DEF Max
  <2> QED BY <1>0, <1>3, <2>1 DEF Same, None
<1>9. PICK x : x = Times(P - b, "0") \o y
  OBVIOUS
<1>10. Times(Q - b, "0") \o y = x
  BY <1>8, <1>9, TimesSame
<1>11. x \in Seq(Char) /\ Len(x) = Q
  <2>0. "0" \in Char
    BY DEF Char, Literals
  <2>1. "0" \in Char /\ Q - b \in Nat
    BY <1>3, <1>8, <2>0
  <2>2. Sized(y, b)
    BY <1>2, <1>3 DEF Sized
  <2>3. Sized(Times(Q - b, "0"), Q - b)
    BY <2>1, SizedTimes
  <2>4. Sized(x, (Q - b) + b)
    BY <1>10, <2>2, <2>3, SizedJoin
  <2>5. (Q - b) + b = Q
    BY <1>3, <1>8
  <2> QED BY <2>4, <2>5 DEF Sized
<1>12. Digits(d, v, P) = x
  <2>1. d.conv # "o" /\ d.conv # "x" /\ d.conv # "p" /\ d.conv # "X"
    OBVIOUS
  <2> QED BY <1>1, <1>2, <1>9, <2>1 DEF Digits
<1>13. PICK n, m : n = set_d_len(ori, Q).blank /\ m = W - s - Q
  OBVIOUS
<1>14. Same(n, m)
  <2>1. (IF ori[1] = "-" THEN 0 ELSE Len(ori)) \in 0..Q
    BY <1>2, <1>3, <1>4, <1>8
  <2>2. s = Len(Sign(ori[1] = "-"))
    BY <1>5, <1>6
  <2> QED BY <1>0, <1>8, <1>13, <2>1, <2>2, BlankD
<1>15. Times(n, " ") = Times(m, " ") /\ Times(n, "0") = Times(m, "0")
  BY <1>14, TimesSame
<1>16. set_print_d(ori).text = CASE Has("-") -> sign \o x \o Times(n, " ")
                                 [] ~Has("-") /\ Has("0") /\ Bare -> sign \o Times(n, "0") \o y
                                 [] ~Has("-") /\ ~(Has("0") /\ Bare) -> Times(n, " ") \o sign \o x
  <2>1. (IF ori[1] = "-" THEN Tail(ori) ELSE ori) = y
    BY <1>4
  <2>2. ~(ori[1] = "0" /\ data.precision = 0)
    BY <1>0, <1>4
  <2> QED BY <1>0, <1>2, <1>6, <1>7, <1>10, <1>13, <2>1, <2>2 DEF set_print_d, Written
<1>17. ~(W < 0) /\ W - Len(sign) - Len(x) = m
  BY <1>0, <1>5, <1>11, <1>13
<1>18. CASE "-" \in d.flags
  <2>1. Padded(d, W, sign, x, "0" \in d.flags /\ P = None) = sign \o x \o Times(m, " ")
    BY <1>17, <1>18 DEF Padded
  <2> QED BY <1>0, <1>1, <1>5, <1>12, <1>15, <1>16, <1>18, <2>1
<1>19. CASE "-" \notin d.flags /\ "0" \in d.flags /\ P = None
  <2>1. Padded(d, W, sign, x, "0" \in d.flags /\ P = None) = sign \o Times(m, "0") \o x
    BY <1>17, <1>19 DEF Padded
  <2>2. x = y
    <3>1. P - b \in Int /\ P - b <= 0
      BY <1>3, <1>19 DEF None
    <3>2. Times(P - b, "0") = <<>>
      BY <3>1, TimesNone
    <3> QED BY <1>3, <1>9, <3>2, NoneJoined
  <2> QED BY <1>0, <1>1, <1>5, <1>12, <1>15, <1>16, <1>19, <2>1, <2>2
<1>20. CASE "-" \notin d.flags /\ ~("0" \in d.flags /\ P = None)
  <2>1. Padded(d, W, sign, x, "0" \in d.flags /\ P = None) = Times(m, " ") \o sign \o x
    BY <1>17, <1>20 DEF Padded
  <2> QED BY <1>0, <1>1, <1>5, <1>12, <1>15, <1>16, <1>20, <2>1
<1> QED BY <1>18, <1>19, <1>20

\* Nothing and a blank field are the same, whatever is in front.
LEMMA NoneField ==
  ASSUME NEW d, NEW W \in Nat, NEW zeros \in BOOLEAN, zeros => FALSE
  PROVE  Padded(d, W, <<>>, <<>>, zeros) = Times(W, " ")
<1>1. PICK x : x = Times(W, " ")
  OBVIOUS
<1>2. x \in Seq(Char)
  <2>1. " " \in Char
    BY DEF Char, Literals
  <2> QED BY <1>1, <2>1, SizedTimes DEF Sized
<1>3. x \o <<>> = x /\ <<>> \o x = x
  BY <1>2, NoneJoined
<1>4. <<>> \o <<>> = <<>>
  <2>1. <<>> \in Seq(Char)
    BY EmptySeq
  <2> QED BY <2>1, NoneJoined
<1>5. ~(W < 0) /\ W - Len(<<>>) - Len(<<>>) = W
  OBVIOUS
<1>6. ~zeros
  OBVIOUS
<1>7. CASE "-" \in d.flags
  <2>1. Padded(d, W, <<>>, <<>>, zeros) = <<>> \o <<>> \o x
    BY <1>1, <1>5, <1>7 DEF Padded
  <2> QED BY <1>1, <1>3, <1>4, <2>1
<1>8. CASE "-" \notin d.flags
  <2>1. Padded(d, W, <<>>, <<>>, zeros) = x \o <<>> \o <<>>
    BY <1>1, <1>5, <1>6, <1>8 DEF Padded
  <2> QED BY <1>1, <1>3, <2>1
<1> QED BY <1>7, <1>8

\* No sign is asked for.
Signless(d) == "+" \notin d.flags /\ " " \notin d.flags

\* A zero of precision 0 that no sign is asked for is a blank field.
LEMMA TextNought ==
  ASSUME NEW d, NEW W, NEW P, Given(d, W, P), d.conv \in {"d", "i"}, P = 0, Signless(d)
  PROVE  set_print_d(ft_itoa(0)).text
           = Padded(d, W, Lead(d, 0), Digits(d, 0, P), "0" \in d.flags /\ P = None)
<1>0. W \in Nat /\ data.width = W /\ data.precision = 0
  BY DEF Given
<1>a. (Has("+") <=> "+" \in d.flags) /\ (Has(" ") <=> " " \in d.flags)
  BY DEF Given, Has
<1>1. ft_itoa(0)[1] = "0"
  <2>1. 0 \in Int /\ 0 >= 0
    OBVIOUS
  <2> QED BY <2>1, ItoaParts
<1>2. Lead(d, 0) = <<>>
  <2>1. d.conv # "p" /\ d.conv # "x" /\ d.conv # "X" /\ ~(0 < 0)
    OBVIOUS
  <2> QED BY <2>1 DEF Lead, Signless
<1>3. Digits(d, 0, P) = <<>>
  <2>0. 0 \in Int /\ 0 <= 0
    OBVIOUS
  <2>1. Times(0, "0") = <<>>
    BY <2>0, TimesNone
  <2>2. <<>> \o <<>> = <<>> /\ Len(<<>>) = 0
    <3>1. <<>> \in Seq(Char)
      BY EmptySeq
    <3> QED BY <3>1, NoneJoined
  <2>3. d.conv # "o"
    OBVIOUS
  <2>4. Times(P - Len(<<>>), "0") = <<>>
    BY <2>1, <2>2
  <2> QED BY <2>2, <2>3, <2>4 DEF Digits
<1>4. Padded(d, W, <<>>, <<>>, "0" \in d.flags /\ P = None) = Times(W, " ")
  <2>1. P # None
    BY DEF None
  <2>2. ("0" \in d.flags /\ P = None) \in BOOLEAN /\ ~("0" \in d.flags /\ P = None)
    BY <2>1
  <2> QED BY <1>0, <2>2, NoneField
<1>5. CASE W = 0
  <2>1. set_print_d(ft_itoa(0)).text = <<>>
    BY <1>0, <1>1, <1>5 DEF set_print_d, Written
  <2>2. Times(W, " ") = <<>>
    <3>1. W \in Int /\ W <= 0
      BY <1>0, <1>5
    <3> QED BY <3>1, TimesNone
  <2> QED BY <1>2, <1>3, <1>4, <2>1, <2>2
<1>6. CASE W # 0
  <2>1. set_print_d(ft_itoa(0)) = zero_noze
    BY <1>0, <1>1, <1>6 DEF set_print_d
  <2>2. Sign(FALSE) = <<>>
    BY <1>a DEF Sign, Signless
  <2>3. PICK x : x = Times(W, " ")
    OBVIOUS
  <2>4. x \in Seq(Char)
    <3>1. " " \in Char
      BY DEF Char, Literals
    <3> QED BY <1>0, <2>3, <3>1, SizedTimes DEF Sized
  <2>5. W - Len(<<>>) = W
    BY <1>0
  <2>6. zero_noze.text = <<>> \o x
    BY <1>0, <2>2, <2>3, <2>5 DEF zero_noze, Written
  <2>7. <<>> \o x = x
    BY <2>4, NoneJoined
  <2> QED BY <1>2, <1>3, <1>4, <2>1, <2>3, <2>6, <2>7
<1> QED BY <1>5, <1>6

\* The sums of for_setoux for a number that is not zero: n characters of prefix and Q digits.
OuxAt(W, P, ori, l, F, n, Q) ==
  /\ W \in Nat /\ data.width = W /\ P \in Int /\ data.precision = P
  /\ l \in Nat /\ l = Len(ori) /\ ori[1] # "0"
  /\ n \in Nat /\ n = Len(PrefixShown(ori, F)) /\ Q = Max({P, l})

\* The blanks and the zeros of for_setoux are what is left of C's field.
LEMMA BlankOux ==
  ASSUME NEW W, NEW P, NEW ori, NEW l, NEW F, NEW n, NEW Q, OuxAt(W, P, ori, l, F, n, Q)
  PROVE  /\ set_oxu(ori, F).prec = Q /\ Same(set_oxu(ori, F).blank, W - n - Q)
         /\ Q = l => Same(set_oxu(ori, F).len - n - l, W - n - Q)
         /\ Q \in Nat /\ Q >= l /\ Same(Q - l, P - l)
<1>0. /\ W \in Nat /\ data.width = W /\ P \in Int /\ data.precision = P
      /\ l \in Nat /\ l = Len(ori) /\ ori[1] # "0"
      /\ n \in Nat /\ n = Len(PrefixShown(ori, F)) /\ Q = Max({P, l})
  BY DEF OuxAt
<1>1. Q = IF P >= l THEN P ELSE l
  BY <1>0 DEF Max
<1>2. OxuPrecision(ori) = Q
  BY <1>0 DEF OxuPrecision
<1>3. PICK o, len : o = set_oxu(ori, F) /\ len = Max({W, l, AsInt(Q + n)})
  OBVIOUS
<1>4. o.prec = Q /\ o.len = len /\ o.blank = len - Q - n
  BY <1>0, <1>2, <1>3 DEF set_oxu
<1>5. Q \in Nat /\ Q >= l /\ Same(Q - l, P - l)
  BY <1>0, <1>1 DEF Same
<1>a. W \in Nat /\ l \in Nat /\ n \in Nat /\ Q \in Nat
  BY <1>0, <1>5
<1>6. len \in Nat /\ len >= W /\ (len <= Q + n \/ len = W)
  <2>1. PICK z : z = AsInt(Q + n) /\ z \in Int /\ z <= Q + n
    BY <1>a, AsIntIs
  <2>2. l <= Q + n
    BY <1>a, <1>5
  <2>3. len = Max({W, l, z})
    BY <1>3, <2>1
  <2>4. len \in Nat /\ len >= W /\ (len = z \/ len = l \/ len = W)
    <3>1. PICK T, t : T = {W, l, z} /\ t = IF W >= l /\ W >= z THEN W ELSE IF l >= z THEN l ELSE z
      OBVIOUS
    <3>2. t \in T /\ \A x \in T : x \in Int /\ t >= x
      BY <1>a, <2>1, <3>1
    <3>3. \A x \in T : (\A y \in T : x >= y) <=> x = t
      BY <3>2
    <3>4. (CHOOSE x \in T : \A y \in T : x >= y) = t
      BY <3>2, <3>3
    <3>5. len = t
      BY <2>3, <3>1, <3>4 DEF Max
    <3> QED BY <1>a, <2>1, <3>1, <3>5
  <2> QED BY <2>1, <2>2, <2>4
<1>7. Same(len - Q - n, W - n - Q)
  <2>1. len - Q - n \in Int /\ W - n - Q \in Int
    BY <1>a, <1>6
  <2>2. CASE len = W
    <3>1. len - Q - n = W - n - Q
      BY <1>a, <2>2
    <3> QED BY <2>1, <3>1 DEF Same
  <2>3. CASE len <= Q + n
    <3>1. len - Q - n <= 0 /\ W - n - Q <= 0
      BY <1>a, <1>6, <2>3
    <3> QED BY <2>1, <3>1 DEF Same
  <2> QED BY <1>6, <2>2, <2>3
<1>8. Q = l => Same(len - n - l, W - n - Q)
  <2>1. Q = l => len - n - l = len - Q - n
    BY <1>a, <1>6
  <2> QED BY <1>7, <2>1
<1> QED BY <1>3, <1>4, <1>5, <1>7, <1>8

\* The functions of an unsigned number write a prefix and digits as C has them in a field.
LEMMA TextOux ==
  ASSUME NEW d, NEW W, NEW P, Given(d, W, P), NEW ori, Numbered(ori), ori[1] # "0", NEW F,
         NEW pre, pre = PrefixShown(ori, F)
  PROVE  set_print_oxu_hash(ori, F).text
           = Padded(d, W, pre, Times(P - Len(ori), "0") \o ori, "0" \in d.flags /\ P = None)
<1>0. /\ W \in Nat /\ P \in Int /\ P >= -1 /\ data.width = W /\ data.precision = P
      /\ (Has("-") <=> "-" \in d.flags) /\ (Has("0") <=> "0" \in d.flags) /\ (Bare <=> P = None)
  BY DEF Given, Has, Bare, None
<1>1. PICK l, n : l = Len(ori) /\ n = Len(pre)
  OBVIOUS
<1>2. ori \in Seq(Char) /\ l \in Nat /\ l >= 1
  BY <1>1 DEF Numbered
<1>3. pre \in Seq(Char) /\ n \in Nat
  <2>1. Sized(pre, n) /\ n \in 0..2
    BY <1>1, PrefixIs
  <2> QED BY <2>1 DEF Sized
<1>4. PICK Q, o : Q = Max({P, l}) /\ o = set_oxu(ori, F)
  OBVIOUS
<1>5. PICK z, m : z = W - n - Q /\ m = o.len - n - l
  OBVIOUS
<1>6. /\ o.prec = Q /\ Same(o.blank, z) /\ (Q = l => Same(m, z))
      /\ Q \in Nat /\ Q >= l /\ Same(Q - l, P - l)
  <2>1. n = Len(PrefixShown(ori, F))
    BY <1>1
  <2>2. /\ set_oxu(ori, F).prec = Q /\ Same(set_oxu(ori, F).blank, W - n - Q)
        /\ Q = l => Same(set_oxu(ori, F).len - n - l, W - n - Q)
        /\ Q \in Nat /\ Q >= l /\ Same(Q - l, P - l)
    <3>1. OuxAt(W, P, ori, l, F, n, Q)
      BY <1>0, <1>1, <1>2, <1>3, <1>4, <2>1 DEF OuxAt
    <3> QED BY <3>1, BlankOux
  <2> QED BY <1>4, <1>5, <2>2
<1>7. PICK t, x : t = Times(P - l, "0") /\ x = t \o ori
  OBVIOUS
<1>8. Times(Q - l, "0") = t
  BY <1>6, <1>7, TimesSame
<1>9. t \in Seq(Char) /\ x \in Seq(Char) /\ Len(x) = Q
  <2>0. "0" \in Char
    BY DEF Char, Literals
  <2>1. "0" \in Char /\ Q - l \in Nat
    BY <1>2, <1>6, <2>0
  <2>2. Sized(ori, l)
    BY <1>1, <1>2 DEF Sized
  <2>3. Sized(t, Q - l)
    BY <1>8, <2>1, SizedTimes
  <2>4. Sized(x, (Q - l) + l)
    BY <1>7, <2>2, <2>3, SizedJoin
  <2>5. (Q - l) + l = Q
    BY <1>2, <1>6
  <2> QED BY <2>3, <2>4, <2>5 DEF Sized
<1>10. Times(o.blank, " ") = Times(z, " ") /\ (Q = l => Times(m, "0") = Times(z, "0"))
  BY <1>6, TimesSame
<1>11. set_print_oxu_hash(ori, F).text
         = IF Has("-") THEN pre \o t \o ori \o Times(o.blank, " ")
           ELSE IF Has("0") /\ Bare THEN pre \o Times(m, "0") \o ori
           ELSE Times(o.blank, " ") \o pre \o t \o ori
  BY <1>1, <1>4, <1>5, <1>6, <1>8 DEF set_print_oxu_hash, go_right_oux, Written
<1>12. pre \o t \o ori = pre \o x
  <2>1. pre \in Seq(Char) /\ t \in Seq(Char) /\ ori \in Seq(Char)
    BY <1>2, <1>3, <1>9
  <2>2. (pre \o t) \o ori = pre \o (t \o ori)
    BY <2>1, ConcatAssociative
  <2> QED BY <1>7, <2>2
<1>13. ~(W < 0) /\ W - Len(pre) - Len(x) = z
  BY <1>0, <1>1, <1>5, <1>9
<1>14. CASE "-" \in d.flags
  <2>1. Padded(d, W, pre, x, "0" \in d.flags /\ P = None) = pre \o x \o Times(z, " ")
    BY <1>13, <1>14 DEF Padded
  <2> QED BY <1>0, <1>1, <1>7, <1>10, <1>11, <1>12, <1>14, <2>1
<1>15. CASE "-" \notin d.flags /\ "0" \in d.flags /\ P = None
  <2>1. Padded(d, W, pre, x, "0" \in d.flags /\ P = None) = pre \o Times(z, "0") \o x
    BY <1>13, <1>15 DEF Padded
  <2>2. P - l \in Int /\ P - l <= 0
    BY <1>2, <1>15 DEF None
  <2>3. x = ori
    <3>1. t = <<>>
      BY <1>7, <2>2, TimesNone
    <3> QED BY <1>2, <1>7, <3>1, NoneJoined
  <2>4. Q = l
    <3>1. Q = IF P >= l THEN P ELSE l
      BY <1>0, <1>2, <1>4 DEF Max
    <3> QED BY <1>2, <1>15, <3>1 DEF None
  <2> QED BY <1>0, <1>1, <1>7, <1>10, <1>11, <1>15, <2>1, <2>3, <2>4
<1>16. CASE "-" \notin d.flags /\ ~("0" \in d.flags /\ P = None)
  <2>1. Padded(d, W, pre, x, "0" \in d.flags /\ P = None) = Times(z, " ") \o pre \o x
    BY <1>13, <1>16 DEF Padded
  <2>2. PICK y, u : y = Times(o.blank, " ") /\ u = y \o pre
    OBVIOUS
  <2>3. u \in Seq(Char)
    <3>1. " " \in Char
      BY DEF Char, Literals
    <3>2. o.blank \in Nat \/ (o.blank <= 0 /\ o.blank \in Int)
      BY <1>6 DEF Same
    <3>3. y \in Seq(Char)
      <4>1. CASE o.blank \in Nat
        BY <2>2, <3>1, <4>1, SizedTimes DEF Sized
      <4>2. CASE o.blank \in Int /\ o.blank <= 0
        <5>1. y = <<>>
          BY <2>2, <4>2, TimesNone
        <5> QED BY <5>1, EmptySeq
      <4> QED BY <3>2, <4>1, <4>2
    <3> QED BY <1>3, <2>2, <3>3, Joined
  <2>4. u \o t \o ori = u \o x
    <3>1. (u \o t) \o ori = u \o (t \o ori)
      <4>1. t \in Seq(Char) /\ ori \in Seq(Char)
        BY <1>2, <1>9
      <4> QED BY <2>3, <4>1, ConcatAssociative
    <3> QED BY <1>7, <3>1
  <2> QED BY <1>0, <1>1, <1>7, <1>10, <1>11, <1>16, <2>1, <2>2, <2>4
<1> QED BY <1>14, <1>15, <1>16

\* A zero that stands in front of zeros is one behind them.
LEMMA ZeroFront ==
  ASSUME NEW d, NEW W, NEW P, W \in Nat, NEW x, x \in Seq(Char)
  PROVE  Padded(d, W, <<"0">>, x, "0" \in d.flags /\ P = None)
           = Padded(d, W, <<>>, <<"0">> \o x, "0" \in d.flags /\ P = None)
<1>1. PICK y, z, l : y = <<"0">> /\ z = y \o x /\ l = Len(x)
  OBVIOUS
<1>2. y \in Seq(Char) /\ Len(y) = 1 /\ z \in Seq(Char) /\ Len(z) = 1 + l /\ l \in Nat
  <2>1. "0" \in Char
    BY DEF Char, Literals
  <2>2. y \in Seq(Char) /\ Len(y) = 1
    BY <1>1, <2>1
  <2>3. y \o x \in Seq(Char) /\ Len(y \o x) = Len(y) + Len(x)
    BY <2>2, Joined
  <2> QED BY <1>1, <2>2, <2>3, LenProperties
<1>3. PICK n, e : n = W - 1 - l /\ e = <<>>
  OBVIOUS
<1>4. n \in Int /\ ~(W < 0) /\ W - Len(y) - Len(x) = n /\ W - Len(e) - Len(z) = n
  <2>1. Len(e) = 0
    BY <1>3
  <2> QED BY <1>1, <1>2, <1>3, <2>1
<1>5. \A u \in Seq(Char) : e \o u = u /\ u \o e = u
  BY <1>3, NoneJoined
<1>6. ASSUME NEW c \in Char PROVE Times(n, c) \in Seq(Char)
  <2>1. CASE n >= 0
    <3>1. n \in Nat
      BY <1>4, <2>1
    <3> QED BY <3>1, SizedTimes DEF Sized
  <2>2. CASE n < 0
    <3>1. n \in Int /\ n <= 0
      BY <1>4, <2>2
    <3>2. Times(n, c) = <<>>
      BY <3>1, TimesNone
    <3> QED BY <3>2, EmptySeq
  <2> QED BY <1>4, <2>1, <2>2
<1>a. "0" \in Char /\ " " \in Char
  BY DEF Char, Literals
<1>7. CASE "-" \in d.flags
  <2>1. Padded(d, W, y, x, "0" \in d.flags /\ P = None) = y \o x \o Times(n, " ")
    BY <1>4, <1>7 DEF Padded
  <2>2. Padded(d, W, e, z, "0" \in d.flags /\ P = None) = e \o z \o Times(n, " ")
    BY <1>4, <1>7 DEF Padded
  <2>3. e \o z = z
    BY <1>2, <1>5
  <2> QED BY <1>1, <1>3, <2>1, <2>2, <2>3
<1>8. CASE "-" \notin d.flags /\ "0" \in d.flags /\ P = None
  <2>1. Padded(d, W, y, x, "0" \in d.flags /\ P = None) = y \o Times(n, "0") \o x
    BY <1>4, <1>8 DEF Padded
  <2>2. Padded(d, W, e, z, "0" \in d.flags /\ P = None) = e \o Times(n, "0") \o z
    BY <1>4, <1>8 DEF Padded
  <2>3. PICK t : t = Times(n, "0")
    OBVIOUS
  <2>4. t \in Seq(Char)
    BY <1>6, <1>a, <2>3
  <2>5. t \o y = y \o t
    <3>1. CASE n >= 0
      <4>1. n \in Nat
        BY <1>4, <3>1
      <4>2. "0" \in Char
        BY DEF Char, Literals
      <4> QED BY <1>1, <2>3, <4>1, <4>2, TimesMore
    <3>2. CASE n < 0
      <4>1. n \in Int /\ n <= 0
        BY <1>4, <3>2
      <4>2. t = e
        BY <1>3, <2>3, <4>1, TimesNone
      <4> QED BY <1>2, <1>5, <4>2
    <3> QED BY <1>4, <3>1, <3>2
  <2>6. (t \o y) \o x = t \o (y \o x)
    <3>1. t \in Seq(Char) /\ y \in Seq(Char) /\ x \in Seq(Char)
      BY <1>2, <2>4
    <3> QED BY <3>1, ConcatAssociative
  <2>7. e \o t = t
    BY <1>5, <2>4
  <2> QED BY <1>1, <1>3, <2>1, <2>2, <2>3, <2>5, <2>6, <2>7
<1>9. CASE "-" \notin d.flags /\ ~("0" \in d.flags /\ P = None)
  <2>1. Padded(d, W, y, x, "0" \in d.flags /\ P = None) = Times(n, " ") \o y \o x
    BY <1>4, <1>9 DEF Padded
  <2>2. Padded(d, W, e, z, "0" \in d.flags /\ P = None) = Times(n, " ") \o e \o z
    BY <1>4, <1>9 DEF Padded
  <2>3. PICK t : t = Times(n, " ")
    OBVIOUS
  <2>4. t \in Seq(Char)
    BY <1>6, <1>a, <2>3
  <2>5. (t \o y) \o x = t \o (y \o x)
    <3>1. t \in Seq(Char) /\ y \in Seq(Char) /\ x \in Seq(Char)
      BY <1>2, <2>4
    <3> QED BY <3>1, ConcatAssociative
  <2>6. t \o e = t
    BY <1>5, <2>4
  <2> QED BY <1>1, <1>3, <2>1, <2>2, <2>3, <2>5, <2>6
<1> QED BY <1>1, <1>3, <1>7, <1>8, <1>9

\* The digits an unsigned conversion shows its number with.
DigitsOf(d) == CASE d.conv = "o"          -> Base(8)
                 [] d.conv \in {"x", "p"} -> Hex
                 [] d.conv = "X"          -> BigHex
                 [] OTHER                 -> Base(10)

\* They are digits of one of the five kinds.
LEMMA DigitsOfIs == ASSUME NEW d PROVE DigitsOf(d) \in DigitSets
BY DEF DigitsOf, DigitSets

\* An octal number that "#" asks a zero of has one in front of it, of the precision or added.
Octal(d) == d.conv = "o" /\ "#" \in d.flags
DigitsAsC(d, P, v, x, l) ==
  /\ ~Octal(d) => Digits(d, v, P) = Times(P - l, "0") \o x
  /\ Octal(d) /\ P > l => Digits(d, v, P) = Times(P - l, "0") \o x
  /\ Octal(d) /\ P <= l => Digits(d, v, P) = <<"0">> \o (Times(P - l, "0") \o x)

\* The digits of C are zeros and the numeral, with a zero in front only there.
LEMMA DigitsAreC ==
  ASSUME NEW d, NEW P, P \in Int, NEW v, v \in Nat, v # 0, NEW x, NEW l, x = Numeral(v, DigitsOf(d)), l = Len(x)
  PROVE  DigitsAsC(d, P, v, x, l)
<1>1. PICK t, y : t = Times(P - l, "0") /\ y = t \o x
  OBVIOUS
<1>2. Numbered(x) /\ x[1] # "0"
  <2>1. DigitsOf(d) \in DigitSets
    BY DigitsOfIs
  <2> QED BY <2>1, NumeralNumbered
<1>3. x \in Seq(Char) /\ l \in Nat /\ l >= 1
  BY <1>2 DEF Numbered
<1>4. Digits(d, v, P) = IF Octal(d) /\ (y = <<>> \/ y[1] # "0") THEN <<"0">> \o y ELSE y
  <2>1. ~(v < 0) /\ ~(v = 0 /\ P = 0)
    OBVIOUS
  <2>2. (CASE d.conv = "o"         -> Numeral(v, Base(8))
           [] d.conv \in {"x", "p"} -> Numeral(v, Hex)
           [] d.conv = "X"         -> Numeral(v, BigHex)
           [] OTHER                -> Numeral(v, Base(10))) = x
    BY DEF DigitsOf
  <2> QED BY <1>1, <2>1, <2>2 DEF Digits, Octal
<1>5. P > l => y[1] = "0"
  <2> SUFFICES ASSUME P > l PROVE y[1] = "0"
    OBVIOUS
  <2>1. PICK m : m = P - l /\ m \in Nat /\ m >= 1
    BY <1>3
  <2>2. "0" \in Char
    BY DEF Char, Literals
  <2>3. t \in Seq(Char) /\ Len(t) = m
    BY <1>1, <2>1, <2>2, SizedTimes DEF Sized
  <2>4. 1 \in 1..m
    BY <2>1
  <2>5. t[1] = "0"
    BY <1>1, <2>1, <2>4 DEF Times
  <2>6. (t \o x)[1] = t[1]
    BY <1>3, <2>3, <2>4, Joined
  <2> QED BY <1>1, <2>5, <2>6
<1>6. P > l => y # <<>>
  <2> SUFFICES ASSUME P > l PROVE y # <<>>
    OBVIOUS
  <2>1. P - l \in Nat
    BY <1>3
  <2>2. "0" \in Char
    BY DEF Char, Literals
  <2>3. t \in Seq(Char) /\ Len(t) \in Nat
    BY <1>1, <2>1, <2>2, SizedTimes DEF Sized
  <2>4. Len(t \o x) = Len(t) + Len(x)
    BY <1>3, <2>3, Joined
  <2>5. Len(y) # 0
    BY <1>1, <1>3, <2>3, <2>4
  <2> QED BY <2>5, EmptySeq
<1>7. P <= l => y = x
  <2>1. P <= l => P - l \in Int /\ P - l <= 0
    BY <1>3
  <2>2. P <= l => t = <<>>
    BY <1>1, <2>1, TimesNone
  <2> QED BY <1>1, <1>3, <2>2, NoneJoined
<1>8. /\ ~Octal(d) => Digits(d, v, P) = y
      /\ Octal(d) /\ P > l => Digits(d, v, P) = y
      /\ Octal(d) /\ P <= l => Digits(d, v, P) = <<"0">> \o y
  BY <1>2, <1>4, <1>5, <1>6, <1>7
<1> QED BY <1>1, <1>8 DEF DigitsAsC

\* An unsigned conversion or a pointer, and the flags it is written with.
Unsign(d, F) ==
  /\ Conv = d.conv /\ d.conv \in {"u", "o", "x", "X", "p"}
  /\ "#" \in d.flags => d.conv \in {"o", "x", "X"}
  /\ F = IF d.conv = "p" THEN d.flags \cup {"#"} ELSE d.flags

\* The prefix of a number that is not zero, and what C has before its digits.
PrefixAsC(d, F, ori, v) ==
  /\ ~Octal(d) => PrefixShown(ori, F) = Lead(d, v)
  /\ Octal(d) => Lead(d, v) = <<>>
  /\ Octal(d) /\ OxuPrecision(ori) > Len(ori) => PrefixShown(ori, F) = <<>>
  /\ Octal(d) /\ ~(OxuPrecision(ori) > Len(ori)) => PrefixShown(ori, F) = <<"0">>

\* PrefixShown leaves the octal zero to the precision where that has put one.
LEMMA PrefixC ==
  ASSUME NEW d, NEW F, Unsign(d, F), NEW ori, NEW v, v \in Nat, v # 0 PROVE PrefixAsC(d, F, ori, v)
<1>0. /\ Conv = d.conv /\ d.conv \in {"u", "o", "x", "X", "p"}
      /\ "#" \in d.flags => d.conv \in {"o", "x", "X"}
      /\ F = IF d.conv = "p" THEN d.flags \cup {"#"} ELSE d.flags
  BY DEF Unsign
<1>1. d.conv \notin {"d", "i"}
  BY <1>0
<1>2. Lead(d, v) = CASE d.conv = "p" \/ (d.conv = "x" /\ "#" \in d.flags) -> <<"0", "x">>
                     [] d.conv = "X" /\ "#" \in d.flags -> <<"0", "X">>
                     [] OTHER -> <<>>
  <2>1. v # 0
    OBVIOUS
  <2> QED BY <1>1, <2>1 DEF Lead
<1>3. <<"0", "x">> # <<"0">> /\ <<"0", "X">> # <<"0">>
  <2>1. Len(<<"0", "x">>) = 2 /\ Len(<<"0", "X">>) = 2 /\ Len(<<"0">>) = 1
    OBVIOUS
  <2> QED BY <2>1
<1>4. CASE d.conv = "u"
  <2>1. "#" \notin F /\ ~Octal(d)
    BY <1>0, <1>4 DEF Octal
  <2>2. PrefixShown(ori, F) = <<>>
    BY <2>1 DEF PrefixShown
  <2>3. Lead(d, v) = <<>>
    BY <1>2, <1>4
  <2> QED BY <2>1, <2>2, <2>3 DEF PrefixAsC
<1>5. CASE d.conv = "o"
  <2>1. Lead(d, v) = <<>>
    BY <1>2, <1>5
  <2>2. F = d.flags
    BY <1>0, <1>5
  <2>3. Prefix = <<"0">>
    BY <1>0, <1>5 DEF Prefix
  <2>4. CASE "#" \in d.flags
    BY <1>5, <2>1, <2>2, <2>3, <2>4 DEF PrefixShown, Octal, PrefixAsC
  <2>5. CASE "#" \notin d.flags
    BY <1>5, <2>1, <2>2, <2>5 DEF PrefixShown, Octal, PrefixAsC
  <2> QED BY <2>4, <2>5
<1>6. CASE d.conv = "x"
  <2>1. ~Octal(d) /\ F = d.flags
    BY <1>0, <1>6 DEF Octal
  <2>2. Prefix = <<"0", "x">>
    BY <1>0, <1>6 DEF Prefix
  <2>3. PrefixShown(ori, F) = IF "#" \in d.flags THEN <<"0", "x">> ELSE <<>>
    BY <1>3, <2>1, <2>2 DEF PrefixShown
  <2>4. Lead(d, v) = IF "#" \in d.flags THEN <<"0", "x">> ELSE <<>>
    BY <1>2, <1>6
  <2> QED BY <2>1, <2>3, <2>4 DEF PrefixAsC
<1>7. CASE d.conv = "X"
  <2>1. ~Octal(d) /\ F = d.flags
    BY <1>0, <1>7 DEF Octal
  <2>2. Prefix = <<"0", "X">>
    BY <1>0, <1>7 DEF Prefix
  <2>3. PrefixShown(ori, F) = IF "#" \in d.flags THEN <<"0", "X">> ELSE <<>>
    BY <1>3, <2>1, <2>2 DEF PrefixShown
  <2>4. Lead(d, v) = IF "#" \in d.flags THEN <<"0", "X">> ELSE <<>>
    BY <1>2, <1>7
  <2> QED BY <2>1, <2>3, <2>4 DEF PrefixAsC
<1>8. CASE d.conv = "p"
  <2>1. ~Octal(d) /\ "#" \in F
    BY <1>0, <1>8 DEF Octal
  <2>2. Prefix = <<"0", "x">>
    BY <1>0, <1>8 DEF Prefix
  <2>3. PrefixShown(ori, F) = <<"0", "x">>
    BY <1>3, <2>1, <2>2 DEF PrefixShown
  <2>4. Lead(d, v) = <<"0", "x">>
    BY <1>2, <1>8
  <2> QED BY <2>1, <2>3, <2>4 DEF PrefixAsC
<1> QED BY <1>0, <1>4, <1>5, <1>6, <1>7, <1>8

\* An unsigned number that is not zero is written as C says.
LEMMA TextUnsigned ==
  ASSUME NEW d, NEW W, NEW P, Given(d, W, P), NEW F, Unsign(d, F), NEW v, v \in Nat, v # 0
  PROVE  set_print_oxu_hash(Numeral(v, DigitsOf(d)), F).text
           = Padded(d, W, Lead(d, v), Digits(d, v, P), "0" \in d.flags /\ P = None)
<1>0. W \in Nat /\ P \in Int /\ data.precision = P
  BY DEF Given
<1>1. PICK x, l, pre : x = Numeral(v, DigitsOf(d)) /\ l = Len(x) /\ pre = PrefixShown(x, F)
  OBVIOUS
<1>2. Numbered(x) /\ x[1] # "0"
  <2>1. DigitsOf(d) \in DigitSets
    BY DigitsOfIs
  <2> QED BY <1>1, <2>1, NumeralNumbered
<1>3. x \in Seq(Char) /\ l \in Nat
  BY <1>1, <1>2 DEF Numbered
<1>4. PICK y : y = Times(P - l, "0") \o x
  OBVIOUS
<1>5. set_print_oxu_hash(x, F).text = Padded(d, W, pre, y, "0" \in d.flags /\ P = None)
  BY <1>1, <1>2, <1>4, TextOux
<1>6. /\ ~Octal(d) => pre = Lead(d, v)
      /\ Octal(d) => Lead(d, v) = <<>>
      /\ Octal(d) /\ OxuPrecision(x) > l => pre = <<>>
      /\ Octal(d) /\ ~(OxuPrecision(x) > l) => pre = <<"0">>
  <2>1. PrefixAsC(d, F, x, v)
    BY PrefixC
  <2> QED BY <1>1, <2>1 DEF PrefixAsC
<1>7. OxuPrecision(x) > l <=> P > l
  <2>1. OxuPrecision(x) = Max({P, l})
    BY <1>0, <1>1, <1>2 DEF OxuPrecision
  <2>2. Max({P, l}) = IF P >= l THEN P ELSE l
    BY <1>0, <1>3 DEF Max
  <2> QED BY <1>0, <1>3, <2>1, <2>2
<1>8. /\ ~Octal(d) => Digits(d, v, P) = y
      /\ Octal(d) /\ P > l => Digits(d, v, P) = y
      /\ Octal(d) /\ P <= l => Digits(d, v, P) = <<"0">> \o y
  <2>1. P \in Int /\ x = Numeral(v, DigitsOf(d)) /\ l = Len(x)
    BY <1>0, <1>1
  <2>2. DigitsAsC(d, P, v, x, l)
    BY <2>1, DigitsAreC
  <2> QED BY <1>4, <2>2 DEF DigitsAsC
<1>9. CASE ~Octal(d) \/ P > l
  <2>1. pre = Lead(d, v) /\ Digits(d, v, P) = y
    BY <1>6, <1>7, <1>8, <1>9
  <2> QED BY <1>1, <1>5, <2>1
<1>10. CASE Octal(d) /\ P <= l
  <2>1. ~(P > l)
    BY <1>0, <1>3, <1>10
  <2>2. pre = <<"0">> /\ Lead(d, v) = <<>> /\ Digits(d, v, P) = <<"0">> \o y
    BY <1>6, <1>7, <1>8, <1>10, <2>1
  <2>3. y \in Seq(Char)
    <3>1. P - l \in Int /\ P - l <= 0
      BY <1>0, <1>3, <1>10
    <3>2. Times(P - l, "0") = <<>>
      BY <3>1, TimesNone
    <3> QED BY <1>3, <1>4, <3>2, NoneJoined
  <2>4. Padded(d, W, <<"0">>, y, "0" \in d.flags /\ P = None)
          = Padded(d, W, <<>>, <<"0">> \o y, "0" \in d.flags /\ P = None)
    BY <1>0, <2>3, ZeroFront
  <2> QED BY <1>1, <1>5, <2>2, <2>4
<1> QED BY <1>0, <1>3, <1>9, <1>10

\* A number of characters, or none if it is negative.
LEMMA TimesText == ASSUME NEW n \in Int, NEW c \in Char PROVE Times(n, c) \in Seq(Char)
<1>1. CASE n >= 0
  <2>1. n \in Nat
    BY <1>1
  <2> QED BY <2>1, SizedTimes DEF Sized
<1>2. CASE n < 0
  <2>1. n <= 0
    BY <1>2
  <2> QED BY <2>1, TimesNone, EmptySeq
<1> QED BY <1>1, <1>2

\* The field of C with nothing in front of the digits.
NoFront(d, W, P, x, n) ==
  /\ "-" \in d.flags => Padded(d, W, <<>>, x, "0" \in d.flags /\ P = None) = x \o Times(n, " ")
  /\ "-" \notin d.flags /\ "0" \in d.flags /\ P = None
       => Padded(d, W, <<>>, x, "0" \in d.flags /\ P = None) = Times(n, "0") \o x
  /\ "-" \notin d.flags /\ ~("0" \in d.flags /\ P = None)
       => Padded(d, W, <<>>, x, "0" \in d.flags /\ P = None) = Times(n, " ") \o x

\* It is the text and blanks, or zeros, on the side of the flag.
LEMMA NoFrontIs ==
  ASSUME NEW d, NEW W \in Nat, NEW P, NEW x \in Seq(Char), NEW n, n = W - Len(x)
  PROVE  NoFront(d, W, P, x, n)
<1>1. PICK e, l : e = <<>> /\ l = Len(x)
  OBVIOUS
<1>2. l \in Nat
  BY <1>1, LenProperties
<1>3. n \in Int /\ ~(W < 0) /\ W - Len(e) - Len(x) = n
  <2>1. Len(e) = 0
    BY <1>1
  <2> QED BY <1>1, <1>2, <2>1
<1>4. \A u \in Seq(Char) : e \o u = u /\ u \o e = u
  BY <1>1, NoneJoined
<1>5. "0" \in Char /\ " " \in Char
  BY DEF Char, Literals
<1>6. PICK s, t : s = Times(n, " ") /\ t = Times(n, "0")
  OBVIOUS
<1>7. s \in Seq(Char) /\ t \in Seq(Char)
  BY <1>3, <1>5, <1>6, TimesText
<1>8. e \o x = x /\ e \o t = t /\ s \o e = s
  BY <1>4, <1>7
<1>9. CASE "-" \in d.flags
  <2>1. Padded(d, W, e, x, "0" \in d.flags /\ P = None) = e \o x \o s
    BY <1>3, <1>6, <1>9 DEF Padded
  <2> QED BY <1>1, <1>6, <1>8, <1>9, <2>1 DEF NoFront
<1>10. CASE "-" \notin d.flags /\ "0" \in d.flags /\ P = None
  <2>1. Padded(d, W, e, x, "0" \in d.flags /\ P = None) = e \o t \o x
    BY <1>3, <1>6, <1>10 DEF Padded
  <2> QED BY <1>1, <1>6, <1>8, <1>10, <2>1 DEF NoFront
<1>11. CASE "-" \notin d.flags /\ ~("0" \in d.flags /\ P = None)
  <2>1. Padded(d, W, e, x, "0" \in d.flags /\ P = None) = s \o e \o x
    BY <1>3, <1>6, <1>11 DEF Padded
  <2> QED BY <1>1, <1>6, <1>8, <1>11, <2>1 DEF NoFront
<1> QED BY <1>9, <1>10, <1>11

\* The string of zero.
LEMMA NumeralZero == ASSUME NEW digits \in DigitSets PROVE Numeral(0, digits) = <<"0">>
<1>1. PICK x, y : x = Numeral(0, digits) /\ y = <<"0">>
  OBVIOUS
<1>2. 0 \in Nat
  OBVIOUS
<1>3. x[1] = "0" /\ Len(x) = 1 /\ x \in Seq(Char)
  BY <1>1, <1>2, NumeralNumbered DEF Numbered
<1>4. "0" \in Char
  BY DEF Char, Literals
<1>5. y \in Seq(Char) /\ Len(y) = 1 /\ y[1] = "0"
  BY <1>1, <1>4
<1>6. \A j \in 1..1 : x[j] = y[j]
  BY <1>3, <1>5
<1>7. 1 \in Nat
  OBVIOUS
<1>8. x = y
  BY <1>3, <1>5, <1>6, <1>7, SameText
<1> QED BY <1>1, <1>8

\* The digits C has for a zero: as many as the precision asks for, one without.
LEMMA ZeroDigits ==
  ASSUME NEW d, NEW P, P \in Int, P >= -1
  PROVE  /\ P = 0 /\ Octal(d) => Digits(d, 0, P) = <<"0">>
         /\ P = 0 /\ ~Octal(d) => Digits(d, 0, P) = <<>>
         /\ P = -1 => Digits(d, 0, P) = <<"0">>
         /\ P > 0 => Digits(d, 0, P) = Times(P, "0")
<1>1. DigitsOf(d) \in DigitSets /\ 0 \in Nat
  BY DigitsOfIs
<1>2. Numeral(0, DigitsOf(d)) = <<"0">>
  BY <1>1, NumeralZero
<1>3. (CASE d.conv = "o"         -> Numeral(0, Base(8))
         [] d.conv \in {"x", "p"} -> Numeral(0, Hex)
         [] d.conv = "X"         -> Numeral(0, BigHex)
         [] OTHER                -> Numeral(0, Base(10))) = <<"0">>
  BY <1>2 DEF DigitsOf
<1>4. PICK x, y : x = (IF P = 0 THEN <<>> ELSE <<"0">>) /\ y = Times(P - Len(x), "0") \o x
  OBVIOUS
<1>5. Digits(d, 0, P) = IF Octal(d) /\ (y = <<>> \/ y[1] # "0") THEN <<"0">> \o y ELSE y
  <2>1. ~(0 < 0) /\ 0 = 0
    OBVIOUS
  <2> QED BY <1>3, <1>4, <2>1 DEF Digits, Octal
<1>6. "0" \in Char
  BY DEF Char, Literals
<1>7. <<"0">> \in Seq(Char) /\ Len(<<"0">>) = 1 /\ <<>> \in Seq(Char) /\ Len(<<>>) = 0
  BY <1>6, EmptySeq
<1>8. CASE P = 0
  <2>1. Times(P - Len(x), "0") = <<>>
    <3>1. P - Len(x) \in Int /\ P - Len(x) <= 0
      BY <1>4, <1>7, <1>8
    <3> QED BY <3>1, TimesNone
  <2>2. y = <<>>
    BY <1>4, <1>7, <1>8, <2>1, NoneJoined
  <2>3. <<"0">> \o <<>> = <<"0">>
    BY <1>7, NoneJoined
  <2>4. ~(P = -1) /\ ~(P > 0)
    BY <1>8
  <2> QED BY <1>5, <2>2, <2>3, <2>4
<1>9. CASE P = -1
  <2>1. Times(P - Len(x), "0") = <<>>
    <3>1. P - Len(x) \in Int /\ P - Len(x) <= 0
      BY <1>4, <1>7, <1>9
    <3> QED BY <3>1, TimesNone
  <2>2. x = <<"0">>
    BY <1>4, <1>9
  <2>3. y = <<"0">>
    BY <1>4, <1>7, <2>1, <2>2, NoneJoined
  <2>4. y # <<>> /\ y[1] = "0"
    BY <1>7, <2>3
  <2>5. ~(P = 0) /\ ~(P > 0)
    BY <1>9
  <2> QED BY <1>5, <2>3, <2>4, <2>5
<1>10. CASE P > 0
  <2>1. PICK n : n = P - 1 /\ n \in Nat /\ n + 1 = P
    BY <1>10
  <2>2. x = <<"0">>
    BY <1>4, <1>10
  <2>3. y = Times(P, "0")
    <3>1. Times(n, "0") \o <<"0">> = Times(n + 1, "0")
      BY <1>6, <2>1, TimesMore
    <3> QED BY <1>4, <1>7, <2>1, <2>2, <3>1
  <2>4. y # <<>> /\ y[1] = "0"
    <3>1. P \in Nat
      BY <1>10
    <3>2. Sized(y, P)
      BY <1>6, <2>3, <3>1, SizedTimes
    <3>3. Len(y) # 0
      BY <1>10, <3>2 DEF Sized
    <3>4. y # <<>>
      BY <1>7, <3>3
    <3>5. 1 \in 1..P
      BY <1>10
    <3> QED BY <2>3, <3>4, <3>5 DEF Times
  <2>5. ~(P = 0) /\ ~(P = -1)
    BY <1>10
  <2> QED BY <1>5, <2>3, <2>4, <2>5
<1> QED BY <1>8, <1>9, <1>10

\* What set_oxu comes to for a zero.
ZeroSums(W, P, o) ==
  /\ o.prec = IF P = 0 THEN 0 ELSE IF P = -1 THEN 1 ELSE P
  /\ o.len = IF P = 0 THEN W ELSE IF P = -1 THEN IF W = 0 THEN 1 ELSE W ELSE IF W >= P THEN W ELSE P

\* A zero has one digit, none at precision 0, and the width of its field.
LEMMA ZeroSumsAre ==
  ASSUME NEW d, NEW W, NEW P, Given(d, W, P), NEW ori, ori[1] = "0", Len(ori) = 1, NEW F
  PROVE  ZeroSums(W, P, set_oxu(ori, F))
<1>0. W \in Nat /\ P \in Int /\ P >= -1 /\ data.width = W /\ data.precision = P
  BY DEF Given
<1>1. PICK r, o : r = OxuPrecision(ori) /\ o = set_oxu(ori, F)
  OBVIOUS
<1>2. r = IF P = 0 THEN 0 ELSE Max({P, 1})
  BY <1>0, <1>1 DEF OxuPrecision
<1>3. Max({P, 1}) = IF P >= 1 THEN P ELSE 1
  BY <1>0 DEF Max
<1>4. r = IF P = 0 THEN 0 ELSE IF P = -1 THEN 1 ELSE P
  BY <1>0, <1>2, <1>3
<1>5. o.prec = r /\ o.len = IF W = 0 /\ r = 0 THEN 0 ELSE Max({W, 1, r})
  BY <1>0, <1>1 DEF set_oxu
<1>6. Max({W, 1, r}) \in {W, 1, r} /\ Max({W, 1, r}) >= W /\ Max({W, 1, r}) >= 1 /\ Max({W, 1, r}) >= r
  BY <1>0, <1>4 DEF Max
<1>7. o.len = IF P = 0 THEN W ELSE IF P = -1 THEN IF W = 0 THEN 1 ELSE W ELSE IF W >= P THEN W ELSE P
  BY <1>0, <1>4, <1>5, <1>6
<1> QED BY <1>1, <1>4, <1>5, <1>7 DEF ZeroSums

\* An unsigned zero is written as C says, but for the two departures.
LEMMA TextZero ==
  ASSUME NEW d, NEW W, NEW P, Given(d, W, P), Unsign(d, d.flags), d.conv # "p",
         ~({"0", "-"} \subseteq d.flags), ~(Octal(d) /\ P = 0 /\ W # 0)
  PROVE  set_print_oxu_hash(Numeral(0, DigitsOf(d)), d.flags).text
           = Padded(d, W, Lead(d, 0), Digits(d, 0, P), "0" \in d.flags /\ P = None)
<1>0. W \in Nat /\ P \in Int /\ P >= -1 /\ data.width = W /\ data.precision = P
  BY DEF Given
<1>a. (Has("-") <=> "-" \in d.flags) /\ (Has("0") <=> "0" \in d.flags) /\ (Bare <=> P = -1)
  BY DEF Given, Has, Bare
<1>1. PICK ori, o : ori = <<"0">> /\ o = set_oxu(ori, d.flags)
  OBVIOUS
<1>2. Numeral(0, DigitsOf(d)) = ori /\ ori[1] = "0" /\ Len(ori) = 1
  <2>1. DigitsOf(d) \in DigitSets
    BY DigitsOfIs
  <2> QED BY <1>1, <2>1, NumeralZero
<1>3. set_print_oxu_hash(ori, d.flags) = put_zero_oux(o, d.flags)
  BY <1>1, <1>2 DEF set_print_oxu_hash
<1>4. ZeroSums(W, P, o)
  BY <1>1, <1>2, ZeroSumsAre
<1>5. Lead(d, 0) = <<>>
  <2>1. d.conv \notin {"d", "i", "p"}
    BY DEF Unsign
  <2> QED BY <2>1 DEF Lead
<1>6. Octal(d) <=> "#" \in d.flags /\ Prefix = <<"0">>
  <2>1. Conv = d.conv /\ d.conv \in {"u", "o", "x", "X"}
    BY DEF Unsign
  <2>2. Len(<<"0", "x">>) = 2 /\ Len(<<"0", "X">>) = 2 /\ Len(<<"0">>) = 1 /\ Len(<<>>) = 0
    OBVIOUS
  <2>3. <<"0", "x">> # <<"0">> /\ <<"0", "X">> # <<"0">> /\ <<>> # <<"0">>
    BY <2>2
  <2>4. CASE d.conv = "o"
    BY <2>1, <2>4 DEF Prefix, Octal
  <2>5. CASE d.conv # "o"
    BY <2>1, <2>3, <2>5 DEF Prefix, Octal
  <2> QED BY <2>4, <2>5
<1>7. "0" \in Char
  BY DEF Char, Literals
<1>b. " " \in Char
  BY DEF Char, Literals
<1>8. PICK x, n : x = Digits(d, 0, P) /\ n = W - Len(x)
  OBVIOUS
<1>9. x \in Seq(Char) => NoFront(d, W, P, x, n)
  BY <1>0, <1>8, NoFrontIs
<1>10. CASE P = 0 /\ Octal(d)
  <2>1. W = 0
    BY <1>10
  <2>2. o.len = 0
    BY <1>4, <1>10, <2>1 DEF ZeroSums
  <2>3. put_zero_oux(o, d.flags).text = <<"0">>
    BY <1>6, <1>10, <2>2 DEF put_zero_oux, Written
  <2>4. x = <<"0">>
    BY <1>0, <1>8, <1>10, ZeroDigits
  <2>5. x \in Seq(Char) /\ Len(x) = 1
    BY <1>7, <2>4
  <2>6. n \in Int /\ n <= 0
    BY <1>8, <2>1, <2>5
  <2>7. Times(n, " ") = <<>> /\ Times(n, "0") = <<>>
    BY <2>6, TimesNone
  <2>8. x \o <<>> = x /\ <<>> \o x = x
    BY <2>5, NoneJoined
  <2>9. Padded(d, W, <<>>, x, "0" \in d.flags /\ P = None) = x
    BY <1>9, <2>5, <2>7, <2>8 DEF NoFront
  <2> QED BY <1>2, <1>3, <1>5, <1>8, <2>3, <2>4, <2>9
<1>11. CASE P = 0 /\ ~Octal(d)
  <2>1. x = <<>>
    BY <1>0, <1>8, <1>11, ZeroDigits
  <2>2. Padded(d, W, <<>>, <<>>, "0" \in d.flags /\ P = None) = Times(W, " ")
    <3>1. P # None
      BY <1>11 DEF None
    <3>2. ("0" \in d.flags /\ P = None) \in BOOLEAN /\ ~("0" \in d.flags /\ P = None)
      BY <3>1
    <3> QED BY <1>0, <3>2, NoneField
  <2>3. o.len = W /\ o.prec = 0 /\ ~Bare
    BY <1>4, <1>11, <1>a DEF ZeroSums
  <2>4. CASE W = 0
    <3>1. put_zero_oux(o, d.flags).text = <<>>
      BY <1>6, <1>11, <2>3, <2>4 DEF put_zero_oux, Written
    <3>2. W \in Int /\ W <= 0
      BY <1>0, <2>4
    <3>3. Times(W, " ") = <<>>
      BY <3>2, TimesNone
    <3> QED BY <1>2, <1>3, <1>5, <1>8, <2>1, <2>2, <3>1, <3>3
  <2>5. CASE W # 0
    <3>1. W - 0 = W
      BY <1>0
    <3>2. PICK s, z : s = Times(W, " ") /\ z = Times(0, "0")
      OBVIOUS
    <3>3. put_zero_oux(o, d.flags).text = IF Has("-") THEN z \o s ELSE s \o z
      BY <2>3, <2>5, <3>1, <3>2 DEF put_zero_oux, Written
    <3>4. 0 \in Int /\ 0 <= 0
      OBVIOUS
    <3>5. z = <<>>
      BY <3>2, <3>4, TimesNone
    <3>6. s \in Seq(Char)
      <4>1. W \in Int
        BY <1>0
      <4> QED BY <1>b, <3>2, <4>1, TimesText
    <3>7. z \o s = s /\ s \o z = s
      BY <3>5, <3>6, NoneJoined
    <3> QED BY <1>2, <1>3, <1>5, <1>8, <2>1, <2>2, <3>2, <3>3, <3>7
  <2> QED BY <2>4, <2>5
<1>12. CASE P = -1
  <2>1. x = <<"0">>
    BY <1>0, <1>8, <1>12, ZeroDigits
  <2>2. x \in Seq(Char) /\ Len(x) = 1
    BY <1>7, <2>1
  <2>3. PICK l, m : l = o.len /\ m = l - 1
    OBVIOUS
  <2>4. l = IF W = 0 THEN 1 ELSE W
    BY <1>4, <1>12, <2>3 DEF ZeroSums
  <2>5. l \in Nat /\ l # 0 /\ m \in Nat /\ m + 1 = l /\ Same(m, n)
    <3>1. l \in Nat /\ l # 0 /\ m \in Nat /\ m + 1 = l
      BY <1>0, <2>3, <2>4
    <3>2. n = W - 1 /\ n \in Int
      <4>1. n = W - 1
        BY <1>8, <2>2
      <4>2. W \in Nat
        BY <1>0
      <4> QED BY <4>1, <4>2
    <3>3. m = n \/ (m <= 0 /\ n <= 0)
      BY <1>0, <2>3, <2>4, <3>2
    <3> QED BY <3>1, <3>2, <3>3 DEF Same
  <2>6. Bare /\ P = None
    BY <1>12, <1>a DEF None
  <2>7. put_zero_oux(o, d.flags).text = IF Has("0") THEN Times(l, "0")
                                        ELSE IF Has("-") THEN <<"0">> \o Times(m, " ")
                                        ELSE Times(m, " ") \o <<"0">>
    BY <2>3, <2>5, <2>6 DEF put_zero_oux, Written
  <2>8. Times(m, " ") = Times(n, " ") /\ Times(m, "0") = Times(n, "0")
    BY <2>5, TimesSame
  <2>9. Times(m, "0") \o <<"0">> = Times(l, "0")
    <3>1. Times(m, "0") \o <<"0">> = Times(m + 1, "0")
      BY <1>7, <2>5, TimesMore
    <3> QED BY <2>5, <3>1
  <2>10. NoFront(d, W, P, x, n)
    BY <1>9, <2>2
  <2>11. CASE "0" \in d.flags
    <3>1. "-" \notin d.flags
      BY <2>11
    <3>2. Padded(d, W, <<>>, x, "0" \in d.flags /\ P = None) = Times(n, "0") \o x
      BY <2>6, <2>10, <2>11, <3>1 DEF NoFront
    <3> QED BY <1>2, <1>3, <1>5, <1>8, <1>a, <2>1, <2>7, <2>8, <2>9, <2>11, <3>2
  <2>12. CASE "0" \notin d.flags /\ "-" \in d.flags
    <3>1. Padded(d, W, <<>>, x, "0" \in d.flags /\ P = None) = x \o Times(n, " ")
      BY <2>10, <2>12 DEF NoFront
    <3> QED BY <1>2, <1>3, <1>5, <1>8, <1>a, <2>1, <2>7, <2>8, <2>12, <3>1
  <2>13. CASE "0" \notin d.flags /\ "-" \notin d.flags
    <3>1. Padded(d, W, <<>>, x, "0" \in d.flags /\ P = None) = Times(n, " ") \o x
      BY <2>10, <2>13 DEF NoFront
    <3> QED BY <1>2, <1>3, <1>5, <1>8, <1>a, <2>1, <2>7, <2>8, <2>13, <3>1
  <2> QED BY <2>11, <2>12, <2>13
<1>13. CASE P > 0
  <2>1. x = Times(P, "0")
    BY <1>0, <1>8, <1>13, ZeroDigits
  <2>2. x \in Seq(Char) /\ Len(x) = P
    <3>1. P \in Nat
      BY <1>0, <1>13
    <3> QED BY <1>7, <2>1, <3>1, SizedTimes DEF Sized
  <2>3. PICK l, m : l = o.len /\ m = l - P
    OBVIOUS
  <2>4. l = (IF W >= P THEN W ELSE P) /\ o.prec = P
    BY <1>0, <1>4, <1>13, <2>3 DEF ZeroSums
  <2>5. l \in Nat /\ l # 0 /\ Same(m, n)
    BY <1>0, <1>8, <1>13, <2>2, <2>3, <2>4 DEF Same
  <2>6. ~Bare /\ P # None
    <3>1. P # -1
      BY <1>13
    <3> QED BY <1>a, <3>1 DEF None
  <2>7. put_zero_oux(o, d.flags).text = IF Has("-") THEN x \o Times(m, " ") ELSE Times(m, " ") \o x
    BY <2>1, <2>3, <2>4, <2>5, <2>6 DEF put_zero_oux, Written
  <2>8. Times(m, " ") = Times(n, " ")
    BY <2>5, TimesSame
  <2>9. NoFront(d, W, P, x, n)
    BY <1>9, <2>2
  <2>10. CASE "-" \in d.flags
    <3>1. Padded(d, W, <<>>, x, "0" \in d.flags /\ P = None) = x \o Times(n, " ")
      BY <2>9, <2>10 DEF NoFront
    <3> QED BY <1>2, <1>3, <1>5, <1>8, <1>a, <2>7, <2>8, <2>10, <3>1
  <2>11. CASE "-" \notin d.flags
    <3>1. Padded(d, W, <<>>, x, "0" \in d.flags /\ P = None) = Times(n, " ") \o x
      BY <2>6, <2>9, <2>11 DEF NoFront
    <3> QED BY <1>2, <1>3, <1>5, <1>8, <1>a, <2>7, <2>8, <2>11, <3>1
  <2> QED BY <2>10, <2>11
<1> QED BY <1>0, <1>10, <1>11, <1>12, <1>13

\* The length modifier is where its letters are.
LEMMA Letters ==
  ASSUME NEW q, NEW d, NEW k, NEW e, Amid(q, d, k, e), NEW c \in {"h", "l", "j", "z"}, NEW m \in 1..ConvAt(d)
  PROVE  format[e + m] = c <=> m > LengthAt(d) /\ m < ConvAt(d) /\ d.length[m - LengthAt(d)] = c
<1>1. Conversion(d) /\ ~IsOpen(d) /\ Shape(d, e)
  BY DEF Amid, Reading
<1>2. PICK x, y, z, l, t : x = WidthAt(d) /\ y = PrecAt(d) /\ z = NumAt(d) /\ l = LengthAt(d) /\ t = ConvAt(d)
  OBVIOUS
<1>3. /\ x \in Nat /\ y \in Nat /\ z \in Nat /\ l \in Nat /\ t \in Nat /\ m \in Nat
      /\ 1 <= x /\ x <= y /\ y <= z /\ z <= l /\ l < t /\ 1 <= m /\ m <= t
  <2>1. /\ x \in Nat /\ y \in Nat /\ z \in Nat /\ l \in Nat /\ t \in Nat
        /\ 1 <= x /\ x <= y /\ y <= z /\ z <= l /\ l < t
    BY <1>1, <1>2 DEF Shape
  <2>2. m \in 1..t
    BY <1>2
  <2> QED BY <2>1, <2>2
<1>4. /\ d.width \in {None, Star} \cup Nat /\ d.prec \in {None, Star} \cup Nat
      /\ z = IF d.prec = None THEN y ELSE y + 1
  BY <1>1, <1>2, SomeNumber DEF Shape
<1>5. ASSUME NEW w, w \in {None, Star} \cup Nat, NEW h \in 1..Len(Number(w)) PROVE Number(w)[h] # c
  <2>1. CASE w = None
    <3>1. Len(Number(w)) = 0
      BY <2>1, NumberIs
    <3> QED BY <3>1
  <2>2. CASE w = Star
    <3>1. Len(Number(w)) = 1 /\ Number(w)[1] = "*"
      BY <2>2, NumberIs
    <3>2. h = 1
      BY <3>1
    <3> QED BY <3>1, <3>2
  <2>3. CASE w \in Nat
    <3>1. Number(w)[h] \in Decimal
      BY <2>3, NumberIs
    <3>2. Number(w)[h] \notin {"h", "l", "j", "z"}
      BY <3>1, DecimalIs
    <3> QED BY <3>2
  <2> QED BY <1>5, <2>1, <2>2, <2>3
<1>6. CASE m <= x
  <2>1. format[e + 1] = "%" /\ \A j \in 2..x : format[e + j] \in {"#", "-", "+", " ", "0"}
    BY <1>1, <1>2 DEF Shape
  <2>2. m = 1 \/ m \in 2..x
    BY <1>3, <1>6
  <2>3. format[e + m] # c
    BY <2>1, <2>2
  <2>4. ~(m > l)
    BY <1>3, <1>6
  <2> QED BY <1>2, <2>3, <2>4
<1>7. CASE m > x /\ m <= y
  <2>1. PICK h : h = m - x
    OBVIOUS
  <2>2. m \in (x + 1)..y /\ h \in 1..Len(Number(d.width)) /\ ~(m > l)
    <3>1. y = x + Len(Number(d.width)) /\ Len(Number(d.width)) \in Nat
      BY <1>1, <1>2, PartsAre DEF PrecAt
    <3> QED BY <1>3, <1>7, <2>1, <3>1
  <2>3. format[e + m] = Number(d.width)[h]
    BY <1>1, <1>2, <2>1, <2>2 DEF Shape
  <2> QED BY <1>2, <1>4, <1>5, <2>2, <2>3
<1>8. CASE m > y /\ m <= z
  <2>1. d.prec # None /\ m = y + 1 /\ ~(m > l)
    BY <1>3, <1>4, <1>8
  <2>2. format[e + (y + 1)] = "."
    BY <1>1, <1>2, <2>1 DEF Shape
  <2> QED BY <1>2, <2>1, <2>2
<1>9. CASE m > z /\ m <= l
  <2>1. PICK h : h = m - z
    OBVIOUS
  <2>2. m \in (z + 1)..l /\ h \in 1..Len(Number(d.prec)) /\ ~(m > l)
    <3>1. l = z + Len(Number(d.prec)) /\ Len(Number(d.prec)) \in Nat
      BY <1>1, <1>2, PartsAre DEF LengthAt
    <3> QED BY <1>3, <1>9, <2>1, <3>1
  <2>3. format[e + m] = Number(d.prec)[h]
    BY <1>1, <1>2, <2>1, <2>2 DEF Shape
  <2> QED BY <1>2, <1>4, <1>5, <2>2, <2>3
<1>10. CASE m > l /\ m < t
  <2>1. m \in (l + 1)..(t - 1)
    BY <1>3, <1>10
  <2>2. format[e + m] = d.length[m - l]
    BY <1>1, <1>2, <2>1 DEF Shape
  <2> QED BY <1>2, <1>10, <2>2
<1>11. CASE m = t
  <2>1. format[e + m] = d.conv /\ ~(m < t)
    <3>1. format[e + ConvAt(d)] = d.conv
      BY <1>1 DEF Shape
    <3> QED BY <1>2, <1>3, <1>11, <3>1
  <2>2. d.conv # c
    BY <1>1 DEF Conversion, is_f, IsOpen
  <2> QED BY <1>2, <2>1, <2>2
<1> QED BY <1>3, <1>6, <1>7, <1>8, <1>9, <1>10, <1>11


\* What is found of the letter c in a directive: the places of it in the length modifier.
LEMMA WithinIs ==
  ASSUME NEW q, NEW d, NEW k, NEW e, Amid(q, d, k, e), NEW c \in {"h", "l", "j", "z"}
  PROVE  Within(c) = {e + (LengthAt(d) + j) : j \in {h \in 1..Len(d.length) : d.length[h] = c}}
<1>1. Conversion(d) /\ Shape(d, e) /\ i = e + 1 /\ stop = e + ConvAt(d)
  BY DEF Amid, Reading
<1>2. PICK l, t, n : l = LengthAt(d) /\ t = ConvAt(d) /\ n = Len(d.length)
  OBVIOUS
<1>3. l \in Nat /\ t \in Nat /\ n \in Nat /\ e \in Nat /\ 1 <= l /\ t = l + n + 1
  <2>0. /\ WidthAt(d) \in Nat /\ PrecAt(d) \in Nat /\ NumAt(d) \in Nat /\ l \in Nat /\ t \in Nat /\ e \in Nat
        /\ 1 <= WidthAt(d) /\ WidthAt(d) <= PrecAt(d) /\ PrecAt(d) <= NumAt(d) /\ NumAt(d) <= l
    BY <1>1, <1>2 DEF Shape
  <2>1. l \in Nat /\ t \in Nat /\ e \in Nat /\ 1 <= l
    BY <2>0
  <2>2. n \in Nat
    BY <1>1, <1>2, PartsAre
  <2>3. t = l + n + 1
    BY <1>2 DEF ConvAt
  <2> QED BY <2>1, <2>2, <2>3
<1>4. ASSUME NEW r \in Within(c) PROVE \E j \in 1..n : d.length[j] = c /\ r = e + (l + j)
  <2>1. r \in i..stop /\ format[r] = c
    BY DEF Within
  <2>2. PICK m : m = r - e
    OBVIOUS
  <2>3. m \in 1..t /\ r = e + m
    BY <1>1, <1>2, <1>3, <2>1, <2>2
  <2>4. m > l /\ m < t /\ d.length[m - l] = c
    BY <1>2, <2>1, <2>3, Letters
  <2>5. PICK j : j = m - l
    OBVIOUS
  <2>6. j \in 1..n /\ m = l + j
    BY <1>3, <2>3, <2>4, <2>5
  <2> QED BY <2>3, <2>4, <2>5, <2>6
<1>5. ASSUME NEW j \in 1..n, d.length[j] = c PROVE e + (l + j) \in Within(c)
  <2>1. PICK m : m = l + j
    OBVIOUS
  <2>a. i = e + 1 /\ stop = e + t
    BY <1>1, <1>2
  <2>2. m \in 1..t /\ m > l /\ m < t /\ m - l = j /\ e + m \in i..stop
    BY <1>3, <2>1, <2>a
  <2>3. format[e + m] = c
    BY <1>2, <1>5, <2>2, Letters
  <2> QED BY <2>1, <2>2, <2>3 DEF Within
<1> QED BY <1>2, <1>4, <1>5

\* set_cast finds the length modifier that the directive has.
Cast(d) ==
  /\ d.length = <<>> => set_cast = "none"
  /\ d.length = <<"h">> => set_cast = "h"
  /\ d.length = <<"h", "h">> => set_cast = "hh"
  /\ d.length \notin {<<>>, <<"h">>, <<"h", "h">>} => set_cast \in {"l", "ll", "j", "z"}

\* The characters that ft_strnchr_double counts are those of the modifier.
LEMMA CastIs ==
  ASSUME NEW q, NEW d, NEW k, NEW e, Amid(q, d, k, e) PROVE Cast(d)
<1>1. PICK x, n : x = d.length /\ n = Len(x)
  OBVIOUS
<1>2. x \in Lengths
  BY <1>1 DEF Amid, Reading, Conversion
<1>3. ASSUME NEW c \in {"h", "l", "j", "z"}
      PROVE  Within(c) = {e + (LengthAt(d) + j) : j \in {h \in 1..n : x[h] = c}}
  BY <1>1, WithinIs
<1>4. LengthAt(d) \in Nat /\ e \in Nat
  BY DEF Amid, Shape
<1>5. PICK r : r = e + (LengthAt(d) + 1)
  OBVIOUS
<1>6. r \in Nat /\ e + (LengthAt(d) + 2) = r + 1
  BY <1>4, <1>5
<1>7. ASSUME NEW c \in {"h", "l", "j", "z"}, \A h \in 1..n : x[h] # c PROVE Within(c) = {}
  BY <1>3, <1>7
<1>8. ASSUME NEW c \in {"h", "l", "j", "z"}, n \in Nat, n >= 1, x[1] = c PROVE Within(c) # {}
  <2>1. 1 \in {h \in 1..n : x[h] = c}
    BY <1>8
  <2> QED BY <1>3, <2>1
<1>9. CASE x = <<>>
  <2>1. n = 0
    BY <1>1, <1>9
  <2>2. \A c \in {"h", "l", "j", "z"} : Within(c) = {}
    BY <1>7, <2>1
  <2>3. set_cast = "none"
    BY <2>2 DEF set_cast
  <2>4. <<>> # <<"h">> /\ <<>> # <<"h", "h">>
    OBVIOUS
  <2> QED BY <1>1, <1>9, <2>3, <2>4 DEF Cast
<1>10. CASE x = <<"h">>
  <2>1. n = 1 /\ x[1] = "h"
    BY <1>1, <1>10
  <2>2. Within("h") = {r}
    <3>1. {h \in 1..n : x[h] = "h"} = {1}
      BY <2>1
    <3>2. Within("h") = {e + (LengthAt(d) + j) : j \in {1}}
      BY <1>3, <3>1
    <3> QED BY <1>5, <3>2
  <2>3. format[r] = "h"
    BY <2>2 DEF Within
  <2>4. Run("h") = {r}
    <3>1. Run("h") \subseteq {r}
      BY <2>2 DEF Run
    <3>2. Min({r}) = r
      BY <1>6 DEF Min
    <3>3. r..r = {r}
      BY <1>6
    <3>5. Min(Within("h")) = r
      BY <2>2, <3>2
    <3>6. \A s \in r..r : format[s] = "h"
      BY <2>3, <3>3
    <3>4. \A s \in Min(Within("h"))..r : format[s] = "h"
      BY <3>5, <3>6
    <3> QED BY <2>2, <3>1, <3>4 DEF Run
  <2>5. Cardinality(Run("h")) = 1
    BY <2>4, FS_Singleton
  <2>6. 1 % 2 # 0
    OBVIOUS
  <2>7. set_cast = "h"
    BY <2>2, <2>5, <2>6 DEF set_cast
  <2>8. <<"h">> # <<>> /\ <<"h">> # <<"h", "h">>
    OBVIOUS
  <2> QED BY <1>1, <1>10, <2>7, <2>8 DEF Cast
<1>11. CASE x = <<"h", "h">>
  <2>1. n = 2 /\ x[1] = "h" /\ x[2] = "h"
    BY <1>1, <1>11
  <2>2. Within("h") = {r, r + 1}
    <3>1. {h \in 1..n : x[h] = "h"} = {1, 2}
      BY <2>1
    <3>2. Within("h") = {e + (LengthAt(d) + j) : j \in {1, 2}}
      BY <1>3, <3>1
    <3> QED BY <1>5, <1>6, <3>2
  <2>3. format[r] = "h" /\ format[r + 1] = "h"
    BY <2>2 DEF Within
  <2>4. Run("h") = {r, r + 1}
    <3>1. Run("h") \subseteq {r, r + 1}
      BY <2>2 DEF Run
    <3>2. Min({r, r + 1}) = r
      BY <1>6 DEF Min
    <3>3. ASSUME NEW s \in {r, r + 1} PROVE s \in Run("h")
      <4>1. \A u \in r..s : u = r \/ u = r + 1
        BY <1>6
      <4>2. \A u \in r..s : format[u] = "h"
        BY <2>3, <4>1
      <4> QED BY <2>2, <3>2, <4>2 DEF Run
    <3> QED BY <3>1, <3>3
  <2>5. Cardinality(Run("h")) = 2
    <3>1. Cardinality({r + 1}) = 1 /\ IsFiniteSet({r + 1}) /\ r \notin {r + 1}
      BY <1>6, FS_Singleton
    <3>2. Cardinality({r + 1} \cup {r}) = 1 + 1
      BY <3>1, FS_AddElement
    <3>3. {r + 1} \cup {r} = {r, r + 1}
      OBVIOUS
    <3> QED BY <2>4, <3>2, <3>3
  <2>6. 2 % 2 = 0
    OBVIOUS
  <2>7. set_cast = "hh"
    BY <2>2, <2>5, <2>6 DEF set_cast
  <2>8. <<"h", "h">> # <<>> /\ <<"h">> # <<"h", "h">>
    OBVIOUS
  <2> QED BY <1>1, <1>11, <2>7, <2>8 DEF Cast
<1>12. CASE x \in {<<"l">>, <<"l", "l">>, <<"j">>, <<"z">>}
  <2>1. n \in Nat /\ n >= 1 /\ x[1] \in {"l", "j", "z"} /\ \A h \in 1..n : x[h] # "h"
    <3>1. CASE x = <<"l">>
      BY <1>1, <3>1
    <3>2. CASE x = <<"l", "l">>
      BY <1>1, <3>2
    <3>3. CASE x = <<"j">>
      BY <1>1, <3>3
    <3>4. CASE x = <<"z">>
      BY <1>1, <3>4
    <3> QED BY <1>12, <3>1, <3>2, <3>3, <3>4
  <2>2. Within("h") = {}
    BY <1>7, <2>1
  <2>3. Within("l") # {} \/ Within("j") # {} \/ Within("z") # {}
    BY <1>8, <2>1
  <2>4. set_cast \in {"l", "ll", "j", "z"}
    BY <2>2, <2>3 DEF set_cast
  <2>5. x # <<>> /\ x # <<"h">> /\ x # <<"h", "h">>
    <3>1. 1 \in 1..n
      BY <2>1
    <3>2. x[1] # "h"
      BY <2>1, <3>1
    <3>3. x # <<>>
      BY <1>1, <2>1
    <3> QED BY <3>2, <3>3
  <2> QED BY <1>1, <2>4, <2>5 DEF Cast
<1> QED BY <1>2, <1>9, <1>10, <1>11, <1>12 DEF Lengths

-----------------------------------------------------------------------------
(***************************************************************************)
(* Remainders, and the type of a directive.                                *)
(***************************************************************************)

\* There is one remainder.
LEMMA Remainder ==
  ASSUME NEW b \in Nat \ {0}, NEW x \in Nat, NEW q \in Int, NEW r \in 0..(b - 1), x = b * q + r
  PROVE  x % b = r
<1>1. PICK s, t : s = x \div b /\ t = x % b
  OBVIOUS
<1>2. s \in Int /\ t \in 0..(b - 1) /\ x = b * s + t
  BY <1>1
<1>3. b * (q - s) = t - r
  BY <1>2
<1>4. PICK h : h = q - s /\ h \in Int
  BY <1>2
<1>5. ASSUME h >= 1 PROVE FALSE
  <2>1. b * h >= b
    BY <1>4, <1>5
  <2> QED BY <1>2, <1>3, <1>4, <2>1
<1>6. ASSUME h <= -1 PROVE FALSE
  <2>1. b * h <= -b
    BY <1>4, <1>6
  <2> QED BY <1>2, <1>3, <1>4, <2>1
<1>7. h = 0
  BY <1>4, <1>5, <1>6
<1> QED BY <1>1, <1>2, <1>3, <1>4, <1>7

\* A number below the modulus is its own remainder.
LEMMA SmallRemainder == ASSUME NEW b \in Nat \ {0}, NEW x \in 0..(b - 1) PROVE x % b = x
<1>1. x \in Nat /\ x = b * 0 + x
  OBVIOUS
<1> QED BY <1>1, Remainder

\* The remainder of a remainder, where one modulus divides the other.
LEMMA RemainderOf ==
  ASSUME NEW b \in Nat \ {0}, NEW m \in Nat \ {0}, m % b = 0, NEW x \in Nat
  PROVE  (x % m) % b = x % b /\ x % m \in Nat /\ x % b \in 0..(b - 1)
<1>1. PICK r, q : r = x % m /\ q = x \div m
  OBVIOUS
<1>2. r \in Nat /\ q \in Int /\ x = m * q + r
  BY <1>1
<1>3. PICK c : c = m \div b /\ c \in Int /\ m = b * c
  BY Z3
<1>4. PICK s, t : s = r \div b /\ t = r % b
  OBVIOUS
<1>5. s \in Int /\ t \in 0..(b - 1) /\ r = b * s + t
  BY <1>2, <1>4
<1>6. PICK u : u = c * q + s /\ u \in Int
  BY <1>2, <1>3, <1>5
<1>7. x = b * u + t
  <2>1. m * q = b * (c * q)
    BY <1>2, <1>3
  <2>2. b * u = b * (c * q) + b * s
    <3>1. PICK h : h = c * q /\ h \in Int /\ u = h + s
      BY <1>2, <1>3, <1>6
    <3>2. b * (h + s) = b * h + b * s
      BY <1>5, <3>1
    <3> QED BY <3>1, <3>2
  <2> QED BY <1>2, <1>3, <1>5, <2>1, <2>2
<1>8. x % b = t
  BY <1>5, <1>6, <1>7, Remainder
<1> QED BY <1>1, <1>2, <1>4, <1>5, <1>8

\* The sign of a number is that of its remainder.
LEMMA SignedOf ==
  ASSUME NEW b \in Nat \ {0}, NEW x \in Nat PROVE Signed(x % b, b) = Signed(x, b)
<1>1. PICK r : r = x % b /\ r \in 0..(b - 1)
  OBVIOUS
<1>2. r % b = r
  BY <1>1, SmallRemainder
<1> QED BY <1>1, <1>2 DEF Signed

\* The modulus of the type that a directive's length says.
Narrow(d) ==
  /\ Modulus(d) \in Nat \ {0}
  /\ set_cast \in {"none", "h", "hh"} => Modulus(d) \in {IntMod, ShortMod, CharMod} /\ IntMod % Modulus(d) = 0
  /\ set_cast \notin {"none", "h", "hh"} => Modulus(d) = LongMod
  /\ Conv # "D" => \A slot : SignedOri(slot) = ft_itoa(Signed(slot, Modulus(d)))

\* cast_nu_d narrows to that type.
LEMMA NarrowIs == ASSUME NEW d, Cast(d) PROVE Narrow(d)
<1>1. /\ {CharMod, ShortMod, IntMod, LongMod} \subseteq Nat \ {0}
      /\ IntMod % CharMod = 0 /\ IntMod % ShortMod = 0
  BY CallsAssumption
<1>2. IntMod % IntMod = 0
  BY <1>1
<1>3. PICK x : x = d.length
  OBVIOUS
<1>4. /\ <<"h">> # <<>> /\ <<"h", "h">> # <<>> /\ <<"h">> # <<"h", "h">>
  OBVIOUS
<1>5. CASE x = <<>>
  <2>1. set_cast = "none"
    BY <1>3, <1>5 DEF Cast
  <2>2. Modulus(d) = IntMod
    BY <1>3, <1>4, <1>5 DEF Modulus
  <2>3. Conv # "D" => \A slot : SignedOri(slot) = ft_itoa(Signed(slot, Modulus(d)))
    BY <2>1, <2>2 DEF SignedOri
  <2> QED BY <1>1, <1>2, <2>1, <2>2, <2>3 DEF Narrow
<1>6. CASE x = <<"h">>
  <2>1. set_cast = "h"
    BY <1>3, <1>6 DEF Cast
  <2>2. Modulus(d) = ShortMod
    BY <1>3, <1>4, <1>6 DEF Modulus
  <2>3. Conv # "D" => \A slot : SignedOri(slot) = ft_itoa(Signed(slot, Modulus(d)))
    BY <2>1, <2>2 DEF SignedOri
  <2> QED BY <1>1, <1>2, <2>1, <2>2, <2>3 DEF Narrow
<1>7. CASE x = <<"h", "h">>
  <2>1. set_cast = "hh"
    BY <1>3, <1>7 DEF Cast
  <2>2. Modulus(d) = CharMod
    BY <1>3, <1>4, <1>7 DEF Modulus
  <2>3. Conv # "D" => \A slot : SignedOri(slot) = ft_itoa(Signed(slot, Modulus(d)))
    BY <2>1, <2>2 DEF SignedOri
  <2> QED BY <1>1, <1>2, <2>1, <2>2, <2>3 DEF Narrow
<1>8. CASE x \notin {<<>>, <<"h">>, <<"h", "h">>}
  <2>1. set_cast \in {"l", "ll", "j", "z"}
    BY <1>3, <1>8 DEF Cast
  <2>2. Modulus(d) = LongMod
    BY <1>3, <1>8 DEF Modulus
  <2>3. set_cast \notin {"none", "h", "hh"}
    BY <2>1
  <2>4. Conv # "D" => \A slot : SignedOri(slot) = ft_itoa(Signed(slot, Modulus(d)))
    BY <2>2, <2>3 DEF SignedOri
  <2> QED BY <1>1, <2>2, <2>3, <2>4 DEF Narrow
<1> QED BY <1>5, <1>6, <1>7, <1>8

\* The number an unsigned conversion shows is the argument in its type, where the
\* type is not narrower than the code has it.
LEMMA UnsignedC ==
  ASSUME NEW d, Narrow(d), Conv = d.conv, d.conv \in Unsigned, NEW slot \in Nat, slot < LongMod,
         ~(slot % IntMod >= Modulus(d))
  PROVE  UnsignedArg(slot) = slot % Modulus(d) /\ slot % Modulus(d) \in Nat
<1>1. PICK m : m = Modulus(d) /\ m \in Nat \ {0}
  BY DEF Narrow
<1>2. {IntMod, LongMod} \subseteq Nat \ {0}
  BY CallsAssumption
<1>3. Conv \notin {"O", "U"}
  BY DEF Unsigned
<1>4. slot % m \in Nat /\ slot % IntMod \in Nat
  BY <1>1, <1>2
<1>5. CASE set_cast \in {"none", "h", "hh"}
  <2>1. IntMod % m = 0
    BY <1>1, <1>5 DEF Narrow
  <2>2. (slot % IntMod) % m = slot % m
    <3>1. IntMod \in Nat \ {0}
      BY <1>2
    <3> QED BY <1>1, <2>1, <3>1, RemainderOf
  <2>3. slot % IntMod \in 0..(m - 1)
    BY <1>1, <1>4
  <2>4. slot % IntMod = slot % m
    BY <1>1, <2>2, <2>3, SmallRemainder
  <2> QED BY <1>1, <1>3, <1>4, <1>5, <2>4 DEF UnsignedArg
<1>6. CASE set_cast \notin {"none", "h", "hh"}
  <2>1. m = LongMod
    BY <1>1, <1>6 DEF Narrow
  <2>2. slot \in 0..(m - 1)
    BY <1>1, <2>1
  <2>3. slot % m = slot
    BY <1>1, <2>2, SmallRemainder
  <2> QED BY <1>1, <1>3, <1>4, <1>6, <2>3 DEF UnsignedArg
<1> QED BY <1>5, <1>6

\* Its string.
LEMMA UnsignedText ==
  ASSUME NEW d, Conv = d.conv, d.conv \in Unsigned, NEW slot
  PROVE  UnsignedOri(slot) = Numeral(UnsignedArg(slot), DigitsOf(d))
BY DEF UnsignedOri, DigitsOf, Unsigned

\* What is left of the departures.
Agrees(d, k) ==
  LET slot == LastArg(d, k).slot
      zero == slot % Modulus(d) = 0 IN
  /\ d.conv \in Unsigned => ~(slot % IntMod >= Modulus(d))
  /\ d.conv \in {"d", "i"} /\ zero /\ PrecisionOf(d, k) = 0 => Signless(d)
  /\ d.conv = "o" /\ "#" \in d.flags /\ zero /\ PrecisionOf(d, k) = 0 => WidthOf(d, k) = 0
  /\ d.conv \in Unsigned /\ zero => ~({"0", "-"} \subseteq d.flags)
  /\ ~(WidthOf(d, k) < 0)
  /\ d.conv = "c" => Len(LastArg(d, k).text) = 1

\* It is the negation of Departs, conjunct by conjunct.
LEMMA AgreesIs == ASSUME NEW d, NEW k, ~Departs(d, k) PROVE Agrees(d, k)
BY Zenon DEF Departs, Agrees, Signless

\* The directives this is about, and what set_flags has come to for one.
Meant(d, k) == InC(d) /\ Agrees(d, k) /\ (d.conv = "s" => LastArg(d, k).slot # 0)

\* The flags, width and precision of such a directive are what C takes them to be.
LEMMA GivenC ==
  ASSUME NEW q, NEW d, NEW k, NEW e, Amid(q, d, k, e), Ready(q, d, k, e), Meant(d, k)
  PROVE  Given(d, WidthOf(d, k), PrecisionOf(d, k)) /\ First(d, k) = k
<1>1. First(d, k) = k
  BY DEF Meant, InC, First
<1>2. Field /\ WidthOf(d, k) \in Int
  BY <1>1, FieldIs
<1>3. ~(WidthOf(d, k) < 0)
  BY DEF Meant, Agrees
<1>4. data = [flags |-> d.flags, width |-> WidthOf(d, k), precision |-> PrecisionOf(d, k)]
  BY <1>1, <1>3 DEF Ready, Size
<1> QED BY <1>1, <1>2, <1>3, <1>4 DEF Given, Field

\* A signed conversion.
LEMMA SignedC ==
  ASSUME NEW d, NEW k, NEW W, NEW P, W = WidthOf(d, k), P = PrecisionOf(d, k), Given(d, W, P), Meant(d, k),
         Narrow(d), Conv = d.conv, d.conv \in {"d", "i"}, NEW slot \in Nat, slot = LastArg(d, k).slot
  PROVE  set_print_d(SignedOri(slot)).text = TextInC(d, k)
<1>1. PICK m : m = Modulus(d) /\ m \in Nat \ {0}
  BY DEF Narrow
<1>2. PICK w, v : w = slot % m /\ v = Signed(w, m)
  OBVIOUS
<1>3. w \in 0..(m - 1) /\ v \in Int
  <2>1. w \in 0..(m - 1)
    BY <1>1, <1>2
  <2>2. w \in Int
    BY <2>1
  <2> QED BY <1>1, <1>2, <2>1, <2>2, SignedInt
<1>4. v = Signed(slot, m)
  BY <1>1, <1>2, SignedOf
<1>5. SignedOri(slot) = ft_itoa(v)
  BY <1>1, <1>4 DEF Narrow
<1>6. TextInC(d, k) = Padded(d, W, Lead(d, v), Digits(d, v, P), "0" \in d.flags /\ P = None)
  BY <1>1, <1>2 DEF TextInC
<1>7. v = 0 => w = 0
  <2>1. w % m = w
    BY <1>1, <1>3, SmallRemainder
  <2>2. v = IF w >= m \div 2 THEN w - m ELSE w
    BY <1>2, <2>1 DEF Signed
  <2> QED BY <1>1, <1>3, <2>2
<1>8. CASE ~(v = 0 /\ P = 0)
  BY <1>3, <1>5, <1>6, <1>8, TextD
<1>9. CASE v = 0 /\ P = 0
  <2>1. slot % Modulus(d) = 0
    BY <1>1, <1>2, <1>7, <1>9
  <2>2. Signless(d)
    BY <1>9, <2>1 DEF Meant, Agrees
  <2> QED BY <1>5, <1>6, <1>9, <2>2, TextNought
<1> QED BY <1>8, <1>9

\* An unsigned one.
LEMMA UnsignedTextC ==
  ASSUME NEW d, NEW k, NEW W, NEW P, W = WidthOf(d, k), P = PrecisionOf(d, k), Given(d, W, P), Meant(d, k),
         Narrow(d), Conv = d.conv, d.conv \in Unsigned, NEW slot \in Nat, slot = LastArg(d, k).slot, slot < LongMod
  PROVE  set_print_oxu_hash(UnsignedOri(slot), data.flags).text = TextInC(d, k)
<1>1. PICK v : v = slot % Modulus(d)
  OBVIOUS
<1>2. UnsignedArg(slot) = v /\ v \in Nat
  <2>1. ~(slot % IntMod >= Modulus(d))
    BY DEF Meant, Agrees
  <2> QED BY <1>1, <2>1, UnsignedC
<1>3. UnsignedOri(slot) = Numeral(v, DigitsOf(d))
  BY <1>2, UnsignedText
<1>4. data.flags = d.flags
  BY DEF Given
<1>5. Unsign(d, d.flags)
  BY DEF Unsign, Unsigned, Meant, InC
<1>6. TextInC(d, k) = Padded(d, W, Lead(d, v), Digits(d, v, P), "0" \in d.flags /\ P = None)
  <2>1. d.conv \notin {"%", "c", "s", "d", "i", "p"}
    BY DEF Unsigned
  <2> QED BY <1>1, <2>1 DEF TextInC
<1>7. CASE v # 0
  BY <1>2, <1>3, <1>4, <1>5, <1>6, <1>7, TextUnsigned
<1>8. CASE v = 0
  <2>1. ~({"0", "-"} \subseteq d.flags)
    BY <1>1, <1>8 DEF Meant, Agrees
  <2>2. ~(Octal(d) /\ P = 0 /\ W # 0)
    BY <1>1, <1>8 DEF Meant, Agrees, Octal
  <2>3. d.conv # "p"
    BY DEF Unsigned
  <2>4. set_print_oxu_hash(Numeral(0, DigitsOf(d)), d.flags).text
          = Padded(d, W, Lead(d, 0), Digits(d, 0, P), "0" \in d.flags /\ P = None)
    BY <1>5, <2>1, <2>2, <2>3, TextZero
  <2> QED BY <1>3, <1>4, <1>6, <1>8, <2>4
<1> QED BY <1>7, <1>8

\* The pointer NULL: its prefix counts as its text.
LEMMA NullC ==
  ASSUME NEW d, NEW W, NEW P, Given(d, W, P), d.conv = "p", "0" \notin d.flags, P = None
  PROVE  InField(<<"0", "x", "0">>, " ").text
           = Padded(d, W, Lead(d, 0), Digits(d, 0, P), "0" \in d.flags /\ P = None)
<1>1. PICK x, y, z : x = <<"0", "x", "0">> /\ y = <<"0", "x">> /\ z = <<"0">>
  OBVIOUS
<1>2. x = y \o z /\ Len(x) = 3 /\ Len(y) = 2 /\ Len(z) = 1
  BY <1>1
<1>3. x \in Seq(Char) /\ y \in Seq(Char) /\ z \in Seq(Char)
  <2>1. "0" \in Char /\ "x" \in Char
    BY DEF Char, Literals
  <2> QED BY <1>1, <2>1
<1>4. W \in Nat /\ P = -1 /\ ~(W < 0)
  BY DEF Given, None
<1>5. InField(x, " ").text = Padded(d, W, <<>>, x, FALSE)
  BY <1>3, FieldText
<1>6. Lead(d, 0) = y
  BY <1>1 DEF Lead
<1>7. Digits(d, 0, P) = z
  <2>1. P \in Int /\ P >= -1
    BY <1>4
  <2> QED BY <1>1, <1>4, <2>1, ZeroDigits
<1>8. Len(<<>>) = 0 /\ W - 0 - 3 = W - 2 - 1
  BY <1>4
<1>9. PICK t : t = Times(W - 0 - 3, " ")
  OBVIOUS
<1>10. t \in Seq(Char)
  <2>1. " " \in Char
    BY DEF Char, Literals
  <2>2. W - 0 - 3 \in Int
    BY <1>4
  <2> QED BY <1>9, <2>1, <2>2, TimesText
<1>11. Padded(d, W, <<>>, x, FALSE) = IF "-" \in d.flags THEN <<>> \o x \o t ELSE t \o <<>> \o x
  <2>1. (IF W < 0 THEN -W ELSE W) - Len(<<>>) - Len(x) = W - 0 - 3
    BY <1>2, <1>4, <1>8
  <2> QED BY <1>4, <1>9, <2>1 DEF Padded
<1>12. Padded(d, W, y, z, "0" \in d.flags /\ P = None) = IF "-" \in d.flags THEN y \o z \o t ELSE t \o y \o z
  <2>1. (IF W < 0 THEN -W ELSE W) - Len(y) - Len(z) = W - 0 - 3
    BY <1>2, <1>4
  <2>2. ~("0" \in d.flags /\ P = None)
    OBVIOUS
  <2> QED BY <1>4, <1>9, <2>1, <2>2 DEF Padded
<1>13. <<>> \o x = x /\ t \o <<>> = t
  BY <1>3, <1>10, NoneJoined
<1>14. t \o y \o z = t \o (y \o z)
  <2>1. t \in Seq(Char) /\ y \in Seq(Char) /\ z \in Seq(Char)
    BY <1>3, <1>10
  <2> QED BY <2>1, ConcatAssociative
<1> QED BY <1>1, <1>2, <1>5, <1>6, <1>7, <1>11, <1>12, <1>13, <1>14

\* A pointer.
LEMMA PointerC ==
  ASSUME NEW d, NEW k, NEW W, NEW P, W = WidthOf(d, k), P = PrecisionOf(d, k), Given(d, W, P), Meant(d, k),
         Conv = d.conv, d.conv = "p", NEW slot \in Nat, slot = LastArg(d, k).slot
  PROVE  con_p(slot).text = TextInC(d, k)
<1>1. "0" \notin d.flags /\ "#" \notin d.flags /\ d.prec = None
  BY DEF Meant, InC
<1>2. P = None
  BY <1>1 DEF PrecisionOf, None, Star
<1>3. TextInC(d, k) = Padded(d, W, Lead(d, slot), Digits(d, slot, P), "0" \in d.flags /\ P = None)
  BY DEF TextInC
<1>4. CASE slot = 0
  <2>1. con_p(slot) = InField(<<"0", "x", "0">>, " ")
    BY <1>4 DEF con_p
  <2>2. InField(<<"0", "x", "0">>, " ").text
          = Padded(d, W, Lead(d, 0), Digits(d, 0, P), "0" \in d.flags /\ P = None)
    BY <1>1, <1>2, NullC
  <2>3. TextInC(d, k) = Padded(d, W, Lead(d, 0), Digits(d, 0, P), "0" \in d.flags /\ P = None)
    BY <1>3, <1>4
  <2> QED BY <2>1, <2>2, <2>3
<1>5. CASE slot # 0
  <2>1. DigitsOf(d) = Hex
    BY DEF DigitsOf
  <2>2. data.flags = d.flags
    BY DEF Given
  <2>3. con_p(slot) = set_print_oxu_hash(Numeral(slot, DigitsOf(d)), d.flags \cup {"#"})
    BY <1>5, <2>1, <2>2 DEF con_p
  <2>4. Unsign(d, d.flags \cup {"#"})
    BY <1>1 DEF Unsign
  <2> QED BY <1>3, <1>5, <2>3, <2>4, TextUnsigned
<1> QED BY <1>4, <1>5

\* A text, cut off at the precision.
LEMMA StringC ==
  ASSUME NEW d, NEW k, NEW W, NEW P, W = WidthOf(d, k), P = PrecisionOf(d, k), Given(d, W, P),
         d.conv = "s", NEW x \in Seq(Char), x = LastArg(d, k).text
  PROVE  set_print_s(x).text = TextInC(d, k)
<1>1. data.precision = P /\ P \in Int /\ P >= -1 /\ None = -1
  BY DEF Given, None
<1>2. PICK l : l = Len(x)
  OBVIOUS
<1>3. l \in Nat
  BY <1>2, LenProperties
<1>4. PICK y : y = IF P = None \/ P > l THEN x ELSE SubSeq(x, 1, P)
  OBVIOUS
<1>5. y \in Seq(Char)
  <2>1. CASE P = None \/ P > l
    BY <1>4, <2>1
  <2>2. CASE ~(P = None \/ P > l)
    <3>1. \A j \in 1..P : x[j] \in Char
      <4>1. \A j \in 1..l : x[j] \in Char
        BY <1>2, ElementOfSeq
      <4> QED BY <1>1, <1>3, <2>2, <4>1
    <3>2. 1 \in Int /\ P \in Int
      BY <1>1
    <3>3. SubSeq(x, 1, P) \in Seq(Char)
      BY <3>1, <3>2, SubSeqProperties
    <3> QED BY <1>4, <2>2, <3>3
  <2> QED BY <2>1, <2>2
<1>6. set_print_s(x) = InField(y, " ")
  BY <1>1, <1>2, <1>4 DEF set_print_s
<1>7. TextInC(d, k) = Padded(d, W, <<>>, y, FALSE)
  BY <1>2, <1>4 DEF TextInC
<1> QED BY <1>5, <1>6, <1>7, FieldText

\* A character and a percent sign are in a field of blanks: the flag 0 is not for them.
LEMMA FillIs == ASSUME NEW d, NEW W, NEW P, Given(d, W, P), "0" \notin d.flags PROVE \A x : InField(x, Fill) = InField(x, " ")
<1>1. ~Has("0")
  BY DEF Given, Has
<1>2. Fill = " "
  BY <1>1 DEF Fill
<1> QED BY <1>2

\* A character in a field of blanks.
LEMMA CharacterC ==
  ASSUME NEW d, NEW k, NEW W, NEW P, W = WidthOf(d, k), P = PrecisionOf(d, k), Given(d, W, P), Meant(d, k),
         d.conv = "c", NEW x \in Seq(Char), x = LastArg(d, k).text
  PROVE  set_print_c(x).text = TextInC(d, k)
<1>1. "0" \notin d.flags
  BY DEF Meant, InC
<1>a. Len(x) = 1
  BY DEF Meant, Agrees
<1>b. set_print_c(x) = InField(x, Fill)
  BY <1>a, OneCharacter
<1>2. set_print_c(x) = InField(x, " ")
  BY <1>1, <1>b, FillIs
<1>3. TextInC(d, k) = Padded(d, W, <<>>, x, FALSE)
  BY DEF TextInC
<1> QED BY <1>2, <1>3, FieldText

\* The percent sign itself.
LEMMA PerC ==
  ASSUME NEW d, NEW k, NEW W, NEW P, W = WidthOf(d, k), P = PrecisionOf(d, k), Given(d, W, P), Meant(d, k),
         d.conv = "%"
  PROVE  InField(<<"%">>, Fill).text = TextInC(d, k)
<1>1. d.flags = {} /\ d.width = None
  BY DEF Meant, InC
<1>2. W = 0
  <2>1. None # Star /\ None = -1
    BY DEF None, Star
  <2>2. Max({-1, 0}) = 0
    BY DEF Max
  <2> QED BY <1>1, <2>1, <2>2 DEF WidthOf
<1>3. PICK x : x = <<"%">>
  OBVIOUS
<1>4. x \in Seq(Char) /\ Len(x) = 1
  <2>1. "%" \in Char
    BY DEF Char, Literals
  <2> QED BY <1>3, <2>1
<1>5. InField(x, Fill) = InField(x, " ")
  BY <1>1, FillIs
<1>6. InField(x, " ").text = Padded(d, W, <<>>, x, FALSE)
  BY <1>4, FieldText
<1>7. Times(0 - 0 - 1, " ") = <<>>
  <2>1. 0 - 0 - 1 \in Int /\ 0 - 0 - 1 <= 0
    OBVIOUS
  <2> QED BY <2>1, TimesNone
<1>8. Len(<<>>) = 0 /\ ~(0 < 0)
  OBVIOUS
<1>9. Padded(d, W, <<>>, x, FALSE) = <<>> \o <<>> \o x
  <2>1. "-" \notin d.flags
    BY <1>1
  <2> QED BY <1>2, <1>4, <1>7, <1>8, <2>1 DEF Padded
<1>10. <<>> \o <<>> = <<>> /\ <<>> \o x = x
  <2>1. <<>> \in Seq(Char)
    BY EmptySeq
  <2> QED BY <1>4, <2>1, NoneJoined
<1>11. TextInC(d, k) = x
  BY <1>3 DEF TextInC
<1> QED BY <1>3, <1>5, <1>6, <1>9, <1>10, <1>11

\* A conversion writes what C says of its directive.
LEMMA ConvC ==
  ASSUME NEW q, NEW d, NEW k, NEW e, Amid(q, d, k, e), Ready(q, d, k, e), Meant(d, k), NEW w, Writes(w)
  PROVE  w.text = TextInC(d, k)
<1>1. Conv = d.conv
  BY DEF Ready
<1>2. PICK W, P : W = WidthOf(d, k) /\ P = PrecisionOf(d, k)
  OBVIOUS
<1>3. Given(d, W, P)
  BY <1>2, GivenC
<1>4. Narrow(d)
  BY CastIs, NarrowIs
<1>5. d.conv \notin {"D", "U", "O", "S", "C", "b"}
  BY DEF Meant, InC
<1>6. \A x \in Seq(STRING) : x \in Seq(Char)
  <2>1. STRING \subseteq Char
    BY DEF Char
  <2> QED BY <2>1, SeqMonotonic
<1>7. CASE con_d /\ w = set_print_d(SignedOri(Arg.slot))
  <2>1. d.conv \in {"d", "i"}
    BY <1>1, <1>5, <1>7 DEF con_d
  <2>2. Arg = LastArg(d, k) /\ Arg.slot \in Nat
    BY <2>1, ArgIs
  <2>3. PICK s : s = Arg.slot /\ s \in Nat /\ s = LastArg(d, k).slot
    BY <2>2
  <2>4. set_print_d(SignedOri(s)).text = TextInC(d, k)
    BY <1>1, <1>2, <1>3, <1>4, <2>1, <2>3, SignedC
  <2> QED BY <1>7, <2>3, <2>4
<1>8. CASE con_oux /\ w = set_print_oxu_hash(UnsignedOri(Arg.slot), data.flags)
  <2>1. d.conv \in Unsigned /\ d.conv \notin {"S", "%"}
    BY <1>1, <1>5, <1>8 DEF con_oux, Unsigned
  <2>2. Arg = LastArg(d, k) /\ Arg.slot \in Nat /\ Arg.slot < LongMod
    BY <2>1, ArgIs
  <2>3. PICK s : s = Arg.slot /\ s \in Nat /\ s = LastArg(d, k).slot /\ s < LongMod
    BY <2>2
  <2>4. set_print_oxu_hash(UnsignedOri(s), data.flags).text = TextInC(d, k)
    BY <1>1, <1>2, <1>3, <1>4, <2>1, <2>3, UnsignedTextC
  <2> QED BY <1>8, <2>3, <2>4
<1>9. CASE con_pointer /\ w = con_p(Arg.slot)
  <2>1. d.conv = "p"
    BY <1>1, <1>9 DEF con_pointer
  <2>2. Arg = LastArg(d, k) /\ Arg.slot \in Nat
    BY <2>1, ArgIs
  <2>3. PICK s : s = Arg.slot /\ s \in Nat /\ s = LastArg(d, k).slot
    BY <2>2
  <2>4. con_p(s).text = TextInC(d, k)
    BY <1>1, <1>2, <1>3, <2>1, <2>3, PointerC
  <2> QED BY <1>9, <2>3, <2>4
<1>10. CASE con_s /\ w = set_print_s(IF TextArg.slot = 0 THEN Null ELSE TextArg.text)
  <2>1. d.conv = "s"
    BY <1>1, <1>5, <1>10 DEF con_s
  <2>2. TextArg = LastArg(d, k) /\ IsArg(TextArg)
    BY <2>1, TextIs
  <2>3. TextArg.slot # 0
    BY <2>1, <2>2 DEF Meant
  <2>4. PICK x : x = TextArg.text
    OBVIOUS
  <2>5. x \in Seq(Char) /\ x = LastArg(d, k).text
    BY <1>6, <2>2, <2>4 DEF IsArg
  <2>6. set_print_s(x).text = TextInC(d, k)
    BY <1>2, <1>3, <2>1, <2>5, StringC
  <2> QED BY <1>10, <2>3, <2>4, <2>6
<1>11. CASE con_c /\ w = set_print_c(Arg.text)
  <2>1. d.conv = "c"
    BY <1>1, <1>5, <1>11 DEF con_c
  <2>2. Arg = LastArg(d, k) /\ IsArg(Arg)
    BY <2>1, ArgIs
  <2>3. PICK x : x = Arg.text
    OBVIOUS
  <2>4. x \in Seq(Char) /\ x = LastArg(d, k).text
    BY <1>6, <2>2, <2>3 DEF IsArg
  <2>5. set_print_c(x).text = TextInC(d, k)
    BY <1>2, <1>3, <2>1, <2>4, CharacterC
  <2> QED BY <1>11, <2>3, <2>5
<1>12. CASE con_per /\ w = InField(<<"%">>, Fill)
  <2>1. d.conv = "%"
    BY <1>1, <1>12 DEF con_per
  <2>2. InField(<<"%">>, Fill).text = TextInC(d, k)
    BY <1>2, <1>3, <2>1, PerC
  <2> QED BY <1>12, <2>2
<1> QED BY <1>7, <1>8, <1>9, <1>10, <1>11, <1>12 DEF Writes

-----------------------------------------------------------------------------
(***************************************************************************)
(* The text of a call: that of its directives, one after the other.        *)
(***************************************************************************)

\* The text o is the first n of the texts s, one after the other.
MadeOf(o, s, n) ==
  /\ \A j \in 1..n : s[j] \in Seq(Char)
  /\ \E g \in [0..n -> Seq(Char)] : Flattens(g, s, n) /\ o = g[n]

\* None of them are nothing.
LEMMA MadeNone == ASSUME NEW s PROVE MadeOf(<<>>, s, 0)
<1>1. \A j \in 1..0 : s[j] \in Seq(Char)
  OBVIOUS
<1>2. <<>> \in Seq(Char)
  BY EmptySeq
<1>3. PICK g : g = [j \in 0..0 |-> <<>>]
  OBVIOUS
<1>4. g \in [0..0 -> Seq(Char)] /\ g[0] = <<>>
  BY <1>2, <1>3
<1>5. Flattens(g, s, 0)
  BY <1>4 DEF Flattens
<1> QED BY <1>1, <1>4, <1>5 DEF MadeOf

\* The next text is put behind.
LEMMA MadeMore ==
  ASSUME NEW s, NEW n \in Nat, NEW o, MadeOf(o, s, n), NEW x \in Seq(Char), x = s[n + 1]
  PROVE  MadeOf(o \o x, s, n + 1)
<1>1. PICK g \in [0..n -> Seq(Char)] : Flattens(g, s, n) /\ o = g[n]
  BY DEF MadeOf
<1>2. o \o x \in Seq(Char)
  <2>1. o \in Seq(Char)
    BY <1>1
  <2> QED BY <2>1, ConcatProperties
<1>3. PICK y : y = o \o x
  OBVIOUS
<1>4. PICK h : h = [j \in 0..(n + 1) |-> IF j = n + 1 THEN y ELSE g[j]]
  OBVIOUS
<1>5. h \in [0..(n + 1) -> Seq(Char)] /\ h[n + 1] = y /\ \A j \in 0..n : h[j] = g[j]
  <2>1. \A j \in 0..n : j # n + 1 /\ j \in 0..(n + 1) /\ g[j] \in Seq(Char)
    BY <1>1
  <2>2. \A j \in 0..(n + 1) : j = n + 1 \/ j \in 0..n
    OBVIOUS
  <2>3. n + 1 \in 0..(n + 1)
    OBVIOUS
  <2> QED BY <1>2, <1>3, <1>4, <2>1, <2>2, <2>3
<1>6. Flattens(h, s, n + 1)
  <2>1. h[0] = <<>>
    BY <1>1, <1>5 DEF Flattens
  <2>2. ASSUME NEW j \in 1..(n + 1) PROVE h[j] = h[j - 1] \o s[j]
    <3>1. CASE j = n + 1
      <4>1. j - 1 = n /\ n \in 0..n
        BY <3>1
      <4> QED BY <1>1, <1>3, <1>5, <3>1, <4>1
    <3>2. CASE j # n + 1
      <4>1. j \in 1..n /\ j \in 0..n /\ j - 1 \in 0..n
        BY <3>2
      <4>2. g[j] = g[j - 1] \o s[j]
        BY <1>1, <4>1 DEF Flattens
      <4> QED BY <1>5, <4>1, <4>2
    <3> QED BY <3>1, <3>2
  <2> QED BY <2>1, <2>2 DEF Flattens
<1>7. \A j \in 1..(n + 1) : s[j] \in Seq(Char)
  <2>1. \A j \in 1..n : s[j] \in Seq(Char)
    BY DEF MadeOf
  <2>2. \A j \in 1..(n + 1) : j = n + 1 \/ j \in 1..n
    OBVIOUS
  <2> QED BY <2>1, <2>2
<1> QED BY <1>3, <1>5, <1>6, <1>7 DEF MadeOf

\* All of them are FlattenSeq.
LEMMA MadeWhole ==
  ASSUME NEW s, NEW n \in Nat, Len(s) = n, n = 0 => s = <<>>, NEW o, MadeOf(o, s, n) PROVE FlattenSeq(s) = o
<1>1. PICK g \in [0..n -> Seq(Char)] : Flattens(g, s, n) /\ o = g[n]
  BY DEF MadeOf
<1>2. PICK S : S = Seq(Char)
  OBVIOUS
<1>3. Closed(S) /\ g \in [0..n -> S] /\ \A q \in 1..n : s[q] \in S
  BY <1>1, <1>2, SeqClosed DEF MadeOf
<1>4. \A j \in 1..n : s[j] \in S
  BY <1>3
<1> QED BY <1>1, <1>3, <1>4, FlattenWhole DEF Whole

\* The directives of a call end at different places of the format.
LEMMA LastsApart ==
  ASSUME call \in Calls, NEW Q \in 0..Len(call.spec), NEW R \in 0..Len(call.spec), Lasts(call)[Q] = Lasts(call)[R]
  PROVE  Q = R
<1>1. PICK n, f : n = Len(call.spec) /\ f = Lasts(call)
  OBVIOUS
<1>2. /\ n \in Nat /\ f \in [0..n -> Nat]
      /\ \A q \in 1..n : IsDirective(call.spec[q]) /\ f[q] = f[q - 1] + Len(Characters(call.spec[q]))
  BY <1>1, CallKnown DEF Known
<1>a. n \in Nat
  BY <1>2
<1>3. ASSUME NEW q \in 1..n PROVE f[q - 1] \in Nat /\ f[q] \in Nat /\ f[q] > f[q - 1]
  <2>1. q \in 0..n /\ q - 1 \in 0..n
    BY <1>a
  <2>2. f[q - 1] \in Nat /\ f[q] \in Nat
    BY <1>2, <2>1
  <2>3. Len(Characters(call.spec[q])) \in Nat /\ Len(Characters(call.spec[q])) >= 1
    BY <1>2, SomeCharacter
  <2>4. f[q] = f[q - 1] + Len(Characters(call.spec[q]))
    BY <1>2
  <2> QED BY <2>2, <2>3, <2>4
<1>4. PICK G : G = {m \in 0..n : \A j \in 0..n : j < m => f[j] < f[m]}
  OBVIOUS
<1>5. 0 \in G
  BY <1>2, <1>4
<1>6. ASSUME NEW m \in 1..n, m - 1 \in G PROVE m \in G
  <2>1. f[m - 1] \in Nat /\ f[m] \in Nat /\ f[m] > f[m - 1]
    BY <1>3
  <2>2. ASSUME NEW j \in 0..n, j < m PROVE f[j] < f[m]
    <3>1. f[j] \in Nat
      BY <1>2
    <3>2. CASE j = m - 1
      BY <2>1, <3>2
    <3>3. CASE j < m - 1
      <4>1. f[j] < f[m - 1]
        BY <1>4, <1>6, <3>3
      <4> QED BY <2>1, <3>1, <4>1
    <3>4. m \in Nat /\ j \in Nat
      BY <1>a
    <3> QED BY <2>2, <3>2, <3>3, <3>4
  <2>3. m \in 0..n
    BY <1>a
  <2> QED BY <1>4, <2>2, <2>3
<1>7. 0..n \subseteq G
  BY <1>2, <1>5, <1>6, Induction
<1>8. \A m \in 0..n : \A j \in 0..n : j < m => f[j] < f[m]
  BY <1>4, <1>7
<1>9. f[Q] \in Nat /\ f[R] \in Nat /\ f[Q] = f[R] /\ Q \in 0..n /\ R \in 0..n
  BY <1>1, <1>2
<1>10. ~(Q < R) /\ ~(R < Q)
  BY <1>8, <1>9
<1>11. Q \in Nat /\ R \in Nat
  BY <1>1, <1>2
<1> QED BY <1>10, <1>11

\* C gives the call a text, and the code does not differ from it.
Asked ==
  \A q \in {r \in 1..Len(call.spec) : "copy" \notin DOMAIN call.spec[r]} :
    LET d == call.spec[q] IN
    /\ InC(d) /\ ~Departs(d, Before(q))
    /\ d.conv = "s" => LastArg(d, Before(q)).slot # 0
\* The text of each directive.
Texts == [q \in 1..Len(call.spec) |->
            IF "copy" \in DOMAIN call.spec[q] THEN <<call.spec[q].copy>> ELSE TextInC(call.spec[q], Before(q))]

\* What was written is the text of the directives before the one at i.
Told == \E Q \in 0..Len(call.spec) : i = Lasts(call)[Q] + 1 /\ MadeOf(out, Texts, Q)

\* The inductive invariant for the text of a call.
CInv == Asked => (pc \in {"text", "flags"} => Told) /\ (pc = "done" => out = CallInC)

\* What C says of a call does not change while it is read.
LEMMA SaidOnce == ASSUME call' = call PROVE (Asked' => Asked) /\ Texts' = Texts /\ CallInC' = CallInC
<1>1. ASSUME NEW d, NEW k
      PROVE  /\ LastArg(d, k)' = LastArg(d, k) /\ WidthOf(d, k)' = WidthOf(d, k)
             /\ PrecisionOf(d, k)' = PrecisionOf(d, k)
  BY DEF LastArg, WidthOf, PrecisionOf, Value
<1>2. \A q : Before(q)' = Before(q)
  BY DEF Before
<1>3. ASSUME NEW d, NEW k PROVE Departs(d, k) => Departs(d, k)'
  BY <1>1 DEF Departs
<1>4. ASSUME NEW d, NEW k PROVE TextInC(d, k)' = TextInC(d, k)
  BY <1>1 DEF TextInC
<1>5. Asked' => Asked
  BY <1>1, <1>2, <1>3 DEF Asked
<1>6. Texts' = Texts
  BY <1>2, <1>4 DEF Texts
<1>7. CallInC' = CallInC
  BY <1>2, <1>4 DEF CallInC
<1> QED BY <1>5, <1>6, <1>7

\* The place in the format tells how many directives were written.
LEMMA ToldAt ==
  ASSUME IInv, Told, NEW q \in 0..Len(call.spec), i = Lasts(call)[q] + 1 PROVE MadeOf(out, Texts, q)
<1>1. PICK Q \in 0..Len(call.spec) : i = Lasts(call)[Q] + 1 /\ MadeOf(out, Texts, Q)
  BY DEF Told
<1>2. Lasts(call)[Q] \in Nat /\ Lasts(call)[q] \in Nat
  BY CallKnown DEF IInv, Known
<1>3. Lasts(call)[Q] = Lasts(call)[q]
  BY <1>1, <1>2
<1>4. Q = q
  BY <1>3, LastsApart DEF IInv
<1> QED BY <1>1, <1>4

\* The next directive writes its text.
LEMMA ToldNext ==
  ASSUME IInv, Told, NEW q, NEW d, NEW k, NEW e, Spot(q, d, k, e), i = e + 1, NEW x \in Seq(Char), x = Texts[q],
         call' = call, out' = out \o x, i' = Lasts(call)[q] + 1
  PROVE  Told'
<1>1. q \in 1..Len(call.spec) /\ e = Lasts(call)[q - 1] /\ Len(call.spec) \in Nat
  BY CallKnown DEF Spot, IInv, Known
<1>2. q \in 0..Len(call.spec) /\ q - 1 \in 0..Len(call.spec) /\ q - 1 \in Nat /\ (q - 1) + 1 = q
  BY <1>1
<1>3. MadeOf(out, Texts, q - 1)
  BY <1>1, <1>2, ToldAt
<1>4. PICK s, m, o : s = Texts /\ m = q - 1 /\ o = out
  OBVIOUS
<1>5. MadeOf(o \o x, s, m + 1)
  <2>1. m \in Nat /\ x = s[m + 1]
    BY <1>2, <1>4
  <2> QED BY <1>3, <1>4, <2>1, MadeMore
<1>6. MadeOf(out', Texts', q)
  BY <1>2, <1>4, <1>5, SaidOnce
<1> QED BY <1>2, <1>6 DEF Told

\* A character to copy.
LEMMA ToldCopy == ASSUME IInv, Told, Copy PROVE Told'
<1>1. pc = "text" /\ i <= Len(format) /\ format[i] # "%" /\ call' = call
      /\ out' = Append(out, format[i]) /\ i' = i + 1
  BY DEF Copy
<1>2. PICK q, d, k, e : Spot(q, d, k, e) /\ i = e + 1
  <2>1. Len(format) \in Nat
    BY FormatIs DEF IInv, Formatted
  <2>2. ~(Len(format) + 1 <= Len(format))
    BY <2>1
  <2> QED BY <1>1, <2>2, NextOne
<1>3. ~Conversion(d)
  BY <1>1, <1>2, OpenOne DEF IInv
<1>4. Copied(d) /\ "copy" \in DOMAIN d
  BY <1>2, <1>3, Directive DEF Spot
<1>5. Characters(d) = <<d.copy>> /\ d.copy \in Char
  BY <1>4 DEF Characters, Copied, Char
<1>6. PICK c : c = d.copy
  OBVIOUS
<1>7. Len(<<c>>) = 1 /\ <<c>>[1] = c /\ <<c>> \in Seq(Char)
  BY <1>5, <1>6
<1>8. format[i] = c /\ Lasts(call)[q] = e + 1
  <2>1. Lasts(call)[q] = e + Len(Characters(d)) /\ \A m \in 1..Len(Characters(d)) : format[e + m] = Characters(d)[m]
    BY <1>2 DEF Spot
  <2>2. 1 \in 1..Len(Characters(d)) /\ Len(Characters(d)) = 1 /\ Characters(d)[1] = c
    BY <1>5, <1>6, <1>7
  <2> QED BY <1>2, <2>1, <2>2
<1>9. Texts[q] = <<c>>
  <2>1. q \in 1..Len(call.spec) /\ d = call.spec[q]
    BY <1>2 DEF Spot
  <2> QED BY <1>4, <1>6, <2>1 DEF Texts
<1>10. out' = out \o <<c>>
  <2>1. out \in Seq(Char) /\ c \in Char
    BY <1>5, <1>6 DEF IInv
  <2>2. Append(out, c) = out \o <<c>>
    BY <2>1, AppendIsConcat
  <2> QED BY <1>1, <1>8, <2>2
<1>11. i' = Lasts(call)[q] + 1
  BY <1>1, <1>2, <1>8
<1> QED BY <1>1, <1>2, <1>7, <1>9, <1>10, <1>11, ToldNext

\* A conversion.
LEMMA ToldConv ==
  ASSUME IInv, Told, Asked, con_d \/ con_oux \/ con_pointer \/ con_s \/ con_c \/ con_per PROVE Told'
<1>1. Converts
  BY DEF con_d, con_oux, con_pointer, con_s, con_c, con_per
<1>2. PICK q, d, k, e, o : Reading(q, d, k, e) /\ Come(d, o, k, e)
  BY <1>1 DEF IInv, InDirective, Converts
<1>3. Amid(q, d, k, e)
  BY <1>2, AmidIs
<1>4. Ready(q, d, k, e)
  BY <1>1, <1>2, <1>3, Complete
<1>5. PICK w : Writes(w) /\ Puts(w) /\ w.text \in Seq(Char)
  BY <1>3, <1>4, ConvCounted
<1>6. q \in 1..Len(call.spec) /\ d = call.spec[q] /\ k = Before(q) /\ "copy" \notin DOMAIN d
  BY <1>2 DEF Reading, Conversion
<1>7. Meant(d, k)
  <2>1. InC(d) /\ ~Departs(d, k) /\ (d.conv = "s" => LastArg(d, k).slot # 0)
    BY <1>6 DEF Asked
  <2> QED BY <2>1, AgreesIs DEF Meant
<1>8. PICK x : x = w.text
  OBVIOUS
<1>9. x \in Seq(Char) /\ out' = out \o x
  BY <1>5, <1>8 DEF Puts
<1>10. x = Texts[q]
  <2>1. x = TextInC(d, k)
    BY <1>3, <1>4, <1>5, <1>7, <1>8, ConvC
  <2> QED BY <1>6, <2>1 DEF Texts
<1>11. i' = Lasts(call)[q] + 1 /\ call' = call
  BY <1>3, <1>4, ConvGoes
<1>12. Spot(q, d, k, e) /\ i = e + 1
  BY <1>3, <1>4 DEF Amid, Ready
<1> QED BY <1>9, <1>10, <1>11, <1>12, ToldNext

\* At the end of the format all directives are written.
LEMMA ToldWhole == ASSUME IInv, Told, Return PROVE out = CallInC
<1>1. pc = "text" /\ i > Len(format)
  BY DEF Return
<1>2. PICK n : n = Len(call.spec)
  OBVIOUS
<1>3. n \in Nat /\ n \in 0..n /\ Len(format) \in Nat /\ Len(format) = Lasts(call)[n]
  <2>1. Len(format) \in Nat /\ Len(format) = Lasts(call)[n]
    BY <1>2, FormatIs DEF IInv, Formatted
  <2>2. n \in Nat
    BY <1>2, CallKnown DEF IInv, Known
  <2> QED BY <2>1, <2>2
<1>4. ASSUME NEW q, NEW d, NEW k, NEW e, Spot(q, d, k, e), i = e + 1, i <= Len(format) PROVE FALSE
  <2>1. e \in Nat
    BY <1>4 DEF Spot
  <2> QED BY <1>1, <1>3, <1>4, <2>1
<1>5. i = Lasts(call)[n] + 1
  BY <1>1, <1>3, <1>4, NextOne
<1>6. PICK s : s = Texts
  OBVIOUS
<1>7. MadeOf(out, s, n)
  BY <1>2, <1>3, <1>5, <1>6, ToldAt
<1>8. Len(s) = n /\ (n = 0 => s = <<>>)
  BY <1>2, <1>3, <1>6 DEF Texts
<1>9. FlattenSeq(s) = out
  BY <1>3, <1>7, <1>8, MadeWhole
<1> QED BY <1>6, <1>9 DEF Texts, CallInC

\* Before the first directive nothing is written.
LEMMA ToldFirst == Init => CInv
<1> SUFFICES ASSUME Init PROVE CInv
  OBVIOUS
<1>1. call \in Calls /\ i = 1 /\ out = <<>> /\ pc = "text"
  BY DEF Init
<1>2. Known(call)
  BY <1>1, CallKnown
<1>3. 0 \in 0..Len(call.spec) /\ Lasts(call)[0] = 0
  BY <1>2 DEF Known
<1>4. MadeOf(<<>>, Texts, 0)
  BY MadeNone
<1>5. Told
  BY <1>1, <1>3, <1>4 DEF Told
<1> QED BY <1>1, <1>5 DEF CInv

\* Every step keeps that what was written is the text of the directives read.
LEMMA ToldHolds == IInv /\ CInv /\ [Next]_vars => CInv'
<1> SUFFICES ASSUME IInv, CInv, [Next]_vars, Asked' PROVE (pc' \in {"text", "flags"} => Told') /\ (pc' = "done" => out' = CallInC')
  BY DEF CInv
<1>1. call' = call
  BY DEF Next, vars, Copy, Percent, PastFormat, Width, flags_star, star_overflow, Precision, Flag, con_d, con_oux, con_overflow,
     con_pointer, con_s, con_s_endless, con_c, con_per, Return, Finished, Goes, Breaks
<1>2. Asked /\ Texts' = Texts /\ CallInC' = CallInC
  BY <1>1, SaidOnce
<1>3. (pc \in {"text", "flags"} => Told) /\ (pc = "done" => out = CallInC)
  BY <1>2 DEF CInv
<1>4. ASSUME i' = i, out' = out, Told PROVE Told'
  BY <1>1, <1>2, <1>4 DEF Told
<1>5. CASE Copy
  <2>1. pc = "text" /\ pc' = pc
    BY <1>5 DEF Copy
  <2> QED BY <1>3, <1>5, <2>1, ToldCopy
<1>6. CASE Percent \/ Width \/ flags_star \/ Precision \/ Flag
  <2>1. pc \in {"text", "flags"} /\ pc' = "flags" /\ i' = i /\ out' = out
    BY <1>6 DEF Percent, Width, flags_star, Precision, Flag, InFlags
  <2> QED BY <1>3, <1>4, <2>1
<1>7. CASE con_d \/ con_oux \/ con_pointer \/ con_s \/ con_c \/ con_per
  <2>1. pc = "flags" /\ pc' = "text"
    BY <1>7 DEF con_d, con_oux, con_pointer, con_s, con_c, con_per, Converts, Goes
  <2> QED BY <1>2, <1>3, <1>7, <2>1, ToldConv
<1>8. CASE PastFormat \/ star_overflow \/ con_overflow \/ con_s_endless
  <2>1. pc' = "beyond"
    BY <1>8 DEF PastFormat, star_overflow, con_overflow, con_s_endless, Breaks
  <2> QED BY <2>1
<1>9. CASE Return
  <2>1. pc = "text" /\ pc' = "done" /\ out' = out
    BY <1>9 DEF Return
  <2> QED BY <1>2, <1>3, <1>9, <2>1, ToldWhole
<1>10. CASE Finished \/ UNCHANGED vars
  <2>1. pc' = pc /\ i' = i /\ out' = out
    BY <1>10 DEF Finished, vars
  <2> QED BY <1>2, <1>3, <1>4, <2>1
<1> QED BY <1>5, <1>6, <1>7, <1>8, <1>9, <1>10 DEF Next

\* For any call: where C gives it a text and the code is not known to differ, what
\* ft_printf writes is that text, for the sums of set_d_len and for_setoux and the pieces that
\* are put out come to the field, sign, prefix and digits that the directive means.
THEOREM SpecAsC == Spec => []AsC
<1>1. Init => CInv
  BY ToldFirst
<1>2. IInv /\ CInv /\ [Next]_vars => CInv'
  BY ToldHolds
<1>3. CInv => AsC
  BY DEF CInv, Asked, AsC
<1> QED BY <1>1, <1>2, <1>3, IInvHolds, PTL DEF Spec
=============================================================================
