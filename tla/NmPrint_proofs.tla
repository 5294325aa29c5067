--------------------------- MODULE NmPrint_proofs ---------------------------
(***************************************************************************)
(* Proofs about NmSort and NmPrint, for lists of any length: the sort by   *)
(* itself, and the sort with the printing after it.                        *)
(***************************************************************************)
EXTENDS NmPrint, FiniteSetTheorems, SequenceTheorems, TLAPS

\* An int holds every difference smaller than 2^31.
LEMMA ToIntSmall ==
  ASSUME NEW d \in Int, -Half < d, d < Half PROVE ToInt(d) = d
<1>1. Half \in Nat \ {0}
  BY SortAssumption
<1>2. d + Half \in 0..(2 * Half - 1)
  BY <1>1
<1>3. \A x \in Int, y \in Int : y > 0 /\ 0 <= x /\ x < y => x % y = x
  OBVIOUS
<1> QED
  BY <1>1, <1>2, <1>3 DEF ToInt

LEMMA Transitive ==
  ASSUME NEW r \in BOOLEAN, NEW a \in Nodes, NEW b \in Nodes, NEW c \in Nodes
  PROVE  /\ NameMayPrecede(r, a, b) /\ NameMayPrecede(r, b, c) => NameMayPrecede(r, a, c)
         /\ MayPrecede(r, a, b) /\ MayPrecede(r, b, c) => MayPrecede(r, a, c)
  BY DEF NameMayPrecede, MayPrecede, Nodes

\* Two nodes that are exchanged were out of order, two that are not were in it.
LEMMA Comparison ==
  ASSUME NEW a \in Nodes, NEW b \in Nodes
  PROVE  /\ OutOfOrder(a, b) => NameMayPrecede("r" \in flags, b, a)
         /\ ~OutOfOrder(a, b) => NameMayPrecede("r" \in flags, a, b)
         /\ a.value - b.value < Half /\ b.value - a.value < Half =>
              /\ OutOfOrder(a, b) => MayPrecede("r" \in flags, b, a)
              /\ ~OutOfOrder(a, b) => MayPrecede("r" \in flags, a, b)
<1>1. a.name \in Nat /\ b.name \in Nat /\ a.value \in Nat /\ b.value \in Nat
  BY DEF Nodes
<1>2. /\ OutOfOrder(a, b) => NameMayPrecede("r" \in flags, b, a)
      /\ ~OutOfOrder(a, b) => NameMayPrecede("r" \in flags, a, b)
  BY <1>1 DEF OutOfOrder, ft_strcmp, NameMayPrecede
<1>3. ASSUME a.value - b.value < Half, b.value - a.value < Half
      PROVE  /\ OutOfOrder(a, b) => MayPrecede("r" \in flags, b, a)
             /\ ~OutOfOrder(a, b) => MayPrecede("r" \in flags, a, b)
  <2>1. compare_add(a, b) = a.value - b.value
    <3>1. a.value - b.value \in Int /\ -Half < a.value - b.value
      BY <1>1, <1>3, SortAssumption
    <3> QED
      BY <1>3, <3>1, ToIntSmall DEF compare_add
  <2> QED
    BY <1>1, <2>1 DEF OutOfOrder, ft_strcmp, MayPrecede
<1> QED
  BY <1>2, <1>3

LEMMA InputType == ASSUME TypeOK PROVE input \in Seq(Nodes)
  BY SortAssumption DEF TypeOK

-----------------------------------------------------------------------------
LEMMA TypeStep == TypeOK /\ LoopInv /\ [Next]_vars => TypeOK'
<1> SUFFICES ASSUME TypeOK, LoopInv, [Next]_vars PROVE TypeOK'
  OBVIOUS
<1>1. CASE Compare
  <2>1. cp \in 1..Len(list) /\ jump \in 1..Len(list) /\ list \in Seq(Nodes)
    BY <1>1 DEF Compare, Sorting, TypeOK, LoopInv
  <2>2. Exchange(list, cp, jump) \in Seq(Nodes)
    BY <2>1 DEF Exchange
  <2>3. list' \in Seq(Nodes)
    BY <1>1, <2>1, <2>2 DEF Compare
  <2> QED
    BY <1>1, <2>3 DEF Compare, TypeOK
<1>2. CASE Unsorted \/ Settled \/ Sorted \/ Finished \/ UNCHANGED vars
  <2>1. input' = input /\ flags' = flags /\ list' = list /\ done' \in BOOLEAN
    BY <1>2 DEF Unsorted, Settled, Sorted, Finished, vars, TypeOK
  <2>2. (cp' = cp /\ jump' = jump) \/ (cp' = cp + 1 /\ jump' = cp + 2)
    BY <1>2 DEF Unsorted, Settled, Sorted, Finished, vars
  <2>3. cp' \in Nat \ {0} /\ jump' \in Nat
    BY <2>2 DEF TypeOK
  <2> QED
    BY <2>1, <2>3 DEF TypeOK
<1> QED
  BY <1>1, <1>2 DEF Next

LEMMA NodesStep == TypeOK /\ LoopInv /\ NodesKept /\ [Next]_vars => NodesKept'
<1> SUFFICES ASSUME TypeOK, LoopInv, NodesKept, [Next]_vars PROVE NodesKept'
  OBVIOUS
<1>1. CASE Compare
  <2>1. cp \in 1..Len(list) /\ jump \in 1..Len(list) /\ list \in Seq(Nodes) /\ input' = input
    BY <1>1 DEF Compare, Sorting, TypeOK, LoopInv
  <2>2. CASE list' = list
    BY <2>1, <2>2 DEF NodesKept
  <2>3. CASE list' = Exchange(list, cp, jump)
    <3>1. Len(list') = Len(list) /\ list'[cp] = list[jump] /\ list'[jump] = list[cp]
          /\ \A n \in 1..Len(list) : n # cp /\ n # jump => list'[n] = list[n]
      BY <2>1, <2>3 DEF Exchange
    <3>2. ASSUME NEW m \in 1..Len(input) PROVE \E n \in 1..Len(list') : list'[n] = input[m]
      <4>1. PICK n \in 1..Len(list) : list[n] = input[m]
        BY DEF NodesKept
      <4>2. CASE n = cp
        BY <2>1, <3>1, <4>1, <4>2
      <4>3. CASE n = jump
        BY <2>1, <3>1, <4>1, <4>3
      <4>4. CASE n # cp /\ n # jump
        BY <3>1, <4>1, <4>4
      <4> QED
        BY <4>2, <4>3, <4>4
    <3>3. ASSUME NEW n \in 1..Len(list') PROVE \E m \in 1..Len(input) : list'[n] = input[m]
      <4>1. PICK x \in 1..Len(list) : list'[n] = list[x]
        BY <2>1, <3>1
      <4>2. PICK m \in 1..Len(input) : list[x] = input[m]
        BY DEF NodesKept
      <4> QED
        BY <4>1, <4>2
    <3>4. ASSUME NEW m \in 1..Len(list'), NEW n \in 1..Len(list'), list'[m].add = list'[n].add
          PROVE  m = n
      <4>1. \A x, y \in 1..Len(list) : list[x].add = list[y].add => x = y
        BY DEF NodesKept
      <4> QED
        BY <2>1, <3>1, <3>4, <4>1
    <3> QED
      BY <2>1, <3>1, <3>2, <3>3, <3>4 DEF NodesKept
  <2> QED
    BY <1>1, <2>2, <2>3 DEF Compare
<1>2. CASE Unsorted \/ Settled \/ Sorted \/ Finished \/ UNCHANGED vars
  <2>1. input' = input /\ list' = list
    BY <1>2 DEF Unsorted, Settled, Sorted, Finished, vars
  <2> QED
    BY <2>1 DEF NodesKept
<1> QED
  BY <1>1, <1>2 DEF Next

\* Addresses that are close stay so: the list holds the nodes of the input.
LEMMA CloseNodes ==
  ASSUME TypeOK, NodesKept, Close(input), NEW m \in 1..Len(list), NEW n \in 1..Len(list)
  PROVE  list[m].value - list[n].value < Half /\ list[n].value - list[m].value < Half
<1>1. PICK x \in 1..Len(input) : list[m] = input[x]
  BY DEF NodesKept
<1>2. PICK y \in 1..Len(input) : list[n] = input[y]
  BY DEF NodesKept
<1> QED
  BY <1>1, <1>2 DEF Close

LEMMA SortStep ==
  TypeOK /\ LoopInv /\ NodesKept /\ SortedSoFar /\ [Next]_vars => SortedSoFar'
<1> SUFFICES ASSUME TypeOK, LoopInv, NodesKept, SortedSoFar, [Next]_vars PROVE SortedSoFar'
  OBVIOUS
<1> DEFINE r == "r" \in flags
           L == Len(list)
           Ordered(l, m, n) == /\ NameMayPrecede(r, l[m], l[n])
                               /\ Close(input) => MayPrecede(r, l[m], l[n])
<1>1. CASE Compare
  <2>1. /\ cp \in 1..L /\ jump \in 1..L /\ cp < jump /\ list \in Seq(Nodes) /\ L \in Nat
        /\ input' = input /\ flags' = flags /\ cp' = cp /\ jump' = jump + 1 /\ Sorting
    BY <1>1 DEF Compare, Sorting, TypeOK, LoopInv
  <2>2. \A m \in 1..L : list[m] \in Nodes
    BY <2>1
  <2>3. \A m, n \in 1..L : m < n /\ (m < cp \/ (m = cp /\ n < jump)) => Ordered(list, m, n)
    BY <2>1 DEF SortedSoFar
  <2>4. \A a, b, c \in 1..L : Ordered(list, a, b) /\ Ordered(list, b, c) => Ordered(list, a, c)
    <3>1. r \in BOOLEAN
      OBVIOUS
    <3> QED
      BY <2>2, <3>1, Transitive
  <2>5. CASE ~OutOfOrder(list[cp], list[jump])
    <3>1. list' = list
      BY <1>1, <2>5 DEF Compare
    <3>2. Ordered(list, cp, jump)
      BY <2>1, <2>2, <2>5, Comparison, CloseNodes
    <3>3. \A m, n \in 1..L : m < n /\ (m < cp \/ (m = cp /\ n < jump + 1)) => Ordered(list, m, n)
      <4>1. \A n \in 1..L : n < jump + 1 => n < jump \/ n = jump
        BY <2>1
      <4> QED
        BY <2>3, <3>2, <4>1
    <3> QED
      BY <2>1, <3>1, <3>3 DEF SortedSoFar
  <2>6. CASE OutOfOrder(list[cp], list[jump])
    <3>1. list' = Exchange(list, cp, jump)
      BY <1>1, <2>6 DEF Compare
    <3>2. Len(list') = L /\ list'[cp] = list[jump] /\ list'[jump] = list[cp]
          /\ \A n \in 1..L : n # cp /\ n # jump => list'[n] = list[n]
      BY <2>1, <3>1 DEF Exchange
    <3>3. Ordered(list, jump, cp)
      BY <2>1, <2>2, <2>6, Comparison, CloseNodes
    <3>4. ASSUME NEW m \in 1..L, NEW n \in 1..L, m < n,
                 m < cp \/ (m = cp /\ n < jump + 1)
          PROVE  Ordered(list', m, n)
      <4>1. CASE m < cp
        <5>1. list'[m] = list[m]
          BY <2>1, <3>2, <4>1
        <5>2. Ordered(list, m, n) /\ Ordered(list, m, cp) /\ Ordered(list, m, jump)
          BY <2>1, <2>3, <3>4, <4>1
        <5>3. list'[n] \in {list[n], list[cp], list[jump]}
          BY <3>2
        <5> QED
          BY <5>1, <5>2, <5>3
      <4>2. CASE m = cp /\ n = jump
        BY <3>2, <3>3, <4>2
      <4>3. CASE m = cp /\ n < jump
        <5>1. Ordered(list, cp, n)
          BY <2>1, <2>3, <3>4, <4>3
        <5>2. Ordered(list, jump, n)
          BY <2>1, <2>4, <3>3, <5>1
        <5>3. list'[n] = list[n] /\ list'[m] = list[jump]
          BY <2>1, <3>2, <3>4, <4>3
        <5> QED
          BY <5>2, <5>3
      <4> QED
        BY <2>1, <3>4, <4>1, <4>2, <4>3
    <3> QED
      BY <2>1, <3>2, <3>4 DEF SortedSoFar
  <2> QED
    BY <2>5, <2>6
<1>2. CASE Settled
  <2>1. Sorting /\ cp \in Nat /\ jump > L /\ L \in Nat /\ cp' = cp + 1 /\ jump' = cp + 2
        /\ list' = list /\ input' = input /\ flags' = flags /\ done' = done
    BY <1>2 DEF Settled, TypeOK
  <2>2. ASSUME NEW m \in 1..L, NEW n \in 1..L, m < n, m < cp + 1 \/ (m = cp + 1 /\ n < cp + 2)
        PROVE  m < cp \/ (m = cp /\ n < jump)
    BY <2>1, <2>2 DEF TypeOK
  <2> QED
    BY <2>1, <2>2 DEF SortedSoFar
<1>3. CASE Unsorted \/ Sorted \/ Finished
  BY <1>3 DEF Unsorted, Sorted, Finished, vars, SortedSoFar, Sorting
<1>4. CASE UNCHANGED vars
  BY <1>4 DEF vars, SortedSoFar, Sorting
<1> QED
  BY <1>1, <1>2, <1>3, <1>4 DEF Next

LEMMA LoopStep ==
  TypeOK /\ LoopInv /\ SortedSoFar /\ [Next]_vars => LoopInv'
<1> SUFFICES ASSUME TypeOK, LoopInv, SortedSoFar, [Next]_vars PROVE LoopInv'
  OBVIOUS
<1>0. list \in Seq(Nodes) /\ Len(list) \in Nat /\ cp \in Nat \ {0} /\ jump \in Nat
  BY DEF TypeOK
<1>1. CASE Compare
  <2>1. cp \in 1..Len(list) /\ jump \in 1..Len(list) /\ cp' = cp /\ jump' = jump + 1 /\ cp < jump
        /\ ~done' /\ "p" \notin flags' /\ cp < Len(list)
    BY <1>0, <1>1 DEF Compare, Sorting, LoopInv
  <2>2. Len(list') = Len(list)
    BY <1>0, <1>1, <2>1 DEF Compare, Exchange
  <2> QED
    BY <1>0, <2>1, <2>2 DEF LoopInv
<1>2. CASE Settled
  BY <1>0, <1>2 DEF Settled, Sorting, LoopInv
<1>3. CASE Sorted
  <2>1. Sorting /\ cp = Len(list) /\ UNCHANGED <<input, flags, list, cp, jump>>
    BY <1>3 DEF Sorted
  <2>2. ASSUME NEW m \in 1..Len(list), NEW n \in 1..Len(list), m < n
        PROVE  /\ NameMayPrecede("r" \in flags, list[m], list[n])
               /\ Close(input) => MayPrecede("r" \in flags, list[m], list[n])
    <3>1. m < cp
      BY <1>0, <2>1, <2>2
    <3> QED
      BY <2>1, <2>2, <3>1 DEF SortedSoFar
  <2> QED
    BY <2>1, <2>2 DEF LoopInv, Sorting
<1>4. CASE Unsorted
  <2>1. UNCHANGED <<input, flags, list, cp, jump>> /\ ("p" \in flags \/ list = <<>>)
    BY <1>4 DEF Unsorted
  <2>2. list = <<>> => \A m, n \in 1..Len(list) : ~(m < n)
    OBVIOUS
  <2> QED
    BY <2>1, <2>2 DEF LoopInv
<1>5. CASE Finished \/ UNCHANGED vars
  BY <1>5 DEF Finished, vars, LoopInv
<1> QED
  BY <1>1, <1>2, <1>3, <1>4, <1>5 DEF Next

LEMMA IndInit == Init => IInv
<1> SUFFICES ASSUME Init PROVE IInv
  OBVIOUS
<1>1. list \in Seq(Nodes) /\ input = list /\ Len(list) \in Nat
      /\ \A m, n \in 1..Len(list) : list[m].add = list[n].add => m = n
  BY SortAssumption DEF Init
<1>2. TypeOK
  <2>1. done \in BOOLEAN /\ input \in Lists /\ flags \in Flags
    BY DEF Init
  <2>2. cp \in Nat \ {0} /\ jump \in Nat
    BY DEF Init
  <2> QED
    BY <1>1, <2>1, <2>2 DEF TypeOK
<1>3. NodesKept
  BY <1>1 DEF NodesKept
<1>4. SortedSoFar
  BY <1>1 DEF Init, SortedSoFar
<1>5. LoopInv
  <2>1. list # <<>> => Len(list) >= 1
    BY <1>1
  <2> QED
    BY <1>1, <2>1 DEF Init, LoopInv
<1> QED
  BY <1>2, <1>3, <1>4, <1>5 DEF IInv

LEMMA IndStep == IInv /\ [Next]_vars => IInv'
  BY TypeStep, NodesStep, SortStep, LoopStep DEF IInv

\* No symbol is lost, duplicated or mixed up.
THEOREM NoNodeLost == Spec => []NodesKept
<1>1. IInv => NodesKept
  BY DEF IInv
<1> QED
  BY <1>1, IndInit, IndStep, PTL DEF Spec

\* Whatever is printed is in the order of the names.
THEOREM NamesSorted == Spec => []NamesInOrder
<1>1. IInv => NamesInOrder
  BY DEF IInv, LoopInv, NamesInOrder
<1> QED
  BY <1>1, IndInit, IndStep, PTL DEF Spec

LEMMA SortAnswers ==
  IInv /\ IInv' /\ [Next]_vars =>
    [Contract!Answer]_<<<<input, flags>>, done, IF done THEN list ELSE <<>>>>
<1> SUFFICES ASSUME IInv, IInv', [Next]_vars
             PROVE  [Contract!Answer]_<<<<input, flags>>, done, IF done THEN list ELSE <<>>>>
  OBVIOUS
<1>1. <<input, flags>>' = <<input, flags>>
  BY DEF Next, vars, Unsorted, Compare, Settled, Sorted, Finished
<1>b. done \in BOOLEAN /\ done' \in BOOLEAN
  BY DEF IInv, TypeOK
<1>2. CASE done' /\ ~done
  <2>1. IsSortOf(<<input, flags>>, list')
    <3>1. NodesKept' /\ LoopInv'
      BY DEF IInv
    <3>2. "p" \in flags => list' = input
      BY <1>1, <3>1 DEF LoopInv
    <3>3. Len(list') = Len(input)
          /\ \A m \in 1..Len(list') : \E n \in 1..Len(list') : list'[n] = input[m]
      BY <1>1, <3>1 DEF NodesKept
    <3>4. "p" \notin flags /\ Close(input) =>
            \A m, n \in 1..Len(list') : m < n => MayPrecede("r" \in flags, list'[m], list'[n])
      BY <1>1, <1>2, <3>1 DEF LoopInv
    <3> QED
      BY <3>2, <3>3, <3>4 DEF IsSortOf
  <2> QED
    BY <1>1, <1>2, <2>1 DEF Contract!Answer
<1>3. CASE ~done'
  <2>1. ~done
    BY <1>3 DEF Next, vars, Unsorted, Compare, Settled, Sorted, Finished, Sorting
  <2>2. (IF done THEN list ELSE <<>>) = <<>> /\ (IF done' THEN list' ELSE <<>>) = <<>>
    BY <1>3, <2>1
  <2>3. done' = done
    BY <1>3, <1>b, <2>1
  <2> QED
    BY <1>1, <2>2, <2>3
<1>4. CASE done
  <2>1. UNCHANGED vars
    BY <1>4 DEF Next, vars, Unsorted, Compare, Settled, Sorted, Finished, Sorting
  <2> QED
    BY <2>1 DEF vars
<1> QED
  BY <1>2, <1>3, <1>4, <1>b

\* What the loops do pair by pair is the sort: by name, then by address when the
\* addresses are close.
THEOREM SortIsRight == Spec => Implements
<1>1. Init => Contract!Init
  BY DEF Init, Contract!Init
<1> QED
  BY <1>1, SortAnswers, IndInit, IndStep, PTL DEF Spec, Implements, Contract!Spec

-----------------------------------------------------------------------------
(***************************************************************************)
(* A value and its digits.                                                 *)
(***************************************************************************)
LEMMA RestOfANumber ==
  ASSUME NEW v \in Nat
  PROVE  Rest(v) \in Nat /\ v % 256 \in 0..255 /\ v = (Rest(v) * 256) + (v % 256)
  BY DEF Rest

LEMMA BytesAreNumbers ==
  ASSUME NEW v \in Nat
  PROVE  /\ Above(v) \in Nat
         /\ \A p \in 0..7 : ByteAt(v, p) \in Nat
         /\ ByteAt(v, 0) = v % 256 /\ ByteAt(v, 1) = Rest(v) % 256
         /\ ByteAt(v, 2) = Rest(Rest(v)) % 256 /\ ByteAt(v, 3) = Rest(Rest(Rest(v))) % 256
         /\ ByteAt(v, 4) = Above(v) % 256 /\ ByteAt(v, 5) = Rest(Above(v)) % 256
         /\ ByteAt(v, 6) = Rest(Rest(Above(v))) % 256
         /\ ByteAt(v, 7) = Rest(Rest(Rest(Above(v)))) % 256
<1>1. /\ Rest(v) \in Nat /\ Rest(Rest(v)) \in Nat /\ Rest(Rest(Rest(v))) \in Nat
      /\ Above(v) \in Nat /\ Rest(Above(v)) \in Nat
      /\ Rest(Rest(Above(v))) \in Nat /\ Rest(Rest(Rest(Above(v)))) \in Nat
  BY RestOfANumber DEF Above
<1>2. /\ ByteAt(v, 0) = v % 256 /\ ByteAt(v, 1) = Rest(v) % 256
      /\ ByteAt(v, 2) = Rest(Rest(v)) % 256 /\ ByteAt(v, 3) = Rest(Rest(Rest(v))) % 256
      /\ ByteAt(v, 4) = Above(v) % 256 /\ ByteAt(v, 5) = Rest(Above(v)) % 256
      /\ ByteAt(v, 6) = Rest(Rest(Above(v))) % 256
      /\ ByteAt(v, 7) = Rest(Rest(Rest(Above(v)))) % 256
  BY DEF ByteAt, Word
<1>3. /\ ByteAt(v, 0) \in Nat /\ ByteAt(v, 1) \in Nat /\ ByteAt(v, 2) \in Nat
      /\ ByteAt(v, 3) \in Nat /\ ByteAt(v, 4) \in Nat /\ ByteAt(v, 5) \in Nat
      /\ ByteAt(v, 6) \in Nat /\ ByteAt(v, 7) \in Nat
  <2>1. \A u \in Nat : u % 256 \in Nat
    BY RestOfANumber
  <2> QED
    BY <1>1, <1>2, <2>1
<1>4. \A p \in 0..7 : p = 0 \/ p = 1 \/ p = 2 \/ p = 3 \/ p = 4 \/ p = 5 \/ p = 6 \/ p = 7
  OBVIOUS
<1> QED
  BY <1>1, <1>2, <1>3, <1>4

\* The digits are read one after another.
LEMMA FourDigits ==
  ASSUME NEW d \in Seq(Nat), Len(d) = 4
  PROVE  \E u : /\ u[0] = 0 /\ u[4] = Number(d)
               /\ u[1] = u[0] * 256 + d[1] /\ u[2] = u[1] * 256 + d[2]
               /\ u[3] = u[2] * 256 + d[3] /\ u[4] = u[3] * 256 + d[4]
<1>1. \A n \in 1..4 : d[n] \in Nat
  <2>1. \A n \in 1..Len(d) : d[n] \in Nat
    BY ElementOfSeq
  <2> QED
    BY <2>1
<1>2. \A m, n \in Nat : m * 256 + n \in Nat
  OBVIOUS
<1>c1. PICK c1 \in Nat : c1 = d[1]
  BY <1>1
<1>c2. PICK c2 \in Nat : c2 = c1 * 256 + d[2]
  BY <1>1, <1>2
<1>c3. PICK c3 \in Nat : c3 = c2 * 256 + d[3]
  BY <1>1, <1>2
<1>c4. PICK c4 \in Nat : c4 = c3 * 256 + d[4]
  BY <1>1, <1>2
<1> DEFINE g == [n \in 0..4 |-> IF n = 0 THEN 0
                              ELSE IF n = 1 THEN c1
                              ELSE IF n = 2 THEN c2
                              ELSE IF n = 3 THEN c3 ELSE c4]
           upto == CHOOSE u : u = [n \in 0..4 |-> IF n = 0 THEN 0 ELSE u[n - 1] * 256 + d[n]]
<1>3. g = [n \in 0..4 |-> IF n = 0 THEN 0 ELSE g[n - 1] * 256 + d[n]]
  <2>1. g[0] = 0 /\ g[1] = c1 /\ g[2] = c2 /\ g[3] = c3 /\ g[4] = c4
    OBVIOUS
  <2>2. g = [n \in 0..4 |-> g[n]]
    OBVIOUS
  <2> HIDE DEF g
  <2>3. /\ g[1] = g[0] * 256 + d[1] /\ g[2] = g[1] * 256 + d[2]
        /\ g[3] = g[2] * 256 + d[3] /\ g[4] = g[3] * 256 + d[4]
    BY <2>1, <1>c1, <1>c2, <1>c3, <1>c4
  <2>4. \A n \in 1..4 : n = 1 \/ n = 2 \/ n = 3 \/ n = 4
    OBVIOUS
  <2>5. ASSUME NEW n \in 1..4 PROVE g[n] = g[n - 1] * 256 + d[n]
    <3>1. CASE n = 1
      BY <2>3, <3>1
    <3>2. CASE n = 2
      BY <2>3, <3>2
    <3>3. CASE n = 3
      BY <2>3, <3>3
    <3>4. CASE n = 4
      BY <2>3, <3>4
    <3> QED
      BY <2>4, <3>1, <3>2, <3>3, <3>4
  <2>6. \A n \in 0..4 : n = 0 \/ (n \in 1..4 /\ n # 0)
    OBVIOUS
  <2>7. \A n \in 0..4 : g[n] = IF n = 0 THEN 0 ELSE g[n - 1] * 256 + d[n]
    BY <2>1, <2>5, <2>6
  <2> QED
    BY <2>2, <2>7
<1> HIDE DEF g
<1>4. upto = [n \in 0..4 |-> IF n = 0 THEN 0 ELSE upto[n - 1] * 256 + d[n]]
  BY <1>3
<1>5. Number(d) = upto[4]
  BY DEF Number
<1> HIDE DEF upto
<1>6. upto[0] = 0
  BY <1>4
<1>7. /\ upto[1] = upto[0] * 256 + d[1] /\ upto[2] = upto[1] * 256 + d[2]
      /\ upto[3] = upto[2] * 256 + d[3] /\ upto[4] = upto[3] * 256 + d[4]
  BY <1>4
<1> QED
  BY <1>5, <1>6, <1>7

LEMMA EightDigits ==
  ASSUME NEW d \in Seq(Nat), Len(d) = 8
  PROVE  \E u : /\ u[0] = 0 /\ u[8] = Number(d)
               /\ u[1] = u[0] * 256 + d[1] /\ u[2] = u[1] * 256 + d[2]
               /\ u[3] = u[2] * 256 + d[3] /\ u[4] = u[3] * 256 + d[4]
               /\ u[5] = u[4] * 256 + d[5] /\ u[6] = u[5] * 256 + d[6]
               /\ u[7] = u[6] * 256 + d[7] /\ u[8] = u[7] * 256 + d[8]
<1>1. \A n \in 1..8 : d[n] \in Nat
  <2>1. \A n \in 1..Len(d) : d[n] \in Nat
    BY ElementOfSeq
  <2> QED
    BY <2>1
<1>2. \A m, n \in Nat : m * 256 + n \in Nat
  OBVIOUS
<1>c1. PICK c1 \in Nat : c1 = d[1]
  BY <1>1
<1>c2. PICK c2 \in Nat : c2 = c1 * 256 + d[2]
  BY <1>1, <1>2
<1>c3. PICK c3 \in Nat : c3 = c2 * 256 + d[3]
  BY <1>1, <1>2
<1>c4. PICK c4 \in Nat : c4 = c3 * 256 + d[4]
  BY <1>1, <1>2
<1>c5. PICK c5 \in Nat : c5 = c4 * 256 + d[5]
  BY <1>1, <1>2
<1>c6. PICK c6 \in Nat : c6 = c5 * 256 + d[6]
  BY <1>1, <1>2
<1>c7. PICK c7 \in Nat : c7 = c6 * 256 + d[7]
  BY <1>1, <1>2
<1>c8. PICK c8 \in Nat : c8 = c7 * 256 + d[8]
  BY <1>1, <1>2
<1> DEFINE g == [n \in 0..8 |-> IF n = 0 THEN 0
                              ELSE IF n = 1 THEN c1
                              ELSE IF n = 2 THEN c2
                              ELSE IF n = 3 THEN c3
                              ELSE IF n = 4 THEN c4
                              ELSE IF n = 5 THEN c5
                              ELSE IF n = 6 THEN c6
                              ELSE IF n = 7 THEN c7 ELSE c8]
           upto == CHOOSE u : u = [n \in 0..8 |-> IF n = 0 THEN 0 ELSE u[n - 1] * 256 + d[n]]
<1>3. g = [n \in 0..8 |-> IF n = 0 THEN 0 ELSE g[n - 1] * 256 + d[n]]
  <2>1. g[0] = 0 /\ g[1] = c1 /\ g[2] = c2 /\ g[3] = c3 /\ g[4] = c4 /\ g[5] = c5 /\ g[6] = c6 /\ g[7] = c7 /\ g[8] = c8
    OBVIOUS
  <2>2. g = [n \in 0..8 |-> g[n]]
    OBVIOUS
  <2> HIDE DEF g
  <2>3. /\ g[1] = g[0] * 256 + d[1] /\ g[2] = g[1] * 256 + d[2]
        /\ g[3] = g[2] * 256 + d[3] /\ g[4] = g[3] * 256 + d[4]
        /\ g[5] = g[4] * 256 + d[5] /\ g[6] = g[5] * 256 + d[6]
        /\ g[7] = g[6] * 256 + d[7] /\ g[8] = g[7] * 256 + d[8]
    BY <2>1, <1>c1, <1>c2, <1>c3, <1>c4, <1>c5, <1>c6, <1>c7, <1>c8
  <2>4. \A n \in 1..8 : n = 1 \/ n = 2 \/ n = 3 \/ n = 4 \/ n = 5 \/ n = 6 \/ n = 7 \/ n = 8
    OBVIOUS
  <2>5. ASSUME NEW n \in 1..8 PROVE g[n] = g[n - 1] * 256 + d[n]
    <3>1. CASE n = 1
      BY <2>3, <3>1
    <3>2. CASE n = 2
      BY <2>3, <3>2
    <3>3. CASE n = 3
      BY <2>3, <3>3
    <3>4. CASE n = 4
      BY <2>3, <3>4
    <3>5. CASE n = 5
      BY <2>3, <3>5
    <3>6. CASE n = 6
      BY <2>3, <3>6
    <3>7. CASE n = 7
      BY <2>3, <3>7
    <3>8. CASE n = 8
      BY <2>3, <3>8
    <3> QED
      BY <2>4, <3>1, <3>2, <3>3, <3>4, <3>5, <3>6, <3>7, <3>8
  <2>6. \A n \in 0..8 : n = 0 \/ (n \in 1..8 /\ n # 0)
    OBVIOUS
  <2>7. \A n \in 0..8 : g[n] = IF n = 0 THEN 0 ELSE g[n - 1] * 256 + d[n]
    BY <2>1, <2>5, <2>6
  <2> QED
    BY <2>2, <2>7
<1> HIDE DEF g
<1>4. upto = [n \in 0..8 |-> IF n = 0 THEN 0 ELSE upto[n - 1] * 256 + d[n]]
  BY <1>3
<1>5. Number(d) = upto[8]
  BY DEF Number
<1> HIDE DEF upto
<1>6. upto[0] = 0
  BY <1>4
<1>7. /\ upto[1] = upto[0] * 256 + d[1] /\ upto[2] = upto[1] * 256 + d[2]
      /\ upto[3] = upto[2] * 256 + d[3] /\ upto[4] = upto[3] * 256 + d[4]
      /\ upto[5] = upto[4] * 256 + d[5] /\ upto[6] = upto[5] * 256 + d[6]
      /\ upto[7] = upto[6] * 256 + d[7] /\ upto[8] = upto[7] * 256 + d[8]
  BY <1>4
<1> QED
  BY <1>5, <1>6, <1>7

\* A value fits in the bytes of its entry, as it was read from there.
Fits(node) == IF node.is_64 THEN Above(Above(node.value)) = 0 ELSE Above(node.value) = 0

LEMMA DigitsTellTheValue ==
  ASSUME NEW node \in Nodes, Fits(node)
  PROVE  /\ hexdump_address(node) \in Seq(Nat)
         /\ Len(hexdump_address(node)) = Width(node)
         /\ Number(hexdump_address(node)) = node.value
<1> DEFINE v == node.value
           a == Above(v)
           w == Width(node)
           d == hexdump_address(node)
<1>1. v \in Nat /\ node.is_64 \in BOOLEAN /\ a \in Nat
  BY BytesAreNumbers DEF Nodes
<1>2. w \in {4, 8} /\ w \in Nat
  BY <1>1 DEF Width
<1>3. \A n \in 1..w : d[n] = ByteAt(v, w - n) /\ d[n] \in Nat
  <2>1. \A n \in 1..w : w - n \in 0..7
    BY <1>2
  <2> QED
    BY <1>1, <2>1, BytesAreNumbers DEF hexdump_address
<1>4. d \in Seq(Nat) /\ Len(d) = w
  <2>1. d = [n \in 1..w |-> ByteAt(v, w - n)]
    BY DEF hexdump_address
  <2> QED
    BY <1>2, <1>3, <2>1
<1> HIDE DEF v, a, w, d
<1>5. CASE w = 4
  <2>1. Above(v) = 0
    BY <1>1, <1>5 DEF Fits, Width, v, w
  <2>2. /\ d[1] = Rest(Rest(Rest(v))) % 256 /\ d[2] = Rest(Rest(v)) % 256
        /\ d[3] = Rest(v) % 256 /\ d[4] = v % 256
    <3>1. /\ d[1] = ByteAt(v, 3) /\ d[2] = ByteAt(v, 2) /\ d[3] = ByteAt(v, 1)
          /\ d[4] = ByteAt(v, 0)
      BY <1>3, <1>5
    <3> QED
      BY <1>1, <3>1, BytesAreNumbers
  <2>3. /\ Rest(Rest(Rest(v))) = Above(v) * 256 + (Rest(Rest(Rest(v))) % 256)
        /\ Rest(Rest(v)) = Rest(Rest(Rest(v))) * 256 + (Rest(Rest(v)) % 256)
        /\ Rest(v) = Rest(Rest(v)) * 256 + (Rest(v) % 256)
        /\ v = Rest(v) * 256 + (v % 256)
    <3>1. \A u \in Nat : Rest(u) \in Nat /\ u = Rest(u) * 256 + (u % 256)
      BY RestOfANumber
    <3>2. v \in Nat /\ Rest(v) \in Nat /\ Rest(Rest(v)) \in Nat /\ Rest(Rest(Rest(v))) \in Nat
      BY <1>1, <3>1
    <3>3. Above(v) = Rest(Rest(Rest(Rest(v))))
      BY DEF Above
    <3>4. Rest(Rest(Rest(v))) = Above(v) * 256 + (Rest(Rest(Rest(v))) % 256)
      BY <3>1, <3>2, <3>3
    <3>5. Rest(Rest(v)) = Rest(Rest(Rest(v))) * 256 + (Rest(Rest(v)) % 256)
      BY <3>1, <3>2
    <3>6. Rest(v) = Rest(Rest(v)) * 256 + (Rest(v) % 256)
      BY <3>1, <3>2
    <3>7. v = Rest(v) * 256 + (v % 256)
      BY <1>1, <3>1
    <3> QED
      BY <3>4, <3>5, <3>6, <3>7
  <2>4. PICK u : /\ u[0] = 0 /\ u[4] = Number(d)
                 /\ u[1] = u[0] * 256 + d[1] /\ u[2] = u[1] * 256 + d[2]
                 /\ u[3] = u[2] * 256 + d[3] /\ u[4] = u[3] * 256 + d[4]
    BY <1>4, <1>5, FourDigits
  <2>5. u[1] = Rest(Rest(Rest(v)))
    BY <2>1, <2>2, <2>3, <2>4
  <2>6. u[2] = Rest(Rest(v))
    BY <2>2, <2>3, <2>4, <2>5
  <2>7. u[3] = Rest(v)
    BY <2>2, <2>3, <2>4, <2>6
  <2>8. u[4] = v
    BY <2>2, <2>3, <2>4, <2>7
  <2> QED
    BY <1>4, <2>4, <2>8 DEF v, w, d
<1>6. CASE w = 8
  <2>1. Above(a) = 0
    BY <1>1, <1>6 DEF Fits, Width, v, w, a
  <2>2. /\ d[1] = Rest(Rest(Rest(a))) % 256 /\ d[2] = Rest(Rest(a)) % 256
        /\ d[3] = Rest(a) % 256 /\ d[4] = a % 256
        /\ d[5] = Rest(Rest(Rest(v))) % 256 /\ d[6] = Rest(Rest(v)) % 256
        /\ d[7] = Rest(v) % 256 /\ d[8] = v % 256
    <3>1. /\ d[1] = ByteAt(v, 7) /\ d[2] = ByteAt(v, 6) /\ d[3] = ByteAt(v, 5)
          /\ d[4] = ByteAt(v, 4) /\ d[5] = ByteAt(v, 3) /\ d[6] = ByteAt(v, 2)
          /\ d[7] = ByteAt(v, 1) /\ d[8] = ByteAt(v, 0)
      BY <1>3, <1>6
    <3> QED
      BY <1>1, <3>1, BytesAreNumbers DEF a
  <2>3. /\ Rest(Rest(Rest(a))) = Above(a) * 256 + (Rest(Rest(Rest(a))) % 256)
        /\ Rest(Rest(a)) = Rest(Rest(Rest(a))) * 256 + (Rest(Rest(a)) % 256)
        /\ Rest(a) = Rest(Rest(a)) * 256 + (Rest(a) % 256)
        /\ a = Rest(a) * 256 + (a % 256)
    <3>1. \A u \in Nat : Rest(u) \in Nat /\ u = Rest(u) * 256 + (u % 256)
      BY RestOfANumber
    <3>2. a \in Nat /\ Rest(a) \in Nat /\ Rest(Rest(a)) \in Nat /\ Rest(Rest(Rest(a))) \in Nat
      BY <1>1, <3>1
    <3>3. Above(a) = Rest(Rest(Rest(Rest(a))))
      BY DEF Above
    <3>4. Rest(Rest(Rest(a))) = Above(a) * 256 + (Rest(Rest(Rest(a))) % 256)
      BY <3>1, <3>2, <3>3
    <3>5. Rest(Rest(a)) = Rest(Rest(Rest(a))) * 256 + (Rest(Rest(a)) % 256)
      BY <3>1, <3>2
    <3>6. Rest(a) = Rest(Rest(a)) * 256 + (Rest(a) % 256)
      BY <3>1, <3>2
    <3>7. a = Rest(a) * 256 + (a % 256)
      BY <1>1, <3>1
    <3> QED
      BY <3>4, <3>5, <3>6, <3>7
  <2>4. /\ Rest(Rest(Rest(v))) = a * 256 + (Rest(Rest(Rest(v))) % 256)
        /\ Rest(Rest(v)) = Rest(Rest(Rest(v))) * 256 + (Rest(Rest(v)) % 256)
        /\ Rest(v) = Rest(Rest(v)) * 256 + (Rest(v) % 256)
        /\ v = Rest(v) * 256 + (v % 256)
    <3>1. \A u \in Nat : Rest(u) \in Nat /\ u = Rest(u) * 256 + (u % 256)
      BY RestOfANumber
    <3>2. v \in Nat /\ Rest(v) \in Nat /\ Rest(Rest(v)) \in Nat /\ Rest(Rest(Rest(v))) \in Nat
      BY <1>1, <3>1
    <3>3. a = Rest(Rest(Rest(Rest(v))))
      BY DEF Above, a
    <3>4. Rest(Rest(Rest(v))) = a * 256 + (Rest(Rest(Rest(v))) % 256)
      BY <3>1, <3>2, <3>3
    <3>5. Rest(Rest(v)) = Rest(Rest(Rest(v))) * 256 + (Rest(Rest(v)) % 256)
      BY <3>1, <3>2
    <3>6. Rest(v) = Rest(Rest(v)) * 256 + (Rest(v) % 256)
      BY <3>1, <3>2
    <3>7. v = Rest(v) * 256 + (v % 256)
      BY <1>1, <3>1
    <3> QED
      BY <3>4, <3>5, <3>6, <3>7
  <2>5. PICK u : /\ u[0] = 0 /\ u[8] = Number(d)
                 /\ u[1] = u[0] * 256 + d[1] /\ u[2] = u[1] * 256 + d[2]
                 /\ u[3] = u[2] * 256 + d[3] /\ u[4] = u[3] * 256 + d[4]
                 /\ u[5] = u[4] * 256 + d[5] /\ u[6] = u[5] * 256 + d[6]
                 /\ u[7] = u[6] * 256 + d[7] /\ u[8] = u[7] * 256 + d[8]
    <3>1. d \in Seq(Nat) /\ Len(d) = 8
      BY <1>4, <1>6
    <3> QED
      BY <3>1, EightDigits, SMTT(30)
  <2>6. u[1] = Rest(Rest(Rest(a)))
    BY <2>1, <2>2, <2>3, <2>5
  <2>7. u[2] = Rest(Rest(a))
    BY <2>2, <2>3, <2>5, <2>6
  <2>8. u[3] = Rest(a)
    BY <2>2, <2>3, <2>5, <2>7
  <2>9. u[4] = a
    BY <2>2, <2>3, <2>5, <2>8
  <2>10. u[5] = Rest(Rest(Rest(v)))
    BY <2>2, <2>4, <2>5, <2>9
  <2>11. u[6] = Rest(Rest(v))
    BY <2>2, <2>4, <2>5, <2>10
  <2>12. u[7] = Rest(v)
    BY <2>2, <2>4, <2>5, <2>11
  <2>13. u[8] = v
    BY <2>2, <2>4, <2>5, <2>12
  <2> QED
    BY <1>4, <2>5, <2>13 DEF v, w, d
<1> QED
  BY <1>2, <1>5, <1>6

-----------------------------------------------------------------------------
(***************************************************************************)
(* The printing.                                                           *)
(***************************************************************************)
\* What is tested node by node is what the flags mean.
LEMMA ShownIsSelected ==
  ASSUME NEW type \in Types
  PROVE  can_show_list(type) <=> Selected(flags, type)
<1>1. type = "U" => type \in Capitals
  BY DEF Capitals
<1>2. type = "u" => type \notin Capitals
  BY DEF Capitals
<1>3. "U" # "u"
  OBVIOUS
<1> QED
  BY <1>1, <1>2, <1>3 DEF can_show_list, Selected, Undefined, is_extern

LEMMA InputNodes ==
  ASSUME TypeOK, NEW n \in 1..Len(input)
  PROVE  input[n] \in Nodes /\ input[n].type \in Types /\ Fits(input[n])
<1>1. input \in Lists /\ input \in Seq(Nodes)
  BY InputType DEF TypeOK
<1>2. input[n] \in Nodes
  BY <1>1, ElementOfSeq
<1> QED
  BY <1>1, <1>2, PrintAssumption, ValueAssumption DEF Fits

LEMMA ListNodes ==
  ASSUME TypeOK, NodesKept, NEW n \in 1..Len(list)
  PROVE  list[n] \in Nodes /\ list[n].type \in Types /\ Fits(list[n])
<1>1. PICK m \in 1..Len(input) : list[n] = input[m]
  BY DEF NodesKept
<1> QED
  BY <1>1, InputNodes

LEMMA LineType ==
  ASSUME NEW node \in Nodes, Fits(node)
  PROVE  Line(node) \in Lines
<1>1. hexdump_address(node) \in Seq(Nat) /\ node.type \in STRING /\ node.name \in Nat
  BY DigitsTellTheValue DEF Nodes
<1> QED
  BY <1>1 DEF Line, Lines

-----------------------------------------------------------------------------
\* The sort is a behaviour of NmSort, and the printing leaves it alone.
LEMMA SortOrPrint ==
  ASSUME TypeOK, PrintTypeOK, [PrintNext]_<<vars, pvars>>
  PROVE  /\ [Next]_vars
         /\ \/ ~done /\ UNCHANGED pvars
            \/ done /\ UNCHANGED vars /\ (NoList \/ Node \/ Return \/ UNCHANGED pvars)
<1>1. done \in BOOLEAN
  BY DEF TypeOK
<1>2. CASE Sort
  <2>1. ~done
    BY <1>2 DEF Sort, Unsorted, Compare, Settled, Sorted, Sorting
  <2> QED
    BY <1>2, <2>1 DEF Sort, Next
<1>3. CASE NoList \/ Node \/ Return
  BY <1>3 DEF NoList, Node, Return, Printing
<1>4. CASE Ended
  BY <1>1, <1>4 DEF Ended, PrintTypeOK
<1>5. CASE UNCHANGED <<vars, pvars>>
  <2>1. UNCHANGED vars /\ UNCHANGED pvars
    BY <1>5
  <2> QED
    BY <1>1, <2>1
<1> QED
  BY <1>2, <1>3, <1>4, <1>5 DEF PrintNext

LEMMA PrintTypeStep ==
  ASSUME IInv, IInv', PrintTypeOK, [PrintNext]_<<vars, pvars>>
  PROVE  PrintTypeOK'
<1>1. TypeOK /\ NodesKept /\ list \in Seq(Nodes) /\ Len(list) \in Nat /\ Len(input) \in Nat
  BY InputType DEF IInv, TypeOK
<1>2. (input = <<>>) <=> (list = <<>>)
  BY <1>1, InputType DEF NodesKept
<1>3. CASE ~done /\ UNCHANGED pvars
  <2>1. cur' = 1 /\ shown' = <<>> /\ result' = "none"
    BY <1>3 DEF pvars, PrintTypeOK
  <2>2. Len(list') \in Nat
    BY DEF IInv, TypeOK
  <2>3. 1 \in 1..(Len(list') + 1) /\ <<>> \in Seq(Lines)
    BY <2>2
  <2> QED
    BY <2>1, <2>3 DEF PrintTypeOK
<1>4. CASE done /\ UNCHANGED vars /\ UNCHANGED pvars
  BY <1>4 DEF vars, pvars, PrintTypeOK
<1>5. CASE done /\ UNCHANGED vars /\ NoList
  <2>1. cur = 1 /\ Len(list) + 1 = 1
    BY <1>1, <1>5 DEF NoList, PrintTypeOK
  <2> QED
    BY <1>2, <1>5, <2>1 DEF vars, NoList, PrintTypeOK
<1>6. CASE done /\ UNCHANGED vars /\ Return
  BY <1>1, <1>2, <1>6 DEF vars, Return, PrintTypeOK
<1>7. CASE done /\ UNCHANGED vars /\ Node
  <2>1. cur \in 1..Len(list) /\ cur' = cur + 1 /\ result = "none" /\ result' = result
    BY <1>1, <1>7 DEF Node, Printing, PrintTypeOK
  <2>2. shown' \in Seq(Lines)
    <3>1. Line(list[cur]) \in Lines
      BY <1>1, <2>1, ListNodes, LineType
    <3>2. shown \in Seq(Lines)
      BY DEF PrintTypeOK
    <3> QED
      BY <1>7, <3>1, <3>2 DEF Node
  <2> QED
    BY <1>1, <1>7, <2>1, <2>2 DEF vars, PrintTypeOK
<1> QED
  BY <1>1, <1>3, <1>4, <1>5, <1>6, <1>7, SortOrPrint

LEMMA ShownStep ==
  ASSUME IInv, IInv', PrintTypeOK, PrintTypeOK', ShownSoFar, [PrintNext]_<<vars, pvars>>
  PROVE  ShownSoFar'
<1>1. TypeOK /\ NodesKept /\ list \in Seq(Nodes) /\ Len(list) \in Nat
  BY DEF IInv, TypeOK
<1>2. CASE ~done /\ UNCHANGED pvars
  <2>1. cur' = 1 /\ shown' = <<>>
    BY <1>2 DEF pvars, PrintTypeOK
  <2>2. Len(shown') = 0 /\ 1..Len(shown') = {} /\ Passed' = {}
    BY <2>1 DEF Passed
  <2>3. [q \in {} |-> 1] \in [{} -> {}]
    OBVIOUS
  <2> QED
    BY <2>2, <2>3 DEF ShownSoFar
<1>3. CASE done /\ UNCHANGED vars /\ cur' = cur /\ shown' = shown
  BY <1>3 DEF vars, ShownSoFar, Passed, Line, hexdump_address
<1>4. CASE done /\ UNCHANGED vars /\ Node
  <2>1. /\ cur \in 1..Len(list) /\ cur' = cur + 1 /\ list' = list /\ flags' = flags
        /\ shown' = IF can_show_list(list[cur].type) THEN Append(shown, Line(list[cur])) ELSE shown
    BY <1>1, <1>4 DEF Node, Printing, PrintTypeOK, vars
  <2>2. shown \in Seq(Lines) /\ Len(shown) \in Nat
    BY DEF PrintTypeOK
  <2> DEFINE here == Selected(flags, list[cur].type)
             L    == Len(shown)
  <2>3. can_show_list(list[cur].type) <=> here
    BY <1>1, <2>1, ListNodes, ShownIsSelected
  <2>4. PICK at \in [1..L -> Passed] :
          /\ \A q \in 1..L : /\ shown[q] = Line(list[at[q]])
                             /\ \A s \in 1..L : q < s => at[q] < at[s]
          /\ \A n \in Passed : \E q \in 1..L : at[q] = n
    BY DEF ShownSoFar
  <2>5. /\ Passed' = IF here THEN Passed \cup {cur} ELSE Passed
        /\ \A n \in Passed : n \in Int /\ n < cur
    <3>1. \A n : n \in 1..(cur + 1 - 1) <=> n \in 1..(cur - 1) \/ n = cur
      BY <2>1
    <3> QED
      BY <2>1, <3>1 DEF Passed
  <2>6. ASSUME NEW n \in 1..Len(list) PROVE Line(list[n])' = Line(list[n])
    BY <2>1 DEF Line
  <2>7. CASE ~here
    <3>1. shown' = shown /\ Passed' = Passed
      BY <2>1, <2>3, <2>5, <2>7
    <3>2. \A n \in Passed : n \in 1..Len(list)
      BY <1>1, <2>1 DEF Passed
    <3>3. \A q \in 1..L : shown'[q] = Line(list[at[q]])'
      BY <2>4, <2>6, <3>1, <3>2
    <3> QED
      BY <2>4, <3>1, <3>3 DEF ShownSoFar
  <2>8. CASE here
    <3>p. PICK bt : bt = [q \in 1..(L + 1) |-> IF q <= L THEN at[q] ELSE cur]
      OBVIOUS
    <3>1. /\ shown' = Append(shown, Line(list[cur])) /\ Line(list[cur]) \in Lines
          /\ Passed' = Passed \cup {cur}
      BY <1>1, <2>1, <2>3, <2>5, <2>8, ListNodes, LineType
    <3>2. /\ Len(shown') = L + 1 /\ shown'[L + 1] = Line(list[cur])
          /\ \A q \in 1..L : shown'[q] = shown[q]
      BY <2>2, <3>1
    <3>3. \A n \in Passed : n \in 1..Len(list)
      BY <1>1, <2>1 DEF Passed
    <3> HIDE DEF L
    <3>4. \A q \in 1..(L + 1) : (q \in 1..L /\ q <= L) \/ (q = L + 1 /\ ~(q <= L))
      BY <2>2 DEF L
    <3>5. bt \in [1..(L + 1) -> Passed']
      BY <2>4, <3>1, <3>4, <3>p
    <3>6. ASSUME NEW q \in 1..(L + 1) PROVE shown'[q] = Line(list[bt[q]])'
      <4>1. CASE q \in 1..L /\ q <= L
        <5>1. bt[q] = at[q] /\ at[q] \in Passed
          BY <2>4, <3>p, <4>1
        <5> QED
          BY <2>4, <2>6, <3>2, <3>3, <4>1, <5>1
      <4>2. CASE q = L + 1 /\ ~(q <= L)
        <5>1. bt[q] = cur
          BY <3>p, <4>2
        <5> QED
          BY <2>1, <2>6, <3>2, <4>2, <5>1
      <4> QED
        BY <3>4, <4>1, <4>2
    <3>7. ASSUME NEW q \in 1..(L + 1), NEW r \in 1..(L + 1), q < r PROVE bt[q] < bt[r]
      <4>1. q \in 1..L /\ q <= L
        BY <2>2, <3>7 DEF L
      <4>2. CASE r \in 1..L /\ r <= L
        BY <2>4, <3>7, <3>p, <4>1, <4>2
      <4>3. CASE r = L + 1 /\ ~(r <= L)
        BY <2>4, <2>5, <3>p, <4>1, <4>3
      <4> QED
        BY <3>4, <4>2, <4>3
    <3>8. ASSUME NEW n \in Passed' PROVE \E q \in 1..(L + 1) : bt[q] = n
      <4>1. CASE n = cur
        <5>1. L + 1 \in 1..(L + 1) /\ ~(L + 1 <= L)
          BY <2>2 DEF L
        <5> QED
          BY <3>p, <4>1, <5>1
      <4>2. CASE n \in Passed
        <5>1. PICK q \in 1..L : at[q] = n
          BY <2>4, <4>2
        <5>2. q \in 1..(L + 1) /\ q <= L
          BY <2>2 DEF L
        <5> QED
          BY <3>p, <5>1, <5>2
      <4> QED
        BY <3>1, <4>1, <4>2
    <3> QED
      BY <3>2, <3>5, <3>6, <3>7, <3>8 DEF ShownSoFar
  <2> QED
    BY <2>7, <2>8
<1> QED
  BY <1>1, <1>2, <1>3, <1>4, SortOrPrint DEF NoList, Return, pvars

-----------------------------------------------------------------------------
(***************************************************************************)
(* What has been shown at the end.                                         *)
(***************************************************************************)
\* A line tells of the node it was made of.
LEMMA LineTells ==
  ASSUME NEW node \in Nodes, Fits(node)
  PROVE  Tells(flags, Line(node), node)
<1>1. NamesOnly(flags) <=> "u" \in flags \/ "j" \in flags
  BY DEF NamesOnly
<1>2. CASE NamesOnly(flags)
  <2>1. Line(node) = [name |-> node.name]
    BY <1>1, <1>2 DEF Line
  <2>2. DOMAIN Line(node) = {"name"} /\ Line(node).name = node.name
    BY <2>1
  <2> QED
    BY <1>2, <2>2 DEF Tells
<1>3. CASE ~NamesOnly(flags)
  <2>1. Line(node) = [address |-> hexdump_address(node), type |-> node.type, name |-> node.name]
    BY <1>1, <1>3 DEF Line
  <2>2. /\ Line(node).address = hexdump_address(node)
        /\ Line(node).type = node.type /\ Line(node).name = node.name
    BY <2>1
  <2> QED
    BY <1>3, <2>2, DigitsTellTheValue DEF Tells
<1> QED
  BY <1>2, <1>3

\* Two nodes a line tells of have the same lines.
LEMMA LinesAlike ==
  ASSUME NEW a \in Nodes, NEW b \in Nodes, Fits(a), Fits(b), NEW line,
         Tells(flags, line, a), Tells(flags, line, b)
  PROVE  Tells(flags, Line(b), a)
<1>1. Tells(flags, Line(b), b)
  BY LineTells
<1>2. CASE NamesOnly(flags)
  BY <1>1, <1>2 DEF Tells
<1>3. CASE ~NamesOnly(flags)
  <2>1. a.name = b.name /\ a.type = b.type /\ Width(a) = Width(b) /\ a.value = b.value
    BY <1>3 DEF Tells
  <2> QED
    BY <1>1, <1>3, <2>1 DEF Tells
<1> QED
  BY <1>2, <1>3

\* Where the sort has put each node.
LEMMA Renumbered ==
  ASSUME TypeOK, NodesKept
  PROVE  \E to \in [1..Len(input) -> 1..Len(list)] :
           /\ \A m \in 1..Len(input) : list[to[m]] = input[m]
           /\ \A n \in 1..Len(list) : \E m \in 1..Len(input) : to[m] = n
<1> DEFINE to == [m \in 1..Len(input) |-> CHOOSE n \in 1..Len(list) : list[n] = input[m]]
<1>1. \A m \in 1..Len(input) : to[m] \in 1..Len(list) /\ list[to[m]] = input[m]
  BY DEF NodesKept
<1>2. to \in [1..Len(input) -> 1..Len(list)]
  BY <1>1
<1> HIDE DEF to
<1>3. ASSUME NEW n \in 1..Len(list) PROVE \E m \in 1..Len(input) : to[m] = n
  <2>1. PICK m \in 1..Len(input) : list[n] = input[m]
    BY DEF NodesKept
  <2>2. list[to[m]] = list[n] /\ to[m] \in 1..Len(list)
    BY <1>1, <2>1
  <2>3. to[m] = n
    BY <2>2 DEF NodesKept
  <2> QED
    BY <2>3
<1> QED
  BY <1>1, <1>2, <1>3

\* In the end there is a line for each selected symbol, in the order asked for.
LEMMA LinesAreOfSymbols ==
  ASSUME IInv, PrintTypeOK, ShownSoFar, done, cur = Len(list) + 1
  PROVE  LET chosen == Selection(<<input, flags>>) IN
         \E b \in [1..Len(shown) -> chosen] :
           /\ \A q \in 1..Len(shown) : shown[q] = Line(input[b[q]])
           /\ \A n \in chosen : \E q \in 1..Len(shown) : b[q] = n
           /\ \A q, s \in 1..Len(shown) :
                q < s => /\ b[q] # b[s]
                         /\ "p" \in flags => b[q] < b[s]
                         /\ "p" \notin flags =>
                              /\ NameMayPrecede("r" \in flags, input[b[q]], input[b[s]])
                              /\ Close(input) =>
                                   MayPrecede("r" \in flags, input[b[q]], input[b[s]])
<1> DEFINE chosen == Selection(<<input, flags>>)
           L      == Len(shown)
<1>1. TypeOK /\ NodesKept /\ LoopInv /\ Len(list) \in Nat /\ L \in Nat
  BY DEF IInv, TypeOK, PrintTypeOK
<1>2. PICK at \in [1..L -> Passed] :
        /\ \A q \in 1..L : /\ shown[q] = Line(list[at[q]])
                           /\ \A s \in 1..L : q < s => at[q] < at[s]
        /\ \A n \in Passed : \E q \in 1..L : at[q] = n
  BY DEF ShownSoFar
<1>3. PICK to \in [1..Len(input) -> 1..Len(list)] :
        /\ \A m \in 1..Len(input) : list[to[m]] = input[m]
        /\ \A n \in 1..Len(list) : \E m \in 1..Len(input) : to[m] = n
  BY <1>1, Renumbered
<1>4. Passed = {n \in 1..Len(list) : Selected(flags, list[n].type)}
  BY <1>1 DEF Passed
<1>5. chosen = {m \in 1..Len(input) : Selected(flags, input[m].type)}
  BY DEF Selection
<1> HIDE DEF chosen, L
<1>6. \A m \in chosen : m \in 1..Len(input) /\ to[m] \in Passed
  BY <1>3, <1>4, <1>5
<1>7. \A q \in 1..L : \E m \in chosen : to[m] = at[q]
  <2> SUFFICES ASSUME NEW q \in 1..L PROVE \E m \in chosen : to[m] = at[q]
    OBVIOUS
  <2>1. at[q] \in 1..Len(list) /\ Selected(flags, list[at[q]].type)
    BY <1>2, <1>4
  <2>2. PICK m \in 1..Len(input) : to[m] = at[q]
    BY <1>3, <2>1
  <2>3. list[at[q]] = input[m]
    BY <1>3, <2>2
  <2> QED
    BY <1>5, <2>1, <2>2, <2>3
<1> DEFINE b == [q \in 1..L |-> CHOOSE m \in chosen : to[m] = at[q]]
<1>8. \A q \in 1..L : b[q] \in chosen /\ to[b[q]] = at[q]
  BY <1>7
<1>9. b \in [1..L -> chosen]
  BY <1>8
<1> HIDE DEF b
<1>10. \A q \in 1..L : input[b[q]] = list[at[q]] /\ shown[q] = Line(input[b[q]])
  BY <1>2, <1>3, <1>6, <1>8
<1>11. ASSUME NEW m \in chosen, NEW n \in chosen, to[m] = to[n] PROVE m = n
  <2>1. m \in 1..Len(input) /\ n \in 1..Len(input) /\ input[m] = input[n]
    BY <1>3, <1>6, <1>11
  <2> QED
    BY <1>1, <2>1, SortAssumption DEF TypeOK
<1>12. ASSUME NEW n \in chosen PROVE \E q \in 1..L : b[q] = n
  <2>1. PICK q \in 1..L : at[q] = to[n]
    BY <1>2, <1>6
  <2> QED
    BY <1>8, <1>11, <2>1
<1>13. ASSUME NEW q \in 1..L, NEW s \in 1..L, q < s
       PROVE  /\ b[q] # b[s]
              /\ "p" \in flags => b[q] < b[s]
              /\ "p" \notin flags =>
                   /\ NameMayPrecede("r" \in flags, input[b[q]], input[b[s]])
                   /\ Close(input) => MayPrecede("r" \in flags, input[b[q]], input[b[s]])
  <2>1. at[q] \in 1..Len(list) /\ at[s] \in 1..Len(list) /\ at[q] < at[s]
    BY <1>2, <1>4, <1>13
  <2>2. b[q] # b[s]
    BY <1>8, <2>1
  <2>3. ASSUME "p" \in flags PROVE b[q] < b[s]
    <3>1. list = input
      BY <1>1, <2>3 DEF LoopInv
    <3>2. \A m \in 1..Len(list) : to[m] = m
      <4>1. \A m \in 1..Len(list) : to[m] \in 1..Len(list) /\ list[to[m]] = list[m]
        BY <1>3, <3>1
      <4> QED
        BY <1>1, <4>1 DEF NodesKept
    <3>3. b[q] = at[q] /\ b[s] = at[s]
      BY <1>6, <1>8, <3>1, <3>2
    <3> QED
      BY <2>1, <3>3
  <2>4. ASSUME "p" \notin flags
        PROVE  /\ NameMayPrecede("r" \in flags, list[at[q]], list[at[s]])
               /\ Close(input) => MayPrecede("r" \in flags, list[at[q]], list[at[s]])
    BY <1>1, <2>1, <2>4 DEF LoopInv
  <2> QED
    BY <1>10, <2>2, <2>3, <2>4
<1> QED
  BY <1>9, <1>10, <1>12, <1>13 DEF L, chosen

\* Sets between which a function goes both ways have as many elements.
LEMMA AsMany ==
  ASSUME NEW S, NEW T, IsFiniteSet(S), NEW f \in [S -> T],
         \A x, y \in S : f[x] = f[y] => x = y,
         \A t \in T : \E x \in S : f[x] = t
  PROVE  Cardinality(T) = Cardinality(S)
<1>1. f \in Bijection(S, T)
  BY DEF Bijection, Injection, Surjection, IsInjective
<1>2. ExistsBijection(S, T)
  BY <1>1 DEF ExistsBijection
<1> QED
  BY <1>2, FS_Bijection

LEMMA OutputIsRight ==
  ASSUME IInv, PrintTypeOK, ShownSoFar, result # "none"
  PROVE  IsOutput(<<input, flags>>, [result |-> result, shown |-> shown])
<1> DEFINE x      == <<input, flags>>
           chosen == Selection(x)
           L      == Len(shown)
           LinesOf(n) == {q \in 1..L : Tells(flags, shown[q], input[n])}
           Alike(n) == {m \in chosen : \E q \in LinesOf(n) : Tells(flags, shown[q], input[m])}
<1>1. TypeOK /\ NodesKept /\ L \in Nat
  BY DEF IInv, PrintTypeOK
<1>2. /\ done /\ cur = Len(list) + 1
      /\ result = IF input = <<>> THEN "malformed" ELSE "shown"
  BY <1>1 DEF PrintTypeOK, TypeOK
<1>3. PICK b \in [1..L -> chosen] :
        /\ \A q \in 1..L : shown[q] = Line(input[b[q]])
        /\ \A n \in chosen : \E q \in 1..L : b[q] = n
        /\ \A q, s \in 1..L :
             q < s => /\ b[q] # b[s]
                      /\ "p" \in flags => b[q] < b[s]
                      /\ "p" \notin flags =>
                           /\ NameMayPrecede("r" \in flags, input[b[q]], input[b[s]])
                           /\ Close(input) =>
                                MayPrecede("r" \in flags, input[b[q]], input[b[s]])
  BY <1>2, LinesAreOfSymbols
<1>4. \A n \in chosen : n \in 1..Len(input) /\ input[n] \in Nodes /\ Fits(input[n])
  BY <1>1, InputNodes DEF Selection
<1> HIDE DEF chosen, L
<1>5. IsFiniteSet(1..L) /\ Cardinality(1..L) = L
  <2>1. IsFiniteSet(1..L) /\ Cardinality(1..L) = IF 1 > L THEN 0 ELSE L - 1 + 1
    BY <1>1, FS_Interval
  <2> QED
    BY <1>1, <2>1
<1>6. \A q, s \in 1..L : b[q] = b[s] => q = s
  <2>1. \A q, s \in 1..L : q < s \/ s < q \/ q = s
    BY <1>1
  <2> QED
    BY <1>3, <2>1
<1>7. \A q \in 1..L : b[q] \in chosen /\ Tells(flags, shown[q], input[b[q]])
  <2> SUFFICES ASSUME NEW q \in 1..L
               PROVE  b[q] \in chosen /\ Tells(flags, shown[q], input[b[q]])
    OBVIOUS
  <2>1. b[q] \in chosen /\ shown[q] = Line(input[b[q]])
    BY <1>3
  <2> QED
    BY <1>4, <2>1, LineTells
<1>8. Cardinality(chosen) = L
  BY <1>3, <1>5, <1>6, AsMany
<1>9. ASSUME NEW n \in chosen
      PROVE  LinesOf(n) # {} /\ Cardinality(LinesOf(n)) = Cardinality(Alike(n))
  <2>1. PICK p \in 1..L : b[p] = n
    BY <1>3
  <2>2. p \in LinesOf(n)
    BY <1>7, <2>1
  <2>3. IsFiniteSet(LinesOf(n))
    <3>1. LinesOf(n) \in SUBSET (1..L)
      OBVIOUS
    <3> QED
      BY <1>5, <3>1, FS_Subset
  <2> DEFINE g == [q \in LinesOf(n) |-> b[q]]
  <2>4. g \in [LinesOf(n) -> Alike(n)]
    BY <1>7
  <2>5. \A q, s \in LinesOf(n) : g[q] = g[s] => q = s
    BY <1>6
  <2>6. ASSUME NEW m \in Alike(n) PROVE \E q \in LinesOf(n) : g[q] = m
    <3>1. PICK q \in 1..L : b[q] = m
      BY <1>3
    <3>2. PICK s \in 1..L : Tells(flags, shown[s], input[n]) /\ Tells(flags, shown[s], input[m])
      OBVIOUS
    <3>3. Tells(flags, Line(input[m]), input[n])
      <4>1. m \in chosen
        OBVIOUS
      <4> QED
        BY <1>4, <3>2, <4>1, LinesAlike
    <3>4. q \in LinesOf(n)
      BY <1>3, <3>1, <3>3
    <3> QED
      BY <3>1, <3>4
  <2> HIDE DEF LinesOf, Alike, g
  <2>7. Cardinality(Alike(n)) = Cardinality(LinesOf(n))
    BY <2>3, <2>4, <2>5, <2>6, AsMany
  <2> QED
    BY <2>2, <2>7
<1>10. InOrder(x, shown)
  <2>1. CASE "p" \in flags
    <3>1. \A q \in 1..L : /\ Tells(flags, shown[q], input[b[q]])
                          /\ \A s \in 1..L : q < s => b[q] < b[s]
      BY <1>3, <1>7, <2>1
    <3> QED
      BY <2>1, <3>1 DEF InOrder, chosen, L
  <2>2. CASE "p" \notin flags
    <3> DEFINE Seen(line) == [name |-> line.name, value |-> Number(line.address)]
               r == "r" \in flags
    <3>1. ASSUME NEW q \in 1..L, NEW s \in 1..L, q < s
          PROVE  /\ NameMayPrecede(r, shown[q], shown[s])
                 /\ Close(input) /\ ~NamesOnly(flags) =>
                      MayPrecede(r, Seen(shown[q]), Seen(shown[s]))
      <4>1. shown[q].name = input[b[q]].name /\ shown[s].name = input[b[s]].name
        BY <1>7 DEF Tells
      <4>2. NameMayPrecede(r, input[b[q]], input[b[s]])
        BY <1>3, <2>2, <3>1
      <4>3. NameMayPrecede(r, shown[q], shown[s])
        BY <4>1, <4>2 DEF NameMayPrecede
      <4>4. ASSUME Close(input), ~NamesOnly(flags)
            PROVE  MayPrecede(r, Seen(shown[q]), Seen(shown[s]))
        <5>1. MayPrecede(r, input[b[q]], input[b[s]])
          BY <1>3, <2>2, <3>1, <4>4
        <5>2. /\ Number(shown[q].address) = input[b[q]].value
              /\ Number(shown[s].address) = input[b[s]].value
          BY <1>7, <4>4 DEF Tells
        <5> QED
          BY <4>1, <5>1, <5>2 DEF MayPrecede
      <4> QED
        BY <4>3, <4>4
    <3> QED
      BY <2>2, <3>1 DEF InOrder, L
  <2> QED
    BY <2>1, <2>2
<1> QED
  BY <1>2, <1>8, <1>9, <1>10 DEF IsOutput, chosen, L

-----------------------------------------------------------------------------
LEMMA PrintStart == PrintInit => PrintInv
<1> SUFFICES ASSUME PrintInit PROVE PrintInv
  OBVIOUS
<1>1. Init /\ cur = 1 /\ shown = <<>> /\ result = "none" /\ ~done
  BY DEF PrintInit, Init
<1>2. IInv /\ Len(list) \in Nat
  BY <1>1, IndInit DEF IInv, TypeOK
<1>3. PrintTypeOK
  <2>1. 1 \in 1..(Len(list) + 1) /\ <<>> \in Seq(Lines)
    BY <1>2
  <2> QED
    BY <1>1, <2>1 DEF PrintTypeOK
<1>4. ShownSoFar
  <2>1. 1..Len(shown) = {} /\ Passed = {}
    BY <1>1 DEF Passed
  <2>2. [q \in {} |-> 1] \in [{} -> {}]
    OBVIOUS
  <2> QED
    BY <2>1, <2>2 DEF ShownSoFar
<1> QED
  BY <1>2, <1>3, <1>4 DEF PrintInv

LEMMA PrintStep == PrintInv /\ [PrintNext]_<<vars, pvars>> => PrintInv'
<1> SUFFICES ASSUME PrintInv, [PrintNext]_<<vars, pvars>> PROVE PrintInv'
  OBVIOUS
<1>1. IInv /\ TypeOK /\ PrintTypeOK /\ ShownSoFar
  BY DEF PrintInv, IInv
<1>2. IInv'
  BY <1>1, IndStep, SortOrPrint
<1>3. PrintTypeOK'
  BY <1>1, <1>2, PrintTypeStep
<1>4. ShownSoFar'
  BY <1>1, <1>2, <1>3, ShownStep
<1> QED
  BY <1>2, <1>3, <1>4 DEF PrintInv

\* The lines printed are at any time those of the selected nodes passed, in their
\* order, from a list that holds the nodes that were built.
THEOREM ShownInTurn == PrintSpec => [](PrintTypeOK /\ ShownSoFar)
<1>1. PrintInv => PrintTypeOK /\ ShownSoFar
  BY DEF PrintInv
<1> QED
  BY <1>1, PrintStart, PrintStep, PTL DEF PrintSpec

\* The printing leaves to the sort what the sort promises.
THEOREM SortedThenPrinted == PrintSpec => []NodesKept /\ []NamesInOrder /\ Implements
<1>1. PrintInit => Contract!Init
  BY DEF PrintInit, Init, Contract!Init
<1>2. PrintInv => NodesKept /\ NamesInOrder
  BY DEF PrintInv, IInv, LoopInv, NamesInOrder
<1>3. PrintInv /\ PrintInv' /\ [PrintNext]_<<vars, pvars>> =>
        [Contract!Answer]_<<<<input, flags>>, done, IF done THEN list ELSE <<>>>>
  <2>1. PrintInv /\ [PrintNext]_<<vars, pvars>> => [Next]_vars
    BY SortOrPrint DEF PrintInv, IInv
  <2> QED
    BY <2>1, SortAnswers DEF PrintInv
<1> QED
  BY <1>1, <1>2, <1>3, PrintStart, PrintStep, PTL
     DEF PrintSpec, Implements, Contract!Spec

LEMMA OutputNow ==
  PrintInv /\ result # "none" =>
    IsOutput(<<input, flags>>, [result |-> result, shown |-> shown])
  BY OutputIsRight DEF PrintInv

LEMMA OutputNext ==
  PrintInv' /\ (result # "none")' =>
    IsOutput(<<input, flags>>, [result |-> result, shown |-> shown])'
  BY OutputNow, PTL

\* Sorting and printing together put out each selected symbol once, in the order
\* the flags ask for, with the digits of its address and its letter.
THEOREM PrintIsRight == PrintSpec => Prints
<1>1. PrintInit => Output!Init
  BY DEF PrintInit, Init, Output!Init
<1>2. PrintInv /\ PrintInv' /\ [PrintNext]_<<vars, pvars>> =>
        [Output!Answer]_<<<<input, flags>>, result # "none",
          IF result = "none" THEN <<>> ELSE [result |-> result, shown |-> shown]>>
  <2> SUFFICES ASSUME PrintInv, PrintInv', [PrintNext]_<<vars, pvars>>
               PROVE  [Output!Answer]_<<<<input, flags>>, result # "none",
                        IF result = "none" THEN <<>>
                        ELSE [result |-> result, shown |-> shown]>>
    OBVIOUS
  <2>1. /\ [Next]_vars
        /\ \/ ~done /\ UNCHANGED pvars
           \/ done /\ UNCHANGED vars /\ (NoList \/ Node \/ Return \/ UNCHANGED pvars)
    <3>1. TypeOK /\ PrintTypeOK
      BY DEF PrintInv, IInv
    <3> QED
      BY <3>1, SortOrPrint
  <2>2. <<input, flags>>' = <<input, flags>>
    BY <2>1 DEF Next, vars, Unsorted, Compare, Settled, Sorted, Finished
  <2>3. CASE result' # "none" /\ result = "none"
    <3>1. IsOutput(<<input, flags>>, [result |-> result, shown |-> shown])'
      BY <2>3, OutputNext
    <3> QED
      BY <2>2, <2>3, <3>1 DEF Output!Answer
  <2>4. CASE result' = "none" /\ result = "none"
    BY <2>2, <2>4
  <2>5. CASE result # "none"
    <3>1. result' = result /\ shown' = shown
      BY <2>1, <2>5 DEF pvars, NoList, Node, Return, Printing
    <3> QED
      BY <2>2, <3>1
  <2> QED
    BY <2>3, <2>4, <2>5
<1> QED
  BY <1>1, <1>2, PrintStart, PrintStep, PTL DEF PrintSpec, Prints, Output!Spec
=============================================================================
