------------------------- MODULE SwapStruct_proofs -------------------------
(***************************************************************************)
(* What the conversions in place leave behind, for any number of           *)
(* conversions of any structure of either size.                            *)
(*                                                                         *)
(* The argument is about calls, not about structures.  The calls a         *)
(* conversion makes reverse fields that lie one after another inside the   *)
(* structure (CallsAreInOrder); so every byte belongs to one call at most, *)
(* and is mirrored in its field when that call was made an odd number of   *)
(* times (TurnedInv).  The values converted by masks and shifts have an    *)
(* invariant of their own (ValueInv).  Only the theorems at the end look   *)
(* at one structure or another.                                            *)
(***************************************************************************)
EXTENDS SwapStruct, SequenceTheorems, TLAPS

-----------------------------------------------------------------------------
(***************************************************************************)
(* The calls.                                                              *)
(***************************************************************************)
LEMMA RepeatIsASequence ==
  ASSUME NEW at \in Nat, NEW nb \in Nat
  PROVE  /\ swap_nb_32(at, nb) \in Seq(Steps)
         /\ Len(swap_nb_32(at, nb)) = nb
         /\ nb >= 1 => swap_nb_32(at, nb)[1] = Reverse(at, 4)
         /\ nb >= 2 => swap_nb_32(at, nb)[2] = Reverse(at + 4, 4)
         /\ nb >= 3 => swap_nb_32(at, nb)[3] = Reverse(at + 8, 4)
         /\ nb >= 4 => swap_nb_32(at, nb)[4] = Reverse(at + 12, 4)
<1> DEFINE e(c) == Reverse(at + (c - 1) * 4, 4)
<1>1. \A c \in 1..nb : e(c) \in Steps
  BY DEF Reverse, Steps
<1>2. swap_nb_32(at, nb) = [c \in 1..nb |-> e(c)]
  BY DEF swap_nb_32
<1>3. e(1) = Reverse(at, 4) /\ e(2) = Reverse(at + 4, 4)
        /\ e(3) = Reverse(at + 8, 4) /\ e(4) = Reverse(at + 12, 4)
  <2>1. /\ at + (1 - 1) * 4 = at      /\ at + (2 - 1) * 4 = at + 4
        /\ at + (3 - 1) * 4 = at + 8  /\ at + (4 - 1) * 4 = at + 12
    OBVIOUS
  <2> QED
    BY <2>1
<1> HIDE DEF e
<1>4. [c \in 1..nb |-> e(c)] \in Seq(Steps)
  BY <1>1
<1>5. Len([c \in 1..nb |-> e(c)]) = nb
  BY <1>4, LenProperties
<1>6. \A c \in 1..nb : swap_nb_32(at, nb)[c] = e(c)
  BY <1>2
<1> QED
  BY <1>2, <1>3, <1>4, <1>5, <1>6

LEMMA OneAfterAnother ==
  ASSUME NEW s \in Seq(Steps), NEW t \in Seq(Steps), NEW u \in Seq(Steps),
         Len(s) = 1, Len(t) = 1, Len(u) = 1
  PROVE  /\ s \o t \in Seq(Steps) /\ Len(s \o t) = 2
         /\ (s \o t)[1] = s[1] /\ (s \o t)[2] = t[1]
         /\ s \o t \o u \in Seq(Steps) /\ Len(s \o t \o u) = 3
         /\ (s \o t \o u)[1] = s[1] /\ (s \o t \o u)[2] = t[1]
         /\ (s \o t \o u)[3] = u[1]
<1>1. s \o t \in Seq(Steps) /\ Len(s \o t) = 2
        /\ (s \o t)[1] = s[1] /\ (s \o t)[2] = t[1]
  BY ConcatProperties
<1> DEFINE st == s \o t
<1> HIDE DEF st
<1>2. st \in Seq(Steps) /\ Len(st) = 2
  BY <1>1 DEF st
<1>3. st \o u \in Seq(Steps) /\ Len(st \o u) = 3
        /\ (st \o u)[1] = st[1] /\ (st \o u)[2] = st[2] /\ (st \o u)[3] = u[1]
  BY <1>2, ConcatProperties
<1> QED
  BY <1>1, <1>3 DEF st

LEMMA Alone ==
  ASSUME NEW at \in Nat
  PROVE  /\ swap_nb_32(at, 1) \in Seq(Steps) /\ Len(swap_nb_32(at, 1)) = 1
         /\ swap_nb_32(at, 1)[1] = Reverse(at, 4)
         /\ swap_64(at) \in Seq(Steps) /\ Len(swap_64(at)) = 1
         /\ swap_64(at)[1] = Reverse(at, 8)
<1>1. swap_64(at) \in Seq(Steps) /\ Len(swap_64(at)) = 1
        /\ swap_64(at)[1] = Reverse(at, 8)
  BY DEF swap_64, Reverse, Steps
<1>2. /\ swap_nb_32(at, 1) \in Seq(Steps) /\ Len(swap_nb_32(at, 1)) = 1
      /\ 1 >= 1 => swap_nb_32(at, 1)[1] = Reverse(at, 4)
  <2>1. 1 \in Nat
    OBVIOUS
  <2> QED
    BY <2>1, RepeatIsASequence, Zenon
<1> QED
  BY <1>1, <1>2

LEMMA NlistCalls ==
  ASSUME NEW b \in BOOLEAN
  PROVE  /\ swap_nlist(b) \in Seq(Steps) /\ Len(swap_nlist(b)) = 3
         /\ swap_nlist(b)[1] = Reverse(0, 4)
         /\ swap_nlist(b)[2] = Reverse(5, 2)
         /\ swap_nlist(b)[3] = Reverse(7, IF b THEN 8 ELSE 4)
<1> DEFINE s == swap_nb_32(0, 1)
           t == <<Reverse(5, 2)>>
           u == IF b THEN swap_64(7) ELSE swap_nb_32(7, 1)
<1>1. s \in Seq(Steps) /\ Len(s) = 1 /\ s[1] = Reverse(0, 4)
  BY Alone
<1>2. t \in Seq(Steps) /\ Len(t) = 1 /\ t[1] = Reverse(5, 2)
  BY DEF Reverse, Steps
<1>3. u \in Seq(Steps) /\ Len(u) = 1 /\ u[1] = Reverse(7, IF b THEN 8 ELSE 4)
  BY Alone
<1>4. swap_nlist(b) = s \o t \o u
  BY DEF swap_nlist
<1> HIDE DEF s, t, u
<1>5. /\ s \o t \o u \in Seq(Steps) /\ Len(s \o t \o u) = 3
        /\ (s \o t \o u)[1] = s[1] /\ (s \o t \o u)[2] = t[1]
        /\ (s \o t \o u)[3] = u[1]
  BY <1>1, <1>2, <1>3, OneAfterAnother, SMTT(30)
<1> QED
  BY <1>1, <1>2, <1>3, <1>4, <1>5

LEMMA SectionCalls ==
  ASSUME NEW b \in BOOLEAN
  PROVE  /\ swap_section(b) \in Seq(Steps) /\ Len(swap_section(b)) = 3
         /\ b  => /\ swap_section(b)[1] = Reverse(4, 8)
                  /\ swap_section(b)[2] = Reverse(12, 8)
                  /\ swap_section(b)[3] = Reverse(20, 4)
         /\ ~b => /\ swap_section(b)[1] = Reverse(4, 4)
                  /\ swap_section(b)[2] = Reverse(8, 4)
                  /\ swap_section(b)[3] = Reverse(12, 4)
<1>1. CASE b
  <2> DEFINE s == swap_64(4)
             t == swap_64(12)
             u == swap_nb_32(20, 1)
  <2>1. swap_section(b) = s \o t \o u
    BY <1>1 DEF swap_section
  <2>2. s \in Seq(Steps) /\ Len(s) = 1 /\ s[1] = Reverse(4, 8)
    BY Alone
  <2>3. t \in Seq(Steps) /\ Len(t) = 1 /\ t[1] = Reverse(12, 8)
    BY Alone
  <2>4. u \in Seq(Steps) /\ Len(u) = 1 /\ u[1] = Reverse(20, 4)
    BY Alone
  <2> HIDE DEF s, t, u
  <2>5. /\ s \o t \o u \in Seq(Steps) /\ Len(s \o t \o u) = 3
          /\ (s \o t \o u)[1] = s[1] /\ (s \o t \o u)[2] = t[1]
          /\ (s \o t \o u)[3] = u[1]
    BY <2>2, <2>3, <2>4, OneAfterAnother, SMTT(30)
  <2> QED
    BY <1>1, <2>1, <2>2, <2>3, <2>4, <2>5
<1>2. CASE ~b
  <2>1. swap_section(b) = swap_nb_32(4, 3)
    BY <1>2 DEF swap_section
  <2>2. /\ swap_nb_32(4, 3) \in Seq(Steps) /\ Len(swap_nb_32(4, 3)) = 3
        /\ 3 >= 1 => swap_nb_32(4, 3)[1] = Reverse(4, 4)
        /\ 3 >= 2 => swap_nb_32(4, 3)[2] = Reverse(4 + 4, 4)
        /\ 3 >= 3 => swap_nb_32(4, 3)[3] = Reverse(4 + 8, 4)
    <3>1. 4 \in Nat /\ 3 \in Nat
      OBVIOUS
    <3> QED
      BY <3>1, RepeatIsASequence, Zenon
  <2> QED
    BY <1>2, <2>1, <2>2
<1> QED
  BY <1>1, <1>2

LEMMA ArchCalls ==
  ASSUME NEW b \in BOOLEAN
  PROVE  /\ swap_arch(b) \in Seq(Steps) /\ Len(swap_arch(b)) = 2
         /\ b  => /\ swap_arch(b)[1] = Reverse(8, 8)
                  /\ swap_arch(b)[2] = Reverse(16, 8)
         /\ ~b => /\ swap_arch(b)[1] = Reverse(8, 4)
                  /\ swap_arch(b)[2] = Reverse(12, 4)
<1>1. CASE b
  <2> DEFINE s == swap_64(8)
             t == swap_64(16)
  <2>1. swap_arch(b) = s \o t
    BY <1>1 DEF swap_arch
  <2>2. s \in Seq(Steps) /\ Len(s) = 1 /\ s[1] = Reverse(8, 8)
    BY Alone
  <2>3. t \in Seq(Steps) /\ Len(t) = 1 /\ t[1] = Reverse(16, 8)
    BY Alone
  <2> HIDE DEF s, t
  <2>4. /\ s \o t \in Seq(Steps) /\ Len(s \o t) = 2
        /\ (s \o t)[1] = s[1] /\ (s \o t)[2] = t[1]
    BY <2>2, <2>3, ConcatProperties
  <2> QED
    BY <1>1, <2>1, <2>2, <2>3, <2>4
<1>2. CASE ~b
  <2>1. swap_arch(b) = swap_nb_32(8, 2)
    BY <1>2 DEF swap_arch
  <2>2. /\ swap_nb_32(8, 2) \in Seq(Steps) /\ Len(swap_nb_32(8, 2)) = 2
        /\ 2 >= 1 => swap_nb_32(8, 2)[1] = Reverse(8, 4)
        /\ 2 >= 2 => swap_nb_32(8, 2)[2] = Reverse(8 + 4, 4)
    <3>1. 8 \in Nat /\ 2 \in Nat
      OBVIOUS
    <3> QED
      BY <3>1, RepeatIsASequence, Zenon
  <2> QED
    BY <1>2, <2>1, <2>2
<1> QED
  BY <1>1, <1>2

LEMMA ValueCalls ==
  ASSUME NEW b \in BOOLEAN
  PROVE  /\ swap_uint(b) \in Seq(Steps)
         /\ Len(swap_uint(b)) = IF b THEN 3 ELSE 2
         /\ swap_uint(b)[1] = Neighbours(IF b THEN 8 ELSE 4, 1)
         /\ swap_uint(b)[2] = Neighbours(IF b THEN 8 ELSE 4, 2)
         /\ b => swap_uint(b)[3] = Neighbours(8, 4)
<1> DEFINE n == IF b THEN 8 ELSE 4
           s == <<Neighbours(n, 1), Neighbours(n, 2)>>
           t == IF b THEN <<Neighbours(8, 4)>> ELSE <<>>
<1>1. s \in Seq(Steps) /\ Len(s) = 2 /\ s[1] = Neighbours(n, 1)
        /\ s[2] = Neighbours(n, 2)
  BY DEF Neighbours, Steps
<1>2. t \in Seq(Steps) /\ Len(t) = (IF b THEN 1 ELSE 0)
        /\ (b => t[1] = Neighbours(8, 4))
  <2>1. CASE b
    BY <2>1 DEF Neighbours, Steps
  <2>2. CASE ~b
    BY <2>2
  <2> QED
    BY <2>1, <2>2
<1>3. swap_uint(b) = s \o t
  BY DEF swap_uint
<1> HIDE DEF s, t, n
<1>4. s \o t \in Seq(Steps) /\ Len(s \o t) = (IF b THEN 3 ELSE 2)
        /\ (s \o t)[1] = s[1] /\ (s \o t)[2] = s[2]
  <2>1. /\ s \o t \in Seq(Steps) /\ Len(s \o t) = Len(s) + Len(t)
        /\ \A c \in 1..Len(s) + Len(t) :
             (s \o t)[c] = IF c <= Len(s) THEN s[c] ELSE t[c - Len(s)]
    BY <1>1, <1>2, ConcatProperties
  <2>2. CASE b
    BY <1>1, <1>2, <2>1, <2>2
  <2>3. CASE ~b
    BY <1>1, <1>2, <2>1, <2>3
  <2> QED
    BY <2>2, <2>3
<1>5. ASSUME b PROVE (s \o t)[3] = t[1]
  <2>1. \A c \in 1..Len(s) + Len(t) :
          (s \o t)[c] = IF c <= Len(s) THEN s[c] ELSE t[c - Len(s)]
    BY <1>1, <1>2, ConcatProperties
  <2>2. Len(s) = 2 /\ Len(t) = 1 /\ 3 \in 1..Len(s) + Len(t) /\ ~(3 <= Len(s))
    BY <1>1, <1>2, <1>5
  <2>3. (s \o t)[3] = t[3 - Len(s)]
    BY <2>1, <2>2
  <2> QED
    BY <2>2, <2>3
<1> QED
  BY <1>1, <1>2, <1>3, <1>4, <1>5 DEF n

LEMMA PlainCalls ==
  /\ swap_mach_header \in Seq(Steps) /\ Len(swap_mach_header) = 1
  /\ swap_mach_header[1] = Reverse(16, 4)
  /\ swap_loadcommand \in Seq(Steps) /\ Len(swap_loadcommand) = 2
  /\ swap_loadcommand[1] = Reverse(0, 4) /\ swap_loadcommand[2] = Reverse(4, 4)
  /\ swap_symtab \in Seq(Steps) /\ Len(swap_symtab) = 4
  /\ swap_symtab[1] = Reverse(8, 4) /\ swap_symtab[2] = Reverse(12, 4)
  /\ swap_symtab[3] = Reverse(16, 4) /\ swap_symtab[4] = Reverse(20, 4)
<1>1. /\ swap_mach_header \in Seq(Steps) /\ Len(swap_mach_header) = 1
      /\ swap_mach_header[1] = Reverse(16, 4)
  <2>1. 16 \in Nat
    OBVIOUS
  <2> QED
    BY <2>1, Alone DEF swap_mach_header
<1>2. /\ swap_nb_32(0, 2) \in Seq(Steps) /\ Len(swap_nb_32(0, 2)) = 2
      /\ 2 >= 1 => swap_nb_32(0, 2)[1] = Reverse(0, 4)
      /\ 2 >= 2 => swap_nb_32(0, 2)[2] = Reverse(0 + 4, 4)
  <2>1. 0 \in Nat /\ 2 \in Nat
    OBVIOUS
  <2> QED
    BY <2>1, RepeatIsASequence, Zenon
<1>3. /\ swap_nb_32(8, 4) \in Seq(Steps) /\ Len(swap_nb_32(8, 4)) = 4
      /\ 4 >= 1 => swap_nb_32(8, 4)[1] = Reverse(8, 4)
      /\ 4 >= 2 => swap_nb_32(8, 4)[2] = Reverse(8 + 4, 4)
      /\ 4 >= 3 => swap_nb_32(8, 4)[3] = Reverse(8 + 8, 4)
      /\ 4 >= 4 => swap_nb_32(8, 4)[4] = Reverse(8 + 12, 4)
  <2>1. 8 \in Nat /\ 4 \in Nat
    OBVIOUS
  <2> QED
    BY <2>1, RepeatIsASequence, Zenon
<1> QED
  BY <1>1, <1>2, <1>3 DEF swap_loadcommand, swap_symtab

LEMMA SegmentCalls ==
  ASSUME NEW b \in BOOLEAN
  PROVE  /\ swap_segment_command(b) \in Seq(Steps)
         /\ Len(swap_segment_command(b)) = 1
         /\ swap_segment_command(b)[1] = Reverse(IF b THEN 50 ELSE 34, 4)
<1> DEFINE at == (IF b THEN 42 ELSE 26) + 2 * 4
<1>1. at \in Nat /\ at = IF b THEN 50 ELSE 34
  OBVIOUS
<1>2. swap_segment_command(b) = swap_nb_32(at, 1)
  BY DEF swap_segment_command
<1> HIDE DEF at
<1> QED
  BY <1>1, <1>2, Alone

\* The fields a structure's calls reverse come one after another and end inside it.
InOrder(calls, size) ==
  /\ \A c \in 1..Len(calls) : /\ calls[c].w = 0 /\ calls[c].n > 0
                              /\ calls[c].at + calls[c].n <= size
  /\ \A c, d \in 1..Len(calls) : c < d => calls[c].at + calls[c].n <= calls[d].at

\* Three calls are in order when each field ends where the next one starts or before.
LEMMA ThreeInOrder ==
  ASSUME NEW q, NEW size \in Nat, Len(q) = 3,
         NEW a \in Nat, NEW l \in Nat \ {0}, q[1] = Reverse(a, l),
         NEW b \in Nat, NEW m \in Nat \ {0}, q[2] = Reverse(b, m),
         NEW c \in Nat, NEW n \in Nat \ {0}, q[3] = Reverse(c, n),
         a + l <= b, b + m <= c, c + n <= size
  PROVE  InOrder(q, size)
<1>1. /\ q[1].w = 0 /\ q[1].at = a /\ q[1].n = l
      /\ q[2].w = 0 /\ q[2].at = b /\ q[2].n = m
      /\ q[3].w = 0 /\ q[3].at = c /\ q[3].n = n
  BY DEF Reverse
<1>2. \A d \in 1..3 : d = 1 \/ d = 2 \/ d = 3
  OBVIOUS
<1>3. \A d \in 1..3 : q[d].w = 0 /\ q[d].n > 0 /\ q[d].at + q[d].n <= size
  BY <1>1, <1>2
<1>4. ASSUME NEW d \in 1..3, NEW e \in 1..3, d < e
      PROVE  q[d].at + q[d].n <= q[e].at
  <2>1. (d = 1 /\ e = 2) \/ (d = 1 /\ e = 3) \/ (d = 2 /\ e = 3)
    BY <1>2, <1>4
  <2> QED
    BY <1>1, <2>1
<1> QED
  BY <1>3, <1>4 DEF InOrder

LEMMA TwoInOrder ==
  ASSUME NEW q, NEW size \in Nat, Len(q) = 2,
         NEW a \in Nat, NEW l \in Nat \ {0}, q[1] = Reverse(a, l),
         NEW b \in Nat, NEW m \in Nat \ {0}, q[2] = Reverse(b, m),
         a + l <= b, b + m <= size
  PROVE  InOrder(q, size)
<1>1. /\ q[1].w = 0 /\ q[1].at = a /\ q[1].n = l
      /\ q[2].w = 0 /\ q[2].at = b /\ q[2].n = m
  BY DEF Reverse
<1>2. \A d \in 1..2 : d = 1 \/ d = 2
  OBVIOUS
<1>3. \A d \in 1..2 : q[d].w = 0 /\ q[d].n > 0 /\ q[d].at + q[d].n <= size
  BY <1>1, <1>2
<1>4. ASSUME NEW d \in 1..2, NEW e \in 1..2, d < e
      PROVE  q[d].at + q[d].n <= q[e].at
  <2>1. d = 1 /\ e = 2
    BY <1>2, <1>4
  <2> QED
    BY <1>1, <2>1
<1> QED
  BY <1>3, <1>4 DEF InOrder

LEMMA CallsAreInOrder ==
  ASSUME NEW s \in Structures, NEW b \in BOOLEAN, s # "uint"
  PROVE  Calls(s, b) \in Seq(Steps) /\ InOrder(Calls(s, b), SizeofStruct(s, b))
<1>1. CASE s = "header"
  <2>1. Calls(s, b) = swap_mach_header
          /\ SizeofStruct(s, b) = IF b THEN 32 ELSE 28
    BY <1>1 DEF Calls, SizeofStruct, SizeofHeader
  <2> QED
    BY <2>1, PlainCalls DEF InOrder, Reverse
<1>2. CASE s = "command"
  <2>1. Calls(s, b) = swap_loadcommand /\ SizeofStruct(s, b) = 8
    BY <1>2 DEF Calls, SizeofStruct, SizeofCommand
  <2> QED
    BY <2>1, PlainCalls DEF InOrder, Reverse
<1>3. CASE s = "symtab"
  <2>1. Calls(s, b) = swap_symtab /\ SizeofStruct(s, b) = 24
    BY <1>3 DEF Calls, SizeofStruct, SizeofSymtab
  <2> QED
    BY <2>1, PlainCalls DEF InOrder, Reverse
<1>4. CASE s = "segment"
  <2>1. Calls(s, b) = swap_segment_command(b)
          /\ SizeofStruct(s, b) = IF b THEN 72 ELSE 56
    BY <1>4 DEF Calls, SizeofStruct, SizeofSegment
  <2>2. CASE b
    <3>1. Len(swap_segment_command(b)) = 1 /\ SizeofStruct(s, b) = 72
            /\ swap_segment_command(b)[1] = Reverse(50, 4)
      BY <2>1, <2>2, SegmentCalls
    <3> QED
      BY <2>1, <3>1, SegmentCalls DEF InOrder, Reverse
  <2>3. CASE ~b
    <3>1. Len(swap_segment_command(b)) = 1 /\ SizeofStruct(s, b) = 56
            /\ swap_segment_command(b)[1] = Reverse(34, 4)
      BY <2>1, <2>3, SegmentCalls
    <3> QED
      BY <2>1, <3>1, SegmentCalls DEF InOrder, Reverse
  <2> QED
    BY <2>2, <2>3
<1>5. CASE s = "section"
  <2>1. Calls(s, b) = swap_section(b)
          /\ SizeofStruct(s, b) = IF b THEN 80 ELSE 68
    BY <1>5 DEF Calls, SizeofStruct, SizeofSection
  <2>2. CASE b
    <3>1. Len(swap_section(b)) = 3 /\ SizeofStruct(s, b) = 80
            /\ swap_section(b)[1] = Reverse(4, 8)
            /\ swap_section(b)[2] = Reverse(12, 8)
            /\ swap_section(b)[3] = Reverse(20, 4)
      BY <2>1, <2>2, SectionCalls
    <3> QED
      <4>1. InOrder(swap_section(b), SizeofStruct(s, b))
        BY <3>1, ThreeInOrder
      <4> QED
        BY <2>1, <4>1, SectionCalls
  <2>3. CASE ~b
    <3>1. Len(swap_section(b)) = 3 /\ SizeofStruct(s, b) = 68
            /\ swap_section(b)[1] = Reverse(4, 4)
            /\ swap_section(b)[2] = Reverse(8, 4)
            /\ swap_section(b)[3] = Reverse(12, 4)
      BY <2>1, <2>3, SectionCalls
    <3> QED
      <4>1. InOrder(swap_section(b), SizeofStruct(s, b))
        BY <3>1, ThreeInOrder
      <4> QED
        BY <2>1, <4>1, SectionCalls
  <2> QED
    BY <2>2, <2>3
<1>6. CASE s = "arch"
  <2>1. Calls(s, b) = swap_arch(b)
          /\ SizeofStruct(s, b) = IF b THEN 32 ELSE 20
    BY <1>6 DEF Calls, SizeofStruct, SizeofFatArch
  <2>2. /\ Len(swap_arch(b)) = 2
        /\ swap_arch(b)[1] = Reverse(8, IF b THEN 8 ELSE 4)
        /\ swap_arch(b)[2] = Reverse(IF b THEN 16 ELSE 12, IF b THEN 8 ELSE 4)
    BY ArchCalls
  <2>3. InOrder(swap_arch(b), SizeofStruct(s, b))
    BY <2>1, <2>2, TwoInOrder
  <2> QED
    BY <2>1, <2>3, ArchCalls
<1>7. CASE s = "nlist"
  <2>1. Calls(s, b) = swap_nlist(b)
          /\ SizeofStruct(s, b) = IF b THEN 16 ELSE 12
    BY <1>7 DEF Calls, SizeofStruct, SizeofNlist
  <2>2. CASE b
    <3>1. Len(swap_nlist(b)) = 3 /\ SizeofStruct(s, b) = 16
            /\ swap_nlist(b)[1] = Reverse(0, 4)
            /\ swap_nlist(b)[2] = Reverse(5, 2)
            /\ swap_nlist(b)[3] = Reverse(7, 8)
      BY <2>1, <2>2, NlistCalls
    <3> QED
      <4>1. InOrder(swap_nlist(b), SizeofStruct(s, b))
        BY <3>1, ThreeInOrder
      <4> QED
        BY <2>1, <4>1, NlistCalls
  <2>3. CASE ~b
    <3>1. Len(swap_nlist(b)) = 3 /\ SizeofStruct(s, b) = 12
            /\ swap_nlist(b)[1] = Reverse(0, 4)
            /\ swap_nlist(b)[2] = Reverse(5, 2)
            /\ swap_nlist(b)[3] = Reverse(7, 4)
      BY <2>1, <2>3, NlistCalls
    <3> QED
      <4>1. InOrder(swap_nlist(b), SizeofStruct(s, b))
        BY <3>1, ThreeInOrder
      <4> QED
        BY <2>1, <4>1, NlistCalls
  <2> QED
    BY <2>2, <2>3
<1> QED
  BY <1>1, <1>2, <1>3, <1>4, <1>5, <1>6, <1>7 DEF Structures

LEMMA CallsOfAValue ==
  ASSUME NEW b \in BOOLEAN
  PROVE  /\ Calls("uint", b) \in Seq(Steps)
         /\ Len(Calls("uint", b)) = IF b THEN 3 ELSE 2
         /\ \A c \in 1..Len(Calls("uint", b)) :
              /\ Calls("uint", b)[c].w = IF c = 1 THEN 1 ELSE IF c = 2 THEN 2 ELSE 4
              /\ Calls("uint", b)[c].n = SizeofStruct("uint", b)
<1>1. Calls("uint", b) = swap_uint(b) /\ SizeofStruct("uint", b) = IF b THEN 8 ELSE 4
  BY DEF Calls, SizeofStruct
<1>2. CASE b
  <2>1. Len(swap_uint(b)) = 3 /\ SizeofStruct("uint", b) = 8
          /\ swap_uint(b)[1] = Neighbours(8, 1)
          /\ swap_uint(b)[2] = Neighbours(8, 2)
          /\ swap_uint(b)[3] = Neighbours(8, 4)
    BY <1>1, <1>2, ValueCalls
  <2>2. \A c \in 1..3 : c = 1 \/ c = 2 \/ c = 3
    OBVIOUS
  <2>3. /\ swap_uint(b)[1].w = 1 /\ swap_uint(b)[1].n = 8
        /\ swap_uint(b)[2].w = 2 /\ swap_uint(b)[2].n = 8
        /\ swap_uint(b)[3].w = 4 /\ swap_uint(b)[3].n = 8
    BY <2>1 DEF Neighbours
  <2>4. \A c \in 1..3 : /\ swap_uint(b)[c].w = IF c = 1 THEN 1 ELSE IF c = 2 THEN 2 ELSE 4
                        /\ swap_uint(b)[c].n = 8
    <3> DEFINE u == swap_uint(b)
    <3>1. u[1].w = 1 /\ u[1].n = 8 /\ u[2].w = 2 /\ u[2].n = 8 /\ u[3].w = 4 /\ u[3].n = 8
      BY <2>3
    <3> HIDE DEF u
    <3>2. \A c \in 1..3 : /\ u[c].w = IF c = 1 THEN 1 ELSE IF c = 2 THEN 2 ELSE 4
                          /\ u[c].n = 8
      BY <2>2, <3>1
    <3> QED
      BY <3>2 DEF u
  <2>5. swap_uint(b) \in Seq(Steps)
    BY ValueCalls
  <2> QED
    BY <1>1, <1>2, <2>1, <2>4, <2>5, Zenon
<1>3. CASE ~b
  <2>1. Len(swap_uint(b)) = 2 /\ SizeofStruct("uint", b) = 4
          /\ swap_uint(b)[1] = Neighbours(4, 1)
          /\ swap_uint(b)[2] = Neighbours(4, 2)
    BY <1>1, <1>3, ValueCalls
  <2> QED
    BY <1>1, <1>3, <2>1, ValueCalls DEF Neighbours
<1> QED
  BY <1>2, <1>3

-----------------------------------------------------------------------------
(***************************************************************************)
(* What the invariant's definitions say, whatever the structure.           *)
(***************************************************************************)
LEMMA SizesAreNaturals ==
  ASSUME NEW s \in Structures, NEW b \in BOOLEAN
  PROVE  SizeofStruct(s, b) \in Nat
BY DEF Structures, SizeofStruct, SizeofHeader, SizeofCommand, SizeofSymtab,
       SizeofSegment, SizeofSection, SizeofFatArch, SizeofNlist

LEMMA PresentCalls ==
  ASSUME TypeOK
  PROVE  /\ Present \in Seq(Steps) /\ Len(Present) \in Nat /\ Len(todo) \in Nat
         /\ Done \in 0..Len(Present)
         /\ todo = <<>> => Done = Len(Present)
         /\ todo # <<>> => /\ Done + 1 \in 1..Len(Present)
                           /\ Head(todo) = Present[Done + 1]
                           /\ Head(todo) \in Steps
<1>1. Present \in Seq(Steps)
  BY CallsAreInOrder, CallsOfAValue DEF Present, TypeOK
<1>2. todo \in Seq(Steps) /\ Len(todo) <= Len(Present)
  BY DEF TypeOK
<1>3. Len(Present) \in Nat /\ Len(todo) \in Nat
  BY <1>1, <1>2, LenProperties
<1>4. Done \in 0..Len(Present) /\ Done = Len(Present) - Len(todo)
  BY <1>2, <1>3 DEF Done
<1>5. todo = <<>> => Len(todo) = 0
  OBVIOUS
<1>6. ASSUME todo # <<>>
      PROVE  /\ Done + 1 \in 1..Len(Present)
             /\ Head(todo) = Present[Done + 1]
             /\ Head(todo) \in Steps
  <2>1. Len(todo) > 0 /\ Head(todo) = todo[1] /\ Head(todo) \in Steps
    BY <1>2, <1>6
  <2>2. todo[1] = Present[Done + 1]
    BY <1>3, <2>1 DEF TypeOK
  <2> QED
    BY <1>3, <1>4, <2>1, <2>2
<1> QED
  BY <1>1, <1>3, <1>4, <1>5, <1>6

\* No number is in two intervals of which one ends before the other starts.
LEMMA IntervalsApart ==
  ASSUME NEW a \in Nat, NEW n \in Nat, NEW b \in Nat, NEW m \in Nat, a + n <= b,
         NEW p \in a..(a + n - 1), p \in b..(b + m - 1)
  PROVE  FALSE
  OBVIOUS

LEMMA FieldsAreApart ==
  ASSUME TypeOK, struct # "uint", NEW c \in 1..Len(Present)
  PROVE  /\ Present[c].at \in Nat /\ Present[c].n \in Nat /\ Present[c].w = 0
         /\ \A p \in Field(c) : /\ p \in Span /\ p < SizeofStruct(struct, is64)
                                /\ Mirror(c, p) \in Field(c)
                                /\ Mirror(c, Mirror(c, p)) = p
         /\ \A d \in 1..Len(Present) : \A p \in Field(c) : p \in Field(d) => c = d
<1> DEFINE P    == Present
           size == SizeofStruct(struct, is64)
<1>1. P \in Seq(Steps) /\ InOrder(P, size) /\ Len(P) \in Nat
  BY CallsAreInOrder, PresentCalls DEF Present, TypeOK
<1>2. size \in Nat
  BY SizesAreNaturals DEF TypeOK
<1>3. \A d \in 1..Len(P) : P[d] \in Steps
  BY <1>1
<1>4. \A d \in 1..Len(P) : P[d].at \in Nat /\ P[d].n \in Nat
  BY <1>3 DEF Steps
<1> HIDE DEF P, size
<1>5. \A d \in 1..Len(P) : P[d].w = 0 /\ P[d].at + P[d].n <= size
  BY <1>1 DEF InOrder
<1>6. \A p \in P[c].at..(P[c].at + P[c].n - 1) :
         /\ p \in 0..size + 7 /\ p < size
         /\ 2 * P[c].at + P[c].n - 1 - p \in P[c].at..(P[c].at + P[c].n - 1)
         /\ 2 * P[c].at + P[c].n - 1 - (2 * P[c].at + P[c].n - 1 - p) = p
  <2>1. P[c].at \in Nat /\ P[c].n \in Nat /\ P[c].at + P[c].n <= size
    BY <1>4, <1>5 DEF P
  <2> DEFINE at == P[c].at
             n  == P[c].n
  <2>2. at \in Nat /\ n \in Nat /\ at + n <= size
    BY <2>1
  <2> HIDE DEF at, n
  <2>3. ASSUME NEW p \in at..(at + n - 1)
        PROVE  /\ p \in 0..size + 7 /\ p < size
               /\ 2 * at + n - 1 - p \in at..(at + n - 1)
               /\ 2 * at + n - 1 - (2 * at + n - 1 - p) = p
    BY <1>2, <2>2
  <2> QED
    BY <2>3 DEF at, n
<1>7. ASSUME NEW d \in 1..Len(P), NEW p \in P[c].at..(P[c].at + P[c].n - 1),
             p \in P[d].at..(P[d].at + P[d].n - 1)
      PROVE  c = d
  <2>1. c \in 1..Len(P)
    BY DEF P
  <2>2. P[c].at \in Nat /\ P[c].n \in Nat /\ P[d].at \in Nat /\ P[d].n \in Nat
    BY <1>4, <2>1
  <2>3. CASE c < d
    <3>1. P[c].at + P[c].n <= P[d].at
      BY <1>1, <2>1, <2>3 DEF InOrder
    <3> QED
      BY <1>7, <2>2, <3>1, IntervalsApart
  <2>4. CASE d < c
    <3>1. P[d].at + P[d].n <= P[c].at
      BY <1>1, <2>1, <2>4 DEF InOrder
    <3> QED
      BY <1>7, <2>2, <3>1, IntervalsApart
  <2> QED
    BY <1>1, <2>1, <2>3, <2>4
<1> QED
  BY <1>4, <1>5, <1>6, <1>7 DEF P, size, Field, Mirror, Span

\* The place the byte at p comes from when blocks of w bytes change places.
Neighbour(p, w) == IF (p \div w) % 2 = 0 THEN p + w ELSE p - w

LEMMA OneBitTurns ==
  ASSUME NEW n \in {4, 8}, NEW w \in {1, 2, 4}, w < n, NEW p \in 0..(n - 1)
  PROVE  /\ Neighbour(p, w) \in 0..(n - 1)
         /\ \A v \in {1, 2, 4} :
              (Neighbour(p, w) \div v) % 2 =
                IF v = w THEN 1 - ((p \div v) % 2) ELSE (p \div v) % 2
<1>1. p = 0 \/ p = 1 \/ p = 2 \/ p = 3 \/ p = 4 \/ p = 5 \/ p = 6 \/ p = 7
  OBVIOUS
<1>2. CASE w = 1
  BY <1>1, <1>2 DEF Neighbour
<1>3. CASE w = 2
  BY <1>1, <1>3 DEF Neighbour
<1>4. CASE w = 4
  BY <1>1, <1>4 DEF Neighbour
<1> QED
  BY <1>2, <1>3, <1>4

LEMMA BitsOfAPlace ==
  ASSUME NEW p \in 0..7
  PROVE  /\ p = 1 * ((p \div 1) % 2) + 2 * ((p \div 2) % 2) + 4 * ((p \div 4) % 2)
         /\ p < 4 => (p \div 4) % 2 = 0
         /\ \A v \in {1, 2, 4} : (p \div v) % 2 \in {0, 1}
<1>1. p = 0 \/ p = 1 \/ p = 2 \/ p = 3 \/ p = 4 \/ p = 5 \/ p = 6 \/ p = 7
  OBVIOUS
<1> QED
  BY <1>1

\* Only the conversions by value exchange blocks, and they have blocks of 1, 2, 4
\* bytes in turn.
LEMMA ExchangesAreOfAValue ==
  ASSUME TypeOK, todo # <<>>, Head(todo).w > 0
  PROVE  /\ struct = "uint" /\ Done + 1 \in 1..(IF is64 THEN 3 ELSE 2)
         /\ Head(todo).n = SizeofStruct(struct, is64)
         /\ SizeofStruct(struct, is64) = IF is64 THEN 8 ELSE 4
         /\ Head(todo).w = IF Done + 1 = 1 THEN 1 ELSE IF Done + 1 = 2 THEN 2 ELSE 4
         /\ Head(todo).w \in {1, 2, 4} /\ Head(todo).w < Head(todo).n
<1> DEFINE c == Done + 1
<1>1. c \in 1..Len(Present) /\ Head(todo) = Present[c]
  BY PresentCalls
<1>2. struct = "uint"
  <2> HIDE DEF c
  <2> SUFFICES ASSUME struct # "uint" PROVE Present[c].w = 0
    BY <1>1
  <2> QED
    BY <1>1, FieldsAreApart
<1>3. is64 \in BOOLEAN /\ Present = Calls("uint", is64)
  BY <1>2 DEF TypeOK, Present
<1>4. /\ c \in 1..(IF is64 THEN 3 ELSE 2)
      /\ Head(todo).w = IF c = 1 THEN 1 ELSE IF c = 2 THEN 2 ELSE 4
      /\ Head(todo).n = SizeofStruct("uint", is64)
  <2> HIDE DEF c
  <2> QED
    BY <1>1, <1>3, CallsOfAValue
<1>5. SizeofStruct("uint", is64) = IF is64 THEN 8 ELSE 4
  BY DEF SizeofStruct
<1> HIDE DEF c
<1>6. Head(todo).w \in {1, 2, 4} /\ Head(todo).w < Head(todo).n
  BY <1>4, <1>5
<1> QED
  BY <1>2, <1>4, <1>5, <1>6 DEF c

LEMMA ReversalsAreInside ==
  ASSUME TypeOK, todo # <<>>, Head(todo).w = 0
  PROVE  /\ struct # "uint"
         /\ Head(todo).at \in Nat /\ Head(todo).n \in Nat
         /\ Field(Done + 1) = Head(todo).at..(Head(todo).at + Head(todo).n - 1)
         /\ Head(todo).at..(Head(todo).at + Head(todo).n - 1) \subseteq Span
<1> DEFINE c == Done + 1
<1>1. c \in 1..Len(Present) /\ Head(todo) = Present[c] /\ Head(todo) \in Steps
  BY PresentCalls
<1>2. struct # "uint"
  <2> SUFFICES ASSUME struct = "uint" PROVE Present[c].w # 0
    BY <1>1
  <2>1. is64 \in BOOLEAN /\ Present = Calls("uint", is64)
    BY DEF TypeOK, Present
  <2> HIDE DEF c
  <2> QED
    BY <1>1, <2>1, CallsOfAValue
<1>3. Head(todo).at \in Nat /\ Head(todo).n \in Nat
  BY <1>1 DEF Steps
<1>4. Field(c) = Head(todo).at..(Head(todo).at + Head(todo).n - 1)
  BY <1>1 DEF Field
<1> HIDE DEF c
<1>5. Field(c) \subseteq Span
  BY <1>1, <1>2, FieldsAreApart
<1> QED
  BY <1>2, <1>3, <1>4, <1>5 DEF c

-----------------------------------------------------------------------------
(***************************************************************************)
(* The types.                                                              *)
(***************************************************************************)
LEMMA TypeInit == Init => TypeOK
<1> SUFFICES ASSUME Init PROVE TypeOK
  OBVIOUS
<1>1. struct \in Structures /\ is64 \in BOOLEAN /\ todo = <<>> /\ Len(todo) = 0
  BY DEF Init
<1>2. Present \in Seq(Steps)
  BY <1>1, CallsAreInOrder, CallsOfAValue DEF Present
<1>3. mem \in [Span -> Span] /\ before \in [Span -> Span]
  BY DEF Init
<1>4. Len(todo) <= Len(Present) /\ todo \in Seq(Steps)
  BY <1>1, <1>2, LenProperties
<1>5. \A c \in 1..Len(todo) : todo[c] = Present[Done + c]
  <2>1. 1..Len(todo) = {}
    BY <1>1
  <2> QED
    BY <2>1
<1>6. rounds \in 0..MaxRounds /\ i \in Int /\ j \in Int /\ inside = FALSE
  BY RoundsAssumption DEF Init
<1> QED
  BY <1>1, <1>3, <1>4, <1>5, <1>6 DEF TypeOK

\* What a step leaves as it is, said of the definitions that depend on it.
LEMMA SameStructure ==
  ASSUME UNCHANGED <<struct, is64>>
  PROVE  Span' = Span /\ Present' = Present
BY DEF Span, Present

LEMMA TypeStep ==
  ASSUME TypeOK, [Next]_vars
  PROVE  TypeOK'
<1>1. /\ struct \in Structures /\ is64 \in BOOLEAN
      /\ mem \in [Span -> Span] /\ before \in [Span -> Span]
      /\ rounds \in 0..MaxRounds /\ todo \in Seq(Steps)
      /\ Len(todo) <= Len(Present) /\ (todo # <<>> => rounds > 0)
      /\ i \in Int /\ j \in Int /\ inside \in BOOLEAN
      /\ \A c \in 1..Len(todo) : todo[c] = Present[Done + c]
  BY DEF TypeOK
<1>2. /\ inside => /\ todo # <<>> /\ Head(todo).w = 0
                   /\ -1 <= i /\ i <= j /\ i + j = Head(todo).n - 1
  BY DEF TypeOK
<1>3. /\ Present \in Seq(Steps) /\ Len(Present) \in Nat /\ Len(todo) \in Nat
      /\ MaxRounds \in Nat
  BY PresentCalls, RoundsAssumption
<1>4. CASE Convert
  <2>1. todo = <<>> /\ ~inside
    BY <1>2, <1>4 DEF Convert
  <2>2. /\ rounds' \in 0..MaxRounds /\ rounds' > 0
    BY <1>1, <1>3, <1>4 DEF Convert
  <2>3. UNCHANGED <<struct, is64, mem, before, i, j, inside>> /\ todo' = Present
    BY <1>4 DEF Convert, Present
  <2>4. Span' = Span /\ Present' = Present
    BY <2>3, SameStructure
  <2>5. Done' = 0
    BY <1>3, <2>3, <2>4 DEF Done
  <2>6. \A c \in 1..Len(todo') : todo'[c] = Present'[Done' + c]
    BY <2>3, <2>4, <2>5
  <2> QED
    BY <1>1, <1>3, <2>1, <2>2, <2>3, <2>4, <2>6 DEF TypeOK
<1>5. ASSUME todo # <<>>, UNCHANGED <<struct, is64, rounds>>, todo' = Tail(todo)
      PROVE  /\ todo' \in Seq(Steps) /\ Len(todo') <= Len(Present')
             /\ \A c \in 1..Len(todo') : todo'[c] = Present'[Done' + c]
             /\ todo' # <<>> => rounds' > 0
  <2>1. Present' = Present
    BY <1>5, SameStructure
  <2>2. Len(todo) > 0 /\ Tail(todo) \in Seq(Steps) /\ Len(Tail(todo)) = Len(todo) - 1
          /\ \A c \in 1..Len(Tail(todo)) : Tail(todo)[c] = todo[c + 1]
    BY <1>1, <1>5
  <2>3. Done = Len(Present) - Len(todo) /\ Done' = Done + 1
    BY <1>3, <1>5, <2>1, <2>2 DEF Done
  <2>4. ASSUME NEW c \in 1..(Len(todo) - 1)
        PROVE  Tail(todo)[c] = Present[Done + 1 + c]
    <3>1. c + 1 \in 1..Len(todo) /\ Done + (c + 1) = Done + 1 + c
      BY <1>3, <2>3
    <3> QED
      BY <1>1, <2>2, <3>1
  <2> QED
    BY <1>1, <1>3, <1>5, <2>1, <2>2, <2>3, <2>4
<1>6. CASE Exchange
  <2>1. todo # <<>> /\ Head(todo).w > 0 /\ todo' = Tail(todo)
          /\ UNCHANGED <<struct, is64, rounds, before, i, j, inside>>
    BY <1>6 DEF Exchange
  <2>2. ~inside
    BY <1>2, <2>1
  <2>3. Span' = Span /\ Present' = Present
    BY <2>1, SameStructure
  <2>4. \A p \in Span : (IF p >= Head(todo).n THEN p
                         ELSE Neighbour(p, Head(todo).w)) \in Span
    <3> DEFINE n == Head(todo).n
               w == Head(todo).w
    <3>1. n \in {4, 8} /\ w \in {1, 2, 4} /\ w < n /\ Span = 0..n + 7
      BY <2>1, ExchangesAreOfAValue DEF Span
    <3> HIDE DEF n, w
    <3> SUFFICES ASSUME NEW p \in 0..n + 7, ~(p >= n) PROVE Neighbour(p, w) \in 0..n + 7
      BY <3>1 DEF n, w
    <3>2. p \in 0..(n - 1)
      BY <3>1
    <3>3. Neighbour(p, w) \in 0..(n - 1)
      BY <3>1, <3>2, OneBitTurns
    <3> QED
      BY <3>1, <3>3
  <2>5. mem' = [p \in Span |-> mem[IF p >= Head(todo).n THEN p
                                   ELSE Neighbour(p, Head(todo).w)]]
    BY <1>6 DEF Exchange, Neighbour
  <2>6. mem' \in [Span -> Span]
    BY <1>1, <2>4, <2>5
  <2> QED
    BY <1>1, <1>5, <2>1, <2>2, <2>3, <2>6 DEF TypeOK
<1>7. CASE Call
  <2>1. todo # <<>> /\ Head(todo).w = 0 /\ before' = mem /\ i' = -1
          /\ j' = Head(todo).n /\ inside' = TRUE
          /\ UNCHANGED <<struct, is64, mem, rounds, todo>>
    BY <1>7 DEF Call
  <2>2. Span' = Span /\ Present' = Present /\ Done' = Done
    BY <2>1, SameStructure DEF Done
  <2>3. i' \in Int /\ j' \in Int /\ -1 <= i' /\ i' <= j' /\ i' + j' = Head(todo).n - 1
    BY <2>1, ReversalsAreInside
  <2> QED
    BY <1>1, <2>1, <2>2, <2>3 DEF TypeOK
<1>8. CASE Swap
  <2>1. inside /\ i + 1 <= j - 1 /\ i' = i + 1 /\ j' = j - 1
          /\ mem' = Swapped(mem, Head(todo).at + (i + 1), Head(todo).at + (j - 1))
          /\ UNCHANGED <<struct, is64, rounds, todo, before, inside>>
    BY <1>8 DEF Swap
  <2>2. Span' = Span /\ Present' = Present /\ Done' = Done
    BY <2>1, SameStructure DEF Done
  <2>3. i' \in Int /\ j' \in Int /\ -1 <= i' /\ i' <= j' /\ i' + j' = Head(todo).n - 1
    <3>1. Head(todo).n \in Nat
      BY <1>2, <2>1, ReversalsAreInside
    <3> QED
      BY <1>1, <1>2, <2>1, <3>1
  <2>4. Head(todo).at + (i + 1) \in Span /\ Head(todo).at + (j - 1) \in Span
    <3> DEFINE at == Head(todo).at
               n  == Head(todo).n
    <3>1. at \in Nat /\ n \in Nat /\ at..(at + n - 1) \subseteq Span
      BY <1>2, <2>1, ReversalsAreInside
    <3>2. -1 <= i /\ i <= j /\ i + j = n - 1
      BY <1>2, <2>1
    <3> HIDE DEF at, n
    <3>3. at + (i + 1) \in at..(at + n - 1) /\ at + (j - 1) \in at..(at + n - 1)
      BY <1>1, <2>1, <3>1, <3>2
    <3> QED
      BY <3>1, <3>3 DEF at, n
  <2>5. mem' \in [Span -> Span]
    BY <1>1, <2>1, <2>4 DEF Swapped
  <2> QED
    BY <1>1, <1>2, <2>1, <2>2, <2>3, <2>5 DEF TypeOK
<1>9. CASE Return
  <2>1. inside /\ inside' = FALSE /\ todo' = Tail(todo)
          /\ i' = i + 1 /\ j' = j - 1
          /\ UNCHANGED <<struct, is64, mem, rounds, before>>
    BY <1>9 DEF Return
  <2>2. Span' = Span
    BY <2>1, SameStructure
  <2>3. i' \in Int /\ j' \in Int
    BY <1>1, <2>1
  <2> QED
    BY <1>1, <1>2, <1>5, <2>1, <2>2, <2>3 DEF TypeOK
<1>10. CASE UNCHANGED vars
  <2>1. Span' = Span /\ Present' = Present /\ Done' = Done
    BY <1>10, SameStructure DEF vars, Done
  <2> QED
    BY <1>1, <1>2, <1>10, <2>1 DEF TypeOK, vars
<1> QED
  BY <1>4, <1>6, <1>7, <1>8, <1>9, <1>10 DEF Next, Finished

\* The types: the file never leaves the structure and the eight bytes after it,
\* and the calls left to make are the last ones of the present conversion.
THEOREM TypeCorrect == Spec => []TypeOK
BY TypeInit, TypeStep, PTL DEF Spec

-----------------------------------------------------------------------------
(***************************************************************************)
(* The reversal, turn by turn.                                             *)
(***************************************************************************)
LEMMA MirroredInit == Init => Mirrored
BY DEF Init, Mirrored

LEMMA MirroredStep ==
  ASSUME TypeOK, Mirrored, [Next]_vars
  PROVE  Mirrored'
<1> SUFFICES ASSUME inside' PROVE Mirrored'
  BY DEF Mirrored
<1>1. CASE Call
  <2>1. /\ todo # <<>> /\ Head(todo).w = 0 /\ UNCHANGED <<struct, is64, mem, todo>>
        /\ before' = mem /\ i' = -1 /\ j' = Head(todo).n
    BY <1>1 DEF Call
  <2>2. Head(todo).at \in Nat /\ Head(todo).n \in Nat /\ Span' = Span
    BY <2>1, ReversalsAreInside, SameStructure
  <2> DEFINE at == Head(todo).at
             n  == Head(todo).n
  <2> HIDE DEF at, n
  <2>3. at \in Nat /\ n \in Nat
    BY <2>2 DEF at, n
  <2>4. at..(at + -1) = {} /\ (at + n)..(at + n - 1) = {}
    BY <2>3
  <2>5. \A p \in Span : mem'[p] = IF p \in at..(at + -1) \/ p \in (at + n)..(at + n - 1)
                                  THEN before'[2 * at + n - 1 - p]
                                  ELSE before'[p]
    BY <2>1, <2>4
  <2> QED
    BY <2>1, <2>2, <2>5 DEF Mirrored, at, n
<1>2. CASE Swap
  <2> DEFINE at == Head(todo).at
             n  == Head(todo).n
             a  == at + (i + 1)
             b  == at + (j - 1)
  <2>1. /\ inside /\ i + 1 <= j - 1 /\ i' = i + 1 /\ j' = j - 1
        /\ mem' = Swapped(mem, a, b) /\ UNCHANGED <<struct, is64, todo, before>>
    BY <1>2 DEF Swap
  <2>2. /\ mem \in [Span -> Span] /\ i \in Int /\ j \in Int
        /\ -1 <= i /\ i <= j /\ i + j = n - 1
        /\ at \in Nat /\ n \in Nat /\ at..(at + n - 1) \subseteq Span
        /\ Span' = Span /\ Span \subseteq Int
    <3>1. todo # <<>> /\ Head(todo).w = 0
      BY <2>1 DEF TypeOK
    <3>2. Span \subseteq Int
      BY SizesAreNaturals DEF Span, TypeOK
    <3> QED
      BY <2>1, <3>1, <3>2, ReversalsAreInside, SameStructure DEF TypeOK
  <2>3. \A p \in Span : mem[p] = IF p \in at..(at + i) \/ p \in (at + j)..(at + n - 1)
                                 THEN before[2 * at + n - 1 - p]
                                 ELSE before[p]
    BY <2>1 DEF Mirrored
  <2> HIDE DEF at, n
  <2>4. a \in Span /\ b \in Span /\ mem[a] = before[a] /\ mem[b] = before[b]
    <3>1. a \in at..(at + n - 1) /\ b \in at..(at + n - 1)
      BY <2>1, <2>2
    <3>2. /\ a \notin at..(at + i) /\ a \notin (at + j)..(at + n - 1)
          /\ b \notin at..(at + i) /\ b \notin (at + j)..(at + n - 1)
      BY <2>1, <2>2
    <3> QED
      BY <2>2, <2>3, <3>1, <3>2
  <2>5. \A p \in Span : mem'[p] = IF p = b THEN mem[a] ELSE IF p = a THEN mem[b] ELSE mem[p]
    BY <2>1, <2>2, <2>4 DEF Swapped
  <2>6. 2 * at + n - 1 - a = b /\ 2 * at + n - 1 - b = a
    BY <2>2
  <2>7. ASSUME NEW p \in Span
        PROVE  mem'[p] = IF p \in at..(at + (i + 1)) \/ p \in (at + (j - 1))..(at + n - 1)
                         THEN before[2 * at + n - 1 - p]
                         ELSE before[p]
    <3>1. CASE p = a \/ p = b
      <4>1. p \in at..(at + (i + 1)) \/ p \in (at + (j - 1))..(at + n - 1)
        BY <2>1, <2>2, <3>1
      <4>2. mem'[p] = before[2 * at + n - 1 - p]
        BY <2>4, <2>5, <2>6, <3>1
      <4> QED
        BY <4>1, <4>2
    <3>2. CASE p # a /\ p # b
      <4>1. /\ p \in at..(at + (i + 1)) <=> p \in at..(at + i)
            /\ p \in (at + (j - 1))..(at + n - 1) <=> p \in (at + j)..(at + n - 1)
        BY <2>2, <3>2
      <4>2. mem'[p] = mem[p]
        BY <2>5, <3>2
      <4> QED
        BY <2>3, <4>1, <4>2
    <3> QED
      BY <3>1, <3>2
  <2>8. \A p \in Span' :
          mem'[p] = IF p \in at..(at + i') \/ p \in (at + j')..(at + n - 1)
                    THEN before'[2 * at + n - 1 - p]
                    ELSE before'[p]
    BY <2>1, <2>2, <2>7
  <2> QED
    BY <2>1, <2>8 DEF Mirrored, at, n
<1>3. CASE Convert
  BY <1>3 DEF Convert, TypeOK
<1>4. CASE Exchange
  BY <1>4 DEF Exchange, TypeOK
<1>5. CASE Return
  BY <1>5 DEF Return
<1>6. CASE UNCHANGED vars
  BY <1>6, SameStructure DEF vars, Mirrored
<1> QED
  BY <1>1, <1>2, <1>3, <1>4, <1>5, <1>6 DEF Next, Finished

\* In the middle of a reversal what the two ends have passed is mirrored and the
\* rest as it was, whatever the field and the bytes in it.
THEOREM ReversalIsMirrored == Spec => []Mirrored
BY TypeInit, TypeStep, MirroredInit, MirroredStep, PTL DEF Spec

-----------------------------------------------------------------------------
(***************************************************************************)
(* Whole conversions: which calls have been made an odd number of times.   *)
(***************************************************************************)
LEMMA SameFields ==
  ASSUME UNCHANGED <<struct, is64>>
  PROVE  \A c : Field(c)' = Field(c) /\ \A p : Mirror(c, p)' = Mirror(c, p)
BY SameStructure DEF Field, Mirror

\* TurnedInv is kept by a step that changes neither the bytes between the calls
\* nor which calls have been made how often.
LEMMA TurnedUnchanged ==
  ASSUME TypeOK, TurnedInv, UNCHANGED <<struct, is64>>,
         (IF inside THEN before ELSE mem)' = (IF inside THEN before ELSE mem),
         \A c \in 1..Len(Present) : Turned(c)' <=> Turned(c)
  PROVE  TurnedInv'
<1> SUFFICES ASSUME struct # "uint" PROVE TurnedInv'
  BY DEF TurnedInv
<1> DEFINE data == IF inside THEN before ELSE mem
<1>1. Span' = Span /\ Present' = Present /\ data' = data
  BY SameStructure
<1>2. \A c : Field(c)' = Field(c) /\ \A p : Mirror(c, p)' = Mirror(c, p)
  BY SameFields
<1>3. \A p \in Span :
        /\ \A c \in 1..Len(Present) :
             p \in Field(c) => data[p] = IF Turned(c) THEN Mirror(c, p) ELSE p
        /\ (\A c \in 1..Len(Present) : p \notin Field(c)) => data[p] = p
  BY DEF TurnedInv
<1> HIDE DEF data
<1>4. ASSUME NEW p \in Span
      PROVE  /\ \A c \in 1..Len(Present') :
                  p \in Field(c)' => data'[p] = IF Turned(c)' THEN Mirror(c, p)' ELSE p
             /\ (\A c \in 1..Len(Present') : p \notin Field(c)') => data'[p] = p
  BY <1>1, <1>2, <1>3
<1> QED
  BY <1>1, <1>4 DEF TurnedInv, data

\* A reversal that returns has turned the field of its call and nothing else.
LEMMA ReturnTurnsAField ==
  ASSUME TypeOK, Mirrored, TurnedInv, Return
  PROVE  TurnedInv'
<1> DEFINE at == Head(todo).at
           n  == Head(todo).n
<1>1. /\ inside /\ i + 1 > j - 1 /\ inside' = FALSE /\ todo' = Tail(todo)
      /\ UNCHANGED <<struct, is64, mem, rounds, before>>
  BY DEF Return
<1>2. /\ todo # <<>> /\ Head(todo).w = 0 /\ i \in Int /\ j \in Int
      /\ -1 <= i /\ i <= j /\ i + j = n - 1 /\ rounds \in Nat /\ rounds > 0
      /\ todo \in Seq(Steps)
  BY <1>1, RoundsAssumption DEF TypeOK
<1>0. PICK f \in Nat : f = Done + 1
  BY <1>2, PresentCalls
<1>3. /\ struct # "uint" /\ at \in Nat /\ n \in Nat
      /\ Field(f) = at..(at + n - 1)
  BY <1>0, <1>2, ReversalsAreInside
<1>4. /\ f \in 1..Len(Present) /\ Head(todo) = Present[f] /\ Len(Present) \in Nat
      /\ Done \in Nat
  BY <1>0, <1>2, PresentCalls
<1>5. Span' = Span /\ Present' = Present
  BY <1>1, SameStructure
<1>6. \A c : Field(c)' = Field(c) /\ \A p : Mirror(c, p)' = Mirror(c, p)
  BY <1>1, SameFields
<1>7. Done' = Done + 1
  <2>1. Len(Tail(todo)) = Len(todo) - 1 /\ Len(todo) \in Nat
    BY <1>2
  <2>2. Done = Len(Present) - Len(todo) /\ Done' = Len(Present) - (Len(todo) - 1)
    BY <1>1, <1>5, <2>1 DEF Done
  <2> QED
    BY <1>4, <2>1, <2>2
<1>8. \A p : Mirror(f, p) = 2 * at + n - 1 - p
  BY <1>4 DEF Mirror
<1> HIDE DEF at, n
<1>9. ~Turned(f) <=> Turned(f)'
  <2>1. f <= Done' /\ ~(f <= Done)
    BY <1>0, <1>4, <1>7
  <2>2. rounds' = rounds /\ (rounds % 2 = 1 <=> ~((rounds - 1) % 2 = 1))
    BY <1>1, <1>2
  <2>3. Turned(f) <=> (rounds - 1) % 2 = 1
    BY <2>1 DEF Turned
  <2>4. Turned(f)' <=> rounds % 2 = 1
    BY <2>1, <2>2 DEF Turned
  <2> QED
    BY <2>2, <2>3, <2>4
<1>10. \A c \in 1..Len(Present) : c # f => (Turned(c)' <=> Turned(c))
  <2>1. \A c \in 1..Len(Present) : c # f => (c <= Done' <=> c <= Done)
    BY <1>0, <1>4, <1>7
  <2> QED
    BY <1>1, <2>1 DEF Turned
<1>11. \A p \in Span : mem[p] = IF p \in Field(f) THEN before[Mirror(f, p)] ELSE before[p]
  <2>1. \A p \in Int : p \in at..(at + i) \/ p \in (at + j)..(at + n - 1)
                         <=> p \in at..(at + n - 1)
    BY <1>1, <1>2, <1>3
  <2>2. \A p \in Span : mem[p] = IF p \in at..(at + i) \/ p \in (at + j)..(at + n - 1)
                                 THEN before[2 * at + n - 1 - p]
                                 ELSE before[p]
    BY <1>1 DEF Mirrored, at, n
  <2>3. Span \subseteq Int
    BY SizesAreNaturals DEF Span, TypeOK
  <2> QED
    BY <1>3, <1>8, <2>1, <2>2, <2>3
<1>12. \A p \in Span :
         /\ \A c \in 1..Len(Present) :
              p \in Field(c) => before[p] = IF Turned(c) THEN Mirror(c, p) ELSE p
         /\ (\A c \in 1..Len(Present) : p \notin Field(c)) => before[p] = p
  BY <1>1, <1>3 DEF TurnedInv
<1>13. ASSUME NEW p \in Span
       PROVE  /\ \A c \in 1..Len(Present) :
                   p \in Field(c) => mem[p] = IF Turned(c)' THEN Mirror(c, p) ELSE p
              /\ (\A c \in 1..Len(Present) : p \notin Field(c)) => mem[p] = p
  <2>1. CASE p \in Field(f)
    <3>1. /\ Mirror(f, p) \in Field(f) /\ Mirror(f, p) \in Span
          /\ Mirror(f, Mirror(f, p)) = p
      BY <1>3, <1>4, <2>1, FieldsAreApart
    <3>2. before[Mirror(f, p)] = IF Turned(f) THEN p ELSE Mirror(f, p)
      BY <1>4, <1>12, <3>1
    <3>3. mem[p] = IF Turned(f)' THEN Mirror(f, p) ELSE p
      BY <1>9, <1>11, <2>1, <3>2
    <3>4. \A c \in 1..Len(Present) : p \in Field(c) => f = c
      BY <1>3, <1>4, <2>1, FieldsAreApart
    <3>5. ASSUME NEW c \in 1..Len(Present), p \in Field(c)
          PROVE  mem[p] = IF Turned(c)' THEN Mirror(c, p) ELSE p
      <4>1. f = c
        BY <3>4, <3>5
      <4> QED
        BY <3>3, <4>1
    <3> QED
      BY <1>4, <2>1, <3>5
  <2>2. CASE p \notin Field(f)
    <3>1. mem[p] = before[p]
      BY <1>11, <2>2
    <3>2. \A c \in 1..Len(Present) : p \in Field(c) => (Turned(c)' <=> Turned(c))
      BY <1>10, <2>2
    <3> QED
      BY <1>12, <3>1, <3>2
  <2> QED
    BY <2>1, <2>2
<1>14. /\ mem' = mem /\ inside' = FALSE
       /\ \A p \in Span' :
            /\ \A c \in 1..Len(Present') :
                 p \in Field(c)' => mem'[p] = IF Turned(c)' THEN Mirror(c, p)' ELSE p
            /\ (\A c \in 1..Len(Present') : p \notin Field(c)') => mem'[p] = p
  BY <1>1, <1>5, <1>6, <1>13
<1> QED
  BY <1>14 DEF TurnedInv

LEMMA TurnedInit == Init => TurnedInv
<1> SUFFICES ASSUME Init PROVE TurnedInv
  OBVIOUS
<1>1. TypeOK
  BY TypeInit
<1>2. ~inside /\ \A p \in Span : mem[p] = p
  BY DEF Init
<1>3. \A c \in 1..Len(Present) : ~Turned(c)
  <2>1. rounds = 0 /\ todo = <<>>
    BY DEF Init
  <2>2. \A c \in 1..Len(Present) : c <= Done
    BY <1>1, <2>1, PresentCalls
  <2>3. 0 % 2 = 0
    OBVIOUS
  <2> QED
    BY <2>1, <2>2, <2>3 DEF Turned
<1> QED
  BY <1>2, <1>3 DEF TurnedInv

LEMMA TurnedStep ==
  ASSUME TypeOK, Mirrored, TurnedInv, [Next]_vars
  PROVE  TurnedInv'
<1> SUFFICES ASSUME struct' # "uint" PROVE TurnedInv'
  BY DEF TurnedInv
<1>1. CASE Convert
  <2>1. /\ todo = <<>> /\ rounds' = rounds + 1 /\ todo' = Present /\ ~inside /\ ~inside'
        /\ UNCHANGED <<struct, is64, mem>> /\ rounds \in Nat
    BY <1>1, RoundsAssumption DEF Convert, Present, TypeOK
  <2>2. Len(Present) \in Nat /\ Done = Len(Present) /\ Present' = Present
    BY <2>1, PresentCalls, SameStructure
  <2>3. Done' = 0
    BY <2>1, <2>2 DEF Done
  <2>4. rounds' - 1 = rounds
    BY <2>1
  <2>5. \A c \in 1..Len(Present) : Turned(c)' <=> Turned(c)
    <3>1. \A c \in 1..Len(Present) : c <= Done /\ ~(c <= Done')
      BY <2>2, <2>3
    <3> QED
      BY <2>4, <3>1 DEF Turned
  <2> QED
    BY <2>1, <2>5, TurnedUnchanged
<1>2. CASE Exchange
  <2>1. todo # <<>> /\ Head(todo).w > 0 /\ struct' = struct
    BY <1>2 DEF Exchange
  <2> QED
    BY <2>1, ExchangesAreOfAValue
<1>3. CASE Call
  <2>1. /\ UNCHANGED <<struct, is64, mem, rounds, todo>> /\ before' = mem
        /\ ~inside /\ inside'
    BY <1>3 DEF Call
  <2>2. \A c \in 1..Len(Present) : Turned(c)' <=> Turned(c)
    BY <2>1, SameStructure DEF Turned, Done
  <2> QED
    BY <2>1, <2>2, TurnedUnchanged
<1>4. CASE Swap
  <2>1. UNCHANGED <<struct, is64, rounds, todo, before, inside>> /\ inside
    BY <1>4 DEF Swap
  <2>2. \A c \in 1..Len(Present) : Turned(c)' <=> Turned(c)
    BY <2>1, SameStructure DEF Turned, Done
  <2> QED
    BY <2>1, <2>2, TurnedUnchanged
<1>5. CASE Return
  BY <1>5, ReturnTurnsAField
<1>6. CASE UNCHANGED vars
  <2>1. UNCHANGED <<struct, is64, mem, rounds, todo, before, inside>>
    BY <1>6 DEF vars
  <2>2. \A c \in 1..Len(Present) : Turned(c)' <=> Turned(c)
    BY <2>1, SameStructure DEF Turned, Done
  <2> QED
    BY <2>1, <2>2, TurnedUnchanged
<1> QED
  BY <1>1, <1>2, <1>3, <1>4, <1>5, <1>6 DEF Next, Finished

-----------------------------------------------------------------------------
(***************************************************************************)
(* Values: which bits of the places have been turned.                      *)
(***************************************************************************)
LEMMA NothingTurned ==
  ASSUME NEW p \in 0..7,
         ~Turned(1), ~Turned(2), is64 => ~Turned(3), p < (IF is64 THEN 8 ELSE 4)
  PROVE  Place(p) = p
<1>1. Bit(p, 1, 1) = 1 * ((p \div 1) % 2) /\ Bit(p, 2, 2) = 2 * ((p \div 2) % 2)
  BY DEF Bit
<1>2. is64 => Bit(p, 4, 3) = 4 * ((p \div 4) % 2)
  BY DEF Bit
<1>3. /\ p = 1 * ((p \div 1) % 2) + 2 * ((p \div 2) % 2) + 4 * ((p \div 4) % 2)
      /\ p < 4 => (p \div 4) % 2 = 0
      /\ (p \div 1) % 2 \in {0, 1} /\ (p \div 2) % 2 \in {0, 1}
      /\ (p \div 4) % 2 \in {0, 1}
  BY BitsOfAPlace
<1>4. CASE is64
  BY <1>1, <1>2, <1>3, <1>4 DEF Place
<1>5. CASE ~is64
  BY <1>1, <1>3, <1>5 DEF Place
<1> QED
  BY <1>4, <1>5

LEMMA AllTurned ==
  ASSUME NEW p \in 0..7,
         Turned(1), Turned(2), is64 => Turned(3), p < (IF is64 THEN 8 ELSE 4)
  PROVE  Place(p) = (IF is64 THEN 7 ELSE 3) - p
<1>1. Bit(p, 1, 1) = 1 * (1 - ((p \div 1) % 2)) /\ Bit(p, 2, 2) = 2 * (1 - ((p \div 2) % 2))
  BY DEF Bit
<1>2. is64 => Bit(p, 4, 3) = 4 * (1 - ((p \div 4) % 2))
  BY DEF Bit
<1>3. /\ p = 1 * ((p \div 1) % 2) + 2 * ((p \div 2) % 2) + 4 * ((p \div 4) % 2)
      /\ p < 4 => (p \div 4) % 2 = 0
      /\ (p \div 1) % 2 \in {0, 1} /\ (p \div 2) % 2 \in {0, 1}
      /\ (p \div 4) % 2 \in {0, 1}
  BY BitsOfAPlace
<1>4. CASE is64
  BY <1>1, <1>2, <1>3, <1>4 DEF Place
<1>5. CASE ~is64
  BY <1>1, <1>3, <1>5 DEF Place
<1> QED
  BY <1>4, <1>5

LEMMA ValueInit == Init => ValueInv
<1> SUFFICES ASSUME Init, struct = "uint" PROVE ValueInv
  BY DEF ValueInv
<1>1. SizeofStruct(struct, is64) = IF is64 THEN 8 ELSE 4
  BY DEF SizeofStruct
<1>2. ~inside /\ \A p \in Span : mem[p] = p
  BY DEF Init
<1>3. ~Turned(1) /\ ~Turned(2) /\ (is64 => ~Turned(3))
  <2>1. rounds = 0 /\ todo = <<>> /\ TypeOK
    BY TypeInit DEF Init
  <2>2. Done = IF is64 THEN 3 ELSE 2
    BY <2>1, PresentCalls, CallsOfAValue DEF Present, TypeOK
  <2>3. 0 % 2 = 0
    OBVIOUS
  <2> QED
    BY <2>1, <2>2, <2>3 DEF Turned
<1>4. ASSUME NEW p \in Span, p < SizeofStruct(struct, is64) PROVE Place(p) = p
  <2>1. p \in 0..7 /\ p < (IF is64 THEN 8 ELSE 4)
    BY <1>1, <1>4 DEF Span
  <2> QED
    BY <1>3, <2>1, NothingTurned
<1> QED
  BY <1>2, <1>4 DEF ValueInv

LEMMA ExchangeTurnsABit ==
  ASSUME TypeOK, ValueInv, Exchange
  PROVE  ValueInv'
<1> DEFINE n == Head(todo).n
           w == Head(todo).w
<1>1. /\ todo # <<>> /\ w > 0 /\ todo' = Tail(todo)
      /\ UNCHANGED <<struct, is64, rounds, inside>>
      /\ mem' = [p \in Span |-> mem[IF p >= n THEN p ELSE Neighbour(p, w)]]
  BY DEF Exchange, Neighbour
<1>2. PICK c \in Nat : c = Done + 1
  BY <1>1, PresentCalls
<1>3. /\ struct = "uint" /\ c \in 1..(IF is64 THEN 3 ELSE 2)
      /\ n = SizeofStruct(struct, is64) /\ n = (IF is64 THEN 8 ELSE 4)
      /\ w = (IF c = 1 THEN 1 ELSE IF c = 2 THEN 2 ELSE 4)
      /\ w \in {1, 2, 4} /\ w < n
  BY <1>1, <1>2, ExchangesAreOfAValue
<1>4. /\ ~inside
      /\ \A p \in Span : mem[p] = IF p < n THEN Place(p) ELSE p
  BY <1>3 DEF ValueInv
<1>5. /\ Span' = Span /\ Span = 0..n + 7 /\ SizeofStruct(struct, is64)' = n
  BY <1>1, <1>3, SameStructure DEF Span
<1>6. /\ Turned(c)' <=> ~Turned(c)
      /\ \A d \in Nat : d # c => (Turned(d)' <=> Turned(d))
  <2>1. Done' = c /\ Done = c - 1
    <3>1. todo \in Seq(Steps) /\ Present' = Present
      BY <1>1, SameStructure DEF TypeOK
    <3>2. Len(todo) \in Nat /\ Len(todo') = Len(todo) - 1 /\ Len(Present) \in Nat
      BY <1>1, <3>1, PresentCalls
    <3>3. Done = Len(Present) - Len(todo) /\ Done' = Len(Present) - (Len(todo) - 1)
      BY <3>1, <3>2 DEF Done
    <3> QED
      BY <1>2, <3>2, <3>3
  <2>2. rounds \in Nat /\ rounds > 0
    BY <1>1, RoundsAssumption DEF TypeOK
  <2>3. rounds % 2 = 1 <=> ~((rounds - 1) % 2 = 1)
    BY <2>2
  <2>4. Turned(c) <=> (rounds - 1) % 2 = 1
    BY <1>2, <2>1 DEF Turned
  <2>5. Turned(c)' <=> rounds % 2 = 1
    BY <1>1, <1>2, <2>1 DEF Turned
  <2>6. \A d \in Nat : d # c => (d <= Done' <=> d <= Done)
    BY <1>2, <2>1
  <2> QED
    BY <1>1, <2>3, <2>4, <2>5, <2>6 DEF Turned
<1> HIDE DEF n, w
<1>7. ASSUME NEW p \in Span, p < n
      PROVE  /\ Neighbour(p, w) \in Span /\ Neighbour(p, w) < n
             /\ Place(p)' = Place(Neighbour(p, w))
  <2> DEFINE f == Neighbour(p, w)
  <2>1. p \in 0..(n - 1) /\ n \in {4, 8} /\ (~is64 => n = 4)
    BY <1>3, <1>5, <1>7
  <2>2. /\ f \in 0..(n - 1)
        /\ (f \div 1) % 2 = IF 1 = w THEN 1 - ((p \div 1) % 2) ELSE (p \div 1) % 2
        /\ (f \div 2) % 2 = IF 2 = w THEN 1 - ((p \div 2) % 2) ELSE (p \div 2) % 2
        /\ (f \div 4) % 2 = IF 4 = w THEN 1 - ((p \div 4) % 2) ELSE (p \div 4) % 2
    <3>1. /\ f \in 0..(n - 1)
          /\ \A v \in {1, 2, 4} :
               (f \div v) % 2 = IF v = w THEN 1 - ((p \div v) % 2) ELSE (p \div v) % 2
      <4>1. w \in {1, 2, 4} /\ w < n /\ p \in 0..(n - 1) /\ n \in {4, 8}
        BY <1>3, <2>1
      <4>2. f \in 0..(n - 1)
        BY <4>1, OneBitTurns
      <4>3. ASSUME NEW v \in {1, 2, 4}
            PROVE  (f \div v) % 2 = IF v = w THEN 1 - ((p \div v) % 2) ELSE (p \div v) % 2
        BY <4>1, OneBitTurns
      <4> QED
        BY <4>2, <4>3
    <3> QED
      BY <3>1
  <2>3. /\ (p \div 1) % 2 \in {0, 1} /\ (p \div 2) % 2 \in {0, 1}
        /\ (p \div 4) % 2 \in {0, 1}
    <3>1. p \in 0..7
      BY <2>1
    <3> QED
      BY <3>1, BitsOfAPlace
  <2> HIDE DEF f
  <2>4. Bit(p, 1, 1)' = Bit(f, 1, 1)
    <3>1. Turned(1)' <=> IF w = 1 THEN ~Turned(1) ELSE Turned(1)
      BY <1>3, <1>6
    <3> QED
      BY <2>2, <2>3, <3>1 DEF Bit
  <2>5. Bit(p, 2, 2)' = Bit(f, 2, 2)
    <3>1. Turned(2)' <=> IF w = 2 THEN ~Turned(2) ELSE Turned(2)
      BY <1>3, <1>6
    <3> QED
      BY <2>2, <2>3, <3>1 DEF Bit
  <2>6. Bit(p, 4, 3)' = Bit(f, 4, 3)
    <3>1. Turned(3)' <=> IF w = 4 THEN ~Turned(3) ELSE Turned(3)
      BY <1>3, <1>6
    <3> QED
      BY <2>2, <2>3, <3>1 DEF Bit
  <2>7. Place(p)' = Place(f)
    BY <1>1, <2>4, <2>5, <2>6 DEF Place
  <2> QED
    BY <1>5, <2>1, <2>2, <2>7 DEF f
<1>8. ASSUME NEW p \in Span
      PROVE  mem'[p] = IF p < n THEN Place(p)' ELSE p
  <2>1. p \in Nat /\ n \in Nat
    BY <1>3, <1>5
  <2>2. CASE p < n
    <3>1. ~(p >= n)
      BY <2>1, <2>2
    <3>2. mem'[p] = mem[Neighbour(p, w)]
      BY <1>1, <3>1
    <3>3. /\ Neighbour(p, w) \in Span /\ Neighbour(p, w) < n
          /\ Place(p)' = Place(Neighbour(p, w))
      BY <1>7, <2>2
    <3> QED
      BY <1>4, <2>2, <3>2, <3>3
  <2>3. CASE p >= n
    BY <1>1, <1>4, <2>1, <2>3
  <2> QED
    BY <2>1, <2>2, <2>3
<1> QED
  BY <1>1, <1>4, <1>5, <1>8 DEF ValueInv

LEMMA ValueStep ==
  ASSUME TypeOK, ValueInv, [Next]_vars
  PROVE  ValueInv'
<1> SUFFICES ASSUME struct' = "uint" PROVE ValueInv'
  BY DEF ValueInv
<1>1. ASSUME UNCHANGED <<struct, is64, mem, inside>>,
             \A d \in 1..Len(Present) : Turned(d)' <=> Turned(d)
      PROVE  ValueInv'
  <2>1. Len(Present) = IF is64 THEN 3 ELSE 2
    BY <1>1, CallsOfAValue DEF Present, TypeOK
  <2>2. /\ Turned(1)' <=> Turned(1)
        /\ Turned(2)' <=> Turned(2)
        /\ is64 => (Turned(3)' <=> Turned(3))
    BY <1>1, <2>1
  <2>3. \A p \in Span : Place(p)' = Place(p)
    BY <1>1, <2>2 DEF Place, Bit
  <2> QED
    BY <1>1, <2>3, SameStructure DEF ValueInv
<1>2. CASE Convert
  <2>1. /\ todo = <<>> /\ rounds' = rounds + 1 /\ todo' = Present
        /\ UNCHANGED <<struct, is64, mem, inside>> /\ rounds \in Nat
    BY <1>2, RoundsAssumption DEF Convert, Present, TypeOK
  <2>2. Len(Present) \in Nat /\ Done = Len(Present) /\ Present' = Present
    BY <2>1, PresentCalls, SameStructure
  <2>3. Done' = 0
    BY <2>1, <2>2 DEF Done
  <2>4. rounds' - 1 = rounds
    BY <2>1
  <2>5. \A d \in 1..Len(Present) : Turned(d)' <=> Turned(d)
    <3>1. \A d \in 1..Len(Present) : d <= Done /\ ~(d <= Done')
      BY <2>2, <2>3
    <3> QED
      BY <2>4, <3>1 DEF Turned
  <2> QED
    BY <1>1, <2>1, <2>5
<1>3. CASE Exchange
  BY <1>3, ExchangeTurnsABit
<1>4. CASE Call
  <2>1. todo # <<>> /\ Head(todo).w = 0 /\ struct' = struct
    BY <1>4 DEF Call
  <2> QED
    BY <2>1, ReversalsAreInside
<1>5. CASE Swap \/ Return
  <2>1. inside /\ struct' = struct
    BY <1>5 DEF Swap, Return
  <2> QED
    BY <2>1 DEF ValueInv
<1>6. CASE UNCHANGED vars
  <2>1. UNCHANGED <<struct, is64, mem, rounds, todo, inside>>
    BY <1>6 DEF vars
  <2>2. \A d \in 1..Len(Present) : Turned(d)' <=> Turned(d)
    BY <2>1, SameStructure DEF Turned, Done
  <2> QED
    BY <1>1, <2>1, <2>2
<1> QED
  BY <1>2, <1>3, <1>4, <1>5, <1>6 DEF Next, Finished

\* The inductive invariant: types, the reversal under way, and the number of
\* times each call has been made.
THEOREM InvariantHolds == Spec => []IInv
<1>1. Init => IInv
  BY TypeInit, MirroredInit, TurnedInit, ValueInit DEF IInv
<1>2. IInv /\ [Next]_vars => IInv'
  BY TypeStep, MirroredStep, TurnedStep, ValueStep DEF IInv
<1> QED
  BY <1>1, <1>2, PTL DEF Spec

-----------------------------------------------------------------------------
(***************************************************************************)
(* What a reader of the structures finds.                                  *)
(***************************************************************************)
LEMMA BetweenConversions ==
  ASSUME IInv, todo = <<>>
  PROVE  /\ ~inside
         /\ \A c \in 1..Len(Present) : Turned(c) <=> rounds % 2 = 1
<1>1. ~inside /\ Done = Len(Present) /\ Len(Present) \in Nat
  BY PresentCalls DEF IInv, TypeOK
<1>2. \A c \in 1..Len(Present) : c <= Done
  BY <1>1
<1> QED
  BY <1>1, <1>2 DEF Turned

LEMMA ConvertedTwice == IInv => Restored
<1> SUFFICES ASSUME IInv, Even, NEW p \in Span PROVE mem[p] = p
  BY DEF Restored
<1>1. todo = <<>> /\ ~(rounds % 2 = 1)
  <2>1. todo = <<>> /\ rounds % 2 = 0
    BY DEF Even
  <2> QED
    BY <2>1
<1>2. ~inside /\ \A c \in 1..Len(Present) : ~Turned(c)
  BY <1>1, BetweenConversions
<1>3. CASE struct # "uint"
  BY <1>2, <1>3 DEF IInv, TurnedInv
<1>4. CASE struct = "uint"
  <2>1. SizeofStruct(struct, is64) = IF is64 THEN 8 ELSE 4
    BY <1>4 DEF SizeofStruct
  <2>2. Len(Present) = IF is64 THEN 3 ELSE 2
    BY <1>4, CallsOfAValue DEF Present, IInv, TypeOK
  <2>3. ASSUME p < SizeofStruct(struct, is64) PROVE Place(p) = p
    <3>1. p \in 0..7 /\ p < (IF is64 THEN 8 ELSE 4)
      BY <2>1, <2>3 DEF Span
    <3>2. ~Turned(1) /\ ~Turned(2) /\ (is64 => ~Turned(3))
      BY <1>2, <2>2
    <3> QED
      BY <3>1, <3>2, NothingTurned
  <2> QED
    BY <1>4, <2>3 DEF IInv, ValueInv
<1> QED
  BY <1>3, <1>4

LEMMA OutsideIsKept ==
  ASSUME IInv, NEW p \in Span, p >= SizeofStruct(struct, is64)
  PROVE  mem[p] = p
<1>1. SizeofStruct(struct, is64) \in Nat /\ p \in Nat
  BY SizesAreNaturals DEF IInv, TypeOK, Span
<1>2. ~(p < SizeofStruct(struct, is64))
  BY <1>1
<1>3. CASE struct # "uint"
  <2>1. \A c \in 1..Len(Present) : p \notin Field(c)
    BY <1>2, <1>3, FieldsAreApart DEF IInv
  <2>2. CASE ~inside
    BY <1>3, <2>1, <2>2 DEF IInv, TurnedInv
  <2>3. CASE inside
    <3> DEFINE at == Head(todo).at
               n  == Head(todo).n
    <3>1. todo # <<>> /\ Head(todo).w = 0 /\ TypeOK
      BY <2>3 DEF IInv, TypeOK
    <3>2. PICK c \in 1..Len(Present) : c = Done + 1
      BY <3>1, PresentCalls
    <3>3. at \in Nat /\ n \in Nat /\ p \notin at..(at + n - 1)
      BY <2>1, <3>1, <3>2, ReversalsAreInside
    <3>4. -1 <= i /\ i <= j /\ i + j = n - 1 /\ i \in Int /\ j \in Int
      BY <2>3, <3>1 DEF TypeOK
    <3>5. mem[p] = IF p \in at..(at + i) \/ p \in (at + j)..(at + n - 1)
                   THEN before[2 * at + n - 1 - p]
                   ELSE before[p]
      BY <2>3 DEF IInv, Mirrored
    <3> HIDE DEF at, n
    <3>6. p \notin at..(at + i) /\ p \notin (at + j)..(at + n - 1)
      BY <1>1, <3>3, <3>4
    <3>7. before[p] = p
      BY <1>3, <2>1, <2>3 DEF IInv, TurnedInv
    <3> QED
      BY <3>5, <3>6, <3>7
  <2> QED
    BY <2>2, <2>3
<1>4. CASE struct = "uint"
  BY <1>2, <1>4 DEF IInv, ValueInv
<1> QED
  BY <1>3, <1>4

LEMMA FieldsAreReversed ==
  ASSUME IInv, Odd, struct # "uint"
  PROVE  /\ \A c \in 1..Len(Present) : IsReversed(Present[c].at, Present[c].n)
         /\ \A p \in Span :
              (\A c \in 1..Len(Present) : p \notin Field(c)) => mem[p] = p
<1>1. ~inside /\ \A c \in 1..Len(Present) : Turned(c)
  BY BetweenConversions DEF Odd
<1>2. \A p \in Span :
        /\ \A c \in 1..Len(Present) :
             p \in Field(c) => mem[p] = IF Turned(c) THEN Mirror(c, p) ELSE p
        /\ (\A c \in 1..Len(Present) : p \notin Field(c)) => mem[p] = p
  BY <1>1 DEF IInv, TurnedInv
<1>3. ASSUME NEW c \in 1..Len(Present), NEW p \in Field(c)
      PROVE  mem[p] = Mirror(c, p)
  <2>1. p \in Span
    BY <1>3, FieldsAreApart DEF IInv
  <2> QED
    BY <1>1, <1>2, <2>1
<1> QED
  BY <1>2, <1>3 DEF IsReversed, Field, Mirror

LEMMA ValueIsReversed ==
  ASSUME IInv, Odd, struct = "uint"
  PROVE  IsReversed(0, IF is64 THEN 8 ELSE 4)
<1>1. SizeofStruct(struct, is64) = IF is64 THEN 8 ELSE 4
  BY DEF SizeofStruct
<1>2. Len(Present) = IF is64 THEN 3 ELSE 2
  BY CallsOfAValue DEF Present, IInv, TypeOK
<1>3. \A c \in 1..Len(Present) : Turned(c)
  BY BetweenConversions DEF Odd
<1>4. Turned(1) /\ Turned(2) /\ (is64 => Turned(3))
  BY <1>2, <1>3
<1> DEFINE n == IF is64 THEN 8 ELSE 4
<1>5. ASSUME NEW p \in 0..(0 + n - 1)
      PROVE  mem[p] = 2 * 0 + n - 1 - p
  <2>1. p \in 0..7 /\ p < n /\ p \in Span
    BY <1>1 DEF Span
  <2>2. Place(p) = (IF is64 THEN 7 ELSE 3) - p
    BY <1>4, <2>1, AllTurned
  <2>3. mem[p] = Place(p)
    BY <1>1, <2>1 DEF IInv, ValueInv
  <2> QED
    BY <2>2, <2>3
<1> QED
  BY <1>5 DEF IsReversed

LEMMA BytesBetweenAreKept ==
  ASSUME IInv, Odd, struct # "uint", NEW at \in Nat, NEW n \in Nat,
         at + n <= SizeofStruct(struct, is64) + 8,
         \A c \in 1..Len(Present) : \/ Present[c].at + Present[c].n <= at
                                    \/ at + n <= Present[c].at
  PROVE  IsKept(at, n)
<1> SUFFICES ASSUME NEW p \in at..(at + n - 1) PROVE mem[p] = p
  BY DEF IsKept
<1>1. p \in Span
  BY SizesAreNaturals DEF IInv, TypeOK, Span
<1>2. ASSUME NEW c \in 1..Len(Present) PROVE p \notin Field(c)
  <2>1. Present[c].at \in Nat /\ Present[c].n \in Nat
    BY FieldsAreApart DEF IInv
  <2>2. Present[c].at + Present[c].n <= at \/ at + n <= Present[c].at
    OBVIOUS
  <2>3. p \notin Present[c].at..(Present[c].at + Present[c].n - 1)
    BY <2>1, <2>2
  <2> QED
    BY <2>3 DEF Field
<1> QED
  BY <1>1, <1>2, FieldsAreReversed

LEMMA HeaderAndCommands ==
  ASSUME IInv, Odd
  PROVE  /\ struct = "header"  => IsReversed(16, 4) /\ IsKept(0, 16)
         /\ struct = "command" => IsReversed(0, 4) /\ IsReversed(4, 4)
         /\ struct = "symtab"  => /\ IsReversed(8, 4) /\ IsReversed(12, 4)
                                  /\ IsReversed(16, 4) /\ IsReversed(20, 4)
                                  /\ IsKept(0, 8)
<1>1. is64 \in BOOLEAN
  BY DEF IInv, TypeOK
<1>2. ASSUME struct = "header" PROVE IsReversed(16, 4) /\ IsKept(0, 16)
  <2>1. Present = swap_mach_header /\ SizeofStruct(struct, is64) = IF is64 THEN 32 ELSE 28
    BY <1>1, <1>2 DEF Present, Calls, SizeofStruct, SizeofHeader
  <2>2. Len(Present) = 1 /\ Present[1].at = 16 /\ Present[1].n = 4
    BY <2>1, PlainCalls DEF Reverse
  <2>3. /\ 0 + 16 <= SizeofStruct(struct, is64) + 8
        /\ \A c \in 1..Len(Present) : \/ Present[c].at + Present[c].n <= 0
                                      \/ 0 + 16 <= Present[c].at
    BY <2>1, <2>2
  <2>4. IsKept(0, 16)
    BY <1>2, <2>3, BytesBetweenAreKept
  <2> QED
    BY <1>2, <2>2, <2>4, FieldsAreReversed
<1>3. ASSUME struct = "command" PROVE IsReversed(0, 4) /\ IsReversed(4, 4)
  <2>1. Present = swap_loadcommand
    BY <1>3 DEF Present, Calls
  <2>2. /\ Len(Present) = 2 /\ Present[1].at = 0 /\ Present[1].n = 4
        /\ Present[2].at = 4 /\ Present[2].n = 4
    BY <2>1, PlainCalls DEF Reverse
  <2> QED
    BY <1>3, <2>2, FieldsAreReversed
<1>4. ASSUME struct = "symtab"
      PROVE  /\ IsReversed(8, 4) /\ IsReversed(12, 4)
             /\ IsReversed(16, 4) /\ IsReversed(20, 4) /\ IsKept(0, 8)
  <2>1. Present = swap_symtab /\ SizeofStruct(struct, is64) = 24
    BY <1>4 DEF Present, Calls, SizeofStruct, SizeofSymtab
  <2>2. /\ Len(Present) = 4 /\ Present[1].at = 8 /\ Present[1].n = 4
        /\ Present[2].at = 12 /\ Present[2].n = 4
        /\ Present[3].at = 16 /\ Present[3].n = 4
        /\ Present[4].at = 20 /\ Present[4].n = 4
    BY <2>1, PlainCalls DEF Reverse
  <2>3. IsKept(0, 8)
    BY <1>4, <2>1, <2>2, BytesBetweenAreKept
  <2> QED
    BY <1>4, <2>2, <2>3, FieldsAreReversed
<1> QED
  BY <1>2, <1>3, <1>4

LEMMA EntriesOfFatFiles ==
  ASSUME IInv, Odd, struct = "arch"
  PROVE  IF is64 THEN IsReversed(8, 8) /\ IsReversed(16, 8)
                 ELSE IsReversed(8, 4) /\ IsReversed(12, 4)
<1>1. is64 \in BOOLEAN /\ Present = swap_arch(is64)
  BY DEF IInv, TypeOK, Present, Calls
<1>2. CASE is64
  <2>1. /\ Len(Present) = 2 /\ Present[1].at = 8 /\ Present[1].n = 8
        /\ Present[2].at = 16 /\ Present[2].n = 8
    <3>1. /\ Len(swap_arch(is64)) = 2 /\ swap_arch(is64)[1] = Reverse(8, 8)
          /\ swap_arch(is64)[2] = Reverse(16, 8)
      BY <1>1, <1>2, ArchCalls
    <3> QED
      BY <1>1, <3>1 DEF Reverse
  <2> QED
    BY <1>2, <2>1, FieldsAreReversed
<1>3. CASE ~is64
  <2>1. /\ Len(Present) = 2 /\ Present[1].at = 8 /\ Present[1].n = 4
        /\ Present[2].at = 12 /\ Present[2].n = 4
    BY <1>1, <1>3, ArchCalls DEF Reverse
  <2> QED
    BY <1>3, <2>1, FieldsAreReversed
<1> QED
  BY <1>2, <1>3

LEMMA EntriesOfSymbolTables ==
  ASSUME IInv, Odd, struct = "nlist"
  PROVE  /\ IsReversed(0, 4) /\ IsKept(4, 1) /\ mem[5] = 6 /\ mem[6] = 5
         /\ IF is64 THEN IsReversed(7, 8) /\ mem[15] = 15
                    ELSE IsReversed(7, 4) /\ mem[11] = 11
<1>1. /\ is64 \in BOOLEAN /\ Present = swap_nlist(is64)
      /\ SizeofStruct(struct, is64) = IF is64 THEN 16 ELSE 12
  BY DEF IInv, TypeOK, Present, Calls, SizeofStruct, SizeofNlist
<1>2. /\ Len(Present) = 3 /\ Present[1].at = 0 /\ Present[1].n = 4
      /\ Present[2].at = 5 /\ Present[2].n = 2
      /\ Present[3].at = 7 /\ Present[3].n = IF is64 THEN 8 ELSE 4
  <2>1. /\ Len(swap_nlist(is64)) = 3 /\ swap_nlist(is64)[1] = Reverse(0, 4)
        /\ swap_nlist(is64)[2] = Reverse(5, 2)
        /\ swap_nlist(is64)[3] = Reverse(7, IF is64 THEN 8 ELSE 4)
    BY <1>1, NlistCalls
  <2> QED
    BY <1>1, <2>1 DEF Reverse
<1>3. /\ IsReversed(0, 4) /\ IsReversed(5, 2) /\ IsReversed(7, IF is64 THEN 8 ELSE 4)
  BY <1>2, FieldsAreReversed
<1>4. mem[5] = 6 /\ mem[6] = 5
  <2>1. /\ 5 \in 5..(5 + 2 - 1) /\ 6 \in 5..(5 + 2 - 1)
        /\ 2 * 5 + 2 - 1 - 5 = 6 /\ 2 * 5 + 2 - 1 - 6 = 5
    OBVIOUS
  <2> QED
    BY <1>3, <2>1 DEF IsReversed
<1>5. IsKept(4, 1)
  BY <1>1, <1>2, BytesBetweenAreKept
<1>6. CASE is64
  <2>1. IsKept(15, 1)
    <3>1. /\ 15 + 1 <= SizeofStruct(struct, is64) + 8
          /\ \A c \in 1..Len(Present) : \/ Present[c].at + Present[c].n <= 15
                                        \/ 15 + 1 <= Present[c].at
      <4>1. /\ SizeofStruct(struct, is64) = 16 /\ Len(Present) = 3
            /\ Present[1].at = 0 /\ Present[1].n = 4
            /\ Present[2].at = 5 /\ Present[2].n = 2
            /\ Present[3].at = 7 /\ Present[3].n = 8
        BY <1>1, <1>2, <1>6
      <4>2. \A c \in 1..3 : c = 1 \/ c = 2 \/ c = 3
        OBVIOUS
      <4> QED
        BY <4>1, <4>2
    <3> QED
      BY <3>1, BytesBetweenAreKept
  <2>2. 15 \in 15..(15 + 1 - 1)
    OBVIOUS
  <2> QED
    BY <1>3, <1>4, <1>5, <1>6, <2>1, <2>2 DEF IsKept
<1>7. CASE ~is64
  <2>1. IsKept(11, 1)
    BY <1>1, <1>2, <1>7, BytesBetweenAreKept
  <2>2. 11 \in 11..(11 + 1 - 1)
    OBVIOUS
  <2> QED
    BY <1>3, <1>4, <1>5, <1>7, <2>1, <2>2 DEF IsKept
<1> QED
  BY <1>6, <1>7

LEMMA Segments ==
  ASSUME IInv, Odd, struct = "segment"
  PROVE  IF is64 THEN IsKept(64, 4) ELSE IsKept(48, 4)
<1>1. /\ is64 \in BOOLEAN /\ Present = swap_segment_command(is64)
      /\ SizeofStruct(struct, is64) = IF is64 THEN 72 ELSE 56
  BY DEF IInv, TypeOK, Present, Calls, SizeofStruct, SizeofSegment
<1>2. Len(Present) = 1 /\ Present[1].at = (IF is64 THEN 50 ELSE 34) /\ Present[1].n = 4
  <2>1. /\ Len(swap_segment_command(is64)) = 1
        /\ swap_segment_command(is64)[1] = Reverse(IF is64 THEN 50 ELSE 34, 4)
    BY <1>1, SegmentCalls
  <2> QED
    BY <1>1, <2>1 DEF Reverse
<1>3. CASE is64
  <2>1. /\ 64 + 4 <= SizeofStruct(struct, is64) + 8
        /\ \A c \in 1..Len(Present) : \/ Present[c].at + Present[c].n <= 64
                                      \/ 64 + 4 <= Present[c].at
    <3>1. /\ SizeofStruct(struct, is64) = 72 /\ Len(Present) = 1
          /\ Present[1].at = 50 /\ Present[1].n = 4
      BY <1>1, <1>2, <1>3
    <3> QED
      BY <3>1
  <2> QED
    BY <1>3, <2>1, BytesBetweenAreKept
<1>4. CASE ~is64
  BY <1>1, <1>2, <1>4, BytesBetweenAreKept
<1> QED
  BY <1>3, <1>4

LEMMA SectionsOfSegments ==
  ASSUME IInv, Odd, struct = "section"
  PROVE  /\ IsKept(0, 4) /\ mem[4] \notin 4..5
         /\ IF is64 THEN IsKept(32, 20) ELSE IsKept(32, 12)
<1>1. /\ is64 \in BOOLEAN /\ Present = swap_section(is64)
      /\ SizeofStruct(struct, is64) = IF is64 THEN 80 ELSE 68
  BY DEF IInv, TypeOK, Present, Calls, SizeofStruct, SizeofSection
<1>2. CASE is64
  <2>1. /\ Len(Present) = 3 /\ Present[1].at = 4 /\ Present[1].n = 8
        /\ Present[2].at = 12 /\ Present[2].n = 8
        /\ Present[3].at = 20 /\ Present[3].n = 4
    <3>1. /\ Len(swap_section(is64)) = 3 /\ swap_section(is64)[1] = Reverse(4, 8)
          /\ swap_section(is64)[2] = Reverse(12, 8)
          /\ swap_section(is64)[3] = Reverse(20, 4)
      BY <1>1, <1>2, SectionCalls
    <3> QED
      BY <1>1, <3>1 DEF Reverse
  <2>2. IsKept(0, 4) /\ IsKept(32, 20)
    <3>1. /\ 0 + 4 <= SizeofStruct(struct, is64) + 8
          /\ \A c \in 1..Len(Present) : \/ Present[c].at + Present[c].n <= 0
                                        \/ 0 + 4 <= Present[c].at
          /\ 32 + 20 <= SizeofStruct(struct, is64) + 8
          /\ \A c \in 1..Len(Present) : \/ Present[c].at + Present[c].n <= 32
                                        \/ 32 + 20 <= Present[c].at
      <4>1. SizeofStruct(struct, is64) = 80
        BY <1>1, <1>2
      <4>2. \A c \in 1..3 : c = 1 \/ c = 2 \/ c = 3
        OBVIOUS
      <4> QED
        BY <2>1, <4>1, <4>2
    <3> QED
      BY <3>1, BytesBetweenAreKept
  <2>3. IsReversed(4, 8)
    BY <2>1, FieldsAreReversed
  <2>4. 4 \in 4..(4 + 8 - 1) /\ 2 * 4 + 8 - 1 - 4 = 11 /\ 11 \notin 4..5
    OBVIOUS
  <2> QED
    BY <1>2, <2>2, <2>3, <2>4 DEF IsReversed
<1>3. CASE ~is64
  <2>1. /\ Len(Present) = 3 /\ Present[1].at = 4 /\ Present[1].n = 4
        /\ Present[2].at = 8 /\ Present[2].n = 4
        /\ Present[3].at = 12 /\ Present[3].n = 4
    BY <1>1, <1>3, SectionCalls DEF Reverse
  <2>2. IsKept(0, 4) /\ IsKept(32, 12)
    <3>1. /\ 0 + 4 <= SizeofStruct(struct, is64) + 8
          /\ \A c \in 1..Len(Present) : \/ Present[c].at + Present[c].n <= 0
                                        \/ 0 + 4 <= Present[c].at
          /\ 32 + 12 <= SizeofStruct(struct, is64) + 8
          /\ \A c \in 1..Len(Present) : \/ Present[c].at + Present[c].n <= 32
                                        \/ 32 + 12 <= Present[c].at
      BY <1>1, <1>3, <2>1
    <3> QED
      BY <3>1, BytesBetweenAreKept
  <2>3. IsReversed(4, 4)
    BY <2>1, FieldsAreReversed
  <2>4. 4 \in 4..(4 + 4 - 1) /\ 2 * 4 + 4 - 1 - 4 = 7 /\ 7 \notin 4..5
    OBVIOUS
  <2> QED
    BY <1>3, <2>2, <2>3, <2>4 DEF IsReversed
<1> QED
  BY <1>2, <1>3

\* An even number of conversions leaves every structure as the file has it.
THEOREM TwiceIsNotAtAll == Spec => []Restored
BY InvariantHolds, ConvertedTwice, PTL

\* An odd number leaves in the host's order the fields the programs go on to
\* read, and nothing outside the structure ever moves.
THEOREM FieldsReadable == Spec => []FieldsConverted
<1>1. IInv => FieldsConverted
  <2> SUFFICES ASSUME IInv PROVE FieldsConverted
    OBVIOUS
  <2>1. \A p \in Span : p >= SizeofStruct(struct, is64) => mem[p] = p
    BY OutsideIsKept
  <2>2. ASSUME Odd, struct = "nlist" PROVE IsReversed(0, 4) /\ IsKept(4, 1)
    BY <2>2, EntriesOfSymbolTables
  <2> QED
    BY <2>1, <2>2, HeaderAndCommands, EntriesOfFatFiles, ValueIsReversed
    DEF FieldsConverted, Odd
<1> QED
  BY <1>1, InvariantHolds, PTL

\* What NmObject and Otool take a conversion to leave behind is what it leaves.
THEOREM ConversionsAsModelled == Spec => []AsModelled
<1>1. IInv => AsModelled
  <2> SUFFICES ASSUME IInv, Odd PROVE AsModelled
    BY DEF AsModelled
  <2> QED
    BY EntriesOfSymbolTables, Segments, SectionsOfSegments DEF AsModelled
<1> QED
  BY <1>1, InvariantHolds, PTL
=============================================================================
