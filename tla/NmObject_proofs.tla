-------------------------- MODULE NmObject_proofs --------------------------
(***************************************************************************)
(* Proofs about NmObject, for any set of objects.                          *)
(***************************************************************************)
EXTENDS NmObject, TLAPS

-----------------------------------------------------------------------------
(***************************************************************************)
(* What is read has the type of what is there.                             *)
(***************************************************************************)

\* A field of the file is a natural number, in whichever order it is read.
LEMMA ReadType == ASSUME NEW v \in Nat, NEW b \in BOOLEAN
                  PROVE  Read(v, b) \in Nat
<1>1. Far \in Nat
  BY FormatAssumption
<1>2. v * Far \in Nat
  BY <1>1
<1> QED
  BY <1>2 DEF Read

\* The sum of two numbers of sections is one.
LEMMA ModType == ASSUME NEW v \in Nat PROVE v % SizeMod \in Nat
  BY FormatAssumption

\* An int may be negative.
LEMMA ToIntType == ASSUME NEW v \in Nat PROVE ToInt(v) \in Int
  BY FormatAssumption DEF ToInt

LEMMA ObjectType == ASSUME file \in DOMAIN Objects PROVE IsObject(obj)
  BY ObjectsAssumption DEF obj

LEMMA CommandType == ASSUME NEW o, IsObject(o), NEW p PROVE IsCommand(LcAt(o, p))
<1>1. CASE p \in DOMAIN o.lc
  BY <1>1 DEF IsObject, LcAt
<1>2. CASE p \notin DOMAIN o.lc
  <2>1. NoCommand.secs \in Seq(STRING \X STRING)
    BY DEF NoCommand
  <2> QED
    BY <1>2, <2>1 DEF LcAt, NoCommand, IsCommand, Commands
<1> QED
  BY <1>1, <1>2

LEMMA EntryType == ASSUME NEW o, IsObject(o), NEW n PROVE IsEntry(NlAt(o, n))
<1>1. CASE n \in DOMAIN o.nl
  BY <1>1 DEF IsObject, NlAt
<1>2. CASE n \notin DOMAIN o.nl
  <2>1. 0 \in 0..(SizeMod - 1)
    BY FormatAssumption
  <2> QED
    BY <1>2, <2>1 DEF NlAt, NoEntry, IsEntry, Kinds
<1> QED
  BY <1>1, <1>2

\* Whatever swap_nlist makes of an entry, its letter is one of the letters.
LEMMA PreLetterType == ASSUME NEW e, e.kind \in Kinds PROVE PreLetter(e) \in Small
  BY DEF PreLetter, Kinds, Small

LEMMA SectionLetterType == ASSUME NEW names PROVE SectionLetter(names) \in Small
  BY DEF SectionLetter, Small

LEMMA CasedType == ASSUME NEW c \in Small, NEW ext PROVE Cased(c, ext) \in Letters
<1>1. CASE c = "-"
  BY <1>1 DEF Cased, Lowered, Small, Letters
<1>2. CASE c # "-"
  BY <1>2 DEF Cased, Lowered, Upper, Small, Letters
<1> QED
  BY <1>1, <1>2

LEMMA MemoryReads ==
  ASSUME TypeOK, NEW m \in Memory
  PROVE  /\ Ncmds(m) \in Nat
         /\ \A p \in Nat : Cmdsize(m, p) \in Nat /\ Nsects(p) \in Nat
         /\ \A n \in Nat : Strx(m, n) \in Int /\ IsEntry(NlAt(obj, n))
         /\ Symtab(m, "symoff") \in Nat /\ Symtab(m, "nsyms") \in Nat
         /\ Symtab(m, "stroff") \in Nat
<1>1. IsObject(obj)
  BY ObjectType DEF TypeOK
<1>2. obj.swap \in BOOLEAN /\ obj.ncmds \in Nat
  BY <1>1 DEF IsObject
<1>3. Ncmds(m) \in Nat
  BY <1>2, ReadType DEF Ncmds
<1>4. ASSUME NEW p \in Nat PROVE Cmdsize(m, p) \in Nat /\ Nsects(p) \in Nat
  <2>1. LcAt(obj, p).cmdsize \in Nat /\ Len(LcAt(obj, p).secs) \in Nat
    BY <1>1, CommandType DEF IsCommand
  <2> QED
    BY <1>2, <2>1, ReadType DEF Cmdsize, Nsects
<1>5. ASSUME NEW n \in Nat PROVE Strx(m, n) \in Int /\ IsEntry(NlAt(obj, n))
  <2>1. IsEntry(NlAt(obj, n))
    BY <1>1, EntryType
  <2>2. \A v \in 0..(SizeMod - 1) : v \in Nat
    OBVIOUS
  <2>3. NlAt(obj, n).strx \in Nat
    BY <2>1, <2>2 DEF IsEntry
  <2>4. Read(NlAt(obj, n).strx, n \in m.nl <=> obj.swap) \in Nat
    BY <2>3, ReadType
  <2> QED
    BY <2>1, <2>4, ToIntType DEF Strx
<1>6. /\ Symtab(m, "symoff") \in Nat /\ Symtab(m, "nsyms") \in Nat
      /\ Symtab(m, "stroff") \in Nat
  <2>1. IsCommand(LcAt(obj, lc))
    BY <1>1, CommandType
  <2>2. /\ LcAt(obj, lc)["symoff"] \in Nat /\ LcAt(obj, lc)["nsyms"] \in Nat
        /\ LcAt(obj, lc)["stroff"] \in Nat
    BY <2>1 DEF IsCommand
  <2> QED
    BY <1>2, <2>2, ReadType DEF Symtab
<1> QED
  BY <1>3, <1>4, <1>5, <1>6

\* swap_nlist moves the bytes of an entry, not its kind.
LEMMA EntryKept ==
  ASSUME TypeOK, NEW m, NEW n \in Nat
  PROVE  Entry(m, n).kind = NlAt(obj, n).kind /\ Entry(m, n).ext = NlAt(obj, n).ext
         /\ Entry(m, n).kind \in Kinds /\ Entry(m, n).sect \in 0..255
<1>1. IsEntry(NlAt(obj, n))
  BY ObjectType, EntryType DEF TypeOK
<1> QED
  BY <1>1 DEF IsEntry, Entry, Swapped

-----------------------------------------------------------------------------
(***************************************************************************)
(* Type correctness.                                                       *)
(***************************************************************************)

LEMMA TypeInit == Init => TypeOK
  BY DEF Init, TypeOK, Untouched, Pcs, Ends, Small, Memory, Walker

LEMMA TypeStep == TypeOK /\ [Next]_vars => TypeOK'
<1> SUFFICES ASSUME TypeOK, [Next]_vars PROVE TypeOK'
  OBVIOUS
<1>o. IsObject(obj) /\ obj.swap \in BOOLEAN /\ obj.is64 \in BOOLEAN
      /\ obj.base \in Nat /\ mem \in Memory
  BY ObjectType DEF TypeOK, IsObject
<1>h. SizeofHeader(obj.is64) \in Nat
  BY DEF SizeofHeader
<1>1. CASE StartReject
  BY <1>1 DEF StartReject, TypeOK, Pcs, Ends, obj
<1>2. CASE StartWalk
  <2> DEFINE m == [mem EXCEPT !.ncmds = (@ # obj.swap)]
  <2>1. m \in Memory
    BY <1>o DEF Memory
  <2>2. ncmds' \in Nat
    BY <1>2, <2>1, MemoryReads DEF StartWalk
  <2> QED
    BY <1>2, <1>o, <1>h, <2>1, <2>2 DEF StartWalk, TypeOK, Pcs, Ends
<1>3. CASE WalkEnd
  BY <1>3 DEF WalkEnd, TypeOK, Pcs, Ends
<1>c. ConvertCommand \in Memory
  BY <1>o DEF ConvertCommand, Toggle, TypeOK, Memory
<1>4. CASE WalkSkip
  <2>1. Cmdsize(ConvertCommand, lc) \in Nat
    BY <1>c, MemoryReads DEF TypeOK
  <2> QED
    BY <1>4, <1>c, <2>1 DEF WalkSkip, TypeOK
<1>5. CASE WalkSymtab
  <2>1. mem' \in Memory
    BY <1>5, <1>c, <1>o DEF WalkSymtab, Memory
  <2> QED
    BY <1>5, <2>1 DEF WalkSymtab, TypeOK, Pcs, Ends
<1>6. CASE SymsEnd
  BY <1>6 DEF SymsEnd, TypeOK, Pcs, Ends
<1>7. CASE SymReject
  BY <1>7 DEF SymReject, TypeOK, Pcs, Ends
<1>8. CASE SymStart
  <2> DEFINE m == IF obj.swap THEN [mem EXCEPT !.nl = Toggle(@, k)] ELSE mem
  <2>1. m \in Memory
    BY <1>o DEF Toggle, TypeOK, Memory
  <2>2. ncmds' \in Nat
    BY <1>8, <2>1, MemoryReads DEF SymStart
  <2>3. letter' \in Small
    BY <1>8, EntryKept, PreLetterType DEF SymStart, TypeOK
  <2> QED
    BY <1>8, <1>o, <1>h, <2>1, <2>2, <2>3 DEF SymStart, TypeOK, Pcs, Ends, Walker
<1>s. Cmdsize(mem, h.lc) \in Nat /\ Nsects(h.lc) \in Nat
  BY <1>o, MemoryReads DEF TypeOK, Walker
<1>9. CASE SectSkip
  <2>1. h' \in Walker
    <3>1. h \in Walker /\ h.i + 1 \in Nat /\ h.lc + Cmdsize(mem, h.lc) \in Nat
          /\ Sections \in Nat
      <4>1. h.count + Nsects(h.lc) \in Nat
        BY <1>s DEF TypeOK, Walker
      <4>2. Sections \in Nat
        BY <4>1, ModType DEF Sections
      <4> QED
        BY <1>s, <4>2 DEF TypeOK, Walker
    <3>2. CASE Cmd(mem, h.lc) = "SEGMENT"
      BY <1>9, <3>1, <3>2 DEF SectSkip, Walker
    <3>3. CASE Cmd(mem, h.lc) # "SEGMENT"
      BY <1>9, <3>1, <3>3 DEF SectSkip, Walker
    <3> QED
      BY <3>2, <3>3
  <2> QED
    BY <1>9, <2>1 DEF SectSkip, TypeOK
<1>10. CASE SectHit
  <2>1. Index \in Nat
    <3>1. \A n \in 0..255 : n \in Nat
      OBVIOUS
    <3> QED
      BY <3>1, EntryKept DEF Index, TypeOK
  <2> QED
    BY <1>10, <2>1 DEF SectHit, TypeOK, Pcs, Ends, Walker
<1>11. CASE SectWild
  BY <1>11 DEF SectWild, TypeOK, Pcs, Ends
<1>12. CASE SectNone
  BY <1>12 DEF SectNone, TypeOK, Pcs, Ends
<1>13. CASE SectLetter
  <2>1. letter' \in Small
    <3>1. "s" \in Small
      BY DEF Small
    <3> QED
      BY <1>13, <3>1, SectionLetterType DEF SectLetter
  <2>2. mem' \in Memory
    BY <1>13, <1>o DEF SectLetter, Toggle, TypeOK, Memory
  <2> QED
    BY <1>13, <2>1, <2>2 DEF SectLetter, TypeOK, Pcs, Ends
<1>17. CASE SectAstray
  <2>1. mem' \in Memory
    <3> DEFINE L == {ptr \in mem.lc : ~Reverses(ptr, SizeofCommand)}
               S == mem.sym /\ ~Reverses(lc + SizeofCommand, SizeofSymtab - SizeofCommand)
               N == {n \in mem.nl : ~Reverses(NlistAt(mem, n), SizeofNlist(obj.is64))}
    <3>1. L \in SUBSET Nat /\ N \in SUBSET Nat /\ S \in BOOLEAN
      BY <1>o DEF Memory
    <3>2. mem' = [mem EXCEPT !.lc = L, !.sym = S, !.nl = N]
      BY <1>17 DEF SectAstray
    <3> HIDE DEF L, S, N
    <3> QED
      BY <1>o, <3>1, <3>2 DEF Memory
  <2> QED
    BY <1>17, <2>1 DEF SectAstray, TypeOK, Pcs, Ends
<1>14. CASE AddSymbol
  <2>1. NameAt \in Nat
    <3>1. Symtab(mem, "stroff") \in Nat /\ Strx(mem, k) \in Int
      BY <1>o, MemoryReads DEF TypeOK
    <3>2. NameAt \in Int /\ 0 <= NameAt
      BY <1>14, <1>o, <3>1 DEF AddSymbol, NameAt, StringTable, is_safe
    <3> QED
      BY <3>2
  <2>2. Cased(letter, Entry(mem, k).ext) \in Letters
    BY CasedType DEF TypeOK
  <2>3. [sym |-> k, letter |-> Cased(letter, Entry(mem, k).ext), name |-> NameAt] \in Node
    BY <2>1, <2>2 DEF Node, TypeOK
  <2> QED
    BY <1>14, <2>3 DEF AddSymbol, add_list, TypeOK, Pcs, Ends
<1>15. CASE NameReject
  BY <1>15 DEF NameReject, TypeOK, Pcs, Ends
<1>16. CASE Finished \/ UNCHANGED vars
  BY <1>16 DEF Finished, vars, TypeOK
<1> QED
  BY <1>1, <1>2, <1>3, <1>4, <1>5, <1>6, <1>7, <1>8, <1>9, <1>10, <1>11,
     <1>12, <1>13, <1>14, <1>15, <1>16, <1>17 DEF Next

\* Every variable keeps its type: in particular no walk leaves the natural
\* numbers, whatever the sizes, counts and offsets of the file.
THEOREM TypeCorrect == Spec => []TypeOK
  BY TypeInit, TypeStep, PTL DEF Spec

-----------------------------------------------------------------------------
(***************************************************************************)
(* The inductive invariant.                                                *)
(***************************************************************************)

LEMMA SameObject == [Next]_vars => obj' = obj
<1> SUFFICES ASSUME [Next]_vars PROVE file' = file
  BY DEF obj
<1> QED
  BY DEF Next, vars, StartReject, StartWalk, WalkEnd, WalkSkip, WalkSymtab, SymsEnd,
         SymReject, SymStart, SectSkip, SectHit, SectWild, SectNone, SectLetter,
         SectAstray, AddSymbol, NameReject, Finished

\* Nothing is reversed in an object of the host's order.
LEMMA HostMemory ==
  ASSUME TypeOK, ~obj.swap, mem = Untouched
  PROVE  /\ ConvertCommand = mem
         /\ [mem EXCEPT !.ncmds = (@ # obj.swap)] = mem
         /\ [mem EXCEPT !.sym = (@ # obj.swap)] = mem
<1>1. obj.swap = FALSE
  BY ObjectType DEF TypeOK, IsObject
<1> QED
  BY <1>1 DEF ConvertCommand, Untouched

LEMMA HeaderInit == Init => HeaderInv
  BY DEF Init, HeaderInv, Active

LEMMA HeaderStep == TypeOK /\ HeaderInv /\ [Next]_vars => HeaderInv'
<1> SUFFICES ASSUME TypeOK, HeaderInv, [Next]_vars PROVE HeaderInv'
  OBVIOUS
<1>o. obj' = obj /\ obj.swap \in BOOLEAN /\ mem \in Memory /\ IsObject(obj)
  BY SameObject, ObjectType DEF TypeOK, IsObject
<1>1. CASE StartReject \/ WalkEnd \/ SymsEnd \/ SymReject \/ NameReject \/ SectWild
  BY <1>1, <1>o DEF StartReject, WalkEnd, SymsEnd, SymReject, NameReject, SectWild,
                    HeaderInv, Active
<1>2. CASE StartWalk
  <2> DEFINE m == [mem EXCEPT !.ncmds = (@ # obj.swap)]
  <2>1. mem = Untouched /\ list = <<>> /\ k' = k
    BY <1>2 DEF StartWalk, HeaderInv
  <2>2. m.ncmds = obj.swap
    BY <1>o, <2>1 DEF Untouched
  <2>3. ncmds' = obj.ncmds
    BY <1>2, <2>2 DEF StartWalk, Ncmds, Read
  <2>4. mem' = m /\ list' = <<>> /\ pc' = "walk"
    BY <1>2, <2>1 DEF StartWalk
  <2>5. k' = 0
    BY <1>2 DEF StartWalk, HeaderInv
  <2>6. ~obj.swap => m = Untouched
    BY <2>1, HostMemory
  <2> QED
    BY <1>o, <2>2, <2>3, <2>4, <2>5, <2>6 DEF HeaderInv, Active
<1>3. CASE WalkSkip \/ WalkSymtab
  <2>1. mem'.ncmds = mem.ncmds
    BY <1>3, <1>o DEF WalkSkip, WalkSymtab, ConvertCommand, Memory
  <2>2. ~obj.swap => mem' = mem
    BY <1>3, HostMemory DEF WalkSkip, WalkSymtab, HeaderInv
  <2>3. pc' # "start" /\ (pc' = "walk" => k' = k /\ list' = list) /\ ncmds' = ncmds
        /\ pc = "walk"
    BY <1>3 DEF WalkSkip, WalkSymtab, CanWalk
  <2> QED
    BY <1>o, <2>1, <2>2, <2>3 DEF HeaderInv, Active
<1>4. CASE SymStart
  <2> DEFINE m == IF obj.swap THEN [mem EXCEPT !.nl = Toggle(@, k)] ELSE mem
  <2>1. m.ncmds = obj.swap /\ (~obj.swap => m = Untouched)
    BY <1>4, <1>o DEF SymStart, HeaderInv, Active, Memory
  <2>2. ncmds' = obj.ncmds
    BY <1>4, <2>1 DEF SymStart, Ncmds, Read
  <2>3. mem' = m /\ pc' \in {"sect", "name"}
    BY <1>4 DEF SymStart
  <2> QED
    BY <1>o, <2>1, <2>2, <2>3 DEF HeaderInv, Active
<1>5. CASE SectSkip \/ SectHit \/ SectNone \/ AddSymbol
  BY <1>5, <1>o DEF SectSkip, SectHit, SectNone, AddSymbol, CanSeek, HeaderInv, Active
<1>6. CASE SectLetter
  <2>1. mem'.ncmds = mem.ncmds /\ (~obj.swap => mem' = mem)
    BY <1>6, <1>o DEF SectLetter, Memory
  <2> QED
    BY <1>6, <1>o, <2>1 DEF SectLetter, HeaderInv, Active
<1>7. CASE Finished \/ UNCHANGED vars
  BY <1>7, <1>o DEF Finished, vars, HeaderInv, Active
<1>8. CASE SectAstray
  BY <1>8, <1>o DEF SectAstray, Astray, HeaderInv, Active
<1> QED
  BY <1>1, <1>2, <1>3, <1>4, <1>5, <1>6, <1>7, <1>8 DEF Next

LEMMA WalkInit == Init => WalkInv
  BY DEF Init, WalkInv, Active

\* The only steps that move the first walk or convert a command.
LEMMA WalkStep == TypeOK /\ HeaderInv /\ WalkInv /\ [Next]_vars => WalkInv'
<1> SUFFICES ASSUME TypeOK, HeaderInv, WalkInv, [Next]_vars,
                    Active', obj.swap => Sizes(obj)
             PROVE  WalkInv'
  BY SameObject DEF WalkInv
<1>o. obj' = obj /\ obj.swap \in BOOLEAN /\ mem \in Memory /\ IsObject(obj)
  BY SameObject, ObjectType DEF TypeOK, IsObject
<1>1. CASE StartWalk
  <2>1. ncmds' = obj.ncmds
    <3>1. mem = Untouched
      BY <1>1 DEF StartWalk, HeaderInv
    <3>2. [mem EXCEPT !.ncmds = (@ # obj.swap)].ncmds = obj.swap
      BY <1>o, <3>1 DEF Untouched
    <3> QED
      BY <1>1, <3>2 DEF StartWalk, Ncmds, Read
  <2>2. i' = 0 /\ lc' = obj.off[0] /\ pc' = "walk"
    BY <1>1, <1>o DEF StartWalk, IsObject
  <2>3. mem'.lc = {}
    BY <1>1, <1>o DEF StartWalk, HeaderInv, Untouched, Memory
  <2> QED
    BY <1>o, <2>1, <2>2, <2>3 DEF WalkInv, IsObject
<1>2. CASE WalkSkip
  <2> DEFINE c == LcAt(obj, lc)
  <2>1. pc = "walk" /\ pc' = "walk" /\ i < ncmds /\ ncmds' = ncmds /\ i' = i + 1
        /\ mem' = ConvertCommand /\ lc' = lc + Cmdsize(ConvertCommand, lc)
    BY <1>2 DEF WalkSkip, CanWalk
  <2>2. i \in 0..ncmds /\ lc = obj.off[i] /\ ncmds = obj.ncmds /\ i \in Nat /\ lc \in Nat
    BY <2>1 DEF WalkInv, HeaderInv, Active, TypeOK
  <2>3. obj.off[i + 1] = lc + c.cmdsize /\ c.cmdsize \in Nat
    <3>1. i \in 0..(obj.ncmds - 1)
      BY <1>o, <2>1, <2>2 DEF IsObject
    <3>2. IsCommand(c)
      BY <1>o, CommandType
    <3> QED
      BY <1>o, <2>2, <3>1, <3>2 DEF IsObject, IsCommand
  <2>4. obj.swap /\ lc \in DOMAIN obj.lc => lc \notin mem.lc
    BY <1>o, <2>1, <2>2 DEF WalkInv, Active
  <2>5. obj.swap => ConvertCommand.lc = Toggle(mem.lc, lc)
    BY <1>o DEF ConvertCommand, Memory
  <2>6. Cmdsize(ConvertCommand, lc) = c.cmdsize
    <3>1. CASE ~obj.swap
      <4>1. lc \notin ConvertCommand.lc
        BY <3>1, HostMemory DEF HeaderInv, Untouched
      <4> QED
        BY <1>o, <3>1, <4>1 DEF Cmdsize, Read
    <3>2. CASE obj.swap /\ lc \in DOMAIN obj.lc
      <4>1. lc \in ConvertCommand.lc
        BY <2>4, <2>5, <3>2 DEF Toggle
      <4> QED
        BY <1>o, <3>2, <4>1 DEF Cmdsize, Read
    <3>3. CASE lc \notin DOMAIN obj.lc
      <4>1. c.cmdsize = 0
        BY <3>3 DEF LcAt, NoCommand
      <4>2. 0 * Far = 0
        BY FormatAssumption
      <4> QED
        BY <4>1, <4>2 DEF Cmdsize, Read
    <3> QED
      BY <3>1, <3>2, <3>3
  <2>7. lc' = obj.off[i'] /\ i' \in 0..ncmds'
    BY <2>1, <2>2, <2>3, <2>6, <1>o DEF IsObject
  <2>8. ASSUME obj.swap
        PROVE  /\ \A j \in 0..(i' - 1) :
                    obj.off[j] <= lc' /\ (lc' \in DOMAIN obj.lc => obj.off[j] < lc')
               /\ \A p \in DOMAIN obj.lc :
                    p \in mem'.lc <=> \E j \in 0..(i' - 1) : obj.off[j] = p
    <3>1. lc \in DOMAIN obj.lc => c.cmdsize > 0
      BY <2>8 DEF Sizes, LcAt
    <3>2. lc \notin DOMAIN obj.lc => lc' = lc
      BY <2>1, <2>2, <2>6 DEF LcAt, NoCommand
    <3>3. lc <= lc' /\ (lc' \in DOMAIN obj.lc => lc < lc')
      <4>1. lc' = lc + c.cmdsize
        BY <2>1, <2>6
      <4> QED
        BY <2>2, <2>3, <3>1, <3>2, <4>1
    <3>4. \A j \in 0..(i - 1) : obj.off[j] <= lc
      BY <2>1, <2>8 DEF WalkInv, Active
    <3>5. \A j \in 0..(i' - 1) : j = i \/ j \in 0..(i - 1)
      BY <2>1, <2>2
    <3>6. \A j \in 0..(i' - 1) : obj.off[j] \in Nat
      <4>1. \A j \in 0..(i' - 1) : j \in 0..obj.ncmds
        BY <2>1, <2>2, <1>o DEF IsObject
      <4> QED
        BY <4>1, <1>o DEF IsObject
    <3>7. \A j \in 0..(i' - 1) :
            obj.off[j] <= lc' /\ (lc' \in DOMAIN obj.lc => obj.off[j] < lc')
      <4>1. lc' \in Nat
        BY <2>1, <2>2, <2>3, <2>6
      <4> QED
        BY <2>2, <3>3, <3>4, <3>5, <3>6, <4>1
    <3>8. ASSUME NEW p \in DOMAIN obj.lc
          PROVE  p \in mem'.lc <=> \E j \in 0..(i' - 1) : obj.off[j] = p
      <4>1. p \in mem.lc <=> \E j \in 0..(i - 1) : obj.off[j] = p
        BY <2>1, <2>8 DEF WalkInv, Active
      <4>2. p \in mem'.lc <=> p = lc \/ p \in mem.lc
        BY <2>1, <2>4, <2>5, <2>8 DEF Toggle
      <4>3. i \in 0..(i' - 1) /\ (\A j \in 0..(i - 1) : j \in 0..(i' - 1))
        BY <2>1, <2>2
      <4> QED
        BY <2>2, <3>5, <4>1, <4>2, <4>3
    <3> QED
      BY <3>7, <3>8
  <2> QED
    BY <1>o, <2>1, <2>7, <2>8 DEF WalkInv
<1>3. CASE WalkSymtab
  <2>1. pc = "walk" /\ pc' = "syms" /\ i < ncmds /\ ncmds' = ncmds /\ i' = i /\ lc' = lc
    BY <1>3 DEF WalkSymtab, CanWalk, Active
  <2>2. i \in 0..ncmds /\ lc = obj.off[i] /\ i \in Nat /\ lc \in Nat
    BY <2>1 DEF WalkInv, Active, TypeOK
  <2>3. ASSUME obj.swap
        PROVE  \A p \in DOMAIN obj.lc :
                 p \in mem'.lc <=> \E j \in 0..i : obj.off[j] = p
    <3>1. mem'.lc = Toggle(mem.lc, lc)
      BY <1>3, <1>o, <2>3 DEF WalkSymtab, ConvertCommand, Memory
    <3>2. lc \in DOMAIN obj.lc => lc \notin mem.lc
      BY <1>o, <2>1, <2>2, <2>3 DEF WalkInv, Active
    <3>3. SUFFICES ASSUME NEW p \in DOMAIN obj.lc
                   PROVE  p \in mem'.lc <=> \E j \in 0..i : obj.off[j] = p
      OBVIOUS
    <3>4. p \in mem.lc <=> \E j \in 0..(i - 1) : obj.off[j] = p
      BY <2>1, <2>3 DEF WalkInv, Active
    <3>5. p \in mem'.lc <=> p = lc \/ p \in mem.lc
      BY <3>1, <3>2 DEF Toggle
    <3>6. i \in 0..i /\ \A j \in 0..i : j = i \/ j \in 0..(i - 1)
      BY <2>2
    <3>7. \A j \in 0..(i - 1) : j \in 0..i
      BY <2>2
    <3> QED
      BY <2>2, <3>4, <3>5, <3>6, <3>7
  <2>4. obj.swap => \A j \in 0..(i - 1) :
           obj.off[j] <= lc /\ (lc \in DOMAIN obj.lc => obj.off[j] < lc)
    BY <2>1 DEF WalkInv, Active
  <2> QED
    BY <1>o, <2>1, <2>2, <2>3, <2>4 DEF WalkInv
<1>4. CASE SymStart \/ SectSkip \/ SectHit \/ SectNone \/ SectLetter \/ AddSymbol
  <2>1. pc \in {"syms", "sect", "letter", "name"}
        /\ pc' \in {"syms", "sect", "letter", "name"}
    BY <1>4 DEF SymStart, SectSkip, SectHit, SectNone, SectLetter, AddSymbol, CanSeek
  <2>2. i' = i /\ lc' = lc
    BY <1>4 DEF SymStart, SectSkip, SectHit, SectNone, SectLetter, AddSymbol
  <2>3. ncmds' = ncmds
    <3>1. HeaderInv' /\ Active
      BY <2>1, HeaderStep DEF Active
    <3> QED
      BY <1>o, <3>1 DEF HeaderInv
  <2>4. mem'.lc = mem.lc
    BY <1>4, <1>o DEF SymStart, SectSkip, SectHit, SectNone, SectLetter, AddSymbol, Memory
  <2>5. WalkInv /\ Active /\ (obj.swap => Sizes(obj)) /\ pc # "walk" /\ pc' # "walk"
    BY <2>1 DEF Active
  <2> QED
    BY <1>o, <2>2, <2>3, <2>4, <2>5 DEF WalkInv
<1>5. CASE UNCHANGED vars
  BY <1>5, <1>o DEF vars, WalkInv, Active
<1>6. CASE \/ StartReject \/ WalkEnd \/ SymsEnd \/ SymReject \/ SectWild \/ SectAstray
           \/ NameReject \/ Finished
  BY <1>6 DEF StartReject, WalkEnd, SymsEnd, SymReject, SectWild, SectAstray, NameReject,
              Finished, Ends, vars, Active
<1> QED
  BY <1>1, <1>2, <1>3, <1>4, <1>5, <1>6 DEF Next

\* In the host's order every field is read as it is in the file.
LEMMA HostReads ==
  ASSUME TypeOK, HeaderInv, ~obj.swap
  PROVE  /\ mem = Untouched
         /\ \A p : Cmd(mem, p) = LcAt(obj, p).cmd /\ Cmdsize(mem, p) = LcAt(obj, p).cmdsize
                  /\ Nsects(p) = Len(LcAt(obj, p).secs)
         /\ \A n : Entry(mem, n) = NlAt(obj, n) /\ Strx(mem, n) = ToInt(NlAt(obj, n).strx)
         /\ Symtab(mem, "symoff") = LcAt(obj, lc).symoff
         /\ Symtab(mem, "nsyms") = LcAt(obj, lc).nsyms
         /\ Symtab(mem, "stroff") = LcAt(obj, lc).stroff
         /\ ConvertCommand = mem
<1>1. obj.swap = FALSE
  BY ObjectType DEF TypeOK, IsObject
<1>2. mem = Untouched
  BY DEF HeaderInv
<1>3. ASSUME NEW p
      PROVE  Cmd(mem, p) = LcAt(obj, p).cmd /\ Cmdsize(mem, p) = LcAt(obj, p).cmdsize
             /\ Nsects(p) = Len(LcAt(obj, p).secs)
  <2>1. p \notin mem.lc
    BY <1>2 DEF Untouched
  <2> QED
    BY <1>1, <2>1 DEF Cmd, Cmdsize, Nsects, Read
<1>4. ASSUME NEW n
      PROVE  Entry(mem, n) = NlAt(obj, n) /\ Strx(mem, n) = ToInt(NlAt(obj, n).strx)
  <2>1. n \notin mem.nl
    BY <1>2 DEF Untouched
  <2> QED
    BY <1>1, <2>1 DEF Entry, Strx, Read
<1>5. /\ Symtab(mem, "symoff") = LcAt(obj, lc).symoff
      /\ Symtab(mem, "nsyms") = LcAt(obj, lc).nsyms
      /\ Symtab(mem, "stroff") = LcAt(obj, lc).stroff
  BY <1>1, <1>2 DEF Untouched, Symtab, Read
<1> QED
  BY <1>2, <1>3, <1>4, <1>5, HostMemory

LEMMA SymtabInit == Init => SymtabInv
  BY DEF Init, SymtabInv, Active

LEMMA SymtabStep == TypeOK /\ HeaderInv /\ WalkInv /\ SymtabInv /\ [Next]_vars => SymtabInv'
<1> SUFFICES ASSUME TypeOK, HeaderInv, WalkInv, SymtabInv, [Next]_vars,
                    Active', ~obj.swap
             PROVE  SymtabInv'
  BY SameObject DEF SymtabInv
<1>o. obj' = obj
  BY SameObject
<1>1. CASE StartWalk
  <2>1. pc' = "walk" /\ i' = 0 /\ HeaderSafe(obj)
    BY <1>1 DEF StartWalk
  <2> QED
    BY <1>o, <2>1 DEF SymtabInv
<1>2. CASE WalkSkip
  <2>1. pc = "walk" /\ pc' = "walk" /\ i' = i + 1 /\ i < ncmds
        /\ is_safe(lc + SizeofCommand, obj.size) /\ Cmd(ConvertCommand, lc) # "SYMTAB"
    BY <1>2 DEF WalkSkip, CanWalk
  <2>2. lc = obj.off[i] /\ i \in Nat
    BY <2>1 DEF WalkInv, Active, TypeOK
  <2>3. LcAt(obj, obj.off[i]).cmd # "SYMTAB"
    BY <2>1, <2>2, HostReads
  <2>4. \A j \in 0..(i' - 1) : j = i \/ j \in 0..(i - 1)
    BY <2>1, <2>2
  <2> QED
    BY <1>o, <2>1, <2>2, <2>3, <2>4 DEF SymtabInv, Active
<1>3. CASE WalkSymtab
  <2>1. pc = "walk" /\ pc' = "syms" /\ i' = i /\ lc' = lc
        /\ is_safe(lc + SizeofCommand, obj.size) /\ Cmd(ConvertCommand, lc) = "SYMTAB"
        /\ is_safe(lc + SizeofSymtab, obj.size)
    BY <1>3 DEF WalkSymtab, CanWalk, Active
  <2>2. LcAt(obj, lc).cmd = "SYMTAB"
    BY <2>1, HostReads
  <2> QED
    BY <1>o, <2>1, <2>2 DEF SymtabInv, Active
<1>4. CASE SymStart \/ SectSkip \/ SectHit \/ SectNone \/ SectLetter \/ AddSymbol
  <2>1. pc \in {"syms", "sect", "letter", "name"} /\ i' = i /\ lc' = lc
    BY <1>4 DEF SymStart, SectSkip, SectHit, SectNone, SectLetter, AddSymbol, CanSeek
  <2> QED
    BY <1>o, <2>1 DEF SymtabInv, Active
<1>5. CASE UNCHANGED vars
  BY <1>5, <1>o DEF vars, SymtabInv, Active
<1>6. CASE \/ StartReject \/ WalkEnd \/ SymsEnd \/ SymReject \/ SectWild \/ SectAstray
           \/ NameReject \/ Finished
  BY <1>6 DEF StartReject, WalkEnd, SymsEnd, SymReject, SectWild, SectAstray, NameReject,
              Finished, Ends, vars, Active
<1> QED
  BY <1>1, <1>2, <1>3, <1>4, <1>5, <1>6 DEF Next

LEMMA SeekInit == Init => SeekInv
  BY DEF Init, SeekInv

LEMMA SeekStep == TypeOK /\ HeaderInv /\ WalkInv /\ SeekInv /\ [Next]_vars => SeekInv'
<1> SUFFICES ASSUME TypeOK, HeaderInv, WalkInv, SeekInv, [Next]_vars,
                    pc' \in {"sect", "letter"},
                    obj.swap => Sizes(obj) /\ h'.i <= i' + 1
             PROVE  SeekInv'
  BY SameObject DEF SeekInv
<1>o. obj' = obj /\ IsObject(obj) /\ obj.swap \in BOOLEAN /\ h \in Walker
  BY SameObject, ObjectType DEF TypeOK, IsObject
<1>n. HeaderInv' /\ Active' /\ ncmds' = obj.ncmds
  BY <1>o, HeaderStep DEF HeaderInv, Active
<1>1. CASE SymStart
  <2>1. pc' = "sect" /\ h' = [i |-> 0, count |-> 0, lc |-> obj.base + SizeofHeader(obj.is64)]
    BY <1>1 DEF SymStart
  <2>2. h'.lc = obj.off[0] /\ h'.count = obj.first[0] /\ h'.i = 0 /\ 0 \in 0..ncmds'
    BY <1>o, <1>n, <2>1 DEF IsObject
  <2> QED
    BY <1>o, <2>1, <2>2 DEF SeekInv
<1>2. CASE SectSkip
  <2> DEFINE c == LcAt(obj, h.lc)
  <2>1. pc = "sect" /\ pc' = "sect" /\ h.i < ncmds /\ ncmds' = ncmds /\ i' = i /\ k' = k
        /\ h'.i = h.i + 1 /\ h'.lc = h.lc + Cmdsize(mem, h.lc)
    <3>1. CanSeek /\ UNCHANGED <<pc, ncmds, i, k>>
      BY <1>2 DEF SectSkip
    <3>2. h'.i = h.i + 1 /\ h'.lc = h.lc + Cmdsize(mem, h.lc)
      <4>1. CASE Cmd(mem, h.lc) = "SEGMENT"
        BY <1>2, <4>1 DEF SectSkip
      <4>2. CASE Cmd(mem, h.lc) # "SEGMENT"
        BY <1>2, <1>o, <4>2 DEF SectSkip, Walker
      <4> QED
        BY <4>1, <4>2
    <3> QED
      BY <3>1, <3>2 DEF CanSeek
  <2>2. obj.swap => Sizes(obj) /\ h.i <= i
    BY <1>o, <2>1 DEF TypeOK, Walker
  <2>3. h.i \in 0..ncmds /\ h.lc = obj.off[h.i] /\ h.i \in Nat /\ ncmds = obj.ncmds
    BY <1>o, <1>n, <2>1, <2>2 DEF SeekInv, TypeOK, Walker
  <2>4. h.i \in 0..(obj.ncmds - 1) /\ obj.ncmds \in Nat
    BY <1>o, <2>1, <2>3 DEF IsObject
  <2>5. Cmdsize(mem, h.lc) = c.cmdsize
    <3>1. CASE ~obj.swap
      BY <3>1, HostReads
    <3>2. CASE obj.swap /\ h.lc \in DOMAIN obj.lc
      <4>1. h.i \in 0..i
        BY <2>2, <2>3, <3>2 DEF TypeOK
      <4>2. h.lc \in mem.lc
        BY <2>1, <2>2, <2>3, <3>2, <4>1 DEF WalkInv, Active
      <4> QED
        BY <1>o, <3>2, <4>2 DEF Cmdsize, Read
    <3>3. CASE h.lc \notin DOMAIN obj.lc
      <4>1. c.cmdsize = 0
        BY <3>3 DEF LcAt, NoCommand
      <4>2. 0 * Far = 0
        BY FormatAssumption
      <4> QED
        BY <4>1, <4>2 DEF Cmdsize, Read
    <3> QED
      BY <3>1, <3>2, <3>3
  <2>6. h'.lc = obj.off[h'.i] /\ h'.i \in 0..ncmds'
    <3>1. obj.off[h.i + 1] = obj.off[h.i] + c.cmdsize
      BY <1>o, <2>3, <2>4 DEF IsObject
    <3> QED
      BY <2>1, <2>3, <2>4, <2>5, <3>1
  <2>7. ASSUME ~obj.swap, Countable(obj)
        PROVE  /\ h'.count = obj.first[h'.i]
               /\ h'.i = 0 \/ h'.count < NlAt(obj, k).sect \/ NlAt(obj, k).sect = 0
               /\ \A j \in 0..(h'.i - 1) : /\ ~Holds(obj, j, NlAt(obj, k).sect)
                                           /\ SegmentInside(obj, j)
    <3> DEFINE s == NlAt(obj, k).sect
    <3>1. s \in Nat
      BY <1>o, EntryType DEF IsEntry
    <3>2. h.count = obj.first[h.i] /\ (h.i = 0 \/ h.count < s \/ s = 0)
          /\ \A j \in 0..(h.i - 1) : ~Holds(obj, j, s) /\ SegmentInside(obj, j)
      BY <2>1, <2>7 DEF SeekInv
    <3>3. obj.first[h.i + 1] = obj.first[h.i] + (IF c.cmd = "SEGMENT" THEN Len(c.secs) ELSE 0)
          /\ obj.first[h.i] \in Nat /\ obj.first[h.i + 1] \in Nat
      <4>1. h.i + 1 \in 0..obj.ncmds
        BY <2>4
      <4> QED
        BY <1>o, <2>3, <2>4, <4>1 DEF IsObject
    <3>c. obj.first[h.i + 1] % SizeMod = obj.first[h.i + 1]
      <4>1. h.i + 1 \in 0..obj.ncmds
        BY <2>4
      <4>2. obj.first[h.i + 1] < SizeMod /\ obj.first[h.i + 1] \in Nat
        BY <2>7, <3>3, <4>1 DEF Countable
      <4> QED
        BY <4>2, FormatAssumption
    <3>4. Cmd(mem, h.lc) = c.cmd /\ Nsects(h.lc) = Len(c.secs) /\ Index = s
      BY <2>7, HostReads DEF Index
    <3>5. is_safe(h.lc, obj.size)
      BY <1>2 DEF SectSkip, CanSeek
    <3>6. CASE c.cmd = "SEGMENT"
      <4>0. Sections = h.count + Len(c.secs)
        BY <3>2, <3>3, <3>c, <3>4, <3>6 DEF Sections
      <4>1. AtSegment /\ h.count + Len(c.secs) < s /\ h'.count = h.count + Len(c.secs)
        BY <1>2, <3>4, <3>6, <4>0 DEF SectSkip
      <4>2. SegmentInside(obj, h.i)
        BY <2>3, <3>5, <4>1 DEF SegmentInside, AtSegment
      <4>3. h'.count = obj.first[h'.i] /\ h'.count < s /\ ~Holds(obj, h.i, s)
        BY <2>1, <3>1, <3>2, <3>3, <3>6, <4>1 DEF Holds
      <4>4. \A j \in 0..(h'.i - 1) : j = h.i \/ j \in 0..(h.i - 1)
        BY <2>1, <2>3
      <4> QED
        BY <3>2, <4>2, <4>3, <4>4
    <3>7. CASE c.cmd # "SEGMENT"
      <4>1. h'.count = h.count
        BY <1>2, <1>o, <3>4, <3>7 DEF SectSkip, Walker
      <4>2. SegmentInside(obj, h.i)
        BY <2>3, <3>5, <3>7 DEF SegmentInside
      <4>3. h'.count = obj.first[h'.i] /\ ~Holds(obj, h.i, s)
        BY <2>1, <3>1, <3>2, <3>3, <3>7, <4>1 DEF Holds
      <4>4. h'.count < s \/ s = 0
        <5>1. h.i = 0 => h.count = 0
          BY <1>o, <3>2 DEF IsObject
        <5> QED
          BY <3>1, <3>2, <4>1, <5>1
      <4>5. \A j \in 0..(h'.i - 1) : j = h.i \/ j \in 0..(h.i - 1)
        BY <2>1, <2>3
      <4> QED
        BY <3>2, <4>2, <4>3, <4>4, <4>5
    <3> QED
      BY <3>6, <3>7
  <2> QED
    BY <1>o, <2>1, <2>6, <2>7 DEF SeekInv
<1>3. CASE SectHit
  <2>1. pc = "sect" /\ pc' = "letter" /\ h' = h /\ i' = i /\ k' = k /\ ncmds' = ncmds
        /\ h.i < ncmds /\ is_safe(h.lc, obj.size) /\ AtSegment
        /\ Sections >= Index /\ Index > 0
        /\ found' = <<h.lc, Index - h.count>>
    BY <1>3 DEF SectHit, CanSeek
  <2>2. h.i \in 0..ncmds /\ h.lc = obj.off[h.i] /\ ncmds = obj.ncmds
    BY <1>n, <2>1 DEF SeekInv
  <2>3. ASSUME ~obj.swap, Countable(obj)
        PROVE  /\ SegmentInside(obj, h.i)
               /\ Holds(obj, h.i, NlAt(obj, k).sect)
               /\ Index = NlAt(obj, k).sect
               /\ h.count < NlAt(obj, k).sect
    <3> DEFINE s == NlAt(obj, k).sect
    <3>1. Index = s /\ Cmd(mem, h.lc) = LcAt(obj, h.lc).cmd
          /\ Nsects(h.lc) = Len(LcAt(obj, h.lc).secs)
      BY <2>3, HostReads DEF Index
    <3>2. h.count = obj.first[h.i] /\ (h.i = 0 \/ h.count < s \/ s = 0)
      BY <2>1, <2>3 DEF SeekInv
    <3>3. h.i \in 0..(obj.ncmds - 1)
      BY <1>o, <2>1, <2>2 DEF IsObject, Walker
    <3>4. obj.first[h.i + 1] = obj.first[h.i] + Len(LcAt(obj, h.lc).secs)
          /\ obj.first[0] = 0
      BY <1>o, <2>1, <2>2, <3>1, <3>3 DEF IsObject, AtSegment
    <3>5. s \in Nat
      BY <1>o, EntryType DEF IsEntry
    <3>c. Sections = obj.first[h.i + 1]
      <4>1. h.i + 1 \in 0..obj.ncmds
        BY <1>o, <3>3 DEF IsObject
      <4>2. obj.first[h.i + 1] < SizeMod /\ obj.first[h.i + 1] \in Nat
        BY <1>o, <2>3, <4>1 DEF Countable, IsObject
      <4>3. Sections = obj.first[h.i + 1] % SizeMod
        BY <2>2, <3>1, <3>2, <3>4 DEF Sections
      <4> QED
        BY <4>2, <4>3, FormatAssumption
    <3>6. h.count < s
      BY <2>1, <3>1, <3>2, <3>4, <3>5
    <3> QED
      BY <2>1, <2>2, <3>1, <3>2, <3>4, <3>5, <3>6, <3>c
         DEF Holds, SegmentInside, AtSegment
  <2> QED
    BY <1>o, <2>1, <2>2, <2>3 DEF SeekInv
<1>4. CASE UNCHANGED vars
  BY <1>4, <1>o DEF vars, SeekInv
<1>5. CASE \/ StartReject \/ StartWalk \/ WalkEnd \/ WalkSkip \/ WalkSymtab \/ SymsEnd
           \/ SymReject \/ SectWild \/ SectNone \/ SectLetter \/ SectAstray \/ AddSymbol
           \/ NameReject \/ Finished
  BY <1>5 DEF StartReject, StartWalk, WalkEnd, WalkSkip, CanWalk, WalkSymtab, SymsEnd,
              SymReject, SectWild, SectNone, SectLetter, SectAstray, AddSymbol, NameReject,
              Finished, Ends, vars
<1> QED
  BY <1>1, <1>2, <1>3, <1>4, <1>5 DEF Next

LEMMA TableInit == Init => TableInv
  BY DEF Init, TableInv, Untouched

LEMMA TableStep == TypeOK /\ HeaderInv /\ TableInv /\ [Next]_vars => TableInv'
<1> SUFFICES ASSUME TypeOK, HeaderInv, TableInv, [Next]_vars PROVE TableInv'
  OBVIOUS
<1>o. mem \in Memory /\ k \in Nat
  BY DEF TypeOK
<1>1. CASE StartWalk \/ WalkSkip
  <2>1. mem'.sym = mem.sym /\ mem'.nl = mem.nl
    BY <1>1, <1>o DEF StartWalk, WalkSkip, ConvertCommand, Memory
  <2>2. pc \in {"start", "walk"} /\ pc' = "walk"
    BY <1>1 DEF StartWalk, WalkSkip, CanWalk
  <2> QED
    BY <2>1, <2>2 DEF TableInv
<1>2. CASE WalkSymtab
  <2>1. mem'.nl = mem.nl /\ pc = "walk" /\ pc' \in {"syms", "done"}
    BY <1>2, <1>o DEF WalkSymtab, CanWalk, ConvertCommand, Memory
  <2> QED
    BY <2>1 DEF TableInv
<1>3. CASE SymStart
  <2>1. mem'.nl \subseteq mem.nl \cup {k} /\ pc = "syms" /\ pc' \in {"sect", "name"} /\ k' = k
    BY <1>3, <1>o DEF SymStart, Toggle, Memory
  <2>2. \A n \in mem.nl : n < k /\ n \in Nat
    BY <1>o, <2>1 DEF TableInv, Memory
  <2>3. \A n \in mem'.nl : n <= k
    BY <1>o, <2>1, <2>2
  <2> QED
    BY <2>1, <2>3 DEF TableInv
<1>4. CASE SectSkip \/ SectHit \/ SectNone \/ SectLetter
  <2>1. mem'.nl = mem.nl /\ k' = k /\ pc \in {"sect", "letter"} /\ pc' \in {"sect", "letter", "name"}
    BY <1>4, <1>o DEF SectSkip, SectHit, SectNone, SectLetter, CanSeek, Memory
  <2> QED
    BY <2>1 DEF TableInv
<1>5. CASE AddSymbol
  <2>1. mem' = mem /\ k' = k + 1 /\ pc = "name" /\ pc' = "syms"
    BY <1>5 DEF AddSymbol, add_list
  <2>2. \A n \in mem.nl : n \in Nat /\ n <= k
    BY <1>o, <2>1 DEF TableInv, Memory
  <2> QED
    BY <1>o, <2>1, <2>2 DEF TableInv
<1>6. CASE StartReject \/ WalkEnd \/ SymsEnd \/ SymReject \/ SectWild \/ SectAstray \/ NameReject
  BY <1>6 DEF StartReject, WalkEnd, SymsEnd, SymReject, SectWild, SectAstray, NameReject, TableInv
<1>7. CASE Finished \/ UNCHANGED vars
  BY <1>7 DEF Finished, vars, TableInv
<1> QED
  BY <1>1, <1>2, <1>3, <1>4, <1>5, <1>6, <1>7 DEF Next

LEMMA FoundInit == Init => FoundInv
  BY DEF Init, FoundInv

\* A segment is passed only if the section is behind it.
LEMMA FoundStep == TypeOK /\ FoundInv /\ [Next]_vars => FoundInv'
<1> SUFFICES ASSUME TypeOK, FoundInv, [Next]_vars PROVE FoundInv'
  OBVIOUS
<1>o. obj' = obj /\ h \in Walker /\ Index \in 0..255
  BY SameObject, EntryKept DEF TypeOK, Index
<1>1. CASE SymStart
  BY <1>1 DEF SymStart, FoundInv
<1>2. CASE SectSkip
  <2>1. pc = "sect" /\ pc' = "sect" /\ Index' = Index
    BY <1>2, <1>o DEF SectSkip, CanSeek, Index, Entry
  <2>2. h'.count = h.count \/ h'.count < Index
    <3>1. CASE Cmd(mem, h.lc) = "SEGMENT"
      BY <1>2, <3>1 DEF SectSkip
    <3>2. CASE Cmd(mem, h.lc) # "SEGMENT"
      BY <1>2, <1>o, <3>2 DEF SectSkip, Walker
    <3> QED
      BY <3>1, <3>2
  <2> QED
    BY <2>1, <2>2 DEF FoundInv
<1>3. CASE SectHit
  <2>1. pc = "sect" /\ pc' = "letter" /\ Index > 0 /\ found' = <<h.lc, Index - h.count>>
    BY <1>3 DEF SectHit, CanSeek
  <2>2. h.lc \in Nat /\ h.count \in Nat /\ (h.count = 0 \/ h.count < Index)
    BY <1>o, <2>1 DEF FoundInv, Walker
  <2>3. Index - h.count \in Nat \ {0}
    BY <1>o, <2>1, <2>2
  <2> QED
    BY <2>1, <2>2, <2>3 DEF FoundInv
<1>4. CASE UNCHANGED vars
  BY <1>4, <1>o DEF vars, FoundInv, Index, Entry
<1>5. CASE \/ StartReject \/ StartWalk \/ WalkEnd \/ WalkSkip \/ WalkSymtab \/ SymsEnd
           \/ SymReject \/ SectWild \/ SectNone \/ SectLetter \/ SectAstray \/ AddSymbol
           \/ NameReject
  BY <1>5 DEF StartReject, StartWalk, WalkEnd, WalkSkip, CanWalk, WalkSymtab, SymsEnd,
              SymReject, SectWild, SectNone, SectLetter, SectAstray, AddSymbol, NameReject,
              FoundInv
<1>6. CASE Finished
  BY <1>6, <1>o DEF Finished, Ends, vars, FoundInv
<1> QED
  BY <1>1, <1>2, <1>3, <1>4, <1>5, <1>6 DEF Next

LEMMA IndInit == Init => IInv
  BY TypeInit, HeaderInit, WalkInit, SymtabInit, SeekInit, TableInit, FoundInit DEF IInv

LEMMA IndStep == IInv /\ [Next]_vars => IInv'
  BY TypeStep, HeaderStep, WalkStep, SymtabStep, SeekStep, TableStep, FoundStep DEF IInv

\* Both walks stay on the boundaries of the commands and agree on how many there
\* are, whatever the objects are.
THEOREM CommandBoundaries == Spec => []OnCommand
<1>1. IInv => OnCommand
  BY DEF IInv, HeaderInv, WalkInv, SeekInv, OnCommand, Active, TypeOK
<1> QED
  BY <1>1, IndInit, IndStep, PTL DEF Spec

\* The section a letter comes from is the one n_sect counts to.
THEOREM SectionsResolved == Spec => []SectionResolved
<1>1. ASSUME IInv PROVE SectionResolved
  <2>1. SUFFICES ASSUME pc = "letter", ~obj.swap, Countable(obj) PROVE SectionResolved
    BY DEF SectionResolved
  <2>2. h.i \in 0..ncmds /\ h.i < ncmds /\ ncmds = obj.ncmds /\ h.lc = obj.off[h.i]
        /\ h.count = obj.first[h.i] /\ Holds(obj, h.i, NlAt(obj, k).sect)
        /\ found = <<h.lc, NlAt(obj, k).sect - h.count>>
    BY <1>1, <2>1 DEF IInv, SeekInv, HeaderInv, Active
  <2>3. h.i \in 0..(obj.ncmds - 1)
    BY <1>1, <2>2, ObjectType DEF IInv, TypeOK, IsObject
  <2> QED
    BY <2>2, <2>3 DEF SectionResolved
<1> QED
  BY <1>1, IndInit, IndStep, PTL DEF Spec

\* swap_section reverses nothing that starts at or before the segment of its section.
LEMMA BehindSegment ==
  ASSUME IInv, pc = "letter", NEW ptr \in Nat, ptr <= found[1]
  PROVE  ~Reverses(ptr, SizeofCommand)
<1> DEFINE a == found[1]
           s == found[2]
<1>1. a \in Nat /\ s \in Nat \ {0}
  BY DEF IInv, FoundInv
<1>2. SizeofSegment(obj.is64) \in {56, 72} /\ SizeofSection(obj.is64) \in {68, 80} /\ SizeofCommand = 8
  BY DEF SizeofSegment, SizeofSection, SizeofCommand
<1>3. SectionAt = a + SizeofSegment(obj.is64) + (s - 1) * SizeofSection(obj.is64)
  BY DEF SectionAt
<1> HIDE DEF a, s
<1>4. SectionAt \in Nat /\ SectionAt >= a + 56
  <2>1. (s - 1) * 68 \in Nat /\ (s - 1) * 80 \in Nat
    BY <1>1
  <2>2. CASE SizeofSection(obj.is64) = 68
    BY <1>1, <1>2, <1>3, <2>1, <2>2
  <2>3. CASE SizeofSection(obj.is64) = 80
    BY <1>1, <1>2, <1>3, <2>1, <2>3
  <2> QED
    BY <1>2, <2>2, <2>3
<1>5. ptr <= a
  BY DEF a
<1>6. ~(SectionAt + 4 < ptr + SizeofCommand)
  BY <1>1, <1>2, <1>4, <1>5
<1> QED
  BY <1>6 DEF Reverses

Kept ==
  /\ mem.ncmds => mem'.ncmds
  /\ pc' # "astray" => /\ mem.sym => mem'.sym
                       /\ mem.lc \cap DOMAIN obj.lc \subseteq mem'.lc
                       /\ mem.nl \subseteq mem'.nl
  /\ pc' = "astray" => \A ptr \in mem.lc : ptr <= found[1] => ptr \in mem'.lc

\* A field converted is not converted back, so what is read stays what the file says,
\* in any object without a command of size 0; only swap_section through a pointer that
\* left its segment undoes a conversion, and none up to that segment.
THEOREM ConvertedOnce == Spec => ConversionKept
<1>1. ASSUME IInv, [Next]_vars, Sizes(obj) PROVE Kept \/ UNCHANGED vars
  <2>o. mem \in Memory
    BY <1>1 DEF IInv, TypeOK
  <2>1. CASE StartWalk
    BY <1>1, <2>1 DEF IInv, StartWalk, HeaderInv, Untouched, Kept
  <2>2. CASE WalkSkip \/ WalkSymtab
    <3>1. pc = "walk" /\ ~mem.sym /\ pc' # "astray"
      BY <1>1, <2>2 DEF IInv, TableInv, WalkSkip, WalkSymtab, CanWalk
    <3>2. lc \in mem.lc => lc \notin DOMAIN obj.lc \/ ~obj.swap
      BY <1>1, <3>1 DEF IInv, WalkInv, Active, TypeOK
    <3>3. mem'.ncmds = mem.ncmds /\ mem'.nl = mem.nl
          /\ mem'.lc = (IF obj.swap THEN Toggle(mem.lc, lc) ELSE mem.lc)
      BY <2>o, <2>2 DEF WalkSkip, WalkSymtab, ConvertCommand, Memory
    <3> QED
      BY <3>1, <3>2, <3>3 DEF Toggle, Kept
  <2>3. CASE SymStart
    <3>1. k \notin mem.nl /\ pc' # "astray"
      BY <1>1, <2>3, <2>o DEF IInv, TableInv, SymStart, TypeOK, Memory
    <3> QED
      BY <2>o, <2>3, <3>1 DEF SymStart, Toggle, Memory, Kept
  <2>4. CASE SectLetter
    BY <2>o, <2>4 DEF SectLetter, Memory, Kept
  <2>5. CASE SectAstray
    <3>1. pc = "letter" /\ pc' = "astray" /\ mem'.ncmds = mem.ncmds
          /\ mem'.lc = {ptr \in mem.lc : ~Reverses(ptr, SizeofCommand)}
      BY <2>o, <2>5 DEF SectAstray, Memory
    <3>2. \A ptr \in mem.lc : ptr \in Nat
      BY <2>o DEF Memory
    <3>3. \A ptr \in mem.lc : ptr <= found[1] => ptr \in mem'.lc
      BY <1>1, <3>1, <3>2, BehindSegment
    <3> QED
      BY <3>1, <3>3 DEF Kept
  <2>6. CASE mem' = mem
    BY <2>6 DEF Kept
  <2> QED
    BY <1>1, <2>1, <2>2, <2>3, <2>4, <2>5, <2>6
       DEF Next, vars, StartReject, WalkEnd, SymsEnd, SymReject, SectSkip, SectHit,
           SectWild, SectNone, AddSymbol, NameReject, Finished
<1>2. IInv /\ [Next]_vars => [Sizes(obj) => Kept]_vars
  BY <1>1
<1> QED
  BY <1>2, IndInit, IndStep, PTL DEF Spec, ConversionKept, Kept

\* No node is lost except the one that a name outside the file leaves off the list.
THEOREM NodesKept == Spec => []NodesAccounted
<1>1. Init => NodesAccounted
  BY DEF Init, NodesAccounted
<1>2. TypeOK /\ NodesAccounted /\ [Next]_vars => NodesAccounted'
  <2> SUFFICES ASSUME TypeOK, NodesAccounted, [Next]_vars PROVE NodesAccounted'
    OBVIOUS
  <2>o. list \in Seq(Node) /\ Len(list) \in Nat /\ live \in Int /\ Len(<<>>) = 0
    BY DEF TypeOK
  <2>1. CASE StartReject \/ StartWalk \/ WalkEnd \/ WalkSkip \/ WalkSymtab \/ SymsEnd
    BY <2>o, <2>1 DEF StartReject, StartWalk, WalkEnd, WalkSkip, CanWalk, WalkSymtab,
                      SymsEnd, NodesAccounted
  <2>2. CASE SectSkip \/ SectHit \/ SectWild \/ SectNone \/ SectLetter \/ SectAstray
    BY <2>o, <2>2 DEF SectSkip, SectHit, SectWild, SectNone, SectLetter, SectAstray,
                      CanSeek, NodesAccounted
  <2>3. CASE SymReject \/ NameReject
    BY <2>o, <2>3 DEF SymReject, NameReject, NodesAccounted
  <2>4. CASE SymStart
    BY <2>o, <2>4 DEF SymStart, NodesAccounted
  <2>5. CASE AddSymbol
    <3>1. Len(list') = Len(list) + 1
      <4> DEFINE node == [sym |-> k, letter |-> Cased(letter, Entry(mem, k).ext), name |-> NameAt]
      <4>1. list' = Append(list, node)
        BY <2>5 DEF AddSymbol, add_list
      <4> HIDE DEF node
      <4> QED
        BY <2>o, <4>1
    <3> QED
      BY <2>o, <2>5, <3>1 DEF AddSymbol, NodesAccounted
  <2>6. CASE Finished \/ UNCHANGED vars
    BY <2>6 DEF Finished, vars, NodesAccounted
  <2> QED
    BY <2>1, <2>2, <2>3, <2>4, <2>5, <2>6 DEF Next
<1> QED
  BY <1>1, <1>2, TypeInit, TypeStep, PTL DEF Spec

-----------------------------------------------------------------------------
(***************************************************************************)
(* How far a read goes behind the end of the file.                         *)
(***************************************************************************)
\* The symbol table's command was checked to its end before the table is listed,
\* and only an entry of a section is looked up.
NearInv ==
  /\ InTable => is_safe(lc + SizeofSymtab, obj.size)
  /\ pc \in {"sect", "letter"} => NlAt(obj, k).kind = "SECT"

LEMMA SectionOnly ==
  ASSUME NEW e, e.kind \in Kinds PROVE PreLetter(e) = "s" <=> e.kind = "SECT"
  BY DEF PreLetter, Kinds

\* A conversion leaves n_type, so that an entry of a section stays one.
LEMMA EntryKind ==
  ASSUME TypeOK, NEW m
  PROVE  Entry(m, k).kind = NlAt(obj, k).kind /\ NlAt(obj, k).kind \in Kinds
<1>1. IsEntry(NlAt(obj, k))
  BY ObjectType, EntryType DEF TypeOK
<1> QED
  BY <1>1 DEF Entry, Swapped, IsEntry

LEMMA NearStep == TypeOK /\ NearInv /\ [Next]_vars => NearInv'
<1> SUFFICES ASSUME TypeOK, NearInv, [Next]_vars PROVE NearInv'
  OBVIOUS
<1>o. obj' = obj
  BY SameObject
<1>1. CASE WalkSymtab
  BY <1>1, <1>o DEF WalkSymtab, NearInv, InTable
<1>2. CASE SymStart
  <2>1. ASSUME pc' = "sect" PROVE NlAt(obj, k).kind = "SECT"
    BY <1>2, <2>1, EntryKind, SectionOnly DEF SymStart
  <2>2. pc = "syms" /\ lc' = lc /\ k' = k /\ pc' \in {"sect", "name"}
    BY <1>2 DEF SymStart
  <2> QED
    BY <1>o, <2>1, <2>2 DEF NearInv, InTable
<1>3. CASE \/ StartReject \/ StartWalk \/ WalkEnd \/ WalkSkip \/ SymsEnd \/ SymReject
           \/ SectWild \/ SectAstray \/ NameReject
  BY <1>3, <1>o DEF StartReject, StartWalk, WalkEnd, WalkSkip, CanWalk, SymsEnd, SymReject,
                    SectWild, SectAstray, NameReject, NearInv, InTable
<1>4. CASE SectSkip \/ SectHit \/ SectNone \/ SectLetter \/ AddSymbol
  BY <1>4, <1>o DEF SectSkip, SectHit, SectNone, SectLetter, AddSymbol, CanSeek,
                    NearInv, InTable
<1>5. CASE Finished \/ UNCHANGED vars
  BY <1>5, <1>o DEF Finished, vars, NearInv, InTable
<1> QED
  BY <1>1, <1>2, <1>3, <1>4, <1>5 DEF Next

\* What is_safe lets through is not behind the end of the file, also where
\* g_map_size is only the lower half of its size.
LEMMA SafeInside ==
  ASSUME NEW p, NEW size \in Nat, is_safe(p, size)
  PROVE  0 <= p /\ p <= size % SizeMod /\ size % SizeMod <= size /\ size % SizeMod \in Nat
  BY FormatAssumption DEF is_safe

\* is_safe, and what each caller adds to its pointer, keeps every read within a
\* symbol-table entry's size of the end of the file.
THEOREM ReadsNearEnd == Spec => []NearEnd
<1>1. ASSUME IInv, NearInv, SectionsInside(obj), Listable(obj), NEW x \in Extents
      PROVE  0 <= x[1] /\ x[2] <= obj.size + SizeofNlist(obj.is64)
  <2>o. /\ TypeOK /\ IsObject(obj) /\ obj.size \in Nat /\ obj.is64 \in BOOLEAN /\ obj.base \in Nat
        /\ lc \in Nat /\ k \in Nat /\ h.lc \in Nat /\ mem \in Memory
    BY <1>1, ObjectType DEF IInv, TypeOK, IsObject, Walker
  <2>s. /\ SizeofNlist(obj.is64) \in {12, 16} /\ SizeofHeader(obj.is64) \in {28, 32}
        /\ SizeofHeader(~obj.is64) \in {28, 32}
        /\ SizeofSegment(obj.is64) \in {56, 72} /\ SizeofSection(obj.is64) \in {68, 80}
        /\ SizeofCommand = 8 /\ SizeofSymtab = 24
    BY DEF SizeofNlist, SizeofHeader, SizeofSegment, SizeofSection, SizeofCommand, SizeofSymtab
  <2>1. CASE pc = "start" /\ HeaderSafe(obj)
    <3>1. Extents = {<<obj.base, obj.base + SizeofHeader(obj.is64)>>}
      BY <2>1 DEF Extents, CanWalk, CanSeek
    <3>2. obj.base + SizeofHeader(~obj.is64) <= obj.size
      BY <2>o, <2>s, <2>1, SafeInside DEF HeaderSafe, is_lc_safe
    <3> QED
      BY <1>1, <2>o, <2>s, <3>1, <3>2
  <2>2. CASE CanWalk
    <3>1. Extents = {<<lc, lc + SizeofCommand>>}
      BY <2>2 DEF Extents, CanWalk, CanSeek
    <3>2. lc + SizeofCommand <= obj.size
      BY <2>o, <2>s, <2>2, SafeInside DEF CanWalk
    <3> QED
      BY <1>1, <2>o, <2>s, <3>1, <3>2
  <2>3. CASE pc = "syms" /\ k < Symtab(mem, "nsyms") /\ EntrySafe
    <3>1. Extents = {<<lc, lc + SizeofSymtab>>,
                     <<NlistAt(mem, k), NlistAt(mem, k) + SizeofNlist(obj.is64)>>}
      BY <2>3 DEF Extents, CanWalk, CanSeek
    <3>2. lc + SizeofSymtab <= obj.size
      BY <1>1, <2>o, <2>s, <2>3, SafeInside DEF NearInv, InTable
    <3>3. NlistAt(mem, k) \in Nat
      <4>1. Symtab(mem, "symoff") \in Nat
        BY <2>o, MemoryReads
      <4>2. CASE obj.is64
        BY <2>o, <4>1, <4>2 DEF NlistAt, SizeofNlist
      <4>3. CASE ~obj.is64
        BY <2>o, <4>1, <4>3 DEF NlistAt, SizeofNlist
      <4> QED
        BY <4>2, <4>3
    <3>4. 0 <= NlistAt(mem, k) /\ NlistAt(mem, k) <= obj.size
      BY <2>o, <2>3, <3>3, SafeInside DEF EntrySafe
    <3> QED
      BY <1>1, <2>o, <2>s, <3>1, <3>2, <3>3, <3>4
  <2>4. CASE CanSeek
    <3>1. Extents = {<<h.lc, h.lc + (IF AtSegment THEN SizeofSegment(obj.is64)
                                     ELSE SizeofCommand)>>}
      BY <2>4 DEF Extents, CanSeek, CanWalk
    <3>2. h.lc <= obj.size
      BY <2>o, <2>4, SafeInside DEF CanSeek
    <3>3. AtSegment => h.lc + SizeofSegment(obj.is64) <= obj.size
      BY <2>o, <2>s, SafeInside DEF AtSegment, is_segmant_safe
    <3> QED
      BY <1>1, <2>o, <2>s, <3>1, <3>2, <3>3
  <2>5. CASE pc = "letter"
    <3>1. Extents = {<<found[1] + SizeofSegment(obj.is64)
                         + (found[2] - 1) * SizeofSection(obj.is64),
                       found[1] + SizeofSegment(obj.is64)
                         + (found[2] - 1) * SizeofSection(obj.is64)
                         + SizeofSection(obj.is64)>>}
      BY <2>5 DEF Extents, SectionAt, CanSeek, CanWalk
    <3>2. ~obj.swap /\ Countable(obj)
      <4>1. NlAt(obj, k).kind = "SECT"
        BY <1>1, <2>5 DEF NearInv
      <4>2. k \in DOMAIN obj.nl /\ obj.nl[k].kind = "SECT"
        BY <4>1 DEF NlAt, NoEntry
      <4> QED
        BY <1>1, <4>2 DEF Listable
    <3> DEFINE s == NlAt(obj, k).sect
               c == LcAt(obj, h.lc)
    <3>3. /\ h.i \in 0..(obj.ncmds - 1) /\ h.lc = obj.off[h.i] /\ h.count = obj.first[h.i]
          /\ Holds(obj, h.i, s) /\ found = <<h.lc, s - h.count>>
      <4>1. ncmds = obj.ncmds /\ obj.ncmds \in Nat
        BY <1>1, <2>o, <2>5 DEF IInv, HeaderInv, Active, IsObject
      <4>2. SeekInv
        BY <1>1 DEF IInv
      <4> QED
        BY <2>5, <3>2, <4>1, <4>2 DEF SeekInv
    <3>4. /\ h.lc \in DOMAIN obj.lc /\ c = obj.lc[h.lc] /\ c.cmd = "SEGMENT" /\ Len(c.secs) \in Nat
          /\ s - h.count \in 1..Len(c.secs)
      <4>1. obj.first[h.i] < s /\ s <= obj.first[h.i + 1]
        BY <3>3 DEF Holds
      <4>2. IsCommand(c) /\ IsEntry(NlAt(obj, k))
        BY <2>o, CommandType, EntryType
      <4>3. Len(c.secs) \in Nat /\ s \in 0..255
        BY <4>2 DEF IsCommand, IsEntry
      <4>4. /\ obj.first[h.i] \in Nat
            /\ obj.first[h.i + 1] = obj.first[h.i] + (IF c.cmd = "SEGMENT" THEN Len(c.secs) ELSE 0)
        <5>1. /\ obj.ncmds \in Nat /\ obj.first \in [0..obj.ncmds -> Nat]
              /\ \A j \in 0..(obj.ncmds - 1) :
                   obj.first[j + 1] =
                     obj.first[j] + (IF LcAt(obj, obj.off[j]).cmd = "SEGMENT"
                                     THEN Len(LcAt(obj, obj.off[j]).secs) ELSE 0)
          BY <2>o DEF IsObject
        <5>2. h.i \in 0..(obj.ncmds - 1) /\ c = LcAt(obj, obj.off[h.i])
          BY <3>3
        <5>3. h.i \in 0..obj.ncmds
          BY <5>1, <5>2
        <5> HIDE DEF c, s
        <5> QED
          BY <5>1, <5>2, <5>3
      <4>5. c.cmd = "SEGMENT"
        <5> DEFINE a == obj.first[h.i]
                   b == obj.first[h.i + 1]
                   m == Len(c.secs)
        <5>1. a < s /\ s <= b /\ a \in Nat /\ s \in 0..255 /\ b = a + (IF c.cmd = "SEGMENT" THEN m ELSE 0)
          BY <4>1, <4>3, <4>4
        <5> HIDE DEF a, b, m, s
        <5> QED
          BY <5>1
      <4>6. h.lc \in DOMAIN obj.lc /\ c = obj.lc[h.lc]
        BY <4>5 DEF LcAt, NoCommand
      <4>7. /\ h.count \in Nat /\ h.count < s /\ s <= h.count + Len(c.secs)
        BY <3>3, <4>1, <4>4, <4>5
      <4>8. s - h.count \in 1..Len(c.secs)
        <5> DEFINE a == h.count
                   m == Len(c.secs)
        <5>1. m \in Nat /\ s \in 0..255 /\ a \in Nat /\ a < s /\ s <= a + m
          BY <4>3, <4>7
        <5> HIDE DEF a, m, s
        <5>2. s - a \in 1..m
          BY <5>1
        <5> QED
          BY <5>2 DEF a, m
      <4> HIDE DEF c, s
      <4> QED
        BY <4>3, <4>5, <4>6, <4>8
    <3>5. h.lc + SizeofSegment(obj.is64) + Len(c.secs) * SizeofSection(obj.is64) <= obj.size
      BY <1>1, <3>4 DEF SectionsInside
    <3> DEFINE f == s - h.count
    <3>6. found[1] = h.lc /\ found[2] = f /\ f \in Nat /\ 1 <= f /\ f <= Len(c.secs)
      BY <3>3, <3>4
    <3> HIDE DEF f, c, s
    <3>7. CASE obj.is64
      <4>1. SizeofSegment(obj.is64) = 72 /\ SizeofSection(obj.is64) = 80
        BY <3>7 DEF SizeofSegment, SizeofSection
      <4> DEFINE p == h.lc
                 n == Len(c.secs)
                 size == obj.size
                 nlist == SizeofNlist(obj.is64)
      <4>2. x = <<p + 72 + (f - 1) * 80, p + 72 + (f - 1) * 80 + 80>>
        BY <1>1, <3>1, <3>6, <4>1
      <4>3. p \in Nat /\ n \in Nat /\ size \in Nat /\ nlist \in Nat /\ f \in Nat
            /\ 1 <= f /\ f <= n /\ p + 72 + n * 80 <= size
        <5>1. p \in Nat /\ n \in Nat
          BY <2>o, <3>4
        <5>2. size \in Nat /\ nlist \in Nat
          BY <2>o, <2>s
        <5>3. f \in Nat /\ 1 <= f /\ f <= n
          BY <3>6
        <5>4. p + 72 + n * 80 <= size
          BY <3>5, <4>1
        <5> QED
          BY <5>1, <5>2, <5>3, <5>4
      <4> HIDE DEF p, n, size, nlist
      <4>4. 0 <= p + 72 + (f - 1) * 80 /\ p + 72 + (f - 1) * 80 + 80 <= size + nlist
        BY <4>3
      <4> QED
        BY <4>2, <4>4 DEF size, nlist
    <3>8. CASE ~obj.is64
      <4>1. SizeofSegment(obj.is64) = 56 /\ SizeofSection(obj.is64) = 68
        BY <3>8 DEF SizeofSegment, SizeofSection
      <4> DEFINE p == h.lc
                 n == Len(c.secs)
                 size == obj.size
                 nlist == SizeofNlist(obj.is64)
      <4>2. x = <<p + 56 + (f - 1) * 68, p + 56 + (f - 1) * 68 + 68>>
        BY <1>1, <3>1, <3>6, <4>1
      <4>3. p \in Nat /\ n \in Nat /\ size \in Nat /\ nlist \in Nat /\ f \in Nat
            /\ 1 <= f /\ f <= n /\ p + 56 + n * 68 <= size
        <5>1. p \in Nat /\ n \in Nat
          BY <2>o, <3>4
        <5>2. size \in Nat /\ nlist \in Nat
          BY <2>o, <2>s
        <5>3. f \in Nat /\ 1 <= f /\ f <= n
          BY <3>6
        <5>4. p + 56 + n * 68 <= size
          BY <3>5, <4>1
        <5> QED
          BY <5>1, <5>2, <5>3, <5>4
      <4> HIDE DEF p, n, size, nlist
      <4>4. 0 <= p + 56 + (f - 1) * 68 /\ p + 56 + (f - 1) * 68 + 68 <= size + nlist
        BY <4>3
      <4> QED
        BY <4>2, <4>4 DEF size, nlist
    <3> QED
      BY <3>7, <3>8
  <2>6. CASE /\ ~(pc = "start" /\ HeaderSafe(obj)) /\ ~CanWalk /\ ~CanSeek /\ pc # "letter"
             /\ ~(pc = "syms" /\ k < Symtab(mem, "nsyms") /\ EntrySafe)
    <3>1. Extents = {}
      BY <2>6 DEF Extents
    <3> QED
      BY <1>1, <3>1
  <2> QED
    BY <2>1, <2>2, <2>3, <2>4, <2>5, <2>6
<1>2. IInv /\ NearInv => NearEnd
  BY <1>1 DEF NearEnd
<1>3. Init => NearInv
  BY DEF Init, NearInv, InTable
<1>4. IInv /\ NearInv /\ [Next]_vars => NearInv'
  BY NearStep DEF IInv
<1> QED
  BY <1>2, <1>3, <1>4, IndInit, IndStep, PTL DEF Spec

-----------------------------------------------------------------------------
(***************************************************************************)
(* Listing implements its contract.                                        *)
(***************************************************************************)

LEMMA ListInit == Init => ListInv
  BY DEF Init, ListInv, InTable

\* The two conditions list_symtab checks, and the name it computes, are the
\* ones of the contract.
LEMMA HostEntries ==
  ASSUME TypeOK, HeaderInv, ~obj.swap
  PROVE  LET c == LcAt(obj, lc) IN
         /\ EntrySafe <=> /\ is_safe(obj.base + c.stroff, obj.size)
                         /\ is_safe(EntryOf(obj, c, k), obj.size)
         /\ NameAt = NameOf(obj, c, k)
  BY HostReads DEF EntrySafe, StringTable, NlistAt, NameAt, EntryOf, NameOf

LEMMA ListStep == HostOrder /\ IInv /\ ListInv /\ [Next]_vars => ListInv'
<1> SUFFICES ASSUME HostOrder, IInv, ListInv, [Next]_vars PROVE ListInv'
  OBVIOUS
<1> DEFINE c == LcAt(obj, lc)
<1> USE DEF IInv
<1>o. obj' = obj /\ IsObject(obj) /\ ~obj.swap /\ Countable(obj) /\ HeaderInv' /\ WalkInv'
      /\ i \in Nat /\ lc \in Nat /\ k \in Nat /\ obj.ncmds \in Nat
  BY SameObject, ObjectType, IndStep DEF TypeOK, IsObject, HostOrder, obj
<1>s. NlAt(obj, k).kind = "SECT" => NlAt(obj, k).sect > 0
  BY DEF HostOrder, NlAt, NoEntry, obj, TypeOK
<1>c. IsCommand(c)
  BY <1>o, CommandType
<1>1. CASE StartReject
  BY <1>1, <1>o DEF StartReject, ListInv, InTable, HeaderInv, IsAnswer
<1>2. CASE StartWalk
  BY <1>2, <1>o DEF StartWalk, ListInv, InTable
<1>3. CASE WalkEnd
  <2>1. pc = "walk" /\ (i >= ncmds \/ ~is_safe(lc + SizeofCommand, obj.size))
        /\ pc' = "done" /\ list' = list
    BY <1>3 DEF WalkEnd
  <2>2. list = <<>> /\ ncmds = obj.ncmds /\ i \in 0..ncmds /\ lc = obj.off[i]
    BY <1>o, <2>1 DEF HeaderInv, WalkInv, Active
  <2>3. ASSUME NEW j \in 0..(obj.ncmds - 1), IsListed(obj, j) PROVE FALSE
    <3>1. CASE j < i
      <4>1. j \in 0..(i - 1)
        BY <1>o, <3>1
      <4> QED
        BY <1>o, <2>1, <2>3, <4>1 DEF SymtabInv, Active, IsListed
    <3>2. CASE j >= i
      <4>1. i \in 0..j /\ ~(i >= ncmds)
        BY <1>o, <2>2, <3>2
      <4> QED
        BY <2>1, <2>2, <2>3, <4>1 DEF IsListed
    <3> QED
      BY <1>o, <3>1, <3>2
  <2>4. IsAnswer(obj, list)
    BY <2>2, <2>3 DEF IsAnswer
  <2> QED
    BY <1>o, <2>1, <2>4 DEF ListInv, InTable
<1>4. CASE WalkSkip
  BY <1>4, <1>o DEF WalkSkip, CanWalk, ListInv, InTable
<1>5. CASE WalkSymtab
  <2>1. pc = "walk" /\ i < ncmds /\ is_safe(lc + SizeofCommand, obj.size)
        /\ Cmd(ConvertCommand, lc) = "SYMTAB" /\ k' = 0 /\ list' = list /\ lc' = lc
        /\ pc' = (IF is_safe(lc + SizeofSymtab, obj.size) THEN "syms" ELSE "done")
    BY <1>5 DEF WalkSymtab, CanWalk
  <2>2. list = <<>> /\ ncmds = obj.ncmds /\ lc = obj.off[i] /\ c.cmd = "SYMTAB"
    BY <1>o, <2>1, HostReads DEF HeaderInv, WalkInv, Active
  <2>3. CASE is_safe(lc + SizeofSymtab, obj.size)
    BY <1>o, <1>c, <2>1, <2>2, <2>3 DEF ListInv, InTable, IsCommand
  <2>4. CASE ~is_safe(lc + SizeofSymtab, obj.size)
    <3>1. i \in 0..(obj.ncmds - 1)
      BY <1>o, <2>1, <2>2
    <3>2. IsListed(obj, i)
      <4>1. \A g \in 0..i : g = i \/ g \in 0..(i - 1)
        BY <1>o
      <4> QED
        BY <1>o, <2>1, <2>2, <4>1 DEF IsListed, SymtabInv, Active
    <3>3. HeaderSafe(obj)
      BY <1>o, <2>1 DEF SymtabInv, Active
    <3>4. IsAnswer(obj, list)
      BY <2>2, <2>4, <3>1, <3>2, <3>3 DEF IsAnswer
    <3> QED
      BY <1>o, <2>1, <2>4, <3>4 DEF ListInv, InTable
  <2> QED
    BY <2>3, <2>4
\* From here on the table of command i is the one being listed.
<1>t. ASSUME pc \in {"syms", "sect", "letter", "name"}, NEW a, IsListing(obj, c, a)
      PROVE  IsAnswer(obj, a)
  <2>1. i < ncmds /\ ncmds = obj.ncmds /\ lc = obj.off[i] /\ HeaderSafe(obj)
        /\ c.cmd = "SYMTAB" /\ is_safe(lc + SizeofCommand, obj.size)
        /\ is_safe(lc + SizeofSymtab, obj.size)
    BY <1>o, <1>t DEF HeaderInv, WalkInv, SymtabInv, Active
  <2>2. i \in 0..(obj.ncmds - 1)
    BY <1>o, <2>1
  <2>3. IsListed(obj, i)
    <3>1. \A g \in 0..i : g = i \/ g \in 0..(i - 1)
      BY <1>o
    <3> QED
      BY <1>o, <1>t, <2>1, <3>1 DEF IsListed, SymtabInv, Active
  <2> QED
    BY <1>t, <2>1, <2>2, <2>3 DEF IsAnswer
<1>l. ASSUME pc \in {"syms", "sect", "letter", "name"}
      PROVE  /\ Len(list) = k /\ k <= c.nsyms
             /\ \A n \in 0..(k - 1) : EntryInside(obj, c, n) /\ RightNode(obj, c, n, list[n + 1])
  BY <1>l DEF ListInv, InTable
<1>6. CASE SymsEnd
  <2>1. pc = "syms" /\ k >= c.nsyms /\ list' = list /\ pc' = "done"
    BY <1>6, <1>o, HostReads DEF SymsEnd
  <2>2. k = c.nsyms
    BY <1>o, <1>c, <1>l, <2>1 DEF IsCommand
  <2>3. IsListing(obj, c, list)
    BY <1>l, <2>1, <2>2 DEF IsListing
  <2> QED
    BY <1>o, <1>t, <2>1, <2>3 DEF ListInv, InTable
<1>r. ASSUME pc \in {"syms", "name"}, k < c.nsyms, ~EntryInside(obj, c, k),
             pc' = "done", list' = <<>>
      PROVE  ListInv'
  <2>1. k \in 0..(c.nsyms - 1)
    BY <1>o, <1>c, <1>r DEF IsCommand
  <2>2. IsListing(obj, c, <<>>)
    BY <1>r, <2>1 DEF IsListing
  <2> QED
    BY <1>o, <1>r, <1>t, <2>2 DEF ListInv, InTable
<1>7. CASE SymReject
  <2>1. pc = "syms" /\ k < c.nsyms /\ ~EntrySafe /\ list' = <<>> /\ pc' = "done"
    BY <1>7, <1>o, HostReads DEF SymReject
  <2> QED
    BY <1>o, <1>r, <2>1, HostEntries DEF EntryInside
<1>8. CASE SymStart
  <2> DEFINE e == NlAt(obj, k)
  <2>1. pc = "syms" /\ k < c.nsyms /\ EntrySafe /\ list' = list /\ k' = k /\ lc' = lc
    BY <1>8, <1>o, HostReads DEF SymStart
  <2>2. letter' = PreLetter(e) /\ pc' = IF letter' = "s" THEN "sect" ELSE "name"
    BY <1>8, <1>o, HostReads DEF SymStart
  <2>3. letter' = "s" <=> e.kind = "SECT"
    BY <1>o, <2>2, EntryType, SectionOnly DEF IsEntry
  <2>4. pc' = "name" => letter' \in RightLetter(obj, e)
    BY <1>o, <2>2, <2>3 DEF RightLetter, HostEntry
  <2>5. is_safe(obj.base + c.stroff, obj.size) /\ is_safe(EntryOf(obj, c, k), obj.size)
    BY <1>o, <2>1, HostEntries
  <2> QED
    BY <1>o, <1>l, <2>1, <2>2, <2>3, <2>4, <2>5 DEF ListInv, InTable
<1>9. CASE SectSkip \/ SectHit
  <2>1. pc = "sect" /\ pc' \in {"sect", "letter"} /\ list' = list /\ k' = k /\ lc' = lc
        /\ letter' = letter
    BY <1>9 DEF SectSkip, SectHit, CanSeek
  <2> QED
    BY <1>o, <2>1 DEF ListInv, InTable
<1>10. CASE SectWild
  <2>1. pc = "sect" /\ Index = 0
    BY <1>10 DEF SectWild, CanSeek
  <2>2. Index = NlAt(obj, k).sect
    BY <1>o, HostReads DEF Index
  <2> QED
    BY <1>s, <2>1, <2>2 DEF ListInv
<1>11. CASE SectNone
  <2>1. pc = "sect" /\ pc' = "name" /\ list' = list /\ k' = k /\ lc' = lc /\ letter' = letter
        /\ (h.i >= ncmds \/ ~is_safe(h.lc, obj.size)
            \/ (Cmd(mem, h.lc) = "SEGMENT" /\ ~AtSegment))
    BY <1>11 DEF SectNone
  <2>2. h.i \in 0..ncmds /\ h.lc = obj.off[h.i] /\ ncmds = obj.ncmds
        /\ \A j \in 0..(h.i - 1) : ~Holds(obj, j, NlAt(obj, k).sect)
    BY <1>o, <2>1 DEF SeekInv, HeaderInv, Active
  <2>3. ASSUME NEW j \in Found(obj, NlAt(obj, k).sect) PROVE FALSE
    <3>1. j \in 0..(obj.ncmds - 1) /\ Holds(obj, j, NlAt(obj, k).sect)
          /\ \A g \in 0..j : SegmentInside(obj, g)
      BY <2>3 DEF Found
    <3>2. ~(j \in 0..(h.i - 1))
      BY <2>2, <3>1
    <3>3. h.i \in 0..j /\ ~(h.i >= ncmds)
      BY <1>o, <2>2, <3>1, <3>2
    <3>4. SegmentInside(obj, h.i)
      BY <3>1, <3>3
    <3> QED
      BY <1>o, <2>1, <2>2, <3>3, <3>4, HostReads DEF SegmentInside, AtSegment
  <2>4. letter \in RightLetter(obj, NlAt(obj, k))
    BY <2>1, <2>3 DEF RightLetter, ListInv
  <2> QED
    BY <1>o, <2>1, <2>4 DEF ListInv, InTable
<1>12. CASE SectLetter
  <2> DEFINE e == NlAt(obj, k)  secs == LcAt(obj, found[1]).secs
  <2>1. pc = "letter" /\ pc' = "name" /\ list' = list /\ k' = k /\ lc' = lc
    BY <1>12 DEF SectLetter
  <2>2. h.i \in 0..ncmds /\ h.i < ncmds /\ h.lc = obj.off[h.i] /\ h.count = obj.first[h.i]
        /\ ncmds = obj.ncmds /\ SegmentInside(obj, h.i) /\ Holds(obj, h.i, e.sect)
        /\ found = <<h.lc, e.sect - h.count>>
        /\ \A j \in 0..(h.i - 1) : SegmentInside(obj, j)
    BY <1>o, <2>1 DEF SeekInv, HeaderInv, Active
  <2>3. h.i \in 0..(obj.ncmds - 1)
    BY <1>o, <2>2
  <2>4. h.i \in Found(obj, e.sect)
    <3>1. \A g \in 0..(h.i) : g = h.i \/ g \in 0..(h.i - 1)
      BY <2>3
    <3> QED
      BY <2>2, <2>3, <3>1 DEF Found
  <2>5. found[1] = obj.off[h.i] /\ found[2] = e.sect - obj.first[h.i]
    BY <2>2
  <2>6. found[2] \in DOMAIN secs
    <3>1. secs \in Seq(STRING \X STRING)
      BY <1>o, CommandType DEF IsCommand
    <3>2. obj.first[h.i + 1] =
            obj.first[h.i] + (IF LcAt(obj, obj.off[h.i]).cmd = "SEGMENT" THEN Len(secs) ELSE 0)
      BY <1>o, <2>3, <2>5 DEF IsObject
    <3>3. obj.first[h.i] \in Nat /\ e.sect \in Nat
      <4>1. h.i \in 0..obj.ncmds
        BY <1>o, <2>3
      <4>2. e.sect \in 0..255
        BY <1>o, EntryType DEF IsEntry
      <4>3. obj.first \in [0..obj.ncmds -> Nat]
        BY <1>o DEF IsObject
      <4>4. \A n \in 0..255 : n \in Nat
        OBVIOUS
      <4> HIDE DEF e
      <4> QED
        BY <4>1, <4>2, <4>3, <4>4
    <3>4. Len(secs) \in Nat /\ DOMAIN secs = 1..Len(secs)
      BY <3>1
    <3> QED
      BY <2>2, <2>5, <3>2, <3>3, <3>4 DEF Holds
  <2>7. found \notin mem.sec /\ letter' = SectionLetter(secs[found[2]])
    BY <1>12, <1>o, <2>6, HostReads DEF SectLetter, Untouched
  <2>8. letter' \in RightLetter(obj, e)
    BY <1>o, <2>1, <2>4, <2>5, <2>7 DEF RightLetter, ListInv
  <2> QED
    BY <1>o, <2>1, <2>8 DEF ListInv, InTable
<1>16. CASE SectAstray
  BY <1>16, <1>o DEF SectAstray, Astray
<1>13. CASE AddSymbol
  <2> DEFINE node == [sym |-> k, letter |-> Cased(letter, Entry(mem, k).ext), name |-> NameAt]
  <2>1. pc = "name" /\ pc' = "syms" /\ list' = Append(list, node) /\ k' = k + 1 /\ lc' = lc
        /\ is_safe(NameAt, obj.size)
    BY <1>13 DEF AddSymbol, add_list
  <2>2. NameAt = NameOf(obj, c, k) /\ Entry(mem, k) = NlAt(obj, k)
    BY <1>o, HostEntries, HostReads
  <2>3. EntryInside(obj, c, k) /\ RightNode(obj, c, k, node) /\ k < c.nsyms
    BY <2>1, <2>2 DEF ListInv, EntryInside, RightNode, RightlyLettered
  <2>4. list \in Seq(Node) /\ Len(list) = k
    BY <1>l, <2>1 DEF TypeOK
  <2>5. Len(list') = k + 1 /\ list'[k + 1] = node
        /\ \A n \in 0..(k - 1) : list'[n + 1] = list[n + 1]
    BY <1>o, <2>1, <2>4
  <2>6. \A n \in 0..k : n = k \/ n \in 0..(k - 1)
    BY <1>o
  <2>7. \A n \in 0..(k' - 1) : EntryInside(obj, c, n) /\ RightNode(obj, c, n, list'[n + 1])
    BY <1>l, <1>o, <2>1, <2>3, <2>5, <2>6
  <2>8. k' <= c.nsyms
    BY <1>o, <1>c, <2>1, <2>3 DEF IsCommand
  <2> QED
    BY <1>o, <2>1, <2>5, <2>7, <2>8 DEF ListInv, InTable
<1>14. CASE NameReject
  <2>1. pc = "name" /\ ~is_safe(NameAt, obj.size) /\ list' = <<>> /\ pc' = "done"
    BY <1>14 DEF NameReject
  <2>2. k < c.nsyms
    BY <2>1 DEF ListInv
  <2> QED
    BY <1>o, <1>r, <2>1, <2>2, HostEntries DEF EntryInside
<1>15. CASE Finished \/ UNCHANGED vars
  BY <1>15, <1>o DEF Finished, vars, ListInv, InTable
<1> QED
  BY <1>1, <1>2, <1>3, <1>4, <1>5, <1>6, <1>7, <1>8, <1>9, <1>10, <1>11, <1>12,
     <1>13, <1>14, <1>15, <1>16 DEF Next

LEMMA HostInit == Init => HostIInv
  BY IndInit, ListInit DEF HostIInv

LEMMA HostStep == HostIInv /\ [Next]_vars => HostIInv'
<1>1. HostOrder' <=> HostOrder
  BY DEF HostOrder
<1> QED
  BY <1>1, IndStep, ListStep DEF HostIInv

\* For objects in the host's order whose section symbols have a section, the
\* nested loops do what the contract says: the answer, given once, is the list
\* of the first symbol table with the right letters, or nothing.
THEOREM ListingIsRight == ASSUME HostOrder PROVE Spec => Implements
<1>1. Init => Contract!Init
  BY DEF Init, Ends, Contract!Init
<1>2. HostIInv /\ HostIInv' /\ [Next]_vars =>
        [Contract!Answer]_<<file, pc \in Ends, IF pc = "done" THEN list ELSE <<>>>>
  <2> SUFFICES ASSUME HostIInv, HostIInv', [Next]_vars
               PROVE  [Contract!Answer]_<<file, pc \in Ends,
                                         IF pc = "done" THEN list ELSE <<>>>>
    OBVIOUS
  <2>1. file' = file /\ pc \notin {"crash", "astray"} /\ pc' \notin {"crash", "astray"}
    BY DEF HostIInv, ListInv, Next, vars, StartReject, StartWalk, WalkEnd, WalkSkip,
           WalkSymtab, SymsEnd, SymReject, SymStart, SectSkip, SectHit, SectWild, SectNone,
           SectLetter, SectAstray, AddSymbol, NameReject, Finished
  <2>2. CASE pc' = "done" /\ pc # "done"
    <3>1. IsAnswer(obj', list')
      BY <2>2 DEF HostIInv, ListInv
    <3> QED
      BY <2>1, <2>2, <3>1 DEF Contract!Answer, RightFor, Ends, obj
  <2>3. CASE pc' # "done"
    <3>1. pc # "done"
      BY <2>3 DEF Next, vars, StartReject, StartWalk, WalkEnd, WalkSkip, CanWalk,
           WalkSymtab, SymsEnd, SymReject, SymStart, SectSkip, SectHit, CanSeek, SectWild,
           SectNone, SectLetter, SectAstray, AddSymbol, NameReject, Finished, Ends
    <3> QED
      BY <2>1, <2>3, <3>1 DEF Ends
  <2>4. CASE pc = "done"
    <3>1. UNCHANGED vars
      BY <2>4 DEF Next, vars, StartReject, StartWalk, WalkEnd, WalkSkip, CanWalk,
           WalkSymtab, SymsEnd, SymReject, SymStart, SectSkip, SectHit, CanSeek, SectWild,
           SectNone, SectLetter, SectAstray, AddSymbol, NameReject, Finished, Ends
    <3> QED
      BY <3>1 DEF vars
  <2> QED
    BY <2>2, <2>3, <2>4
<1> QED
  BY <1>1, <1>2, HostInit, HostStep, PTL DEF Spec, Implements, Contract!Spec
=============================================================================
