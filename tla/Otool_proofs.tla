---------------------------- MODULE Otool_proofs ----------------------------
(***************************************************************************)
(* Proofs about Otool, for any objects and any sequence of them.           *)
(***************************************************************************)
EXTENDS Otool, FiniteSetTheorems, TLAPS

-----------------------------------------------------------------------------
(***************************************************************************)
(* What is read of an object.                                              *)
(***************************************************************************)

LEMMA ReadType == ASSUME NEW v \in Nat, NEW b \in BOOLEAN PROVE Read(v, b) \in Nat
<1>1. Far \in Nat
  BY FormatAssumption
<1>2. v * Far \in Nat
  BY <1>1
<1> QED
  BY <1>2 DEF Read

LEMMA Sizes ==
  ASSUME NEW o
  PROVE  /\ SizeofSegment(o.is64) \in {56, 72} /\ SizeofSection(o.is64) \in {68, 80}
         /\ SizeofHeader(o.is64) \in {28, 32}
  BY DEF SizeofSegment, SizeofSection, SizeofHeader

LEMMA CommandType == ASSUME NEW o, IsObject(o), NEW p PROVE IsCommand(LcAt(o, p))
<1>1. CASE p \in DOMAIN o.lc
  BY <1>1 DEF IsObject, LcAt
<1>2. CASE p \notin DOMAIN o.lc
  <2>1. NoCommand.secs \in Seq(STRING \X STRING)
    BY DEF NoCommand
  <2> QED
    BY <1>2, <2>1 DEF LcAt, NoCommand, IsCommand, Commands
<1> QED
  BY <1>1, <1>2

LEMMA OffsetType ==
  ASSUME NEW o, NEW p \in Nat, NEW n \in Nat, n > 0 PROVE SectionOffset(o, p, n) \in Nat
<1>1. CASE o.is64
  BY <1>1 DEF SectionOffset, SizeofSegment, SizeofSection
<1>2. CASE ~o.is64
  BY <1>2 DEF SectionOffset, SizeofSegment, SizeofSection
<1> QED
  BY <1>1, <1>2

\* A section that text_in_seg takes for the text section is one of the object's,
\* and its header has an address, a size and an offset.
LEMMA TextIsSection == ASSUME NEW o, NEW q, IsText(o, q) PROVE q \in Sections(o)
  BY DEF IsText, Sections

LEMMA ExtentType ==
  ASSUME NEW f \in DOMAIN Objects, NEW q \in Sections(Objects[f])
  PROVE  /\ q \in DOMAIN Extents[f]
         /\ Extents[f][q].addr \in Nat /\ Extents[f][q].size \in Nat
         /\ Extents[f][q].offset \in Nat
<1>1. q \in DOMAIN Extents[f] /\ Extents[f][q] \in [addr : Nat, size : Nat, offset : Nat]
  BY OtoolAssumption
<1> QED
  BY <1>1

LEMMA ObjectType ==
  ASSUME NEW f \in DOMAIN Objects
  PROVE  /\ IsObject(Objects[f]) /\ Objects[f].swap \in BOOLEAN /\ Objects[f].base \in Nat
         /\ Objects[f].ncmds \in Nat /\ Objects[f].size \in Nat
  BY OtoolAssumption DEF IsObject

\* The object being handled is one of the input's.
LEMMA Current ==
  ASSUME TypeOK, s <= Len(input)
  PROVE  /\ input \in Seq(DOMAIN Objects) /\ s \in 1..Len(input)
         /\ name \in DOMAIN Objects /\ name \in Given /\ m \in Mapping(name)
         /\ obj = Objects[name]
<1>1. input \in Seq(DOMAIN Objects)
  BY OtoolAssumption DEF TypeOK
<1>2. s \in 1..Len(input)
  BY <1>1 DEF TypeOK
<1>3. input[s] \in DOMAIN Objects /\ input[s] \in Given
  BY <1>1, <1>2 DEF Given
<1>4. mem[input[s]] \in Mapping(input[s])
  BY <1>3 DEF TypeOK
<1> QED
  BY <1>1, <1>2, <1>3, <1>4 DEF name, m, obj

LEMMA Reads ==
  ASSUME TypeOK, s <= Len(input)
  PROVE  /\ Ncmds \in Nat /\ Nsects \in Nat
         /\ \A C : Cmdsize(C) \in Nat
         /\ found \in Sections(obj) =>
              Extent("addr") \in Nat /\ Extent("size") \in Nat /\ Extent("offset") \in Nat
<1>1. /\ IsObject(obj) /\ obj.swap \in BOOLEAN /\ obj.ncmds \in Nat
      /\ name \in DOMAIN Objects /\ obj = Objects[name]
  BY Current, ObjectType
<1>2. Ncmds \in Nat
  BY <1>1, ReadType DEF Ncmds
<1>3. LcAt(obj, lc).cmdsize \in Nat /\ Len(LcAt(obj, lc).secs) \in Nat
  BY <1>1, CommandType DEF IsCommand
<1>4. Nsects \in Nat
  BY <1>1, <1>3, ReadType DEF Nsects
<1>5. ASSUME NEW C PROVE Cmdsize(C) \in Nat
  <2>1. Converted(C) \in BOOLEAN
    BY <1>1 DEF Converted
  <2> QED
    BY <1>3, <2>1, ReadType DEF Cmdsize
<1>6. ASSUME found \in Sections(obj)
      PROVE  Extent("addr") \in Nat /\ Extent("size") \in Nat /\ Extent("offset") \in Nat
  <2>1. /\ Extents[name][found]["addr"] \in Nat /\ Extents[name][found]["size"] \in Nat
        /\ Extents[name][found]["offset"] \in Nat
    BY <1>1, <1>6, ExtentType
  <2> QED
    BY <1>1, <2>1, ReadType DEF Extent
<1> QED
  BY <1>2, <1>4, <1>5, <1>6

-----------------------------------------------------------------------------
(***************************************************************************)
(* Type correctness.                                                       *)
(***************************************************************************)

LEMMA TypeInit == Init => TypeOK
<1> SUFFICES ASSUME Init PROVE TypeOK
  OBVIOUS
<1>1. input \in Seq(DOMAIN Objects)
  BY OtoolAssumption DEF Init
<1>2. s \in 1..(Len(input) + 1)
  BY <1>1 DEF Init
<1>3. \A f \in Given : Untouched(f) \in Mapping(f)
  BY DEF Untouched, Mapping
<1>4. mem = [f \in Given |-> mem[f]] /\ \A f \in Given : mem[f] \in Mapping(f)
  BY <1>3 DEF Init, Given
<1>5. out \in Seq(Item)
  BY DEF Init
<1> QED
  BY <1>2, <1>4, <1>5 DEF Init, TypeOK, Busy

\* Only the mapping of the object being handled changes.
LEMMA MemoryStep ==
  ASSUME TypeOK, s <= Len(input), input' = input,
         NEW v \in Mapping(name), mem' = [mem EXCEPT ![name] = v]
  PROVE  /\ mem' = [f \in Given |-> mem'[f]] /\ \A f \in Given : mem'[f] \in Mapping(f)
         /\ Given' = Given
  BY Current DEF TypeOK, Given

LEMMA TypeStep == TypeOK /\ [Next]_vars => TypeOK'
<1> SUFFICES ASSUME TypeOK, [Next]_vars PROVE TypeOK'
  OBVIOUS
<1>i. input \in Seq(DOMAIN Objects) /\ Len(input) \in Nat
  BY OtoolAssumption DEF TypeOK
<1>s. s \in Nat /\ (s <= Len(input) => s + 1 \in 1..(Len(input) + 1))
  BY <1>i DEF TypeOK
<1>g. input' = input => Given' = Given
  BY DEF Given
<1>1. CASE Reject
  BY <1>1, <1>s, <1>g DEF Reject, Starting, Leave, TypeOK, Busy
<1>2. CASE Start
  <2>1. s <= Len(input)
    BY <1>2 DEF Start, Starting
  <2>2. mem' = [mem EXCEPT ![name] = [m EXCEPT !.ncmds = (@ # obj.swap)]]
    BY <1>2 DEF Start, m
  <2>3. [m EXCEPT !.ncmds = (@ # obj.swap)] \in Mapping(name)
    BY <2>1, Current DEF Mapping
  <2>4. mem' = [f \in Given |-> mem'[f]] /\ \A f \in Given : mem'[f] \in Mapping(f)
    BY <1>2, <2>1, <2>2, <2>3, MemoryStep DEF Start
  <2>5. obj.base + SizeofHeader(obj.is64) \in Nat
    <3>1. obj.base \in Nat
      BY <2>1, Current, ObjectType
    <3> QED
      BY <3>1, Sizes
  <2> QED
    BY <1>2, <1>g, <2>1, <2>4, <2>5 DEF Start, TypeOK, Busy
<1>3. CASE WalkEnd
  BY <1>3, <1>s, <1>g DEF WalkEnd, Leave, TypeOK, Busy
<1>c. ASSUME pc = "walk", Convert, input' = input
      PROVE  /\ mem' = [f \in Given |-> mem'[f]] /\ \A f \in Given : mem'[f] \in Mapping(f)
             /\ s <= Len(input)
  <2>1. s <= Len(input)
    BY <1>c DEF TypeOK, Busy
  <2>2. mem' = [mem EXCEPT ![name] = [m EXCEPT !.lc = After]]
    BY <1>c DEF Convert, m
  <2>3. After \in SUBSET Nat
    BY <2>1, Current DEF After, Toggle, Mapping, TypeOK
  <2>4. [m EXCEPT !.lc = After] \in Mapping(name)
    BY <2>1, <2>3, Current DEF Mapping
  <2> QED
    BY <1>c, <2>1, <2>2, <2>4, MemoryStep
<1>4. CASE WalkSkip
  <2>1. Cmdsize(After) \in Nat
    BY <1>4, Reads DEF WalkSkip, CanWalk, TypeOK, Busy
  <2> QED
    BY <1>4, <1>c, <1>g, <2>1 DEF WalkSkip, CanWalk, TypeOK, Busy
<1>5. CASE SegmentCut
  BY <1>5, <1>c, <1>s, <1>g DEF SegmentCut, CanWalk, Leave, TypeOK, Busy
<1>6. CASE SegmentOpen
  BY <1>6, <1>c, <1>g DEF SegmentOpen, CanWalk, TypeOK, Busy
<1>7. CASE SectionSkip
  BY <1>7, <1>g DEF SectionSkip, CanTest, TypeOK, Busy
<1>8. CASE SegmentEnd
  <2>1. Cmdsize(m.lc) \in Nat
    BY <1>8, Reads DEF SegmentEnd, TypeOK, Busy
  <2> QED
    BY <1>8, <1>g, <2>1 DEF SegmentEnd, TypeOK, Busy
<1>9. CASE SectionFound
  <2>1. s <= Len(input)
    BY <1>9 DEF SectionFound, CanTest, TypeOK, Busy
  <2>2. This \in Nat
    BY OffsetType DEF This, TypeOK
  <2>3. This \in Sections(obj)
    BY <1>9, TextIsSection DEF SectionFound, TextHere
  <2>4. CASE is_safe(This + SizeofSection(obj.is64), obj.size)
    <3>1. /\ mem' = [mem EXCEPT ![name] =
                       [m EXCEPT !.sec = IF obj.swap THEN Toggle(@, This) ELSE @]]
          /\ out' = Append(out, Title) /\ pc' = "dump" /\ s' = s /\ input' = input
      BY <1>9, <2>4 DEF SectionFound, m
    <3>2. [m EXCEPT !.sec = IF obj.swap THEN Toggle(@, This) ELSE @] \in Mapping(name)
      BY <2>1, <2>2, Current DEF Mapping, Toggle
    <3>3. mem' = [f \in Given |-> mem'[f]] /\ \A f \in Given : mem'[f] \in Mapping(f)
      BY <2>1, <3>1, <3>2, MemoryStep
    <3>4. Title \in Item
      BY <2>1, Current DEF Title, Item
    <3>5. out' \in Seq(Item)
      BY <3>1, <3>4 DEF TypeOK
    <3>6. obj' = obj
      BY <3>1 DEF obj, name
    <3> QED
      BY <1>9, <1>g, <2>1, <2>2, <2>3, <3>1, <3>3, <3>5, <3>6
         DEF SectionFound, TypeOK, Busy
  <2>5. CASE ~is_safe(This + SizeofSection(obj.is64), obj.size)
    BY <1>9, <1>s, <1>g, <2>1, <2>2, <2>5 DEF SectionFound, Leave, TypeOK, Busy
  <2> QED
    BY <2>4, <2>5
<1>10. CASE DumpLine
  <2>1. s <= Len(input) /\ found \in Sections(obj) /\ name \in DOMAIN Objects /\ obj = Objects[name]
    BY <1>10, Current DEF DumpLine, CanDump, TypeOK, Busy
  <2>2. /\ Extent("addr") \in Nat /\ Extent("size") \in Nat /\ Extent("offset") \in Nat
        /\ line < Extent("size") /\ line \in Nat /\ obj.base \in Nat
    BY <1>10, <2>1, Reads, ObjectType DEF DumpLine, CanDump, TypeOK
  <2>3. found \in DOMAIN m.add /\ m.add \in [DOMAIN Extents[name] -> Nat] /\ m.add[found] \in Nat
    BY <2>1, Current, ExtentType DEF Mapping
  <2>4. mem' = [mem EXCEPT ![name] = [m EXCEPT !.add = [m.add EXCEPT ![found] = m.add[found] + 16]]]
    <3>1. mem' = [mem EXCEPT ![name] =
                    [mem[name] EXCEPT !.add =
                       [mem[name].add EXCEPT ![found] = mem[name].add[found] + 16]]]
      BY <1>10, Zenon DEF DumpLine
    <3> QED
      BY <3>1 DEF m
  <2>5. [m EXCEPT !.add = [m.add EXCEPT ![found] = m.add[found] + 16]] \in Mapping(name)
    <3>1. [m.add EXCEPT ![found] = m.add[found] + 16] \in [DOMAIN Extents[name] -> Nat]
      BY <2>3
    <3>2. m \in Mapping(name)
      BY <2>1, Current
    <3> QED
      BY <3>1, <3>2 DEF Mapping
  <2>6. mem' = [f \in Given |-> mem'[f]] /\ \A f \in Given : mem'[f] \in Mapping(f)
    BY <1>10, <2>1, <2>4, <2>5, MemoryStep DEF DumpLine
  <2> DEFINE item == [obj |-> name, title |-> FALSE, address |-> Extent("addr") + m.add[found],
                      at |-> Str, bytes |-> hexdump_data(Extent("size") - line)]
  <2>7. item \in Item
    <3>1. Str \in Nat /\ hexdump_data(Extent("size") - line) \in Nat
      BY <2>2 DEF Str, hexdump_data
    <3> QED
      BY <2>1, <2>2, <2>3, <3>1 DEF Item
  <2>8. out' = Append(out, item)
    BY <1>10 DEF DumpLine
  <2> HIDE DEF item
  <2>9. out' \in Seq(Item)
    BY <2>7, <2>8 DEF TypeOK
  <2>10. obj' = obj
    BY <1>10 DEF DumpLine, obj, name
  <2>11. line' \in Nat /\ pc' = "dump" /\ UNCHANGED <<input, s, pc, i, lc, sec, found>>
    BY <1>10, <2>2 DEF DumpLine, CanDump
  <2> QED
    BY <1>g, <2>1, <2>6, <2>9, <2>10, <2>11 DEF TypeOK, Busy
<1>11. CASE DumpEnd
  BY <1>11, <1>s, <1>g DEF DumpEnd, Leave, TypeOK, Busy
<1>12. CASE Return
  BY <1>12, <1>g DEF Return, TypeOK, Busy
<1>13. CASE Finished \/ UNCHANGED vars
  BY <1>13, <1>g DEF Finished, vars, TypeOK, Busy, obj, name
<1> QED
  BY <1>1, <1>2, <1>3, <1>4, <1>5, <1>6, <1>7, <1>8, <1>9, <1>10, <1>11, <1>12, <1>13 DEF Next

\* Every variable has its type, and what is dumped is one of the object's sections.
THEOREM TypeCorrect == Spec => []TypeOK
  BY TypeInit, TypeStep, PTL DEF Spec

-----------------------------------------------------------------------------
(***************************************************************************)
(* What the steps print.                                                   *)
(***************************************************************************)

\* Nothing but a title or a line is ever printed.
LEMMA Output ==
  ASSUME TypeOK, [Next]_vars
  PROVE  \/ out' = out
         \/ SectionFound /\ out' = Append(out, Title)
         \/ DumpLine
<1>1. CASE SectionFound
  BY <1>1 DEF SectionFound
<1>2. CASE ~SectionFound /\ ~DumpLine
  BY <1>2
     DEF Next, vars, Reject, Start, WalkEnd, WalkSkip, SegmentCut, SegmentOpen, SectionSkip,
         SegmentEnd, DumpEnd, Return, Finished
<1> QED
  BY <1>1, <1>2

\* The line dump_section prints.
Line == [obj |-> name, title |-> FALSE, address |-> Extent("addr") + m.add[found],
         at |-> Str, bytes |-> hexdump_data(Extent("size") - line)]

\* A line is inside the file and inside the section it is dumped from.
LineInside(item) ==
  ~item.title =>
    LET o == Objects[item.obj] IN
    /\ is_safe(item.at, o.size)
    /\ ~o.swap => \E q \in Sections(o) :
         LET e == Extents[item.obj][q] IN
         /\ o.base + e.offset <= item.at
         /\ item.at + item.bytes <= o.base + e.offset + e.size

LEMMA LineIsInside == ASSUME TypeOK, DumpLine PROVE LineInside(Line) /\ out' = Append(out, Line)
<1>1. out' = Append(out, Line)
  BY DEF DumpLine, Line
<1>2. /\ s <= Len(input) /\ found \in Sections(obj) /\ name \in DOMAIN Objects
      /\ obj = Objects[name] /\ is_safe(Str, obj.size)
  BY Current DEF DumpLine, CanDump, TypeOK, Busy
<1>3. /\ Extent("offset") \in Nat /\ Extent("size") \in Nat /\ obj.base \in Nat
      /\ line \in Nat /\ line < Extent("size")
  BY <1>2, Reads, ObjectType DEF DumpLine, CanDump, TypeOK
<1>4. /\ obj.base + Extent("offset") <= Str
      /\ Str + hexdump_data(Extent("size") - line) <= obj.base + Extent("offset") + Extent("size")
  BY <1>3 DEF Str, hexdump_data
<1>5. ~obj.swap => /\ Extent("offset") = Extents[name][found].offset
                   /\ Extent("size") = Extents[name][found].size
  BY DEF Extent, Read
<1>6. /\ Line.title = FALSE /\ Line.obj = name /\ Line.at = Str
      /\ Line.bytes = hexdump_data(Extent("size") - line)
  BY DEF Line
<1>7. is_safe(Line.at, Objects[Line.obj].size)
  BY <1>2, <1>6
<1>8. ASSUME ~obj.swap
      PROVE  LET e == Extents[Line.obj][found] IN
             /\ obj.base + e.offset <= Line.at
             /\ Line.at + Line.bytes <= obj.base + e.offset + e.size
  BY <1>4, <1>5, <1>6, <1>8
<1> QED
  BY <1>1, <1>2, <1>6, <1>7, <1>8 DEF LineInside

\* Appending one item to a list of which every item has a property.
LEMMA OneItemMore ==
  ASSUME out \in Seq(Item), NEW x, out' = Append(out, x)
  PROVE  /\ Len(out') = Len(out) + 1 /\ out'[Len(out) + 1] = x
         /\ \A n \in 1..Len(out) : out'[n] = out[n]
  OBVIOUS

\* Every line printed lies inside the file, and inside a section of the object.
THEOREM LinesAreInside == Spec => []LinesInside
<1>1. Init => LinesInside
  BY DEF Init, LinesInside
<1>2. TypeOK /\ LinesInside /\ [Next]_vars => LinesInside'
  <2> SUFFICES ASSUME TypeOK, LinesInside, [Next]_vars,
                      NEW n \in 1..Len(out')
               PROVE  LineInside(out'[n])
    BY DEF LinesInside, LineInside
  <2>o. out \in Seq(Item) /\ Len(out) \in Nat
    BY DEF TypeOK
  <2>1. \A g \in 1..Len(out) : LineInside(out[g])
    BY DEF LinesInside, LineInside
  <2>2. CASE out' = out
    BY <2>1, <2>2
  <2>3. CASE out' = Append(out, Title)
    <3>1. LineInside(Title)
      BY DEF Title, LineInside
    <3>2. n \in 1..Len(out) \/ n = Len(out) + 1
      BY <2>o, <2>3, OneItemMore
    <3> QED
      BY <2>o, <2>1, <2>3, <3>1, <3>2, OneItemMore
  <2>4. CASE DumpLine
    <3>1. out' = Append(out, Line) /\ LineInside(Line)
      BY <2>4, LineIsInside
    <3>2. n \in 1..Len(out) \/ n = Len(out) + 1
      BY <2>o, <3>1, OneItemMore
    <3> QED
      BY <2>o, <2>1, <3>1, <3>2, OneItemMore
  <2> QED
    BY <2>2, <2>3, <2>4, Output
<1> QED
  BY <1>1, <1>2, TypeInit, TypeStep, PTL DEF Spec

-----------------------------------------------------------------------------
(***************************************************************************)
(* Objects in the host's order: what is read is what the file says.        *)
(***************************************************************************)

LEMMA SameInput == [Next]_vars => input' = input /\ Given' = Given /\ HostOrder' = HostOrder
<1> SUFFICES ASSUME [Next]_vars PROVE input' = input
  BY DEF Given, HostOrder
<1>1. CASE Reject \/ Start \/ WalkEnd \/ WalkSkip \/ SegmentCut \/ SegmentOpen
  BY <1>1 DEF Reject, Start, WalkEnd, WalkSkip, SegmentCut, SegmentOpen
<1>2. CASE SectionSkip \/ SegmentEnd \/ SectionFound
  BY <1>2 DEF SectionSkip, SegmentEnd, SectionFound
<1>3. CASE DumpLine
  BY <1>3 DEF DumpLine
<1>4. CASE DumpEnd \/ Return \/ Finished \/ UNCHANGED vars
  BY <1>4 DEF DumpEnd, Return, Finished, vars
<1> QED
  BY <1>1, <1>2, <1>3, <1>4 DEF Next

LEMMA HostReads ==
  ASSUME TypeOK, HostOrder, PlainInv, s <= Len(input)
  PROVE  /\ ~obj.swap /\ ~m.ncmds /\ m.lc = {} /\ m.sec = {}
         /\ Ncmds = obj.ncmds /\ After = {}
         /\ Cmd({}) = LcAt(obj, lc).cmd /\ Cmdsize({}) = LcAt(obj, lc).cmdsize
         /\ Nsects = Len(LcAt(obj, lc).secs)
         /\ \A field : Extent(field) = Extents[name][found][field]
<1>1. s \in 1..Len(input) /\ name \in Given /\ m \in Mapping(name) /\ obj.swap \in BOOLEAN
  BY Current, ObjectType
<1>2. ~obj.swap
  BY <1>1 DEF HostOrder, obj, name
<1>3. ~m.ncmds /\ m.lc = {} /\ m.sec = {}
  BY <1>1 DEF PlainInv, m
<1>4. (m.ncmds = obj.swap) /\ Converted({})
  <2>1. m.ncmds = FALSE /\ obj.swap = FALSE
    BY <1>1, <1>2, <1>3 DEF Mapping
  <2> QED
    BY <2>1 DEF Converted
<1> QED
  BY <1>2, <1>3, <1>4 DEF Ncmds, After, Cmd, Cmdsize, Nsects, Extent, Read

\* What is changed in a mapping leaves the rest of it alone.
LEMMA OnePartChanges ==
  ASSUME NEW f, NEW r \in Mapping(f), NEW v, NEW g
  PROVE  /\ [r EXCEPT !.ncmds = v].ncmds = v /\ [r EXCEPT !.ncmds = v].lc = r.lc
         /\ [r EXCEPT !.ncmds = v].sec = r.sec
         /\ [r EXCEPT !.lc = v].ncmds = r.ncmds /\ [r EXCEPT !.lc = v].lc = v
         /\ [r EXCEPT !.lc = v].sec = r.sec
         /\ [r EXCEPT !.sec = v].ncmds = r.ncmds /\ [r EXCEPT !.sec = v].lc = r.lc
         /\ [r EXCEPT !.sec = v].sec = v
         /\ [r EXCEPT !.add[g] = v].ncmds = r.ncmds /\ [r EXCEPT !.add[g] = v].lc = r.lc
         /\ [r EXCEPT !.add[g] = v].sec = r.sec
  BY DEF Mapping

LEMMA PlainInit == Init => PlainInv
  BY DEF Init, PlainInv, Given, Untouched

LEMMA PlainStep == TypeOK /\ PlainInv /\ [Next]_vars => PlainInv'
<1> SUFFICES ASSUME TypeOK, PlainInv, [Next]_vars, HostOrder PROVE PlainInv'
  BY SameInput DEF PlainInv
<1>g. input' = input => Given' = Given
  BY DEF Given
<1>p. \A f \in Given : ~mem[f].ncmds /\ mem[f].lc = {} /\ mem[f].sec = {} /\ mem[f] \in Mapping(f)
  BY DEF PlainInv, TypeOK
<1>1. CASE Start
  <2>1. s <= Len(input) /\ ~obj.swap /\ input' = input
        /\ mem' = [mem EXCEPT ![name].ncmds = (@ # obj.swap)] /\ obj.swap \in BOOLEAN
    BY <1>1, HostReads, Current, ObjectType DEF Start, Starting
  <2>2. ASSUME NEW f \in Given
        PROVE  ~mem'[f].ncmds /\ mem'[f].lc = {} /\ mem'[f].sec = {}
    <3>1. mem[f].ncmds = FALSE
      BY <1>p DEF Mapping
    <3>2. mem'[f] = mem[f] \/ mem'[f] = [mem[f] EXCEPT !.ncmds = (mem[f].ncmds # obj.swap)]
      BY <2>1 DEF TypeOK
    <3>3. (mem[f].ncmds # obj.swap) = FALSE
      BY <2>1, <3>1
    <3>4. LET r == mem[f] IN
          /\ [r EXCEPT !.ncmds = FALSE].ncmds = FALSE /\ [r EXCEPT !.ncmds = FALSE].lc = r.lc
          /\ [r EXCEPT !.ncmds = FALSE].sec = r.sec
      BY <1>p, OnePartChanges
    <3> QED
      BY <1>p, <3>2, <3>3, <3>4
  <2> QED
    BY <1>g, <2>1, <2>2 DEF PlainInv
<1>2. CASE WalkSkip \/ SegmentCut \/ SegmentOpen
  <2>1. s <= Len(input)
    BY <1>2 DEF WalkSkip, SegmentCut, SegmentOpen, CanWalk, TypeOK, Busy
  <2>2. After = {}
    BY <2>1, HostReads
  <2>3. input' = input /\ mem' = [mem EXCEPT ![name].lc = {}]
    BY <1>2, <2>2 DEF WalkSkip, SegmentCut, SegmentOpen, Convert
  <2>4. ASSUME NEW f \in Given
        PROVE  ~mem'[f].ncmds /\ mem'[f].lc = {} /\ mem'[f].sec = {}
    <3>1. mem'[f] = IF f = name THEN [mem[f] EXCEPT !.lc = {}] ELSE mem[f]
      BY <2>3 DEF TypeOK
    <3> QED
      BY <1>p, <3>1, OnePartChanges
  <2> QED
    BY <1>g, <2>3, <2>4 DEF PlainInv
<1>3. CASE SectionFound
  <2>1. s <= Len(input)
    BY <1>3 DEF SectionFound, CanTest, TypeOK, Busy
  <2>2. ~obj.swap
    BY <2>1, HostReads
  <2>3. input' = input /\ (mem' = [mem EXCEPT ![name].sec = mem[name].sec] \/ mem' = mem)
    BY <1>3, <2>2 DEF SectionFound
  <2>4. ASSUME NEW f \in Given
        PROVE  ~mem'[f].ncmds /\ mem'[f].lc = {} /\ mem'[f].sec = {}
    <3>1. mem'[f] = mem[f] \/ mem'[f] = [mem[f] EXCEPT !.sec = mem[f].sec]
      BY <2>3 DEF TypeOK
    <3>2. LET r == mem[f] IN
          /\ [r EXCEPT !.sec = r.sec].ncmds = r.ncmds /\ [r EXCEPT !.sec = r.sec].lc = r.lc
          /\ [r EXCEPT !.sec = r.sec].sec = r.sec
      BY <1>p, OnePartChanges
    <3> QED
      BY <1>p, <3>1, <3>2
  <2> QED
    BY <1>g, <2>3, <2>4 DEF PlainInv
<1>4. CASE DumpLine
  <2>1. input' = input /\ mem' = [mem EXCEPT ![name].add[found] = @ + 16]
    BY <1>4 DEF DumpLine
  <2>2. ASSUME NEW f \in Given
        PROVE  ~mem'[f].ncmds /\ mem'[f].lc = {} /\ mem'[f].sec = {}
    <3>1. mem'[f] = mem[f] \/ mem'[f] = [mem[f] EXCEPT !.add[found] = @ + 16]
      BY <2>1 DEF TypeOK
    <3>2. mem'[f] = mem[f] \/ mem'[f] = [mem[f] EXCEPT !.add[found] = mem[f].add[found] + 16]
      BY <3>1
    <3>3. LET r == mem[f]
              u == [r EXCEPT !.add[found] = r.add[found] + 16] IN
          u.ncmds = r.ncmds /\ u.lc = r.lc /\ u.sec = r.sec
      BY <1>p, OnePartChanges
    <3> QED
      BY <1>p, <3>2, <3>3
  <2> QED
    BY <1>g, <2>1, <2>2 DEF PlainInv
<1>5. CASE ~Start /\ ~WalkSkip /\ ~SegmentCut /\ ~SegmentOpen /\ ~SectionFound /\ ~DumpLine
  <2>1. mem' = mem /\ input' = input
    BY <1>5 DEF Next, vars, Reject, WalkEnd, SectionSkip, SegmentEnd, DumpEnd, Return, Finished
  <2> QED
    BY <1>g, <2>1 DEF PlainInv, HostOrder
<1> QED
  BY <1>1, <1>2, <1>3, <1>4, <1>5

-----------------------------------------------------------------------------
(***************************************************************************)
(* The section that is dumped.                                             *)
(***************************************************************************)

\* The sections of a command, in their order.
LEMMA OffsetOrder ==
  ASSUME NEW o, NEW p \in Nat, NEW a \in Nat, NEW b \in Nat, 0 < a, a <= b
  PROVE  /\ SectionOffset(o, p, a) <= SectionOffset(o, p, b)
         /\ SectionOffset(o, p, a) \in Nat /\ SectionOffset(o, p, b) \in Nat
<1>1. CASE o.is64
  BY <1>1 DEF SectionOffset, SizeofSegment, SizeofSection
<1>2. CASE ~o.is64
  BY <1>2 DEF SectionOffset, SizeofSegment, SizeofSection
<1> QED
  BY <1>1, <1>2

LEMMA SafeBelow ==
  ASSUME NEW p \in Nat, NEW q \in Nat, p <= q, NEW size \in Nat, is_safe(q, size)
  PROVE  is_safe(p, size)
<1>1. size % SizeMod \in Int
  BY FormatAssumption
<1> QED
  BY <1>1 DEF is_safe

LEMMA TextsType ==
  ASSUME NEW o, IsObject(o), NEW j \in 0..o.ncmds
  PROVE  TextsIn(o, j) \subseteq Nat \cap Sections(o)
<1>1. o.off[j] \in Nat
  BY DEF IsObject
<1>2. ASSUME NEW n \in 1..Len(LcAt(o, o.off[j]).secs)
      PROVE  SectionOffset(o, o.off[j], n) \in Nat
  BY <1>1, OffsetType
<1> QED
  BY <1>2, TextIsSection DEF TextsIn

\* At most one section of an object is dumped.
LEMMA DumpedOnce ==
  ASSUME NEW o, IsObject(o), NEW q \in Dumped(o), NEW r \in Dumped(o)
  PROVE  q = r
<1>1. PICK j \in 0..(o.ncmds - 1) :
        /\ q \in TextsIn(o, j) /\ \A g \in 0..(j - 1) : TextsIn(o, g) = {}
        /\ \A x \in TextsIn(o, j) : q <= x
  BY DEF Dumped
<1>2. PICK k \in 0..(o.ncmds - 1) :
        /\ r \in TextsIn(o, k) /\ \A g \in 0..(k - 1) : TextsIn(o, g) = {}
        /\ \A x \in TextsIn(o, k) : r <= x
  BY DEF Dumped
<1>3. o.ncmds \in Nat
  BY DEF IsObject
<1>4. j = k
  BY <1>1, <1>2, <1>3
<1>5. q \in Nat /\ r \in Nat
  BY <1>1, <1>2, <1>3, TextsType
<1> QED
  BY <1>1, <1>2, <1>4, <1>5

LEMMA DumpedType ==
  ASSUME NEW o, IsObject(o), NEW q \in Dumped(o)
  PROVE  q \in Sections(o) /\ q \in Nat
<1>1. PICK j \in 0..(o.ncmds - 1) : q \in TextsIn(o, j)
  BY DEF Dumped
<1>2. o.ncmds \in Nat
  BY DEF IsObject
<1> QED
  BY <1>1, <1>2, TextsType

\* Nothing is dumped of an object whose walk ends at command k without a text section.
LEMMA NothingDumped ==
  ASSUME NEW o, IsObject(o), NEW k \in 0..o.ncmds, \A g \in 0..(k - 1) : TextsIn(o, g) = {},
         k < o.ncmds => ~Reaches(o, k)
  PROVE  Dumped(o) = {}
<1> SUFFICES ASSUME NEW q \in Dumped(o) PROVE FALSE
  OBVIOUS
<1>1. PICK j \in 0..(o.ncmds - 1) : q \in TextsIn(o, j) /\ Reaches(o, j)
  BY DEF Dumped
<1>2. o.ncmds \in Nat
  BY DEF IsObject
<1>3. j \notin 0..(k - 1)
  BY <1>1
<1>4. 0..k \subseteq 0..j /\ k < o.ncmds
  BY <1>1, <1>2, <1>3
<1>5. Reaches(o, k)
  BY <1>1, <1>4 DEF Reaches
<1> QED
  BY <1>4, <1>5

\* The text section that the walk finds is the one of the contract.
LEMMA FoundFirst ==
  ASSUME TypeOK, HostOrder, PlainInv, WalkInv, SectionFound
  PROVE  IF is_safe(This + SizeofSection(obj.is64), obj.size)
         THEN This \in Dumped(obj) ELSE Dumped(obj) = {}
<1>1. pc = "sections" /\ s <= Len(input) /\ i < obj.ncmds /\ lc = obj.off[i]
      /\ LcAt(obj, lc).cmd = "SEGMENT" /\ Reaches(obj, i) /\ HeaderSafe(obj)
      /\ i \in Nat /\ lc \in Nat /\ sec \in Nat
  BY DEF SectionFound, CanTest, TypeOK, Busy, WalkInv
<1>2. IsObject(obj) /\ obj.ncmds \in Nat
  BY <1>1, Current, ObjectType
<1> DEFINE N == Len(LcAt(obj, lc).secs)
<1>3. N \in Nat
  BY <1>2, CommandType DEF IsCommand
<1>4. sec < N /\ is_safe(This, obj.size) /\ IsText(obj, This)
  BY <1>1, HostReads DEF SectionFound, CanTest, TextHere
<1>5. This \in TextsIn(obj, i)
  <2>1. sec + 1 \in 1..N
    BY <1>1, <1>3, <1>4
  <2> QED
    BY <1>1, <1>4, <2>1 DEF TextsIn, This
<1>6. ASSUME NEW r \in TextsIn(obj, i) PROVE This <= r
  <2>1. PICK n \in 1..N : r = SectionOffset(obj, lc, n) /\ IsText(obj, r)
    BY <1>1 DEF TextsIn
  <2>2. n \notin 1..sec
    BY <1>1, <2>1 DEF WalkInv, Busy
  <2>3. n \in Nat /\ sec + 1 <= n
    BY <1>1, <1>3, <2>1, <2>2
  <2> QED
    BY <1>1, <2>1, <2>3, OffsetOrder DEF This
<1>7. i \in 0..(obj.ncmds - 1)
  BY <1>1, <1>2
<1>8. \A g \in 0..(i - 1) : TextsIn(obj, g) = {}
  BY <1>1 DEF WalkInv, Busy
<1>9. CASE is_safe(This + SizeofSection(obj.is64), obj.size)
  BY <1>1, <1>5, <1>6, <1>7, <1>8, <1>9 DEF Dumped
<1>10. CASE ~is_safe(This + SizeofSection(obj.is64), obj.size)
  <2> SUFFICES ASSUME NEW q \in Dumped(obj) PROVE FALSE
    BY <1>10
  <2>1. PICK j \in 0..(obj.ncmds - 1) :
          /\ q \in TextsIn(obj, j) /\ \A g \in 0..(j - 1) : TextsIn(obj, g) = {}
          /\ \A r \in TextsIn(obj, j) : q <= r
          /\ is_safe(q + SizeofSection(obj.is64), obj.size)
    BY DEF Dumped
  <2>2. j = i
    BY <1>2, <1>5, <1>7, <1>8, <2>1
  <2>3. q = This
    <3>1. q \in Nat /\ This \in Nat
      BY <1>2, <1>5, <1>7, <2>1, <2>2, TextsType
    <3> QED
      BY <1>5, <1>6, <2>1, <2>2, <3>1
  <2> QED
    BY <1>10, <2>1, <2>3
<1> QED
  BY <1>9, <1>10

\* A segment whose sections have all been looked at, or all that are in the
\* file, has no text section.
LEMMA SegmentWithout ==
  ASSUME TypeOK, HostOrder, PlainInv, WalkInv, SegmentEnd
  PROVE  TextsIn(obj, i) = {}
<1>1. pc = "sections" /\ s <= Len(input) /\ lc = obj.off[i] /\ sec \in Nat /\ lc \in Nat
      /\ \A n \in 1..sec : ~IsText(obj, SectionOffset(obj, lc, n))
  BY DEF SegmentEnd, TypeOK, Busy, WalkInv
<1>2. IsObject(obj) /\ obj.size \in Nat
  BY <1>1, Current, ObjectType
<1> DEFINE N == Len(LcAt(obj, lc).secs)
<1>3. N \in Nat /\ (sec >= N \/ ~is_safe(This, obj.size))
  BY <1>1, <1>2, HostReads, CommandType DEF IsCommand, SegmentEnd
<1> SUFFICES ASSUME NEW q \in TextsIn(obj, i) PROVE FALSE
  OBVIOUS
<1>4. PICK n \in 1..N :
        q = SectionOffset(obj, lc, n) /\ IsText(obj, q) /\ is_safe(q, obj.size)
  BY <1>1 DEF TextsIn
<1>5. n \notin 1..sec
  BY <1>1, <1>4
<1>6. sec + 1 <= n /\ n \in Nat /\ sec < N
  BY <1>1, <1>3, <1>4, <1>5
<1>7. This <= q /\ This \in Nat /\ q \in Nat
  BY <1>1, <1>4, <1>6, OffsetOrder DEF This
<1> HIDE DEF N
<1>8. ~is_safe(This, obj.size)
  BY <1>1, <1>3, <1>6
<1> QED
  BY <1>2, <1>4, <1>7, <1>8, SafeBelow

LEMMA WalkInit == Init => WalkInv
  BY DEF Init, WalkInv, Busy

\* Command i has been passed: the walk is at the next.
LEMMA NextCommand ==
  ASSUME TypeOK, HostOrder, PlainInv, WalkInv, pc \in {"walk", "sections"},
         i < obj.ncmds, Reaches(obj, i), TextsIn(obj, i) = {},
         i' = i + 1, lc' = lc + LcAt(obj, lc).cmdsize, obj' = obj, pc' = "walk"
  PROVE  WalkInv'
<1>1. s <= Len(input) /\ i \in Nat /\ lc = obj.off[i] /\ HeaderSafe(obj)
      /\ \A g \in 0..(i - 1) : TextsIn(obj, g) = {}
  BY DEF WalkInv, Busy, TypeOK
<1>2. IsObject(obj) /\ obj.ncmds \in Nat
  BY <1>1, Current, ObjectType
<1>3. i \in 0..(obj.ncmds - 1)
  BY <1>1, <1>2
<1>4. lc' = obj.off[i + 1]
  BY <1>1, <1>2, <1>3 DEF IsObject
<1>5. (i + 1) - 1 = i /\ i + 1 \in 0..obj.ncmds
  BY <1>1, <1>2, <1>3
<1>6. \A g \in 0..i : TextsIn(obj, g) = {}
  <2>1. \A g \in 0..i : g \in 0..(i - 1) \/ g = i
    BY <1>1
  <2> QED
    BY <1>1, <2>1
<1> QED
  BY <1>1, <1>4, <1>5, <1>6 DEF WalkInv, Busy

\* The segment that the walk stands at can be reached, if it is in the file.
LEMMA ReachOne ==
  ASSUME TypeOK, HostOrder, PlainInv, WalkInv, pc = "walk", i < obj.ncmds
  PROVE  Reaches(obj, i) <=>
           /\ is_safe(lc, obj.size)
           /\ LcAt(obj, lc).cmd = "SEGMENT" => is_segmant_safe(lc, obj.is64, obj.size)
<1>1. lc = obj.off[i] /\ Reaches(obj, i - 1) /\ i \in Nat
  BY DEF WalkInv, Busy, TypeOK
<1>2. \A g \in 0..i : g \in 0..(i - 1) \/ g = i
  BY <1>1
<1>3. i \in 0..i
  BY <1>1
<1> QED
  BY <1>1, <1>2, <1>3 DEF Reaches

LEMMA WalkStep ==
  TypeOK /\ PlainInv /\ WalkInv /\ [Next]_vars => WalkInv'
<1> SUFFICES ASSUME TypeOK, PlainInv, WalkInv, [Next]_vars, HostOrder PROVE WalkInv'
  BY SameInput DEF WalkInv
<1>o. input' = input /\ (s' = s => obj' = obj /\ name' = name)
  BY SameInput DEF obj, name
<1>1. CASE Start
  <2>1. s <= Len(input) /\ pc' = "walk" /\ i' = 0 /\ s' = s /\ HeaderSafe(obj)
        /\ lc' = obj.base + SizeofHeader(obj.is64)
    BY <1>1 DEF Start, Starting
  <2>2. IsObject(obj) /\ obj.ncmds \in Nat
    BY <2>1, Current, ObjectType
  <2>3. lc' = obj.off[0]
    BY <2>1, <2>2 DEF IsObject
  <2>4. Reaches(obj, 0 - 1) /\ \A g \in 0..(0 - 1) : TextsIn(obj, g) = {}
    BY DEF Reaches
  <2> QED
    BY <1>o, <2>1, <2>2, <2>3, <2>4 DEF WalkInv, Busy
<1>2. CASE WalkSkip
  <2>1. s <= Len(input)
    BY <1>2 DEF WalkSkip, CanWalk, TypeOK, Busy
  <2>2. /\ pc = "walk" /\ pc' = "walk" /\ i < obj.ncmds /\ is_safe(lc, obj.size)
        /\ LcAt(obj, lc).cmd # "SEGMENT" /\ s' = s
        /\ i' = i + 1 /\ lc' = lc + LcAt(obj, lc).cmdsize
    BY <1>2, <2>1, HostReads DEF WalkSkip, CanWalk
  <2>3. Reaches(obj, i)
    BY <2>2, ReachOne
  <2>4. TextsIn(obj, i) = {}
    BY <2>2 DEF TextsIn, WalkInv, Busy
  <2> QED
    BY <1>o, <2>2, <2>3, <2>4, NextCommand
<1>3. CASE SegmentOpen
  <2>1. s <= Len(input)
    BY <1>3 DEF SegmentOpen, CanWalk, TypeOK, Busy
  <2>2. /\ pc = "walk" /\ pc' = "sections" /\ i < obj.ncmds /\ is_safe(lc, obj.size)
        /\ LcAt(obj, lc).cmd = "SEGMENT" /\ is_segmant_safe(lc, obj.is64, obj.size)
        /\ s' = s /\ i' = i /\ lc' = lc /\ sec' = 0
    BY <1>3, <2>1, HostReads DEF SegmentOpen, CanWalk
  <2>3. Reaches(obj, i)
    BY <2>2, ReachOne
  <2>4. Len(LcAt(obj, lc).secs) \in Nat
    BY <2>1, Current, ObjectType, CommandType DEF IsCommand
  <2> QED
    BY <1>o, <2>2, <2>3, <2>4 DEF WalkInv, Busy
<1>4. CASE SectionSkip
  <2>1. s <= Len(input)
    BY <1>4 DEF SectionSkip, CanTest, TypeOK, Busy
  <2>2. /\ pc = "sections" /\ pc' = "sections" /\ sec < Len(LcAt(obj, lc).secs)
        /\ ~IsText(obj, SectionOffset(obj, lc, sec + 1))
        /\ s' = s /\ i' = i /\ lc' = lc /\ sec' = sec + 1 /\ sec \in Nat
    BY <1>4, <2>1, HostReads DEF SectionSkip, CanTest, TextHere, This, TypeOK
  <2>3. Len(LcAt(obj, lc).secs) \in Nat
    BY <2>1, Current, ObjectType, CommandType DEF IsCommand
  <2>4. \A n \in 1..(sec + 1) : n \in 1..sec \/ n = sec + 1
    BY <2>2
  <2>5. sec + 1 <= Len(LcAt(obj, lc).secs)
    BY <2>2, <2>3
  <2>6. \A n \in 1..(sec + 1) : ~IsText(obj, SectionOffset(obj, lc, n))
    BY <2>2, <2>4 DEF WalkInv, Busy
  <2> QED
    BY <1>o, <2>2, <2>5, <2>6 DEF WalkInv, Busy
<1>5. CASE SegmentEnd
  <2>1. s <= Len(input) /\ pc = "sections" /\ pc' = "walk" /\ s' = s /\ i' = i + 1
    BY <1>5 DEF SegmentEnd, TypeOK, Busy
  <2>2. i < obj.ncmds /\ Reaches(obj, i)
    BY <2>1 DEF WalkInv, Busy
  <2>3. lc' = lc + LcAt(obj, lc).cmdsize
    BY <1>5, <2>1, HostReads DEF SegmentEnd
  <2> QED
    BY <1>5, <1>o, <2>1, <2>2, <2>3, SegmentWithout, NextCommand
<1>6. CASE SectionFound
  <2>1. CASE is_safe(This + SizeofSection(obj.is64), obj.size)
    <3>1. pc = "sections" /\ pc' = "dump" /\ s' = s /\ i' = i /\ lc' = lc /\ found' = This
      BY <1>6, <2>1 DEF SectionFound, CanTest
    <3>2. found' \in Dumped(obj)
      BY <1>6, <2>1, <3>1, FoundFirst
    <3> QED
      BY <1>o, <3>1, <3>2 DEF WalkInv, Busy
  <2>2. CASE ~is_safe(This + SizeofSection(obj.is64), obj.size)
    BY <1>6, <2>2 DEF SectionFound, Leave, WalkInv, Busy
  <2> QED
    BY <2>1, <2>2
<1>7. CASE DumpLine
  <2>1. pc = "dump" /\ UNCHANGED <<s, pc, i, lc, found>>
    BY <1>7 DEF DumpLine, CanDump
  <2> QED
    BY <1>o, <2>1 DEF WalkInv, Busy
<1>8. CASE Reject \/ WalkEnd \/ SegmentCut \/ DumpEnd \/ Return
  BY <1>8 DEF Reject, WalkEnd, SegmentCut, DumpEnd, Return, Leave, WalkInv, Busy
<1>9. CASE Finished \/ UNCHANGED vars
  BY <1>9, <1>o DEF Finished, vars, WalkInv, Busy
<1> QED
  BY <1>1, <1>2, <1>3, <1>4, <1>5, <1>6, <1>7, <1>8, <1>9 DEF Next

-----------------------------------------------------------------------------
(***************************************************************************)
(* How much is printed of an object.                                       *)
(***************************************************************************)

LEMMA LinesFinite ==
  ASSUME NEW f \in DOMAIN Objects, NEW q \in Sections(Objects[f])
  PROVE  /\ IsFiniteSet(LinesOf(f, q)) /\ LinesOf(f, q) \subseteq Nat
         /\ Cardinality(LinesOf(f, q)) \in Nat
<1>1. Extents[f][q].size \in Nat
  BY ExtentType
<1>2. 0 \in Int /\ Extents[f][q].size \div 16 \in Int
  BY <1>1
<1>3. IsFiniteSet(0..(Extents[f][q].size \div 16))
  BY <1>2, FS_Interval
<1>4. LinesOf(f, q) \subseteq 0..(Extents[f][q].size \div 16)
  BY DEF LinesOf
<1>5. IsFiniteSet(LinesOf(f, q))
  BY <1>3, <1>4, FS_Subset
<1>6. LinesOf(f, q) \subseteq Nat
  BY <1>4
<1> QED
  BY <1>5, <1>6, FS_CardinalityType

\* What is printed of an object: nothing, or the title and the lines of its one section.
LEMMA SizeOfDump ==
  ASSUME NEW f \in DOMAIN Objects
  PROVE  /\ DumpSize(f) \in Nat
         /\ Dumped(Objects[f]) = {} => DumpSize(f) = 0
         /\ \A q \in Dumped(Objects[f]) : DumpSize(f) = 1 + Cardinality(LinesOf(f, q))
<1>1. IsObject(Objects[f])
  BY ObjectType
<1>2. Dumped(Objects[f]) = {} => DumpSize(f) = 0
  BY DEF DumpSize
<1>3. ASSUME NEW q \in Dumped(Objects[f])
      PROVE  DumpSize(f) = 1 + Cardinality(LinesOf(f, q)) /\ DumpSize(f) \in Nat
  <2>1. q \in Sections(Objects[f])
    BY <1>1, DumpedType
  <2>2. Dumped(Objects[f]) = {q}
    BY <1>1, DumpedOnce
  <2>3. UNION {LinesOf(f, r) : r \in Dumped(Objects[f])} = LinesOf(f, q)
    BY <2>2
  <2>4. DumpSize(f) = 1 + Cardinality(LinesOf(f, q))
    BY <2>2, <2>3 DEF DumpSize
  <2> QED
    BY <2>1, <2>4, LinesFinite
<1> QED
  BY <1>2, <1>3

\* The lines of a section are the first so many.
LEMMA LinesCounted ==
  ASSUME NEW f \in DOMAIN Objects, NEW q \in Sections(Objects[f]), NEW t \in Nat,
         0..(t - 1) \subseteq LinesOf(f, q), t \notin LinesOf(f, q)
  PROVE  Cardinality(LinesOf(f, q)) = t
<1> DEFINE e == Extents[f][q]
           o == Objects[f]
<1>1. e.size \in Nat /\ e.offset \in Nat /\ o.base \in Nat /\ o.size \in Nat
  BY ExtentType, ObjectType
<1>2. ASSUME NEW k \in LinesOf(f, q) PROVE k \in 0..(t - 1)
  <2>1. k \in Nat /\ 16 * k < e.size /\ is_safe(o.base + e.offset + 16 * k, o.size)
    BY <1>1 DEF LinesOf
  <2> SUFFICES ASSUME t <= k PROVE FALSE
    BY <2>1
  <2>2. 16 * t < e.size /\ t \in 0..(e.size \div 16)
    <3> HIDE DEF e
    <3> QED
      BY <1>1, <2>1
  <2>3. is_safe(o.base + e.offset + 16 * t, o.size)
    <3>1. /\ o.base + e.offset + 16 * t \in Nat /\ o.base + e.offset + 16 * k \in Nat
          /\ o.base + e.offset + 16 * t <= o.base + e.offset + 16 * k
      <4> HIDE DEF e, o
      <4> QED
        BY <1>1, <2>1
    <3> QED
      BY <1>1, <2>1, <3>1, SafeBelow
  <2> QED
    BY <2>2, <2>3 DEF LinesOf
<1>3. LinesOf(f, q) = 0..(t - 1)
  BY <1>2
<1>4. 0 \in Int /\ t - 1 \in Int
  OBVIOUS
<1>5. Cardinality(0..(t - 1)) = IF 0 > t - 1 THEN 0 ELSE (t - 1) - 0 + 1
  BY <1>4, FS_Interval
<1> QED
  BY <1>3, <1>5

\* The items of the objects, each a pair of the object's place and the item's.
ItemsOf(l, c) == {c} \X (1..DumpSize(l[c]))
Items(l, n)   == UNION {ItemsOf(l, c) : c \in 1..n}

LEMMA ItemsFinite ==
  ASSUME NEW l \in Seq(DOMAIN Objects)
  PROVE  /\ \A c \in 1..Len(l) : /\ IsFiniteSet(ItemsOf(l, c)) /\ DumpSize(l[c]) \in Nat
                                 /\ Cardinality(ItemsOf(l, c)) = DumpSize(l[c])
         /\ \A n \in 0..Len(l) : /\ IsFiniteSet(Items(l, n)) /\ Upto(l, n) \in Nat
                                 /\ Upto(l, n) = Cardinality(Items(l, n))
<1>1. \A c \in 1..Len(l) : l[c] \in DOMAIN Objects /\ DumpSize(l[c]) \in Nat
  BY SizeOfDump
<1>2. ASSUME NEW c \in 1..Len(l)
      PROVE  IsFiniteSet(ItemsOf(l, c)) /\ Cardinality(ItemsOf(l, c)) = DumpSize(l[c])
  <2> DEFINE d == DumpSize(l[c])
  <2>1. d \in Nat
    BY <1>1
  <2> HIDE DEF d
  <2>2. IsFiniteSet(1..d) /\ Cardinality(1..d) = d
    BY <2>1, FS_Interval
  <2>3. IsFiniteSet({c}) /\ Cardinality({c}) = 1
    BY FS_Singleton
  <2>4. IsFiniteSet({c} \X (1..d)) /\ Cardinality({c} \X (1..d)) = Cardinality({c}) * Cardinality(1..d)
    BY <2>2, <2>3, FS_Product
  <2> QED
    BY <2>1, <2>2, <2>3, <2>4 DEF d, ItemsOf
<1>3. ASSUME NEW n \in 0..Len(l) PROVE IsFiniteSet(Items(l, n))
  <2> DEFINE T == {ItemsOf(l, c) : c \in 1..n}
             g == [c \in 1..n |-> ItemsOf(l, c)]
  <2>1. IsFiniteSet(1..n)
    BY FS_Interval
  <2>2. g \in Surjection(1..n, T)
    BY DEF Surjection
  <2>3. IsFiniteSet(T)
    BY <2>1, <2>2, FS_Surjection
  <2>4. \A S \in T : IsFiniteSet(S)
    BY <1>2
  <2> HIDE DEF T
  <2>5. IsFiniteSet(UNION T)
    BY <2>3, <2>4, FS_UNION
  <2> QED
    BY <2>5 DEF T, Items
<1>4. ASSUME NEW n \in 0..Len(l)
      PROVE  Upto(l, n) \in Nat /\ Upto(l, n) = Cardinality(Items(l, n))
  <2>1. Upto(l, n) = Cardinality(Items(l, n))
    BY DEF Upto, Items, ItemsOf
  <2> QED
    BY <1>3, <2>1, FS_CardinalityType
<1> QED
  BY <1>1, <1>2, <1>3, <1>4

\* The items of the first b objects are those of the first b - 1 and of object b.
LEMMA UptoNext ==
  ASSUME NEW l \in Seq(DOMAIN Objects), NEW b \in 1..Len(l)
  PROVE  /\ Upto(l, b - 1) \in Nat
         /\ Upto(l, b) = Upto(l, b - 1) + DumpSize(l[b])
<1>1. b - 1 \in 0..Len(l) /\ b \in 0..Len(l)
  OBVIOUS
<1>2. Items(l, b) = Items(l, b - 1) \cup ItemsOf(l, b)
  <2>1. \A c : c \in 1..b <=> c \in 1..(b - 1) \/ c = b
    OBVIOUS
  <2> QED
    BY <2>1 DEF Items
<1>3. Items(l, b - 1) \cap ItemsOf(l, b) = {}
  <2>1. \A c \in 1..(b - 1) : c # b
    OBVIOUS
  <2> QED
    BY <2>1 DEF Items, ItemsOf
<1>4. Cardinality(Items(l, b)) =
        Cardinality(Items(l, b - 1)) + Cardinality(ItemsOf(l, b)) - Cardinality({})
  <2>1. IsFiniteSet(Items(l, b - 1)) /\ IsFiniteSet(ItemsOf(l, b))
    BY <1>1, ItemsFinite
  <2> QED
    BY <1>2, <1>3, <2>1, FS_Union
<1>5. /\ Upto(l, b) = Cardinality(Items(l, b)) /\ Upto(l, b - 1) = Cardinality(Items(l, b - 1))
      /\ Upto(l, b - 1) \in Nat
      /\ Cardinality(ItemsOf(l, b)) = DumpSize(l[b]) /\ DumpSize(l[b]) \in Nat
  BY <1>1, ItemsFinite
<1> QED
  BY <1>4, <1>5, FS_EmptySet

LEMMA UptoGrows ==
  ASSUME NEW l \in Seq(DOMAIN Objects), NEW a \in 0..Len(l), NEW b \in 0..Len(l), a <= b
  PROVE  Upto(l, a) <= Upto(l, b)
<1>1. Items(l, a) \subseteq Items(l, b)
  <2>1. 1..a \subseteq 1..b
    OBVIOUS
  <2> QED
    BY <2>1 DEF Items
<1>2. /\ IsFiniteSet(Items(l, b)) /\ Upto(l, a) = Cardinality(Items(l, a))
      /\ Upto(l, b) = Cardinality(Items(l, b))
  BY ItemsFinite
<1> QED
  BY <1>1, <1>2, FS_Subset

LEMMA UptoNone == ASSUME NEW l PROVE Upto(l, 0) = 0
<1>1. UNION {{c} \X (1..DumpSize(l[c])) : c \in 1..0} = {}
  OBVIOUS
<1> QED
  BY <1>1, FS_EmptySet DEF Upto

\* How often an object comes among the first a of the input.
LEMMA TimesNext ==
  ASSUME NEW l, NEW a \in Nat, NEW f
  PROVE  /\ Times(l, a, f) \in Nat
         /\ Times(l, a + 1, f) = Times(l, a, f) + (IF l[a + 1] = f THEN 1 ELSE 0)
<1> DEFINE S == {b \in 1..a : l[b] = f}
           T == {b \in 1..(a + 1) : l[b] = f}
<1>1. IsFiniteSet(S)
  <2>1. IsFiniteSet(1..a)
    BY FS_Interval
  <2> QED
    BY <2>1, FS_Subset
<1>2. Cardinality(S) \in Nat
  BY <1>1, FS_CardinalityType
<1>3. CASE l[a + 1] = f
  <2>1. T = S \cup {a + 1} /\ a + 1 \notin S
    BY <1>3
  <2>2. Cardinality(T) = Cardinality(S) + 1
    BY <1>1, <2>1, FS_AddElement
  <2> QED
    BY <1>2, <1>3, <2>2 DEF Times
<1>4. CASE l[a + 1] # f
  <2>1. T = S
    BY <1>4
  <2> QED
    BY <1>2, <1>4, <2>1 DEF Times
<1> QED
  BY <1>3, <1>4

LEMMA TimesNone == ASSUME NEW l, NEW f PROVE Times(l, 0, f) = 0
<1>1. {b \in 1..0 : l[b] = f} = {}
  OBVIOUS
<1> QED
  BY <1>1, FS_EmptySet DEF Times

-----------------------------------------------------------------------------
(***************************************************************************)
(* The addresses, and the output.                                          *)
(***************************************************************************)
OutputInv == AddressInv /\ OutInv

SameAddresses == \A f \in Given : mem'[f].add = mem[f].add

LEMMA OutputInit == Init => OutputInv
<1> SUFFICES ASSUME Init PROVE OutputInv
  OBVIOUS
<1>1. s - 1 = 0 /\ pc = "start" /\ out = <<>>
  BY DEF Init
<1>2. ASSUME NEW f \in Given, NEW q \in Dumped(Objects[f])
      PROVE  mem[f].add[q] = 16 * (Times(input, s - 1, f) * Cardinality(LinesOf(f, q))) + 0
  <2>1. f \in DOMAIN Objects
    <3>1. input \in Seq(DOMAIN Objects)
      BY OtoolAssumption DEF Init
    <3> QED
      BY <3>1 DEF Given
  <2>2. q \in Sections(Objects[f])
    BY <2>1, ObjectType, DumpedType
  <2>3. q \in DOMAIN Extents[f] /\ Cardinality(LinesOf(f, q)) \in Nat
    BY <2>1, <2>2, ExtentType, LinesFinite
  <2>4. mem[f].add[q] = 0
    BY <2>3 DEF Init, Given, Untouched
  <2>5. Times(input, s - 1, f) = 0
    BY <1>1, TimesNone
  <2> QED
    BY <2>3, <2>4, <2>5
<1>3. AddressInv
  BY <1>1, <1>2 DEF AddressInv
<1>4. OutInv
  BY <1>1, UptoNone DEF OutInv
<1> QED
  BY <1>3, <1>4 DEF OutputInv

\* A step of the walk prints nothing.
LEMMA OutputStay ==
  ASSUME OutputInv, SameAddresses, UNCHANGED <<input, s, out>>, pc # "dump",
         pc' \notin {"dump", "done"}, Given' = Given
  PROVE  OutputInv'
<1>1. AddressInv'
  BY DEF OutputInv, AddressInv, SameAddresses, HostOrder
<1>2. OutInv'
  BY DEF OutputInv, OutInv, HostOrder
<1> QED
  BY <1>1, <1>2 DEF OutputInv

\* An object has been left: how often each object has come, and how many items
\* the objects left have.
LEMMA OneObjectMore ==
  ASSUME TypeOK, s <= Len(input)
  PROVE  /\ s - 1 \in Nat /\ (s + 1) - 1 = s
         /\ Upto(input, s - 1) \in Nat
         /\ Upto(input, s) = Upto(input, s - 1) + DumpSize(name)
         /\ \A f : /\ Times(input, s - 1, f) \in Nat
                   /\ Times(input, s, f) = Times(input, s - 1, f) + (IF name = f THEN 1 ELSE 0)
<1>1. input \in Seq(DOMAIN Objects) /\ s \in 1..Len(input)
  BY Current
<1>2. s - 1 \in Nat /\ (s + 1) - 1 = s /\ (s - 1) + 1 = s
  BY <1>1
<1>3. ASSUME NEW f
      PROVE  /\ Times(input, s - 1, f) \in Nat
             /\ Times(input, s, f) = Times(input, s - 1, f) + (IF name = f THEN 1 ELSE 0)
  <2>1. /\ Times(input, s - 1, f) \in Nat
        /\ Times(input, (s - 1) + 1, f)
             = Times(input, s - 1, f) + (IF input[(s - 1) + 1] = f THEN 1 ELSE 0)
    BY <1>2, TimesNext
  <2> QED
    BY <1>2, <2>1 DEF name
<1> QED
  BY <1>1, <1>2, <1>3, UptoNext DEF name

\* An object without a text section is left.
LEMMA OutputPass ==
  ASSUME TypeOK, OutputInv, HostOrder, SameAddresses, UNCHANGED <<input, out>>, Given' = Given,
         s <= Len(input), s' = s + 1, pc # "dump", pc' = "start", Dumped(obj) = {}
  PROVE  OutputInv'
<1>1. name \in DOMAIN Objects /\ obj = Objects[name] /\ input \in Seq(DOMAIN Objects)
      /\ s \in 1..Len(input)
  BY Current
<1>2. DumpSize(name) = 0
  BY <1>1, SizeOfDump
<1>3. AddressInv'
  <2> SUFFICES ASSUME NEW f \in Given, NEW q \in Dumped(Objects[f])
               PROVE  mem'[f].add[q] =
                        16 * (Times(input, s, f) * Cardinality(LinesOf(f, q))) + 0
    <3>1. s' - 1 = s /\ pc' # "dump"
      BY OneObjectMore
    <3> QED
      BY <3>1 DEF AddressInv
  <2>1. f # name
    BY <1>1
  <2>2. Times(input, s, f) = Times(input, s - 1, f)
    <3>1. Times(input, s, f) = Times(input, s - 1, f) + 0 /\ Times(input, s - 1, f) \in Nat
      BY <2>1, OneObjectMore
    <3> QED
      BY <3>1
  <2>3. mem[f].add[q] = 16 * (Times(input, s - 1, f) * Cardinality(LinesOf(f, q))) + 0
    BY <2>1 DEF OutputInv, AddressInv
  <2>4. Times(input, s - 1, f) \in Nat /\ Cardinality(LinesOf(f, q)) \in Nat
    <3>1. f \in DOMAIN Objects
      BY <1>1 DEF Given
    <3> QED
      BY <3>1, OneObjectMore, ObjectType, DumpedType, LinesFinite
  <2> QED
    BY <2>2, <2>3, <2>4 DEF SameAddresses
<1>4. OutInv'
  <2>1. Upto(input, s) = Upto(input, s - 1) /\ Upto(input, s) \in Nat
    <3>1. Upto(input, s) = Upto(input, s - 1) + 0 /\ Upto(input, s - 1) \in Nat
      BY <1>2, OneObjectMore
    <3> QED
      BY <3>1
  <2>2. Len(out) = Upto(input, s - 1) + 0
    BY DEF OutputInv, OutInv
  <2>3. \A b \in 1..s : b \in 1..(s - 1) \/ b = s
    BY <1>1
  <2>4. ASSUME NEW b \in 1..s, NEW n \in 1..DumpSize(input[b])
        PROVE  RightItem(input, b, n, out[Upto(input, b - 1) + n])
    <3>1. b # s
      BY <1>2, <2>4 DEF name
    <3> QED
      BY <2>3, <2>4, <3>1 DEF OutputInv, OutInv
  <2> QED
    BY <2>1, <2>2, <2>4, OneObjectMore DEF OutInv
<1> QED
  BY <1>3, <1>4 DEF OutputInv

\* The items of the objects already left are all among the first Upto(input, s - 1).
LEMMA PlaceBefore ==
  ASSUME TypeOK, NEW b \in 1..(s - 1), NEW n \in 1..DumpSize(input[b])
  PROVE  Upto(input, b - 1) + n \in 1..Upto(input, s - 1)
<1>1. input \in Seq(DOMAIN Objects) /\ s \in 1..(Len(input) + 1)
  BY OtoolAssumption DEF TypeOK
<1>2. b \in 1..Len(input) /\ b \in 0..Len(input) /\ s - 1 \in 0..Len(input) /\ b <= s - 1
  BY <1>1
<1>3. Upto(input, b) = Upto(input, b - 1) + DumpSize(input[b]) /\ Upto(input, b - 1) \in Nat
  BY <1>1, <1>2, UptoNext
<1>4. Upto(input, b) <= Upto(input, s - 1) /\ DumpSize(input[b]) \in Nat
      /\ Upto(input, s - 1) \in Nat
  BY <1>1, <1>2, UptoGrows, ItemsFinite
<1> QED
  BY <1>3, <1>4

\* The section is found, and its title printed.
LEMMA OutputOpen ==
  ASSUME TypeOK, OutputInv, HostOrder, SameAddresses, UNCHANGED <<input, s>>, Given' = Given,
         s <= Len(input), pc # "dump", pc' = "dump", line' = 0, out' = Append(out, Title)
  PROVE  OutputInv'
<1>1. name' = name /\ out \in Seq(Item) /\ Len(out) \in Nat
  BY DEF name, TypeOK
<1>2. Printed' = 0
  BY DEF Printed
<1>3. AddressInv'
  BY <1>1 DEF OutputInv, AddressInv, SameAddresses
<1>4. Len(out) = Upto(input, s - 1) + 0 /\ Upto(input, s - 1) \in Nat
  BY OneObjectMore DEF OutputInv, OutInv
<1>5. Len(out') = Upto(input, s - 1) + 1 /\ out'[Upto(input, s - 1) + 1] = Title
      /\ \A n \in 1..Upto(input, s - 1) : out'[n] = out[n]
  BY <1>1, <1>4, OneItemMore
<1>6. ASSUME NEW b \in 1..(s - 1), NEW n \in 1..DumpSize(input[b])
      PROVE  RightItem(input, b, n, out'[Upto(input, b - 1) + n])
  <2>1. Upto(input, b - 1) + n \in 1..Upto(input, s - 1)
    BY <1>6, PlaceBefore
  <2> QED
    BY <1>5, <2>1 DEF OutputInv, OutInv
<1>7. \A n \in 1..(1 + 0) : RightItem(input, s, n, out'[Upto(input, s - 1) + n])
  <2>1. Title.obj = input[s] /\ Title.title
    BY DEF Title, name
  <2>2. RightItem(input, s, 1, out'[Upto(input, s - 1) + 1])
    BY <1>5, <2>1 DEF RightItem
  <2>3. \A n \in 1..(1 + 0) : n = 1
    OBVIOUS
  <2> QED
    BY <2>2, <2>3
<1>8. OutInv'
  <2>1. 0 = 16 * 0 /\ 0..(0 - 1) = {} /\ Upto(input, s - 1) + (1 + 0) = Upto(input, s - 1) + 1
    OBVIOUS
  <2> QED
    BY <1>1, <1>2, <1>5, <1>6, <1>7, <2>1 DEF OutInv
<1> QED
  BY <1>3, <1>8 DEF OutputInv

\* What is known of the line dump_section is at.
LEMMA AtLine ==
  ASSUME TypeOK, PlainInv, WalkInv, OutputInv, HostOrder, pc = "dump"
  PROVE  /\ s <= Len(input) /\ name \in DOMAIN Objects /\ obj = Objects[name] /\ name \in Given
         /\ found \in Dumped(Objects[name]) /\ found \in Sections(Objects[name])
         /\ Printed \in Nat /\ line = 16 * Printed /\ line \in Nat
         /\ 0..(Printed - 1) \subseteq LinesOf(name, found)
         /\ Printed \in LinesOf(name, found)
              <=> line < Extent("size") /\ is_safe(Str, obj.size)
         /\ Extent("addr") = Extents[name][found].addr
         /\ Extent("size") = Extents[name][found].size
         /\ Str = obj.base + Extents[name][found].offset + line
         /\ m.add[found] = 16 * (Times(input, s - 1, name) * Cardinality(LinesOf(name, found)))
                             + line
<1>1. s <= Len(input) /\ line \in Nat
  BY DEF TypeOK, Busy
<1>2. name \in DOMAIN Objects /\ obj = Objects[name] /\ name \in Given /\ IsObject(obj)
  BY <1>1, Current, ObjectType
<1>3. found \in Dumped(Objects[name])
  BY <1>2 DEF WalkInv, Busy
<1>4. found \in Sections(Objects[name])
  BY <1>2, <1>3, DumpedType
<1>5. line = 16 * Printed /\ 0..(Printed - 1) \subseteq LinesOf(name, found)
  BY DEF OutputInv, OutInv
<1>6. Printed \in Nat
  BY <1>1 DEF Printed
<1>7. /\ Extent("addr") = Extents[name][found].addr
      /\ Extent("size") = Extents[name][found].size
      /\ Extent("offset") = Extents[name][found].offset
  BY <1>1, HostReads
<1>8. Str = obj.base + Extents[name][found].offset + line
  BY <1>7 DEF Str
<1>9. Printed \in LinesOf(name, found) <=> line < Extent("size") /\ is_safe(Str, obj.size)
  <2> DEFINE e == Extents[name][found]
             t == Printed
  <2>1. e.size \in Nat
    BY <1>2, <1>4, ExtentType
  <2>2. 16 * t < e.size => t \in 0..(e.size \div 16)
    <3> HIDE DEF e, t
    <3>1. t \in Nat
      BY <1>6 DEF t
    <3> QED
      BY <2>1, <3>1
  <2> QED
    BY <1>2, <1>5, <1>7, <1>8, <2>2 DEF LinesOf
<1>10. m.add[found] = 16 * (Times(input, s - 1, name) * Cardinality(LinesOf(name, found))) + line
  BY <1>2, <1>3 DEF OutputInv, AddressInv, m
<1> QED
  BY <1>1, <1>2, <1>3, <1>4, <1>5, <1>6, <1>7, <1>8, <1>9, <1>10

\* dump_section prints the next line of the contract.
LEMMA LineIsRight ==
  ASSUME TypeOK, PlainInv, WalkInv, OutputInv, HostOrder, DumpLine
  PROVE  RightItem(input, s, Printed + 2, Line)
<1>1. pc = "dump" /\ line < Extent("size")
  BY DEF DumpLine, CanDump
<1> DEFINE e == Extents[name][found]
           K == Cardinality(LinesOf(name, found))
           T == Times(input, s - 1, name)
           t == Printed
<1>2. e.addr \in Nat /\ e.size \in Nat /\ e.offset \in Nat /\ K \in Nat /\ T \in Nat /\ t \in Nat
      /\ obj.base \in Nat /\ line = 16 * t
  BY <1>1, AtLine, ExtentType, ObjectType, LinesFinite, OneObjectMore
<1>3. Line.address = e.addr + (16 * (T * K) + line)
  BY <1>1, AtLine DEF Line
<1>4. Line.at = obj.base + e.offset + line /\ Line.obj = name /\ Line.title = FALSE
      /\ Line.bytes = hexdump_data(e.size - line)
  BY <1>1, AtLine DEF Line
<1>5. line < e.size
  BY <1>1, AtLine
<1>6. T * K \in Nat
  <2> HIDE DEF T, K
  <2> QED
    BY <1>2
<1>7. /\ e.addr + (16 * (T * K) + line) = e.addr + 16 * (T * K + (t + 1) - 1)
      /\ obj.base + e.offset + line = obj.base + e.offset + 16 * ((t + 1) - 1)
      /\ hexdump_data(e.size - line) =
           IF e.size < 16 * (t + 1) THEN e.size - 16 * ((t + 1) - 1) ELSE 16
  <2> DEFINE P == T * K
             ad == e.addr
             sz == e.size
             of == e.offset
             ba == obj.base
  <2>1. P \in Nat /\ ad \in Nat /\ sz \in Nat /\ of \in Nat /\ ba \in Nat /\ t \in Nat
        /\ line = 16 * t /\ line < sz
    BY <1>2, <1>5, <1>6
  <2> HIDE DEF P, ad, sz, of, ba, t
  <2>2. ad + (16 * P + line) = ad + 16 * (P + (t + 1) - 1)
    BY <2>1
  <2>3. ba + of + line = ba + of + 16 * ((t + 1) - 1)
    BY <2>1
  <2>4. hexdump_data(sz - line) = IF sz < 16 * (t + 1) THEN sz - 16 * ((t + 1) - 1) ELSE 16
    BY <2>1 DEF hexdump_data
  <2> QED
    BY <2>2, <2>3, <2>4 DEF P, ad, sz, of, ba
<1>8. Line = [obj |-> name, title |-> FALSE,
              address |-> e.addr + 16 * (T * K + (t + 1) - 1),
              at |-> obj.base + e.offset + 16 * ((t + 1) - 1),
              bytes |-> IF e.size < 16 * (t + 1) THEN e.size - 16 * ((t + 1) - 1) ELSE 16]
  BY <1>3, <1>4, <1>7 DEF Line
<1>9. IsLine(input, s, t + 1, Line)
  <2>1. input[s] = name /\ found \in Dumped(Objects[name]) /\ obj = Objects[name]
    BY <1>1, AtLine DEF name
  <2>2. T = Cardinality({b \in 1..(s - 1) : input[b] = name})
    BY DEF Times
  <2> HIDE DEF t
  <2> QED
    BY <1>8, <2>1, <2>2 DEF IsLine
<1>10. (t + 2) - 1 = t + 1 /\ t + 2 # 1
  <2> HIDE DEF t
  <2> QED
    BY <1>2
<1> HIDE DEF t
<1> QED
  BY <1>9, <1>10 DEF RightItem, t

LEMMA OutputLine ==
  ASSUME TypeOK, PlainInv, WalkInv, OutputInv, HostOrder, DumpLine
  PROVE  OutputInv'
<1>1. /\ pc = "dump" /\ pc' = "dump" /\ UNCHANGED <<input, s, found>> /\ line' = line + 16
      /\ mem' = [mem EXCEPT ![name].add[found] = @ + 16]
      /\ line < Extent("size") /\ is_safe(Str, obj.size)
  BY DEF DumpLine, CanDump
<1>2. name' = name /\ Given' = Given /\ out \in Seq(Item) /\ Len(out) \in Nat
  BY <1>1 DEF name, Given, TypeOK
<1>3. out' = Append(out, Line)
  BY LineIsInside
<1>4. /\ Printed \in Nat /\ line = 16 * Printed /\ Printed \in LinesOf(name, found)
      /\ 0..(Printed - 1) \subseteq LinesOf(name, found) /\ s <= Len(input)
      /\ name \in DOMAIN Objects /\ name \in Given
      /\ found \in Dumped(Objects[name]) /\ found \in Sections(Objects[name])
  BY <1>1, AtLine
<1>5. Printed' = Printed + 1 /\ line' = 16 * (Printed + 1)
  BY <1>1, <1>4 DEF Printed
<1>6. 0..(Printed' - 1) \subseteq LinesOf(name, found)
  <2>1. \A n \in 0..(Printed' - 1) : n \in 0..(Printed - 1) \/ n = Printed
    BY <1>4, <1>5
  <2> QED
    BY <1>4, <2>1
<1>7. Len(out) = Upto(input, s - 1) + (1 + Printed) /\ Upto(input, s - 1) \in Nat
  BY <1>1, <1>4, OneObjectMore DEF OutputInv, OutInv
<1>8. /\ Len(out') = Upto(input, s - 1) + (1 + Printed')
      /\ out'[Upto(input, s - 1) + (Printed + 2)] = Line
      /\ \A n \in 1..(Upto(input, s - 1) + (1 + Printed)) : out'[n] = out[n]
  <2>1. Len(out) + 1 = Upto(input, s - 1) + (Printed + 2)
        /\ Len(out) + 1 = Upto(input, s - 1) + (1 + Printed')
    BY <1>4, <1>5, <1>7
  <2> QED
    BY <1>2, <1>3, <1>7, <2>1, OneItemMore
<1>9. ASSUME NEW b \in 1..(s - 1), NEW n \in 1..DumpSize(input[b])
      PROVE  RightItem(input, b, n, out'[Upto(input, b - 1) + n])
  <2>1. Upto(input, b - 1) + n \in 1..Upto(input, s - 1)
    BY PlaceBefore
  <2>2. Upto(input, b - 1) + n \in 1..(Upto(input, s - 1) + (1 + Printed))
    BY <1>4, <1>7, <2>1
  <2> QED
    BY <1>8, <2>2 DEF OutputInv, OutInv
<1>10. ASSUME NEW n \in 1..(1 + Printed')
       PROVE  RightItem(input, s, n, out'[Upto(input, s - 1) + n])
  <2>1. CASE n = Printed + 2
    BY <1>8, <2>1, LineIsRight
  <2>2. CASE n # Printed + 2
    <3>1. n \in 1..(1 + Printed)
      BY <1>4, <1>5, <2>2
    <3>2. Upto(input, s - 1) + n \in 1..(Upto(input, s - 1) + (1 + Printed))
      BY <1>4, <1>7, <3>1
    <3> QED
      BY <1>1, <1>8, <3>1, <3>2 DEF OutputInv, OutInv
  <2> QED
    BY <2>1, <2>2
<1>11. OutInv'
  BY <1>1, <1>2, <1>5, <1>6, <1>8, <1>9, <1>10 DEF OutInv
<1>12. AddressInv'
  <2> SUFFICES ASSUME NEW f \in Given, NEW q \in Dumped(Objects[f])
               PROVE  mem'[f].add[q] =
                        16 * (Times(input, s - 1, f) * Cardinality(LinesOf(f, q)))
                          + (IF f = name THEN line' ELSE 0)
    BY <1>1, <1>2 DEF AddressInv
  <2>1. f \in DOMAIN mem /\ mem[f] \in Mapping(f)
    BY DEF TypeOK
  <2>2. mem[f].add[q] = 16 * (Times(input, s - 1, f) * Cardinality(LinesOf(f, q)))
                          + (IF f = name THEN line ELSE 0)
    BY <1>1 DEF OutputInv, AddressInv
  <2>3. CASE f # name
    <3>1. mem'[f] = mem[f]
      BY <1>1, <2>1, <2>3
    <3> QED
      BY <2>2, <2>3, <3>1
  <2>4. CASE f = name
    <3>1. q = found
      BY <1>4, <2>4, ObjectType, DumpedOnce
    <3>2. found \in DOMAIN mem[name].add
      BY <1>4, <2>1, <2>4, ExtentType DEF Mapping
    <3>3. mem'[name].add[found] = mem[name].add[found] + 16
      BY <1>1, <2>1, <2>4, <3>2 DEF Mapping
    <3> DEFINE P == Times(input, s - 1, f) * Cardinality(LinesOf(f, q))
    <3>4. P \in Nat
      <4>1. Times(input, s - 1, f) \in Nat /\ Cardinality(LinesOf(f, q)) \in Nat
        BY <1>4, <2>4, <3>1, OneObjectMore, LinesFinite
      <4> QED
        BY <4>1
    <3>5. mem[name].add[found] = 16 * P + line /\ line' = line + 16 /\ line \in Nat
      BY <1>1, <1>4, <2>2, <2>4, <3>1
    <3> HIDE DEF P
    <3>6. mem'[name].add[found] = 16 * P + line'
      BY <3>3, <3>4, <3>5
    <3> QED
      BY <2>4, <3>1, <3>6 DEF P
  <2> QED
    BY <2>3, <2>4
<1> QED
  BY <1>11, <1>12 DEF OutputInv

\* dump_section returns when all lines of the contract are printed.
LEMMA OutputLeave ==
  ASSUME TypeOK, PlainInv, WalkInv, OutputInv, HostOrder, DumpEnd
  PROVE  OutputInv'
<1>1. /\ pc = "dump" /\ pc' = "start" /\ s' = s + 1 /\ UNCHANGED <<input, mem, line, out>>
      /\ (line >= Extent("size") \/ ~is_safe(Str, obj.size))
  BY DEF DumpEnd, Leave
<1>2. Given' = Given
  BY <1>1 DEF Given
<1>3. /\ Printed \in Nat /\ line = 16 * Printed /\ line \in Nat
      /\ 0..(Printed - 1) \subseteq LinesOf(name, found) /\ s <= Len(input)
      /\ name \in DOMAIN Objects /\ name \in Given
      /\ found \in Dumped(Objects[name]) /\ found \in Sections(Objects[name])
      /\ Extent("size") = Extents[name][found].size
      /\ (Printed \in LinesOf(name, found) <=> line < Extent("size") /\ is_safe(Str, obj.size))
  BY <1>1, AtLine
<1>4. Printed \notin LinesOf(name, found)
  BY <1>1, <1>3, ExtentType
<1>5. Cardinality(LinesOf(name, found)) = Printed
  BY <1>3, <1>4, LinesCounted
<1>6. DumpSize(name) = 1 + Printed
  BY <1>3, <1>5, SizeOfDump
<1>7. s' - 1 = s /\ s \in Nat /\ name = input[s]
  BY <1>1, <1>3, OneObjectMore DEF TypeOK, name
<1>8. OutInv'
  <2>1. Len(out) = Upto(input, s)
    <3>1. Len(out) = Upto(input, s - 1) + (1 + Printed)
      BY <1>1 DEF OutputInv, OutInv
    <3> QED
      BY <1>3, <1>6, <3>1, OneObjectMore
  <2>2. Upto(input, s) + 0 = Upto(input, s)
    BY <1>3, <1>6, OneObjectMore
  <2>3. ASSUME NEW b \in 1..s, NEW n \in 1..DumpSize(input[b])
        PROVE  RightItem(input, b, n, out[Upto(input, b - 1) + n])
    <3>1. b \in 1..(s - 1) \/ b = s
      BY <1>7
    <3>2. CASE b = s
      BY <1>1, <1>6, <1>7, <3>2 DEF OutputInv, OutInv
    <3>3. CASE b \in 1..(s - 1)
      BY <3>3 DEF OutputInv, OutInv
    <3> QED
      BY <3>1, <3>2, <3>3
  <2> QED
    BY <1>1, <1>7, <2>1, <2>2, <2>3 DEF OutInv
<1>9. AddressInv'
  <2> SUFFICES ASSUME NEW f \in Given, NEW q \in Dumped(Objects[f])
               PROVE  mem[f].add[q] =
                        16 * (Times(input, s, f) * Cardinality(LinesOf(f, q))) + 0
    BY <1>1, <1>2, <1>7 DEF AddressInv
  <2> DEFINE K == Cardinality(LinesOf(f, q))
             T == Times(input, s - 1, f)
  <2>1. f \in DOMAIN Objects
    <3>1. input \in Seq(DOMAIN Objects)
      BY <1>3, Current
    <3> QED
      BY <3>1 DEF Given
  <2>2. K \in Nat /\ T \in Nat /\ Times(input, s, f) = T + (IF name = f THEN 1 ELSE 0)
    BY <1>3, <2>1, ObjectType, DumpedType, LinesFinite, OneObjectMore
  <2>3. mem[f].add[q] = 16 * (T * K) + (IF f = name THEN line ELSE 0)
    BY <1>1 DEF OutputInv, AddressInv
  <2>4. CASE f # name
    <3> HIDE DEF K, T
    <3>1. Times(input, s, f) = T
      BY <2>2, <2>4
    <3> QED
      BY <2>2, <2>3, <2>4, <3>1 DEF K
  <2>5. CASE f = name
    <3>1. q = found
      BY <1>3, <2>5, ObjectType, DumpedOnce
    <3>2. K = Printed
      BY <1>5, <2>5, <3>1
    <3> HIDE DEF K, T
    <3>3. Times(input, s, f) = T + 1 /\ line = 16 * K
      BY <1>3, <2>2, <2>5, <3>2
    <3>4. (T + 1) * K = T * K + K /\ T * K \in Nat
      BY <2>2
    <3>5. 16 * (T * K) + 16 * K = 16 * ((T + 1) * K) + 0
      <4> DEFINE P == T * K
                 Q == (T + 1) * K
      <4>1. P \in Nat /\ Q = P + K
        BY <3>4
      <4> HIDE DEF P, Q
      <4>2. 16 * P + 16 * K = 16 * Q + 0
        BY <2>2, <4>1
      <4> QED
        BY <4>2 DEF P, Q
    <3> QED
      BY <2>3, <2>5, <3>3, <3>5 DEF K
  <2> QED
    BY <2>4, <2>5
<1> QED
  BY <1>8, <1>9 DEF OutputInv

LEMMA OutputStep ==
  TypeOK /\ PlainInv /\ WalkInv /\ OutputInv /\ [Next]_vars => OutputInv'
<1> SUFFICES ASSUME TypeOK, PlainInv, WalkInv, OutputInv, [Next]_vars, HostOrder
             PROVE  OutputInv'
  BY SameInput DEF OutputInv, AddressInv, OutInv
<1>o. input' = input /\ Given' = Given
  BY SameInput
<1>a. mem' = mem => SameAddresses
  BY DEF SameAddresses
<1>c. ASSUME Convert, s <= Len(input) PROVE SameAddresses
  BY <1>c DEF SameAddresses, Convert, TypeOK, Mapping
<1>1. CASE Reject
  <2>1. s <= Len(input) /\ ~HeaderSafe(obj)
    BY <1>1 DEF Reject, Starting
  <2>2. Dumped(obj) = {}
    BY <2>1 DEF Dumped
  <2> QED
    BY <1>1, <1>o, <1>a, <2>1, <2>2, OutputPass DEF Reject, Starting, Leave
<1>2. CASE Start
  <2>1. SameAddresses
    BY <1>2 DEF Start, SameAddresses, TypeOK, Mapping
  <2> QED
    BY <1>2, <1>o, <2>1, OutputStay DEF Start, Starting
<1>3. CASE WalkEnd
  <2>1. s <= Len(input) /\ pc = "walk" /\ i \in Nat
    BY <1>3 DEF WalkEnd, TypeOK, Busy
  <2>2. i >= obj.ncmds \/ ~is_safe(lc, obj.size)
    BY <1>3, <2>1, HostReads DEF WalkEnd
  <2>3. IsObject(obj) /\ obj.ncmds \in Nat
    BY <2>1, Current, ObjectType
  <2>4. i \in 0..obj.ncmds /\ \A g \in 0..(i - 1) : TextsIn(obj, g) = {}
    BY <2>1 DEF WalkInv, Busy
  <2>5. i < obj.ncmds => ~Reaches(obj, i)
    BY <2>1, <2>2, <2>3, ReachOne
  <2>6. Dumped(obj) = {}
    BY <2>3, <2>4, <2>5, NothingDumped
  <2> QED
    BY <1>3, <1>o, <1>a, <2>1, <2>6, OutputPass DEF WalkEnd, Leave
<1>4. CASE WalkSkip \/ SegmentOpen
  <2>1. s <= Len(input)
    BY <1>4 DEF WalkSkip, SegmentOpen, CanWalk, TypeOK, Busy
  <2> QED
    BY <1>4, <1>o, <1>c, <2>1, OutputStay DEF WalkSkip, SegmentOpen, CanWalk
<1>5. CASE SegmentCut
  <2>1. s <= Len(input) /\ pc = "walk"
    BY <1>5 DEF SegmentCut, CanWalk, TypeOK, Busy
  <2>2. /\ i < obj.ncmds /\ LcAt(obj, lc).cmd = "SEGMENT"
        /\ ~is_segmant_safe(lc, obj.is64, obj.size)
    BY <1>5, <2>1, HostReads DEF SegmentCut, CanWalk
  <2>3. IsObject(obj)
    BY <2>1, Current, ObjectType
  <2>4. i \in 0..obj.ncmds /\ \A g \in 0..(i - 1) : TextsIn(obj, g) = {}
    BY <2>1 DEF WalkInv, Busy
  <2>5. ~Reaches(obj, i)
    BY <2>1, <2>2, ReachOne
  <2>6. Dumped(obj) = {}
    BY <2>3, <2>4, <2>5, NothingDumped
  <2> QED
    BY <1>5, <1>o, <1>c, <2>1, <2>6, OutputPass DEF SegmentCut, Leave
<1>6. CASE SectionSkip
  BY <1>6, <1>o, <1>a, OutputStay DEF SectionSkip, CanTest
<1>7. CASE SegmentEnd
  BY <1>7, <1>o, <1>a, OutputStay DEF SegmentEnd
<1>8. CASE SectionFound
  <2>1. s <= Len(input) /\ pc = "sections"
    BY <1>8 DEF SectionFound, CanTest, TypeOK, Busy
  <2>2. ~obj.swap
    BY <2>1, HostReads
  <2>3. CASE is_safe(This + SizeofSection(obj.is64), obj.size)
    <3>1. /\ mem' = [mem EXCEPT ![name].sec = mem[name].sec]
          /\ s' = s /\ pc' = "dump" /\ line' = 0 /\ out' = Append(out, Title)
      BY <1>8, <2>2, <2>3 DEF SectionFound
    <3>2. SameAddresses
      BY <3>1 DEF SameAddresses, TypeOK, Mapping
    <3> QED
      BY <1>o, <2>1, <3>1, <3>2, OutputOpen
  <2>4. CASE ~is_safe(This + SizeofSection(obj.is64), obj.size)
    <3>1. Dumped(obj) = {}
      BY <1>8, <2>4, FoundFirst
    <3>2. mem' = mem /\ out' = out /\ s' = s + 1 /\ pc' = "start"
      BY <1>8, <2>4 DEF SectionFound, Leave
    <3> QED
      BY <1>o, <1>a, <2>1, <3>1, <3>2, OutputPass
  <2> QED
    BY <2>3, <2>4
<1>9. CASE DumpLine
  BY <1>9, OutputLine
<1>10. CASE DumpEnd
  BY <1>10, OutputLeave
<1>11. CASE Return
  <2>1. pc = "start" /\ pc' = "done" /\ s > Len(input) /\ UNCHANGED <<s, mem, line, out>>
    BY <1>11 DEF Return
  <2>2. s = Len(input) + 1
    <3>1. Len(input) \in Nat /\ s \in 1..(Len(input) + 1)
      BY OtoolAssumption DEF TypeOK
    <3> QED
      BY <2>1, <3>1
  <2>3. AddressInv'
    BY <1>o, <2>1 DEF OutputInv, AddressInv
  <2>4. OutInv'
    BY <1>o, <2>1, <2>2 DEF OutputInv, OutInv
  <2> QED
    BY <2>3, <2>4 DEF OutputInv
<1>12. CASE Finished \/ UNCHANGED vars
  <2>1. UNCHANGED vars
    BY <1>12 DEF Finished
  <2>2. AddressInv' /\ OutInv'
    BY <1>o, <2>1 DEF OutputInv, AddressInv, OutInv, vars, name, Printed
  <2> QED
    BY <2>2 DEF OutputInv
<1> QED
  BY <1>1, <1>2, <1>3, <1>4, <1>5, <1>6, <1>7, <1>8, <1>9, <1>10, <1>11, <1>12 DEF Next

LEMMA IndInit == Init => IInv
  BY TypeInit, PlainInit, WalkInit, OutputInit DEF IInv, OutputInv

LEMMA IndStep == IInv /\ [Next]_vars => IInv'
  BY TypeStep, PlainStep, WalkStep, OutputStep DEF IInv, OutputInv

\* ft_otool implements its contract: nothing is answered before the end, and then
\* the text section of every object has been dumped, in the order of the objects,
\* each line with its address, its place in the file and its number of bytes.
THEOREM DumpImplements == Spec => Implements
<1>1. Init => Contract!Init
  BY DEF Init, Contract!Init
<1>2. ASSUME IInv, IInv', [Next]_vars
      PROVE  [Contract!Answer]_<<input, pc = "done", IF pc = "done" THEN out ELSE <<>>>>
  <2>1. input' = input
    BY <1>2, SameInput
  <2>2. CASE pc = "done"
    <3>1. UNCHANGED vars
      BY <1>2, <2>2
         DEF Next, Reject, Starting, Start, WalkEnd, WalkSkip, CanWalk, SegmentCut, SegmentOpen,
             SectionSkip, CanTest, SegmentEnd, SectionFound, DumpLine, CanDump, DumpEnd,
             Return, Finished
    <3> QED
      BY <3>1 DEF vars
  <2>3. CASE pc # "done" /\ pc' # "done"
    BY <2>1, <2>3
  <2>4. CASE pc # "done" /\ pc' = "done"
    <3>1. IsDump(input, out')
      <4> SUFFICES ASSUME \A b \in 1..Len(input) : ~Objects[input[b]].swap
                   PROVE  IsDump(input, out')
        BY DEF IsDump
      <4>1. HostOrder'
        BY <2>1 DEF HostOrder
      <4>2. Len(input) \in Nat /\ s' = Len(input) + 1 /\ s' - 1 = Len(input)
        <5>1. Len(input) \in Nat
          BY <1>2, OtoolAssumption DEF IInv, TypeOK
        <5> QED
          BY <1>2, <2>1, <2>4, <4>1, <5>1 DEF IInv, OutInv
      <4>3. /\ Len(out') = Upto(input, Len(input)) + 0
            /\ \A b \in 1..Len(input) : \A n \in 1..DumpSize(input[b]) :
                 RightItem(input, b, n, out'[Upto(input, b - 1) + n])
        BY <1>2, <2>1, <2>4, <4>1, <4>2 DEF IInv, OutInv
      <4>4. Upto(input, Len(input)) \in Nat
        <5>1. input \in Seq(DOMAIN Objects)
          BY <1>2, OtoolAssumption DEF IInv, TypeOK
        <5> QED
          BY <4>2, <5>1, ItemsFinite
      <4> QED
        BY <4>3, <4>4 DEF IsDump
    <3> QED
      BY <2>1, <2>4, <3>1 DEF Contract!Answer
  <2> QED
    BY <2>2, <2>3, <2>4
<1> QED
  BY <1>1, <1>2, IndInit, IndStep, PTL DEF Spec, Implements, Contract!Spec
=============================================================================
