------------------------------- MODULE Otool -------------------------------
(***************************************************************************)
(* ft_otool on the objects it is given (one, or those Slices chooses from  *)
(* a fat file): handle_not_fat and everything it calls, for each of them.  *)
(*                                                                         *)
(* get_text_section walks the load commands, text_in_seg the sections of a *)
(* segment, dump_section prints the section it found, sixteen bytes a line.*)
(* The address in front of a line is read from the section's header, which *)
(* dump_section itself advances line by line: an object that is dumped     *)
(* again, because two entries of a fat file share it, goes on from there.  *)
(*                                                                         *)
(* A line that starts inside the file is taken to end within its last page.*)
(***************************************************************************)
EXTENDS MachObject, FiniteSets

CONSTANTS
  Objects,  \* the objects there are, by name
  Extents,  \* for each object and section offset: [addr, size, offset]
  Inputs    \* the sequences of objects ft_otool may be given

SectionOffset(o, p, n) == p + SizeofSegment(o.is64) + (n - 1) * SizeofSection(o.is64)
Segments(o)  == {p \in DOMAIN o.lc : o.lc[p].cmd = "SEGMENT"}
Sections(o)  == UNION {{SectionOffset(o, p, n) : n \in 1..Len(o.lc[p].secs)} : p \in Segments(o)}
IsText(o, q) == \E p \in Segments(o) : \E n \in 1..Len(o.lc[p].secs) :
                  q = SectionOffset(o, p, n) /\ o.lc[p].secs[n] = <<"__text", "__TEXT">>

ASSUME OtoolAssumption ==
  /\ \A f \in DOMAIN Objects :
       /\ IsObject(Objects[f])
       /\ Sections(Objects[f]) \subseteq DOMAIN Extents[f]
       /\ \A q \in DOMAIN Extents[f] : Extents[f][q] \in [addr : Nat, size : Nat, offset : Nat]
  /\ \A l \in Inputs : l \in Seq(DOMAIN Objects)

VARIABLES
  input,  \* the objects, in order
  s,      \* the one being handled
  mem,    \* what was converted and advanced in the mapping of each
  pc,
  i, lc,  \* the walk over the commands
  sec,    \* sections of the segment at lc looked at
  found,  \* the offset of the text section
  line,   \* dump_section's i
  out     \* the titles and lines printed

vars == <<input, s, mem, pc, i, lc, sec, found, line, out>>

name == input[s]
obj  == Objects[name]
m    == mem[name]

Untouched(f) == [ncmds |-> FALSE, lc |-> {}, sec |-> {}, add |-> [q \in DOMAIN Extents[f] |-> 0]]
Toggle(S, x) == (S \ {x}) \cup ({x} \ S)

\* The fields of a command as they are read when those of C are converted.
Converted(C)  == lc \in C <=> obj.swap
Cmd(C)        == LET c == LcAt(obj, lc).cmd IN IF Converted(C) \/ c = "NONE" THEN c ELSE "OTHER"
Cmdsize(C)    == Read(LcAt(obj, lc).cmdsize, Converted(C))
\* swap_segment_command leaves nsects, swap_section address, size and offset.
Nsects        == Read(Len(LcAt(obj, lc).secs), ~obj.swap)
Extent(field) == Read(Extents[name][found][field], ~obj.swap)

Init ==
  /\ input \in Inputs
  /\ s = 1
  /\ mem = [f \in {input[b] : b \in 1..Len(input)} |-> Untouched(f)]
  /\ pc = "start"
  /\ i = 0 /\ lc = 0 /\ sec = 0 /\ found = 0 /\ line = 0
  /\ out = <<>>

\* handle_fat passes over what handle_not_fat returns and takes the next object.
Leave == s' = s + 1 /\ pc' = "start"

Starting == pc = "start" /\ s <= Len(input)

\* handle_not_fat: the header does not fit.
Reject ==
  /\ Starting /\ ~HeaderSafe(obj)
  /\ Leave
  /\ UNCHANGED <<input, mem, i, lc, sec, found, line, out>>

\* get_lc
Start ==
  /\ Starting /\ HeaderSafe(obj)
  /\ mem' = [mem EXCEPT ![name].ncmds = (@ # obj.swap)]
  /\ i' = 0 /\ lc' = obj.base + SizeofHeader(obj.is64)
  /\ pc' = "walk"
  /\ UNCHANGED <<input, s, sec, found, line, out>>

Ncmds == Read(obj.ncmds, m.ncmds = obj.swap)

\* get_text_section returns NULL, and put_text_section does nothing with it.
WalkEnd ==
  /\ pc = "walk" /\ (i >= Ncmds \/ ~is_safe(lc, obj.size))
  /\ Leave
  /\ UNCHANGED <<input, mem, i, lc, sec, found, line, out>>

CanWalk == pc = "walk" /\ i < Ncmds /\ is_safe(lc, obj.size)
After   == IF obj.swap THEN Toggle(m.lc, lc) ELSE m.lc
Convert == mem' = [mem EXCEPT ![name].lc = After]

WalkSkip ==
  /\ CanWalk /\ Cmd(After) # "SEGMENT"
  /\ Convert
  /\ lc' = lc + Cmdsize(After) /\ i' = i + 1
  /\ UNCHANGED <<input, s, pc, sec, found, line, out>>

\* A segment that is cut off ends the walk.
SegmentCut ==
  /\ CanWalk /\ Cmd(After) = "SEGMENT" /\ ~is_segmant_safe(lc, obj.is64, obj.size)
  /\ Convert
  /\ Leave
  /\ UNCHANGED <<input, i, lc, sec, found, line, out>>

SegmentOpen ==
  /\ CanWalk /\ Cmd(After) = "SEGMENT" /\ is_segmant_safe(lc, obj.is64, obj.size)
  /\ Convert
  /\ sec' = 0 /\ pc' = "sections"
  /\ UNCHANGED <<input, s, i, lc, found, line, out>>

This       == SectionOffset(obj, lc, sec + 1)
CanTest    == pc = "sections" /\ sec < Nsects /\ is_safe(This, obj.size)
TextHere   == IsText(obj, This) /\ This \notin m.sec

\* Mutant: the section is not stepped over.
SectionSkipStay ==
  /\ CanTest /\ ~TextHere
  /\ UNCHANGED vars

\* text_in_seg: the names are others.
SectionSkip ==
  /\ CanTest /\ ~TextHere
  /\ sec' = sec + 1
  /\ UNCHANGED <<input, s, mem, pc, i, lc, found, line, out>>

\* text_in_seg has looked at all sections, or at all inside the file.
SegmentEnd ==
  /\ pc = "sections" /\ (sec >= Nsects \/ ~is_safe(This, obj.size))
  /\ lc' = lc + Cmdsize(m.lc) /\ i' = i + 1
  /\ pc' = "walk"
  /\ UNCHANGED <<input, s, mem, sec, found, line, out>>

Title == [obj |-> name, title |-> TRUE, address |-> 0, at |-> 0, bytes |-> 0]

\* text_in_seg finds it; put_text_section converts it and begins to print.
SectionFound ==
  LET whole == is_safe(This + SizeofSection(obj.is64), obj.size) IN
  /\ CanTest /\ TextHere
  /\ found' = This /\ line' = 0
  /\ IF whole
     THEN /\ mem' = [mem EXCEPT ![name].sec = IF obj.swap THEN Toggle(@, This) ELSE @]
          /\ out' = Append(out, Title)
          /\ pc' = "dump" /\ s' = s
     ELSE Leave /\ UNCHANGED <<mem, out>>
  /\ UNCHANGED <<input, i, lc, sec>>

Str     == obj.base + Extent("offset") + line
CanDump == pc = "dump" /\ line < Extent("size") /\ is_safe(Str, obj.size)

\* Mutant: always sixteen bytes.
hexdump_sixteen(left) == 16

\* hexdump_data stops at the end of the section.
hexdump_data(left) == IF left < 16 THEN left ELSE 16

\* dump_section prints a line and advances the address in the section's header.
DumpLine ==
  LET left == Extent("size") - line IN
  /\ CanDump
  /\ out' = Append(out, [obj |-> name, title |-> FALSE,
                         address |-> Extent("addr") + m.add[found],
                         at |-> Str, bytes |-> hexdump_data(left)])
  /\ mem' = [mem EXCEPT ![name].add[found] = @ + 16]
  /\ line' = line + 16
  /\ UNCHANGED <<input, s, pc, i, lc, sec, found>>

\* dump_section is done, or the line would start outside the file.
DumpEnd ==
  /\ pc = "dump" /\ (line >= Extent("size") \/ ~is_safe(Str, obj.size))
  /\ Leave
  /\ UNCHANGED <<input, mem, i, lc, sec, found, line, out>>

Return ==
  /\ pc = "start" /\ s > Len(input)
  /\ pc' = "done"
  /\ UNCHANGED <<input, s, mem, i, lc, sec, found, line, out>>

Finished == pc = "done" /\ UNCHANGED vars

Next ==
  \/ Reject \/ Start
  \/ WalkEnd \/ WalkSkip \/ SegmentCut \/ SegmentOpen
  \/ SectionSkip \/ SegmentEnd \/ SectionFound
  \/ DumpLine \/ DumpEnd
  \/ Return \/ Finished

Spec == Init /\ [][Next]_vars /\ WF_vars(Next)

-----------------------------------------------------------------------------
\* No line is printed from outside the file, nor past the end of the section in
\* which its first byte is.
LinesInside ==
  \A n \in 1..Len(out) :
    ~out[n].title =>
      LET o == Objects[out[n].obj] IN
      /\ is_safe(out[n].at, o.size)
      /\ ~o.swap => \E q \in Sections(o) :
           LET e == Extents[out[n].obj][q] IN
           /\ o.base + e.offset <= out[n].at
           /\ out[n].at + out[n].bytes <= o.base + e.offset + e.size

\* All the nested loops end, for any counts, sizes and offsets.
Termination == <>(pc = "done")

(***************************************************************************)
(* Seen from outside, for objects in the host's byte order: one after the  *)
(* other, the first section named __text of a segment named __TEXT that    *)
(* the commands lead to, in lines of sixteen bytes up to the file's end.   *)
(***************************************************************************)
Reaches(o, j) ==
  \A g \in 0..j : /\ is_safe(o.off[g], o.size)
                  /\ LcAt(o, o.off[g]).cmd = "SEGMENT" =>
                       is_segmant_safe(o.off[g], o.is64, o.size)
TextsIn(o, j) ==
  {q \in {SectionOffset(o, o.off[j], n) : n \in 1..Len(LcAt(o, o.off[j]).secs)} :
     LcAt(o, o.off[j]).cmd = "SEGMENT" /\ IsText(o, q) /\ is_safe(q, o.size)}
Dumped(o) ==
  UNION {{q \in TextsIn(o, j) : /\ HeaderSafe(o) /\ Reaches(o, j)
                                /\ \A g \in 0..(j - 1) : TextsIn(o, g) = {}
                                /\ \A r \in TextsIn(o, j) : q <= r
                                /\ is_safe(q + SizeofSection(o.is64), o.size)} :
         j \in 0..(o.ncmds - 1)}
LinesOf(f, q) ==
  LET e == Extents[f][q] IN
  {k \in 0..(e.size \div 16) : 16 * k < e.size
                                /\ is_safe(Objects[f].base + e.offset + 16 * k, Objects[f].size)}

\* The n-th line of the dump of the a-th object, which was dumped before as
\* often as it comes earlier in the input.
IsLine(l, a, n, item) ==
  \E q \in Dumped(Objects[l[a]]) :
    LET e == Extents[l[a]][q]
        k == Cardinality(LinesOf(l[a], q))
        before == Cardinality({b \in 1..(a - 1) : l[b] = l[a]}) IN
    item = [obj |-> l[a], title |-> FALSE,
            address |-> e.addr + 16 * (before * k + n - 1),
            at |-> Objects[l[a]].base + e.offset + 16 * (n - 1),
            bytes |-> IF e.size < 16 * n THEN e.size - 16 * (n - 1) ELSE 16]

\* A title, and the lines; nothing of an object that has no text section.
DumpSize(f) ==
  IF Dumped(Objects[f]) = {} THEN 0
  ELSE 1 + Cardinality(UNION {LinesOf(f, q) : q \in Dumped(Objects[f])})

\* As many items as the first b objects have together.
Upto(l, b) == Cardinality(UNION {{c} \X (1..DumpSize(l[c])) : c \in 1..b})

RightItem(l, a, n, item) ==
  IF n = 1 THEN item.obj = l[a] /\ item.title ELSE IsLine(l, a, n - 1, item)

IsDump(l, a) ==
  (\A b \in 1..Len(l) : ~Objects[l[b]].swap) =>
    /\ Len(a) = Upto(l, Len(l))
    /\ \A b \in 1..Len(l) : \A n \in 1..DumpSize(l[b]) :
         RightItem(l, b, n, a[Upto(l, b - 1) + n])

Contract == INSTANCE OneAnswer WITH
  Inputs   <- Inputs,
  Right    <- IsDump,
  input    <- input,
  answered <- pc = "done",
  answer   <- IF pc = "done" THEN out ELSE <<>>
Implements == Contract!Spec

\* Of every object that has a text section inside the file, a line is printed.
TextShown ==
  pc = "done" =>
    \A b \in 1..Len(input) :
      (\E q \in Dumped(Objects[input[b]]) : LinesOf(input[b], q) # {}) =>
        \E n \in 1..Len(out) : out[n].obj = input[b] /\ ~out[n].title

-----------------------------------------------------------------------------
(***************************************************************************)
(* The inductive invariant behind LinesInside and Implements.              *)
(***************************************************************************)
Given == {input[b] : b \in 1..Len(input)}
Item  == [obj : DOMAIN Objects, title : BOOLEAN, address : Nat, at : Nat, bytes : Nat]
Mapping(f) == [ncmds : BOOLEAN, lc : SUBSET Nat, sec : SUBSET Nat,
               add : [DOMAIN Extents[f] -> Nat]]
Busy == pc \in {"walk", "sections", "dump"}

TypeOK ==
  /\ input \in Inputs /\ s \in 1..(Len(input) + 1)
  /\ mem = [f \in Given |-> mem[f]] /\ \A f \in Given : mem[f] \in Mapping(f)
  /\ pc \in {"start", "walk", "sections", "dump", "done"}
  /\ Busy => s <= Len(input)
  /\ i \in Nat /\ lc \in Nat /\ sec \in Nat /\ found \in Nat /\ line \in Nat
  /\ pc = "dump" => found \in Sections(obj)
  /\ out \in Seq(Item)

\* The contract is about objects in the host's order: their mappings are not
\* converted, only the addresses in their section headers advance.
HostOrder == \A b \in 1..Len(input) : ~Objects[input[b]].swap
PlainInv ==
  HostOrder => \A f \in Given : ~mem[f].ncmds /\ mem[f].lc = {} /\ mem[f].sec = {}

\* The walk is at command i, and has passed no text section.
WalkInv ==
  HostOrder /\ Busy =>
    /\ HeaderSafe(obj) /\ i \in 0..obj.ncmds /\ lc = obj.off[i]
    /\ Reaches(obj, i - 1) /\ \A g \in 0..(i - 1) : TextsIn(obj, g) = {}
    /\ pc # "walk" => i < obj.ncmds /\ Reaches(obj, i) /\ LcAt(obj, lc).cmd = "SEGMENT"
    /\ pc = "sections" => /\ sec <= Len(LcAt(obj, lc).secs)
                          /\ \A n \in 1..sec : ~IsText(obj, SectionOffset(obj, lc, n))
    /\ pc = "dump" => found \in Dumped(obj)

\* Lines printed of the section being dumped, and dumps of f among the first a objects.
Printed == line \div 16
Times(l, a, f) == Cardinality({b \in 1..a : l[b] = f})

\* A section's address has advanced by all the lines printed of it so far.
AddressInv ==
  HostOrder =>
    \A f \in Given : \A q \in Dumped(Objects[f]) :
      mem[f].add[q] = 16 * (Times(input, s - 1, f) * Cardinality(LinesOf(f, q)))
                        + (IF pc = "dump" /\ f = name THEN line ELSE 0)

\* Everything printed so far is right, and in its place.
OutInv ==
  HostOrder =>
    /\ pc = "dump" => line = 16 * Printed /\ 0..(Printed - 1) \subseteq LinesOf(name, found)
    /\ Len(out) = Upto(input, s - 1) + (IF pc = "dump" THEN 1 + Printed ELSE 0)
    /\ \A b \in 1..(s - 1) : \A n \in 1..DumpSize(input[b]) :
         RightItem(input, b, n, out[Upto(input, b - 1) + n])
    /\ pc = "dump" => \A n \in 1..(1 + Printed) :
         RightItem(input, s, n, out[Upto(input, s - 1) + n])
    /\ pc = "done" => s = Len(input) + 1

IInv == TypeOK /\ PlainInv /\ WalkInv /\ AddressInv /\ OutInv
=============================================================================
