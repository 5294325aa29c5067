----------------------------- MODULE NmListing -----------------------------
(***************************************************************************)
(* What listing an object promises, whatever the loops that do it: either  *)
(* nothing or, for the first LC_SYMTAB of the object, one node per entry   *)
(* in the order of the table, each with the letter of the section its      *)
(* n_sect counts to and the address of its name.  The index of a name is an *)
(* int, so that one of 2^31 or more is a name before the string table.      *)
(***************************************************************************)
EXTENDS MachObject

\* Command j is the one whose symbols are listed (there is at most one).
IsListed(o, j) ==
  /\ LcAt(o, o.off[j]).cmd = "SYMTAB"
  /\ \A g \in 0..j : is_safe(o.off[g] + SizeofCommand, o.size)
  /\ \A g \in 0..(j - 1) : LcAt(o, o.off[g]).cmd # "SYMTAB"

NameOf(o, c, n)  == o.base + c.stroff + ToInt(NlAt(o, n).strx)
EntryOf(o, c, n) == o.base + c.symoff + n * SizeofNlist(o.is64)

EntryInside(o, c, n) ==
  /\ is_safe(o.base + c.stroff, o.size)
  /\ is_safe(EntryOf(o, c, n), o.size)
  /\ is_safe(NameOf(o, c, n), o.size)

\* The segment of command j holds section s, counting from 1 over the object.
Holds(o, j, s) == o.first[j] < s /\ s <= o.first[j + 1]

SegmentInside(o, j) ==
  /\ is_safe(o.off[j], o.size)
  /\ LcAt(o, o.off[j]).cmd = "SEGMENT" => is_segmant_safe(o.off[j], o.is64, o.size)

\* Section s can be reached: it exists, and nothing before it is cut off.
Found(o, s) ==
  {j \in 0..(o.ncmds - 1) : Holds(o, j, s) /\ \A g \in 0..j : SegmentInside(o, g)}

\* The entry of an object in the other byte order, as it means.
HostEntry(o, e) == IF o.swap THEN [e EXCEPT !.desc = <<e.desc[2], e.desc[1]>>] ELSE e

RightLetter(o, e) ==
  IF e.kind # "SECT"
  THEN {PreLetter(HostEntry(o, e))}
  ELSE IF Found(o, e.sect) = {}
  THEN {"s"}
  ELSE {SectionLetter(LcAt(o, o.off[j]).secs[e.sect - o.first[j]]) :
          j \in Found(o, e.sect)}

RightlyLettered(o, n, c) ==
  \E l \in RightLetter(o, NlAt(o, n)) : c = Cased(l, NlAt(o, n).ext)

\* In the other byte order the low byte of n_desc becomes one of n_value, the last but
\* one of n_value one of n_desc, and n_sect the byte that says weak.  That mixes up
\* common and undefined symbols, and weak ones: a common symbol of 256 bytes is 'u'.
Mixed(o, e) ==
  /\ o.swap
  /\ \/ e.kind = "UNDF" /\ ((e.value = 0) # (e.desc[2] = 0 /\ e.value \in {256 * b : b \in 0..255}))
     \/ e.kind = "RESERVED" /\ (e.sect \div 64) % 2 # (e.desc[2] \div 64) % 2

RightNode(o, c, n, node) ==
  /\ node.sym = n
  /\ node.name = NameOf(o, c, n)
  /\ Mixed(o, NlAt(o, n)) \/ RightlyLettered(o, n, node.letter)

IsListing(o, c, a) ==
  IF \A n \in 0..(c.nsyms - 1) : EntryInside(o, c, n)
  THEN /\ Len(a) = c.nsyms
       /\ \A n \in 0..(c.nsyms - 1) : RightNode(o, c, n, a[n + 1])
  ELSE a = <<>>

IsAnswer(o, a) ==
  IF HeaderSafe(o) /\ \E j \in 0..(o.ncmds - 1) : IsListed(o, j)
  THEN \E j \in 0..(o.ncmds - 1) :
         /\ IsListed(o, j)
         /\ LET c == LcAt(o, o.off[j]) IN
            IF is_safe(o.off[j] + SizeofSymtab, o.size)
            THEN IsListing(o, c, a)
            ELSE a = <<>>
  ELSE a = <<>>
=============================================================================
