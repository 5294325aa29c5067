------------------------------ MODULE MCSlices ------------------------------
(***************************************************************************)
(* Files for the runs of Slices: three entries, of every architecture,     *)
(* with objects of both byte orders, missing ones and none at all.         *)
(***************************************************************************)
EXTENDS Slices

\* Where objects may be, and what each gives; nothing is at 300.
Offsets == {100, 200, 300}
ObjectsAt(l100, l200) ==
  [p \in {0, 100, 200} |->
     [magic |-> IF p = 200 THEN "MH_CIGAM" ELSE "MH_MAGIC_64",
      lists |-> IF p = 200 THEN l200 ELSE l100]]

Entry == [cpu : {"X86_64", "I386", "POWERPC"}, offset : Offsets]

Fat(magic, size, end, nb, archs, l100, l200) ==
  [magic |-> magic, size |-> size, end |-> end, nb |-> nb,
   arch |-> archs, at |-> ObjectsAt(l100, l200)]

\* Whole fat files; nb may count more entries than there are.
WholeNames ==
  [magic : {"FAT_CIGAM"}, size : {400}, end : {512}, nb : {3}, e : [0..2 -> Entry],
   l100 : BOOLEAN, l200 : BOOLEAN]
  \cup
  [magic : {"FAT_MAGIC_64"}, size : {400}, end : {512}, nb : {0, 2, 13},
   e : [0..1 -> Entry], l100 : {TRUE}, l200 : {FALSE}]

\* Files that end among the entries, or are no fat files at all.
ShortNames ==
  [magic : {"FAT_CIGAM", "FAT_CIGAM_64", "MH_MAGIC", "OTHER"}, size : {20, 40, 60}, end : {512},
   nb : {2, 3}, e : [0..2 -> [cpu : {"X86_64", "I386"}, offset : {40}]],
   l100 : {TRUE}, l200 : {FALSE}]

AsFile(n) == Fat(n.magic, n.size, n.end, n.nb, n.e, n.l100, n.l200)

\* An entry whose object is beyond the file, and more entries than pages.
FaultNames ==
  [magic : {"FAT_CIGAM"}, size : {64}, end : {64}, nb : {2, 4},
   e : [0..1 -> [cpu : {"X86_64", "POWERPC"}, offset : {60, 4096}]],
   l100 : {TRUE}, l200 : {FALSE}]
  \cup
  [magic : {"FAT_CIGAM_64"}, size : {48}, end : {48}, nb : {1, 2},
   e : [0..1 -> [cpu : {"X86_64", "I386"}, offset : {4, 4096}]],
   l100 : {TRUE}, l200 : {FALSE}]
FaultFiles == [n \in FaultNames |-> AsFile(n)]
AllFiles   == [n \in WholeNames \cup ShortNames \cup FaultNames |-> AsFile(n)]
MCSizeMod  == 65536
=============================================================================
