---------------------------- MODULE MCNmObject ----------------------------
(***************************************************************************)
(* Objects for the runs of NmObject.  Each run takes one of the sets.      *)
(***************************************************************************)
EXTENDS NmObject, MCObjects

\* A file is named by what it holds; Layout gives the commands of each kind.
Layout(kind, is64, nsyms) ==
  CASE kind = "ordered"      -> Ordered(is64, nsyms)
    [] kind = "symtab first" -> SymtabFirst(is64, nsyms)
    [] kind = "two symtabs"  -> TwoSymtabs(is64, nsyms)
    [] kind = "far command"  -> FarCommand(is64, nsyms)
    [] kind = "cut sections" -> CutSections(is64, nsyms)
    [] kind = "countless"    -> Countless(is64, nsyms)
    [] kind = "no symtab"    -> NoSymtab(is64)
    [] kind = "size 0"       -> ZeroSize(is64)
    [] kind = "symtab of size 0" -> ZeroSymtab(is64)

File(f, swap) ==
  Object(f.is64, swap, f.base, f.size, f.nc, Layout(f.kind, f.is64, Len(f.nl)), f.nl)

\* Complete objects in the host's byte order, of both widths.
Whole ==
  [kind : {"ordered", "symtab first", "two symtabs"}, is64 : BOOLEAN, base : {64},
   size : {2000}, nc : {5}, nl : Tables]

\* Objects that end early, or whose header counts more commands than there are.
Cuts == {0, 27, 28, 31, 32, 40, 200, 300, 700, 799, 800, 812, 816, 899, 900, 904, 1300}
Broken ==
  [kind : {"ordered"}, is64 : BOOLEAN, base : {0}, size : Cuts, nc : {0, 3, 4, 7},
   nl : {<<Defined(3, TRUE), Defined(2, FALSE)>>}]
  \cup
  [kind : {"symtab first"}, is64 : BOOLEAN, base : {0}, size : Cuts, nc : {4},
   nl : {<<Defined(1, TRUE), Defined(3, TRUE)>>}]
  \cup
  [kind : {"far command"}, is64 : BOOLEAN, base : {0}, size : {904, 2000}, nc : 3..5,
   nl : {<<Defined(5, TRUE), Defined(1, TRUE)>>}]
  \cup
  [kind : {"cut sections"}, is64 : BOOLEAN, base : {0}, size : {970}, nc : {3},
   nl : {<<Defined(1, TRUE), Defined(2, TRUE)>>}]
  \cup
  [kind : {"countless"}, is64 : {TRUE}, base : {0}, size : {2000}, nc : {4},
   nl : {<<Defined(2, TRUE), Defined(3, TRUE)>>}]
  \cup
  [kind : {"no symtab", "size 0", "symtab of size 0"}, is64 : BOOLEAN, base : {0},
   size : {2000}, nc : 0..4, nl : {<<Defined(2, TRUE), Defined(3, TRUE)>>}]

\* Objects in the other byte order.  The high byte of n_desc is in desc[1].
Ordinal(e, high) == [e EXCEPT !.desc = <<high, 0>>]
Pairs(S) == {<<e, f>> : e, f \in S}
Swappable ==
  [kind : {"ordered", "symtab first", "size 0"}, is64 : BOOLEAN, base : {0},
   size : {2000}, nc : {2, 7},
   nl : Pairs({Symbol("UNDF", TRUE), Common, NameOutside,
               Ordinal(Defined(2, TRUE), 1), Ordinal(Defined(3, FALSE), 2)})]
  \cup
  [kind : {"ordered", "symtab first", "size 0"}, is64 : BOOLEAN, base : {0},
   size : {300}, nc : {2, 7}, nl : {<<Common, Ordinal(Defined(2, TRUE), 1)>>}]
\* Symbols whose section is looked for behind its segment: in the next command, in
\* the symbol table's, among the entries, and outside the file.
Strays ==
  [kind : {"ordered"}, is64 : BOOLEAN, base : {0}, size : {2000}, nc : {5},
   nl : {<<Symbol("UNDF", TRUE), Ordinal(Defined(1, TRUE), n), Common>> : n \in {3, 6, 7, 9, 10, 255}}]

\* A symbol defined in __text, as every big-endian executable has one.
OneDefined ==
  [kind : {"ordered"}, is64 : BOOLEAN, base : {0}, size : {2000}, nc : {5},
   nl : {<<Symbol("UNDF", TRUE), Defined(1, TRUE)>>}]
SwappedDefined == [f \in OneDefined |-> File(f, TRUE)]

\* Entries of which swap_nlist changes the letter: a common symbol of 256 bytes, an
\* undefined one and a weak one with a bit in the low byte of n_desc, and one with
\* a bit in n_sect.
MixedUp ==
  {[Common EXCEPT !.value = 256], [Symbol("UNDF", TRUE) EXCEPT !.desc = <<0, 1>>],
   [Symbol("RESERVED", TRUE) EXCEPT !.desc = <<0, 64>>], [Symbol("RESERVED", TRUE) EXCEPT !.sect = 64]}

\* Objects in the other byte order without a symbol defined in a section.
Undefined ==
  [kind : {"ordered", "symtab first"}, is64 : BOOLEAN, base : {64}, size : {870, 950, 2000},
   nc : {5}, nl : Pairs({Symbol("UNDF", TRUE), Common, Symbol("ABS", FALSE),
                            Symbol("STAB", FALSE), NameOutside})]
  \cup
  [kind : {"ordered"}, is64 : BOOLEAN, base : {64}, size : {2000}, nc : {5},
   nl : Pairs({Symbol("UNDF", FALSE), NameBefore(100), [Common EXCEPT !.value = 65536]}
              \cup MixedUp)]
Either == ((Whole \cup Broken) \X {FALSE}) \cup ((Swappable \cup Strays \cup OneDefined \cup Undefined) \X {TRUE})
ManyObjects == [f \in Either |-> File(f[1], f[2])]
=============================================================================
