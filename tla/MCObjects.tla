----------------------------- MODULE MCObjects -----------------------------
(***************************************************************************)
(* The small objects the runs are made of: how load commands, a symbol     *)
(* table and a file size make an object, and the layouts to list.          *)
(***************************************************************************)
EXTENDS MachObject, FiniteSets

MCSizeMod == 16384
MCFar     == 4096

Names == [text  |-> <<"__text", "__TEXT">>, stubs |-> <<"__stubs", "__TEXT">>,
          data  |-> <<"__data", "__DATA">>, bss   |-> <<"__bss", "__DATA">>]

Segment(is64, secs) ==
  [NoCommand EXCEPT !.cmd = "SEGMENT", !.secs = secs,
                    !.cmdsize = SizeofSegment(is64) + Len(secs) * SizeofSection(is64)]
Other(cmdsize) == [NoCommand EXCEPT !.cmd = "OTHER", !.cmdsize = cmdsize]
Symtab_(symoff, nsyms, stroff) ==
  [NoCommand EXCEPT !.cmd = "SYMTAB", !.cmdsize = SizeofSymtab,
                    !.symoff = symoff, !.nsyms = nsyms, !.stroff = stroff]

PageZero(is64) == Segment(is64, <<>>)
Text(is64)     == Segment(is64, <<Names.text, Names.stubs>>)
Data(is64)     == Segment(is64, <<Names.data, Names.bss>>)

\* The object with these commands one after the other, in a file of that size.
Object(is64, swap, base, size, ncmds, cmds, nl) ==
  LET pos[c \in 1..(Len(cmds) + 1)] ==
        IF c = 1 THEN base + SizeofHeader(is64) ELSE pos[c - 1] + cmds[c - 1].cmdsize
      lc == [p \in {pos[c] : c \in DOMAIN cmds} |->
               cmds[CHOOSE c \in DOMAIN cmds : pos[c] = p]]
      at(p) == IF p \in DOMAIN lc THEN lc[p] ELSE NoCommand
      off[j \in 0..ncmds] ==
        IF j = 0 THEN base + SizeofHeader(is64) ELSE off[j - 1] + at(off[j - 1]).cmdsize
      first[j \in 0..ncmds] ==
        IF j = 0 THEN 0 ELSE first[j - 1] + Len(at(off[j - 1]).secs)
  IN [is64 |-> is64, swap |-> swap, base |-> base, size |-> size, ncmds |-> ncmds,
      lc |-> lc, nl |-> [n \in 0..(Len(nl) - 1) |-> nl[n + 1]],
      off |-> off, first |-> first]

Defined(s, ext)   == [NoEntry EXCEPT !.kind = "SECT", !.sect = s, !.ext = ext, !.strx = 4, !.value = 1]
Symbol(kind, ext) == [NoEntry EXCEPT !.kind = kind, !.ext = ext, !.strx = 2]
Common            == [NoEntry EXCEPT !.ext = TRUE, !.value = 8, !.strx = 2]
NameOutside       == [NoEntry EXCEPT !.strx = 5000]
\* An index that is negative as an int: the name lies before the strings.
NameBefore(n)     == [NoEntry EXCEPT !.strx = MCSizeMod - n]

Entries == {Defined(1, TRUE), Defined(3, FALSE), Defined(4, TRUE), Defined(5, FALSE),
            Symbol("UNDF", TRUE), Common, NameOutside, NameBefore(100)}
OneOfEach == {<<Symbol("STAB", FALSE), Symbol("STAB", TRUE), Symbol("ABS", TRUE), Symbol("PBUD", TRUE)>>,
              <<Symbol("INDR", TRUE), Symbol("RESERVED", TRUE),
                [Symbol("RESERVED", TRUE) EXCEPT !.desc = <<64, 0>>]>>,
              <<Common, NameBefore(5000)>>}

Tables == {<<>>} \cup {<<e>> : e \in Entries} \cup {<<e, f>> : e, f \in Entries} \cup OneOfEach

\* The commands in order, then the symbol table at 800 and the strings at 900.
Ordered(is64, nsyms) ==
  <<PageZero(is64), Text(is64), Data(is64), Symtab_(800, nsyms, 900), Other(16)>>
\* Segments after the symbol table's command, the last beyond the strings.
SymtabFirst(is64, nsyms) ==
  <<Symtab_(800, nsyms, 900), Text(is64), Other(800), Data(is64)>>
\* Two symbol tables: the second is never looked at.
TwoSymtabs(is64, nsyms) ==
  <<Text(is64), Symtab_(800, nsyms, 900), Symtab_(0, 1, 0)>>
\* A command that leads out of a short file, with nothing where it leads.
FarCommand(is64, nsyms) == <<Symtab_(800, nsyms, 900), Text(is64), Other(1000)>>
\* A segment whose sections are zeros behind the end of a short file.
CutSections(is64, nsyms) ==
  <<Symtab_(800, nsyms, 900), Other(840), Segment(is64, <<<<"", "">>, <<"", "">>>>)>>
\* A segment that states more sections than it has, one less than an unsigned int has values.
Countless(is64, nsyms) ==
  <<Symtab_(800, nsyms, 900), Text(is64),
    [Segment(is64, [n \in 1..(MCSizeMod - 1) |-> <<"", "">>]) EXCEPT !.cmdsize = SizeofSegment(is64)],
    Data(is64)>>
NoSymtab(is64)   == <<Text(is64), Data(is64)>>
ZeroSize(is64)   == <<Text(is64), Other(0), Symtab_(800, 1, 900)>>
ZeroSymtab(is64) == <<Text(is64), [Symtab_(800, 1, 900) EXCEPT !.cmdsize = 0]>>
=============================================================================
