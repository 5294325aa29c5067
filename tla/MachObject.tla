---------------------------- MODULE MachObject ----------------------------
(***************************************************************************)
(* A Mach-O object as the two programs see it, and the letter a symbol     *)
(* gets.  The load commands of an object are a function of their file      *)
(* offset, so that a walk that leaves the command boundaries reads what is *)
(* there (zeros) and not the next command; symbol-table entries are a      *)
(* function of their index.  The structures of an object do not overlap.   *)
(***************************************************************************)
EXTENDS MachO, Sequences

Commands == {"SEGMENT", "SYMTAB", "OTHER", "NONE"}
Kinds    == {"STAB", "UNDF", "ABS", "SECT", "PBUD", "INDR", "RESERVED"}
Small    == {"?", "-", "c", "u", "a", "s", "i", "w", "t", "d", "b"}
Letters  == Small \cup {"C", "U", "A", "S", "I", "W", "T", "D", "B", "\\015"}

\* Bytes that no structure of the object occupies are zero.
NoCommand == [cmd |-> "NONE", cmdsize |-> 0, secs |-> <<>>,
              symoff |-> 0, nsyms |-> 0, stroff |-> 0]
NoEntry   == [strx |-> 0, kind |-> "UNDF", ext |-> FALSE, sect |-> 0,
              desc |-> <<0, 0>>, value |-> 0]

LcAt(o, p) == IF p \in DOMAIN o.lc THEN o.lc[p] ELSE NoCommand
NlAt(o, n) == IF n \in DOMAIN o.nl THEN o.nl[n] ELSE NoEntry

IsCommand(c) ==
  /\ c.cmd \in Commands /\ c.cmdsize \in Nat
  /\ c.secs \in Seq(STRING \X STRING)   \* (sectname, segname) of its sections
  /\ c.symoff \in Nat /\ c.nsyms \in Nat /\ c.stroff \in Nat

\* n_value as a number, the two bytes of n_desc as they are in the file.
IsEntry(e) ==
  /\ e.strx \in 0..(SizeMod - 1) /\ e.kind \in Kinds /\ e.ext \in BOOLEAN
  /\ e.sect \in 0..255 /\ e.desc \in (0..255) \X (0..255) /\ e.value \in Nat

(***************************************************************************)
(* off[j] is where command j starts and first[j] the number of sections in *)
(* the segments before it.  Both follow from the commands; the programs    *)
(* compute them step by step, the specifications have them at hand.        *)
(***************************************************************************)
IsObject(o) ==
  /\ o.is64 \in BOOLEAN /\ o.swap \in BOOLEAN
  /\ o.base \in Nat /\ o.size \in Nat /\ o.ncmds \in Nat
  /\ \A p \in DOMAIN o.lc : IsCommand(o.lc[p])
  /\ \A n \in DOMAIN o.nl : IsEntry(o.nl[n])
  /\ o.off \in [0..o.ncmds -> Nat] /\ o.first \in [0..o.ncmds -> Nat]
  /\ o.off[0] = o.base + SizeofHeader(o.is64) /\ o.first[0] = 0
  /\ \A j \in 0..(o.ncmds - 1) :
       LET c == LcAt(o, o.off[j]) IN
       /\ o.off[j + 1] = o.off[j] + c.cmdsize
       /\ o.first[j + 1] =
            o.first[j] + (IF c.cmd = "SEGMENT" THEN Len(c.secs) ELSE 0)

\* The header check of handle_not_fat and get_lc.
HeaderSafe(o) == is_safe(o.base, o.size) /\ is_lc_safe(o.base, o.is64, o.size)

Weak(e) == (e.desc[1] \div 64) % 2 = 1

\* pre_symbol_letter and pre_64; INDR is n_type 0xa, RESERVED any other.
PreLetter(e) ==
  CASE e.kind = "STAB"     -> "-"
    [] e.kind = "UNDF"     -> IF e.value # 0 THEN "c" ELSE "u"
    [] e.kind = "ABS"      -> "a"
    [] e.kind = "SECT"     -> "s"
    [] e.kind = "PBUD"     -> "u"
    [] e.kind = "INDR"     -> "i"
    [] e.kind = "RESERVED" -> IF Weak(e) THEN "w" ELSE "?"

SectionLetter(names) ==
  CASE names = <<"__text", "__TEXT">> -> "t"
    [] names = <<"__data", "__DATA">> -> "d"
    [] names = <<"__bss", "__DATA">>  -> "b"
    [] OTHER                          -> "s"

Upper == [c |-> "C", u |-> "U", a |-> "A", s |-> "S", i |-> "I", w |-> "W",
          t |-> "T", d |-> "D", b |-> "B"]

\* A letter less 32; '-' becomes a carriage return.
Lowered(c) == IF c = "-" THEN "\\015" ELSE Upper[c]

\* Mutant: the test for '?' is dropped, and '?' - 32 is no letter.
CasedAlways(c, ext) == IF ~ext THEN c ELSE IF c = "?" THEN "\\037" ELSE Lowered(c)

\* get_symbol_letter: an external symbol's letter is a capital.
Cased(c, ext) == IF ext /\ c # "?" THEN Lowered(c) ELSE c
=============================================================================
