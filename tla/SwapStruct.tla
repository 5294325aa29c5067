----------------------------- MODULE SwapStruct -----------------------------
(***************************************************************************)
(* The conversions of whole structures, in place: swap_mach_header,        *)
(* swap_loadcommand, swap_symtab, swap_segment_command, swap_section,      *)
(* swap_arch and swap_nlist, and the conversions by value swap_uint32 and  *)
(* swap_uint64.  One action is one turn of the loop in swap_endiane, under *)
(* every conversion in place, or one exchange of blocks inside a word.     *)
(*                                                                         *)
(* A byte is named by the offset it has in the file, so that mem shows     *)
(* where every byte went.  A structure may be converted several times: a   *)
(* section is, once per symbol that is looked up in it, and so is a load   *)
(* command of size 0, once per turn of the walk.                           *)
(***************************************************************************)
EXTENDS Integers, Sequences, MachO

CONSTANT MaxRounds  \* how often a structure is converted

ASSUME RoundsAssumption == MaxRounds \in Nat

Structures == {"header", "command", "symtab", "segment", "section", "arch",
               "nlist", "uint"}

SizeofStruct(s, is64) ==
  CASE s = "header"  -> SizeofHeader(is64)
    [] s = "command" -> SizeofCommand
    [] s = "symtab"  -> SizeofSymtab
    [] s = "segment" -> SizeofSegment(is64)
    [] s = "section" -> SizeofSection(is64)
    [] s = "arch"    -> SizeofFatArch(is64)
    [] s = "nlist"   -> SizeofNlist(is64)
    [] s = "uint"    -> IF is64 THEN 8 ELSE 4

\* A step of a conversion: swap_endiane on n bytes, or neighbouring blocks of w
\* bytes change places in a value of n bytes.
Reverse(at, n)   == [at |-> at, n |-> n, w |-> 0]
Neighbours(n, w) == [at |-> 0, n |-> n, w |-> w]

swap_nb_32(at, nb) == [c \in 1..nb |-> Reverse(at + (c - 1) * 4, 4)]
swap_64(at)        == <<Reverse(at, 8)>>

\* Mutants: ncmds is taken to be where sizeofcmds is not; the offset of
\* nsects; n_value one byte further to the front.
swap_mach_header_early   == swap_nb_32(12, 1)
swap_segment_nsects(is64) == swap_nb_32(IF is64 THEN 64 ELSE 48, 1)
swap_nlist_overlap(is64) == swap_nb_32(0, 1) \o <<Reverse(5, 2)>>
                              \o (IF is64 THEN swap_64(6) ELSE swap_nb_32(6, 1))

\* The calls each function makes, in order.
swap_mach_header      == swap_nb_32(16, 1)
swap_loadcommand      == swap_nb_32(0, 2)
swap_symtab           == swap_nb_32(8, 4)
swap_segment_command(is64) == swap_nb_32((IF is64 THEN 42 ELSE 26) + 2 * 4, 1)
swap_section(is64)    == IF is64 THEN swap_64(4) \o swap_64(12) \o swap_nb_32(20, 1)
                                 ELSE swap_nb_32(4, 3)
swap_arch(is64)       == IF is64 THEN swap_64(8) \o swap_64(16) ELSE swap_nb_32(8, 2)
swap_nlist(is64)      == swap_nb_32(0, 1) \o <<Reverse(5, 2)>>
                           \o (IF is64 THEN swap_64(7) ELSE swap_nb_32(7, 1))
swap_uint(is64)       == <<Neighbours(IF is64 THEN 8 ELSE 4, 1),
                           Neighbours(IF is64 THEN 8 ELSE 4, 2)>>
                           \o (IF is64 THEN <<Neighbours(8, 4)>> ELSE <<>>)

Calls(s, is64) ==
  CASE s = "header"  -> swap_mach_header
    [] s = "command" -> swap_loadcommand
    [] s = "symtab"  -> swap_symtab
    [] s = "segment" -> swap_segment_command(is64)
    [] s = "section" -> swap_section(is64)
    [] s = "arch"    -> swap_arch(is64)
    [] s = "nlist"   -> swap_nlist(is64)
    [] s = "uint"    -> swap_uint(is64)

VARIABLES
  struct, is64,
  mem,     \* the bytes of the structure and the eight after it
  rounds,  \* conversions begun
  todo,    \* the calls the present one has still to make
  before,  \* mem when swap_endiane was called
  i, j,    \* its two ends
  inside   \* swap_endiane is running

vars == <<struct, is64, mem, rounds, todo, before, i, j, inside>>

Span == 0..(SizeofStruct(struct, is64) + 7)

Init ==
  /\ struct \in Structures /\ is64 \in BOOLEAN
  /\ mem = [p \in Span |-> p] /\ before = mem
  /\ rounds = 0 /\ todo = <<>>
  /\ i = -1 /\ j = 0 /\ inside = FALSE

Convert ==
  /\ todo = <<>> /\ rounds < MaxRounds
  /\ rounds' = rounds + 1
  /\ todo' = Calls(struct, is64)
  /\ UNCHANGED <<struct, is64, mem, before, i, j, inside>>

\* swap_uint32, swap_uint64: masks and shifts exchange neighbouring blocks.
Exchange ==
  /\ todo # <<>> /\ Head(todo).w > 0
  /\ LET w == Head(todo).w
         from(p) == IF p >= Head(todo).n THEN p
                    ELSE IF (p \div w) % 2 = 0 THEN p + w ELSE p - w IN
     mem' = [p \in Span |-> mem[from(p)]]
  /\ todo' = Tail(todo)
  /\ UNCHANGED <<struct, is64, rounds, before, i, j, inside>>

\* swap_endiane, called with an address and a number of bytes.
Call ==
  /\ todo # <<>> /\ Head(todo).w = 0 /\ ~inside
  /\ before' = mem /\ i' = -1 /\ j' = Head(todo).n /\ inside' = TRUE
  /\ UNCHANGED <<struct, is64, mem, rounds, todo>>

\* The bytes a and b of data change places.
Swapped(data, a, b) == [data EXCEPT ![a] = data[b], ![b] = data[a]]

\* Mutant: temp is forgotten.
SwapLossy ==
  /\ inside /\ i + 1 <= j - 1
  /\ i' = i + 1 /\ j' = j - 1
  /\ mem' = [mem EXCEPT ![Head(todo).at + i'] = mem[Head(todo).at + j']]
  /\ UNCHANGED <<struct, is64, rounds, todo, before, inside>>
\* One turn: while (++i <= --j).
Swap ==
  /\ inside /\ i + 1 <= j - 1
  /\ i' = i + 1 /\ j' = j - 1
  /\ mem' = Swapped(mem, Head(todo).at + i', Head(todo).at + j')
  /\ UNCHANGED <<struct, is64, rounds, todo, before, inside>>

Return ==
  /\ inside /\ i + 1 > j - 1
  /\ i' = i + 1 /\ j' = j - 1
  /\ inside' = FALSE /\ todo' = Tail(todo)
  /\ UNCHANGED <<struct, is64, mem, rounds, before>>

Finished == todo = <<>> /\ rounds = MaxRounds /\ UNCHANGED vars

Next == Convert \/ Exchange \/ Call \/ Swap \/ Return \/ Finished

Spec == Init /\ [][Next]_vars

-----------------------------------------------------------------------------
\* In the middle of swap_endiane, the bytes its two ends have passed are mirrored,
\* those between them and those outside are as they were: the ends never pass
\* each other and undo what they did.
Mirrored ==
  inside =>
    LET at == Head(todo).at
        n  == Head(todo).n IN
    \A p \in Span :
      mem[p] = IF p \in at..(at + i) \/ p \in (at + j)..(at + n - 1)
               THEN before[2 * at + n - 1 - p]
               ELSE before[p]

Odd  == todo = <<>> /\ rounds % 2 = 1
Even == todo = <<>> /\ rounds % 2 = 0

\* A field of n bytes at offset at, read in the host's order or as in the file.
IsReversed(at, n) == \A p \in at..(at + n - 1) : mem[p] = 2 * at + n - 1 - p
IsKept(at, n)     == \A p \in at..(at + n - 1) : mem[p] = p

\* Converting twice is not converting at all: nothing is lost, and the programs'
\* habit of converting again before every read undoes itself.
Restored == Even => \A p \in Span : mem[p] = p

\* Nothing outside the structure moves, in no step of any conversion.
\* What a conversion makes readable: ncmds; cmd and cmdsize; what follows them
\* in the symbol table's command, whose first 8 bytes are left as swap_loadcommand
\* left them; offset and size of an entry of a fat file; n_strx, with n_type as
\* it is; and a whole value.
FieldsConverted ==
  /\ \A p \in Span : p >= SizeofStruct(struct, is64) => mem[p] = p
  /\ Odd =>
    CASE struct = "header"  -> IsReversed(16, 4) /\ IsKept(0, 16)
      [] struct = "command" -> IsReversed(0, 4) /\ IsReversed(4, 4)
      [] struct = "symtab"  -> /\ IsReversed(8, 4) /\ IsReversed(12, 4)
                               /\ IsReversed(16, 4) /\ IsReversed(20, 4)
                               /\ IsKept(0, 8)
      [] struct = "arch"    -> IF is64 THEN IsReversed(8, 8) /\ IsReversed(16, 8)
                                       ELSE IsReversed(8, 4) /\ IsReversed(12, 4)
      [] struct = "nlist"   -> IsReversed(0, 4) /\ IsKept(4, 1)
      [] struct = "uint"    -> IsReversed(0, IF is64 THEN 8 ELSE 4)
      [] OTHER              -> TRUE

\* What NmObject and Otool take a conversion to leave behind: nsects as it is in
\* the file; n_sect and the first byte of n_desc exchanged, and the bytes from
\* the second of n_desc to the last but one of n_value reversed; the first four
\* letters of a section's name followed by others, its address, size and offset
\* as they are in the file.
AsModelled ==
  Odd =>
    CASE struct = "segment" -> IF is64 THEN IsKept(64, 4) ELSE IsKept(48, 4)
      [] struct = "nlist"   -> /\ mem[5] = 6 /\ mem[6] = 5
                               /\ IF is64 THEN IsReversed(7, 8) /\ mem[15] = 15
                                          ELSE IsReversed(7, 4) /\ mem[11] = 11
      [] struct = "section" -> /\ IsKept(0, 4) /\ mem[4] \notin 4..5
                               /\ IF is64 THEN IsKept(32, 20) ELSE IsKept(32, 12)
      [] OTHER              -> TRUE

-----------------------------------------------------------------------------
(***************************************************************************)
(* The inductive invariant behind the four properties.                     *)
(***************************************************************************)
Steps   == [at : Nat, n : Nat, w : Nat]
Present == Calls(struct, is64)
Done    == Len(Present) - Len(todo)  \* calls of the present conversion made

\* Call c has been made an odd number of times.
Turned(c) == (IF c <= Done THEN rounds ELSE rounds - 1) % 2 = 1

\* The bytes call c reverses, and where one of them goes.
Field(c)     == Present[c].at..(Present[c].at + Present[c].n - 1)
Mirror(c, p) == 2 * Present[c].at + Present[c].n - 1 - p

TypeOK ==
  /\ struct \in Structures /\ is64 \in BOOLEAN
  /\ mem \in [Span -> Span] /\ before \in [Span -> Span]
  /\ rounds \in 0..MaxRounds
  /\ todo \in Seq(Steps) /\ Len(todo) <= Len(Present)
  /\ \A c \in 1..Len(todo) : todo[c] = Present[Done + c]
  /\ todo # <<>> => rounds > 0
  /\ i \in Int /\ j \in Int /\ inside \in BOOLEAN
  /\ inside => /\ todo # <<>> /\ Head(todo).w = 0
               /\ -1 <= i /\ i <= j /\ i + j = Head(todo).n - 1

\* Between two calls of swap_endiane a byte is in its field's mirror image when
\* the call has been made an odd number of times, and where it was otherwise.
TurnedInv ==
  struct # "uint" =>
    LET data == IF inside THEN before ELSE mem IN
    \A p \in Span :
      /\ \A c \in 1..Len(Present) :
           p \in Field(c) => data[p] = IF Turned(c) THEN Mirror(c, p) ELSE p
      /\ (\A c \in 1..Len(Present) : p \notin Field(c)) => data[p] = p

\* Of a value, each exchange turns one bit of the place of every byte.
Bit(p, w, c) == w * (IF Turned(c) THEN 1 - ((p \div w) % 2) ELSE (p \div w) % 2)
Place(p) == Bit(p, 1, 1) + Bit(p, 2, 2) + (IF is64 THEN Bit(p, 4, 3) ELSE 0)
ValueInv ==
  struct = "uint" =>
    /\ ~inside
    /\ \A p \in Span : mem[p] = IF p < SizeofStruct(struct, is64) THEN Place(p) ELSE p

IInv == TypeOK /\ Mirrored /\ TurnedInv /\ ValueInv
=============================================================================
