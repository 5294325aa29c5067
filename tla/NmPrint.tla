------------------------------ MODULE NmPrint ------------------------------
(***************************************************************************)
(* What ft_nm shows of the symbols it has listed: the sort of NmSort, and  *)
(* after it print_nm_list and can_show_list.  One action of the printing   *)
(* is one node.                                                            *)
(***************************************************************************)
EXTENDS NmSort, FiniteSets

Capitals == {"A", "B", "C", "D", "I", "S", "T", "U", "W"}
Smalls   == {"a", "b", "c", "d", "i", "s", "t", "u", "w"}
Types    == Capitals \cup Smalls \cup {"-", "?", "\\015"}  \* \015: see Lowered

ASSUME PrintAssumption ==
  /\ \A f \in Flags : f \subseteq {"g", "p", "r", "u", "U", "j"}
  /\ \A l \in Lists : \A n \in 1..Len(l) : l[n].type \in Types

VARIABLES
  cur,     \* the node print_nm_list is at
  shown,   \* the lines printed
  result   \* what print_nm_list returns; "none" until it does

pvars == <<cur, shown, result>>

is_extern(c) == c \in Capitals

\* Mutant: debugging symbols are shown.
can_show_stab(type) ==
  /\ ~({"u", "U"} \subseteq flags)
  /\ "u" \in flags => IF "g" \in flags THEN type = "U" ELSE type \in {"u", "U"}
  /\ "u" \notin flags /\ "U" \in flags =>
       IF "g" \in flags THEN is_extern(type) /\ type # "U" ELSE type \notin {"u", "U"}

can_show_list(type) ==
  /\ type # "-"
  /\ ~({"u", "U"} \subseteq flags)
  /\ "u" \in flags => IF "g" \in flags THEN type = "U" ELSE type \in {"u", "U"}
  /\ "u" \notin flags /\ "U" \in flags =>
       IF "g" \in flags THEN is_extern(type) /\ type # "U" ELSE type \notin {"u", "U"}

\* A value as it lies in the mapping, the least significant byte first: 4 bytes and,
\* of what does not fit in them, 4 more.
Rest(v)  == v \div 256
Above(v) == Rest(Rest(Rest(Rest(v))))
Word(v)  == <<v % 256, Rest(v) % 256, Rest(Rest(v)) % 256, Rest(Rest(Rest(v))) % 256>>
ByteAt(v, p) == IF p < 4 THEN Word(v)[p + 1] ELSE Word(Above(v))[p - 3]
Width(node)  == IF node.is_64 THEN 8 ELSE 4

ASSUME ValueAssumption ==
  \A l \in Lists : \A n \in 1..Len(l) :
    IF l[n].is_64 THEN Above(Above(l[n].value)) = 0 ELSE Above(l[n].value) = 0

\* hexdump_address: add[--count] down to add[0], two digits per byte.
hexdump_address(node) == [d \in 1..Width(node) |-> ByteAt(node.value, Width(node) - d)]

Line(node) ==
  IF "u" \in flags \/ "j" \in flags
  THEN [name |-> node.name]
  ELSE [address |-> hexdump_address(node), type |-> node.type, name |-> node.name]

PrintInit == Init /\ cur = 1 /\ shown = <<>> /\ result = "none"

\* nm: the list is sorted, then printed.
Sort == (Unsorted \/ Compare \/ Settled \/ Sorted) /\ UNCHANGED pvars

Printing == done /\ result = "none"

\* No list: the file is malformed.
NoList ==
  /\ Printing /\ list = <<>>
  /\ result' = "malformed"
  /\ UNCHANGED <<vars, cur, shown>>

\* Mutant: list->next only for a node that is shown.
NodeHeld ==
  /\ Printing /\ cur <= Len(list)
  /\ IF can_show_list(list[cur].type)
     THEN shown' = Append(shown, Line(list[cur])) /\ cur' = cur + 1
     ELSE UNCHANGED <<shown, cur>>
  /\ UNCHANGED <<vars, result>>

Node ==
  /\ Printing /\ cur <= Len(list)
  /\ shown' = IF can_show_list(list[cur].type) THEN Append(shown, Line(list[cur])) ELSE shown
  /\ cur' = cur + 1
  /\ UNCHANGED <<vars, result>>

Return ==
  /\ Printing /\ list # <<>> /\ cur > Len(list)
  /\ result' = "shown"
  /\ UNCHANGED <<vars, cur, shown>>

Ended == result # "none" /\ UNCHANGED <<vars, pvars>>

PrintNext == Sort \/ NoList \/ Node \/ Return \/ Ended

PrintSpec ==
  PrintInit /\ [][PrintNext]_<<vars, pvars>> /\ WF_<<vars, pvars>>(PrintNext)

-----------------------------------------------------------------------------
\* The sort and the printing end.
Returned == <>(result # "none")

(***************************************************************************)
(* Seen from outside.  Each flag is a condition of its own on what is      *)
(* shown: u the undefined symbols, U the others, g the external ones; but  *)
(* g counts only beside u or U.  Debugging symbols are never shown, but for  *)
(* external ones, whose letter is not '-' any more.                        *)
(***************************************************************************)
Undefined(type) == type \in {"u", "U"}
Selected(f, type) ==
  /\ type # "-"
  /\ "u" \in f => Undefined(type)
  /\ "U" \in f => ~Undefined(type)
  /\ "g" \in f /\ f \cap {"u", "U"} # {} => type \in Capitals

\* With u or j a line is a name; otherwise its digits, read as a number, are the
\* address, in the width of the object.
Number(digits) ==
  LET upto[n \in 0..Len(digits)] == IF n = 0 THEN 0 ELSE upto[n - 1] * 256 + digits[n] IN
  upto[Len(digits)]
NamesOnly(f) == f \cap {"u", "j"} # {}
Tells(f, line, node) ==
  /\ line.name = node.name
  /\ IF NamesOnly(f)
     THEN DOMAIN line = {"name"}
     ELSE /\ line.type = node.type
          /\ Len(line.address) = Width(node) /\ Number(line.address) = node.value

\* Lines in the order the flags ask for: that of the symbol table with p.
Selection(x) == {n \in 1..Len(x[1]) : Selected(x[2], x[1][n].type)}
InOrder(x, a) ==
  LET r == "r" \in x[2]
      Seen(line) == [name |-> line.name, value |-> Number(line.address)] IN
  IF "p" \in x[2]
  THEN \E at \in [1..Len(a) -> Selection(x)] :
         \A q \in 1..Len(a) : /\ Tells(x[2], a[q], x[1][at[q]])
                              /\ \A s \in 1..Len(a) : q < s => at[q] < at[s]
  ELSE \A q, s \in 1..Len(a) :
         q < s => /\ NameMayPrecede(r, a[q], a[s])
                  /\ Close(x[1]) /\ ~NamesOnly(x[2]) => MayPrecede(r, Seen(a[q]), Seen(a[s]))

\* Every selected symbol has its line, as many as there are symbols it tells
\* of, and there are no other lines.
IsOutput(x, a) ==
  LET LinesOf(n) == {q \in 1..Len(a.shown) : Tells(x[2], a.shown[q], x[1][n])}
      Alike(n) == {m \in Selection(x) : \E q \in LinesOf(n) : Tells(x[2], a.shown[q], x[1][m])} IN
  /\ a.result = IF x[1] = <<>> THEN "malformed" ELSE "shown"
  /\ Len(a.shown) = Cardinality(Selection(x))
  /\ \A n \in Selection(x) : LinesOf(n) # {} /\ Cardinality(LinesOf(n)) = Cardinality(Alike(n))
  /\ InOrder(x, a.shown)
Output == INSTANCE OneAnswer WITH
  Inputs   <- Lists \X Flags,
  Right    <- IsOutput,
  input    <- <<input, flags>>,
  answered <- result # "none",
  answer   <- IF result = "none" THEN <<>> ELSE [result |-> result, shown |-> shown]

\* Sorting and printing together put out each selected symbol once, in order.
Prints == Output!Spec

-----------------------------------------------------------------------------
(***************************************************************************)
(* The inductive invariant behind Prints, beside that of the sort.         *)
(***************************************************************************)
Lines == [name : Nat] \cup [address : Seq(Nat), type : STRING, name : Nat]

PrintTypeOK ==
  /\ cur \in 1..(Len(list) + 1)
  /\ shown \in Seq(Lines)
  /\ result \in {"none", "malformed", "shown"}
  /\ ~done => cur = 1 /\ shown = <<>> /\ result = "none"
  /\ result # "none" => cur = Len(list) + 1
  /\ result # "none" => result = IF input = <<>> THEN "malformed" ELSE "shown"

\* The lines so far are those of the selected nodes passed, in their order.
Passed == {n \in 1..(cur - 1) : Selected(flags, list[n].type)}
ShownSoFar ==
  \E at \in [1..Len(shown) -> Passed] :
    /\ \A q \in 1..Len(shown) : /\ shown[q] = Line(list[at[q]])
                                /\ \A s \in 1..Len(shown) : q < s => at[q] < at[s]
    /\ \A n \in Passed : \E q \in 1..Len(shown) : at[q] = n

PrintInv == IInv /\ PrintTypeOK /\ ShownSoFar
=============================================================================
