------------------------------- MODULE MCMain -------------------------------
(***************************************************************************)
(* Command lines for the run of Main.  A file is named by a letter; lines  *)
(* with up to four files of every kind, three descriptors to open them,    *)
(* and options before, among and behind the files.                         *)
(***************************************************************************)
EXTENDS Main

Over(set, lengths) == UNION {[1..l -> set] : l \in lengths}

Good == [open |-> "ok", dir |-> FALSE, fails |-> "nothing", holds |-> "object"]
Kinded ==
  [o |-> Good,
   m |-> [Good EXCEPT !.holds = "malformed"],
   f |-> [Good EXCEPT !.holds = "foreign"],
   a |-> [Good EXCEPT !.open = "EACCES"],
   e |-> [Good EXCEPT !.open = "ENOENT"],
   d |-> [Good EXCEPT !.dir = TRUE, !.fails = "mmap"],
   g |-> [Good EXCEPT !.fails = "fstat in get_fd"],
   s |-> [Good EXCEPT !.fails = "fstat"],
   p |-> [Good EXCEPT !.fails = "mmap"],
   u |-> [Good EXCEPT !.fails = "munmap"]]

Named(files) == {<<f>> : f \in files}
MCDefault    == <<"a", ".", "o", "u", "t">>
FileLines ==
  Over(Named(DOMAIN Kinded), 0..2) \cup Over(Named({"o", "m", "f", "e", "a"}), {3, 4})

\* Every short line over two letters and dashes, and lines that repeat all flags.
Short == Over({"-", "g", "x"}, 0..3) \cup {<<"-", "u", "g", "U">>}
Long  == {<<"-", "g", "p", "r", "u", "U", "j">>, <<"-", "j", "j", "U", "u", "r", "p", "g", "g">>,
          <<"-", "u", "g">>, <<"o">>, <<"-">>, <<"-", "g", "-">>}
FlagLines == Over(Short, 1..2) \cup Over(Long, 1..4)

MCLines == FileLines \cup FlagLines

\* Files that are named by no letter of Kinded are missing.
MCKind ==
  [f \in Named(DOMAIN Kinded) \cup Short \cup Long \cup {MCDefault} |->
     IF f = MCDefault THEN Good
     ELSE IF f \in Named(DOMAIN Kinded) THEN Kinded[f[1]] ELSE Kinded.e]
MCInputs == [prog : Programs, args : MCLines, legal : BOOLEAN]
=============================================================================
