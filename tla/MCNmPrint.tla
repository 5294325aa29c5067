----------------------------- MODULE MCNmPrint -----------------------------
(***************************************************************************)
(* Lists for the runs of NmSort and NmPrint: up to four nodes over two     *)
(* names and addresses that are close or not when an int has 3 bits, and   *)
(* up to two symbols of every letter.                                      *)
(***************************************************************************)
EXTENDS NmPrint

MCHalf == 4

NodeOf(n, is_64, type, name, value) ==
  [add |-> n, is_64 |-> is_64, type |-> type, name |-> name, value |-> value]
ListsOf(names, values, lengths) ==
  UNION {{[n \in 1..l |-> NodeOf(n, TRUE, IF n = 1 THEN "T" ELSE "d", f[n][1], f[n][2])] :
            f \in [1..l -> names \X values]} : l \in lengths}

CloseLists == ListsOf({1, 2}, {0, 3}, 0..3) \cup ListsOf({1}, {0, 1, 3}, {3})
                \cup ListsOf({1, 2}, {5}, {4}) \cup ListsOf({1}, {5, 6}, {4})
FarLists   == ListsOf({1}, {0, 3, 6}, 1..3) \cup ListsOf({1, 2}, {0, 6}, {2})
EachLetter ==
  {<<NodeOf(1, w, t, 1, 16909060)>> : t \in Types, w \in BOOLEAN}
  \cup {<<NodeOf(1, TRUE, t, 2, 0), NodeOf(2, TRUE, v, 1, 259)>> :
          t, v \in {"-", "u", "U", "T", "t"}}
MCLists == CloseLists \cup FarLists \cup EachLetter

MCFlags   == SUBSET {"g", "u", "U", "j"} \cup SUBSET {"p", "r"} \cup {{"r", "U"}, {"p", "j"}}
SortFlags == SUBSET {"p", "r"}
=============================================================================
