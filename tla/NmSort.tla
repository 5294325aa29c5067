------------------------------- MODULE NmSort -------------------------------
(***************************************************************************)
(* The order ft_nm prints symbols in: sort_nm_list, sort_list_by_name and  *)
(* the comparisons under it.  The list is sorted in place by exchanging    *)
(* what two nodes hold, one pair of nodes at a time: cp is the node being  *)
(* settled, jump runs over the nodes after it.  One action is one pair.    *)
(*                                                                         *)
(* A name is its rank in the order of ft_strcmp.  add points into the      *)
(* symbol-table entry of the node, so no two nodes of a list share it;     *)
(* value is the address the host reads there.                              *)
(***************************************************************************)
EXTENDS Integers, Sequences

CONSTANTS
  Lists,   \* the lists to sort
  Flags,   \* the sets of flags the program may be run with
  Half     \* 2^31: an int is between -Half and Half - 1

Nodes == [add : Nat, is_64 : BOOLEAN, type : STRING, name : Nat, value : Nat]

ASSUME SortAssumption ==
  /\ Half \in Nat \ {0}
  /\ \A l \in Lists :
       /\ l \in Seq(Nodes)
       /\ \A m, n \in 1..Len(l) : l[m].add = l[n].add => m = n

VARIABLES
  input,  \* the list that was built
  flags,
  list,   \* the list as it is now
  cp,     \* the node being settled
  jump,   \* the node it is compared with
  done

vars == <<input, flags, list, cp, jump, done>>

\* The difference of two addresses is unsigned, and returned as an int.
ToInt(d) == ((d + Half) % (2 * Half)) - Half
compare_add(a, b) == ToInt(a.value - b.value)

ft_strcmp(a, b) == a.name - b.name

\* Mutants: nodes of one name are left as they are; -r is forgotten.
OutOfOrderName(a, b) ==
  IF "r" \in flags THEN ft_strcmp(a, b) < 0 ELSE ft_strcmp(a, b) > 0
OutOfOrderForward(a, b) ==
  ft_strcmp(a, b) > 0 \/ (ft_strcmp(a, b) = 0 /\ compare_add(a, b) > 0)

\* compare_exchange and compare_exchange_reverse: a comes before b, and must not.
OutOfOrder(a, b) ==
  IF "r" \in flags
  THEN ft_strcmp(a, b) < 0 \/ (ft_strcmp(a, b) = 0 /\ compare_add(a, b) < 0)
  ELSE ft_strcmp(a, b) > 0 \/ (ft_strcmp(a, b) = 0 /\ compare_add(a, b) > 0)

\* Mutant: nothing keeps what the first node held.
ExchangeLossy(l, m, n) == [l EXCEPT ![m] = l[n]]
Exchange(l, m, n) == [l EXCEPT ![m] = l[n], ![n] = l[m]]

Init ==
  /\ input \in Lists /\ flags \in Flags
  /\ list = input
  /\ cp = 1 /\ jump = 2
  /\ done = FALSE

\* sort_nm_list: the order of the symbol table is kept, or there is no list.
Unsorted ==
  /\ ~done /\ ("p" \in flags \/ list = <<>>)
  /\ done' = TRUE
  /\ UNCHANGED <<input, flags, list, cp, jump>>

Sorting == ~done /\ "p" \notin flags /\ list # <<>>

\* sort_list_by_name: one pair.
Compare ==
  /\ Sorting /\ cp < Len(list) /\ jump <= Len(list)
  /\ list' = IF OutOfOrder(list[cp], list[jump]) THEN Exchange(list, cp, jump) ELSE list
  /\ jump' = jump + 1
  /\ UNCHANGED <<input, flags, cp, done>>

\* sort_list_by_name: cp->next.
Settled ==
  /\ Sorting /\ cp < Len(list) /\ jump > Len(list)
  /\ cp' = cp + 1 /\ jump' = cp + 2
  /\ UNCHANGED <<input, flags, list, done>>

Sorted ==
  /\ Sorting /\ cp = Len(list)
  /\ done' = TRUE
  /\ UNCHANGED <<input, flags, list, cp, jump>>

Finished == done /\ UNCHANGED vars

Next == Unsorted \/ Compare \/ Settled \/ Sorted \/ Finished

Spec == Init /\ [][Next]_vars /\ WF_vars(Next)

-----------------------------------------------------------------------------
TypeOK ==
  /\ input \in Lists /\ flags \in Flags
  /\ list \in Seq(Nodes)
  /\ cp \in Nat \ {0} /\ jump \in Nat
  /\ done \in BOOLEAN

\* No symbol is lost, duplicated or mixed up by the exchanges: the list always
\* holds the nodes that were built, each whole.
NodesKept ==
  /\ Len(list) = Len(input)
  /\ \A m \in 1..Len(input) : \E n \in 1..Len(list) : list[n] = input[m]
  /\ \A n \in 1..Len(list) : \E m \in 1..Len(input) : list[n] = input[m]
  /\ \A m, n \in 1..Len(list) : list[m].add = list[n].add => m = n

\* The addresses of a list are close when their differences fit in an int.
Close(l) ==
  \A m, n \in 1..Len(l) : /\ l[m].value - l[n].value < Half
                          /\ l[n].value - l[m].value < Half

\* a may be printed before b: by name, then by address; backwards with -r.
MayPrecede(r, a, b) ==
  IF r THEN b.name < a.name \/ (b.name = a.name /\ b.value <= a.value)
       ELSE a.name < b.name \/ (a.name = b.name /\ a.value <= b.value)

NameMayPrecede(r, a, b) == IF r THEN b.name <= a.name ELSE a.name <= b.name

\* The nodes before cp are settled, and cp holds the first of those from it to jump.
\* Names are settled whatever the addresses are.
SortedSoFar ==
  Sorting =>
    \A m, n \in 1..Len(list) :
      m < n /\ (m < cp \/ (m = cp /\ n < jump)) =>
        /\ NameMayPrecede("r" \in flags, list[m], list[n])
        /\ Close(input) => MayPrecede("r" \in flags, list[m], list[n])

\* Printing order: the names, for every list.
NamesInOrder ==
  done /\ "p" \notin flags =>
    \A m, n \in 1..Len(list) :
      m < n => NameMayPrecede("r" \in flags, list[m], list[n])

\* Printing order: symbols of one name come by address.
AddressesInOrder ==
  done /\ "p" \notin flags =>
    \A m, n \in 1..Len(list) : m < n => MayPrecede("r" \in flags, list[m], list[n])

\* Seen from outside, a list whose addresses are close is sorted in one step.
IsSortOf(x, a) ==
  /\ Len(a) = Len(x[1])
  /\ \A m \in 1..Len(a) : \E n \in 1..Len(a) : a[n] = x[1][m]
  /\ "p" \in x[2] => a = x[1]
  /\ "p" \notin x[2] /\ Close(x[1]) =>
       \A m, n \in 1..Len(a) : m < n => MayPrecede("r" \in x[2], a[m], a[n])
Contract == INSTANCE OneAnswer WITH
  Inputs   <- Lists \X Flags,
  Right    <- IsSortOf,
  input    <- <<input, flags>>,
  answered <- done,
  answer   <- IF done THEN list ELSE <<>>
Implements == Contract!Spec

\* The two loops stay on the list, and what they leave behind is the order.
LoopInv ==
  /\ list # <<>> => cp <= Len(list) /\ cp < jump
  /\ done /\ "p" \notin flags =>
       \A m, n \in 1..Len(list) :
         m < n => /\ NameMayPrecede("r" \in flags, list[m], list[n])
                  /\ Close(input) => MayPrecede("r" \in flags, list[m], list[n])
  /\ "p" \in flags => list = input

IInv == TypeOK /\ NodesKept /\ SortedSoFar /\ LoopInv
=============================================================================
