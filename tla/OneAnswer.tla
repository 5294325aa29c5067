----------------------------- MODULE OneAnswer -----------------------------
(***************************************************************************)
(* A computation seen from outside: it is given an input, and once, at the *)
(* end, it gives an answer that is right for that input.                   *)
(***************************************************************************)
CONSTANTS
  Inputs,       \* what it may be given
  Right(_, _)   \* Right(input, answer)

VARIABLES input, answered, answer

Init == input \in Inputs /\ answered = FALSE /\ answer = <<>>

Answer ==
  /\ ~answered /\ answered'
  /\ Right(input, answer')
  /\ input' = input

Spec == Init /\ [][Answer]_<<input, answered, answer>>
=============================================================================
