----------------------------- MODULE LineReader -----------------------------
(***************************************************************************)
(* What get_next_line promises: each call on a descriptor hands out the    *)
(* next line of its text, or says that the text is at its end.  Calls on   *)
(* different descriptors may alternate; but when one of them is at its     *)
(* end, text of the others that was read ahead may be gone.                *)
(***************************************************************************)
EXTENDS Integers, Sequences, SequencesExt

CONSTANTS
  Texts,    \* a text for each descriptor, as sequences of characters
  NewLine   \* the character that ends a line

VARIABLES
  left,     \* the text of each descriptor not handed out yet
  cut,      \* during this call a read found nothing though the text goes on
  last      \* the answer to the last call

NoAnswer == [fd |-> -1, ret |-> -1, line |-> <<>>]

Init == left \in Texts /\ cut = FALSE /\ last = NoAnswer

\* A text up to its first newline, and such a piece of it without the newline.
LineOf(l) == IF Last(l) = NewLine THEN Front(l) ELSE l
First(t)  == IF Contains(t, NewLine) THEN SubSeq(t, 1, SelectInSeq(t, LAMBDA c : c = NewLine))
             ELSE t

\* Of a text that is cut the line may be the part of it that was there.
Line(d, l) ==
  /\ l = First(left[d]) \/ (cut /\ IsPrefix(l, First(left[d])))
  /\ left' = [left EXCEPT ![d] = SubSeq(@, Len(l) + 1, Len(@))]
  /\ last' = [fd |-> d, ret |-> 1, line |-> LineOf(l)]
  /\ cut' = FALSE

End(d) ==
  /\ left[d] = <<>> \/ cut
  /\ left'[d] = left[d]
  /\ DOMAIN left' = DOMAIN left /\ \A f \in DOMAIN left : IsSuffix(left'[f], left[f])
  /\ last' = [fd |-> d, ret |-> 0, line |-> <<>>]
  /\ cut' = FALSE

\* A descriptor that cannot be read has no text.
Refuse == left' = left /\ cut' = cut /\ last'.ret = -1 /\ last'.fd \notin DOMAIN left

Cut == ~cut /\ cut' /\ left' = left /\ last' = last

Next ==
  \/ Cut \/ Refuse
  \/ \E d \in DOMAIN left :
       \/ End(d)
       \/ \E n \in 1..Len(left[d]) : Line(d, SubSeq(left[d], 1, n))

Spec == Init /\ [][Next]_<<left, cut, last>>
=============================================================================
