--------------------------- MODULE MCGetNextLine ---------------------------
(***************************************************************************)
(* Two descriptors for the run of GetNextLine: every text of up to three   *)
(* characters, a newline in each place or in none, beside a few others,    *)
(* with buffers of two characters, so that a read brings less than a line, *)
(* a line, and more than a line.                                           *)
(***************************************************************************)
EXTENDS GetNextLine

Over(chars, lengths) == UNION {[1..n -> chars] : n \in lengths}
MCNewLine == "\n"
MCTexts ==
  [{3, 4} -> {<<>>, <<"a">>}] \cup
  {[d \in {3, 4} |-> IF d = 3 THEN t ELSE u] :
     t \in Over({"a", "\n"}, 2..3), u \in {<<>>, <<"b">>, <<"b", "\n">>, <<"\n", "b", "\n">>}}
=============================================================================
