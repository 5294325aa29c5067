---------------------------- MODULE MCFtPrintf ----------------------------
(***************************************************************************)
(* The calls that FtPrintf is checked for.                                 *)
(***************************************************************************)
EXTENDS FtPrintf

Num(v)       == [slot |-> v, text |-> <<>>, zero |-> FALSE]
Text(t)      == [slot |-> 1, text |-> t, zero |-> TRUE]
Endless(t)   == [slot |-> 1, text |-> t, zero |-> FALSE]
NoText       == [slot |-> 0, text |-> <<>>, zero |-> FALSE]
Copies(c)    == [copy |-> c]
Dir(flags, width, prec, length, conv) ==
  [flags |-> flags, width |-> width, prec |-> prec, length |-> length, conv |-> conv]
One(d, args) == [spec |-> <<d>>, args |-> args]

\* Every set of flags with widths and precisions on both sides of the numbers'
\* lengths: zero, one digit, and two of which the int is negative.
Fields ==
  {One(Dir(f, w, q, <<>>, c), <<Num(v)>>) :
     f \in SUBSET Range(Flags), w \in {None, 2, 4}, q \in {None, 0, 2},
     c \in {"d", "u", "o", "x", "p"}, v \in {0, 5, 27}}

\* A zero at a length that cuts the int, with what a zero of precision 0 loses.
Zeros ==
  {One(Dir(f, w, 0, l, c), <<Num(v)>>) :
     f \in {{}, {"+"}, {" "}, {"#"}, {"0", "-"}}, w \in {None, 3}, l \in Lengths,
     c \in {"d", "o", "u"}, v \in {0, CharMod, ShortMod, IntMod}}

\* Every length, with a value in each of the ranges the lengths tell apart.
Widths ==
  {One(Dir(f, None, None, l, c), <<Num(v)>>) :
     f \in {{}, {"#", "+"}}, l \in Lengths, v \in {0, 5, 8, 10, 11, 27, 45, 63},
     c \in {"d", "D", "i", "u", "U", "o", "O", "x", "X", "b", "p"}}

Texts ==
  {One(Dir(f, w, q, l, c), <<v>>) :
     f \in SUBSET {"-", "0"}, w \in {None, 1, 3}, q \in {None, 0, 1, 4}, l \in {<<>>, <<"l">>},
     c \in {"s", "S"}, v \in {NoText, Text(<<>>), Text(<<"a", "b">>), Endless(<<"a", "b">>)}}
  \cup {One(Dir(f, w, None, l, c), <<Text(<<"a">>)>>) :
     f \in SUBSET {"-", "0"}, w \in {None, 1, 3}, l \in {<<>>, <<"l">>}, c \in {"c", "C"}}
  \cup {One(Dir(f, w, None, l, c), <<Text(t)>>) :   \* wide characters: zero, and one of two bytes
     f \in SUBSET {"-", "0"}, w \in {None, 1, 3}, l \in {<<"l">>}, c \in {"c", "C"},
     t \in {<<>>, <<"\\303", "\\251">>}}
  \cup {One(Dir(f, w, None, <<>>, "%"), <<>>) : f \in SUBSET {"-", "0"}, w \in {None, 1, 3}}

\* Widths and precisions that are arguments, negative ones (IntMod - 3) too.
Starred ==
  {One(Dir(f, Star, q, <<>>, c), (IF q = Star THEN <<Num(w), Num(r)>> ELSE <<Num(w)>>) \o <<v>>) :
     f \in {{}, {"-"}, {"0"}}, q \in {None, 0, Star}, w \in {0, 3, IntMod - 3}, r \in {1, IntMod - 3},
     c \in {"d", "x", "s"}, v \in {[slot |-> 5, text |-> <<"a", "b">>, zero |-> TRUE]}}
  \cup {One(Dir({}, w, Star, <<>>, "d"), <<Num(r), Num(5)>>) :
     w \in {None, 3}, r \in {0, 2, IntMod - 3}}
  \cup {One(Dir({}, Star, None, <<>>, "S"), <<Num(w), v>>) :
     w \in {0, 3}, v \in {NoText, Text(<<"a", "b">>)}}

\* Fields at the end of the ints, the least int as a width, and texts that are longer
\* together.
Limits ==
  {One(Dir(f, w, q, <<>>, c), <<Num(v)>>) :
     f \in {{}, {"#"}, {"+", "0"}, {"#", "-"}}, w \in {None, 15}, q \in {None, 13, 14, 15},
     c \in {"d", "o", "x", "p"}, v \in {0, 5, 27}}
  \cup {One(Dir(f, Star, q, <<>>, c), <<Num(IntMod \div 2), [slot |-> 5, text |-> <<"a">>, zero |-> TRUE]>>) :
     f \in {{}, {"-"}}, q \in {None, 0}, c \in {"d", "x", "s", "c", "C"}}
  \cup {[spec |-> <<Copies("a"), Dir({}, 15, None, <<>>, c), Dir({}, w, None, <<>>, c)>>,
         args |-> <<Num(5), Num(5)>>] : w \in {None, 15}, c \in {"d", "u"}}

\* Formats that end within a conversion, alone and after text.
Ending ==
  {[spec |-> s \o <<Dir(f, w, q, l, Open)>>, args |-> <<>>] :
     s \in {<<>>, <<Copies("a")>>},
     f \in {{}, {"#"}}, w \in {None, 2}, q \in {None, 1}, l \in {<<>>, <<"l">>}}

\* The formats of the two programs, and calls of several directives.
Byte == Dir({}, None, 2, <<>>, "x")
Str  == Dir({}, None, None, <<>>, "s")
Chr  == Dir({}, None, None, <<>>, "c")
Programs ==
  {One(Byte, <<Num(v)>>) : v \in 0..(CharMod - 1)}
  \cup {[spec |-> <<Byte, Copies(" ")>>, args |-> <<Num(v)>>] : v \in 0..(CharMod - 1)}
  \cup {[spec |-> <<Str, Copies(":"), Copies("\n")>>, args |-> <<Text(<<"a", "b">>)>>],
        [spec |-> <<Str, Copies("\n")>>, args |-> <<Text(<<"a", "b">>)>>],
        [spec |-> <<Copies(" "), Chr, Copies(" ")>>, args |-> <<Text(<<"T">>)>>],
        [spec |-> <<Str>>, args |-> <<Text(<<"\t">>)>>],
        [spec |-> <<Copies("\n")>>, args |-> <<>>],
        [spec |-> <<>>, args |-> <<>>]}
Several ==
  {[spec |-> <<Copies("a"), d, e, Copies("s"), Byte>>,
    args |-> [q \in 1..Takes(d) |-> Num(3)] \o [q \in 1..Takes(e) |-> Num(q)] \o <<Num(4)>>] :
     d, e \in {Dir({}, None, None, <<>>, "%"), Dir({"-"}, Star, None, <<"l">>, "u"),
               Dir({"0"}, 3, None, <<"h", "h">>, "i"), Dir({}, Star, Star, <<>>, "x")}}

MCCalls == Fields \cup Zeros \cup Widths \cup Texts \cup Starred \cup Limits \cup Ending \cup Programs \cup Several
=============================================================================
