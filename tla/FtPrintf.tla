------------------------------ MODULE FtPrintf ------------------------------
(***************************************************************************)
(* libft's ft_printf, which writes everything both programs show: a format *)
(* is read character by character, and each conversion prints itself and   *)
(* sets the length that is added to the result.  A read or a write outside  *)
(* the call's own strings ends the model of it, and so does a width that    *)
(* has no negative: pc is "beyond".  Other sums of ints wrap, as the build  *)
(* makes them.  Wide strings beyond ASCII are left out.                    *)
(***************************************************************************)
EXTENDS Integers, Sequences, FiniteSets, FiniteSetsExt, SequencesExt

CONSTANTS
  Calls,                            \* the calls: [spec, args], see IsCall
  CharMod, ShortMod, IntMod, LongMod  \* 2^8, 2^16, 2^32 and 2^64

Hex     == <<"0", "1", "2", "3", "4", "5", "6", "7", "8", "9", "a", "b", "c", "d", "e", "f">>
BigHex  == <<"0", "1", "2", "3", "4", "5", "6", "7", "8", "9", "A", "B", "C", "D", "E", "F">>
Decimal == {Hex[d] : d \in 1..10}
Flags   == <<"#", "-", "+", " ", "0">>
Lengths == {<<>>, <<"h">>, <<"h", "h">>, <<"l">>, <<"l", "l">>, <<"j">>, <<"z">>}

is_f(c) == c \in {"s", "S", "p", "d", "D", "i", "o", "O", "u", "U", "x", "X", "c", "C", "b"}

(***************************************************************************)
(* A call is given by what its format means: a sequence of characters to   *)
(* copy and conversions.  None is a width or a precision that is not       *)
(* given, Star one that is an argument; Open stands for the conversion     *)
(* character that a format ends without.  Widths and precisions are ints.  *)
(***************************************************************************)
None == -1
Star == -2
Open == "no conversion"
IsDirective(d) ==
  \/ DOMAIN d = {"copy"} /\ d.copy \in STRING \ {"%"}
  \/ /\ DOMAIN d = {"flags", "width", "prec", "length", "conv"}
     /\ d.flags \subseteq Range(Flags) /\ d.length \in Lengths
     /\ d.width \in {None, Star} \cup 1..(IntMod \div 2 - 1)
     /\ d.prec \in {None, Star} \cup 0..(IntMod \div 2 - 1)
     /\ is_f(d.conv) \/ d.conv \in {"%", Open}

\* An argument is a register: a number, or a pointer to text, NULL if it is 0.
\* zero: there is text where it points, and a zero behind the text.  The text of a
\* character is what it is written as: itself, and of a wide one up to four bytes.
IsArg(v) == /\ DOMAIN v = {"slot", "text", "zero"}
            /\ v.slot \in 0..(LongMod - 1) /\ v.text \in Seq(STRING) /\ v.zero \in BOOLEAN

Takes(d) ==
  IF "copy" \in DOMAIN d THEN 0
  ELSE Cardinality({w \in {"width", "prec"} : d[w] = Star}) + (IF d.conv \in {"%", Open} THEN 0 ELSE 1)
IsOpen(d) == "conv" \in DOMAIN d /\ d.conv = Open
IsChar(d) == "conv" \in DOMAIN d /\ d.conv \in {"c", "C"}
Wide(d)   == d.conv = "C" \/ d.length = <<"l">>

\* The sums of the first members of a sequence of numbers; the arguments taken by
\* the first directives.
Sums(t) == LET of[m \in 0..Len(t)] == IF m = 0 THEN 0 ELSE of[m - 1] + t[m] IN of
Taken(spec) == Sums([q \in 1..Len(spec) |-> Takes(spec[q])])

IsCall(c) ==
  /\ c.spec \in Seq(Range(c.spec)) /\ c.args \in Seq(Range(c.args))
  /\ \A q \in 1..Len(c.spec) : IsDirective(c.spec[q]) /\ (IsOpen(c.spec[q]) => q = Len(c.spec))
  /\ \A q \in 1..Len(c.args) : IsArg(c.args[q])
  /\ Len(c.args) = Taken(c.spec)[Len(c.spec)]
  /\ \A q \in 1..Len(c.spec) : IsChar(c.spec[q]) =>
       Len(c.args[Taken(c.spec)[q]].text) \in (IF Wide(c.spec[q]) THEN 0..4 ELSE {1})

ASSUME CallsAssumption ==
  /\ {CharMod, ShortMod, IntMod, LongMod} \subseteq Nat \ {0}
  /\ IntMod % CharMod = 0 /\ IntMod % ShortMod = 0
  /\ \A c \in Calls : IsCall(c)

\* ft_itoa and the like, ft_convert_base: a number's digits.
Numeral(n, digits) ==
  LET base == Len(digits)
      of[m \in 0..n] == IF m < base THEN <<digits[m + 1]>>
                        ELSE Append(of[m \div base], digits[(m % base) + 1])
  IN of[n]
Base(b)     == SubSeq(Hex, 1, b)
ft_itoa(n)  == IF n < 0 THEN <<"-">> \o Numeral(-n, Base(10)) ELSE Numeral(n, Base(10))
Signed(v, mod) == LET w == v % mod IN IF w >= mod \div 2 THEN w - mod ELSE w

\* The characters of a format.
Number(w)   == IF w = None THEN <<>> ELSE IF w = Star THEN <<"*">> ELSE Numeral(w, Base(10))
Shown(f, d) == IF f \in d.flags THEN <<f>> ELSE <<>>
FlagsOf(d)  == Shown("#", d) \o Shown("-", d) \o Shown("+", d) \o Shown(" ", d) \o Shown("0", d)
PointOf(d)  == IF d.prec = None THEN <<>> ELSE <<".">>
ConvOf(d)   == IF IsOpen(d) THEN <<>> ELSE <<d.conv>>
Characters(d) ==
  IF "copy" \in DOMAIN d THEN <<d.copy>>
  ELSE <<"%">> \o FlagsOf(d) \o Number(d.width) \o PointOf(d) \o Number(d.prec) \o d.length \o ConvOf(d)

VARIABLES
  call,
  format,  \* the string
  i,       \* the character of it being read
  stop,    \* the conversion character of the conversion being read
  p,       \* the character set_flags is at
  data,    \* t_data: flags, width and precision
  a,       \* the arguments taken
  pc,
  out,     \* what was written
  nbr      \* the number of characters to return, an int

vars == <<call, format, i, stop, p, data, a, pc, out, nbr>>

AsInt(n) == Signed(n, IntMod)
LeastInt == -(IntMod \div 2)

NoData == [flags |-> {}, width |-> 0, precision |-> -1]

Init ==
  /\ call \in Calls
  /\ format = FlattenSeq([q \in 1..Len(call.spec) |-> Characters(call.spec[q])])
  /\ i = 1 /\ stop = 0 /\ p = 0 /\ data = NoData
  /\ a = 0 /\ pc = "text" /\ out = <<>> /\ nbr = 0

\* move_format
Copy ==
  /\ pc = "text" /\ i <= Len(format) /\ format[i] # "%"
  /\ out' = Append(out, format[i]) /\ nbr' = AsInt(nbr + 1) /\ i' = i + 1
  /\ UNCHANGED <<call, format, stop, p, data, a, pc>>

\* move_i: the conversion characters behind the percent sign.
Ahead == {q \in (i + 1)..Len(format) : is_f(format[q]) \/ format[q] = "%"}

\* con_bigs takes its argument before it reads the flags.
Percent ==
  /\ pc = "text" /\ i <= Len(format) /\ format[i] = "%" /\ Ahead # {}
  /\ stop' = Min(Ahead)
  /\ p' = i + 1 /\ data' = NoData /\ pc' = "flags"
  /\ a' = IF format[stop'] = "S" THEN a + 1 ELSE a
  /\ UNCHANGED <<call, format, i, out, nbr>>

\* There is none: the loop goes on one character behind the end of the format.
PastFormat ==
  /\ pc = "text" /\ i <= Len(format) /\ format[i] = "%" /\ Ahead = {}
  /\ pc' = "beyond"
  /\ UNCHANGED <<call, format, i, stop, p, data, a, out, nbr>>

InFlags == pc = "flags" /\ p < stop

nb_digit(q) == Cardinality({r \in q..Len(format) : \A t \in q..r : format[t] \in Decimal})
Digit(c) == CHOOSE d \in 0..9 : Hex[d + 1] = c
ft_atoi(q) ==
  LET of[m \in 0..nb_digit(q)] == IF m = 0 THEN 0 ELSE of[m - 1] * 10 + Digit(format[q + m - 1])
  IN of[nb_digit(q)]
NextInt == Signed(call.args[a + 1].slot, IntMod)

\* A character of set_flags: zero, width, star, or what set_zero_flag reads.
AddFlag(c) == data' = [data EXCEPT !.flags = @ \cup {c}]
ReadsWidth == format[p] \in Decimal \ {"0"} /\ \A q \in i..p : format[q] # "."
NoNegative == format[p] = "*" /\ NextInt = LeastInt
ReadsStar  == format[p] = "*" \/ (format[p] = "." /\ format[p + 1] = "*")

Width ==
  /\ InFlags /\ ReadsWidth
  /\ data' = [data EXCEPT !.width = ft_atoi(p)]
  /\ p' = p + nb_digit(p)
  /\ UNCHANGED <<call, format, i, stop, a, pc, out, nbr>>

flags_star ==
  /\ InFlags /\ ReadsStar /\ ~NoNegative
  /\ data' = IF format[p] = "*" THEN [data EXCEPT !.width = IF NextInt < 0 THEN -NextInt ELSE NextInt]
             ELSE [data EXCEPT !.precision = IF NextInt < 0 THEN -1 ELSE NextInt]
  /\ p' = p + (IF format[p] = "*" THEN 1 ELSE 2) /\ a' = a + 1
  /\ UNCHANGED <<call, format, i, stop, pc, out, nbr>>

\* flags_star: -width of the least int overflows.
star_overflow ==
  /\ InFlags /\ ReadsStar /\ NoNegative
  /\ pc' = "beyond"
  /\ UNCHANGED <<call, format, i, stop, p, data, a, out, nbr>>

\* Mutant: the precision is not stepped over.
PrecisionStay ==
  /\ InFlags /\ format[p] = "." /\ ~ReadsStar
  /\ data' = [data EXCEPT !.precision = ft_atoi(p + 1)]
  /\ p' = p
  /\ UNCHANGED <<call, format, i, stop, a, pc, out, nbr>>

\* The character after the precision is stepped over, whatever it is.
Precision ==
  /\ InFlags /\ format[p] = "." /\ ~ReadsStar
  /\ data' = [data EXCEPT !.precision = ft_atoi(p + 1)]
  /\ p' = p + nb_digit(p + 1) + 2
  /\ UNCHANGED <<call, format, i, stop, a, pc, out, nbr>>

Flag ==
  /\ InFlags /\ format[p] # "." /\ ~ReadsWidth /\ ~ReadsStar
  /\ IF format[p] \in Range(Flags) THEN AddFlag(format[p]) ELSE data' = data
  /\ p' = p + 1
  /\ UNCHANGED <<call, format, i, stop, a, pc, out, nbr>>

-----------------------------------------------------------------------------
(***************************************************************************)
(* The conversions.  ori is the string of the number itself.  What is      *)
(* written and data->len are a pair.                                       *)
(***************************************************************************)
Conv      == format[stop]
Has(f)    == f \in data.flags
Bare      == data.precision = -1            \* no_pre
Times(n, c) == [q \in 1..n |-> c]           \* ft_putnchar
Written(text, len) == [text |-> text, len |-> len]

\* set_cast, ft_strnchr_double: the length modifier, by the characters there are.
Within(c)  == {q \in i..stop : format[q] = c}
Run(c)     == {q \in Within(c) : \A r \in Min(Within(c))..q : format[r] = c}
set_cast ==
  IF Within("h") # {} THEN IF Cardinality(Run("h")) % 2 = 0 THEN "hh" ELSE "h"
  ELSE IF Within("l") # {} THEN IF Cardinality(Run("l")) % 2 = 0 THEN "ll" ELSE "l"
  ELSE IF Within("j") # {} THEN "j" ELSE IF Within("z") # {} THEN "z" ELSE "none"

\* cast_nu_d; con_bigd
SignedOri(slot) ==
  LET mod == IF Conv = "D" THEN LongMod
             ELSE CASE set_cast = "none" -> IntMod
                    [] set_cast = "hh"   -> CharMod
                    [] set_cast = "h"    -> ShortMod
                    [] OTHER             -> LongMod
  IN ft_itoa(Signed(slot, mod))

\* cast_nu_u, cast_nu_x, cast_nu_bigx, con_o, con_b: hh and h are read as an
\* unsigned int; con_bigu prints an unsigned long as a signed one.
UnsignedArg(slot) ==
  IF Conv \notin {"O", "U"} /\ set_cast \in {"none", "hh", "h"} THEN slot % IntMod ELSE slot
UnsignedOri(slot) ==
  LET v == UnsignedArg(slot) IN
  CASE Conv = "u"          -> Numeral(v, Base(10))
    [] Conv = "U"          -> ft_itoa(Signed(slot, LongMod))
    [] Conv \in {"o", "O"} -> Numeral(v, Base(8))
    [] Conv = "b"          -> Numeral(v, Base(2))
    [] Conv = "x"          -> Numeral(v, Hex)
    [] Conv = "X"          -> Numeral(v, BigHex)

\* Mutant: digits are counted while the number is above the base, not at it.
nb_dg_inbase_above(v) == Len(Numeral(IF v = 10 THEN 9 ELSE v, Base(10)))

\* The bytes ft_convert_base has for the digits, in whatever base they are; the
\* last is for the zero.
nb_dg_inbase(v) == Len(Numeral(v, Base(10)))
Overflows(slot) == /\ Conv \in {"o", "O", "b"}
                   /\ Len(UnsignedOri(slot)) > nb_dg_inbase(UnsignedArg(slot))

Prefix == CASE Conv \in {"x", "p"} -> <<"0", "x">>
            [] Conv = "X"          -> <<"0", "X">>
            [] Conv \in {"o", "O", "b"} -> <<"0">>
            [] OTHER               -> <<>>

\* plus_blank
Sign(negative) == IF negative THEN <<"-">>
                  ELSE IF Has("+") THEN <<"+">> ELSE IF Has(" ") THEN <<" ">> ELSE <<>>

\* Mutant: the sign is not counted where precision and width are equal.
set_d_len_short(ori, prec) ==
  LET sign == Sign(ori[1] = "-")
      len  == Max({data.width, prec, IF ori[1] = "-" THEN 0 ELSE Len(ori)}) IN
  IF sign = <<>> \/ len = prec THEN [len |-> len, blank |-> len - prec]
  ELSE [len |-> len, blank |-> len - prec - 1]

set_d_len(ori, prec) ==
  LET sign == Sign(ori[1] = "-")
      len  == Max({data.width, prec, IF ori[1] = "-" THEN 0 ELSE Len(ori)}) IN
  CASE sign = <<>> -> [len |-> len, blank |-> len - prec]
    [] sign # <<>> /\ len = prec -> [len |-> AsInt(len + 1), blank |-> 0]
    [] sign # <<>> /\ len # prec -> [len |-> len, blank |-> len - prec - 1]

\* zero_noze: a zero of precision 0.
zero_noze ==
  LET sign == Sign(FALSE) IN Written(sign \o Times(data.width - Len(sign), " "), data.width)

set_print_d(ori) ==
  LET negative == ori[1] = "-"
      body     == IF negative THEN Tail(ori) ELSE ori
      nought   == ori[1] = "0" /\ data.precision = 0
      prec     == IF nought THEN 0 ELSE Max({data.precision, Len(body)})
      d        == set_d_len(ori, prec)
      sign     == Sign(negative)
      number   == Times(prec - Len(body), "0") \o body IN
  IF nought THEN IF data.width = 0 THEN Written(<<>>, 0) ELSE zero_noze
  ELSE Written(
         CASE Has("-") -> sign \o number \o Times(d.blank, " ")
           [] ~Has("-") /\ Has("0") /\ Bare -> sign \o Times(d.blank, "0") \o body
           [] ~Has("-") /\ ~(Has("0") /\ Bare) -> Times(d.blank, " ") \o sign \o number,
         d.len)

\* The precision that set_oxu comes to.
OxuPrecision(ori) ==
  IF ori[1] = "0" /\ data.precision = 0 THEN 0 ELSE Max({data.precision, Len(ori)})

\* The prefix 0 is left out where the precision has put a zero there already.
PrefixShown(ori, flags) ==
  IF "#" \in flags /\ ~(Prefix = <<"0">> /\ OxuPrecision(ori) > Len(ori)) THEN Prefix ELSE <<>>

\* set_oxu, for_setoux
set_oxu(ori, flags) ==
  LET prec == OxuPrecision(ori)
      pre  == PrefixShown(ori, flags)
      len  == IF ori[1] = "0" THEN IF data.width = 0 /\ prec = 0 THEN 0 ELSE Max({data.width, Len(ori), prec})
              ELSE Max({data.width, Len(ori), AsInt(prec + Len(pre))}) IN
  [prec |-> prec, len |-> len, blank |-> len - prec - (IF ori[1] = "0" THEN 0 ELSE Len(pre))]

\* put_zero_oux, put_nopre; without width and precision a zero is nothing, or,
\* for an octal with #, itself.
put_zero_oux(o, flags) ==
  IF o.len = 0
  THEN IF "#" \in flags /\ Prefix = <<"0">> THEN Written(<<"0">>, 1) ELSE Written(<<>>, 0)
  ELSE Written(
         CASE Bare /\ Has("0") -> Times(o.len, "0")
           [] Bare /\ ~Has("0") /\ Has("-")  -> <<"0">> \o Times(o.len - 1, " ")
           [] Bare /\ ~Has("0") /\ ~Has("-") -> Times(o.len - 1, " ") \o <<"0">>
           [] ~Bare /\ Has("-")  -> Times(o.prec, "0") \o Times(o.len - o.prec, " ")
           [] ~Bare /\ ~Has("-") -> Times(o.len - o.prec, " ") \o Times(o.prec, "0"),
         o.len)

\* for_print_oux, go_right_oux, for_right_oux
\* Mutant: zeros fill the field though a precision is given.
go_right_oux_zeros(o, ori, pre) ==
  IF Has("0") THEN pre \o Times(o.len - Len(pre) - Len(ori), "0") \o ori
  ELSE Times(o.blank, " ") \o pre \o Times(o.prec - Len(ori), "0") \o ori

go_right_oux(o, ori, pre) ==
  IF Has("0") /\ Bare THEN pre \o Times(o.len - Len(pre) - Len(ori), "0") \o ori
  ELSE Times(o.blank, " ") \o pre \o Times(o.prec - Len(ori), "0") \o ori

set_print_oxu_hash(ori, flags) ==
  LET o   == set_oxu(ori, flags)
      pre == PrefixShown(ori, flags) IN
  IF ori[1] = "0" THEN put_zero_oux(o, flags)
  ELSE Written(IF Has("-") THEN pre \o Times(o.prec - Len(ori), "0") \o ori \o Times(o.blank, " ")
               ELSE go_right_oux(o, ori, pre),
               o.len)

\* Text in a field, to the left of it with a dash.
InField(text, fill) ==
  LET len == Max({data.width, Len(text)}) IN
  Written(IF Has("-") THEN text \o Times(len - Len(text), " ")
          ELSE Times(len - Len(text), fill) \o text, len)

set_print_s(text) ==
  InField(IF data.precision = -1 \/ data.precision > Len(text) THEN text
          ELSE SubSeq(text, 1, data.precision), " ")

Fill == IF Has("0") THEN "0" ELSE " "

\* set_print_c pads and counts every character as one.
set_print_c(text) ==
  LET len == Max({data.width, 1}) IN
  Written(IF Has("-") THEN text \o Times(len - 1, " ") ELSE Times(len - 1, Fill) \o text, len)

con_p(slot) ==
  LET ori == Numeral(slot, Hex) IN
  IF slot = 0 THEN InField(<<"0", "x", "0">>, " ")
  ELSE set_print_oxu_hash(ori, data.flags \cup {"#"})

\* One conversion is written, and the rest of the format is next.
Converts == pc = "flags" /\ p >= stop
Puts(w) == out' = out \o w.text /\ nbr' = AsInt(nbr + w.len)
Arg     == call.args[a + 1]
Breaks  == pc' = "beyond" /\ UNCHANGED <<call, format, i, stop, p, data, a, out, nbr>>
Goes    == i' = stop + 1 /\ pc' = "text" /\ UNCHANGED <<call, format, stop, p, data>>

con_d ==
  /\ Converts /\ Conv \in {"d", "i", "D"}
  /\ Puts(set_print_d(SignedOri(Arg.slot))) /\ a' = a + 1 /\ Goes
con_oux ==
  /\ Converts /\ Conv \in {"u", "U", "o", "O", "x", "X", "b"}
  /\ Puts(set_print_oxu_hash(UnsignedOri(Arg.slot), data.flags)) /\ a' = a + 1 /\ Goes
\* The heap may or may not have used the bytes behind the buffer.
con_overflow ==
  /\ Converts /\ Conv \in {"o", "O", "b"} /\ Overflows(Arg.slot)
  /\ Breaks
con_pointer ==
  /\ Converts /\ Conv = "p"
  /\ Puts(con_p(Arg.slot)) /\ a' = a + 1 /\ Goes
\* A wide NULL is nothing, set_print_bigs.
Null == IF Conv = "S" \/ set_cast = "l" THEN <<>> ELSE <<"(", "n", "u", "l", "l", ")">>
\* The text of con_bigs is the argument before those of its stars.
Stars   == Cardinality({q \in i..stop : format[q] = "*"})
TextArg == IF Conv = "S" THEN call.args[a - Stars] ELSE Arg
con_s ==
  /\ Converts /\ Conv \in {"s", "S"} /\ (TextArg.slot = 0 \/ TextArg.zero)
  /\ Puts(set_print_s(IF TextArg.slot = 0 THEN Null ELSE TextArg.text))
  /\ a' = (IF Conv = "S" THEN a ELSE a + 1) /\ Goes
\* ft_strlen, ft_wstrlen: the length is taken of any text, also with a precision.
con_s_endless ==
  /\ Converts /\ Conv \in {"s", "S"} /\ TextArg.slot # 0 /\ ~TextArg.zero
  /\ Breaks
con_c ==
  /\ Converts /\ Conv \in {"c", "C"}
  /\ Puts(set_print_c(Arg.text)) /\ a' = a + 1 /\ Goes
con_per ==
  /\ Converts /\ Conv = "%"
  /\ Puts(InField(<<"%">>, Fill)) /\ a' = a /\ Goes

Return ==
  /\ pc = "text" /\ i > Len(format) /\ pc' = "done"
  /\ UNCHANGED <<call, format, i, stop, p, data, a, out, nbr>>

Finished == pc \in {"done", "beyond"} /\ UNCHANGED vars

Next ==
  \/ Copy \/ Percent \/ PastFormat
  \/ Width \/ flags_star \/ star_overflow \/ Precision \/ Flag
  \/ con_d \/ con_oux \/ con_overflow \/ con_pointer
  \/ con_s \/ con_s_endless \/ con_c \/ con_per
  \/ Return \/ Finished

\* Fairness: the call is straight-line code that its caller runs to the end.
Spec == Init /\ [][Next]_vars /\ WF_vars(Next)

-----------------------------------------------------------------------------
(***************************************************************************)
(* What C says of the same call, from the meaning of the directive and not *)
(* from the characters.  k is the number of arguments before it.           *)
(***************************************************************************)
Value(k)   == call.args[k].slot
WidthOf(d, k) == IF d.width = Star THEN Signed(Value(k + 1), IntMod) ELSE Max({d.width, 0})
PrecisionOf(d, k) ==
  IF d.prec # Star THEN d.prec
  ELSE Max({Signed(Value(k + (IF d.width = Star THEN 2 ELSE 1)), IntMod), None})
LastArg(d, k) == call.args[k + Takes(d)]

InC(d) ==
  /\ d.conv \in {"d", "i", "u", "o", "x", "X"} \/ d.length \in {<<>>, <<"l">>}
  /\ d.conv \notin {"D", "U", "O", "S", "C", "b"}
  /\ "#" \in d.flags => d.conv \in {"o", "x", "X"}
  /\ "0" \in d.flags => d.conv \in {"d", "i", "u", "o", "x", "X"}
  /\ d.prec # None => d.conv \in {"d", "i", "u", "o", "x", "X", "s"}
  /\ d.conv = "%" => d.flags = {} /\ d.width = None /\ d.length = <<>>
  /\ d.conv = "p" => d.length = <<>>

Modulus(d) == CASE d.length = <<>>         -> IntMod
                [] d.length = <<"h">>      -> ShortMod
                [] d.length = <<"h", "h">> -> CharMod
                [] OTHER                   -> LongMod

\* What stands before the digits, and the digits, at the precision.
Lead(d, v) ==
  CASE d.conv \in {"d", "i"} /\ v < 0 -> <<"-">>
    [] d.conv \in {"d", "i"} /\ v >= 0 /\ "+" \in d.flags -> <<"+">>
    [] d.conv \in {"d", "i"} /\ v >= 0 /\ "+" \notin d.flags /\ " " \in d.flags -> <<" ">>
    [] d.conv = "p" \/ (d.conv = "x" /\ "#" \in d.flags /\ v # 0) -> <<"0", "x">>
    [] d.conv = "X" /\ "#" \in d.flags /\ v # 0 -> <<"0", "X">>
    [] OTHER -> <<>>
Digits(d, v, prec) ==
  LET size   == IF v < 0 THEN -v ELSE v
      shown  == IF v = 0 /\ prec = 0 THEN <<>>
                ELSE CASE d.conv = "o"         -> Numeral(size, Base(8))
                       [] d.conv \in {"x", "p"} -> Numeral(size, Hex)
                       [] d.conv = "X"         -> Numeral(size, BigHex)
                       [] OTHER                -> Numeral(size, Base(10))
      padded == Times(prec - Len(shown), "0") \o shown IN
  IF d.conv = "o" /\ "#" \in d.flags /\ (padded = <<>> \/ padded[1] # "0")
  THEN <<"0">> \o padded ELSE padded

Padded(d, width, front, text, zeros) ==
  LET fill == (IF width < 0 THEN -width ELSE width) - Len(front) - Len(text) IN
  CASE "-" \in d.flags \/ width < 0 -> front \o text \o Times(fill, " ")
    [] ~("-" \in d.flags \/ width < 0) /\ zeros  -> front \o Times(fill, "0") \o text
    [] ~("-" \in d.flags \/ width < 0) /\ ~zeros -> Times(fill, " ") \o front \o text

TextInC(d, k) ==
  LET width == WidthOf(d, k)
      prec  == PrecisionOf(d, k)
      w     == LastArg(d, k).slot % Modulus(d)
      v     == IF d.conv \in {"d", "i"} THEN Signed(w, Modulus(d))
               ELSE IF d.conv = "p" THEN LastArg(d, k).slot ELSE w
      text  == LastArg(d, k).text IN
  CASE d.conv = "%" -> <<"%">>
    [] d.conv = "c" -> Padded(d, width, <<>>, text, FALSE)
    [] d.conv = "s" -> Padded(d, width, <<>>, IF prec = None \/ prec > Len(text) THEN text
                                              ELSE SubSeq(text, 1, prec), FALSE)
    [] OTHER        -> Padded(d, width, Lead(d, v), Digits(d, v, prec),
                              "0" \in d.flags /\ prec = None)

\* The arguments before directive q, and the whole text of the call.
Before(q)  == Taken(call.spec)[q - 1]
CallInC    == FlattenSeq([q \in 1..Len(call.spec) |->
                IF "copy" \in DOMAIN call.spec[q] THEN <<call.spec[q].copy>>
                ELSE TextInC(call.spec[q], Before(q))])

-----------------------------------------------------------------------------
(***************************************************************************)
(* Properties.                                                             *)
(***************************************************************************)

\* A call takes the arguments it was given, no more and no fewer, and stays in its
\* strings, but for five ways out: the format ends within a conversion; a text has
\* no zero behind it, whatever its precision; %S has a star, whose argument and the
\* text it exchanges; a number has more digits in base 8 or 2 than in base 10, for
\* which the buffer is made; or a width is the least int.  No format of the programs
\* has a way out but the second, for a name of the symbol table that runs to the end
\* of the mapping.
Power(b, e) == LET of[m \in 0..e] == IF m = 0 THEN 1 ELSE b * of[m - 1] IN of[e]
LeastWidth(d, k) == d.width = Star /\ WidthOf(d, k) = LeastInt
Escapes(d, k) ==
  LeastWidth(d, k) \/
  CASE d.conv = Open          -> TRUE
    [] d.conv = "S"           -> ~LastArg(d, k).zero \/ Star \in {d.width, d.prec}
    [] d.conv = "s"           -> ~LastArg(d, k).zero
    [] d.conv = "b"           -> LastArg(d, k).slot > 1
    [] d.conv \in {"o", "O"}  -> \E v \in {LastArg(d, k).slot, LastArg(d, k).slot % IntMod} :
                                   \E e \in 1..Len(Numeral(v, Base(8))) : Power(8, e) <= v /\ v < Power(10, e)
    [] OTHER                  -> FALSE
Inside ==
  /\ a <= Len(call.args) /\ (pc = "done" => a = Len(call.args))
  /\ pc = "beyond" => \E q \in 1..Len(call.spec) :
       "conv" \in DOMAIN call.spec[q] /\ Escapes(call.spec[q], Before(q))

\* What the call returns is the number of characters it wrote, as long as that is an
\* int and a wide character is written as one byte (it is counted as one, and zero is
\* written as none): each conversion works the two out by different sums, set_d_len's
\* and for_setoux's on one side and the putnchar calls on the other.
OneByte == \A q \in 1..Len(call.spec) : IsChar(call.spec[q]) =>
             Len(LastArg(call.spec[q], Before(q)).text) = 1
Counted == OneByte /\ Len(out) < IntMod \div 2 => nbr = Len(out)

\* Where the code differs from C, none of it in a format of the programs: h and
\* hh do not narrow an unsigned number, a zero of precision 0 loses its sign or
\* the octal 0 or has its sign on the left, a dash does not undo the flag 0 for
\* an unsigned zero, a negative width from an argument is not a dash, and a wide
\* character is counted as one byte.
Unsigned == {"u", "o", "x", "X"}
Departs(d, k) ==
  LET slot == LastArg(d, k).slot
      zero == slot % Modulus(d) = 0 IN
  \/ d.conv \in Unsigned /\ slot % IntMod >= Modulus(d)
  \/ d.conv \in {"d", "i"} /\ {"+", " "} \cap d.flags # {} /\ zero /\ PrecisionOf(d, k) = 0
  \/ d.conv = "o" /\ "#" \in d.flags /\ zero /\ PrecisionOf(d, k) = 0 /\ WidthOf(d, k) # 0
  \/ d.conv \in Unsigned /\ {"0", "-"} \subseteq d.flags /\ zero
  \/ WidthOf(d, k) < 0
  \/ d.conv = "c" /\ Len(LastArg(d, k).text) # 1

\* The text of a call is the one C gives it, where C gives it one (a NULL is no
\* text) and the code does not differ from C as said: the conversions are put
\* together from set_d_len's and for_setoux's sums, case by case, and the byte
\* that dump_hexa shows with "%.2x" is always two digits.
AsC ==
  pc = "done"
  /\ (\A q \in {r \in 1..Len(call.spec) : "copy" \notin DOMAIN call.spec[r]} :
        LET d == call.spec[q] IN
        /\ InC(d) /\ ~Departs(d, Before(q))
        /\ d.conv = "s" => LastArg(d, Before(q)).slot # 0)
  => out = CallInC

\* The format is always read to its end, or to the first step out of the strings,
\* whatever a directive looks like.
Termination == <>(pc \in {"done", "beyond"})
=============================================================================
