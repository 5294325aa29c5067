------------------------------ MODULE NmFlags ------------------------------
(***************************************************************************)
(* The command line of ft_nm: set_flags_nm reads the flags before the      *)
(* first file, one character at a time, into a string of ten bytes.        *)
(* An argument is the sequence of its characters.                          *)
(***************************************************************************)
EXTENDS Integers, Sequences, FiniteSets

CONSTANTS
  Lines,    \* the command lines, as sequences of arguments
  Capacity  \* char flags[10]

ASSUME LinesAssumption ==
  /\ Capacity \in Nat /\ Capacity > 6
  /\ \A l \in Lines : l \in Seq(Seq(STRING))

VARIABLES
  line,   \* av
  ct,     \* the argument av points at
  at,     \* characters of it read, the dash among them; 0 before the first
  flags,  \* the flags seen, in order
  status  \* "reading", "usage" or "ready"

flagsVars == <<line, ct, at, flags, status>>

\* Mutants: x is a flag; only the first flag is compared.
is_flag_more(c) == c \in {"g", "p", "r", "u", "U", "j", "x"}
ft_strchr_first(s, c) == s # <<>> /\ s[1] = c

is_flag(c) == c \in {"g", "p", "r", "u", "U", "j"}

ft_strchr(s, c) == \E n \in 1..Len(s) : s[n] = c

FlagsInit ==
  /\ line \in Lines
  /\ ct = 1 /\ at = 0
  /\ flags = <<>>
  /\ status = "reading"

\* An argument that is a dash and something more.
IsOption(a) == Len(a) > 1 /\ a[1] = "-"

Option ==
  /\ status = "reading" /\ at = 0
  /\ ct <= Len(line) /\ IsOption(line[ct])
  /\ at' = 1
  /\ UNCHANGED <<line, ct, flags, status>>

\* The first argument that is none: the files start here.
Ready ==
  /\ status = "reading" /\ at = 0
  /\ ct <= Len(line) => ~IsOption(line[ct])
  /\ status' = "ready"
  /\ UNCHANGED <<line, ct, at, flags>>

AtChar == status = "reading" /\ at > 0 /\ at < Len(line[ct])

\* Mutant: the character is not stepped over.
FlagStay ==
  LET c == line[ct][at + 1] IN
  /\ AtChar /\ is_flag(c)
  /\ flags' = IF ft_strchr(flags, c) THEN flags ELSE Append(flags, c)
  /\ UNCHANGED <<line, ct, at, status>>

Flag ==
  LET c == line[ct][at + 1] IN
  /\ AtChar /\ is_flag(c)
  /\ flags' = IF ft_strchr(flags, c) THEN flags ELSE Append(flags, c)
  /\ at' = at + 1
  /\ UNCHANGED <<line, ct, status>>

\* put_usage
Illegal ==
  /\ AtChar /\ ~is_flag(line[ct][at + 1])
  /\ status' = "usage"
  /\ UNCHANGED <<line, ct, at, flags>>

Close ==
  /\ status = "reading" /\ at > 0 /\ at >= Len(line[ct])
  /\ ct' = ct + 1 /\ at' = 0
  /\ UNCHANGED <<line, flags, status>>

FlagsRead == status # "reading" /\ UNCHANGED flagsVars

FlagsNext == Option \/ Ready \/ Flag \/ Illegal \/ Close \/ FlagsRead

FlagsSpec == FlagsInit /\ [][FlagsNext]_flagsVars /\ WF_flagsVars(FlagsNext)

-----------------------------------------------------------------------------
FlagLetters == {"g", "p", "r", "u", "U", "j"}

FlagsTypeOK ==
  /\ line \in Lines
  /\ ct \in 1..(Len(line) + 1) /\ at \in Nat /\ (at > 0 => ct <= Len(line) /\ at <= Len(line[ct]))
  /\ flags \in Seq(FlagLetters)
  /\ status \in {"reading", "usage", "ready"}

\* The string keeps its terminating zero, without which ft_strchr runs off it:
\* nothing in the code but the test for repeated flags bounds the writes.
Terminated == Len(flags) < Capacity

\* Seen from outside: the options are the arguments before the first that is not
\* one; a character that is no flag in any of them rejects the command line.
Options(l) == {n \in 1..Len(l) : \A m \in 1..n : IsOption(l[m])}
Given(l)   == UNION {{l[n][p] : p \in 2..Len(l[n])} : n \in Options(l)}
IsReading(l, a) ==
  IF Given(l) \subseteq FlagLetters
  THEN /\ a.forward = Cardinality(Options(l)) + 1
       /\ {a.flags[n] : n \in 1..Len(a.flags)} = Given(l)
  ELSE a = [forward |-> -1]
Reading == INSTANCE OneAnswer WITH
  Inputs   <- Lines,
  Right    <- IsReading,
  input    <- line,
  answered <- status # "reading",
  answer   <- CASE status = "reading" -> <<>>
                [] status = "usage"   -> [forward |-> -1]
                [] status = "ready"   -> [forward |-> ct, flags |-> flags]
ReadAsGiven == Reading!Spec

\* No flag is stored twice, whatever is repeated within an argument or over
\* several: there are six flags and so the string keeps its zero.
Distinct == \A m, n \in 1..Len(flags) : flags[m] = flags[n] => m = n
FlagsIInv == FlagsTypeOK /\ Distinct
=============================================================================
