---------------------------- MODULE Main_proofs ----------------------------
(***************************************************************************)
(* Proofs about NmFlags, about Driver and about Main, which extends both.  *)
(* The string of flags is never full, for any command line: nothing in     *)
(* set_flags_nm compares a length with the size of the string; what bounds *)
(* it is that a flag which is there already is not stored again, and that  *)
(* there are six.  What set_flags_nm returns is a count it makes while it  *)
(* reads the characters (ReadSoFar).  Of the loop over the files: for any  *)
(* files and any number of descriptors, what is said, returned and kept    *)
(* mapped adds up.  main does with any command line what that loop does    *)
(* with the files a user means by it: the invariant says that what         *)
(* set_flags_nm returns leaves exactly those, so what is proved of the     *)
(* loop holds of whole runs.                                               *)
(***************************************************************************)
EXTENDS Main, SequenceTheorems, FiniteSetTheorems, TLAPS

-----------------------------------------------------------------------------
(***************************************************************************)
(* The options of ft_nm.                                                   *)
(***************************************************************************)
\* A flag that ft_strchr does not find is none of those stored.
LEMMA NewFlag ==
  ASSUME FlagsTypeOK, Distinct, NEW c \in FlagLetters, ~ft_strchr(flags, c),
         flags' = Append(flags, c)
  PROVE  flags' \in Seq(FlagLetters) /\ Distinct'
<1>1. flags \in Seq(FlagLetters) /\ Len(flags) \in Nat
  BY DEF FlagsTypeOK
<1>2. /\ flags' \in Seq(FlagLetters) /\ Len(flags') = Len(flags) + 1
      /\ \A i \in 1..Len(flags) : flags'[i] = flags[i]
      /\ flags'[Len(flags) + 1] = c
  BY <1>1
<1>3. \A i \in 1..Len(flags) : flags[i] # c
  BY DEF ft_strchr
<1>4. ASSUME NEW m \in 1..Len(flags'), NEW i \in 1..Len(flags'), flags'[m] = flags'[i]
      PROVE  m = i
  <2>1. CASE m \in 1..Len(flags) /\ i \in 1..Len(flags)
    BY <1>2, <1>4, <2>1 DEF Distinct
  <2>2. CASE m = Len(flags) + 1
    BY <1>1, <1>2, <1>3, <1>4, <2>2
  <2>3. CASE i = Len(flags) + 1
    BY <1>1, <1>2, <1>3, <1>4, <2>3
  <2> QED
    BY <1>1, <1>2, <2>1, <2>2, <2>3
<1> QED
  BY <1>2, <1>4 DEF Distinct

\* The arguments and their characters, as the invariant needs them.
LEMMA LineType ==
  ASSUME line \in Lines
  PROVE  /\ line \in Seq(Seq(STRING)) /\ Len(line) \in Nat
         /\ \A i \in 1..Len(line) : line[i] \in Seq(STRING) /\ Len(line[i]) \in Nat
<1>1. line \in Seq(Seq(STRING))
  BY LinesAssumption
<1> QED
  BY <1>1

\* FlagsTypeOK and Distinct are kept together: a stored flag is a new one.
LEMMA FlagsInvariance == FlagsIInv /\ [FlagsNext]_flagsVars => FlagsIInv'
<1> SUFFICES ASSUME FlagsTypeOK, Distinct, [FlagsNext]_flagsVars PROVE FlagsTypeOK' /\ Distinct'
  BY DEF FlagsIInv
<1>0. /\ Len(line) \in Nat /\ ct \in 1..(Len(line) + 1) /\ at \in Nat
      /\ \A i \in 1..Len(line) : Len(line[i]) \in Nat
  BY LineType DEF FlagsTypeOK
<1>1. CASE Option
  <2>1. /\ line' = line /\ ct' = ct /\ flags' = flags /\ status' = status /\ at' = 1
        /\ ct <= Len(line) /\ Len(line[ct]) > 1
    BY <1>1 DEF Option, IsOption
  <2> QED
    BY <1>0, <2>1 DEF FlagsTypeOK, Distinct
<1>2. CASE Ready
  BY <1>2 DEF Ready, FlagsTypeOK, Distinct
<1>3. CASE Flag
  <2> DEFINE c == line[ct][at + 1]
  <2>1. /\ at > 0 /\ at < Len(line[ct]) /\ c \in FlagLetters
        /\ line' = line /\ ct' = ct /\ at' = at + 1 /\ status' = status
        /\ flags' = IF ft_strchr(flags, c) THEN flags ELSE Append(flags, c)
    BY <1>3 DEF Flag, AtChar, is_flag, FlagLetters
  <2>2. flags' \in Seq(FlagLetters) /\ Distinct'
    <3>1. CASE ft_strchr(flags, c)
      BY <2>1, <3>1 DEF FlagsTypeOK, Distinct
    <3>2. CASE ~ft_strchr(flags, c)
      <4> HIDE DEF c
      <4> QED
        BY <2>1, <3>2, NewFlag
    <3> QED
      BY <3>1, <3>2
  <2>3. ct <= Len(line) /\ at + 1 <= Len(line[ct])
    BY <1>0, <2>1 DEF FlagsTypeOK
  <2> QED
    BY <1>0, <2>1, <2>2, <2>3 DEF FlagsTypeOK
<1>4. CASE Illegal
  BY <1>4 DEF Illegal, FlagsTypeOK, Distinct
<1>5. CASE Close
  <2>1. /\ line' = line /\ ct' = ct + 1 /\ at' = 0 /\ flags' = flags /\ status' = status
        /\ ct <= Len(line)
    BY <1>5 DEF Close, FlagsTypeOK
  <2> QED
    BY <1>0, <2>1 DEF FlagsTypeOK, Distinct
<1>6. CASE FlagsRead \/ UNCHANGED flagsVars
  BY <1>6 DEF FlagsRead, flagsVars, FlagsTypeOK, Distinct
<1> QED
  BY <1>1, <1>2, <1>3, <1>4, <1>5, <1>6 DEF FlagsNext

LEMMA FlagsInitially == FlagsInit => FlagsIInv
<1> SUFFICES ASSUME FlagsInit PROVE FlagsTypeOK /\ Distinct
  BY DEF FlagsIInv
<1>1. line \in Lines /\ Len(line) \in Nat
  BY LineType DEF FlagsInit
<1> QED
  BY <1>1 DEF FlagsInit, FlagsTypeOK, Distinct

LEMMA AlwaysIInv == FlagsSpec => []FlagsIInv
  BY FlagsInitially, FlagsInvariance, PTL DEF FlagsSpec

\* Seven places of six letters would hold one of them twice.
LEMMA AtMostSix == ASSUME FlagsTypeOK, Distinct PROVE Len(flags) <= 6
<1> SUFFICES ASSUME Len(flags) > 6 PROVE FALSE
  BY DEF FlagsTypeOK
<1>1. /\ 1 \in 1..Len(flags) /\ 2 \in 1..Len(flags) /\ 3 \in 1..Len(flags) /\ 4 \in 1..Len(flags)
      /\ 5 \in 1..Len(flags) /\ 6 \in 1..Len(flags) /\ 7 \in 1..Len(flags)
  BY DEF FlagsTypeOK
<1>2. \A i \in 1..Len(flags) : flags[i] \in FlagLetters
  BY DEF FlagsTypeOK
<1> DEFINE f(i) == flags[i]
<1>3. /\ f(1) \in FlagLetters /\ f(2) \in FlagLetters /\ f(3) \in FlagLetters
      /\ f(4) \in FlagLetters /\ f(5) \in FlagLetters /\ f(6) \in FlagLetters
      /\ f(7) \in FlagLetters
  BY <1>1, <1>2
<1>4. /\ f(1) \notin {f(2), f(3), f(4), f(5), f(6), f(7)}
      /\ f(2) \notin {f(3), f(4), f(5), f(6), f(7)}
      /\ f(3) \notin {f(4), f(5), f(6), f(7)}
      /\ f(4) \notin {f(5), f(6), f(7)}
      /\ f(5) \notin {f(6), f(7)}
      /\ f(6) # f(7)
  BY <1>1 DEF Distinct
<1> HIDE DEF f
<1> QED
  BY <1>3, <1>4 DEF FlagLetters

\* Every variable has its type: no argument is read past its last character, and
\* set_flags_nm never stores anything that is not a flag.
THEOREM FlagsTyped == FlagsSpec => []FlagsTypeOK
<1>1. FlagsIInv => FlagsTypeOK
  BY DEF FlagsIInv
<1> QED
  BY AlwaysIInv, <1>1, PTL

\* set_flags_nm never fills the string: its terminating zero stays, for any
\* number of arguments of any length.
THEOREM NeverFull == FlagsSpec => []Terminated
<1>1. FlagsIInv => Terminated
  BY AtMostSix, LinesAssumption DEF FlagsIInv, Terminated, FlagsTypeOK
<1> QED
  BY AlwaysIInv, <1>1, PTL

-----------------------------------------------------------------------------
(***************************************************************************)
(* What is read, and that it is what was given.                            *)
(***************************************************************************)
\* The reading is at the first argument that is no option; at a character that is
\* no flag.
AtFiles  == at = 0 /\ (ct <= Len(line) => ~IsOption(line[ct]))
AtNoFlag == at > 0 /\ at < Len(line[ct]) /\ ~is_flag(line[ct][at + 1])

\* Of the arguments passed every one is an option of flags, and of the one being
\* read every character passed is a flag.
ReadSoFar ==
  /\ \A m \in 1..(ct - 1) : IsOption(line[m]) /\ \A p \in 2..Len(line[m]) : is_flag(line[m][p])
  /\ at > 0 => IsOption(line[ct]) /\ \A p \in 2..at : is_flag(line[ct][p])
  /\ status = "ready" => AtFiles
  /\ status = "usage" => AtNoFlag

\* The characters passed.
Passed(m, p) == m < ct \/ (m = ct /\ p <= at)

\* The string holds the flags passed, and no others.
FlagsSoFar ==
  /\ \A q \in 1..Len(flags) : \E m \in 1..Len(line) : \E p \in 2..Len(line[m]) :
       Passed(m, p) /\ line[m][p] = flags[q]
  /\ \A m \in 1..Len(line) : \A p \in 2..Len(line[m]) :
       Passed(m, p) => ft_strchr(flags, line[m][p])

ReadIInv == FlagsIInv /\ ReadSoFar /\ FlagsSoFar

\* Lengths and positions as numbers.
LEMMA Positions ==
  ASSUME FlagsTypeOK
  PROVE  /\ line \in Seq(Seq(STRING)) /\ Len(line) \in Nat
         /\ ct \in 1..(Len(line) + 1) /\ at \in Nat
         /\ \A m \in 1..Len(line) : Len(line[m]) \in Nat
         /\ at > 0 => ct <= Len(line) /\ at <= Len(line[ct])
  BY LineType DEF FlagsTypeOK

LEMMA ReadInitially == FlagsInit => ReadSoFar
  BY DEF FlagsInit, ReadSoFar

\* An argument is passed only once all its characters are.
LEMMA ReadStep == FlagsTypeOK /\ ReadSoFar /\ [FlagsNext]_flagsVars => ReadSoFar'
<1> SUFFICES ASSUME FlagsTypeOK, ReadSoFar, [FlagsNext]_flagsVars PROVE ReadSoFar'
  OBVIOUS
<1>0. /\ Len(line) \in Nat /\ ct \in 1..(Len(line) + 1) /\ at \in Nat
      /\ \A m \in 1..Len(line) : Len(line[m]) \in Nat
      /\ at > 0 => ct <= Len(line) /\ at <= Len(line[ct])
  BY Positions
<1>1. CASE Option
  BY <1>0, <1>1 DEF Option, ReadSoFar, AtFiles, AtNoFlag
<1>2. CASE Ready
  BY <1>0, <1>2 DEF Ready, ReadSoFar, AtFiles, AtNoFlag
<1>3. CASE Flag
  <2>1. /\ at > 0 /\ at < Len(line[ct]) /\ is_flag(line[ct][at + 1]) /\ status = "reading"
        /\ line' = line /\ ct' = ct /\ at' = at + 1 /\ status' = status
    BY <1>3 DEF Flag, AtChar
  <2>2. ASSUME NEW p \in 2..(at + 1) PROVE is_flag(line[ct][p])
    <3>1. CASE p \in 2..at
      BY <2>1, <3>1 DEF ReadSoFar
    <3>2. CASE p = at + 1
      BY <2>1, <3>2
    <3> QED
      BY <1>0, <3>1, <3>2
  <2>3. IsOption(line[ct])
    BY <2>1 DEF ReadSoFar
  <2> QED
    BY <1>0, <2>1, <2>2, <2>3 DEF ReadSoFar, AtFiles, AtNoFlag
<1>4. CASE Illegal
  BY <1>0, <1>4 DEF Illegal, AtChar, ReadSoFar, AtFiles, AtNoFlag
<1>5. CASE Close
  <2>1. /\ at > 0 /\ at = Len(line[ct]) /\ status = "reading" /\ ct <= Len(line)
        /\ line' = line /\ ct' = ct + 1 /\ at' = 0 /\ status' = status
    BY <1>0, <1>5 DEF Close
  <2>2. ASSUME NEW m \in 1..ct
        PROVE  IsOption(line[m]) /\ \A p \in 2..Len(line[m]) : is_flag(line[m][p])
    <3>1. CASE m \in 1..(ct - 1)
      BY <3>1 DEF ReadSoFar
    <3>2. CASE m = ct
      BY <2>1, <3>2 DEF ReadSoFar
    <3> QED
      BY <1>0, <3>1, <3>2
  <2> QED
    BY <1>0, <2>1, <2>2 DEF ReadSoFar, AtFiles, AtNoFlag
<1>6. CASE FlagsRead \/ UNCHANGED flagsVars
  BY <1>6 DEF FlagsRead, flagsVars, ReadSoFar, AtFiles, AtNoFlag
<1> QED
  BY <1>1, <1>2, <1>3, <1>4, <1>5, <1>6 DEF FlagsNext

\* The options of a line that was read to its first file are those that were
\* passed, and their number is what av is moved by.
LEMMA OptionsPassed ==
  ASSUME FlagsTypeOK, ReadSoFar, AtFiles
  PROVE  Options(line) = 1..(ct - 1) /\ Cardinality(Options(line)) = ct - 1
<1>0. Len(line) \in Nat /\ ct \in 1..(Len(line) + 1)
  BY Positions
<1>1. \A m \in 1..(ct - 1) : m \in Options(line)
  BY <1>0 DEF Options, ReadSoFar
<1>2. ASSUME NEW m \in Options(line) PROVE m \in 1..(ct - 1)
  <2>1. m \in 1..Len(line) /\ \A k \in 1..m : IsOption(line[k])
    BY DEF Options
  <2>2. CASE m >= ct
    <3>1. ct \in 1..m /\ ct <= Len(line)
      BY <1>0, <2>1, <2>2
    <3> QED
      BY <2>1, <3>1 DEF AtFiles
  <2> QED
    BY <1>0, <2>1, <2>2
<1>3. Options(line) = 1..(ct - 1)
  BY <1>1, <1>2
<1>4. Cardinality(1..(ct - 1)) = ct - 1
  BY <1>0, FS_Interval
<1> QED
  BY <1>3, <1>4

\* A line that was read through is one whose options are all flags.
LEMMA ReadyIsLegal ==
  ASSUME FlagsTypeOK, ReadSoFar, AtFiles
  PROVE  Given(line) \subseteq FlagLetters
<1>1. ASSUME NEW m \in Options(line), NEW p \in 2..Len(line[m])
      PROVE  line[m][p] \in FlagLetters
  BY <1>1, OptionsPassed DEF ReadSoFar, is_flag, FlagLetters
<1> QED
  BY <1>1 DEF Given

\* A line that is refused has a character in an option that is no flag.
LEMMA UsageIsIllegal ==
  ASSUME FlagsTypeOK, ReadSoFar, AtNoFlag
  PROVE  ~(Given(line) \subseteq FlagLetters)
<1>0. /\ Len(line) \in Nat /\ ct \in 1..Len(line) /\ at \in Nat /\ at > 0
      /\ Len(line[ct]) \in Nat /\ at < Len(line[ct])
  BY Positions DEF AtNoFlag
<1>1. ct \in Options(line)
  <2>1. ASSUME NEW m \in 1..ct PROVE IsOption(line[m])
    <3>1. CASE m = ct
      BY <1>0, <3>1 DEF ReadSoFar
    <3>2. CASE m \in 1..(ct - 1)
      BY <3>2 DEF ReadSoFar
    <3> QED
      BY <1>0, <3>1, <3>2
  <2> QED
    BY <1>0, <2>1 DEF Options
<1>2. at + 1 \in 2..Len(line[ct])
  BY <1>0
<1>3. line[ct][at + 1] \in Given(line)
  BY <1>1, <1>2 DEF Given
<1>4. line[ct][at + 1] \notin FlagLetters
  BY DEF AtNoFlag, is_flag, FlagLetters
<1> QED
  BY <1>3, <1>4

LEMMA SoFarInitially == FlagsInit => FlagsSoFar
<1> SUFFICES ASSUME FlagsInit PROVE FlagsSoFar
  OBVIOUS
<1>1. /\ ct = 1 /\ at = 0 /\ flags = <<>> /\ Len(line) \in Nat
      /\ \A m \in 1..Len(line) : Len(line[m]) \in Nat
  BY LineType DEF FlagsInit
<1> QED
  BY <1>1 DEF FlagsSoFar, Passed

\* A flag that is passed is in the string, because it was or because it is put there.
LEMMA SoFarStep == FlagsTypeOK /\ FlagsSoFar /\ [FlagsNext]_flagsVars => FlagsSoFar'
<1> SUFFICES ASSUME FlagsTypeOK, FlagsSoFar, [FlagsNext]_flagsVars PROVE FlagsSoFar'
  OBVIOUS
<1>0. /\ Len(line) \in Nat /\ ct \in 1..(Len(line) + 1) /\ at \in Nat
      /\ \A m \in 1..Len(line) : Len(line[m]) \in Nat
      /\ at > 0 => ct <= Len(line) /\ at <= Len(line[ct])
      /\ flags \in Seq(FlagLetters) /\ Len(flags) \in Nat
  BY Positions DEF FlagsTypeOK
<1>1. CASE Flag
  <2> DEFINE c == line[ct][at + 1]
  <2>1. /\ at > 0 /\ at < Len(line[ct]) /\ c \in FlagLetters
        /\ line' = line /\ ct' = ct /\ at' = at + 1
        /\ flags' = IF ft_strchr(flags, c) THEN flags ELSE Append(flags, c)
    BY <1>1 DEF Flag, AtChar, is_flag, FlagLetters
  <2>2. \A m \in 1..Len(line) : \A p \in 2..Len(line[m]) :
          Passed(m, p)' <=> Passed(m, p) \/ (m = ct /\ p = at + 1)
    BY <1>0, <2>1 DEF Passed
  <2>3. ct \in 1..Len(line) /\ at + 1 \in 2..Len(line[ct])
    BY <1>0, <2>1
  <2>4. CASE ft_strchr(flags, c)
    BY <2>1, <2>2, <2>4 DEF FlagsSoFar
  <2>5. CASE ~ft_strchr(flags, c)
    <3> HIDE DEF c
    <3>1. /\ flags' = Append(flags, c) /\ Len(flags') = Len(flags) + 1
          /\ \A q \in 1..Len(flags) : flags'[q] = flags[q]
          /\ flags'[Len(flags) + 1] = c
      BY <1>0, <2>1, <2>5
    <3>2. ASSUME NEW q \in 1..Len(flags')
          PROVE  \E m \in 1..Len(line) : \E p \in 2..Len(line[m]) :
                   Passed(m, p)' /\ line[m][p] = flags'[q]
      <4>1. CASE q \in 1..Len(flags)
        BY <2>2, <3>1, <4>1 DEF FlagsSoFar
      <4>2. CASE q = Len(flags) + 1
        BY <2>2, <2>3, <3>1, <4>2 DEF c
      <4> QED
        BY <1>0, <3>1, <4>1, <4>2
    <3>3. ASSUME NEW m \in 1..Len(line), NEW p \in 2..Len(line[m]), Passed(m, p)'
          PROVE  \E q \in 1..Len(flags') : flags'[q] = line[m][p]
      <4>1. CASE Passed(m, p)
        <5>1. PICK q \in 1..Len(flags) : flags[q] = line[m][p]
          BY <4>1 DEF FlagsSoFar, ft_strchr
        <5> QED
          BY <1>0, <3>1, <5>1
      <4>2. CASE m = ct /\ p = at + 1
        BY <1>0, <3>1, <4>2 DEF c
      <4> QED
        BY <2>2, <3>3, <4>1, <4>2
    <3>4. line' = line
      BY <2>1
    <3>5. (\A q \in 1..Len(flags) : \E m \in 1..Len(line) : \E p \in 2..Len(line[m]) :
             Passed(m, p) /\ line[m][p] = flags[q])'
      BY <3>2, <3>4
    <3>6. (\A m \in 1..Len(line) : \A p \in 2..Len(line[m]) :
             Passed(m, p) => ft_strchr(flags, line[m][p]))'
      BY <3>3, <3>4 DEF ft_strchr
    <3> QED
      BY <3>5, <3>6 DEF FlagsSoFar
  <2> QED
    BY <2>4, <2>5
<1>2. CASE Option \/ Close
  <2>1. line' = line /\ flags' = flags
    BY <1>2 DEF Option, Close
  <2>2. ASSUME NEW m \in 1..Len(line), NEW p \in 2..Len(line[m])
        PROVE  Passed(m, p)' <=> Passed(m, p)
    BY <1>0, <1>2 DEF Option, Close, Passed
  <2> QED
    BY <2>1, <2>2 DEF FlagsSoFar
<1>3. CASE Ready \/ Illegal \/ FlagsRead \/ UNCHANGED flagsVars
  <2>1. line' = line /\ flags' = flags /\ ct' = ct /\ at' = at
    BY <1>3 DEF Ready, Illegal, FlagsRead, flagsVars
  <2> QED
    BY <2>1 DEF FlagsSoFar, Passed
<1> QED
  BY <1>1, <1>2, <1>3 DEF FlagsNext

\* The flags of a line that was read through are the ones given.
LEMMA FlagsAreGiven ==
  ASSUME ReadIInv, AtFiles
  PROVE  {flags[q] : q \in 1..Len(flags)} = Given(line)
<1>0. /\ Len(line) \in Nat /\ ct \in 1..(Len(line) + 1) /\ at = 0
      /\ \A m \in 1..Len(line) : Len(line[m]) \in Nat
  BY Positions DEF ReadIInv, FlagsIInv, AtFiles
<1>1. Options(line) = 1..(ct - 1)
  BY OptionsPassed DEF ReadIInv, FlagsIInv
<1>2. ASSUME NEW q \in 1..Len(flags) PROVE flags[q] \in Given(line)
  <2>1. PICK m \in 1..Len(line) : \E p \in 2..Len(line[m]) :
          Passed(m, p) /\ line[m][p] = flags[q]
    BY DEF ReadIInv, FlagsSoFar
  <2>2. PICK p \in 2..Len(line[m]) : Passed(m, p) /\ line[m][p] = flags[q]
    BY <2>1
  <2>3. m \in 1..(ct - 1)
    BY <1>0, <2>2 DEF Passed
  <2> QED
    BY <1>1, <2>2, <2>3 DEF Given
<1>3. ASSUME NEW m \in Options(line), NEW p \in 2..Len(line[m])
      PROVE  \E q \in 1..Len(flags) : flags[q] = line[m][p]
  <2>1. m \in 1..Len(line) /\ Passed(m, p)
    BY <1>0, <1>1, <1>3 DEF Passed
  <2> QED
    BY <2>1 DEF ReadIInv, FlagsSoFar, ft_strchr
<1> QED
  BY <1>2, <1>3 DEF Given

LEMMA ReadInvariance == ReadIInv /\ [FlagsNext]_flagsVars => ReadIInv'
  BY FlagsInvariance, ReadStep, SoFarStep DEF ReadIInv, FlagsIInv

LEMMA ReadAlways == FlagsSpec => []ReadIInv
<1>1. FlagsInit => ReadIInv
  BY FlagsInitially, ReadInitially, SoFarInitially DEF ReadIInv
<1> QED
  BY <1>1, ReadInvariance, PTL DEF FlagsSpec

\* What set_flags_nm answers is right at the step in which it returns, and it
\* answers once.
LEMMA AnswerIsRight ==
  ASSUME ReadIInv, [FlagsNext]_flagsVars
  PROVE  Reading!Answer \/ UNCHANGED <<line, status # "reading",
           CASE status = "reading" -> <<>>
             [] status = "usage"   -> [forward |-> -1]
             [] status = "ready"   -> [forward |-> ct, flags |-> flags]>>
<1> DEFINE answer ==
      CASE status = "reading" -> <<>>
        [] status = "usage"   -> [forward |-> -1]
        [] status = "ready"   -> [forward |-> ct, flags |-> flags]
<1>0. FlagsTypeOK /\ ReadSoFar
  BY DEF ReadIInv, FlagsIInv
<1>1. CASE Ready
  <2>1. /\ status = "reading" /\ status' = "ready" /\ line' = line /\ ct' = ct /\ flags' = flags
        /\ AtFiles
    BY <1>1 DEF Ready, AtFiles
  <2>2. /\ Given(line) \subseteq FlagLetters
        /\ Cardinality(Options(line)) = ct - 1 /\ ct \in Nat
        /\ {flags[q] : q \in 1..Len(flags)} = Given(line)
    BY <1>0, <2>1, OptionsPassed, ReadyIsLegal, FlagsAreGiven, Positions
  <2>3. answer' = [forward |-> ct, flags |-> flags]
    BY <2>1
  <2>4. /\ answer'.forward = ct /\ answer'.flags = flags
    <3> HIDE DEF answer
    <3> QED
      BY <2>3
  <2>5. IsReading(line, answer')
    <3> HIDE DEF answer
    <3>1. ct = Cardinality(Options(line)) + 1
      BY <2>2
    <3> QED
      BY <2>2, <2>4, <3>1 DEF IsReading
  <2> QED
    BY <2>1, <2>5 DEF Reading!Answer
<1>2. CASE Illegal
  <2>1. status = "reading" /\ status' = "usage" /\ line' = line /\ AtNoFlag
    BY <1>2 DEF Illegal, AtChar, AtNoFlag
  <2>2. ~(Given(line) \subseteq FlagLetters)
    BY <1>0, <2>1, UsageIsIllegal
  <2>3. answer' = [forward |-> -1]
    BY <2>1
  <2>4. IsReading(line, answer')
    BY <2>2, <2>3 DEF IsReading
  <2> QED
    BY <2>1, <2>4 DEF Reading!Answer
<1>3. CASE Option \/ Flag \/ Close
  <2>1. status = "reading" /\ status' = "reading" /\ line' = line
    BY <1>3 DEF Option, Flag, Close, AtChar
  <2> QED
    BY <2>1
<1>4. CASE FlagsRead \/ UNCHANGED flagsVars
  BY <1>4 DEF FlagsRead, flagsVars
<1> QED
  BY <1>1, <1>2, <1>3, <1>4 DEF FlagsNext

\* set_flags_nm answers once: how far to move av, which is past the options and no
\* further, with each flag that was given; or that a character is no flag, which
\* it says only if there is one.
THEOREM ReadRight == FlagsSpec => ReadAsGiven
<1>1. FlagsInit => Reading!Init
  BY DEF FlagsInit, Reading!Init
<1>2. ReadIInv /\ [FlagsNext]_flagsVars =>
        [Reading!Answer]_<<line, status # "reading",
           CASE status = "reading" -> <<>>
             [] status = "usage"   -> [forward |-> -1]
             [] status = "ready"   -> [forward |-> ct, flags |-> flags]>>
  BY AnswerIsRight
<1> QED
  BY <1>1, <1>2, ReadAlways, PTL DEF FlagsSpec, ReadAsGiven, Reading!Spec

-----------------------------------------------------------------------------
(***************************************************************************)
(* What the definitions on sequences come to.                              *)
(***************************************************************************)
\* The arguments stand for files of the declared kinds.
LEMMA ArgsType ==
  ASSUME input \in Inputs
  PROVE  /\ Args \in Seq(DOMAIN Kind) /\ Len(Args) \in Nat
         /\ \A m \in 1..Len(Args) : /\ Kind[Args[m]] \in Kinds
                                    /\ Kind[Args[m]].dir => Kind[Args[m]].fails = "mmap"
<1>1. input.args \in Seq(DOMAIN Kind) /\ Default \in DOMAIN Kind
  BY InputsAssumption
<1>2. Args \in Seq(DOMAIN Kind)
  <2>1. <<Default>> \in Seq(DOMAIN Kind)
    BY <1>1
  <2> QED
    BY <1>1, <2>1 DEF Args
<1>3. \A m \in 1..Len(Args) : Args[m] \in DOMAIN Kind
  BY <1>2
<1> QED
  BY <1>2, <1>3, InputsAssumption

\* The kinds of numbers a state holds.
LEMMA Numbers ==
  ASSUME TypeOK
  PROVE  /\ n \in Nat /\ n \in 1..(Len(Args) + 1) /\ Len(Args) \in Nat
         /\ fds \in 0..MaxFds /\ MaxFds \in Nat
         /\ n <= Len(Args) => n \in 1..Len(Args)
<1>1. n \in 1..(Len(Args) + 1) /\ Len(Args) \in Nat /\ fds \in 0..MaxFds /\ MaxFds \in Nat
  BY ArgsType, InputsAssumption DEF TypeOK
<1> QED
  BY <1>1

LEMMA Within == \A a, b \in Nat : a < b \/ a = b => a < b + 1
OBVIOUS

\* What was said of an argument.
LEMMA SaidMember ==
  \A m, w : w \in SaidOf(m) <=> \E q \in 1..Len(err) : err[q][1] = m /\ err[q][2] = w
BY DEF SaidOf

LEMMA SaidMemberNext ==
  \A m, w : w \in SaidOf(m)' <=> \E q \in 1..Len(err') : err'[q][1] = m /\ err'[q][2] = w
BY DEF SaidOf

\* One more message about argument n.
LEMMA SaidMore ==
  ASSUME err \in Seq(Nat \X Messages), n \in Nat, NEW w \in Messages,
         err' = Append(err, <<n, w>>)
  PROVE  /\ err' \in Seq(Nat \X Messages)
         /\ Len(err) \in Nat /\ Len(err') = Len(err) + 1
         /\ \A q \in 1..Len(err) : err'[q] = err[q]
         /\ err'[Len(err) + 1] = <<n, w>>
         /\ \A m : m # n => SaidOf(m)' = SaidOf(m)
         /\ \A m : m = n => SaidOf(m)' = SaidOf(m) \cup {w}
<1>1. /\ err' \in Seq(Nat \X Messages)
      /\ Len(err) \in Nat /\ Len(err') = Len(err) + 1
      /\ \A q \in 1..Len(err) : err'[q] = err[q]
      /\ err'[Len(err) + 1] = <<n, w>>
  OBVIOUS
<1>2. \A q : q \in 1..Len(err') <=> q \in 1..Len(err) \/ q = Len(err) + 1
  BY <1>1
<1>3. ASSUME NEW m, m # n PROVE SaidOf(m)' = SaidOf(m)
  <2>1. \A v : v \in SaidOf(m)' <=> v \in SaidOf(m)
    BY <1>1, <1>2, <1>3, SaidMember, SaidMemberNext
  <2> QED
    BY <2>1
<1>4. ASSUME NEW m, m = n PROVE SaidOf(m)' = SaidOf(m) \cup {w}
  <2>1. \A v : v \in SaidOf(m)' <=> v \in SaidOf(m) \/ v = w
    BY <1>1, <1>2, <1>4, SaidMember, SaidMemberNext
  <2> QED
    BY <2>1
<1> QED
  BY <1>1, <1>3, <1>4

\* More output about argument n.
LEMMA OutMore ==
  ASSUME out \in Seq((1..Len(Args)) \X Items), n \in 1..Len(Args),
         NEW x \in Seq({n} \X Items), out' = out \o x
  PROVE  /\ out' \in Seq((1..Len(Args)) \X Items)
         /\ \A q \in 1..Len(out') : (q \in 1..Len(out) /\ out'[q] = out[q]) \/ out'[q][1] = n
         /\ \A m : m # n => (Shown(m)' <=> Shown(m))
         /\ \A m : Shown(m) => Shown(m)'
         /\ (\A q \in 1..Len(x) : x[q][2] # "contents") => \A m : Shown(m)' <=> Shown(m)
         /\ (\E q \in 1..Len(x) : x[q] = <<n, "contents">>) => \A m : m = n => Shown(m)'
<1>1. x \in Seq((1..Len(Args)) \X Items)
  <2>1. Len(x) \in Nat /\ \A q \in 1..Len(x) : x[q] \in (1..Len(Args)) \X Items
    OBVIOUS
  <2> QED
    BY <2>1
<1>2. /\ out' \in Seq((1..Len(Args)) \X Items)
      /\ Len(out) \in Nat /\ Len(x) \in Nat /\ Len(out') = Len(out) + Len(x)
      /\ \A q \in 1..Len(out) : out'[q] = out[q]
      /\ \A q \in 1..Len(x) : out'[Len(out) + q] = x[q]
  BY <1>1
<1>3. \A q \in 1..Len(x) : x[q][1] = n /\ x[q] = <<x[q][1], x[q][2]>>
  OBVIOUS
<1>4. \A q \in 1..Len(out') : q \in 1..Len(out) \/ \E p \in 1..Len(x) : q = Len(out) + p
  <2> TAKE q \in 1..Len(out')
  <2>1. CASE q > Len(out)
    <3>1. q - Len(out) \in 1..Len(x) /\ q = Len(out) + (q - Len(out))
      BY <1>2, <2>1
    <3> QED
      BY <3>1
  <2>2. CASE q <= Len(out)
    BY <1>2, <2>2
  <2> QED
    BY <1>2, <2>1, <2>2
<1>5. \A q \in 1..Len(out) : q \in 1..Len(out')
  BY <1>2
<1>6. \A p \in 1..Len(x) : Len(out) + p \in 1..Len(out')
  BY <1>2
<1>7. \A m : Shown(m) => Shown(m)'
  BY <1>2, <1>5 DEF Shown
<1>8. \A q \in 1..Len(out') : (q \in 1..Len(out) /\ out'[q] = out[q]) \/ out'[q][1] = n
  <2> TAKE q \in 1..Len(out')
  <2>1. CASE q \in 1..Len(out)
    BY <1>2, <2>1
  <2>2. ASSUME NEW p \in 1..Len(x), q = Len(out) + p PROVE out'[q][1] = n
    BY <1>2, <1>3, <2>2
  <2> QED
    BY <1>4, <2>1, <2>2
<1>9. \A m : m # n => (Shown(m)' => Shown(m))
  <2> TAKE m
  <2> SUFFICES ASSUME m # n, NEW q \in 1..Len(out'), out'[q] = <<m, "contents">>
               PROVE  Shown(m)
    BY DEF Shown
  <2>1. out'[q][1] = m
    OBVIOUS
  <2> QED
    BY <1>8, <2>1 DEF Shown
<1>10. ASSUME \A q \in 1..Len(x) : x[q][2] # "contents"
       PROVE  \A m : Shown(m)' => Shown(m)
  <2>1. \A q \in 1..Len(out') : out'[q][2] = "contents" => q \in 1..Len(out)
    <3> TAKE q \in 1..Len(out')
    <3>1. ASSUME NEW p \in 1..Len(x), q = Len(out) + p PROVE out'[q][2] # "contents"
      BY <1>2, <1>10, <3>1
    <3> QED
      BY <1>4, <3>1
  <2>2. ASSUME NEW m, NEW q \in 1..Len(out'), out'[q] = <<m, "contents">> PROVE Shown(m)
    <3>1. out'[q][2] = "contents"
      BY <2>2
    <3> QED
      BY <1>2, <2>1, <2>2, <3>1 DEF Shown
  <2> QED
    BY <2>2 DEF Shown
<1>11. (\E q \in 1..Len(x) : x[q] = <<n, "contents">>) => \A m : m = n => Shown(m)'
  BY <1>2, <1>6 DEF Shown
<1> QED
  BY <1>2, <1>7, <1>8, <1>9, <1>10, <1>11

-----------------------------------------------------------------------------
(***************************************************************************)
(* A file that fails, wherever it does, changes these things and no other. *)
(***************************************************************************)
MayGoUnsaid == \/ File.fails = "fstat in get_fd"
               \/ ~IsNm /\ File.holds = "malformed"

Fails ==
  /\ pc \in {"open", "map", "run", "unmap"} /\ n <= Len(Args)
  /\ input' = input /\ maps' = maps /\ g' = g /\ Fail
  /\ fds' \in 0..MaxFds /\ fds' <= n
  /\ \/ err' = err /\ MayGoUnsaid
     \/ \E w \in Messages \ {"usage"} :
          /\ err' = Append(err, <<n, w>>)
          /\ w = "no such file" => File.open = "ENOENT" \/ n > MaxFds
          /\ pc \in {"run", "unmap"} => w \in {"munmap", "not an object file", "malformed"}
  /\ \E x \in Seq({n} \X {"newline", "name"}) : out' = out \o x

\* The actions that fail are such failures.
LEMMA AllFailures ==
  ASSUME IInv,
         \/ OpenFails \/ StatFails \/ MapFails \/ Foreign \/ Malformed
         \/ Open /\ File.dir /\ ~IsNm
         \/ Unmap /\ File.fails = "munmap"
  PROVE  Fails
<1>1. /\ n \in 1..(Len(Args) + 1)
      /\ fds \in 0..MaxFds /\ MaxFds \in Nat /\ Len(Args) \in Nat /\ n \in Nat
      /\ out \in Seq((1..Len(Args)) \X Items)
  BY ArgsType, InputsAssumption DEF IInv, TypeOK
<1>2. <<>> \in Seq({n} \X {"newline", "name"}) /\ out \o <<>> = out
  BY <1>1
<1>3. /\ NewLine \in Seq({n} \X {"newline", "name"})
      /\ Name \in Seq({n} \X {"newline", "name"})
  <2>1. /\ <<<<n, "newline">>>> \in Seq({n} \X {"newline", "name"})
        /\ <<<<n, "name">>>> \in Seq({n} \X {"newline", "name"})
    OBVIOUS
  <2> QED
    BY <1>2, <2>1 DEF NewLine, Name
<1>4. n \in 1..Len(Args) => File.open \in {"ok", "EACCES", "ENOENT"}
  BY ArgsType DEF IInv, TypeOK, File, Kinds
<1>5. CASE OpenFails
  <2>0. pc = "open" /\ n <= Len(Args) /\ fds < n
    BY <1>5 DEF OpenFails, Opening, IInv, Turn
  <2>1. pc = "open" /\ n <= Len(Args) /\ fds <= n /\ n \in 1..Len(Args) /\ fds < n
    BY <1>1, <2>0
  <2>2. /\ input' = input /\ maps' = maps /\ g' = g /\ Fail /\ fds' = fds /\ out' = out
        /\ File.open # "ok" \/ fds = MaxFds
        /\ err' = Append(err, <<n, IF File.open = "EACCES" /\ fds < MaxFds
                                   THEN "permission denied" ELSE "no such file">>)
    BY <1>5 DEF OpenFails, Said
  <2>3. CASE File.open = "EACCES" /\ fds < MaxFds
    BY <1>1, <1>2, <2>1, <2>2, <2>3 DEF Fails, Messages
  <2>4. CASE ~(File.open = "EACCES" /\ fds < MaxFds)
    <3>1. File.open = "ENOENT" \/ n > MaxFds
      <4>1. CASE fds = MaxFds
        BY <2>1, <4>1
      <4>2. CASE fds # MaxFds
        <5>1. fds < MaxFds
          BY <1>1, <4>2
        <5> QED
          BY <1>4, <2>1, <2>2, <2>4, <4>2, <5>1
      <4> QED
        BY <4>1, <4>2
    <3> QED
      BY <1>1, <1>2, <2>1, <2>2, <2>4, <3>1 DEF Fails, Messages
  <2> QED
    BY <2>3, <2>4
<1>6. CASE StatFails
  <2>0. pc = "open" /\ n <= Len(Args) /\ fds < n /\ MayGoUnsaid
    BY <1>6 DEF StatFails, Opening, IInv, Turn, MayGoUnsaid
  <2>1. pc = "open" /\ n <= Len(Args) /\ fds <= n /\ MayGoUnsaid
    BY <1>1, <2>0
  <2>2. /\ input' = input /\ maps' = maps /\ g' = g /\ Fail /\ fds' = fds /\ out' = out /\ err' = err
    BY <1>6 DEF StatFails
  <2> QED
    BY <1>1, <1>2, <2>1, <2>2 DEF Fails
<1>7. CASE Open /\ File.dir /\ ~IsNm
  <2>0. pc = "open" /\ n <= Len(Args) /\ fds < n /\ fds < MaxFds
    BY <1>7 DEF Open, Opening, IInv, Turn
  <2>1. pc = "open" /\ n <= Len(Args) /\ fds + 1 <= n /\ fds + 1 \in 0..MaxFds
    BY <1>1, <2>0
  <2>2. /\ input' = input /\ maps' = maps /\ g' = g /\ Fail /\ fds' = fds + 1 /\ out' = out
        /\ err' = Append(err, <<n, "directory">>)
    BY <1>7 DEF Open, Said
  <2> QED
    BY <1>1, <1>2, <2>1, <2>2 DEF Fails, Messages
<1>8. CASE MapFails
  <2>1. /\ pc = "map" /\ n <= Len(Args) /\ fds <= n /\ File.fails \in {"fstat", "mmap"}
    BY <1>8 DEF MapFails, IInv, Turn
  <2>2. /\ input' = input /\ maps' = maps /\ g' = g /\ Fail /\ fds' = fds /\ out' = out
        /\ err' = Append(err, <<n, File.fails>>)
    BY <1>8 DEF MapFails, Said
  <2> QED
    BY <1>1, <1>2, <2>1, <2>2 DEF Fails, Messages
<1>9. CASE Foreign
  <2>1. /\ pc = "run" /\ n <= Len(Args) /\ fds <= n
    BY <1>9 DEF Foreign, IInv, Turn
  <2>2. /\ input' = input /\ maps' = maps /\ g' = g /\ Fail /\ fds' = fds /\ out' = out
        /\ err' = Append(err, <<n, "not an object file">>)
    BY <1>9 DEF Foreign, Said
  <2> QED
    BY <1>1, <1>2, <2>1, <2>2 DEF Fails, Messages
<1>10. CASE Malformed
  <2>1. /\ pc = "run" /\ n <= Len(Args) /\ fds <= n
    BY <1>10 DEF Malformed, IInv, Turn
  <2>2. /\ input' = input /\ maps' = maps /\ g' = g /\ Fail /\ fds' = fds
        /\ out' = out \o (IF IsNm THEN NewLine ELSE Name)
        /\ IF IsNm THEN err' = Append(err, <<n, "malformed">>) ELSE err' = err /\ MayGoUnsaid
    BY <1>10 DEF Malformed, Said, MayGoUnsaid
  <2> QED
    BY <1>1, <1>3, <2>1, <2>2 DEF Fails, Messages
<1>11. CASE Unmap /\ File.fails = "munmap"
  <2>1. /\ pc = "unmap" /\ n <= Len(Args) /\ fds <= n
    BY <1>11 DEF Unmap, IInv, Turn
  <2>2. /\ input' = input /\ maps' = maps /\ g' = g /\ Fail /\ fds' = fds /\ out' = out
        /\ err' = Append(err, <<n, "munmap">>)
    BY <1>11 DEF Unmap, Said
  <2> QED
    BY <1>1, <1>2, <2>1, <2>2 DEF Fails, Messages
<1> QED
  BY <1>5, <1>6, <1>7, <1>8, <1>9, <1>10, <1>11

\* What a failure says is said of its own file.
LEMMA FailureSays ==
  ASSUME IInv, Fails
  PROVE  /\ err' \in Seq(Nat \X Messages)
         /\ \A q \in 1..Len(err') : err'[q][1] < n + 1 /\ err'[q][2] # "usage"
         /\ \A m : m # n => SaidOf(m)' = SaidOf(m)
         /\ \A m : m = n => SaidOf(m)' # {} \/ MayGoUnsaid
         /\ \A m : m = n /\ "no such file" \in SaidOf(m)' => File.open = "ENOENT" \/ n > MaxFds
         /\ \A m : m = n /\ pc \in {"run", "unmap"} =>
              SaidOf(m)' \subseteq {"munmap", "not an object file", "malformed"}
<1>1. /\ n \in Nat /\ n \in 1..Len(Args) /\ err \in Seq(Nat \X Messages)
      /\ pc \in {"open", "map", "run", "unmap"}
  <2>1. TypeOK /\ n <= Len(Args) /\ pc \in {"open", "map", "run", "unmap"}
    BY DEF IInv, Fails
  <2>2. n \in Nat /\ n \in 1..Len(Args)
    BY <2>1, Numbers
  <2> QED
    BY <2>1, <2>2 DEF TypeOK
<1>2. \A q \in 1..Len(err) : /\ err[q][1] \in Nat
                             /\ err[q][1] < n \/ (pc = "map" /\ err[q][1] = n)
                             /\ err[q][2] # "usage"
  BY <1>1 DEF IInv, NothingSaidYet, UsageEnds
<1>3. \A q \in 1..Len(err) : err[q][1] < n + 1
  BY <1>1, <1>2, Within
<1>4. "no such file" \in SaidOf(n) => File.open = "ENOENT" \/ n > MaxFds
  BY <1>1 DEF IInv, MissingSaid, File
<1>5. pc \in {"run", "unmap"} => SaidOf(n) = {}
  <2>1. ASSUME pc \in {"run", "unmap"}, NEW v \in SaidOf(n) PROVE FALSE
    <3>1. PICK q \in 1..Len(err) : err[q][1] = n
      BY <2>1, SaidMember
    <3> QED
      BY <1>1, <1>2, <2>1, <3>1
  <2> QED
    BY <2>1
<1>6. CASE err' = err /\ MayGoUnsaid
  <2>1. \A m : SaidOf(m)' = SaidOf(m)
    BY <1>6 DEF SaidOf
  <2> QED
    BY <1>1, <1>2, <1>3, <1>4, <1>5, <1>6, <2>1
<1>7. ASSUME NEW w \in Messages \ {"usage"},
             err' = Append(err, <<n, w>>),
             w = "no such file" => File.open = "ENOENT" \/ n > MaxFds,
             pc \in {"run", "unmap"} => w \in {"munmap", "not an object file", "malformed"}
      PROVE  /\ err' \in Seq(Nat \X Messages)
             /\ \A q \in 1..Len(err') : err'[q][1] < n + 1 /\ err'[q][2] # "usage"
             /\ \A m : m # n => SaidOf(m)' = SaidOf(m)
             /\ \A m : m = n => SaidOf(m)' # {} \/ MayGoUnsaid
             /\ \A m : m = n /\ "no such file" \in SaidOf(m)' => File.open = "ENOENT" \/ n > MaxFds
             /\ \A m : m = n /\ pc \in {"run", "unmap"} =>
                  SaidOf(m)' \subseteq {"munmap", "not an object file", "malformed"}
  <2>1. /\ err' \in Seq(Nat \X Messages)
        /\ Len(err) \in Nat /\ Len(err') = Len(err) + 1
        /\ \A q \in 1..Len(err) : err'[q] = err[q]
        /\ err'[Len(err) + 1] = <<n, w>>
        /\ \A m : m # n => SaidOf(m)' = SaidOf(m)
        /\ \A m : m = n => SaidOf(m)' = SaidOf(m) \cup {w}
    BY <1>1, <1>7, SaidMore
  <2>2. \A q \in 1..Len(err') : err'[q][1] < n + 1 /\ err'[q][2] # "usage"
    <3> TAKE q \in 1..Len(err')
    <3>1. CASE q \in 1..Len(err)
      BY <1>2, <1>3, <2>1, <3>1
    <3>2. CASE q = Len(err) + 1
      BY <1>1, <2>1, <3>2
    <3> QED
      BY <2>1, <3>1, <3>2
  <2>3. ASSUME NEW m, m = n
        PROVE  /\ SaidOf(m)' # {}
               /\ "no such file" \in SaidOf(m)' => File.open = "ENOENT" \/ n > MaxFds
               /\ pc \in {"run", "unmap"} =>
                    SaidOf(m)' \subseteq {"munmap", "not an object file", "malformed"}
    <3>1. SaidOf(m)' = SaidOf(n) \cup {w}
      BY <2>1, <2>3
    <3> QED
      BY <1>4, <1>5, <1>7, <3>1
  <2> QED
    BY <2>1, <2>2, <2>3
<1> QED
  BY <1>6, <1>7 DEF Fails

LEMMA FailStep ==
  ASSUME IInv, Fails
  PROVE  IInv'
<1>1. /\ n \in Nat /\ n \in 1..Len(Args) /\ Len(Args) \in Nat /\ MaxFds \in Nat
      /\ pc \in {"open", "map", "run", "unmap"} /\ input \in Inputs
      /\ out \in Seq((1..Len(Args)) \X Items)
  <2>1. TypeOK /\ n <= Len(Args) /\ pc \in {"open", "map", "run", "unmap"}
    BY DEF IInv, Fails
  <2>2. n \in Nat /\ n \in 1..Len(Args) /\ Len(Args) \in Nat /\ MaxFds \in Nat
    BY <2>1, Numbers
  <2> QED
    BY <2>1, <2>2 DEF TypeOK
<1>2. /\ n' = n + 1 /\ pc' = "open" /\ res' = 1 /\ maps' = maps /\ g' = g /\ input' = input
      /\ fds' \in 0..MaxFds /\ fds' <= n
  BY DEF Fails, Fail
<1>3. Args' = Args /\ (IsNm' <=> IsNm)
  BY <1>2 DEF Args, IsNm
<1>4. PICK x \in Seq({n} \X {"newline", "name"}) : out' = out \o x
  BY DEF Fails
<1>5. x \in Seq({n} \X Items) /\ \A q \in 1..Len(x) : x[q][2] # "contents"
  <2>1. Len(x) \in Nat /\ \A q \in 1..Len(x) : x[q] \in {n} \X Items /\ x[q][2] # "contents"
    BY DEF Items
  <2> QED
    BY <2>1
<1>6. /\ out' \in Seq((1..Len(Args)) \X Items)
      /\ \A q \in 1..Len(out') : (q \in 1..Len(out) /\ out'[q] = out[q]) \/ out'[q][1] = n
      /\ \A m : Shown(m)' <=> Shown(m)
  BY <1>1, <1>4, <1>5, OutMore
<1>7. /\ err' \in Seq(Nat \X Messages)
      /\ \A q \in 1..Len(err') : err'[q][1] < n + 1 /\ err'[q][2] # "usage"
      /\ \A m : m # n => SaidOf(m)' = SaidOf(m)
      /\ \A m : m = n => SaidOf(m)' # {} \/ MayGoUnsaid
      /\ \A m : m = n /\ "no such file" \in SaidOf(m)' => File.open = "ENOENT" \/ n > MaxFds
      /\ \A m : m = n /\ pc \in {"run", "unmap"} =>
           SaidOf(m)' \subseteq {"munmap", "not an object file", "malformed"}
  BY FailureSays
<1>8. \A m : m = n => SaidOf(m)' # {} \/ MayGoUnsaid
  BY <1>7
<1>9. \A m : m = n /\ "no such file" \in SaidOf(m)' => File.open = "ENOENT" \/ n > MaxFds
  BY <1>7
<1>10. \A m : m = n /\ pc \in {"run", "unmap"} =>
                SaidOf(m)' \subseteq {"munmap", "not an object file", "malformed"}
  BY <1>7
<1>11. n' \in 1..(Len(Args) + 1) /\ \A m : m \in 1..(n' - 1) => m \in 1..(n - 1) \/ m = n
  BY <1>1, <1>2
<1>12. TypeOK'
  BY <1>1, <1>2, <1>3, <1>6, <1>7, <1>11 DEF IInv, TypeOK
<1>13. Turn'
  BY <1>1, <1>2 DEF Turn
<1>14. NothingSaidYet'
  BY <1>2, <1>7 DEF NothingSaidYet
<1>15. ShownInTurn'
  <2>1. \A q \in 1..Len(out) : out[q][1] \in Nat /\ (out[q][1] < n \/ out[q][1] = n)
    BY <1>1 DEF IInv, ShownInTurn
  <2>2. \A q \in 1..Len(out) : out[q][1] < n + 1
    BY <1>1, <2>1, Within
  <2>3. \A q \in 1..Len(out') : out'[q][1] < n + 1
    <3> TAKE q \in 1..Len(out')
    <3>1. CASE q \in 1..Len(out) /\ out'[q] = out[q]
      BY <2>2, <3>1
    <3>2. CASE out'[q][1] = n
      BY <1>1, <3>2, Within
    <3> QED
      BY <1>6, <3>1, <3>2
  <2> QED
    BY <1>2, <2>3 DEF ShownInTurn
<1>16. UsageEnds'
  BY <1>2, <1>7 DEF UsageEnds
<1>17. GlobalsCurrent'
  BY <1>2 DEF GlobalsCurrent
<1>18. MappingsHeld'
  <2> SUFFICES ASSUME NEW m \in maps
               PROVE  m < n' /\ SaidOf(m)' \subseteq {"munmap", "not an object file", "malformed"}
    BY <1>2 DEF MappingsHeld
  <2>1. m \in Nat
    BY <1>1 DEF IInv, TypeOK
  <2>2. CASE m = n /\ pc \in {"run", "unmap"}
    <3>1. m < n'
      BY <1>1, <1>2, <2>1, <2>2, Within
    <3>2. SaidOf(m)' \subseteq {"munmap", "not an object file", "malformed"}
      BY <1>10, <2>2
    <3> QED
      BY <3>1, <3>2
  <2>3. CASE m < n /\ SaidOf(m) \subseteq {"munmap", "not an object file", "malformed"}
    <3>0. m < n
      BY <2>3
    <3>1. m < n + 1 /\ m # n
      BY <1>1, <2>1, <3>0
    <3>2. SaidOf(m)' = SaidOf(m)
      BY <1>7, <3>1
    <3> QED
      BY <1>2, <2>3, <3>1, <3>2
  <2> QED
    BY <2>2, <2>3 DEF IInv, MappingsHeld
<1>19. StatusSoFar'
  <2>1. ~Shown(n) \/ n \in maps
    <3>1. CASE pc = "unmap"
      BY <3>1 DEF IInv, GlobalsCurrent
    <3>2. CASE pc # "unmap"
      <4>1. \A q \in 1..Len(out) : out[q][1] # n
        BY <1>1, <3>2 DEF IInv, ShownInTurn
      <4> QED
        BY <4>1 DEF Shown
    <3> QED
      BY <3>1, <3>2
  <2>2. n \in 1..(n' - 1)
    BY <1>1, <1>2
  <2>3. \A m : m = n => ~Shown(m)' \/ m \in maps'
    BY <1>2, <1>6, <2>1
  <2> QED
    BY <1>2, <2>2, <2>3 DEF StatusSoFar
<1>20. MissingSaid'
  <2> SUFFICES ASSUME NEW m \in 1..Len(Args), "no such file" \in SaidOf(m)'
               PROVE  Kind[Args[m]].open = "ENOENT" \/ m > MaxFds
    BY <1>3 DEF MissingSaid
  <2>1. CASE m = n
    <3>1. File.open = "ENOENT" \/ n > MaxFds
      BY <1>9, <2>1
    <3> QED
      BY <2>1, <3>1 DEF File
  <2>2. CASE m # n
    BY <1>7, <2>2 DEF IInv, MissingSaid
  <2> QED
    BY <2>1, <2>2
<1>21. FailureSaid'
  <2> SUFFICES ASSUME NEW m, m \in 1..(n' - 1)
               PROVE  \/ Shown(m)' \/ SaidOf(m)' # {}
                      \/ Kind[Args[m]].fails = "fstat in get_fd"
                      \/ ~IsNm /\ Kind[Args[m]].holds = "malformed"
    BY <1>3 DEF FailureSaid
  <2>1. CASE m = n
    <3>1. SaidOf(m)' # {} \/ MayGoUnsaid
      BY <1>8, <2>1
    <3> QED
      BY <2>1, <3>1 DEF MayGoUnsaid, File
  <2>2. CASE m \in 1..(n - 1) /\ m # n
    BY <1>1, <1>6, <1>7, <2>2 DEF IInv, FailureSaid
  <2> QED
    BY <1>11, <2>1, <2>2
<1> QED
  BY <1>12, <1>13, <1>14, <1>15, <1>16, <1>17, <1>18, <1>19, <1>20, <1>21 DEF IInv

-----------------------------------------------------------------------------
(***************************************************************************)
(* The steps of a file's turn that do not fail.                            *)
(***************************************************************************)
\* What a step leaves alone.
LEMMA Frame ==
  /\ input' = input => Args' = Args /\ (IsNm' <=> IsNm)
  /\ input' = input /\ n' = n => File' = File
  /\ err' = err => \A m : SaidOf(m)' = SaidOf(m)
  /\ out' = out => \A m : Shown(m)' <=> Shown(m)
BY DEF Args, IsNm, File, SaidOf, Shown

\* A state in which nothing was said or shown.
LEMMA Blank ==
  /\ err = <<>> => \A m : SaidOf(m) = {}
  /\ out = <<>> => \A m : ~Shown(m)
BY SaidMember DEF Shown

\* The usage is said, and that is all.
LEMMA UsageStep ==
  ASSUME IInv, Usage
  PROVE  IInv'
<1>1. /\ TypeOK /\ pc = "start" /\ n = 1 /\ res = 0 /\ maps = {} /\ err = <<>> /\ out = <<>>
      /\ fds < n
  BY DEF IInv, Usage, Turn
<1>2. /\ input' = input /\ n' = n /\ fds' = fds /\ maps' = maps /\ g' = g /\ out' = out
      /\ pc' = "exit" /\ res' = 1 /\ err' = Append(err, <<n, "usage">>)
  BY DEF Usage, Said
<1>3. /\ Args' = Args
      /\ \A m : SaidOf(m) = {}
  BY <1>1, <1>2, Frame, Blank
<1>4. /\ err' \in Seq(Nat \X Messages)
      /\ Len(err') = 1 /\ err'[1] = <<1, "usage">>
      /\ \A m : m = 1 => "usage" \in SaidOf(m)'
      /\ \A m : SaidOf(m)' \subseteq {"usage"}
  <2>1. "usage" \in Messages /\ n \in Nat /\ err \in Seq(Nat \X Messages) /\ Len(err) = 0
    BY <1>1 DEF TypeOK, Messages
  <2> QED
    <3>1. /\ err' \in Seq(Nat \X Messages) /\ Len(err') = Len(err) + 1
          /\ err'[Len(err) + 1] = <<n, "usage">>
          /\ \A m : m # n => SaidOf(m)' = SaidOf(m)
          /\ \A m : m = n => SaidOf(m)' = SaidOf(m) \cup {"usage"}
      BY <1>2, <2>1, SaidMore
    <3> QED
      BY <1>1, <1>3, <2>1, <3>1
<1>5. \A q \in 1..Len(err') : err'[q] = <<1, "usage">>
  BY <1>4
<1>6. TypeOK'
  BY <1>1, <1>2, <1>3, <1>4 DEF TypeOK
<1>7. Turn'
  BY <1>1, <1>2, Numbers DEF Turn
<1>8. NothingSaidYet' /\ GlobalsCurrent' /\ MappingsHeld'
  BY <1>1, <1>2 DEF NothingSaidYet, GlobalsCurrent, MappingsHeld
<1>9. ShownInTurn'
  BY <1>1, <1>2 DEF ShownInTurn
<1>10. UsageEnds' /\ StatusSoFar'
  <2>1. "usage" \in SaidOf(1)'
    BY <1>4
  <2> QED
    BY <1>2, <1>5, <2>1 DEF UsageEnds, StatusSoFar
<1>11. MissingSaid'
  <2>0. "no such file" \notin {"usage"}
    OBVIOUS
  <2>1. \A m : "no such file" \notin SaidOf(m)'
    BY <1>4, <2>0
  <2> QED
    BY <2>1 DEF MissingSaid
<1>12. FailureSaid'
  <2>1. 1..(n' - 1) = {}
    BY <1>1, <1>2
  <2> QED
    BY <2>1 DEF FailureSaid
<1> QED
  BY <1>6, <1>7, <1>8, <1>9, <1>10, <1>11, <1>12 DEF IInv

\* The first file is looked at, if there is one.
LEMMA StartStep ==
  ASSUME IInv, Start
  PROVE  IInv'
<1>1. /\ TypeOK /\ pc = "start" /\ n = 1 /\ res = 0 /\ maps = {} /\ err = <<>> /\ out = <<>>
      /\ fds < n
  BY DEF IInv, Start, Turn
<1>2. /\ input' = input /\ n' = n /\ fds' = fds /\ maps' = maps /\ g' = g /\ out' = out
      /\ pc' = "open" /\ res' = res
  BY DEF Start
<1>3. Args' = Args /\ \A m : SaidOf(m) = {}
  BY <1>1, <1>2, Frame, Blank
<1>4. /\ err' \in Seq(Nat \X Messages)
      /\ \A q \in 1..Len(err') : err'[q][2] = "no file" /\ Len(Args) = 0
      /\ \A m : SaidOf(m)' \subseteq {"no file"}
  <2>1. CASE err' = err
    <3>1. err' \in Seq(Nat \X Messages) /\ 1..Len(err') = {}
      BY <1>1, <2>1 DEF TypeOK
    <3>2. \A m : SaidOf(m)' \subseteq {"no file"}
      BY <1>3, <2>1, Frame
    <3> QED
      BY <3>1, <3>2
  <2>2. CASE Args = <<>> /\ err' = Append(err, <<n, "no file">>)
    <3>1. "no file" \in Messages /\ n \in Nat /\ err \in Seq(Nat \X Messages) /\ Len(err) = 0
      BY <1>1 DEF TypeOK, Messages
    <3>2. /\ err' \in Seq(Nat \X Messages) /\ Len(err') = 1 /\ err'[1] = <<n, "no file">>
          /\ \A m : m # n => SaidOf(m)' = SaidOf(m)
          /\ \A m : m = n => SaidOf(m)' = SaidOf(m) \cup {"no file"}
      <4>1. /\ err' \in Seq(Nat \X Messages) /\ Len(err') = Len(err) + 1
            /\ err'[Len(err) + 1] = <<n, "no file">>
            /\ \A m : m # n => SaidOf(m)' = SaidOf(m)
            /\ \A m : m = n => SaidOf(m)' = SaidOf(m) \cup {"no file"}
        BY <2>2, <3>1, SaidMore
      <4>2. Len(err') = 1 /\ err'[1] = <<n, "no file">>
        <5>1. /\ Len(err) = 0 /\ Len(err') = Len(err) + 1
              /\ err'[Len(err) + 1] = <<n, "no file">>
          BY <3>1, <4>1
        <5>2. Len(err) = 0 => Len(err) + 1 = 1
          OBVIOUS
        <5> QED
          BY <5>1, <5>2
      <4> QED
        BY <4>1, <4>2
    <3>3. \A q \in 1..Len(err') : err'[q][2] = "no file" /\ Len(Args) = 0
      <4>1. Len(Args) = 0
        BY <2>2
      <4>2. \A q \in 1..Len(err') : q = 1
        <5>1. Len(err') = 1
          BY <3>2
        <5> QED
          BY <5>1
      <4>3. err'[1][2] = "no file"
        <5>1. err'[1] = <<n, "no file">>
          BY <3>2
        <5>2. <<n, "no file">>[2] = "no file"
          OBVIOUS
        <5> QED
          BY <5>1, <5>2, Zenon
      <4>4. ASSUME NEW q \in 1..Len(err') PROVE err'[q][2] = "no file"
        <5>1. q = 1
          BY <4>2
        <5> QED
          BY <4>3, <5>1
      <4> QED
        BY <4>1, <4>4
    <3>4. \A m : SaidOf(m)' \subseteq {"no file"}
      BY <1>3, <3>2
    <3> QED
      BY <3>2, <3>3, <3>4
  <2> QED
    BY <2>1, <2>2 DEF Start, Said
<1>5. TypeOK'
  BY <1>1, <1>2, <1>3, <1>4 DEF TypeOK
<1>6. Turn' /\ GlobalsCurrent' /\ MappingsHeld' /\ ShownInTurn'
  <2>1. fds \in Nat /\ n \in Nat
    BY <1>1, Numbers
  <2>2. 1..Len(out') = {}
    BY <1>1, <1>2
  <2> QED
    BY <1>1, <1>2, <2>1, <2>2 DEF Turn, GlobalsCurrent, MappingsHeld, ShownInTurn
<1>7. 1..(n' - 1) = {}
  BY <1>1, <1>2
<1>8. FailureSaid'
  BY <1>7 DEF FailureSaid
<1>9. NothingSaidYet'
  <2>1. CASE 1..Len(err') = {}
    BY <2>1 DEF NothingSaidYet
  <2>2. CASE 1..Len(err') # {}
    <3>1. Len(Args) = 0
      BY <1>4, <2>2
    <3>2. ~(n' <= Len(Args'))
      BY <1>1, <1>2, <1>3, <3>1
    <3> QED
      BY <3>2 DEF NothingSaidYet
  <2> QED
    BY <2>1, <2>2
<1>10. UsageEnds'
  BY <1>2, <1>4 DEF UsageEnds
<1>11. StatusSoFar'
  BY <1>1, <1>2, <1>7 DEF StatusSoFar
<1>12. MissingSaid'
  BY <1>4 DEF MissingSaid
<1> QED
  BY <1>5, <1>6, <1>9, <1>10, <1>11, <1>12, <1>8 DEF IInv

\* A file is open, and perhaps it is a directory.
LEMMA OpenStep ==
  ASSUME IInv, Open, ~(File.dir /\ ~IsNm)
  PROVE  IInv'
<1>1. /\ TypeOK /\ pc = "open" /\ n <= Len(Args) /\ fds < n /\ fds < MaxFds
  BY DEF IInv, Open, Opening, Turn
<1>2. /\ input' = input /\ n' = n /\ fds' = fds + 1 /\ maps' = maps /\ g' = g /\ out' = out
      /\ pc' = "map" /\ res' = res
      /\ err' = err \/ (File.dir /\ err' = Append(err, <<n, "directory">>))
  BY DEF Open, Said
<1>3. /\ Args' = Args /\ (IsNm' <=> IsNm) /\ File' = File
      /\ \A m : Shown(m)' <=> Shown(m)
  BY <1>2, Frame
<1>4. n \in Nat /\ n \in 1..Len(Args) /\ fds + 1 \in 0..MaxFds /\ fds + 1 <= n
  BY <1>1, Numbers
<1>5. /\ err' \in Seq(Nat \X Messages)
      /\ \A q \in 1..Len(err') : (q \in 1..Len(err) /\ err'[q] = err[q])
                                 \/ (err'[q] = <<n, "directory">> /\ File.dir)
      /\ \A m : m # n => SaidOf(m)' = SaidOf(m)
      /\ \A m : SaidOf(m)' \subseteq SaidOf(m) \cup {"directory"}
      /\ \A m : SaidOf(m) \subseteq SaidOf(m)'
  <2>1. CASE err' = err
    <3>1. err' \in Seq(Nat \X Messages)
      BY <1>1, <2>1 DEF TypeOK
    <3>2. \A m : SaidOf(m)' = SaidOf(m)
      BY <2>1, Frame
    <3> QED
      BY <2>1, <3>1, <3>2
  <2>2. CASE File.dir /\ err' = Append(err, <<n, "directory">>)
    <3>1. "directory" \in Messages /\ err \in Seq(Nat \X Messages)
      BY <1>1 DEF TypeOK, Messages
    <3>2. /\ err' \in Seq(Nat \X Messages) /\ Len(err) \in Nat /\ Len(err') = Len(err) + 1
          /\ \A q \in 1..Len(err) : err'[q] = err[q]
          /\ err'[Len(err) + 1] = <<n, "directory">>
          /\ \A m : m # n => SaidOf(m)' = SaidOf(m)
          /\ \A m : m = n => SaidOf(m)' = SaidOf(m) \cup {"directory"}
      BY <1>4, <2>2, <3>1, SaidMore
    <3>3. \A q \in 1..Len(err') : q \in 1..Len(err) \/ q = Len(err) + 1
      BY <3>2
    <3>4. \A m : SaidOf(m)' \subseteq SaidOf(m) \cup {"directory"} /\ SaidOf(m) \subseteq SaidOf(m)'
      BY <3>2
    <3> QED
      BY <2>2, <3>2, <3>3, <3>4
  <2> QED
    BY <1>2, <2>1, <2>2
<1>6. TypeOK'
  BY <1>1, <1>2, <1>3, <1>4, <1>5 DEF TypeOK
<1>7. Turn' /\ GlobalsCurrent'
  BY <1>1, <1>2, <1>3, <1>4 DEF Turn, GlobalsCurrent
<1>8. NothingSaidYet'
  <2>1. \A q \in 1..Len(err) : err[q][1] < n
    BY <1>1 DEF IInv, NothingSaidYet
  <2> QED
    BY <1>2, <1>3, <1>5, <2>1 DEF NothingSaidYet
<1>9. ShownInTurn'
  BY <1>1, <1>2 DEF IInv, ShownInTurn
<1>10. UsageEnds'
  <2>1. \A q \in 1..Len(err) : err[q][2] # "usage"
    BY <1>1 DEF IInv, UsageEnds
  <2> QED
    BY <1>2, <1>5, <2>1 DEF UsageEnds
<1>11. MappingsHeld'
  <2> SUFFICES ASSUME NEW m \in maps
               PROVE  m < n /\ res = 1 /\ SaidOf(m)' \subseteq {"munmap", "not an object file", "malformed"}
    BY <1>2 DEF MappingsHeld
  <2>1. m < n /\ res = 1 /\ SaidOf(m) \subseteq {"munmap", "not an object file", "malformed"}
    BY <1>1 DEF IInv, MappingsHeld
  <2>2. m \in Nat
    BY <1>1 DEF TypeOK
  <2>3. m # n
    <3>1. m < n
      BY <2>1
    <3> QED
      BY <1>4, <2>2, <3>1
  <2> QED
    BY <1>5, <2>1, <2>3
<1>12. StatusSoFar'
  <2>1. "usage" \in SaidOf(1) => "usage" \in SaidOf(1)'
    BY <1>5
  <2> QED
    BY <1>2, <1>3, <2>1 DEF IInv, StatusSoFar
<1>13. MissingSaid'
  BY <1>3, <1>5 DEF IInv, MissingSaid
<1>14. FailureSaid'
  <2>1. \A m : SaidOf(m) # {} => SaidOf(m)' # {}
    BY <1>5
  <2> QED
    BY <1>1, <1>2, <1>3, <2>1 DEF IInv, FailureSaid
<1> QED
  BY <1>6, <1>7, <1>8, <1>9, <1>10, <1>11, <1>12, <1>13, <1>14 DEF IInv

\* A file is mapped; a directory never is.
LEMMA MapStep ==
  ASSUME IInv, Map
  PROVE  IInv'
<1>1. /\ TypeOK /\ pc = "map" /\ n <= Len(Args) /\ fds <= n /\ File.fails # "mmap"
  BY DEF IInv, Map, Turn
<1>2. /\ input' = input /\ n' = n /\ fds' = fds /\ maps' = maps \cup {n} /\ g' = n /\ out' = out
      /\ pc' = "run" /\ res' = res /\ err' = err
  BY DEF Map
<1>3. /\ Args' = Args /\ (IsNm' <=> IsNm) /\ File' = File
      /\ \A m : Shown(m)' <=> Shown(m)
      /\ \A m : SaidOf(m)' = SaidOf(m)
  BY <1>2, Frame
<1>4. n \in Nat /\ n \in 1..Len(Args)
  BY <1>1, Numbers
<1>5. ~File.dir
  BY <1>1, <1>4, ArgsType DEF TypeOK, File
<1>6. TypeOK'
  BY <1>1, <1>2, <1>3, <1>4 DEF TypeOK
<1>7. Turn' /\ GlobalsCurrent'
  BY <1>1, <1>2, <1>3, <1>4 DEF Turn, GlobalsCurrent
<1>8. NothingSaidYet'
  BY <1>1, <1>2, <1>3, <1>5 DEF IInv, NothingSaidYet
<1>9. ShownInTurn'
  BY <1>1, <1>2 DEF IInv, ShownInTurn
<1>10. UsageEnds'
  BY <1>1, <1>2 DEF IInv, UsageEnds
<1>11. MappingsHeld'
  <2> SUFFICES ASSUME NEW m \in maps
               PROVE  m < n /\ res = 1 /\ SaidOf(m) \subseteq {"munmap", "not an object file", "malformed"}
    BY <1>2, <1>3 DEF MappingsHeld
  <2> QED
    BY <1>1 DEF IInv, MappingsHeld
<1>12. StatusSoFar'
  <2>1. \A m \in 1..(n - 1) : m # n
    BY <1>4
  <2> QED
    BY <1>2, <1>3, <2>1 DEF IInv, StatusSoFar
<1>13. MissingSaid'
  BY <1>3 DEF IInv, MissingSaid
<1>14. FailureSaid'
  BY <1>1, <1>2, <1>3 DEF IInv, FailureSaid
<1> QED
  BY <1>6, <1>7, <1>8, <1>9, <1>10, <1>11, <1>12, <1>13, <1>14 DEF IInv

\* The contents of a file are shown.
LEMMA ShowStep ==
  ASSUME IInv, Show
  PROVE  IInv'
<1>1. /\ TypeOK /\ pc = "run" /\ n <= Len(Args) /\ fds <= n
  BY DEF IInv, Show, Turn
<1>2. /\ input' = input /\ n' = n /\ fds' = fds /\ maps' = maps /\ g' = g /\ err' = err
      /\ pc' = "unmap" /\ res' = res
  BY DEF Show
<1>3. /\ Args' = Args /\ (IsNm' <=> IsNm) /\ File' = File
      /\ \A m : SaidOf(m)' = SaidOf(m)
  BY <1>2, Frame
<1>4. n \in Nat /\ n \in 1..Len(Args)
  BY <1>1, Numbers
<1> DEFINE head == IF IsNm THEN NewLine \o Name ELSE Name
           x    == head \o <<<<n, "contents">>>>
<1>5. head \in Seq({n} \X Items)
  <2>1. /\ <<>> \in Seq({n} \X Items)
        /\ <<<<n, "newline">>>> \in Seq({n} \X Items)
        /\ <<<<n, "name">>>> \in Seq({n} \X Items)
    BY DEF Items
  <2>2. NewLine \in Seq({n} \X Items) /\ Name \in Seq({n} \X Items)
    BY <2>1 DEF NewLine, Name
  <2> QED
    BY <2>2
<1>6. x \in Seq({n} \X Items) /\ \E q \in 1..Len(x) : x[q] = <<n, "contents">>
  <2> HIDE DEF head
  <2>1. <<<<n, "contents">>>> \in Seq({n} \X Items) /\ Len(head) \in Nat
    BY <1>5 DEF Items
  <2>2. /\ x \in Seq({n} \X Items)
        /\ Len(head) + 1 \in 1..Len(x) /\ x[Len(head) + 1] = <<n, "contents">>
    BY <1>5, <2>1
  <2> QED
    BY <2>2
<1>7. out' = out \o x
  <2>1. out' = out \o head \o <<<<n, "contents">>>>
    BY DEF Show
  <2>2. /\ out \in Seq((1..Len(Args)) \X Items)
        /\ <<<<n, "contents">>>> \in Seq((1..Len(Args)) \X Items)
    BY <1>1, <1>4 DEF TypeOK, Items
  <2>3. head \in Seq((1..Len(Args)) \X Items)
    <3> HIDE DEF head
    <3>1. Len(head) \in Nat /\ \A q \in 1..Len(head) : head[q] \in (1..Len(Args)) \X Items
      BY <1>4, <1>5
    <3>2. DOMAIN head = 1..Len(head) /\ head = [q \in 1..Len(head) |-> head[q]]
      BY <1>5
    <3> QED
      BY <3>1, <3>2
  <2>4. (out \o head) \o <<<<n, "contents">>>> = out \o (head \o <<<<n, "contents">>>>)
    <3> HIDE DEF head
    <3> QED
      BY <2>2, <2>3, ConcatAssociative
  <2> QED
    BY <2>1, <2>4
<1>8. /\ out' \in Seq((1..Len(Args)) \X Items)
      /\ \A q \in 1..Len(out') : (q \in 1..Len(out) /\ out'[q] = out[q]) \/ out'[q][1] = n
      /\ \A m : m # n => (Shown(m)' <=> Shown(m))
      /\ \A m : Shown(m) => Shown(m)'
      /\ \A m : m = n => Shown(m)'
  <2> HIDE DEF x
  <2>1. out \in Seq((1..Len(Args)) \X Items)
    BY <1>1 DEF TypeOK
  <2> QED
    BY <1>4, <1>6, <1>7, <2>1, OutMore
<1> HIDE DEF x
<1>9. TypeOK'
  BY <1>1, <1>2, <1>3, <1>8 DEF TypeOK
<1>10. Turn'
  BY <1>1, <1>2, <1>3 DEF Turn
<1>11. GlobalsCurrent'
  BY <1>1, <1>2 DEF IInv, GlobalsCurrent
<1>12. NothingSaidYet'
  BY <1>1, <1>2, <1>3 DEF IInv, NothingSaidYet
<1>13. ShownInTurn'
  <2>1. \A q \in 1..Len(out) : out[q][1] < n
    BY <1>1 DEF IInv, ShownInTurn
  <2>2. \A q \in 1..Len(out') : out'[q][1] < n \/ out'[q][1] = n
    <3> TAKE q \in 1..Len(out')
    <3>1. CASE q \in 1..Len(out) /\ out'[q] = out[q]
      BY <2>1, <3>1
    <3> QED
      BY <1>8, <3>1
  <2>3. \E q \in 1..Len(out') : out'[q] = <<n, "contents">>
    BY <1>6, <1>7, <1>8 DEF Shown
  <2> QED
    BY <1>2, <2>2, <2>3 DEF ShownInTurn, Shown
<1>14. UsageEnds'
  BY <1>1, <1>2 DEF IInv, UsageEnds
<1>15. MappingsHeld'
  <2> SUFFICES ASSUME NEW m \in maps
               PROVE  \/ m = n
                      \/ m < n /\ res = 1 /\ SaidOf(m) \subseteq {"munmap", "not an object file", "malformed"}
    BY <1>2, <1>3 DEF MappingsHeld
  <2> QED
    BY <1>1 DEF IInv, MappingsHeld
<1>16. StatusSoFar'
  <2>1. \A m \in 1..(n - 1) : m # n
    BY <1>4
  <2> QED
    BY <1>2, <1>3, <1>8, <2>1 DEF IInv, StatusSoFar
<1>17. MissingSaid'
  BY <1>3 DEF IInv, MissingSaid
<1>18. FailureSaid'
  BY <1>1, <1>2, <1>3, <1>8 DEF IInv, FailureSaid
<1> QED
  BY <1>9, <1>10, <1>11, <1>12, <1>13, <1>14, <1>15, <1>16, <1>17, <1>18 DEF IInv

\* A file is unmapped: the next one is looked at.
LEMMA UnmapStep ==
  ASSUME IInv, Unmap, File.fails # "munmap"
  PROVE  IInv'
<1>1. /\ TypeOK /\ pc = "unmap" /\ n <= Len(Args) /\ fds <= n /\ Shown(n) /\ n \in maps
  BY DEF IInv, Unmap, Turn, ShownInTurn, GlobalsCurrent
<1>2. /\ input' = input /\ n' = n + 1 /\ fds' = fds /\ maps' = maps \ {n} /\ g' = g /\ out' = out
      /\ pc' = "open" /\ res' = res /\ err' = err
  BY DEF Unmap, Succeed
<1>3. /\ Args' = Args /\ (IsNm' <=> IsNm)
      /\ \A m : Shown(m)' <=> Shown(m)
      /\ \A m : SaidOf(m)' = SaidOf(m)
  BY <1>2, Frame
<1>4. /\ n \in Nat /\ n \in 1..Len(Args) /\ Len(Args) \in Nat /\ fds \in Nat
      /\ n + 1 \in 1..(Len(Args) + 1)
  BY <1>1, Numbers
<1>5. \A m : m \in 1..(n' - 1) <=> m \in 1..(n - 1) \/ m = n
  BY <1>2, <1>4
<1>6. TypeOK'
  BY <1>1, <1>2, <1>3, <1>4 DEF TypeOK
<1>7. Turn' /\ GlobalsCurrent'
  <2>1. fds < n + 1
    BY <1>1, <1>4
  <2> QED
    BY <1>2, <1>4, <2>1 DEF Turn, GlobalsCurrent
<1>8. NothingSaidYet'
  <2>1. \A q \in 1..Len(err) : err[q][1] \in Nat
    BY <1>1 DEF TypeOK
  <2>2. \A q \in 1..Len(err) : err[q][1] < n
    BY <1>1 DEF IInv, NothingSaidYet
  <2>3. \A q \in 1..Len(err) : err[q][1] < n + 1
    BY <1>4, <2>1, <2>2, Within
  <2> QED
    BY <1>2, <2>3 DEF NothingSaidYet
<1>9. ShownInTurn'
  <2>1. \A q \in 1..Len(out) : out[q][1] \in Nat
    BY <1>1, <1>4 DEF TypeOK
  <2>2. \A q \in 1..Len(out) : out[q][1] < n \/ out[q][1] = n
    BY DEF IInv, ShownInTurn
  <2>3. \A q \in 1..Len(out) : out[q][1] < n + 1
    BY <1>4, <2>1, <2>2, Within
  <2> QED
    BY <1>2, <2>3 DEF ShownInTurn
<1>10. UsageEnds'
  BY <1>1, <1>2 DEF IInv, UsageEnds
<1>11. MappingsHeld'
  <2> SUFFICES ASSUME NEW m \in maps, m # n
               PROVE  m < n + 1 /\ res = 1 /\ SaidOf(m) \subseteq {"munmap", "not an object file", "malformed"}
    BY <1>2, <1>3 DEF MappingsHeld
  <2>1. m \in Nat
    BY <1>1, <1>4 DEF TypeOK
  <2>2. m < n /\ res = 1 /\ SaidOf(m) \subseteq {"munmap", "not an object file", "malformed"}
    BY DEF IInv, MappingsHeld
  <2>3. m < n
    BY <2>2
  <2>4. m < n + 1
    BY <1>4, <2>1, <2>3, Within
  <2> QED
    BY <2>2, <2>4
<1>12. StatusSoFar'
  <2>1. \A m \in 1..(n - 1) : m # n
    BY <1>4
  <2>2. "usage" \notin SaidOf(1) =>
          (res = 0 <=> \A m \in 1..(n - 1) : Shown(m) /\ m \notin maps)
    BY DEF IInv, StatusSoFar
  <2>3. (\A m \in 1..(n - 1) : Shown(m) /\ m \notin maps)
        <=> (\A m \in 1..(n' - 1) : Shown(m)' /\ m \notin maps')
    BY <1>1, <1>2, <1>3, <1>5, <2>1
  <2> QED
    BY <1>2, <1>3, <2>2, <2>3 DEF StatusSoFar
<1>13. MissingSaid'
  BY <1>3 DEF IInv, MissingSaid
<1>14. FailureSaid'
  BY <1>1, <1>2, <1>3, <1>5 DEF IInv, FailureSaid
<1> QED
  BY <1>6, <1>7, <1>8, <1>9, <1>10, <1>11, <1>12, <1>13, <1>14 DEF IInv

\* There is no more file.
LEMMA ExitStep ==
  ASSUME IInv, Exit
  PROVE  IInv'
<1>1. /\ TypeOK /\ pc = "open" /\ n > Len(Args) /\ fds < n
  BY DEF IInv, Exit, Turn
<1>2. /\ input' = input /\ n' = n /\ fds' = fds /\ maps' = maps /\ g' = g /\ out' = out
      /\ pc' = "exit" /\ res' = res /\ err' = err
  BY DEF Exit
<1>3. /\ Args' = Args /\ (IsNm' <=> IsNm)
      /\ \A m : Shown(m)' <=> Shown(m)
      /\ \A m : SaidOf(m)' = SaidOf(m)
  BY <1>2, Frame
<1>4. TypeOK'
  BY <1>1, <1>2, <1>3 DEF TypeOK
<1>5. Turn' /\ NothingSaidYet' /\ GlobalsCurrent'
  <2>1. fds <= n
    BY <1>1, Numbers
  <2> QED
    BY <1>2, <2>1 DEF Turn, NothingSaidYet, GlobalsCurrent
<1>6. ShownInTurn' /\ UsageEnds'
  BY <1>1, <1>2, <1>3 DEF IInv, ShownInTurn, UsageEnds
<1>7. MappingsHeld'
  BY <1>1, <1>2, <1>3 DEF IInv, MappingsHeld
<1>8. StatusSoFar' /\ MissingSaid'
  BY <1>2, <1>3 DEF IInv, StatusSoFar, MissingSaid
<1>9. FailureSaid'
  BY <1>1, <1>2, <1>3 DEF IInv, FailureSaid
<1> QED
  BY <1>4, <1>5, <1>6, <1>7, <1>8, <1>9 DEF IInv

-----------------------------------------------------------------------------
(***************************************************************************)
(* What holds of every run of the two programs.                            *)
(***************************************************************************)
LEMMA InitHolds == Init => IInv
<1> SUFFICES ASSUME Init PROVE IInv
  OBVIOUS
<1>1. /\ input \in Inputs /\ pc = "start" /\ n = 1 /\ fds = 0 /\ maps = {} /\ g = 0 /\ res = 0
      /\ out = <<>> /\ err = <<>>
  BY DEF Init
<1>2. /\ Len(Args) \in Nat /\ MaxFds \in Nat /\ 1 \in 1..(Len(Args) + 1)
      /\ 0 \in 0..Len(Args) /\ 0 \in 0..MaxFds
  BY <1>1, ArgsType, InputsAssumption
<1>3. 1..Len(out) = {} /\ 1..Len(err) = {} /\ 1..(n - 1) = {}
  BY <1>1
<1>4. \A m : SaidOf(m) = {}
  BY <1>1, Blank
<1>5. TypeOK
  BY <1>1, <1>2 DEF TypeOK
<1>6. Turn /\ NothingSaidYet /\ ShownInTurn /\ UsageEnds
  BY <1>1, <1>3 DEF Turn, NothingSaidYet, ShownInTurn, UsageEnds
<1>7. GlobalsCurrent /\ MappingsHeld /\ MissingSaid /\ FailureSaid
  BY <1>1, <1>4 DEF GlobalsCurrent, MappingsHeld, MissingSaid, FailureSaid
<1>8. StatusSoFar
  BY <1>1, <1>3 DEF StatusSoFar
<1> QED
  BY <1>5, <1>6, <1>7, <1>8 DEF IInv

LEMMA NextHolds == IInv /\ [Next]_vars => IInv'
<1> SUFFICES ASSUME IInv, [Next]_vars PROVE IInv'
  OBVIOUS
<1>1. CASE Usage
  BY <1>1, UsageStep
<1>2. CASE Start
  BY <1>2, StartStep
<1>3. CASE OpenFails \/ StatFails \/ MapFails \/ Foreign \/ Malformed
  BY <1>3, AllFailures, FailStep
<1>4. CASE Open
  <2>1. CASE File.dir /\ ~IsNm
    BY <1>4, <2>1, AllFailures, FailStep
  <2>2. CASE ~(File.dir /\ ~IsNm)
    BY <1>4, <2>2, OpenStep
  <2> QED
    BY <2>1, <2>2
<1>5. CASE Map
  BY <1>5, MapStep
<1>6. CASE Show
  BY <1>6, ShowStep
<1>7. CASE Unmap
  <2>1. CASE File.fails = "munmap"
    BY <1>7, <2>1, AllFailures, FailStep
  <2>2. CASE File.fails # "munmap"
    BY <1>7, <2>2, UnmapStep
  <2> QED
    BY <2>1, <2>2
<1>8. CASE Exit
  BY <1>8, ExitStep
<1>9. CASE UNCHANGED vars
  <2>1. /\ input' = input /\ pc' = pc /\ n' = n /\ fds' = fds /\ maps' = maps /\ g' = g
        /\ res' = res /\ out' = out /\ err' = err
    BY <1>9 DEF vars
  <2>2. /\ Args' = Args /\ (IsNm' <=> IsNm) /\ File' = File
        /\ \A m : Shown(m)' <=> Shown(m)
        /\ \A m : SaidOf(m)' = SaidOf(m)
    BY <2>1, Frame
  <2>3. TypeOK' /\ Turn' /\ NothingSaidYet'
    BY <2>1, <2>2 DEF IInv, TypeOK, Turn, NothingSaidYet
  <2>4. ShownInTurn'
    BY <2>1 DEF IInv, ShownInTurn, Shown
  <2>5. UsageEnds' /\ GlobalsCurrent'
    BY <2>1, <2>2 DEF IInv, UsageEnds, GlobalsCurrent
  <2>6. MappingsHeld' /\ StatusSoFar'
    BY <2>1, <2>2 DEF IInv, MappingsHeld, StatusSoFar
  <2>7. MissingSaid' /\ FailureSaid'
    BY <2>1, <2>2 DEF IInv, MissingSaid, FailureSaid
  <2> QED
    BY <2>3, <2>4, <2>5, <2>6, <2>7 DEF IInv
<1> QED
  BY <1>1, <1>2, <1>3, <1>4, <1>5, <1>6, <1>7, <1>8, <1>9 DEF Next, Finished

\* From main to the exit, the state of a file's turn and the record of the files
\* before it agree, which none of the properties below says by itself.
THEOREM DriverInvariant == Spec => []IInv
<1>1. Init => IInv
  BY InitHolds
<1>2. IInv /\ [Next]_vars => IInv'
  BY NextHolds
<1> QED
  BY <1>1, <1>2, PTL DEF Spec

\* The state of either program is well formed, whatever its files come to.
THEOREM DriverTyped == Spec => []TypeOK
<1>1. IInv => TypeOK
  BY DEF IInv
<1> QED
  BY <1>1, DriverInvariant, PTL

\* nm and otool check every bound against the mapping of the file they handle.
THEOREM BoundsAreOfTheFile == Spec => []GlobalsCurrent
<1>1. IInv => GlobalsCurrent
  BY DEF IInv
<1> QED
  BY <1>1, DriverInvariant, PTL

\* Once the last file is handled, the exit status is that of all.
LEMMA StatusAtExit == IInv => ExitStatus
<1> SUFFICES ASSUME IInv, pc = "exit"
             PROVE  res = 0 <=> /\ "usage" \notin SaidOf(1)
                                /\ \A m \in 1..Len(Args) : Shown(m) /\ m \notin maps
  BY DEF ExitStatus
<1>1. CASE "usage" \in SaidOf(1)
  <2>1. PICK q \in 1..Len(err) : err[q][2] = "usage"
    BY <1>1, SaidMember
  <2>2. res = 1
    BY <2>1 DEF IInv, UsageEnds
  <2> QED
    BY <1>1, <2>2
<1>2. CASE "usage" \notin SaidOf(1)
  <2>1. n > Len(Args)
    BY <1>2 DEF IInv, UsageEnds
  <2>2. n \in 1..(Len(Args) + 1) /\ Len(Args) \in Nat
    BY Numbers DEF IInv
  <2>3. n - 1 = Len(Args)
    BY <2>1, <2>2
  <2> QED
    BY <1>2, <2>3 DEF IInv, StatusSoFar
<1> QED
  BY <1>1, <1>2

\* The exit status of multi_args is 0 exactly if every file was shown and unmapped.
THEOREM StatusOfAll == Spec => []ExitStatus
  BY StatusAtExit, DriverInvariant, PTL

\* Only a failing fstat in get_fd and a malformed file of ft_otool go unsaid.
THEOREM FailuresAreSaid == Spec => []FailureSaid
<1>1. IInv => FailureSaid
  BY DEF IInv
<1> QED
  BY <1>1, DriverInvariant, PTL

\* get_fd calls an existing file missing only for want of a descriptor, and
\* that not before as many files were opened as there are descriptors.
THEOREM MissingForWantOfDescriptors == Spec => []MissingSaid
<1>1. IInv => MissingSaid
  BY DEF IInv
<1> QED
  BY <1>1, DriverInvariant, PTL

\* handle_each_arg leaves a file mapped only if it failed once it was mapped.
THEOREM MappedAfterFailure == Spec => []MappingsHeld
<1>1. IInv => MappingsHeld
  BY DEF IInv
<1> QED
  BY <1>1, DriverInvariant, PTL
-----------------------------------------------------------------------------
(***************************************************************************)
(* The output.  It is only appended to, and by one file at a time.         *)
(***************************************************************************)
\* What Separated says of one place of an output o.
SeparatedAt(o, q) ==
  o[q][2] = "contents" =>
    LET m == o[q][1] IN
    /\ \A p \in 1..(q - 1) : o[p][1] < m \/ (o[p][1] = m /\ o[p][2] # "contents")
    /\ Multi \/ ~IsNm => q > 1 /\ o[q - 1] = <<m, "name">>
    /\ Multi /\ IsNm /\ m > 1 => q > 2 /\ o[q - 2] = <<m, "newline">>

\* Appending titles and, at their end, contents keeps what was written apart.
LEMMA SeparatedMore ==
  ASSUME out \in Seq((1..Len(Args)) \X Items), n \in 1..Len(Args),
         \A q \in 1..Len(out) : out[q][1] < n,
         Separated, Args' = Args, IsNm' <=> IsNm,
         NEW x \in Seq({n} \X Items), out' = out \o x,
         \A q \in 1..Len(x) : x[q][2] = "contents" =>
           /\ \A p \in 1..(q - 1) : x[p][2] # "contents"
           /\ Multi \/ ~IsNm => q > 1 /\ x[q - 1] = <<n, "name">>
           /\ Multi /\ IsNm /\ n > 1 => q > 2 /\ x[q - 2] = <<n, "newline">>
  PROVE  Separated'
<1>1. x \in Seq((1..Len(Args)) \X Items)
  <2>1. Len(x) \in Nat /\ \A q \in 1..Len(x) : x[q] \in (1..Len(Args)) \X Items
    OBVIOUS
  <2> QED
    BY <2>1
<1>2. /\ Len(out) \in Nat /\ Len(x) \in Nat /\ Len(out') = Len(out) + Len(x)
      /\ \A q \in 1..Len(out) : out'[q] = out[q]
      /\ \A q \in 1..Len(x) : out'[Len(out) + q] = x[q]
      /\ \A q \in 1..Len(x) : x[q][1] = n
  BY <1>1
<1>3. Multi' <=> Multi
  BY DEF Multi
<1>4. ASSUME NEW q \in 1..Len(out) PROVE SeparatedAt(out', q)
  <2>1. SeparatedAt(out, q)
    BY DEF Separated, SeparatedAt
  <2>2. /\ q \in Nat /\ out'[q] = out[q]
        /\ \A p \in 1..(q - 1) : out'[p] = out[p]
        /\ q > 1 => out'[q - 1] = out[q - 1]
        /\ q > 2 => out'[q - 2] = out[q - 2]
    BY <1>2
  <2> QED
    BY <2>1, <2>2 DEF SeparatedAt
<1>5. ASSUME NEW r \in 1..Len(x) PROVE SeparatedAt(out', Len(out) + r)
  <2> DEFINE q == Len(out) + r
  <2> SUFFICES ASSUME x[r][2] = "contents"
               PROVE  /\ \A p \in 1..(q - 1) : out'[p][1] < n \/ (out'[p][1] = n /\ out'[p][2] # "contents")
                      /\ Multi \/ ~IsNm => q > 1 /\ out'[q - 1] = <<n, "name">>
                      /\ Multi /\ IsNm /\ n > 1 => q > 2 /\ out'[q - 2] = <<n, "newline">>
    BY <1>2 DEF SeparatedAt
  <2>1. ASSUME NEW p \in 1..(q - 1)
        PROVE  out'[p][1] < n \/ (out'[p][1] = n /\ out'[p][2] # "contents")
    <3>1. CASE p <= Len(out)
      BY <1>2, <3>1
    <3>2. CASE p > Len(out)
      <4>1. p - Len(out) \in 1..(r - 1) /\ p = Len(out) + (p - Len(out))
        BY <1>2, <3>2
      <4>2. p - Len(out) \in 1..Len(x)
        BY <1>2, <4>1
      <4>3. out'[p] = x[p - Len(out)]
        BY <1>2, <4>1, <4>2
      <4> QED
        BY <1>2, <4>1, <4>2, <4>3
    <3> QED
      BY <1>2, <3>1, <3>2
  <2>2. ASSUME r > 1 PROVE q > 1 /\ out'[q - 1] = x[r - 1]
    <3>1. r - 1 \in 1..Len(x) /\ q - 1 = Len(out) + (r - 1) /\ q > 1
      BY <1>2, <2>2
    <3> QED
      BY <1>2, <3>1
  <2>3. ASSUME r > 2 PROVE q > 2 /\ out'[q - 2] = x[r - 2]
    <3>1. r - 2 \in 1..Len(x) /\ q - 2 = Len(out) + (r - 2) /\ q > 2
      BY <1>2, <2>3
    <3> QED
      BY <1>2, <3>1
  <2> HIDE DEF q
  <2> QED
    BY <2>1, <2>2, <2>3
<1>6. \A q \in 1..Len(out') : SeparatedAt(out', q)
  <2> TAKE q \in 1..Len(out')
  <2>1. CASE q <= Len(out)
    BY <1>2, <1>4, <2>1
  <2>2. CASE q > Len(out)
    <3>1. q - Len(out) \in 1..Len(x) /\ q = Len(out) + (q - Len(out))
      BY <1>2, <2>2
    <3> QED
      BY <1>5, <3>1
  <2> QED
    BY <1>2, <2>1, <2>2
<1> QED
  BY <1>3, <1>6 DEF Separated, SeparatedAt

LEMMA SeparatedStep == IInv /\ Separated /\ [Next]_vars => Separated'
<1> SUFFICES ASSUME IInv, Separated, [Next]_vars PROVE Separated'
  OBVIOUS
<1>1. input' = input
  BY DEF Next, vars, Usage, Start, OpenFails, StatFails, Open, MapFails, Map, Foreign,
         Malformed, Show, Unmap, Exit, Finished
<1>2. Args' = Args /\ (IsNm' <=> IsNm) /\ (Multi' <=> Multi)
  BY <1>1, Frame DEF Multi
<1>3. CASE Malformed \/ Show
  <2>1. /\ out \in Seq((1..Len(Args)) \X Items) /\ pc = "run" /\ n \in 1..Len(Args)
        /\ \A q \in 1..Len(out) : out[q][1] < n
    <3>1. pc = "run" /\ TypeOK /\ n <= Len(Args)
      BY <1>3 DEF IInv, Malformed, Show, Turn
    <3> QED
      BY <3>1, Numbers DEF IInv, TypeOK, ShownInTurn
  <2> DEFINE nl == <<n, "newline">>
             nm == <<n, "name">>
             co == <<n, "contents">>
  <2>2. /\ nl \in {n} \X Items /\ nm \in {n} \X Items /\ co \in {n} \X Items
        /\ nl[2] # "contents" /\ nm[2] # "contents" /\ co[2] = "contents"
    BY DEF Items
  <2>3. CASE Malformed
    <3> DEFINE x == IF IsNm THEN NewLine ELSE Name
    <3>1. out' = out \o x
      BY <2>3 DEF Malformed
    <3>2. x = <<>> \/ x = <<nl>> \/ x = <<nm>>
      BY DEF NewLine, Name
    <3>3. <<>> \in Seq({n} \X Items) /\ <<nl>> \in Seq({n} \X Items) /\ <<nm>> \in Seq({n} \X Items)
      BY <2>2
    <3>4. \A q \in 1..Len(<<nl>>) : <<nl>>[q][2] # "contents"
      OBVIOUS
    <3>5. \A q \in 1..Len(<<nm>>) : <<nm>>[q][2] # "contents"
      OBVIOUS
    <3> HIDE DEF x, nl, nm, co
    <3>6. x \in Seq({n} \X Items) /\ \A q \in 1..Len(x) : x[q][2] # "contents"
      <4>1. CASE x = <<>>
        BY <3>3, <4>1
      <4>2. CASE x = <<nl>>
        BY <3>3, <3>4, <4>2
      <4>3. CASE x = <<nm>>
        BY <3>3, <3>5, <4>3
      <4> QED
        BY <3>2, <4>1, <4>2, <4>3
    <3> QED
      BY <1>2, <2>1, <3>1, <3>6, SeparatedMore
  <2>4. CASE Show
    <3> DEFINE t == IF IsNm THEN NewLine \o Name ELSE Name
               x == t \o <<co>>
    <3>1. /\ <<>> \in Seq({n} \X Items) /\ <<nl>> \in Seq({n} \X Items)
          /\ <<nm>> \in Seq({n} \X Items) /\ <<co>> \in Seq({n} \X Items)
      BY <2>2
    <3>2. NewLine \in Seq({n} \X Items) /\ Name \in Seq({n} \X Items)
      BY <3>1 DEF NewLine, Name
    <3>3. t \in Seq({n} \X Items)
      BY <3>2
    <3>4. out' = out \o x
      <4>1. out' = out \o t \o <<co>>
        BY <2>4 DEF Show
      <4>2. {n} \X Items \subseteq (1..Len(Args)) \X Items
        BY <2>1
      <4>3. t \in Seq((1..Len(Args)) \X Items) /\ <<co>> \in Seq((1..Len(Args)) \X Items)
        <5> HIDE DEF t, co
        <5> QED
          BY <3>1, <3>3, <4>2
      <4> HIDE DEF t, co
      <4> QED
        BY <2>1, <4>1, <4>3, ConcatAssociative
    <3>5. /\ Multi /\ IsNm /\ n > 1 => Len(t) = 2 /\ t[1] = nl /\ t[2] = nm
          /\ Multi \/ ~IsNm => Len(t) >= 1 /\ t[Len(t)] = nm
          /\ \A q \in 1..Len(t) : t[q] = nl \/ t[q] = nm
      <4>1. CASE Multi /\ IsNm /\ n > 1
        <5>1. t = <<nl>> \o <<nm>>
          BY <4>1 DEF NewLine, Name
        <5>2. Len(<<nl>> \o <<nm>>) = 2 /\ (<<nl>> \o <<nm>>)[1] = nl /\ (<<nl>> \o <<nm>>)[2] = nm
          BY <3>1
        <5> HIDE DEF t
        <5> QED
          BY <4>1, <5>1, <5>2
      <4>2. CASE (Multi \/ ~IsNm) /\ ~(Multi /\ IsNm /\ n > 1)
        <5>1. t = <<nm>> \/ t = <<>> \o <<nm>>
          BY <4>2 DEF NewLine, Name
        <5>2. <<>> \o <<nm>> = <<nm>>
          BY <3>1
        <5> HIDE DEF t
        <5> QED
          BY <4>2, <5>1, <5>2
      <4>3. CASE ~(Multi \/ ~IsNm)
        <5>1. t = <<>> \o <<>>
          BY <4>3 DEF NewLine, Name
        <5>2. <<>> \o <<>> = <<>>
          BY <3>1
        <5> HIDE DEF t
        <5> QED
          BY <4>3, <5>1, <5>2
      <4> QED
        BY <4>1, <4>2, <4>3
    <3> HIDE DEF t
    <3>6. /\ x \in Seq({n} \X Items) /\ Len(t) \in Nat /\ Len(x) = Len(t) + 1 /\ x[Len(x)] = co
          /\ \A q \in 1..Len(t) : x[q] = t[q]
      BY <3>1, <3>3
    <3> HIDE DEF x
    <3>7. ASSUME NEW q \in 1..Len(x), x[q][2] = "contents"
          PROVE  /\ \A p \in 1..(q - 1) : x[p][2] # "contents"
                 /\ Multi \/ ~IsNm => q > 1 /\ x[q - 1] = nm
                 /\ Multi /\ IsNm /\ n > 1 => q > 2 /\ x[q - 2] = nl
      <4>1. \A p \in 1..Len(t) : x[p][2] # "contents"
        BY <2>2, <3>5, <3>6
      <4>2. q = Len(t) + 1
        BY <3>6, <3>7, <4>1
      <4>3. Len(t) > 0 => Len(t) \in 1..Len(t)
        BY <3>6
      <4>4. ASSUME Multi \/ ~IsNm PROVE q > 1 /\ x[q - 1] = nm
        BY <3>5, <3>6, <4>2, <4>3, <4>4
      <4>5. ASSUME Multi /\ IsNm /\ n > 1 PROVE q > 2 /\ x[q - 2] = nl
        <5>1. Len(t) = 2 /\ t[1] = nl
          BY <3>5, <4>5
        <5>2. 1 \in 1..Len(t) /\ q = 3 /\ q - 2 = 1
          BY <4>2, <5>1
        <5> QED
          BY <3>6, <5>1, <5>2
      <4> QED
        BY <4>1, <4>2, <4>4, <4>5
    <3> QED
      BY <1>2, <2>1, <3>4, <3>6, <3>7, SeparatedMore
  <2> QED
    BY <1>3, <2>3, <2>4
<1>4. CASE out' = out
  BY <1>2, <1>4 DEF Separated
<1> QED
  BY <1>3, <1>4 DEF Next, vars, Usage, Start, OpenFails, StatFails, Open, MapFails, Map,
                    Foreign, Unmap, Exit, Finished

\* print_new_line, the name and the contents: the outputs of the files come in the
\* order of the command line, each under its own name, whatever fails in between.
THEOREM OutputsAreSeparated == Spec => []Separated
<1>1. Init => Separated
  BY DEF Init, Separated
<1> QED
  BY <1>1, SeparatedStep, DriverInvariant, PTL DEF Spec

-----------------------------------------------------------------------------
(***************************************************************************)
(* main, and the files a user means.                                       *)
(***************************************************************************)
\* What set_flags_nm leaves to the loop over the files is what the user means; a
\* line that is refused goes no further than the usage.
HandedOver ==
  /\ pc = "main" => input = [prog |-> input.prog, args |-> line, legal |-> TRUE]
  /\ pc # "main" =>
       \/ input = Intended(input.prog, line)
       \/ /\ input.prog = "ft_nm" /\ ~input.legal /\ ~Intended("ft_nm", line).legal
          /\ pc \in {"start", "exit"}

MainIInv == ReadIInv /\ input.prog \in Programs /\ HandedOver

-----------------------------------------------------------------------------
LEMMA MainInitially == MainInit => MainIInv
<1> SUFFICES ASSUME MainInit PROVE MainIInv
  OBVIOUS
<1>1. ReadIInv
  BY FlagsInitially, ReadInitially, SoFarInitially DEF MainInit, ReadIInv
<1>2. PICK p \in Programs : input = [prog |-> p, args |-> line, legal |-> TRUE]
  BY DEF MainInit
<1>3. input.prog = p /\ pc = "main"
  BY <1>2 DEF MainInit
<1> QED
  BY <1>1, <1>2, <1>3 DEF MainIInv, HandedOver

\* set_flags_nm has returned, or was never called.
LEMMA HandOverStep ==
  ASSUME MainIInv, HandOver
  PROVE  /\ input'.prog = input.prog /\ line' = line /\ pc' = "start"
         /\ \/ input' = Intended(input.prog, line)
            \/ /\ input.prog = "ft_nm" /\ ~input'.legal /\ ~Intended("ft_nm", line).legal
<1>0. /\ pc = "main" /\ pc' = "start" /\ line' = line /\ input.prog \in Programs
      /\ input = [prog |-> input.prog, args |-> line, legal |-> TRUE]
  BY DEF HandOver, MainIInv, HandedOver, flagsVars
<1>1. CASE ~IsNm
  <2>1. input' = input /\ input.prog = "ft_otool"
    BY <1>0, <1>1 DEF HandOver, IsNm, Programs
  <2>2. Intended(input.prog, line) = [prog |-> input.prog, args |-> line, legal |-> TRUE]
    BY <2>1 DEF Intended
  <2> QED
    BY <1>0, <2>1, <2>2
<1>2. CASE IsNm
  <2>1. /\ status # "reading" /\ input.prog = "ft_nm"
        /\ input' = [input EXCEPT !.args = Forward, !.legal = (status # "usage")]
    BY <1>2 DEF HandOver, IsNm
  <2>2. input' = [prog |-> "ft_nm", args |-> SubSeq(line, ct, Len(line)), legal |-> (status # "usage")]
    BY <1>0, <2>1 DEF Forward
  <2>3. status \in {"usage", "ready"} /\ FlagsTypeOK /\ ReadSoFar
    BY <2>1 DEF MainIInv, ReadIInv, FlagsIInv, FlagsTypeOK
  <2>4. CASE status = "ready"
    <3>1. /\ Cardinality(Options(line)) = ct - 1 /\ ct \in Nat
          /\ Given(line) \subseteq FlagLetters
      BY <2>3, <2>4, OptionsPassed, ReadyIsLegal, Positions DEF ReadSoFar
    <3>2. Cardinality(Options(line)) + 1 = ct
      BY <3>1
    <3>3. Intended("ft_nm", line) =
            [prog |-> "ft_nm", args |-> SubSeq(line, ct, Len(line)), legal |-> TRUE]
      BY <3>1, <3>2 DEF Intended
    <3> QED
      BY <1>0, <2>1, <2>2, <2>4, <3>3
  <2>5. CASE status = "usage"
    <3>1. ~Intended("ft_nm", line).legal
      BY <2>3, <2>5, UsageIsIllegal DEF ReadSoFar, Intended
    <3>2. ~input'.legal /\ input'.prog = "ft_nm"
      BY <2>2, <2>5
    <3> QED
      BY <1>0, <2>1, <3>1, <3>2
  <2> QED
    BY <2>3, <2>4, <2>5
<1> QED
  BY <1>1, <1>2

\* The loop over the files never changes the line it was handed, and does not go
\* back to reading it.
LEMMA FilesKeep ==
  ASSUME Next, pc # "main"
  PROVE  input' = input /\ (pc' # "main")
<1>1. CASE Usage \/ Start \/ Exit \/ Finished
  BY <1>1 DEF Usage, Start, Exit, Finished, vars
<1>2. CASE OpenFails \/ StatFails \/ Open
  BY <1>2 DEF OpenFails, StatFails, Open, Fail
<1>3. CASE MapFails \/ Map \/ Foreign
  BY <1>3 DEF MapFails, Map, Foreign, Fail
<1>4. CASE Malformed \/ Show
  BY <1>4 DEF Malformed, Show, Fail
<1>5. CASE Unmap
  BY <1>5 DEF Unmap, Fail, Succeed
<1> QED
  BY <1>1, <1>2, <1>3, <1>4, <1>5 DEF Next

\* What the loop over the files does with a line that is refused.
LEMMA Refused ==
  ASSUME Next, pc \in {"start", "exit"}, input.prog = "ft_nm", ~input.legal
  PROVE  pc' = "exit" /\ (Usage \/ (pc = "exit" /\ UNCHANGED vars))
<1>1. IsNm
  BY DEF IsNm
<1> QED
  BY <1>1 DEF Next, Usage, Start, OpenFails, StatFails, Open, Opening, MapFails, Map, Foreign,
              Malformed, Show, Unmap, Exit, Finished, vars

LEMMA MainStep == MainIInv /\ [MainNext]_mainVars => MainIInv'
<1> SUFFICES ASSUME MainIInv, [MainNext]_mainVars PROVE MainIInv'
  OBVIOUS
<1>1. CASE SetFlags
  <2>1. FlagsNext /\ UNCHANGED vars /\ line' = line /\ pc = "main"
    BY <1>1 DEF SetFlags, FlagsNext, Option, Ready, Flag, Illegal, Close, FlagsRead, flagsVars
  <2>2. ReadIInv'
    BY <2>1, ReadInvariance DEF MainIInv
  <2> QED
    BY <2>1, <2>2 DEF MainIInv, HandedOver, vars
<1>2. CASE HandOver
  <2>1. UNCHANGED flagsVars
    BY <1>2 DEF HandOver, flagsVars
  <2>2. ReadIInv'
    BY <2>1, ReadInvariance DEF MainIInv
  <2>3. (input.prog)' = input.prog
    BY <1>2, HandOverStep
  <2> QED
    BY <1>2, <2>2, <2>3, HandOverStep DEF MainIInv, HandedOver
<1>3. CASE Files
  <2>1. Next /\ pc # "main" /\ UNCHANGED flagsVars /\ line' = line
    BY <1>3 DEF Files, flagsVars
  <2>2. ReadIInv'
    BY <2>1, ReadInvariance DEF MainIInv
  <2>3. input' = input /\ pc' # "main"
    BY <2>1, FilesKeep
  <2>4. CASE input = Intended(input.prog, line)
    BY <2>1, <2>2, <2>3, <2>4 DEF MainIInv, HandedOver
  <2>5. CASE input # Intended(input.prog, line)
    <3>1. pc \in {"start", "exit"} /\ input.prog = "ft_nm" /\ ~input.legal
      BY <2>1, <2>5 DEF MainIInv, HandedOver
    <3>2. pc' = "exit"
      BY <2>1, <3>1, Refused
    <3> QED
      BY <2>1, <2>2, <2>3, <2>5, <3>1, <3>2 DEF MainIInv, HandedOver
  <2> QED
    BY <2>4, <2>5
<1>4. CASE UNCHANGED mainVars
  <2>1. UNCHANGED flagsVars /\ UNCHANGED vars /\ line' = line
    BY <1>4 DEF mainVars, flagsVars
  <2>2. ReadIInv'
    BY <2>1, ReadInvariance DEF MainIInv
  <2> QED
    BY <2>1, <2>2 DEF MainIInv, HandedOver, vars
<1> QED
  BY <1>1, <1>2, <1>3, <1>4 DEF MainNext

-----------------------------------------------------------------------------
\* The loop over the files is entered as Driver starts.
LEMMA WholeInitially == MainInit => Whole!Init
<1> SUFFICES ASSUME MainInit PROVE Whole!Init
  OBVIOUS
<1>1. PICK p \in Programs : input = [prog |-> p, args |-> line, legal |-> TRUE]
  BY DEF MainInit
<1>2. input.prog = p /\ line \in Lines
  BY <1>1 DEF MainInit, FlagsInit
<1>3. Intended(input.prog, line) \in Inputs
  BY <1>2, IntendedAssumption
<1> QED
  BY <1>3 DEF MainInit, Whole!Init

\* With the line a user means, each of its steps is a step of Driver.
LEMMA FilesAsIntended ==
  ASSUME Next, pc # "main", line' = line, input = Intended(input.prog, line)
  PROVE  Whole!Next
<1>0. /\ input' = input /\ Intended(input.prog, line)' = Intended(input.prog, line)
      /\ (IF pc = "main" THEN "start" ELSE pc) = pc
      /\ (IF pc = "main" THEN "start" ELSE pc)' = pc'
  BY FilesKeep
<1>a. /\ IsNm = Whole!IsNm /\ Args = Whole!Args /\ File = Whole!File /\ Multi = Whole!Multi
      /\ NewLine = Whole!NewLine /\ Name = Whole!Name
  BY DEF IsNm, Args, File, Multi, NewLine, Name,
         Whole!IsNm, Whole!Args, Whole!File, Whole!Multi, Whole!NewLine, Whole!Name
<1>1. CASE Usage
  BY <1>0, <1>a, <1>1 DEF Usage, Whole!Usage, Said, Whole!Said, Whole!Next
<1>2. CASE Start
  BY <1>0, <1>a, <1>2 DEF Start, Whole!Start, Said, Whole!Said, Whole!Next
<1>3. CASE OpenFails
  BY <1>0, <1>a, <1>3 DEF OpenFails, Whole!OpenFails, Opening, Whole!Opening, Said, Whole!Said,
                          Fail, Whole!Fail, Whole!Next
<1>4. CASE StatFails
  BY <1>0, <1>a, <1>4 DEF StatFails, Whole!StatFails, Opening, Whole!Opening, Fail, Whole!Fail,
                          Whole!Next
<1>5. CASE Open
  BY <1>0, <1>a, <1>5 DEF Open, Whole!Open, Opening, Whole!Opening, Said, Whole!Said,
                          Fail, Whole!Fail, Whole!Next
<1>6. CASE MapFails
  BY <1>0, <1>a, <1>6 DEF MapFails, Whole!MapFails, Said, Whole!Said, Fail, Whole!Fail, Whole!Next
<1>7. CASE Map
  BY <1>0, <1>a, <1>7 DEF Map, Whole!Map, Whole!Next
<1>8. CASE Foreign
  BY <1>0, <1>a, <1>8 DEF Foreign, Whole!Foreign, Said, Whole!Said, Fail, Whole!Fail, Whole!Next
<1>9. CASE Malformed
  BY <1>0, <1>a, <1>9 DEF Malformed, Whole!Malformed, Said, Whole!Said, Fail, Whole!Fail, Whole!Next
<1>10. CASE Show
  BY <1>0, <1>a, <1>10 DEF Show, Whole!Show, Whole!Next
<1>11. CASE Unmap
  BY <1>0, <1>a, <1>11 DEF Unmap, Whole!Unmap, Said, Whole!Said, Fail, Whole!Fail,
                           Succeed, Whole!Succeed, Whole!Next
<1>12. CASE Exit
  BY <1>0, <1>a, <1>12 DEF Exit, Whole!Exit, Whole!Next
<1>13. CASE Finished
  BY <1>0, <1>a, <1>13 DEF Finished, Whole!Finished, vars, Whole!vars, Whole!Next
<1> QED
  BY <1>1, <1>2, <1>3, <1>4, <1>5, <1>6, <1>7, <1>8, <1>9, <1>10, <1>11, <1>12, <1>13 DEF Next

LEMMA WholeStep == MainIInv /\ [MainNext]_mainVars => [Whole!Next]_(Whole!vars)
<1> SUFFICES ASSUME MainIInv, [MainNext]_mainVars PROVE Whole!Next \/ UNCHANGED Whole!vars
  OBVIOUS
<1>1. CASE SetFlags
  <2>1. UNCHANGED vars /\ line' = line
    BY <1>1 DEF SetFlags, FlagsNext, Option, Ready, Flag, Illegal, Close, FlagsRead, flagsVars
  <2> QED
    BY <2>1 DEF vars, Whole!vars
<1>2. CASE HandOver
  <2>1. (input.prog)' = input.prog /\ line' = line /\ pc = "main" /\ pc' = "start"
    BY <1>2, HandOverStep DEF HandOver
  <2>2. UNCHANGED <<n, fds, maps, g, res, out, err>>
    BY <1>2 DEF HandOver
  <2> QED
    BY <2>1, <2>2 DEF Whole!vars
<1>3. CASE Files
  <2>1. Next /\ pc # "main" /\ line' = line
    BY <1>3 DEF Files, flagsVars
  <2>2. CASE input = Intended(input.prog, line)
    BY <2>1, <2>2, FilesAsIntended
  <2>3. CASE input # Intended(input.prog, line)
    <3>1. /\ pc \in {"start", "exit"} /\ input.prog = "ft_nm" /\ ~input.legal
          /\ ~Intended(input.prog, line).legal
      BY <2>1, <2>3 DEF MainIInv, HandedOver
    <3>2. /\ input' = input /\ pc' = "exit"
          /\ Usage \/ (pc = "exit" /\ UNCHANGED vars)
      BY <2>1, <3>1, Refused, FilesKeep
    <3>3. CASE Usage
      <4>1. Whole!IsNm
        BY <3>1 DEF Whole!IsNm, Intended
      <4> QED
        BY <2>1, <3>1, <3>2, <3>3, <4>1 DEF Usage, Said, Whole!Usage, Whole!Said, Whole!Next
    <3>4. CASE pc = "exit" /\ UNCHANGED vars
      BY <2>1, <3>4 DEF vars, Whole!vars
    <3> QED
      BY <3>2, <3>3, <3>4
  <2> QED
    BY <2>2, <2>3
<1>4. CASE UNCHANGED mainVars
  BY <1>4 DEF mainVars, flagsVars, vars, Whole!vars
<1> QED
  BY <1>1, <1>2, <1>3, <1>4 DEF MainNext

LEMMA MainInvariant == MainSpec => []MainIInv
  BY MainInitially, MainStep, PTL DEF MainSpec

\* Whatever options come before the files, run together or apart, repeated or not,
\* and whatever the files are, a run of main is a run of the loop over the files
\* a user means: ac - forward and av + forward are right for every command line.
THEOREM MainIsDriver == MainSpec => RefinesDriver
<1>1. MainInit => Whole!Init
  BY WholeInitially
<1>2. MainIInv /\ [MainNext]_mainVars => [Whole!Next]_(Whole!vars)
  BY WholeStep
<1> QED
  BY <1>1, <1>2, MainInvariant, PTL DEF MainSpec, RefinesDriver, Whole!Spec

\* The ten bytes of flags always end with a zero while main reads its line.
THEOREM FlagsFit == MainSpec => []Terminated
<1>1. MainIInv => Terminated
  BY AtMostSix, LinesAssumption DEF MainIInv, ReadIInv, FlagsIInv, Terminated, FlagsTypeOK
<1> QED
  BY <1>1, MainInvariant, PTL

\* Within a run of main, too, set_flags_nm answers once, and what was given.
THEOREM MainReads == MainSpec => ReadAsGiven
<1>1. MainInit => Reading!Init
  BY DEF MainInit, FlagsInit, Reading!Init
<1>2. MainIInv /\ [MainNext]_mainVars =>
        [Reading!Answer]_<<line, status # "reading",
           CASE status = "reading" -> <<>>
             [] status = "usage"   -> [forward |-> -1]
             [] status = "ready"   -> [forward |-> ct, flags |-> flags]>>
  <2> SUFFICES ASSUME MainIInv, [MainNext]_mainVars
               PROVE  Reading!Answer \/ UNCHANGED <<line, status # "reading",
                        CASE status = "reading" -> <<>>
                          [] status = "usage"   -> [forward |-> -1]
                          [] status = "ready"   -> [forward |-> ct, flags |-> flags]>>
    OBVIOUS
  <2>1. ReadIInv
    BY DEF MainIInv
  <2>2. [FlagsNext]_flagsVars
    BY DEF MainNext, SetFlags, HandOver, Files, mainVars, flagsVars
  <2> QED
    BY <2>1, <2>2, AnswerIsRight
<1> QED
  BY <1>1, <1>2, MainInvariant, PTL DEF MainSpec, ReadAsGiven, Reading!Spec

-----------------------------------------------------------------------------
(***************************************************************************)
(* What is proved of the loop over the files holds of whole runs: until    *)
(* the loop is entered, and if the line is refused, no file is touched;    *)
(* otherwise the loop runs with the line a user means.                     *)
(***************************************************************************)
Untouched ==
  /\ n = 1 /\ maps = {} /\ out = <<>>
  /\ \/ pc \in {"main", "start"} /\ res = 0 /\ err = <<>>
     \/ pc = "exit" /\ res = 1 /\ err = <<<<1, "usage">>>>

LoopIInv ==
  \/ pc = "main" /\ Untouched /\ fds = 0 /\ g = 0
  \/ pc # "main" /\ Untouched /\ input # Intended(input.prog, line)
  \/ pc # "main" /\ IInv /\ Separated /\ input = Intended(input.prog, line)

LEMMA InitHoldsNext == Init' => IInv'
  BY InitHolds, PTL

LEMMA LoopInitially == MainInit => LoopIInv
  BY DEF MainInit, LoopIInv, Untouched

LEMMA LoopStep == MainIInv /\ LoopIInv /\ [MainNext]_mainVars => LoopIInv'
<1> SUFFICES ASSUME MainIInv, LoopIInv, [MainNext]_mainVars PROVE LoopIInv'
  OBVIOUS
<1>1. CASE SetFlags
  <2>1. UNCHANGED vars /\ pc = "main"
    BY <1>1 DEF SetFlags
  <2> QED
    BY <2>1 DEF LoopIInv, Untouched, vars
<1>2. CASE HandOver
  <2>1. /\ pc = "main" /\ pc' = "start" /\ Untouched /\ fds = 0 /\ g = 0
        /\ UNCHANGED <<n, fds, maps, g, res, out, err>>
    BY <1>2 DEF HandOver, LoopIInv
  <2>2. /\ Untouched' /\ n' = 1 /\ fds' = 0 /\ maps' = {} /\ g' = 0 /\ res' = 0
        /\ out' = <<>> /\ err' = <<>>
    BY <2>1 DEF Untouched
  <2>3. CASE input' # Intended(input.prog, line)'
    BY <2>1, <2>2, <2>3 DEF LoopIInv
  <2>4. CASE input' = Intended(input.prog, line)'
    <3>1. line' = line /\ line \in Lines /\ (input.prog)' = input.prog /\ input.prog \in Programs
      BY <1>2, HandOverStep DEF HandOver, flagsVars, MainIInv, ReadIInv, FlagsIInv, FlagsTypeOK
    <3>2. Intended(input.prog, line) \in Inputs
      BY <3>1, IntendedAssumption
    <3>3. Intended(input.prog, line)' = Intended(input.prog, line)
      BY <3>1 DEF Intended, Options, Given
    <3>4. Init'
      BY <2>1, <2>2, <2>4, <3>2, <3>3 DEF Init
    <3>5. Separated'
      BY <2>2 DEF Separated
    <3> QED
      BY <2>1, <2>4, <3>4, <3>5, InitHoldsNext DEF LoopIInv
  <2> QED
    BY <2>3, <2>4
<1>3. CASE Files
  <2>1. Next /\ pc # "main" /\ line' = line
    BY <1>3 DEF Files, flagsVars
  <2>2. input' = input /\ pc' # "main"
    BY <2>1, FilesKeep
  <2>3. Intended(input.prog, line)' = Intended(input.prog, line)
    BY <2>1, <2>2 DEF Intended, Options, Given
  <2>4. CASE input # Intended(input.prog, line)
    <3>1. Untouched /\ pc \in {"start", "exit"} /\ input.prog = "ft_nm" /\ ~input.legal
      BY <2>1, <2>4 DEF MainIInv, HandedOver, LoopIInv
    <3>2. Usage \/ UNCHANGED vars
      BY <2>1, <3>1, Refused
    <3>3. CASE Usage
      <4>1. n = 1 /\ err = <<>> /\ maps = {} /\ out = <<>>
        BY <3>1, <3>3 DEF Untouched, Usage
      <4>2. err' = Append(<<>>, <<1, "usage">>)
        BY <3>3, <4>1 DEF Usage, Said
      <4>3. err' = <<<<1, "usage">>>>
        BY <4>2
      <4>4. Untouched'
        BY <3>3, <4>1, <4>3 DEF Untouched, Usage
      <4> QED
        BY <2>2, <2>3, <2>4, <4>4 DEF LoopIInv
    <3>4. CASE UNCHANGED vars
      BY <2>2, <2>3, <2>4, <3>1, <3>4 DEF LoopIInv, Untouched, vars
    <3> QED
      BY <3>2, <3>3, <3>4
  <2>5. CASE input = Intended(input.prog, line)
    <3>1. IInv /\ Separated
      BY <2>1, <2>5 DEF LoopIInv
    <3>2. IInv' /\ Separated'
      BY <2>1, <3>1, NextHolds, SeparatedStep
    <3> QED
      BY <2>2, <2>3, <2>5, <3>2 DEF LoopIInv
  <2> QED
    BY <2>4, <2>5
<1>4. CASE UNCHANGED mainVars
  <2>1. UNCHANGED vars /\ line' = line
    BY <1>4 DEF mainVars, flagsVars
  <2>2. Intended(input.prog, line)' = Intended(input.prog, line)
    BY <2>1 DEF vars, Intended, Options, Given
  <2>3. CASE pc = "main" \/ input # Intended(input.prog, line)
    BY <2>1, <2>2, <2>3 DEF LoopIInv, Untouched, vars
  <2>4. CASE pc # "main" /\ input = Intended(input.prog, line)
    <3>1. IInv /\ Separated
      BY <2>4 DEF LoopIInv
    <3>2. IInv' /\ Separated'
      BY <2>1, <3>1, NextHolds, SeparatedStep
    <3> QED
      BY <2>1, <2>2, <2>4, <3>2 DEF LoopIInv, vars
  <2> QED
    BY <2>3, <2>4
<1> QED
  BY <1>1, <1>2, <1>3, <1>4 DEF MainNext

LEMMA LoopAlways == MainSpec => [](MainIInv /\ LoopIInv)
  BY MainInvariant, LoopInitially, LoopStep, PTL DEF MainSpec

\* Where no file was touched, nothing was said but the usage, and nothing shown.
LEMMA UntouchedSaid ==
  ASSUME Untouched
  PROVE  /\ maps = {} /\ pc \notin {"run", "unmap"}
         /\ 1..Len(out) = {} /\ 1..(n - 1) = {}
         /\ \A m : "no such file" \notin SaidOf(m)
         /\ pc = "exit" => res # 0 /\ "usage" \in SaidOf(1)
<1>1. /\ maps = {} /\ pc \notin {"run", "unmap"}
      /\ 1..Len(out) = {} /\ 1..(n - 1) = {}
      /\ pc = "exit" => res # 0
  <2>1. n = 1 /\ Len(out) = 0
    BY DEF Untouched
  <2>2. \A m \in Int : ~(1 <= m /\ m <= 0)
    OBVIOUS
  <2>3. 1..Len(out) = {} /\ 1..(n - 1) = {}
    BY <2>1, <2>2
  <2> QED
    BY <2>3 DEF Untouched
<1>2. CASE err = <<>>
  BY <1>1, <1>2 DEF Untouched, SaidOf
<1>3. CASE err = <<<<1, "usage">>>>
  <2>1. Len(err) = 1 /\ err[1][1] = 1 /\ err[1][2] = "usage"
    BY <1>3
  <2>a. \A q \in 1..1 : q = 1
    OBVIOUS
  <2>2. \A m, w : w \in SaidOf(m) <=> \E q \in 1..Len(err) : err[q][1] = m /\ err[q][2] = w
    BY SaidMember
  <2>3. "usage" \in SaidOf(1)
    BY <2>1, <2>2
  <2>4. \A m : "no such file" \notin SaidOf(m)
    <3> SUFFICES ASSUME NEW m, "no such file" \in SaidOf(m) PROVE FALSE
      OBVIOUS
    <3>1. PICK q \in 1..Len(err) : err[q][2] = "no such file"
      BY <2>2
    <3>2. q = 1
      BY <2>1, <2>a, <3>1
    <3> QED
      BY <2>1, <3>1, <3>2
  <2> QED
    BY <1>1, <2>3, <2>4
<1> QED
  BY <1>2, <1>3 DEF Untouched

\* In a run of main: a file is handled only with its own bounds, the exit status is
\* 0 exactly if all were shown, a failure is said but for the named exceptions, a
\* file is called missing only if it is or for want of descriptors, only one that
\* failed stays mapped, and contents come in the order of the line, each under its
\* own name; for any command line and any files.
THEOREM MainRuns ==
  MainSpec => [](/\ GlobalsCurrent /\ ExitStatus /\ FailureSaid
                 /\ MissingSaid /\ MappingsHeld /\ Separated)
<1>1. Untouched => /\ GlobalsCurrent /\ ExitStatus /\ FailureSaid
                   /\ MissingSaid /\ MappingsHeld /\ Separated
  <2> SUFFICES ASSUME Untouched
               PROVE  /\ GlobalsCurrent /\ ExitStatus /\ FailureSaid
                      /\ MissingSaid /\ MappingsHeld /\ Separated
    OBVIOUS
  <2>1. GlobalsCurrent /\ ExitStatus
    BY UntouchedSaid DEF GlobalsCurrent, ExitStatus
  <2>2. FailureSaid
    BY UntouchedSaid DEF FailureSaid
  <2>3. MissingSaid /\ MappingsHeld
    BY UntouchedSaid DEF MissingSaid, MappingsHeld
  <2>4. Separated
    BY UntouchedSaid DEF Separated
  <2> QED
    BY <2>1, <2>2, <2>3, <2>4
<1>2. IInv => GlobalsCurrent /\ ExitStatus /\ FailureSaid /\ MissingSaid /\ MappingsHeld
  BY StatusAtExit DEF IInv
<1>3. LoopIInv => /\ GlobalsCurrent /\ ExitStatus /\ FailureSaid
                  /\ MissingSaid /\ MappingsHeld /\ Separated
  BY <1>1, <1>2 DEF LoopIInv
<1> QED
  BY <1>3, LoopAlways, PTL

\* And of the files a user means by the line: the same, whatever part of it
\* set_flags_nm takes for options.
THEOREM WholeRuns ==
  MainSpec => [](/\ Whole!GlobalsCurrent /\ Whole!ExitStatus /\ Whole!FailureSaid
                 /\ Whole!MissingSaid /\ Whole!MappingsHeld /\ Whole!Separated)
<1>1. Untouched => /\ Whole!GlobalsCurrent /\ Whole!ExitStatus /\ Whole!FailureSaid
                   /\ Whole!MissingSaid /\ Whole!MappingsHeld /\ Whole!Separated
  <2> SUFFICES ASSUME Untouched
               PROVE  /\ Whole!GlobalsCurrent /\ Whole!ExitStatus /\ Whole!FailureSaid
                      /\ Whole!MissingSaid /\ Whole!MappingsHeld /\ Whole!Separated
    OBVIOUS
  <2>1. /\ \A m : Whole!SaidOf(m) = SaidOf(m)
        /\ (IF pc = "main" THEN "start" ELSE pc) \notin {"run", "unmap"}
        /\ (IF pc = "main" THEN "start" ELSE pc) = "exit" => pc = "exit"
    BY UntouchedSaid DEF SaidOf, Whole!SaidOf
  <2>2. Whole!GlobalsCurrent /\ Whole!ExitStatus
    BY <2>1, UntouchedSaid DEF Whole!GlobalsCurrent, Whole!ExitStatus
  <2>3. Whole!FailureSaid
    BY <2>1, UntouchedSaid DEF Whole!FailureSaid
  <2>4. Whole!MissingSaid /\ Whole!MappingsHeld
    BY <2>1, UntouchedSaid DEF Whole!MissingSaid, Whole!MappingsHeld
  <2>5. Whole!Separated
    BY <2>1, UntouchedSaid DEF Whole!Separated
  <2> QED
    BY <2>2, <2>3, <2>4, <2>5
<1>2. ASSUME pc # "main", input = Intended(input.prog, line),
             GlobalsCurrent, ExitStatus, FailureSaid, MissingSaid, MappingsHeld, Separated
      PROVE  /\ Whole!GlobalsCurrent /\ Whole!ExitStatus /\ Whole!FailureSaid
             /\ Whole!MissingSaid /\ Whole!MappingsHeld /\ Whole!Separated
  <2>1. /\ \A m : Whole!SaidOf(m) = SaidOf(m)
        /\ \A m : Whole!Shown(m) <=> Shown(m)
        /\ (IF pc = "main" THEN "start" ELSE pc) = pc
        /\ Args = Whole!Args /\ (IsNm <=> Whole!IsNm)
    BY <1>2 DEF SaidOf, Whole!SaidOf, Shown, Whole!Shown, Args, Whole!Args, IsNm, Whole!IsNm
  <2>2. Multi <=> Whole!Multi
    BY <2>1 DEF Multi, Whole!Multi
  <2>3. Whole!GlobalsCurrent /\ Whole!ExitStatus
    BY <1>2, <2>1 DEF GlobalsCurrent, Whole!GlobalsCurrent, ExitStatus, Whole!ExitStatus
  <2>4. Whole!FailureSaid
    BY <1>2, <2>1 DEF FailureSaid, Whole!FailureSaid
  <2>5. Whole!MissingSaid /\ Whole!MappingsHeld
    BY <1>2, <2>1 DEF MissingSaid, Whole!MissingSaid, MappingsHeld, Whole!MappingsHeld
  <2>6. Whole!Separated
    BY <1>2, <2>1, <2>2 DEF Separated, Whole!Separated
  <2> QED
    BY <2>3, <2>4, <2>5, <2>6
<1>3. IInv => GlobalsCurrent /\ ExitStatus /\ FailureSaid /\ MissingSaid /\ MappingsHeld
  BY StatusAtExit DEF IInv
<1>4. LoopIInv => /\ Whole!GlobalsCurrent /\ Whole!ExitStatus /\ Whole!FailureSaid
                  /\ Whole!MissingSaid /\ Whole!MappingsHeld /\ Whole!Separated
  BY <1>1, <1>2, <1>3 DEF LoopIInv
<1> QED
  BY <1>4, LoopAlways, PTL
=============================================================================
