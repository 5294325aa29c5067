-------------------------------- MODULE Main --------------------------------
(***************************************************************************)
(* A run of ft_nm or ft_otool from its command line to its exit status:    *)
(* main of ft_nm has set_flags_nm read the options (NmFlags) and hands     *)
(* what is left over to the loop over the files (Driver), which main of    *)
(* ft_otool gives the whole line.  What it promises is Driver again, with  *)
(* the command line as a user reads it.                                    *)
(***************************************************************************)
EXTENDS NmFlags, Driver

\* How a user reads a line: options up to the first argument that is none, and
\* the files behind them, options or not.
Intended(p, l) ==
  IF p = "ft_nm"
  THEN [prog |-> p, args |-> SubSeq(l, Cardinality(Options(l)) + 1, Len(l)),
        legal |-> Given(l) \subseteq FlagLetters]
  ELSE [prog |-> p, args |-> l, legal |-> TRUE]

Programs == {"ft_nm", "ft_otool"}

ASSUME IntendedAssumption ==
  {Intended(p, l) : p \in Programs, l \in Lines} \subseteq Inputs

-----------------------------------------------------------------------------
mainVars == <<flagsVars, vars>>

\* main is entered; until it calls the loop over the files, input is argv.
MainInit ==
  /\ FlagsInit
  /\ \E p \in Programs : input = [prog |-> p, args |-> line, legal |-> TRUE]
  /\ pc = "main" /\ n = 1
  /\ fds = 0 /\ maps = {} /\ g = 0 /\ res = 0
  /\ out = <<>> /\ err = <<>>

\* Mutant: av is not moved.
ForwardNot == line

\* av + forward, ac - forward.
Forward == SubSeq(line, ct, Len(line))

SetFlags ==
  /\ pc = "main" /\ IsNm
  /\ FlagsNext
  /\ UNCHANGED vars

\* set_flags_nm has returned.
HandOver ==
  /\ pc = "main"
  /\ IF IsNm
     THEN /\ status # "reading"
          /\ input' = [input EXCEPT !.args = Forward, !.legal = (status # "usage")]
     ELSE input' = input
  /\ pc' = "start"
  /\ UNCHANGED <<flagsVars, n, fds, maps, g, res, out, err>>

Files == pc # "main" /\ Next /\ UNCHANGED flagsVars

MainNext == SetFlags \/ HandOver \/ Files

MainSpec == MainInit /\ [][MainNext]_mainVars /\ WF_mainVars(MainNext)

-----------------------------------------------------------------------------
\* For the loop over the files nothing happens until the options are read.
Whole == INSTANCE Driver WITH
  input <- Intended(input.prog, line),
  pc    <- IF pc = "main" THEN "start" ELSE pc

\* Whatever options come before the files, run together or apart, repeated or
\* not, the program does what the loop over the files does for the files a user
\* means, and refuses what a user may not say, with nothing opened before.
RefinesDriver == Whole!Spec

\* main returns, whatever the options and the files are.
Ends == <>(pc = "exit")
=============================================================================
