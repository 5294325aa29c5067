------------------------------- MODULE Driver -------------------------------
(***************************************************************************)
(* The main functions of ft_nm and ft_otool: the files of the command line *)
(* are opened, mapped, handled and unmapped one after the other, and a     *)
(* failure of one does not keep the next from being handled.  What is in a *)
(* file, and which system call fails on it, is part of the input; what     *)
(* handling it does is the matter of Slices, NmObject and Otool.           *)
(***************************************************************************)
EXTENDS Integers, Sequences, FiniteSets

CONSTANTS
  Kind,     \* the files there are: what a name stands for
  Inputs,   \* the command lines: [prog, args, legal]
  Default,  \* a.out
  MaxFds    \* descriptors the process may have

(***************************************************************************)
(* open is what open does; fails names the system call that fails, if one  *)
(* does; holds is what handling the file comes to.                         *)
(***************************************************************************)
Kinds == [open  : {"ok", "EACCES", "ENOENT"}, dir : BOOLEAN,
          fails : {"nothing", "fstat in get_fd", "fstat", "mmap", "munmap"},
          holds : {"object", "malformed", "foreign"}]

ASSUME InputsAssumption ==
  /\ MaxFds \in Nat
  /\ \A f \in DOMAIN Kind : Kind[f] \in Kinds /\ (Kind[f].dir => Kind[f].fails = "mmap")
  /\ Default \in DOMAIN Kind
  /\ \A c \in Inputs : /\ c.prog \in {"ft_nm", "ft_otool"}
                       /\ c.args \in Seq(DOMAIN Kind)
                       /\ c.legal \in BOOLEAN   \* set_flags_nm accepts the flags

VARIABLES
  input,
  pc,
  n,         \* the argument being handled
  fds,       \* descriptors open
  maps,      \* the arguments whose mappings exist
  g,         \* the argument whose mapping g_begin and g_map_size describe
  res,       \* the exit status so far
  out, err   \* what was written, each item with its argument

vars == <<input, pc, n, fds, maps, g, res, out, err>>

IsNm == input.prog = "ft_nm"

\* one_arg: ft_nm without a file lists a.out.
Args  == IF IsNm /\ input.args = <<>> THEN <<Default>> ELSE input.args
File  == Kind[Args[n]]
Multi == Len(Args) > 1

Said(what) == err' = Append(err, <<n, what>>)

\* Mutant: a success forgets earlier failures.
SucceedReset == n' = n + 1 /\ pc' = "open" /\ res' = 0

\* handle_each_arg returns; multi_args goes on with the next file.
Succeed == n' = n + 1 /\ pc' = "open" /\ res' = res
Fail    == n' = n + 1 /\ pc' = "open" /\ res' = 1

Init ==
  /\ input \in Inputs
  /\ pc = "start" /\ n = 1
  /\ fds = 0 /\ maps = {} /\ g = 0 /\ res = 0
  /\ out = <<>> /\ err = <<>>

\* main: set_flags_nm rejects the command line, and ft_otool asks for a file.
Usage ==
  /\ pc = "start" /\ IsNm /\ ~input.legal
  /\ Said("usage") /\ res' = 1 /\ pc' = "exit"
  /\ UNCHANGED <<input, n, fds, maps, g, out>>

Start ==
  /\ pc = "start" /\ (IsNm => input.legal)
  /\ IF ~IsNm /\ Args = <<>> THEN Said("no file") ELSE err' = err
  /\ pc' = "open"
  /\ UNCHANGED <<input, n, fds, maps, g, res, out>>

Opening == pc = "open" /\ n <= Len(Args)

\* Mutant: every failure of open is the same.
OpenFailsAlike ==
  /\ Opening /\ (File.open # "ok" \/ fds = MaxFds)
  /\ Said("no such file")
  /\ Fail
  /\ UNCHANGED <<input, fds, maps, g, out>>

\* get_fd: open fails, also for want of a descriptor.
OpenFails ==
  /\ Opening /\ (File.open # "ok" \/ fds = MaxFds)
  /\ Said(IF File.open = "EACCES" /\ fds < MaxFds THEN "permission denied" ELSE "no such file")
  /\ Fail
  /\ UNCHANGED <<input, fds, maps, g, out>>

\* get_fd: fstat fails.  This is the one place that closes the descriptor, and
\* the one that says nothing.
StatFails ==
  /\ Opening /\ File.open = "ok" /\ fds < MaxFds
  /\ File.fails = "fstat in get_fd"
  /\ Fail
  /\ UNCHANGED <<input, fds, maps, g, out, err>>

\* get_fd: ft_otool gives up on a directory, ft_nm says so and goes on.
Open ==
  /\ Opening /\ File.open = "ok" /\ fds < MaxFds
  /\ File.fails # "fstat in get_fd"
  /\ fds' = fds + 1
  /\ IF File.dir THEN Said("directory") ELSE err' = err
  /\ IF File.dir /\ ~IsNm
     THEN Fail
     ELSE pc' = "map" /\ UNCHANGED <<n, res>>
  /\ UNCHANGED <<input, maps, g, out>>

\* handle_each_arg: fstat or mmap fails; the descriptor stays open.
MapFails ==
  /\ pc = "map" /\ File.fails \in {"fstat", "mmap"}
  /\ Said(File.fails) /\ Fail
  /\ UNCHANGED <<input, fds, maps, g, out>>

\* Mutant: the globals are set for the first file only.
MapOnce ==
  /\ pc = "map" /\ File.fails \notin {"fstat", "mmap"}
  /\ maps' = maps \cup {n} /\ g' = (IF g = 0 THEN n ELSE g)
  /\ pc' = "run"
  /\ UNCHANGED <<input, n, fds, res, out, err>>

Map ==
  /\ pc = "map" /\ File.fails \notin {"fstat", "mmap"}
  /\ maps' = maps \cup {n} /\ g' = n
  /\ pc' = "run"
  /\ UNCHANGED <<input, n, fds, res, out, err>>

\* Mutant: nothing is said.
ForeignSilent ==
  /\ pc = "run" /\ File.holds = "foreign"
  /\ Fail
  /\ UNCHANGED <<input, fds, maps, g, out, err>>

\* nm, otool: the file is no object.
Foreign ==
  /\ pc = "run" /\ File.holds = "foreign"
  /\ Said("not an object file") /\ Fail
  /\ UNCHANGED <<input, fds, maps, g, out>>

\* Mutant: a name is printed before the first file only.
NameOnce == IF n = 1 /\ (Multi \/ ~IsNm) THEN <<<<n, "name">>>> ELSE <<>>

\* print_new_line, then the name: before each file but the first, for several.
NewLine == IF Multi /\ n > 1 THEN <<<<n, "newline">>>> ELSE <<>>
Name    == IF Multi \/ ~IsNm THEN <<<<n, "name">>>> ELSE <<>>

\* nm: there is no list.  otool: the name is printed, and nothing said.
Malformed ==
  /\ pc = "run" /\ File.holds = "malformed"
  /\ out' = out \o (IF IsNm THEN NewLine ELSE Name)
  /\ IF IsNm THEN Said("malformed") ELSE err' = err
  /\ Fail
  /\ UNCHANGED <<input, fds, maps, g>>

Show ==
  /\ pc = "run" /\ File.holds = "object"
  /\ out' = out \o (IF IsNm THEN NewLine \o Name ELSE Name) \o <<<<n, "contents">>>>
  /\ pc' = "unmap"
  /\ UNCHANGED <<input, n, fds, maps, g, res, err>>

\* Mutant: nothing is unmapped.
UnmapNot ==
  /\ pc = "unmap"
  /\ Succeed
  /\ UNCHANGED <<input, fds, maps, g, out, err>>

Unmap ==
  /\ pc = "unmap"
  /\ IF File.fails = "munmap"
     THEN Said("munmap") /\ Fail /\ maps' = maps
     ELSE err' = err /\ Succeed /\ maps' = maps \ {n}
  /\ UNCHANGED <<input, fds, g, out>>

Exit ==
  /\ pc = "open" /\ n > Len(Args)
  /\ pc' = "exit"
  /\ UNCHANGED <<input, n, fds, maps, g, res, out, err>>

Finished == pc = "exit" /\ UNCHANGED vars

Next ==
  \/ Usage \/ Start
  \/ OpenFails \/ StatFails \/ Open
  \/ MapFails \/ Map \/ Foreign \/ Malformed \/ Show \/ Unmap
  \/ Exit \/ Finished

Spec == Init /\ [][Next]_vars

-----------------------------------------------------------------------------
Items    == {"newline", "name", "contents"}
Messages == {"usage", "no file", "permission denied", "no such file", "directory", "fstat",
             "mmap", "munmap", "not an object file", "malformed"}

TypeOK ==
  /\ input \in Inputs
  /\ pc \in {"start", "open", "map", "run", "unmap", "exit"}
  /\ n \in 1..(Len(Args) + 1) /\ g \in 0..Len(Args)
  /\ fds \in 0..MaxFds /\ maps \subseteq 1..Len(Args)
  /\ res \in {0, 1}
  /\ out \in Seq((1..Len(Args)) \X Items)
  /\ err \in Seq(Nat \X Messages)

\* While a file is handled, every bound is checked against that file's own
\* mapping, though mappings of files that failed before it still exist.
GlobalsCurrent == pc \in {"run", "unmap"} => g = n /\ n \in maps

Shown(m) == \E q \in 1..Len(out) : out[q] = <<m, "contents">>
SaidOf(m) == {err[q][2] : q \in {p \in 1..Len(err) : err[p][1] = m}}

\* The exit status is that of all files together: 0 exactly if the contents of
\* every file were shown and its mapping was given back.
ExitStatus ==
  pc = "exit" =>
    (res = 0 <=> /\ "usage" \notin SaidOf(1)
                 /\ \A m \in 1..Len(Args) : Shown(m) /\ m \notin maps)

\* Contents come in the order of the command line, under the name of their file
\* and after an empty line, whatever the files in between came to.
Separated ==
  \A q \in 1..Len(out) :
    out[q][2] = "contents" =>
      LET m == out[q][1] IN
      /\ \A p \in 1..(q - 1) : out[p][1] < m \/ (out[p][1] = m /\ out[p][2] # "contents")
      /\ Multi \/ ~IsNm => q > 1 /\ out[q - 1] = <<m, "name">>
      /\ Multi /\ IsNm /\ m > 1 => q > 2 /\ out[q - 2] = <<m, "newline">>

\* A file whose contents are not shown is accounted for on the standard error,
\* except where fstat fails in get_fd and where ft_otool meets a malformed file.
FailureSaid ==
  pc # "start" =>
    \A m \in 1..(n - 1) :
      \/ Shown(m) \/ SaidOf(m) # {}
      \/ Kind[Args[m]].fails = "fstat in get_fd"
      \/ ~IsNm /\ Kind[Args[m]].holds = "malformed"

\* Descriptors are never closed, so a file that exists is called missing once
\* as many files came before it as there are descriptors, and not earlier.
MissingSaid ==
  \A m \in 1..Len(Args) :
    "no such file" \in SaidOf(m) => Kind[Args[m]].open = "ENOENT" \/ m > MaxFds

\* A mapping outlives its file's turn only if the file failed after it was mapped.
MappingsHeld ==
  \A m \in maps :
    \/ m = n /\ pc \in {"run", "unmap"}
    \/ m < n /\ res = 1 /\ SaidOf(m) \subseteq {"munmap", "not an object file", "malformed"}


-----------------------------------------------------------------------------
(***************************************************************************)
(* The inductive invariant behind the properties above.                    *)
(***************************************************************************)
\* A file is being handled; with usage said, none is.
Turn ==
  /\ pc \in {"map", "run", "unmap"} => n <= Len(Args)
  /\ pc = "start" => n = 1 /\ res = 0 /\ maps = {} /\ err = <<>> /\ out = <<>>
  /\ fds <= n /\ (pc \in {"start", "open"} => fds < n)

\* While an argument is handled nothing is said of it yet, except that it is a
\* directory, and then it cannot be mapped.
NothingSaidYet ==
  pc # "exit" /\ n <= Len(Args) =>
    \A q \in 1..Len(err) :
      err[q][1] < n \/ (pc = "map" /\ File.dir /\ err[q][1] = n)

\* Contents that are out belong to a file before, or to one about to be unmapped.
ShownInTurn ==
  /\ \A q \in 1..Len(out) : out[q][1] < n \/ (pc = "unmap" /\ out[q][1] = n)
  /\ pc = "unmap" => Shown(n)

\* The usage is all there is to say, once it is said.
UsageEnds ==
  /\ \A q \in 1..Len(err) : err[q][2] = "usage" => pc = "exit" /\ res = 1 /\ err[q][1] = 1
  /\ pc = "exit" => n > Len(Args) \/ "usage" \in SaidOf(1)

\* The exit status so far is that of the files so far.
StatusSoFar ==
  "usage" \notin SaidOf(1) =>
    (res = 0 <=> \A m \in 1..(n - 1) : Shown(m) /\ m \notin maps)

IInv == /\ TypeOK /\ Turn /\ NothingSaidYet /\ ShownInTurn /\ UsageEnds
        /\ GlobalsCurrent /\ MappingsHeld /\ StatusSoFar /\ MissingSaid /\ FailureSaid
=============================================================================
