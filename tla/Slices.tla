------------------------------- MODULE Slices -------------------------------
(***************************************************************************)
(* Which objects of a file are handled: nm and otool up to handle_nm and   *)
(* handle_otool, then handle_fat, init_t_fat and handle_each_arch.  The    *)
(* two programs choose the objects of a fat file by the same rules and     *)
(* differ in one: ft_nm stops at the first object it has a list for,       *)
(* ft_otool dumps them all.                                                *)
(*                                                                         *)
(* What an object gives is NmObject's and Otool's matter; here it either   *)
(* gives a list or not.  The entries of a fat file are converted by value, *)
(* never in place.  A read beyond the pages of the mapping faults.         *)
(***************************************************************************)
EXTENDS MachO, Sequences, FiniteSets

CONSTANT Files  \* the files the programs may be given, by name

None == -1

(***************************************************************************)
(* size bytes in whole pages up to end; nb is nfat_arch.  arch[i] is entry *)
(* i, the bytes of every other entry are zeros; at[p] is the object at p,  *)
(* the bytes anywhere else are no header.                                  *)
(***************************************************************************)
IsFile(f) ==
  /\ f.magic \in Magics /\ f.size \in Nat /\ f.end \in Nat /\ f.nb \in Nat
  /\ f.size <= f.end
  /\ \A i \in DOMAIN f.arch : f.arch[i].cpu \in STRING /\ f.arch[i].offset \in Nat
  /\ \A p \in DOMAIN f.at : f.at[p].magic \in MhMagics /\ f.at[p].lists \in BOOLEAN

ASSUME FilesAssumption == \A n \in DOMAIN Files : IsFile(Files[n])

VARIABLES
  prog,      \* the program that runs
  file,
  pc,
  i,         \* the entry of the fat file looked at
  found_64,  \* t_fat
  given,     \* the offsets of the objects given to handle_not_fat, in order
  listing    \* the object whose list handle_nm returns

vars == <<prog, file, pc, i, found_64, given, listing>>

this == Files[file]

EntryAt(f, n) == SizeofFatHeader + n * SizeofFatArch(is_64_file(f.magic))
Cpu(f, n)     == IF n \in DOMAIN f.arch THEN is_hostarch(f.arch[n].cpu) ELSE "NONE"
get_offsize_arch(f, n) == f.arch[n].offset
MagicAt(f, p) == IF p \in DOMAIN f.at THEN f.at[p].magic ELSE "OTHER"

\* n bytes at p can be read.
Readable(f, p, n) == p + n <= f.end
SizeofOffset(f)   == IF is_64_file(f.magic) THEN 8 ELSE 4

Init ==
  /\ prog \in {"ft_nm", "ft_otool"} /\ file \in DOMAIN Files
  /\ pc = "start" /\ i = 0 /\ found_64 = FALSE
  /\ given = <<>> /\ listing = None

\* Does the object at p give a list?  One that was converted in place before,
\* because an earlier entry has the same offset, may give anything.
GivesList(p, l) ==
  IF should_swap_file(MagicAt(this, p)) /\ \E n \in 1..Len(given) : given[n] = p
  THEN l \in BOOLEAN
  ELSE l = (p \in DOMAIN this.at /\ this.at[p].lists)

\* Mutant: handle_fat does not return with the list.
HandleOn(p, next) ==
  /\ given' = Append(given, p)
  /\ \E l \in BOOLEAN :
       /\ GivesList(p, l)
       /\ listing' = IF prog = "ft_nm" /\ l THEN p ELSE None
       /\ pc' = next

\* handle_not_fat: the object at p is handled; pc says where to go on.
Handle(p, next) ==
  /\ given' = Append(given, p)
  /\ \E l \in BOOLEAN :
       /\ GivesList(p, l)
       /\ listing' = IF prog = "ft_nm" /\ l THEN p ELSE None
       /\ pc' = IF prog = "ft_nm" /\ l THEN "done" ELSE next

\* nm, otool: too short for a header, or no magic number known.
NotAnObject ==
  /\ pc = "start"
  /\ ~is_safe(32, this.size) \/ not_valid_file(this.magic)
  /\ pc' = "foreign"
  /\ UNCHANGED <<prog, file, i, found_64, given, listing>>

IsObjectFile == pc = "start" /\ is_safe(32, this.size) /\ ~not_valid_file(this.magic)

\* handle_nm, handle_otool: the file is one object.
NotFat ==
  /\ IsObjectFile /\ ~is_fat_file(this.magic)
  /\ Handle(0, "done")
  /\ UNCHANGED <<prog, file, i, found_64>>

\* handle_fat calls init_t_fat.
StartFat ==
  /\ IsObjectFile /\ is_fat_file(this.magic)
  /\ found_64' = FALSE /\ i' = 0
  /\ pc' = IF is_safe(SizeofFatHeader, this.size) THEN "scan" ELSE "done"
  /\ UNCHANGED <<prog, file, given, listing>>

Scanning == pc = "scan" /\ i < this.nb

\* init_t_fat: is there an entry for x86_64?  Nothing checks where entry i is.
ScanNext ==
  /\ Scanning /\ Readable(this, EntryAt(this, i), 4) /\ Cpu(this, i) # "X86_64"
  /\ i' = i + 1
  /\ UNCHANGED <<prog, file, pc, found_64, given, listing>>

ScanFault ==
  /\ Scanning /\ ~Readable(this, EntryAt(this, i), 4)
  /\ pc' = "fault"
  /\ UNCHANGED <<prog, file, i, found_64, given, listing>>

\* Mutant: the scan ends at x86_64 without a note of it.
ScanEndForgets ==
  /\ \/ Scanning /\ Readable(this, EntryAt(this, i), 4) /\ Cpu(this, i) = "X86_64"
     \/ pc = "scan" /\ i >= this.nb
  /\ i' = 0 /\ pc' = "entries"
  /\ UNCHANGED <<prog, file, found_64, given, listing>>

\* init_t_fat returns to handle_fat, which starts over from the first entry.
ScanEnd ==
  \/ /\ Scanning /\ Readable(this, EntryAt(this, i), 4) /\ Cpu(this, i) = "X86_64"
     /\ found_64' = TRUE /\ i' = 0 /\ pc' = "entries"
     /\ UNCHANGED <<prog, file, given, listing>>
  \/ /\ pc = "scan" /\ i >= this.nb
     /\ i' = 0 /\ pc' = "entries"
     /\ UNCHANGED <<prog, file, found_64, given, listing>>

AtEntry == pc = "entries" /\ i < this.nb
Wanted  == /\ is_safe(EntryAt(this, i), this.size)
           /\ Readable(this, EntryAt(this, i), 4)
           /\ Cpu(this, i) # "NONE"
           /\ ~(found_64 /\ Cpu(this, i) = "I386")
Legible == /\ Readable(this, EntryAt(this, i) + 8, SizeofOffset(this))
           /\ Readable(this, get_offsize_arch(this, i), 4)

\* handle_each_arch returns early: outside the file, or not for this host.
EntrySkip ==
  /\ AtEntry /\ ~Wanted
  /\ is_safe(EntryAt(this, i), this.size) => Readable(this, EntryAt(this, i), 4)
  /\ i' = i + 1
  /\ UNCHANGED <<prog, file, pc, found_64, given, listing>>

\* handle_each_arch: the entry's offset is used as it is.
EntryFault ==
  /\ AtEntry
  /\ \/ Wanted /\ ~Legible
     \/ /\ is_safe(EntryAt(this, i), this.size)
        /\ ~Readable(this, EntryAt(this, i), 4)
  /\ pc' = "fault"
  /\ UNCHANGED <<prog, file, i, found_64, given, listing>>

\* Mutant: the loop goes on before it counts.
EntryNoObjectStay ==
  /\ AtEntry /\ Wanted /\ Legible
  /\ not_valid_header(MagicAt(this, get_offsize_arch(this, i)))
  /\ UNCHANGED vars

\* handle_each_arch: what is at the offset is not an object.
EntryNoObject ==
  /\ AtEntry /\ Wanted /\ Legible
  /\ not_valid_header(MagicAt(this, get_offsize_arch(this, i)))
  /\ i' = i + 1
  /\ UNCHANGED <<prog, file, pc, found_64, given, listing>>

EntryHandle ==
  LET p == get_offsize_arch(this, i) IN
  /\ AtEntry /\ Wanted /\ Legible /\ ~not_valid_header(MagicAt(this, p))
  /\ found_64' = (found_64 \/ Cpu(this, i) = "X86_64")
  /\ IF is_safe(p, this.size)
     THEN Handle(p, "entries")
     ELSE UNCHANGED <<pc, given, listing>>
  /\ i' = i + 1
  /\ UNCHANGED <<prog, file>>

EntriesEnd ==
  /\ pc = "entries" /\ i >= this.nb
  /\ pc' = "done"
  /\ UNCHANGED <<prog, file, i, found_64, given, listing>>

Finished == pc \in {"done", "foreign", "fault"} /\ UNCHANGED vars

Next ==
  \/ NotAnObject \/ NotFat \/ StartFat
  \/ ScanNext \/ ScanFault \/ ScanEnd
  \/ EntrySkip \/ EntryFault \/ EntryNoObject \/ EntryHandle \/ EntriesEnd
  \/ Finished

Spec == Init /\ [][Next]_vars /\ WF_vars(Next)

-----------------------------------------------------------------------------
Entries(f)  == 0..(f.nb - 1)
Inside(f, n) == is_safe(EntryAt(f, n), f.size)
Has64(f)    == \E n \in Entries(f) : Cpu(f, n) = "X86_64"

\* Entry n is for this host, and there is an object where it says.
Eligible(f, n) ==
  /\ Inside(f, n) /\ Cpu(f, n) # "NONE"
  /\ ~(Has64(f) /\ Cpu(f, n) = "I386")
  /\ ~not_valid_header(MagicAt(f, f.arch[n].offset))
  /\ is_safe(f.arch[n].offset, f.size)

\* The scan has the last word: handling an object never changes found_64.
FoundStable == [][pc = "entries" => found_64' = found_64]_vars

\* Neither program reads outside the pages of the mapping.
NoFault == pc # "fault"

Termination == <>(pc \in {"done", "foreign", "fault"})

(***************************************************************************)
(* Seen from outside: the objects handled are those of the eligible        *)
(* entries in their order, for ft_nm up to the first that gives a list.    *)
(***************************************************************************)
Lists(f, n) == f.at[f.arch[n].offset].lists
Alone(f) == \A m, n \in Entries(f) \cap DOMAIN f.arch :
              f.arch[m].offset = f.arch[n].offset => m = n
Stops(f, n) == /\ Eligible(f, n) /\ Lists(f, n)
               /\ \A m \in 0..(n - 1) : Eligible(f, m) => ~Lists(f, m)
Handled(p, f) ==
  {n \in Entries(f) : /\ Eligible(f, n)
                      /\ p = "ft_nm" => \A m \in 0..(n - 1) : ~Stops(f, m)}

IsSelection(x, a) ==
  LET p == x[1]  f == Files[x[2]] IN
  is_fat_file(f.magic) /\ Alone(f) /\ is_safe(32, f.size) =>
    /\ Len(a.given) = Cardinality(Handled(p, f))
    /\ \A n \in Handled(p, f) :
         a.given[Cardinality({m \in Handled(p, f) : m <= n})] = f.arch[n].offset
    /\ IF p = "ft_nm" /\ \E n \in Entries(f) : Stops(f, n)
       THEN \E n \in Entries(f) : Stops(f, n) /\ a.listing = f.arch[n].offset
       ELSE a.listing = None

Contract == INSTANCE OneAnswer WITH
  Inputs   <- {"ft_nm", "ft_otool"} \X DOMAIN Files,
  Right    <- IsSelection,
  input    <- <<prog, file>>,
  answered <- pc \in {"done", "foreign"},
  answer   <- IF pc \in {"done", "foreign"}
              THEN [given |-> given, listing |-> listing] ELSE <<>>
Implements == Contract!Spec

-----------------------------------------------------------------------------
(***************************************************************************)
(* The inductive invariant behind FoundStable and Implements.              *)
(***************************************************************************)
TypeOK ==
  /\ prog \in {"ft_nm", "ft_otool"} /\ file \in DOMAIN Files
  /\ pc \in {"start", "scan", "entries", "done", "foreign", "fault"}
  /\ i \in Nat /\ found_64 \in BOOLEAN
  /\ given \in Seq(Nat) /\ listing \in Nat \cup {None}

\* Entries are looked at in a fat file only, and found_64 is what the scan saw.
FoundInv ==
  /\ pc \in {"start", "scan"} => ~found_64 /\ given = <<>>
  /\ pc \in {"start", "scan", "entries"} => listing = None
  /\ pc \in {"scan", "entries"} => is_fat_file(this.magic)
  /\ pc = "scan" => \A n \in 0..(i - 1) : Cpu(this, n) # "X86_64"
  /\ pc = "entries" => (found_64 <=> Has64(this))

\* The eligible entries before entry i.
Passed == {n \in Entries(this) : Eligible(this, n) /\ n < i}

\* What has been handled are the objects of the eligible entries passed, one for
\* one and in order; had one of them given ft_nm a list, it would have stopped.
PassedInv ==
  pc = "entries" /\ Alone(this) =>
    /\ Len(given) = Cardinality(Passed)
    /\ \A n \in Passed :
         given[Cardinality({m \in Passed : m <= n})] = this.arch[n].offset
    /\ \A g \in 1..Len(given) : \E n \in Passed : given[g] = this.arch[n].offset
    /\ prog = "ft_nm" => \A n \in Passed : ~Lists(this, n)

\* What is answered is right.
AnswerInv ==
  pc \in {"done", "foreign"} =>
    IsSelection(<<prog, file>>, [given |-> given, listing |-> listing])

IInv == TypeOK /\ FoundInv /\ PassedInv /\ AnswerInv
=============================================================================
