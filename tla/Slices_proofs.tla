--------------------------- MODULE Slices_proofs ---------------------------
(***************************************************************************)
(* Proofs about Slices, for any set of files.                              *)
(***************************************************************************)
EXTENDS Slices, FiniteSetTheorems, TLAPS

-----------------------------------------------------------------------------
(***************************************************************************)
(* What is read of a file.                                                 *)
(***************************************************************************)

LEMMA FileType == ASSUME file \in DOMAIN Files PROVE IsFile(this)
  BY FilesAssumption DEF this

\* An entry for this host is one the file has, with an offset.
LEMMA HostEntry ==
  ASSUME NEW f, IsFile(f), NEW n, Cpu(f, n) # "NONE"
  PROVE  n \in DOMAIN f.arch /\ f.arch[n].offset \in Nat
  BY DEF Cpu, IsFile

\* Where there is a header there is an object.
LEMMA HeaderObject ==
  ASSUME NEW f, IsFile(f), NEW p, ~not_valid_header(MagicAt(f, p))
  PROVE  p \in DOMAIN f.at /\ f.at[p].lists \in BOOLEAN
  BY DEF not_valid_header, MagicAt, MhMagics, IsFile

\* A magic number of either kind of object is not one of a fat file.
LEMMA FatIsValid == ASSUME NEW magic, is_fat_file(magic) PROVE ~not_valid_file(magic)
  BY DEF is_fat_file, not_valid_file

-----------------------------------------------------------------------------
(***************************************************************************)
(* Type correctness.                                                       *)
(***************************************************************************)

LEMMA TypeInit == Init => TypeOK
<1>1. Init => given \in Seq(Nat) /\ listing \in Nat \cup {None}
  BY DEF Init
<1>2. Init => found_64 \in BOOLEAN
  BY DEF Init
<1> QED
  BY <1>1, <1>2 DEF Init, TypeOK

LEMMA HandleType ==
  ASSUME TypeOK, NEW p \in Nat, NEW next, Handle(p, next)
  PROVE  /\ given' \in Seq(Nat) /\ listing' \in Nat \cup {None}
         /\ pc' \in {next, "done"}
  BY DEF TypeOK, Handle

LEMMA TypeStep == TypeOK /\ [Next]_vars => TypeOK'
<1> SUFFICES ASSUME TypeOK, [Next]_vars PROVE TypeOK'
  OBVIOUS
<1>1. CASE NotAnObject
  BY <1>1 DEF NotAnObject, TypeOK
<1>2. CASE NotFat
  BY <1>2, HandleType DEF NotFat, TypeOK
<1>3. CASE StartFat
  BY <1>3 DEF StartFat, TypeOK
<1>4. CASE ScanNext \/ ScanFault \/ ScanEnd
  <2>1. found_64' \in BOOLEAN
    BY <1>4 DEF ScanNext, ScanFault, ScanEnd, TypeOK
  <2>2. i' \in Nat /\ pc' \in {"scan", "entries", "fault"}
        /\ UNCHANGED <<prog, file, given, listing>>
    BY <1>4 DEF ScanNext, ScanFault, ScanEnd, Scanning, TypeOK
  <2> QED
    BY <2>1, <2>2 DEF TypeOK
<1>5. CASE EntrySkip \/ EntryFault \/ EntryNoObject \/ EntriesEnd
  BY <1>5 DEF EntrySkip, EntryFault, EntryNoObject, EntriesEnd, TypeOK
<1>6. CASE EntryHandle
  <2> DEFINE p == get_offsize_arch(this, i)
  <2>1. p \in Nat
    BY <1>6, FileType, HostEntry DEF EntryHandle, Wanted, get_offsize_arch, TypeOK
  <2>2. \/ Handle(p, "entries")
        \/ UNCHANGED <<pc, given, listing>>
    BY <1>6 DEF EntryHandle
  <2>3. /\ given' \in Seq(Nat) /\ listing' \in Nat \cup {None}
        /\ pc' \in {"entries", "done"} \/ pc' = pc
    BY <2>1, <2>2, HandleType DEF TypeOK
  <2>4. found_64' \in BOOLEAN /\ i' \in Nat /\ prog' = prog /\ file' = file
    BY <1>6 DEF EntryHandle, TypeOK
  <2> QED
    BY <2>3, <2>4 DEF TypeOK
<1>7. CASE Finished \/ UNCHANGED vars
  BY <1>7 DEF Finished, vars, TypeOK
<1> QED
  BY <1>1, <1>2, <1>3, <1>4, <1>5, <1>6, <1>7 DEF Next

\* Every variable has its type, whatever the files are.
THEOREM TypeCorrect == Spec => []TypeOK
  BY TypeInit, TypeStep, PTL DEF Spec

LEMMA SameFile == [Next]_vars => file' = file /\ prog' = prog /\ this' = this
<1> SUFFICES ASSUME [Next]_vars PROVE file' = file /\ prog' = prog
  BY DEF this
<1> QED
  BY DEF Next, vars, NotAnObject, NotFat, StartFat, ScanNext, ScanFault, ScanEnd,
         EntrySkip, EntryFault, EntryNoObject, EntryHandle, EntriesEnd, Finished

-----------------------------------------------------------------------------
(***************************************************************************)
(* The scan for x86_64 has the last word.                                  *)
(***************************************************************************)

LEMMA FoundInit == Init => FoundInv
  BY DEF Init, FoundInv

\* In the loop over the entries found_64 is what the scan left.
LEMMA FoundKept ==
  ASSUME TypeOK, FoundInv, [Next]_vars, pc = "entries"
  PROVE  found_64' = found_64
<1>1. CASE EntryHandle
  <2>1. Cpu(this, i) = "X86_64" => Has64(this)
    <3>1. i \in Entries(this)
      BY <1>1, FileType DEF EntryHandle, AtEntry, Entries, TypeOK, IsFile
    <3> QED
      BY <3>1 DEF Has64
  <2> QED
    BY <1>1, <2>1 DEF EntryHandle, FoundInv, TypeOK
<1>2. CASE EntrySkip \/ EntryFault \/ EntryNoObject \/ EntriesEnd
  BY <1>2 DEF EntrySkip, EntryFault, EntryNoObject, EntriesEnd
<1>3. CASE Finished \/ UNCHANGED vars
  BY <1>3 DEF Finished, vars
<1> QED
  BY <1>1, <1>2, <1>3
     DEF Next, NotAnObject, NotFat, IsObjectFile, StartFat, ScanNext, ScanFault, ScanEnd, Scanning

LEMMA FoundStep == TypeOK /\ FoundInv /\ [Next]_vars => FoundInv'
<1> SUFFICES ASSUME TypeOK, FoundInv, [Next]_vars PROVE FoundInv'
  OBVIOUS
<1>o. this' = this /\ prog' = prog /\ i \in Nat /\ IsFile(this) /\ this.nb \in Nat
  BY SameFile, FileType DEF TypeOK, IsFile
<1>1. CASE NotAnObject
  BY <1>1 DEF NotAnObject, FoundInv
<1>2. CASE NotFat
  BY <1>2 DEF NotFat, Handle, FoundInv
<1>3. CASE StartFat
  BY <1>3, <1>o DEF StartFat, IsObjectFile, FoundInv
<1>4. CASE ScanNext
  <2>1. \A n \in 0..(i' - 1) : n \in 0..(i - 1) \/ n = i
    BY <1>4, <1>o DEF ScanNext
  <2> QED
    BY <1>4, <1>o, <2>1 DEF ScanNext, Scanning, FoundInv
<1>5. CASE ScanFault
  BY <1>5 DEF ScanFault, FoundInv
<1>6. CASE ScanEnd
  <2>1. pc = "scan" /\ ~found_64 /\ pc' = "entries" /\ listing' = listing /\ given' = given
        /\ is_fat_file(this.magic)
    BY <1>6 DEF ScanEnd, Scanning, FoundInv
  <2>2. CASE i < this.nb /\ Cpu(this, i) = "X86_64" /\ found_64' = TRUE
    BY <1>o, <2>1, <2>2 DEF Has64, Entries, FoundInv
  <2>3. CASE i >= this.nb /\ found_64' = found_64
    <3>1. \A n \in Entries(this) : Cpu(this, n) # "X86_64"
      BY <1>o, <2>1, <2>3 DEF Entries, FoundInv
    <3> QED
      BY <1>o, <2>1, <2>3, <3>1 DEF Has64, FoundInv
  <2> QED
    BY <1>6, <2>2, <2>3 DEF ScanEnd, Scanning
<1>7. CASE EntrySkip \/ EntryFault \/ EntryNoObject \/ EntriesEnd
  BY <1>7, <1>o DEF EntrySkip, EntryFault, EntryNoObject, EntriesEnd, AtEntry, FoundInv
<1>8. CASE EntryHandle
  <2>1. pc = "entries" /\ found_64' = found_64
    BY <1>8, FoundKept DEF EntryHandle, AtEntry
  <2>2. listing = None /\ pc' \in {"entries", "done"} /\ (pc' = "entries" => listing' = None)
    BY <1>8, <2>1 DEF EntryHandle, Handle, FoundInv
  <2> QED
    BY <1>o, <2>1, <2>2 DEF FoundInv
<1>9. CASE Finished \/ UNCHANGED vars
  BY <1>9, <1>o DEF Finished, vars, FoundInv
<1> QED
  BY <1>1, <1>2, <1>3, <1>4, <1>5, <1>6, <1>7, <1>8, <1>9 DEF Next

\* init_t_fat's answer stands: handle_each_arch, which sets found_64 too, never
\* changes it.
THEOREM ScanDecides == Spec => FoundStable
<1>1. TypeOK /\ FoundInv /\ [Next]_vars => [pc = "entries" => found_64' = found_64]_vars
  BY FoundKept
<1> QED
  BY <1>1, TypeInit, TypeStep, FoundInit, FoundStep, PTL DEF Spec, FoundStable

-----------------------------------------------------------------------------
(***************************************************************************)
(* What is handled is the selection.                                       *)
(***************************************************************************)

LEMMA EntriesFinite ==
  ASSUME NEW f, IsFile(f) PROVE IsFiniteSet(Entries(f)) /\ Entries(f) \subseteq Nat
<1>1. f.nb \in Nat
  BY DEF IsFile
<1>2. f.nb - 1 \in Int
  BY <1>1
<1>3. IsFiniteSet(0..(f.nb - 1))
  BY <1>2, FS_Interval
<1> QED
  BY <1>1, <1>3 DEF Entries

\* One more entry at the end of a set of entries: it is the last in their order.
LEMMA OneMore ==
  ASSUME NEW S, IsFiniteSet(S), NEW e \in Nat, \A n \in S : n \in Nat /\ n < e
  PROVE  LET T == S \cup {e} IN
         /\ Cardinality(S) \in Nat
         /\ Cardinality(T) = Cardinality(S) + 1
         /\ {m \in T : m <= e} = T
         /\ \A n \in S : /\ {m \in T : m <= n} = {m \in S : m <= n}
                         /\ Cardinality({m \in S : m <= n}) \in 1..Cardinality(S)
<1> DEFINE T == S \cup {e}
<1>1. e \notin S
  OBVIOUS
<1>2. Cardinality(S) \in Nat /\ Cardinality(T) = Cardinality(S) + 1
  BY <1>1, FS_AddElement, FS_CardinalityType
<1>3. {m \in T : m <= e} = T
  OBVIOUS
<1>4. ASSUME NEW n \in S
      PROVE  /\ {m \in T : m <= n} = {m \in S : m <= n}
             /\ Cardinality({m \in S : m <= n}) \in 1..Cardinality(S)
  <2> DEFINE U == {m \in S : m <= n}
  <2>1. {m \in T : m <= n} = U
    OBVIOUS
  <2>2. IsFiniteSet(U) /\ Cardinality(U) <= Cardinality(S)
    BY FS_Subset
  <2>3. n \in U
    OBVIOUS
  <2>4. Cardinality(U) \in Nat /\ Cardinality(U) # 0
    BY <2>2, <2>3, FS_CardinalityType, FS_EmptySet
  <2> QED
    BY <1>2, <2>1, <2>2, <2>4
<1> QED
  BY <1>2, <1>3, <1>4

LEMMA PassedFinite ==
  ASSUME TypeOK
  PROVE  IsFiniteSet(Passed) /\ \A n \in Passed : n \in Nat /\ n < i /\ n \in Entries(this)
<1>1. IsFiniteSet(Entries(this)) /\ Passed \subseteq Entries(this) /\ Entries(this) \subseteq Nat
  BY EntriesFinite, FileType DEF TypeOK, Passed
<1>2. IsFiniteSet(Passed)
  BY <1>1, FS_Subset
<1> QED
  BY <1>1, <1>2 DEF Passed

\* An entry that is not eligible is passed without a trace.
LEMMA PassedOver ==
  ASSUME TypeOK, PassedInv, i' = i + 1, this' = this, prog' = prog, given' = given,
         pc = "entries", pc' = "entries", ~Eligible(this, i)
  PROVE  PassedInv'
<1>1. Passed' = Passed
  BY DEF Passed, Entries, TypeOK
<1> QED
  BY <1>1 DEF PassedInv

LEMMA PassedInit == Init => PassedInv
  BY DEF Init, PassedInv
\* The conditions of handle_each_arch are those of an eligible entry.
LEMMA WantedEligible ==
  ASSUME TypeOK, FoundInv, AtEntry
  PROVE  /\ i \in Entries(this)
         /\ Wanted /\ ~not_valid_header(MagicAt(this, get_offsize_arch(this, i)))
              /\ is_safe(get_offsize_arch(this, i), this.size) => Eligible(this, i)
         /\ Eligible(this, i) /\ Readable(this, EntryAt(this, i), 4)
              => /\ Wanted
                 /\ ~not_valid_header(MagicAt(this, get_offsize_arch(this, i)))
                 /\ is_safe(get_offsize_arch(this, i), this.size)
         /\ Eligible(this, i) => is_safe(EntryAt(this, i), this.size)
<1>1. i \in Entries(this)
  BY FileType DEF TypeOK, AtEntry, Entries, IsFile
<1>2. found_64 <=> Has64(this)
  BY DEF FoundInv, AtEntry
<1> QED
  BY <1>1, <1>2 DEF Wanted, Eligible, Inside, get_offsize_arch

\* The object of an eligible entry has not been handled before when no two
\* entries share one, and what it gives is what the file says.
LEMMA FirstTime ==
  ASSUME TypeOK, FoundInv, PassedInv, AtEntry, Eligible(this, i), Alone(this),
         NEW l, GivesList(this.arch[i].offset, l)
  PROVE  l = Lists(this, i)
<1> DEFINE p == this.arch[i].offset
<1>1. IsFile(this) /\ i \in DOMAIN this.arch /\ i \in Entries(this)
  BY FileType, HostEntry, WantedEligible DEF TypeOK, Eligible
<1>2. ASSUME NEW g \in 1..Len(given), given[g] = p PROVE FALSE
  <2>1. PICK n \in Passed : this.arch[n].offset = p
    BY <1>2 DEF PassedInv, AtEntry
  <2>2. n \in DOMAIN this.arch /\ n \in Entries(this) /\ n < i /\ n \in Nat
    BY <1>1, <2>1, HostEntry, PassedFinite DEF Passed, Eligible
  <2>3. n = i
    BY <1>1, <2>1, <2>2 DEF Alone
  <2> QED
    BY <2>2, <2>3
<1>3. p \in DOMAIN this.at /\ this.at[p].lists \in BOOLEAN
  BY <1>1, HeaderObject DEF Eligible
<1>4. l = (p \in DOMAIN this.at /\ this.at[p].lists)
  BY <1>2 DEF GivesList
<1>5. l = this.at[p].lists
  BY <1>3, <1>4
<1> QED
  BY <1>5 DEF Lists

\* Handling the object of entry i adds entry i to those passed.
LEMMA PassedMore ==
  ASSUME TypeOK, FoundInv, PassedInv, AtEntry, Eligible(this, i), Alone(this),
         given' = Append(given, this.arch[i].offset)
  PROVE  LET T == Passed \cup {i} IN
         /\ Len(given') = Cardinality(T)
         /\ \A n \in T : given'[Cardinality({m \in T : m <= n})] = this.arch[n].offset
         /\ \A g \in 1..Len(given') : \E n \in T : given'[g] = this.arch[n].offset
<1> DEFINE T == Passed \cup {i}
           off(n) == this.arch[n].offset
           N == Cardinality(Passed)
<1>1. i \in Nat /\ given \in Seq(Nat) /\ off(i) \in Nat
  BY FileType, HostEntry DEF TypeOK, Eligible
<1>2. /\ IsFiniteSet(Passed) /\ \A n \in Passed : n \in Nat /\ n < i
  BY PassedFinite
<1>3. /\ N \in Nat /\ Cardinality(T) = N + 1 /\ {m \in T : m <= i} = T
      /\ \A n \in Passed : /\ {m \in T : m <= n} = {m \in Passed : m <= n}
                           /\ Cardinality({m \in Passed : m <= n}) \in 1..N
  BY <1>1, <1>2, OneMore
<1>4. /\ Len(given) = N
      /\ \A n \in Passed : given[Cardinality({m \in Passed : m <= n})] = off(n)
      /\ \A g \in 1..Len(given) : \E n \in Passed : given[g] = off(n)
  BY DEF PassedInv, AtEntry
<1>5. /\ Len(given') = N + 1 /\ given'[N + 1] = off(i)
      /\ \A g \in 1..N : given'[g] = given[g]
  <2>1. given' = Append(given, off(i))
    OBVIOUS
  <2> HIDE DEF off, N
  <2> QED
    BY <1>1, <1>4, <2>1
<1>6. ASSUME NEW n \in T PROVE given'[Cardinality({m \in T : m <= n})] = off(n)
  <2>1. CASE n = i
    BY <1>3, <1>5, <2>1
  <2>2. CASE n \in Passed
    BY <1>3, <1>4, <1>5, <2>2
  <2> QED
    BY <2>1, <2>2
<1>7. ASSUME NEW g \in 1..Len(given') PROVE \E n \in T : given'[g] = off(n)
  <2>1. g = N + 1 \/ g \in 1..N
    BY <1>3, <1>5
  <2> QED
    BY <1>4, <1>5, <2>1
<1> QED
  BY <1>3, <1>5, <1>6, <1>7

\* What EntryHandle does to the record of what was handled.
LEMMA HandleEffect ==
  ASSUME TypeOK, FoundInv, PassedInv, EntryHandle
  PROVE  /\ AtEntry /\ i' = i + 1 /\ listing = None
         /\ \/ /\ Eligible(this, i) /\ given' = Append(given, this.arch[i].offset)
               /\ Alone(this) =>
                    IF prog = "ft_nm" /\ Lists(this, i)
                    THEN pc' = "done" /\ listing' = this.arch[i].offset
                    ELSE pc' = "entries" /\ listing' = None
            \/ /\ ~Eligible(this, i) /\ UNCHANGED <<given, listing>>
               /\ pc' = "entries"
<1> DEFINE p == this.arch[i].offset
<1>1. AtEntry /\ Wanted /\ i' = i + 1 /\ ~not_valid_header(MagicAt(this, p)) /\ pc = "entries"
  BY DEF EntryHandle, AtEntry, get_offsize_arch
<1>2. listing = None
  BY <1>1 DEF FoundInv
<1>3. CASE is_safe(p, this.size)
  <2>1. Eligible(this, i)
    BY <1>1, <1>3, WantedEligible DEF get_offsize_arch
  <2>2. Handle(p, "entries")
    BY <1>3 DEF EntryHandle, get_offsize_arch
  <2>3. Alone(this) =>
          IF prog = "ft_nm" /\ Lists(this, i)
          THEN pc' = "done" /\ listing' = p
          ELSE pc' = "entries" /\ listing' = None
    <3> SUFFICES ASSUME Alone(this)
                 PROVE  IF prog = "ft_nm" /\ Lists(this, i)
                        THEN pc' = "done" /\ listing' = p
                        ELSE pc' = "entries" /\ listing' = None
      OBVIOUS
    <3>1. PICK l \in BOOLEAN :
            /\ GivesList(p, l)
            /\ listing' = IF prog = "ft_nm" /\ l THEN p ELSE None
            /\ pc' = IF prog = "ft_nm" /\ l THEN "done" ELSE "entries"
      BY <2>2 DEF Handle
    <3>2. l = Lists(this, i)
      BY <1>1, <2>1, <3>1, FirstTime
    <3> QED
      BY <3>1, <3>2
  <2> QED
    BY <1>1, <1>2, <2>1, <2>2, <2>3 DEF Handle
<1>4. CASE ~is_safe(p, this.size)
  <2>1. ~Eligible(this, i)
    BY <1>4 DEF Eligible
  <2>2. UNCHANGED <<pc, given, listing>>
    BY <1>4 DEF EntryHandle, get_offsize_arch
  <2> QED
    BY <1>1, <1>2, <2>1, <2>2
<1> QED
  BY <1>3, <1>4

LEMMA PassedStep == TypeOK /\ FoundInv /\ PassedInv /\ [Next]_vars => PassedInv'
<1> SUFFICES ASSUME TypeOK, FoundInv, PassedInv, [Next]_vars PROVE PassedInv'
  OBVIOUS
<1>o. this' = this /\ prog' = prog /\ i \in Nat
  BY SameFile DEF TypeOK
<1>1. CASE ScanEnd
  <2>1. i' = 0 /\ given' = <<>>
    BY <1>1 DEF ScanEnd, Scanning, FoundInv
  <2>2. Passed' = {}
    BY <1>o, <2>1 DEF Passed, Entries
  <2> QED
    BY <2>1, <2>2, FS_EmptySet DEF PassedInv
<1>2. CASE EntrySkip
  <2>1. ~Eligible(this, i)
    BY <1>2, WantedEligible DEF EntrySkip
  <2> QED
    BY <1>2, <1>o, <2>1, PassedOver DEF EntrySkip, AtEntry
<1>3. CASE EntryNoObject
  <2>1. ~Eligible(this, i)
    BY <1>3 DEF EntryNoObject, Eligible, get_offsize_arch
  <2> QED
    BY <1>3, <1>o, <2>1, PassedOver DEF EntryNoObject, AtEntry
<1>4. CASE EntryHandle
  <2>1. CASE ~Eligible(this, i)
    BY <1>4, <1>o, <2>1, HandleEffect, PassedOver DEF AtEntry
  <2>2. CASE Eligible(this, i)
    <3> SUFFICES ASSUME pc' = "entries", Alone(this)
                 PROVE  PassedInv'
      BY <1>o DEF PassedInv
    <3>1. /\ AtEntry /\ i' = i + 1 /\ given' = Append(given, this.arch[i].offset)
          /\ ~(prog = "ft_nm" /\ Lists(this, i))
      BY <1>4, <2>2, HandleEffect
    <3>2. i \in Entries(this)
      BY <3>1, WantedEligible
    <3>3. Passed' = Passed \cup {i}
      BY <1>o, <2>2, <3>1, <3>2 DEF Passed, Entries
    <3>4. /\ Len(given') = Cardinality(Passed')
          /\ \A n \in Passed' :
               given'[Cardinality({m \in Passed' : m <= n})] = this.arch[n].offset
          /\ \A g \in 1..Len(given') : \E n \in Passed' : given'[g] = this.arch[n].offset
      BY <2>2, <3>1, <3>3, PassedMore
    <3>5. prog = "ft_nm" => \A n \in Passed' : ~Lists(this, n)
      BY <3>1, <3>3 DEF PassedInv, AtEntry
    <3> QED
      BY <1>o, <3>4, <3>5 DEF PassedInv
  <2> QED
    BY <2>1, <2>2
<1>5. CASE \/ NotAnObject \/ NotFat \/ StartFat \/ ScanNext \/ ScanFault
           \/ EntryFault \/ EntriesEnd
  <2>1. pc' # "entries"
    BY <1>5 DEF NotAnObject, NotFat, Handle, StartFat, ScanNext, ScanFault, Scanning,
                EntryFault, EntriesEnd
  <2> QED
    BY <2>1 DEF PassedInv
<1>6. CASE Finished \/ UNCHANGED vars
  <2>1. i' = i /\ given' = given /\ pc' = pc
    BY <1>6 DEF Finished, vars
  <2>2. Passed' = Passed
    BY <1>o, <2>1 DEF Passed
  <2> QED
    BY <1>o, <2>1, <2>2 DEF PassedInv
<1> QED
  BY <1>1, <1>2, <1>3, <1>4, <1>5, <1>6 DEF Next

-----------------------------------------------------------------------------
(***************************************************************************)
(* The answer.                                                             *)
(***************************************************************************)

\* At the end of the loop every eligible entry has been passed.
LEMMA AllHandled ==
  ASSUME TypeOK, PassedInv, Alone(this), pc = "entries", i >= this.nb
  PROVE  /\ Handled(prog, this) = Passed
         /\ prog = "ft_nm" => \A n \in Entries(this) : ~Stops(this, n)
<1>1. i \in Nat /\ this.nb \in Nat
  BY FileType DEF TypeOK, IsFile
<1>2. Passed = {n \in Entries(this) : Eligible(this, n)}
  BY <1>1 DEF Passed, Entries
<1>3. prog = "ft_nm" => \A n \in Entries(this) : ~Stops(this, n)
  BY <1>2 DEF PassedInv, Stops
<1>4. \A n \in Entries(this) : 0..(n - 1) \subseteq Entries(this)
  BY <1>1 DEF Entries
<1> QED
  BY <1>2, <1>3, <1>4 DEF Handled

\* ft_nm stops at the first object that gives a list.
LEMMA StoppedHere ==
  ASSUME TypeOK, PassedInv, Alone(this), pc = "entries", i \in Entries(this),
         prog = "ft_nm", Eligible(this, i), Lists(this, i)
  PROVE  Stops(this, i) /\ Handled(prog, this) = Passed \cup {i}
<1>1. i \in Nat /\ this.nb \in Nat
  BY FileType DEF TypeOK, IsFile
<1>2. \A m \in 0..(i - 1) : m \in Entries(this) /\ (Eligible(this, m) => m \in Passed)
  BY <1>1 DEF Passed, Entries
<1>3. \A m \in 0..(i - 1) : Eligible(this, m) => ~Lists(this, m)
  BY <1>2 DEF PassedInv
<1>4. Stops(this, i)
  BY <1>3 DEF Stops
<1>5. ASSUME NEW n \in Handled(prog, this) PROVE n \in Passed \cup {i}
  <2>1. n \in Entries(this) /\ Eligible(this, n) /\ \A m \in 0..(n - 1) : ~Stops(this, m)
    BY <1>5 DEF Handled
  <2>2. n \in Nat /\ n <= i
    BY <1>1, <1>4, <2>1 DEF Entries
  <2> QED
    BY <1>1, <2>1, <2>2 DEF Passed
<1>6. ASSUME NEW n \in Passed \cup {i} PROVE n \in Handled(prog, this)
  <2>1. n \in Entries(this) /\ Eligible(this, n) /\ n \in Nat /\ n <= i
    BY <1>1 DEF Passed, Entries
  <2>2. \A m \in 0..(n - 1) : m \in 0..(i - 1)
    BY <1>1, <2>1
  <2>3. \A m \in 0..(n - 1) : ~Stops(this, m)
    BY <1>3, <2>2 DEF Stops
  <2> QED
    BY <2>1, <2>3 DEF Handled
<1> QED
  BY <1>4, <1>5, <1>6

LEMMA AnswerInit == Init => AnswerInv
  BY DEF Init, AnswerInv

\* A file that is not a fat file with room for a header is not asked about.
LEMMA NotAsked ==
  ASSUME NEW a, ~(is_fat_file(this.magic) /\ is_safe(32, this.size))
  PROVE  IsSelection(<<prog, file>>, a)
  BY DEF IsSelection, this

LEMMA AnswerStep ==
  TypeOK /\ FoundInv /\ PassedInv /\ AnswerInv /\ [Next]_vars => AnswerInv'
<1> SUFFICES ASSUME TypeOK, FoundInv, PassedInv, AnswerInv, [Next]_vars PROVE AnswerInv'
  OBVIOUS
<1>o. this' = this /\ prog' = prog /\ file' = file /\ i \in Nat
  BY SameFile DEF TypeOK
<1> DEFINE a == [given |-> given', listing |-> listing']
<1>s. IsSelection(<<prog, file>>, a) => AnswerInv'
  BY <1>o DEF AnswerInv, IsSelection
<1>1. CASE NotAnObject \/ NotFat
  <2>1. ~(is_fat_file(this.magic) /\ is_safe(32, this.size))
    BY <1>1, FatIsValid DEF NotAnObject, NotFat
  <2> QED
    BY <1>s, <2>1, NotAsked
<1>2. CASE StartFat
  <2>1. this.size % SizeMod \in Int
    BY FileType, FormatAssumption DEF IsFile, TypeOK
  <2>2. is_safe(32, this.size) => is_safe(SizeofFatHeader, this.size)
    BY <2>1 DEF is_safe, SizeofFatHeader
  <2>3. pc' = "scan"
    BY <1>2, <2>2 DEF StartFat, IsObjectFile
  <2> QED
    BY <2>3 DEF AnswerInv
<1>3. CASE ScanNext \/ ScanFault \/ ScanEnd \/ EntrySkip \/ EntryFault \/ EntryNoObject
  <2>1. pc' \in {"scan", "entries", "fault"}
    BY <1>3 DEF ScanNext, ScanFault, ScanEnd, Scanning, EntrySkip, EntryFault,
                EntryNoObject, AtEntry
  <2> QED
    BY <2>1 DEF AnswerInv
<1>4. CASE EntryHandle
  <2> SUFFICES ASSUME pc' = "done", Alone(this) PROVE IsSelection(<<prog, file>>, a)
    <3>1. pc' \in {"done", "entries"} 
      BY <1>4 DEF EntryHandle, AtEntry, Handle
    <3>2. ~Alone(this) => IsSelection(<<prog, file>>, a)
      BY DEF IsSelection, this
    <3> QED
      BY <1>s, <3>1, <3>2 DEF AnswerInv
  <2>1. /\ AtEntry /\ pc = "entries" /\ Eligible(this, i) /\ prog = "ft_nm" /\ Lists(this, i)
        /\ given' = Append(given, this.arch[i].offset) /\ listing' = this.arch[i].offset
    BY <1>4, HandleEffect DEF AtEntry
  <2>2. i \in Entries(this)
    BY <2>1, WantedEligible
  <2>3. Stops(this, i) /\ Handled(prog, this) = Passed \cup {i}
    BY <2>1, <2>2, StoppedHere
  <2> DEFINE T == Passed \cup {i}
  <2>4. /\ Len(given') = Cardinality(T)
        /\ \A n \in T : given'[Cardinality({m \in T : m <= n})] = this.arch[n].offset
    BY <2>1, PassedMore
  <2> HIDE DEF T
  <2> QED
    BY <2>1, <2>2, <2>3, <2>4 DEF IsSelection, this, T
<1>5. CASE EntriesEnd
  <2> SUFFICES ASSUME Alone(this) PROVE IsSelection(<<prog, file>>, a)
    BY <1>s DEF IsSelection, this
  <2>1. pc = "entries" /\ i >= this.nb /\ given' = given /\ listing' = None
    BY <1>5 DEF EntriesEnd, FoundInv
  <2>2. /\ Handled(prog, this) = Passed
        /\ prog = "ft_nm" => \A n \in Entries(this) : ~Stops(this, n)
    BY <2>1, AllHandled
  <2>3. /\ Len(given) = Cardinality(Passed)
        /\ \A n \in Passed : given[Cardinality({m \in Passed : m <= n})] = this.arch[n].offset
    BY <2>1 DEF PassedInv
  <2> QED
    BY <2>1, <2>2, <2>3 DEF IsSelection, this
<1>6. CASE Finished \/ UNCHANGED vars
  BY <1>6, <1>o DEF Finished, vars, AnswerInv, IsSelection
<1> QED
  BY <1>1, <1>2, <1>3, <1>4, <1>5, <1>6 DEF Next

LEMMA IndInit == Init => IInv
  BY TypeInit, FoundInit, PassedInit, AnswerInit DEF IInv

LEMMA IndStep == IInv /\ [Next]_vars => IInv'
  BY TypeStep, FoundStep, PassedStep, AnswerStep DEF IInv

\* Choosing the objects of a file implements its contract: nothing is answered
\* before the end, and then the objects handled are those of the eligible
\* entries, each once and in their order, for ft_nm up to the first with a list.
THEOREM SelectionImplements == Spec => Implements
<1>1. Init => Contract!Init
  BY TypeInit DEF Init, Contract!Init, TypeOK
<1>2. ASSUME IInv, IInv', [Next]_vars
      PROVE  [Contract!Answer]_<<<<prog, file>>, pc \in {"done", "foreign"},
               IF pc \in {"done", "foreign"}
               THEN [given |-> given, listing |-> listing] ELSE <<>>>>
  <2>1. prog' = prog /\ file' = file
    BY <1>2, SameFile
  <2>2. CASE pc \in {"done", "foreign"}
    <3>1. UNCHANGED vars
      BY <1>2, <2>2
         DEF Next, vars, NotAnObject, NotFat, IsObjectFile, StartFat, ScanNext, ScanFault,
             ScanEnd, Scanning, EntrySkip, EntryFault, EntryNoObject, EntryHandle, AtEntry,
             EntriesEnd, Finished
    <3> QED
      BY <3>1 DEF vars
  <2>3. CASE pc \notin {"done", "foreign"} /\ pc' \notin {"done", "foreign"}
    BY <2>1, <2>3
  <2>4. CASE pc \notin {"done", "foreign"} /\ pc' \in {"done", "foreign"}
    <3>1. IsSelection(<<prog, file>>, [given |-> given', listing |-> listing'])
      BY <1>2, <2>1, <2>4 DEF IInv, AnswerInv, IsSelection
    <3> QED
      BY <2>1, <2>4, <3>1 DEF Contract!Answer
  <2> QED
    BY <2>2, <2>3, <2>4
<1> QED
  BY <1>1, <1>2, IndInit, IndStep, PTL DEF Spec, Implements, Contract!Spec

=============================================================================
