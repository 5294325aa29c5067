------------------------------ MODULE NmObject ------------------------------
(***************************************************************************)
(* ft_nm on one Mach-O object: handle_not_fat and everything it calls.     *)
(*                                                                         *)
(* The object is mapped privately and converted in place: a file in the    *)
(* other byte order is swapped field by field, by the code that is about   *)
(* to read the field.  Nothing records what has been swapped, so reading a *)
(* field twice is right only if it was swapped exactly once before.        *)
(*                                                                         *)
(* Three loops are nested: get_nm_list walks the load commands up to       *)
(* LC_SYMTAB, list_symtab builds one list node per symbol-table entry, and *)
(* for an entry defined in a section get_section walks the load commands   *)
(* again, counting sections.  One action is one turn of a loop.            *)
(***************************************************************************)
EXTENDS NmListing

CONSTANT Objects  \* the objects the program may be given, by the name of their file

ASSUME ObjectsAssumption == \A f \in DOMAIN Objects : IsObject(Objects[f])

VARIABLES
  file,    \* the file being listed
  mem,     \* which fields of the mapping have been reversed an odd number of times
  pc,      \* the loop the program is in
  ncmds,   \* lc_info.number_cmds
  i,       \* commands walked
  lc,      \* the command get_nm_list is at
  k,       \* symbol-table entries listed
  list,    \* the t_nm list; <<>> is NULL
  letter,  \* the letter of the entry being listed, before its case is chosen
  h,       \* t_helper and lc of get_section
  found,   \* the section get_section returned; <<>> is NULL
  live     \* t_nm nodes allocated and not freed

vars == <<file, mem, pc, ncmds, i, lc, k, list, letter, h, found, live>>

obj == Objects[file]

Untouched == [ncmds |-> FALSE, lc |-> {}, sym |-> FALSE, nl |-> {}, sec |-> {}]
Toggle(S, x) == (S \ {x}) \cup ({x} \ S)

(***************************************************************************)
(* Reading the mapping m.                                                  *)
(***************************************************************************)
Ncmds(m)     == Read(obj.ncmds, m.ncmds = obj.swap)
Cmd(m, p)    == LET c == LcAt(obj, p).cmd IN
                IF (p \in m.lc <=> obj.swap) \/ c = "NONE" THEN c ELSE "OTHER"
\* Mutant: a command is stepped over by the size of its first two fields.
CmdsizeFixed(m, p) == SizeofCommand

Cmdsize(m, p) == Read(LcAt(obj, p).cmdsize, p \in m.lc <=> obj.swap)
Symtab(m, f)  == Read(LcAt(obj, lc)[f], m.sym = obj.swap)

\* swap_segment_command reverses four bytes of fileoff or filesize, which
\* nothing reads, and leaves nsects as it is in the file.
Nsects(p) == Read(Len(LcAt(obj, p).secs), ~obj.swap)

\* swap_nlist exchanges n_sect with the first byte of n_desc, and reverses the
\* bytes from the second byte of n_desc to the last but one of n_value: the last
\* but one leaves n_value, of which only being zero is told apart here.
Swapped(e) ==
  [e EXCEPT !.sect  = e.desc[1],
            !.desc  = <<e.sect, (e.value \div 256) % 256>>,
            !.value = e.desc[2] + (e.value % 256) + e.value \div 65536]
Entry(m, n) == IF n \in m.nl THEN Swapped(NlAt(obj, n)) ELSE NlAt(obj, n)
\* get_symbol_name takes n_strx for an int.
Strx(m, n)  == ToInt(Read(NlAt(obj, n).strx, n \in m.nl <=> obj.swap))

\* get_nlist, and the string table list_symtab computes once per call.
NlistAt(m, n) == obj.base + Symtab(m, "symoff") + n * SizeofNlist(obj.is64)
StringTable(m) == obj.base + Symtab(m, "stroff")

-----------------------------------------------------------------------------
Init ==
  /\ file \in DOMAIN Objects
  /\ mem = Untouched
  /\ pc = "start"
  /\ ncmds = 0 /\ i = 0 /\ lc = 0 /\ k = 0
  /\ list = <<>> /\ letter = "-" /\ found = <<>> /\ live = 0
  /\ h = [i |-> 0, count |-> 0, lc |-> 0]

\* handle_not_fat: the header does not fit.
StartReject ==
  /\ pc = "start" /\ ~HeaderSafe(obj)
  /\ pc' = "done"
  /\ UNCHANGED <<file, mem, ncmds, i, lc, k, list, letter, h, found, live>>

\* handle_not_fat: get_lc converts ncmds and reads it.
StartWalk ==
  LET m == [mem EXCEPT !.ncmds = (@ # obj.swap)] IN
  /\ pc = "start" /\ HeaderSafe(obj)
  /\ mem' = m
  /\ ncmds' = Ncmds(m)
  /\ i' = 0 /\ lc' = obj.base + SizeofHeader(obj.is64)
  /\ pc' = "walk"
  /\ UNCHANGED <<file, k, list, letter, h, found, live>>

\* get_nm_list: no command left, or the next one does not fit.
WalkEnd ==
  /\ pc = "walk"
  /\ i >= ncmds \/ ~is_safe(lc + SizeofCommand, obj.size)
  /\ pc' = "done"
  /\ UNCHANGED <<file, mem, ncmds, i, lc, k, list, letter, h, found, live>>

CanWalk == pc = "walk" /\ i < ncmds /\ is_safe(lc + SizeofCommand, obj.size)
ConvertCommand == IF obj.swap THEN [mem EXCEPT !.lc = Toggle(@, lc)] ELSE mem

\* Mutant: the command is not stepped over.
WalkSkipStay ==
  LET m == ConvertCommand IN
  /\ CanWalk /\ Cmd(m, lc) # "SYMTAB"
  /\ mem' = m
  /\ UNCHANGED <<file, pc, ncmds, i, lc, k, list, letter, h, found, live>>

\* get_nm_list: a command other than LC_SYMTAB.
WalkSkip ==
  LET m == ConvertCommand IN
  /\ CanWalk /\ Cmd(m, lc) # "SYMTAB"
  /\ mem' = m
  /\ lc' = lc + Cmdsize(m, lc) /\ i' = i + 1
  /\ UNCHANGED <<file, pc, ncmds, k, list, letter, h, found, live>>

\* get_nm_list enters list_symtab, which gives up when the command is cut off.
WalkSymtab ==
  LET m == ConvertCommand
      fits == is_safe(lc + SizeofSymtab, obj.size) IN
  /\ CanWalk /\ Cmd(m, lc) = "SYMTAB"
  /\ mem' = IF fits THEN [m EXCEPT !.sym = (@ # obj.swap)] ELSE m
  /\ k' = 0
  /\ pc' = IF fits THEN "syms" ELSE "done"
  /\ UNCHANGED <<file, ncmds, i, lc, list, letter, h, found, live>>

\* list_symtab: the list is complete.
SymsEnd ==
  /\ pc = "syms" /\ k >= Symtab(mem, "nsyms")
  /\ pc' = "done"
  /\ UNCHANGED <<file, mem, ncmds, i, lc, k, list, letter, h, found, live>>

EntrySafe ==
  /\ is_safe(StringTable(mem), obj.size)
  /\ is_safe(NlistAt(mem, k), obj.size)

\* list_symtab: an entry or the string table starts outside the file.
SymReject ==
  /\ pc = "syms" /\ k < Symtab(mem, "nsyms") /\ ~EntrySafe
  /\ list' = <<>> /\ live' = live - Len(list)
  /\ pc' = "done"
  /\ UNCHANGED <<file, mem, ncmds, i, lc, k, letter, h, found>>

\* Mutant: get_section has get_lc convert the header again.
SymStartSwapping ==
  LET m == [mem EXCEPT !.ncmds = (@ # obj.swap),
                       !.nl = IF obj.swap THEN Toggle(@, k) ELSE @]
      c == PreLetter(Entry(m, k)) IN
  /\ pc = "syms" /\ k < Symtab(mem, "nsyms") /\ EntrySafe
  /\ mem' = m
  /\ live' = live + 1
  /\ letter' = c
  /\ h' = [i |-> 0, count |-> 0, lc |-> obj.base + SizeofHeader(obj.is64)]
  /\ found' = <<>>
  /\ ncmds' = Ncmds(m)
  /\ pc' = IF c = "s" THEN "sect" ELSE "name"
  /\ UNCHANGED <<file, i, lc, k, list>>

\* list_symtab converts the entry; init_one_nm allocates its node and, for an
\* entry defined in a section, get_section reads ncmds again and starts over.
SymStart ==
  LET m == IF obj.swap THEN [mem EXCEPT !.nl = Toggle(@, k)] ELSE mem
      c == PreLetter(Entry(m, k)) IN
  /\ pc = "syms" /\ k < Symtab(mem, "nsyms") /\ EntrySafe
  /\ mem' = m
  /\ live' = live + 1
  /\ letter' = c
  /\ h' = [i |-> 0, count |-> 0, lc |-> obj.base + SizeofHeader(obj.is64)]
  /\ found' = <<>>
  /\ ncmds' = Ncmds(m)
  /\ pc' = IF c = "s" THEN "sect" ELSE "name"
  /\ UNCHANGED <<file, i, lc, k, list>>

\* Mutant: sections are counted from 0.
IndexFromZero == Entry(mem, k).sect + 1

Index   == Entry(mem, k).sect
\* Mutant: get_section goes as far as ncmds says.
CanSeekFar == pc = "sect" /\ h.i < ncmds

CanSeek == pc = "sect" /\ h.i < ncmds /\ is_safe(h.lc, obj.size)
AtSegment == Cmd(mem, h.lc) = "SEGMENT" /\ is_segmant_safe(h.lc, obj.is64, obj.size)

\* h.count + h.add, an unsigned int.
Sections == (h.count + Nsects(h.lc)) % SizeMod

\* get_section: not a segment, or a segment that ends before the section.
SectSkip ==
  /\ CanSeek
  /\ IF Cmd(mem, h.lc) = "SEGMENT"
     THEN /\ AtSegment /\ Sections < Index
          /\ h' = [i |-> h.i + 1, count |-> Sections, lc |-> h.lc + Cmdsize(mem, h.lc)]
     ELSE h' = [h EXCEPT !.i = @ + 1, !.lc = @ + Cmdsize(mem, h.lc)]
  /\ UNCHANGED <<file, mem, pc, ncmds, i, lc, k, list, letter, found, live>>

\* get_section returns the section's header.
SectHit ==
  /\ CanSeek /\ AtSegment /\ Sections >= Index /\ Index > 0
  /\ found' = <<h.lc, Index - h.count>>
  /\ pc' = "letter"
  /\ UNCHANGED <<file, mem, ncmds, i, lc, k, list, letter, h, live>>

\* Section number 0: i - count - 1 is 2^32 - 1, and that many sections on, modulo
\* 2^32 bytes, the pointer has left the mapping and symbol faults on it.
SectWild ==
  /\ CanSeek /\ AtSegment /\ Index = 0
  /\ pc' = "crash"
  /\ UNCHANGED <<file, mem, ncmds, i, lc, k, list, letter, h, found, live>>

\* get_section returns NULL, and symbol keeps 's'.
SectNone ==
  /\ pc = "sect"
  /\ \/ h.i >= ncmds
     \/ ~is_safe(h.lc, obj.size)
     \/ Cmd(mem, h.lc) = "SEGMENT" /\ ~AtSegment
  /\ pc' = "name"
  /\ UNCHANGED <<file, mem, ncmds, i, lc, k, list, letter, h, found, live>>

\* In the other byte order nsects is too large: the pointer get_section returns,
\* which nothing checks, may lie behind the sections of its segment.
Astray == obj.swap /\ found[2] \notin DOMAIN LcAt(obj, found[1]).secs

\* symbol: swap_section reverses bytes of the two names, then they are compared.
SectLetter ==
  LET m == IF obj.swap THEN [mem EXCEPT !.sec = Toggle(@, found)] ELSE mem
      secs == LcAt(obj, found[1]).secs
      readable == found \notin m.sec /\ found[2] \in DOMAIN secs IN
  /\ pc = "letter" /\ ~Astray
  /\ mem' = m
  /\ letter' = IF readable THEN SectionLetter(secs[found[2]]) ELSE "s"
  /\ pc' = "name"
  /\ UNCHANGED <<file, ncmds, i, lc, k, list, h, found, live>>

\* The bytes swap_section reverses of what is at the pointer, and whether the n bytes
\* at ptr have some of them.
SectionAt == found[1] + SizeofSegment(obj.is64) + (found[2] - 1) * SizeofSection(obj.is64)
Reverses(ptr, n) ==
  ptr < SectionAt + (IF obj.is64 THEN 24 ELSE 16) /\ SectionAt + 4 < ptr + n

\* symbol: swap_section reverses bytes of whatever is behind the segment, commands,
\* the symbol table's fields or its entries, converted or not, or faults there.
\* The model ends where the mapping is not the object any more.
SectAstray ==
  /\ pc = "letter" /\ Astray
  /\ mem' = [mem EXCEPT
       !.lc  = {ptr \in @ : ~Reverses(ptr, SizeofCommand)},
       !.sym = @ /\ ~Reverses(lc + SizeofCommand, SizeofSymtab - SizeofCommand),
       !.nl  = {n \in @ : ~Reverses(NlistAt(mem, n), SizeofNlist(obj.is64))}]
  /\ pc' = "astray"
  /\ UNCHANGED <<file, ncmds, i, lc, k, list, letter, h, found, live>>

NameAt == StringTable(mem) + Strx(mem, k)

\* Mutant: add_list puts the node in front.
add_list_front(l, node) == <<node>> \o l

add_list(l, node) == Append(l, node)

\* list_symtab appends the node.
AddSymbol ==
  /\ pc = "name" /\ is_safe(NameAt, obj.size)
  /\ list' = add_list(list, [sym    |-> k,
                             letter |-> Cased(letter, Entry(mem, k).ext),
                             name   |-> NameAt])
  /\ k' = k + 1
  /\ pc' = "syms"
  /\ UNCHANGED <<file, mem, ncmds, i, lc, letter, h, found, live>>

\* Mutant: the list is not freed.
NameRejectLeak ==
  /\ pc = "name" /\ ~is_safe(NameAt, obj.size)
  /\ list' = <<>> /\ live' = live
  /\ pc' = "done"
  /\ UNCHANGED <<file, mem, ncmds, i, lc, k, letter, h, found>>

\* list_symtab: the name starts outside the file.  The list is freed; the node
\* just allocated is not on it.
NameReject ==
  /\ pc = "name" /\ ~is_safe(NameAt, obj.size)
  /\ list' = <<>> /\ live' = live - Len(list)
  /\ pc' = "done"
  /\ UNCHANGED <<file, mem, ncmds, i, lc, k, letter, h, found>>

Ends     == {"done", "crash", "astray"}
Finished == pc \in Ends /\ UNCHANGED vars

Next ==
  \/ StartReject \/ StartWalk
  \/ WalkEnd \/ WalkSkip \/ WalkSymtab
  \/ SymsEnd \/ SymReject \/ SymStart
  \/ SectSkip \/ SectHit \/ SectWild \/ SectNone \/ SectLetter \/ SectAstray
  \/ AddSymbol \/ NameReject
  \/ Finished

\* One sequential process: it runs until it returns.
Spec == Init /\ [][Next]_vars /\ WF_vars(Next)

-----------------------------------------------------------------------------
(***************************************************************************)
(* Properties.                                                             *)
(***************************************************************************)
Node == [sym : Nat, letter : Letters, name : Nat]
Memory == [ncmds : BOOLEAN, lc : SUBSET Nat, sym : BOOLEAN,
           nl : SUBSET Nat, sec : SUBSET Seq(Int)]
Walker == [i : Nat, count : Nat, lc : Nat]
Pcs  == {"start", "walk", "syms", "sect", "letter", "name"} \cup Ends

\* Every variable has its type, and the list is what the loop has appended.
TypeOK ==
  /\ file \in DOMAIN Objects /\ pc \in Pcs
  /\ mem \in Memory
  /\ ncmds \in Nat /\ i \in Nat /\ lc \in Nat /\ k \in Nat /\ live \in Int
  /\ letter \in Small
  /\ list \in Seq(Node) /\ found \in Seq(Int)
  /\ h \in Walker

Sizes(o) == \A p \in DOMAIN o.lc : o.lc[p].cmdsize > 0
InTable  == pc \in {"syms", "sect", "letter", "name"}

\* The sections of all segments together are an unsigned int.
Countable(o) == \A j \in 0..o.ncmds : o.first[j] < SizeMod

\* Both walks of the load commands are on a command boundary and agree with the
\* header, whatever was converted between two steps: get_nm_list is at command
\* i, get_section at command h.i with the sections before it counted.  For an
\* object in the other byte order this holds up to the symbol table's command
\* (the commands after it are never converted), and if no command has size 0.
OnCommand ==
  /\ pc \in {"walk", "syms", "sect", "letter", "name"} /\ (obj.swap => Sizes(obj)) =>
       /\ ncmds = obj.ncmds /\ i \in 0..ncmds
       /\ lc = obj.off[i]
  /\ pc \in {"sect", "letter"} /\ (obj.swap => Sizes(obj) /\ h.i <= i + 1) =>
       /\ h.i \in 0..ncmds
       /\ h.lc = obj.off[h.i]
       /\ ~obj.swap /\ Countable(obj) => h.count = obj.first[h.i]

\* The section an entry's letter is read from is the one its n_sect counts to
\* over all segments, not only within the segment the walk happens to be in.
SectionResolved ==
  pc = "letter" /\ ~obj.swap /\ Countable(obj) =>
    \E j \in 0..(obj.ncmds - 1) :
      /\ Holds(obj, j, NlAt(obj, k).sect)
      /\ found = <<obj.off[j], NlAt(obj, k).sect - obj.first[j]>>

\* Every node is on the list, being built, or the one node that a name outside
\* the file loses: free_list_return_null frees the list, which it is not on yet.
NodesAccounted ==
  \/ live = Len(list) + (IF pc \in {"sect", "letter", "name", "crash", "astray"} THEN 1 ELSE 0)
  \/ pc = "done" /\ list = <<>> /\ live = 1

\* No field that a loop has converted is reversed again while the object is
\* listed, however often the second walk passes over it; but by swap_section
\* through a pointer that left its segment, and then nothing up to that segment.
ConversionKept ==
  [][Sizes(obj) =>
       /\ mem.ncmds => mem'.ncmds
       /\ pc' # "astray" => /\ mem.sym => mem'.sym
                            /\ mem.lc \cap DOMAIN obj.lc \subseteq mem'.lc
                            /\ mem.nl \subseteq mem'.nl
       /\ pc' = "astray" =>
            \A ptr \in mem.lc : ptr <= found[1] => ptr \in mem'.lc]_vars

\* Listing an object never faults.  It does not as long as no entry that is read
\* as defined in a section has n_sect 0, which is NO_SECT.
NoCrash == pc # "crash"

\* Of an object in the other byte order no symbol is defined in a section; of one in
\* the host's the sections can be counted.
Listable(o) == IF o.swap THEN \A n \in DOMAIN o.nl : o.nl[n].kind # "SECT" ELSE Countable(o)

\* The bytes the next step reads of the mapping, <<first, behind the last>>.
Extents ==
  LET at(p, bytes) == <<p, p + bytes>> IN
  CASE pc = "start" /\ HeaderSafe(obj) -> {at(obj.base, SizeofHeader(obj.is64))}
    [] CanWalk -> {at(lc, SizeofCommand)}
    [] pc = "syms" /\ k < Symtab(mem, "nsyms") /\ EntrySafe ->
         {at(lc, SizeofSymtab), at(NlistAt(mem, k), SizeofNlist(obj.is64))}
    [] CanSeek -> {at(h.lc, IF AtSegment THEN SizeofSegment(obj.is64) ELSE SizeofCommand)}
    [] pc = "letter" -> {at(SectionAt, SizeofSection(obj.is64))}
    [] OTHER -> {}
SectionsInside(o) ==
  \A p \in DOMAIN o.lc : o.lc[p].cmd = "SEGMENT" =>
    p + SizeofSegment(o.is64) + Len(o.lc[p].secs) * SizeofSection(o.is64) <= o.size

\* is_safe looks at one address, mostly the first of a structure, and takes the one
\* behind the file for safe.  Whatever counts, sizes and offsets a file states, no
\* structure read reaches further behind its end than a symbol table's entry, so
\* that only a file with less than that left of its last page can fault.  What
\* get_section returns is not checked at all: the segments' sections must be in
\* the file, and an object in the other byte order have no section symbol.
NearEnd ==
  SectionsInside(obj) /\ Listable(obj) =>
    \A x \in Extents : 0 <= x[1] /\ x[2] <= obj.size + SizeofNlist(obj.is64)

\* The three nested loops end, whatever the sizes and counts of the file say.
Termination == <>(pc \in Ends)

\* Listing implements its contract: nothing is answered before the end.  Of an
\* object in the other byte order that is asked only if none of its symbols is
\* defined in a section; names and the order of the table are then right, and the
\* letters of the entries that swap_nlist does not mix up.
RightFor(f, a) == Listable(Objects[f]) => IsAnswer(Objects[f], a)
Contract == INSTANCE OneAnswer WITH
  Inputs   <- DOMAIN Objects,
  Right    <- RightFor,
  input    <- file,
  answered <- pc \in Ends,
  answer   <- IF pc = "done" THEN list ELSE <<>>
Implements == Contract!Spec

-----------------------------------------------------------------------------
(***************************************************************************)
(* The inductive invariant behind OnCommand, SectionResolved, NoCrash and  *)
(* Implements.                                                             *)
(***************************************************************************)
Active == pc \in {"walk", "syms", "sect", "letter", "name"}

\* ncmds is converted once, by the first get_lc; a host-order object is not touched.
HeaderInv ==
  /\ pc = "start" => mem = Untouched
  /\ pc \in {"start", "walk"} => list = <<>> /\ k = 0
  /\ Active => ncmds = obj.ncmds /\ mem.ncmds = obj.swap
  /\ ~obj.swap => mem = Untouched

\* The commands converted are the ones the first walk has reached: it never
\* comes back to one, since no command has size 0.
WalkInv ==
  Active /\ (obj.swap => Sizes(obj)) =>
    /\ i \in 0..ncmds /\ lc = obj.off[i]
    /\ pc # "walk" => i < ncmds
    /\ obj.swap =>
         /\ \A j \in 0..(i - 1) :
              obj.off[j] <= lc /\ (lc \in DOMAIN obj.lc => obj.off[j] < lc)
         /\ \A p \in DOMAIN obj.lc :
              p \in mem.lc <=>
                \E j \in 0..(IF pc = "walk" THEN i - 1 ELSE i) : obj.off[j] = p

\* The command get_nm_list is at is the first symbol table's, if it is one.
SymtabInv ==
  Active /\ ~obj.swap =>
    /\ HeaderSafe(obj)
    /\ \A j \in 0..(i - 1) : /\ LcAt(obj, obj.off[j]).cmd # "SYMTAB"
                             /\ is_safe(obj.off[j] + SizeofCommand, obj.size)
    /\ pc # "walk" => /\ LcAt(obj, lc).cmd = "SYMTAB"
                      /\ is_safe(lc + SizeofCommand, obj.size)
                      /\ is_safe(lc + SizeofSymtab, obj.size)

\* get_section has passed only segments that end before the section it looks for.
SeekInv ==
  pc \in {"sect", "letter"} /\ (obj.swap => Sizes(obj) /\ h.i <= i + 1) =>
    /\ h.i \in 0..ncmds /\ h.lc = obj.off[h.i]
    /\ ~obj.swap /\ Countable(obj) =>
         /\ h.count = obj.first[h.i]
         /\ h.i = 0 \/ h.count < NlAt(obj, k).sect \/ NlAt(obj, k).sect = 0
         /\ \A j \in 0..(h.i - 1) : /\ ~Holds(obj, j, NlAt(obj, k).sect)
                                    /\ SegmentInside(obj, j)
    /\ pc = "letter" /\ ~obj.swap /\ Countable(obj) =>
         /\ h.i < ncmds /\ SegmentInside(obj, h.i)
         /\ Holds(obj, h.i, NlAt(obj, k).sect)
         /\ found = <<h.lc, NlAt(obj, k).sect - h.count>>

\* The table's own fields, and the entries listed so far, were converted once.
TableInv ==
  /\ pc \in {"start", "walk"} => ~mem.sym /\ mem.nl = {}
  /\ pc = "syms" => \A n \in mem.nl : n < k
  /\ pc \in {"sect", "letter", "name"} => \A n \in mem.nl : n <= k

\* The pointer get_section returns is not before its segment's sections.
FoundInv ==
  /\ pc = "sect" => h.count = 0 \/ h.count < Index
  /\ pc = "letter" => found \in Nat \X (Nat \ {0})

\* What the contract is about: objects in the host's order, whose sections can be
\* counted and whose section symbols have a section.
HostOrder ==
  \A f \in DOMAIN Objects :
    /\ ~Objects[f].swap /\ Countable(Objects[f])
    /\ \A n \in DOMAIN Objects[f].nl :
         Objects[f].nl[n].kind = "SECT" => Objects[f].nl[n].sect > 0

\* The nodes listed so far are right, and so is the answer at the end.
ListInv ==
  LET c == LcAt(obj, lc) IN
  /\ pc \notin {"crash", "astray"}
  /\ InTable =>
       /\ Len(list) = k /\ k <= c.nsyms
       /\ \A n \in 0..(k - 1) : /\ EntryInside(obj, c, n)
                                /\ RightNode(obj, c, n, list[n + 1])
  /\ pc \in {"sect", "letter", "name"} =>
       /\ k < c.nsyms
       /\ is_safe(obj.base + c.stroff, obj.size)
       /\ is_safe(EntryOf(obj, c, k), obj.size)
  /\ pc \in {"sect", "letter"} => NlAt(obj, k).kind = "SECT"
  /\ pc = "sect" => letter = "s"
  /\ pc = "name" => letter \in RightLetter(obj, NlAt(obj, k))
  /\ pc = "done" => IsAnswer(obj, list)

IInv == TypeOK /\ HeaderInv /\ WalkInv /\ SymtabInv /\ SeekInv /\ TableInv /\ FoundInv
HostIInv == IInv /\ (HostOrder => ListInv)
=============================================================================
