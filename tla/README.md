# A verification project for ft_nm and ft_otool

The repository holds two command-line programs for Mach-O files: `ft_nm`
(`src/src/ft_nm`), which lists symbol tables, and `ft_otool`
(`src/src/ft_otool`), which dumps text sections, on a small C library
(`src/libft`). Paths in this file are relative to the repository as
`src/<path>`, as in PROJECT.json.

Both programs are sequential. What is hard about them is not concurrency: they
map each file privately and **convert it in place**, field by field, at the place
that is about to read a field, with nothing that records what was converted;
they follow offsets, sizes and counts that a file states, against one bounds
check (`is_safe`); and they go on with the next entry or the next file after a
failure. The modules are about exactly these three things.

## Components

| component | state it keeps | operations | modules |
|---|---|---|---|
| bounds checks, magic numbers (`is_safe.c`, `question.c`) | the globals `g_begin`, `g_map_size` | `is_safe`, `is_lc_safe`, `is_segmant_safe`, `is_fat_file`, `is_64_file`, ... | MachO |
| byte-order conversion (`swap_bytes.c`, `swap_elements*.c`) | the bytes of the mapping | `swap_endiane` and the conversions of each structure | SwapStruct |
| one object in ft_nm (`handle_not_fat.c`, `get.c`, `get_symbol_letter.c`, `helper*.c`) | the mapping, three loop positions, the list | `get_nm_list`, `list_symtab`, `get_section`, `symbol`, `add_list` | MachObject, NmListing, NmObject |
| sorting (`sort_list_by_name.c`, `nm.c`) | the list, two positions | `sort_list_by_name` | NmSort |
| printing (`print_nm_list.c`, `dump.c`) | a position, the output | `print_nm_list`, `can_show_list`, `hexdump_address` | NmPrint (over NmSort) |
| flags (`set_flag.c`) | ten bytes, two positions | `set_flags_nm` | NmFlags, Main |
| fat files (`handle_nm.c`, `handle_each_arch.c`, `handle_otool.c`, ft_otool's `helper.c`) | `found_64`, a position | `init_t_fat`, `handle_fat`, `handle_each_arch` | Slices |
| one object in ft_otool (`handle_not_fat.c`, `helper.c`, `dump.c`) | the mappings, positions, the output | `get_text_section`, `text_in_seg`, `put_text_section`, `dump_section` | Otool |
| drivers (both `main.c`, `get_fd`) | descriptors, mappings, globals, exit status, output | `main`, `multi_args`, `handle_args`, `handle_each_arg`, `get_fd` | Driver, Main (over NmFlags and Driver) |
| libft: `ft_printf` | the format, a position, `t_data` | `set_flags`, `flags_star`, `set_cast`, `con_d`, `con_x`, ... | FtPrintf |
| libft: `get_next_line` | a list of descriptors behind a static pointer, each with text read ahead | `get_next_line`, `find`, `add` | LineReader, GetNextLine |
| libft: `ft_strcmp`, `ft_strchr`, `ft_strlen` | none | as the programs use them | within NmSort, NmFlags, FtPrintf |
| libft: the rest | none | | not modelled |
| `src/nm.c` | | a first draft that no target builds | not modelled |
| test scripts, Makefiles | | | not modelled |

How they call each other: `main` (Main) reads the flags (NmFlags) and hands the rest
of the command line to the loop over the files (Driver), which gives each mapped
file to `nm` or `otool`; these choose objects in it (Slices) and give
each to `handle_not_fat` (NmObject, Otool), which converts what it reads
(SwapStruct) after `is_safe` (MachO). For ft_nm a list comes back, is sorted
(NmSort) and printed (NmPrint). Both programs write through `ft_printf`
(FtPrintf). What they share is the mapping: two entries of a
fat file may name the same offset, and then the second handling of the object
finds it as the first one left it.

What makes each right, in a sentence: *NmObject* gives every symbol the letter of
the section its n_sect counts to, or no list at all (in the host's byte order); *SwapStruct* reverses the
fields and only them; *NmSort* loses and mixes nothing and gives name/address
order; *NmPrint* shows each selected symbol once; *NmFlags* fits every command
line into ten bytes; *Slices* takes the same objects whatever the order of the
entries; *Otool* prints the first text section and no byte outside it; *Driver*
reports every file, separates their outputs, and never checks one file's
pointers against another's bounds; *FtPrintf* writes what C says of a call and
returns how much it wrote; *Main* does with a command line what *Driver* does with
the files a user means by it; *GetNextLine* hands out each line of each descriptor
once.

`get_next_line` is called by neither program; it is modelled because it is the one
part of the library that keeps state from call to call.

## Modules

`MachO` has the classification of magic numbers, the sizes of structures, and
`is_safe`. A pointer is its distance from `g_begin`. `Read(v, hostOrder)` is a
field as the host sees it: the value, or, in the wrong byte order, the value
times `Far`, since a reversed small number is a huge one.

`MachObject` is an object as data: its commands by offset, its symbol-table
entries, and two sums a reader needs — `off[j]`, the offset of command j, and
`first[j]`, the number of sections before it. All of an object is arbitrary
within `IsObject`: offsets, counts and sizes need not fit the file. Bytes between
commands are zeros. Of an entry it has the index of the name, the kind, N_EXT, n_sect,
both bytes of n_desc as they are in the file, and n_value. The letters
(`pre_symbol_letter`, `pre_64`, `symbol`, the case) are operators here; a debugging
symbol with N_EXT gets '-' less 32, a carriage return, as in the code.

`NmListing` is the abstract specification: what the list must be, stated over
the object without any loop. In two places it takes the code's reading for the right
one. The index of a name is an int (`ToInt`), so that one of 2^31 or more is a name
before the string table, which is shown if it is inside the file. And in the other
byte order it asks nothing of the letter of an entry that `swap_nlist` mixes up
(`Mixed`), since the code gives these entries other letters (see below). `OneAnswer` is the shape shared by all the abstract
specifications: a computation is given an input and, once, gives an answer that
is right for it. Each detailed module instantiates it as `Contract` with its own
`Right`, and `Implements == Contract!Spec` says that the detailed one refines it.

`NmObject` has one action per turn of each of the three nested loops of
`handle_not_fat`: `StartReject`, `StartWalk` (`get_lc`), `WalkSkip`, `WalkEnd`,
`WalkSymtab` (`get_nm_list`), `SymsEnd`, `SymReject`, `SymStart`, `AddSymbol`,
`NameReject` (`list_symtab`, `init_one_nm`), `SectSkip`, `SectHit`, `SectWild`,
`SectNone` (`get_section`), `SectLetter`, `SectAstray` (`symbol`). `mem` holds which
fields have been reversed an odd number of times; every read goes through it, and
`Swapped` is an entry as `swap_nlist` leaves it, with a byte of n_value in n_desc, one of
n_desc in n_value, and n_sect and n_desc exchanged. `SectWild` is the pointer
`get_section` computes when n_sect is 0: `i - count - 1` is then 2^32 - 1 in unsigned
arithmetic, and so is its product with the size of a section modulo 2^32, so that the
pointer lies almost 4 GiB behind the segment, and `symbol` reads through it. `SectAstray` is
the pointer of an object in the other byte order whose section lies behind its segment:
nsects is never converted, so `get_section` takes any segment to hold any section. Nothing
checks that pointer, and `swap_section` reverses bytes of what is there, commands that
were converted, the symbol table's fields, entries, or nothing of the mapping. The step
takes out of `mem` what these bytes belong to (`Reverses`), and the model ends there
("astray"): the program goes on, with a mapping that is no object any more.
`h.count + h.add` wraps as the unsigned int it is (`Sections`). `live` counts nodes
allocated.
`Extents` are the bytes the next step reads, which is what `NearEnd` is about.

`NmSort` has one action per pair the exchange sort compares. An address
difference is cut to an int by `ToInt`, with `Half` for 2^31. `NmPrint` extends
it with the printing loop, so that sort and print are one behaviour, as in `nm`.

`SwapStruct` names each byte by the offset it has in the file, so that `mem`
shows where every byte went. A conversion is a sequence of calls; one action is
one turn of `swap_endiane`, or one masked shift of `swap_uint32`/`swap_uint64`.
Its property `AsModelled` is what ties it to the other modules: nsects is not
where `swap_segment_command` reverses bytes (`Nsects` in NmObject and Otool),
n_sect trades places with the first byte of n_desc (`Swapped` in NmObject), the
names of a section change every time and its address, size and offset never
(`SectLetter` and `Extent`).

`NmFlags` has one action per character. `Main` extends it and `Driver` and puts them
together as `main` does: `SetFlags` is a step of NmFlags, `HandOver` the return of
`set_flags_nm` with `ac - forward` and `av + forward`, `Files` a step of Driver. What
the whole promises is Driver's specification again, with `Intended`, the command
line as a user reads it, for its input (`Whole`). `Slices` has one per turn of the scan and
of the loop over entries, for both programs (`prog`). `Otool` has one per command,
per section and per printed line, over a sequence of objects that share
mappings. `Driver` has one per system call and outcome.

`FtPrintf` reads the format of a call character by character: `Copy`, `Percent`
(which looks for the conversion character), then one action per turn of
`set_flags` (`Width`, `flags_star`, `Precision`, `Flag`), then one per family of
conversions. What `t_data` holds on the way out is a pair: the text written and
the length the conversion says it has. A call is a sequence of directives
(`call.spec`) and the format is their characters, so that what C says of the
directives (`CallInC`) is stated from their meaning, not by reading the
characters again. `Departs` lists where the code differs from C. `pc` is "beyond"
once a step reads or writes outside the call's strings and buffers, or overflows a width:
`PastFormat` (a
format that ends within a conversion), `con_s_endless` (a text without a zero, whose
length is taken also with a precision), `con_s` of a `%*S` (which exchanges the two
arguments), `con_overflow` (`ft_convert_base`'s buffer, one byte per *decimal*
digit) and `star_overflow` (`flags_star` takes the negative of the least int).
`con_overflow` is a choice: the heap may or may not have used the bytes. Other sums of
ints — a conversion's length, the result — wrap (`AsInt`), as the build without
optimisation has them. A wide character (`%C`, `%lc`) is the bytes that `ft_putwchar` writes
of it: none for zero, up to four for others, while `set_print_c` counts one.

`LineReader` is what a reader of lines promises; `GetNextLine` has one action per
read (`Read`, of any length; `ReadEnd`; `ReadCut`, a read that fails or finds nothing
before the end) and one per way to answer. The list only grows at its end and the
static pointer only moves forward, so it is a sequence with two positions in it.
`ReadLiteral` is what line 101 leads to: stock is a literal, and a descriptor that
gives more text later has `find` free it.

The `MC...` modules give the constants their values; PROJECT.json maps each
definition to the lines it translates. Operators marked "Mutant" are
variants a plausible bug would produce; each property has at least one that
breaks it.

## Runs

| run | what it asks |
|---|---|
| nm_object | Objects of either byte order, whole, cut off at every kind of place, with wrong counts: is the list the one `NmListing` asks for (`Implements`; for the other byte order, unless a symbol is defined in a section, and but for the letters `swap_nlist` mixes up), is each section the right one (`SectionResolved`), do the loops end (`Termination`), do the walks stay on the commands (`OnCommand`), is nothing turned back, unless the section's pointer has left its segment (`ConversionKept`), are all nodes accounted for (`NodesAccounted`), does every read end near the end of the file (`NearEnd`)? |
| nm_object_crash | One big-endian object with one symbol in `__text`: violates `NoCrash`. |
| nm_print | Sort, then print: `NodesKept`, `NamesInOrder`, the sort's contract, `Prints` (the contract of both together), `Returned`. |
| nm_sort_far | Symbols of one name with addresses 2^31 or more apart: violates `AddressesInOrder`. |
| slices | Fat files: the contract of the choice, `FoundStable`, termination. |
| slices_fault | An entry whose object is beyond the file: violates `NoFault`. |
| otool | Dumps: `LinesInside`, the contract, termination. |
| otool_swapped | A complete big-endian object: violates `TextShown`. |
| command_line | Command lines of both programs, from the first character to the exit status: the ten bytes (`Terminated`), the reading of the options (`ReadAsGiven`), globals, exit status, separation, messages, mappings, and that the whole is the loop over the files the user means (`RefinesDriver`), which ends (`Ends`). |
| ft_printf | Calls: `Inside` (five ways out and no other; all arguments taken), `Counted` (the result is the length of what was written, wide characters of other than one byte aside, as long as it is an int), `AsC` (what C says, but for `Departs`), termination. |
| swap_struct | Every conversion, repeated: `Restored`, `FieldsConverted`, `AsModelled`, `Mirrored`. |
| get_next_line | Calls on two descriptors in any order: no byte dropped or doubled (`Accounted`), the lines those of `LineReader` (`Implements`), each call answered (`Answered`). |

### What the violations show

All four were also seen by building the programs and running them.

* **nm_object_crash.** `swap_nlist` reverses two bytes from offset 5 where n_desc
  is at 6. n_sect and the high byte of n_desc trade places; for a big-endian
  executable the latter is 0, so n_sect reads 0, and the pointer `get_section` returns
  is almost 4 GiB behind the segment (2^32 - 1 sections, modulo 2^32 bytes). `ft_nm` on the
  openssl object for PowerPC in the
  test files ends with a segmentation fault.
* **nm_sort_far.** `compare_add` returns a 64-bit difference as an int.
* **slices_fault.** `handle_each_arch` reads the magic number of an entry before
  anything has checked the entry's offset.
* **otool_swapped.** `swap_section` reverses names instead of addr, size and
  offset, which `put_text_section` then reads in the wrong order; nothing of the
  section is printed.

Three more consequences are in the models without a run of their own; the properties
beside them leave them out by name, and do not say that they are right:

* The shift of nm_object_crash also moves the low byte of n_desc into n_value and the last
  but one of n_value into n_desc. In the other byte order a common symbol of 256 bytes has
  value 0 then and is listed `U`, an undefined one with a bit in the low byte of n_desc is
  listed `C`, and whether a symbol is weak is read from n_sect. `Mixed` says exactly which
  entries these are; `Implements` says that all other entries without a section get the
  right letter. The run has each kind of them, with mixed letters and without.
* `symbol` calls `swap_section` once per symbol and not once per section. The names of a
  section alternate between reversed and not, and two symbols of one section get
  different letters. `Restored` and `AsModelled` have the alternation; `Implements` asks
  nothing of such an object.
* `dump_section` counts the address on in the header of the section, in the mapping, so
  that an object which two entries of a fat file share is dumped the second time with
  addresses that are too high. The contract of Otool has these addresses, as the
  program shows them.

`AsC` passes only beside `Departs`, which is what this run found out about
`ft_printf`: h and hh do not narrow an unsigned number, a zero of precision 0 may
lose its sign or the 0 of `%#o`, `%-05u` of zero is filled with zeros, a
negative width from an argument does not align to the left, and a wide character counts
for one byte. Nothing in the
repository claims otherwise and no format of the programs is concerned.

`NearEnd` says how far the single check of `is_safe` lets a reader go: no further
behind the end of the file than the size of a symbol-table entry. It has a condition
that is a hazard of its own: `get_section`'s result is not checked at all, and
without `SectionsInside` the object "cut sections" of the run violates the bound.

What `get_next_line` loses is part of `LineReader`: a call on a descriptor at its end
returns before the static pointer is put back, so that the nodes before it are never
found again, and text of other descriptors that was read ahead is gone
(`LineReader!End`). Nothing in the repository claims otherwise.

Some hazards in PROJECT.json have no property. What the code does there is described by
a model and *permitted* by its properties — the three above, the ways out that `Inside` names, the text
that `LineReader!End` lets go, the abort after a read that was cut (`ReadLiteral`), a text
section that is cut off and left out with exit status 0, the length of a wide character —
and for all but the first three no text of the repository says that it should be otherwise,
so that there is nothing to check it against. `Inside`, `Accounted`, `Implements` and `Answered` then say that it
happens under the stated circumstances only.

### Bounds, and why they are enough

* `SizeMod` (16384 for 2^32) and `Far` (4096 for 2^24): sizes in the models are
  below 2100, so that a reversed field is beyond every size as it is in reality.
  A file of 4 GiB or more, where `g_map_size` wraps, is not in any run;
  the theorems, which leave `SizeMod` arbitrary, include it.
* Objects have up to five commands, four sections in two segments, three
  symbols. Two segments with two sections each are the least in which counting
  within a segment and over all of them differ; two symbols are the least in
  which the second can undo the first. The cuts of `Broken` are inside and
  next to every structure `is_safe` guards — header, commands, symbol table,
  entries, strings, names; `nc` counts fewer and more commands than there are. One layout has a command whose size
leads out of a short file, another a segment whose sections lie behind its end, a third
  a segment that states as many sections as an unsigned int can count, less one.
  Indices of names are beyond the strings and negative ones, of which one leads to
  a place in the file and one before it.
* Objects in the other byte order: `Swappable` has three layouts with pairs of
  symbols, defined and not, whole and cut off; `Undefined` has no symbol defined in a section, every value and
  n_desc that `swap_nlist` moves a bit of into another field, and values it does not
  harm; `Strays` has symbols that `get_section` looks for behind the segment: in the next
  command, in that of the symbol table, among the entries, and outside the file.
* Lists to sort have up to four nodes over two names; `Half` = 4, and
  addresses up to 6, so that differences both fit and do not fit in an int.
  Printed lists have every letter alone and every pair of five representative
  ones, under every set of the flags g, u, U and j.
* Command lines have up to four arguments: every short one over two letters and
  dashes, ones that repeat all six flags, so that without the test for repeated flags
  ten bytes overflow, and options before, among and behind files.
* Fat files have up to three entries of three architectures at three offsets,
  one of them empty, and `nfat_arch` up to 13; `end` is the end of the last page.
* Of files there are up to two of every kind and up to four of five kinds; `MaxFds`
  = 3, so that descriptors run out.
* `SwapStruct` repeats each conversion five times (`MaxRounds`); after two the
  structure is as before, which `Restored` checks, so more add nothing. The theorems
  are about any number.
* `FtPrintf` has chars, shorts, ints and longs of 3, 4, 5 and 6 bits, which are
  four different widths as in reality, values in each of their ranges, and zeros that only a
  length makes zero. Widths and precisions reach the largest int, arguments the least one,
  with signs and prefixes that lead over it, and two fields together are longer than
  an int.
  Numbers have one to six digits; widths and precisions lie below, at and
  above these lengths. Every set of the five flags is tried, and the programs'
  own formats with every byte of the model. 8 has more digits in base 8
  than in base 10, for which `ft_convert_base`'s buffer is made, and 10 as many again.
* `GetNextLine` has two descriptors and one that cannot be read, texts of up to three
  characters with newlines in every place, `BuffSize` = 2 (`BUFF_SIZE` is 15) so that a
  read brings less than a line, a line and more than one, up to six calls
  (`MaxCalls`), which are enough to come to the end of one descriptor, lose the other
  and come back to it, and one read that is cut off (`MaxCuts`).

### Fairness

`Spec` of the modules with a termination property has `WF_vars(Next)` and no
other fairness: each is one sequential program in which some statement is always
the next one to run, and the operating system lets it run. No module chooses
between actions fairly; where two are enabled, in `Slices` when an object
converted before may or may not give a list again, either outcome must end.
`MainSpec` has the same for a whole run; `Driver` and `SwapStruct` state no fairness of
their own. In `GetNextLine` only `Work`, what the function does once it is called, is
fair: nobody has to call it.

Deadlock is checked everywhere; a finished program stutters (`Finished`).

## Proofs

`NmObject_proofs` proves about the specification of NmObject, for any objects,
sizes, `SizeMod` and `Far`:

* `TypeCorrect` (`TypeOK`), `CommandBoundaries` (`OnCommand`),
  `NodesKept` (`NodesAccounted`);
* `SectionsResolved` (`SectionResolved`): in the host's byte order, and if the sections of
  all segments together are an unsigned int (`Countable`), which is what the counters are;
* `ConvertedOnce` (`ConversionKept`): nothing converted is turned back, in either byte order,
  but by a `swap_section` that left its segment, and then no command up to that segment: what
  is hit lies behind it;
* `ListingIsRight`: if all objects are in the host's byte order, their sections can be
  counted and they have no section symbol with n_sect 0 (`HostOrder`), the specification
  implements `Contract!Spec`.

The argument. `OnCommand` is not inductive: that `lc` is at command i after the
next step depends on whether the command there is read in the right byte order,
which depends on which commands were converted. `IInv` adds that:

* `HeaderInv` — ncmds was converted exactly once, and nothing of a host-order
  object was;
* `WalkInv` — the converted commands are exactly those the first walk has
  reached; it cannot come back to one unless a command has size 0, which is why
  the properties of objects in the other byte order assume `Sizes`;
* `SymtabInv` — no symbol table lies before the present command;
* `SeekInv` — `get_section` passed only segments that end before the section it
  looks for, within the commands the first walk converted, and that the section found
  is behind the segment it was looked for in (`FoundInv`);
* `TableInv` — the entries converted are the ones listed so far.

`HostIInv` adds `ListInv`: the nodes so far are the right ones, and at the end
the list satisfies `IsAnswer`. The proof that a step keeps an invariant has one
step per action. The only assumptions are the named ones on constants, which the
runs evaluate.

* `ReadsNearEnd` (`NearEnd`). Where a read lies is not in the state when it is made:
  what `list_symtab` reads of the symbol table's command was checked before the loop over
  its entries, and `symbol` reads through a pointer `get_section` computed before.
  `NearInv` carries what was checked to the place where it is used: that the command
  of the table lies inside the file, and that a symbol whose section is looked for
  is one of a section. With `SeekInv` the section found is the one its number counts to,
  so that it lies inside its segment, and so inside the file under `SectionsInside`.

`NmPrint_proofs` is about the sort, and the sort with the printing after it. For any
lists and flags and any `Half`, of the sort: `NoNodeLost` (`NodesKept`), `NamesSorted`
(`NamesInOrder`), and `SortIsRight` (`Implements`): the answer is the same nodes, in
their order with -p, otherwise by name, and by address too if the addresses are
`Close`. `IInv` is the loop invariant of an exchange sort: nodes before `cp` are
settled, and `cp` holds the first of those up to `jump`. Names settle whatever
addresses do; since `ToInt` is the true difference exactly for close addresses, the
address half is conditional. `SortedThenPrinted` carries the three over to the whole.

`PrintIsRight` (`Prints`) is the contract of both together. Its invariant,
`ShownSoFar` (`ShownInTurn`), is a function from the lines printed to the nodes passed
that is increasing and leaves out no selected node. At the end it is put together
with the permutation that the sort has made (`Renumbered`: an address belongs to one
node), which gives a function from the lines *onto* the selected symbols of the list
that was built (`LinesAreOfSymbols`), one to one and ordered as the flags ask.
Symbols that agree in all a line tells cannot be told apart, so the contract counts
them: as many lines as symbols a line tells of (`LinesAlike`, `AsMany`).
`DigitsTellTheValue` is the other half: the bytes `hexdump_address` takes, from the
last to the first, are read back as the address, for four and for eight bytes, the
values an entry can hold (`ValueAssumption`).

`Main_proofs` is about NmFlags, about Driver and about Main, which extends both. Of NmFlags it proves, for any arguments, `FlagsTyped` (`FlagsTypeOK`) and
`NeverFull` (`Terminated`). `Terminated` does not follow from what a step tests:
that a flag not yet in the string leaves room for the zero is a count over the
whole string. The invariant is that its characters are distinct and all of them
flags, of which there are six; the step that adds one then has at most five
before it, by a cardinality argument over the set of positions. `ReadRight`
(`ReadAsGiven`) is the contract: `ReadSoFar` says that what was passed are options of
flags, `FlagsSoFar` that the string holds the flags passed and no others, so that
where the reading stops `ct - 1` is the number of options.

Of Driver it proves, for any files, kinds and number of descriptors: `DriverTyped`
(`TypeOK`), `BoundsAreOfTheFile` (`GlobalsCurrent`), `StatusOfAll` (`ExitStatus`),
`FailuresAreSaid` (`FailureSaid`), `MissingForWantOfDescriptors` (`MissingSaid`),
`MappedAfterFailure` (`MappingsHeld`) and `OutputsAreSeparated` (`Separated`), from one
inductive invariant (`DriverInvariant`). None of them speaks of the file in hand only, and none
is inductive: the invariant says of every place in a file's turn (`Turn`) what is
mapped and open there, that nothing was said or shown of a later file
(`NothingSaidYet`), that what is shown belongs to a file before or to the one about
to be unmapped (`ShownInTurn`), that usage ends the program (`UsageEnds`), and that `res` is the status of the files so far
(`StatusSoFar`), which the exit status then is of all.

Of Main, which puts the two together, it shows for any command lines and any files: `MainIsDriver`
(`RefinesDriver`), `MainReads` (`ReadAsGiven`), `FlagsFit` (`Terminated`). The invariant
(`HandedOver`) is that what `main` hands over is `Intended`, or, where the line is
refused, that the program goes no further than the usage; each action of the loop is
then Driver's own. `LoopIInv` adds that no file is touched before the loop is entered, nor
where the line is refused, and that otherwise Driver's invariant holds; so what is proved
of the loop, the separation of the outputs among it, holds of whole runs: `MainRuns` says it
of the arguments `main` passes on, `WholeRuns` of the files a user means.

`Slices_proofs` proves for any fat file, either program and any number of entries
`TypeCorrect`, `ScanDecides` (`FoundStable`) and `SelectionImplements` (`Implements`):
which objects are handled, in which order, and what is answered. The entries are
looked at twice, by `init_t_fat` and by the loop, and the second look depends on what
the first one found. `FoundInv` says that while the scan goes on no entry before is an x86_64 object, so that
`found_64` is `Has64` when it is over;
`PassedInv` that the objects handled are the eligible ones among the entries passed, in
their order; `AnswerInv` that what is answered is right.

`Otool_proofs` proves for any sequence of objects, which may share mappings:
`TypeCorrect`, `LinesAreInside` (`LinesInside`) for objects in either byte order and,
for those of the host's (`HostOrder`), `DumpImplements` (`Implements`). `WalkInv` says
that the walk is at its i-th command and has passed no text section, and that what is
dumped is the section of the contract (`Dumped`); `OutInv` that the output is what the
contract has of the objects before and of the present one up to the line the dump is
at; and `AddressInv` how far the address in a section's header, which `dump_section`
itself advances, has moved: by all the lines of each dump of it before
(`Times`), and those of the present one. The proof corrected the
contract: it once asked for the text section of least offset, which is the one the
code prints only if segments do not overlap; it now asks for the first on the walk.

`SwapStruct_proofs` proves for every structure, of either size and converted any number
of times, `ReversalIsMirrored` (`Mirrored`), `TwiceIsNotAtAll` (`Restored`),
`FieldsReadable` (`FieldsConverted`) and `ConversionsAsModelled` (`AsModelled`), the last of
which the other modules rest on. A structure's calls reverse fields that come one after
another (`CallsAreInOrder`), so no byte belongs to two of them; `TurnedInv` then says,
in the middle of any call of any round, that a byte is at its mirror image exactly if
the call of its field was made an odd number of times, and within the call at hand if
the two ends have passed it. `swap_uint32` and `swap_uint64` exchange blocks, not
ends; `ValueInv` says for them which bits of a byte's place are inverted.

`GetNextLine_proofs` proves for any texts, any order of calls, any `BuffSize` and any
lengths of reads `NoByteLost` (`Accounted`) and `LinesInTurn` (`Implements`). What the
nodes of a descriptor hold is `FlattenSeq` over the list, so that each step has to be
carried through a fold: what it makes of the whole list when one node changes
(`FlattenLonger`), when there is only one to look at (`FlattenOne`) or none
(`FlattenNone`). These are inductions over a sequence, done without the library's
induction theorem, which takes an operator: finite sets are well-founded under strict
inclusion, so a set of natural numbers has a least element (`LeastNat`), and
`Induction` is about a set of numbers. The invariant has beside the text (`TextInv`)
where the three pointers are (`PointerInv`), that of the nodes of a descriptor the static
pointer reaches one at most (`OneEach`), why `find` was left (`FoundInv`: at a newline,
at the end or at a read that was cut), and that the pointer only moves past others
when its own descriptor is at the end (`EndInv`). `FoundInv` is what makes the answer a
whole line; without it a buffer that holds half a line would look like the last one.

`FtPrintf_proofs` proves for any calls `SpecInside` (`Inside`), `SpecCounted`
(`Counted`) and `SpecAsC` (`AsC`); `Counted` is about calls whose wide characters are one
byte, and says of longer texts than an int nothing. A call is given by its directives, the code sees a string, and every
step rests on what is found where in the string. The invariant (`IInvHolds`) is that
between conversions the position is behind the first q directives and the arguments taken
are theirs (`InFormat`), and that in `set_flags` the position is at a place of one directive
(`InDirective`): among its flags, behind its width or behind its precision, with the
flags, width, precision and arguments that belong to that place. What it rests on are
facts about the model's operators, each once:

* the sums of arguments and of lengths over the directives, and `FlattenSeq`: the format
  has the text of directive q behind that of those before it (`FormatIs`);
* the text of a directive (`Spelling`): where its parts lie, and that the first character
  that ends a conversion is its own, so that `move_i` finds it;
* numerals: they have the digits `ft_convert_base` counts (`LooksLike`), two numerals of a number
  differ in length only if a power of one base lies below it and that of the other above
  (what `Escapes` says of `con_overflow`), and `nb_digit` and `ft_atoi` read back
  what a width or a precision was spelled with, and no further (`ReadNumber`);
* each conversion: the text put together in every case has the length worked out
  beside it, as long as the text's length is an int: a sum that wraps belongs to a text that
  is too long (`Returned`, `SoundD`, `SoundOux`, `SoundS`, `SoundField`);
* the same texts against C's: sign or prefix, digits and padding are those of the
  directive (`TextD`, `TextNought`, `TextOux`, `TextUnsigned`, `TextZero`, `NullC`, together
  `ConvC`), `set_cast` finds the length modifier that was spelled (`CastIs`), and a
  number narrowed to an unsigned int first and then to its type is the one narrowed to its
  type, because 2^8 and 2^16 divide 2^32 (`RemainderOf`; `CallsAssumption` says so of the
  moduli, and nothing else about their sizes).

`SpecAsC` has a second invariant on top (`CInv`): of a call that `AsC` is about, what was
written is the text of the directives before the position, one after the other (`Told`),
so that at the end it is all of them. The position tells how many these are, as each
directive has a character at least (`LastsApart`).

These are inductions over data again. `Numeral`, `Sums` and `ft_atoi` are recursive
functions, defined by a choice: that a function with the equation exists is itself proved
by induction (`Recursion`). The proof corrected the model in two places: widths and
precisions are ints, as the code has them, and `Departs` tested a zero for its int, not for
the length it is printed with (`%+.0hhd` of 256 has a lost sign too); `Zeros` has these calls.

Only model-checked: all termination (liveness under fairness is beyond the prover);
and objects in the other byte order beyond the walks of NmObject and `LinesInside` of
Otool, since what a second handling finds in them is a matter of the particular
object.

## Not modelled

* **The fault at the last page**, in NmObject and Otool. `NearEnd` bounds how far a
  read goes behind the end of a file; whether it finds the zeros up to the end of
  the last page or leaves the mapping depends on how long that page still is. Slices
  has files that end with a page; NmObject and Otool take the read to succeed.
* **Bytes of names.** In NmObject a name is an address, in NmSort its rank among
  names. A text without a final zero is in FtPrintf (`zero`); that a name of
  a cut string table is such a text is not carried from one module to the other.
* **ft_printf** with wide strings (`%S`, `%ls`) beyond ASCII.
* **What follows a stray `swap_section`** in NmObject: the bytes it reverses are modelled,
  what the program then makes of them is not.
* **The rest of libft**: functions without state that the programs do not call
  (`ft_strsplit`, `ft_split`, `ft_lstmap` and the like).
* `malloc` returning NULL, which no caller checks; `write` failing; in `get_next_line`
  zero bytes within a text, which end it for `ft_strjoin`.
* **`is_in_section` and `is_all_zero`**, which nothing calls; **`src/nm.c`**.

## Plan

1. *(done)* NmObject with its contract and proofs; NmSort, NmFlags and Driver with
   proofs; SwapStruct, Slices, NmPrint, Otool and FtPrintf checked.
2. *(done)* Main, the composition of NmFlags and Driver, and that it refines Driver; get_next_line; the ways out of
   a format and its buffers in FtPrintf; `NearEnd`.
3. *(done)* Proved: `NearEnd` of NmObject, `Separated` of Driver, the choice of objects
   in Slices, the dump of Otool, the conversions of SwapStruct, NmPrint's contract, and
   both properties of GetNextLine.
4. *(done)* Proved: `Counted` and `Inside` of FtPrintf.
5. Left to model: Slices with NmObject (a fat file whose entries share an object of the
   other byte order, which Slices leaves to a choice).
