------------------------------- MODULE MachO -------------------------------
(***************************************************************************)
(* What ft_nm and ft_otool ask of a mapped file: the classification of a   *)
(* magic number, the sizes of the structures of <mach-o/loader.h>,         *)
(* <mach-o/fat.h> and <mach-o/nlist.h>, and the one bounds check both      *)
(* programs have, is_safe.  Both programs have their own copy of these     *)
(* functions, with the same bodies.                                        *)
(*                                                                         *)
(* A pointer is its distance from g_begin.  A magic number is named as the *)
(* headers name it; every other value of the first four bytes is "OTHER".  *)
(***************************************************************************)
EXTENDS Integers

CONSTANTS
  SizeMod,  \* 2^32: g_map_size is a uint32_t, it holds st_size modulo 2^32
  Far       \* a 32-bit field below 256, read in the wrong byte order, is the
            \* field times 2^24: any factor above every size will do

ASSUME FormatAssumption == SizeMod \in Nat \ {0} /\ Far \in Nat \ {0}

FatMagics == {"FAT_MAGIC", "FAT_CIGAM", "FAT_MAGIC_64", "FAT_CIGAM_64"}
MhMagics  == {"MH_MAGIC", "MH_CIGAM", "MH_MAGIC_64", "MH_CIGAM_64"}
Magics    == FatMagics \cup MhMagics \cup {"OTHER"}

is_fat_file(magic) == magic \in FatMagics

is_64_file(magic) ==
  IF is_fat_file(magic)
  THEN magic \in {"FAT_CIGAM_64", "FAT_MAGIC_64"}
  ELSE magic \in {"MH_CIGAM_64", "MH_MAGIC_64"}

should_swap_file(magic) ==
  IF is_fat_file(magic)
  THEN magic \in {"FAT_CIGAM", "FAT_CIGAM_64"}
  ELSE magic \in {"MH_CIGAM", "MH_CIGAM_64"}

not_valid_header(magic) == magic \notin MhMagics
not_valid_file(magic)   == magic \notin FatMagics \cup MhMagics

\* The two architectures of the host; every other cputype is 0.
is_hostarch(cpu) == IF cpu \in {"X86_64", "I386"} THEN cpu ELSE "NONE"

SizeofHeader(is64)  == IF is64 THEN 32 ELSE 28
SizeofSegment(is64) == IF is64 THEN 72 ELSE 56
SizeofSection(is64) == IF is64 THEN 80 ELSE 68
SizeofNlist(is64)   == IF is64 THEN 16 ELSE 12
SizeofCommand       == 8
SizeofSymtab        == 24
SizeofFatHeader     == 8
SizeofFatArch(is64) == IF is64 THEN 32 ELSE 20

\* A pointer is safe from the first byte of the mapping to one past the last.
is_safe(ptr, size) == 0 <= ptr /\ ptr <= size % SizeMod

\* The code adds the 32-bit header's size to a 64-bit header and conversely.
is_lc_safe(ptr, is64, size) == is_safe(ptr + SizeofHeader(~is64), size)

is_segmant_safe(ptr, is64, size) == is_safe(ptr + SizeofSegment(is64), size)

\* A 32-bit number taken for an int.
ToInt(v) == IF 2 * v < SizeMod THEN v ELSE v - SizeMod

\* A field as the host reads it, in its own byte order or in the other one.
Read(v, hostOrder) == IF hostOrder THEN v ELSE v * Far
=============================================================================
