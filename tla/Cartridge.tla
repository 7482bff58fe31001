----------------------------- MODULE Cartridge -----------------------------
(***************************************************************************)
(* The loader of cartridge.cpp.  load_cartridge opens a file, reads the    *)
(* 16 bytes of the iNES header, allocates a buffer for each ROM and reads  *)
(* them; each step may fail and then returns an empty Cartridge.  The      *)
(* buffers are objects of the heap, named by the pointers that are         *)
(* assigned to them; free releases them.                                   *)
(*                                                                         *)
(* The fields of the header's flag bytes are C++ bit-fields, whose order   *)
(* within a byte the ABI chooses.                                          *)
(***************************************************************************)
EXTENDS Bus

CONSTANTS
  Files,             \* what fopen may find under the file name
  NoFile,            \* nothing
  BitFieldsFromLsb,  \* the ABI puts the first bit-field into the low bits
  ReadsCanFail       \* fread may fail although the file is long enough

ASSUME BitFieldsFromLsbAssumption == BitFieldsFromLsb \in BOOLEAN
ASSUME ReadsCanFailAssumption == ReadsCanFail \in BOOLEAN

\* A file: its size, the header's fields, which mean something in a file of
\* at least 16 bytes, and the bytes of interest behind it by their offset.
IsFile(f) ==
  /\ f.size \in Nat
  /\ f.magic \in BOOLEAN            \* the first four bytes are NES_MAGIC
  /\ {f.len_prg_rom, f.len_chr_rom, f.flags6, f.flags7} \subseteq u8
  /\ DOMAIN f.data \subseteq Nat
  /\ \A offset \in DOMAIN f.data : f.data[offset] \in u8

ASSUME FilesAssumption == \A f \in Files \ {NoFile} : IsFile(f)

HEADER_SIZE       == 16
TRAINER_SIZE      == 512
CHR_ROM_PAGE_SIZE == \h2000

-----------------------------------------------------------------------------
(* The header.                                                             *)

\* The one-bit field that has n bits of fields before it in its struct.
BitField(flags, n) ==
  (flags \div 2^(IF BitFieldsFromLsb THEN n ELSE 7 - n)) % 2 = 1

\* The four-bit field that comes first in its struct.
FirstNibble(flags) == IF BitFieldsFromLsb THEN flags % 16 ELSE flags \div 16

has_trainer(f) == BitField(f.flags6, 5)

mapper(f) == FirstNibble(f.flags6) + 16 * FirstNibble(f.flags7)

mirroring(f) ==
  IF BitField(f.flags6, 4) THEN "FourScreen"
  ELSE IF BitField(f.flags6, 7) THEN "Vertical" ELSE "Horizontal"

prg_rom_size(f) == f.len_prg_rom * PRG_ROM_PAGE
chr_rom_size(f) == f.len_chr_rom * CHR_ROM_PAGE_SIZE

start_prg_rom(f) == HEADER_SIZE + (IF has_trainer(f) THEN TRAINER_SIZE ELSE 0)
\* Mutant: the CHR ROM is read where the PRG ROM starts.
start_chr_rom_AtPrg(f) == start_prg_rom(f)
start_chr_rom(f) == start_prg_rom(f) + prg_rom_size(f)

\* The PRG ROM a buffer holds whose bytes are those of f from an offset on.
PrgRomAt(f, start, size) ==
  [prg_rom_size |-> size,
   prg_rom |-> [i \in {offset - start : offset \in DOMAIN f.data \cap start .. start + size - 1}
                  |-> f.data[start + i]]]

-----------------------------------------------------------------------------
(* The state.                                                              *)

VARIABLES
  file,        \* the file under the name
  at,          \* the statement load_cartridge has reached
  stream,      \* whether a FILE is open
  heap,        \* the allocated buffers: the file offset each was read from
  cartridge,   \* the struct Cartridge of the loader and then of its caller
  error        \* which of the loader's messages has been printed

loaderVars == <<file, at, stream, heap, cartridge, error>>

Null    == "nullptr"
Buffers == {"prg", "chr"}
Unread  == -1

\* Cartridge{}: Mirroring_Vertical is the enumerator 0.
EmptyCartridge ==
  [prg_rom_size |-> 0, prg_rom |-> Null, chr_rom_size |-> 0, chr_rom |-> Null,
   mirroring |-> "Vertical", mapper |-> 0]

LoaderInit ==
  /\ file \in Files
  /\ at = "open"
  /\ stream = FALSE
  /\ heap = [b \in {} |-> Unread]
  /\ cartridge = EmptyCartridge
  /\ error = "none"

\* One of the early returns: a message and Cartridge{}; the deferred fclose
\* runs, the buffers stay as they are.
\* Mutant: there is no deferred fclose.
Fail_LeavesOpen(message) ==
  /\ at' = "returned"
  /\ error' = message
  /\ cartridge' = EmptyCartridge
  /\ UNCHANGED <<file, heap, stream>>

Fail(message) ==
  /\ at' = "returned"
  /\ error' = message
  /\ cartridge' = EmptyCartridge
  /\ stream' = FALSE
  /\ UNCHANGED <<file, heap>>

\* fread of one item of so many bytes at an offset: it returns 1 only when
\* they are all there, and for an item of no bytes it returns 0.
CanRead(offset, size) == size > 0 /\ offset + size <= file.size
ReadFails(offset, size) == CanRead(offset, size) => ReadsCanFail

Open ==
  /\ at = "open"
  /\ \/ /\ file = NoFile
        /\ Fail("file")
     \/ /\ file # NoFile
        /\ at' = "header"
        /\ stream' = TRUE
        /\ UNCHANGED <<file, heap, cartridge, error>>

ReadHeader ==
  /\ at = "header"
  /\ \/ /\ CanRead(0, HEADER_SIZE)
        /\ at' = "magic"
        /\ UNCHANGED <<file, stream, heap, cartridge, error>>
     \/ /\ ReadFails(0, HEADER_SIZE)
        /\ Fail("header")

CheckMagic ==
  /\ at = "magic"
  /\ \/ /\ ~file.magic
        /\ Fail("format")
     \/ /\ file.magic
        /\ at' = "allocate"
        /\ UNCHANGED <<file, stream, heap, cartridge, error>>

\* The fields of the cartridge, with the two malloc.
\* Mutant: the pointers change places.
Allocate_Swapped ==
  /\ at = "allocate"
  /\ at' = "prg"
  /\ heap' = [b \in Buffers |-> Unread]
  /\ cartridge' =
       [prg_rom_size |-> prg_rom_size(file), prg_rom |-> "chr",
        chr_rom_size |-> chr_rom_size(file), chr_rom |-> "prg",
        mirroring |-> mirroring(file), mapper |-> mapper(file)]
  /\ UNCHANGED <<file, stream, error>>

Allocate ==
  /\ at = "allocate"
  /\ at' = "prg"
  /\ heap' = [b \in Buffers |-> Unread]
  /\ cartridge' =
       [prg_rom_size |-> prg_rom_size(file), prg_rom |-> "prg",
        chr_rom_size |-> chr_rom_size(file), chr_rom |-> "chr",
        mirroring |-> mirroring(file), mapper |-> mapper(file)]
  /\ UNCHANGED <<file, stream, error>>

ReadPrgRom ==
  /\ at = "prg"
  /\ \/ /\ CanRead(start_prg_rom(file), prg_rom_size(file))
        /\ heap' = [heap EXCEPT !["prg"] = start_prg_rom(file)]
        /\ at' = "chr"
        /\ UNCHANGED <<file, stream, cartridge, error>>
     \/ /\ ReadFails(start_prg_rom(file), prg_rom_size(file))
        /\ Fail("prg")

ReadChrRom ==
  /\ at = "chr"
  /\ \/ /\ CanRead(start_chr_rom(file), chr_rom_size(file))
        /\ heap' = [heap EXCEPT !["chr"] = start_chr_rom(file)]
        /\ at' = "returned"
        /\ stream' = FALSE
        /\ UNCHANGED <<file, cartridge, error>>
     \/ /\ ReadFails(start_chr_rom(file), chr_rom_size(file))
        /\ Fail("chr")

LoadStep ==
  Open \/ ReadHeader \/ CheckMagic \/ Allocate \/ ReadPrgRom \/ ReadChrRom

\* Two calls of free; free(nullptr) does nothing.
release_cartridge ==
  /\ at = "returned"
  /\ at' = "released"
  /\ heap' = [b \in DOMAIN heap \ {cartridge.prg_rom, cartridge.chr_rom} |-> heap[b]]
  /\ UNCHANGED <<file, stream, cartridge, error>>

\* The caller has nothing more to do with the cartridge.
Released == at = "released" /\ UNCHANGED loaderVars

LoaderNext == LoadStep \/ release_cartridge \/ Released

LoaderSpec == LoaderInit /\ [][LoaderNext]_loaderVars
=============================================================================
