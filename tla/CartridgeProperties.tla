------------------------ MODULE CartridgeProperties ------------------------
(***************************************************************************)
(* What the loader must and must not do, whatever file it is given and at  *)
(* whatever step reading it fails.                                         *)
(***************************************************************************)
EXTENDS Cartridge

LoaderSteps ==
  {"open", "header", "magic", "allocate", "prg", "chr", "returned", "released"}

Messages == {"none", "file", "header", "format", "prg", "chr"}

\* The loader's variables hold what their declarations allow, and a pointer
\* of the cartridge is null or the name of its buffer.
LoaderTypeOK ==
  /\ file \in Files
  /\ at \in LoaderSteps
  /\ stream \in BOOLEAN
  /\ DOMAIN heap \subseteq Buffers
  /\ \A b \in DOMAIN heap : heap[b] \in Nat \cup {Unread}
  /\ {cartridge.prg_rom_size, cartridge.chr_rom_size} \subseteq Nat
  /\ cartridge.prg_rom \in {Null, "prg"} /\ cartridge.chr_rom \in {Null, "chr"}
  /\ cartridge.mirroring \in {"Vertical", "Horizontal", "FourScreen"}
  /\ cartridge.mapper \in u8
  /\ error \in Messages

-----------------------------------------------------------------------------
(* The abstract specification.                                             *)

\* A file that holds a cartridge: an iNES header, then a trainer if there is
\* one, then the PRG ROM and the CHR ROM, neither of them empty.
Layout(f) ==
  [prg |-> [from |-> IF has_trainer(f) THEN 528 ELSE 16,
            size |-> 16384 * f.len_prg_rom],
   chr |-> [from |-> (IF has_trainer(f) THEN 528 ELSE 16) + 16384 * f.len_prg_rom,
            size |-> 8192 * f.len_chr_rom]]

HoldsCartridge(f) ==
  /\ f # NoFile
  /\ f.magic
  /\ f.len_prg_rom > 0 /\ f.len_chr_rom > 0
  /\ f.size >= Layout(f).chr.from + Layout(f).chr.size

\* What the two pointers of the returned struct give access to.
Contents ==
  LET read(pointer) == IF pointer \in DOMAIN heap THEN heap[pointer] ELSE Unread
  IN  [prg |-> [from |-> read(cartridge.prg_rom), size |-> cartridge.prg_rom_size],
       chr |-> [from |-> read(cartridge.chr_rom), size |-> cartridge.chr_rom_size]]

NoContents ==
  [prg |-> [from |-> Unread, size |-> 0], chr |-> [from |-> Unread, size |-> 0]]

LoadedSlot ==
  CASE at = "returned" -> [state |-> "loaded", cartridge |-> Contents]
    [] at = "released" -> [state |-> "released"]
    [] OTHER -> [state |-> "pending"]

Promise == INSTANCE Slot WITH
  slot <- LoadedSlot, Loadable <- HoldsCartridge, Whole <- Layout, Nothing <- NoContents

\* A caller of load_cartridge gets both ROMs, each whole and from its place
\* in the file, or an empty struct: never one buffer without the other, one
\* that has not been filled or sizes that are not those of the buffers.
LoadsAtomically == Promise!SlotSpec

-----------------------------------------------------------------------------
(* Resources.                                                              *)

\* The errors after the two malloc.
ReadErrors == {"prg", "chr"}

\* Whichever return is taken the FILE is closed, and when the caller has
\* released the cartridge no buffer is left.  The exception is the code's: at
\* the two errors after the malloc it returns Cartridge{} and drops both.
ReleasesAll ==
  /\ at \in {"returned", "released"} => ~stream
  /\ at = "released" /\ error \notin ReadErrors => DOMAIN heap = {}

-----------------------------------------------------------------------------
(* The format.                                                             *)

\* Bit 2 of the flags 6 of an iNES header: the file has a trainer.
INesTrainer(f) == (f.flags6 \div 4) % 2 = 1

\* "Ignore 512 bytes of trainer data" (cartridge.cpp:81): the PRG ROM of a
\* cartridge starts after the header and the trainer, if the file has one.
TrainerIsIgnored ==
  at = "returned" /\ error = "none" =>
    heap["prg"] = IF INesTrainer(file) THEN 528 ELSE 16
=============================================================================
