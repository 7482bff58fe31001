---------------------------- MODULE MCCartridge ----------------------------
(***************************************************************************)
(* Every kind of file: none, of another format, and iNES files of one or   *)
(* more pages, or none, of each ROM, with the flags of both bit orders,    *)
(* whose size is next to each place where a read ends.                     *)
(***************************************************************************)
EXTENDS CartridgeProperties, FiniteSets

CONSTANT Flags6      \* values of the first flag byte of the header

\* One byte too short, and long enough, for each part of the file.
Sizes(prg, chr) ==
  {15, 16}
    \cup {16 + trainer + \h4000 * prg + d : trainer \in {0, 512}, d \in {-1, 0}}
    \cup {16 + trainer + \h4000 * prg + \h2000 * chr + d : trainer \in {0, 512}, d \in {-1, 0}}

INesFiles ==
  UNION { { [size |-> size, magic |-> magic, len_prg_rom |-> prg, len_chr_rom |-> chr,
             flags6 |-> flags6, flags7 |-> \h40, data |-> [o \in {} |-> 0]] :
              size \in Sizes(prg, chr), magic \in BOOLEAN, flags6 \in Flags6 } :
          prg \in {0, 1, 2, 255}, chr \in {0, 1, 2} }

AllFiles == INesFiles \cup {NoFile}

\* The PRG ROMs of the files that can be loaded, which the bus may be given.
LoadableRoms ==
  { PrgRomAt(f, start_prg_rom(f), prg_rom_size(f)) : f \in {g \in INesFiles : HoldsCartridge(g)} }
=============================================================================
