----------------------------- MODULE TestCarts -----------------------------
(***************************************************************************)
(* Cartridges for the runs: a 16 KiB PRG ROM with a program at its first   *)
(* byte, which the CPU sees at 0xC000, the automation entry.  The bytes    *)
(* after the program are 0, which is BRK.                                  *)
(***************************************************************************)
EXTENDS Integers, Sequences

CartOf(code) ==
  [prg_rom_size |-> \h4000,
   prg_rom |-> [offset \in 0 .. Len(code) - 1 |-> code[offset + 1]]]
=============================================================================
