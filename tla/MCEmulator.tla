----------------------------- MODULE MCEmulator -----------------------------
(***************************************************************************)
(* main and the test with files that hold a program: a cartridge of the    *)
(* size the test requires, others of the sizes it does not, one with a     *)
(* trainer, and files of each kind that load_cartridge rejects.            *)
(***************************************************************************)
EXTENDS Emulator, OpcodeTable, Sequences, TLC

CONSTANT N              \* how often the program goes round

\* LDX #N; DEX, PHA, BNE to the DEX; BRK.
Code == << \hA2, N, \hCA, \h48, \hD0, \hFC, \h00 >>

\* The program is at the start of the last page of the PRG ROM, 0xC000, and
\* the reset vector, which the two programs overwrite, points to 0xC002.
File(prg, chr, flags6) ==
  LET header == IF BitField(flags6, 5) THEN 528 ELSE 16
      entry  == header + \h4000 * (IF prg > 0 THEN prg - 1 ELSE 0)
  IN  [size |-> header + \h4000 * prg + \h2000 * chr, magic |-> TRUE,
       len_prg_rom |-> prg, len_chr_rom |-> chr, flags6 |-> flags6, flags7 |-> 0,
       data |-> [offset \in entry .. entry + Len(Code) - 1 |-> Code[offset - entry + 1]]
                  @@ (entry + \h3FFC :> 2 @@ entry + \h3FFD :> \hC0)]

Good == {File(prg, chr, flags6) : prg \in {1, 2}, chr \in {1, 2}, flags6 \in {1, 33}}
Bad  == {[f EXCEPT !.size = @ - 1] : f \in Good}
          \cup {[File(1, 1, 1) EXCEPT !.magic = FALSE], [File(1, 1, 1) EXCEPT !.size = 15],
                [File(1, 1, 1) EXCEPT !.size = 16], File(0, 1, 1), File(1, 0, 1)}

AllFiles == Good \cup Bad \cup {NoFile}

Roms == {PrgRomAt(f, start_prg_rom(f), prg_rom_size(f)) : f \in Good}
=============================================================================
