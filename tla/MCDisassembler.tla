--------------------------- MODULE MCDisassembler ---------------------------
(***************************************************************************)
(* Listings of ROMs that end in every way: in an instruction that ends at  *)
(* 0x10000, in one that goes over it, in the byte at 0xFFFF, which the bus *)
(* does not map.  One of them holds every opcode.                          *)
(***************************************************************************)
EXTENDS Disassembler, OpcodeTable

\* The emulator's table is one of those the proof of LineIsExact is about.
ASSUME LengthsFitModesAssumption == LengthsFitModes

\* Each opcode and two bytes of instructions that have no operand.
EveryOpcode ==
  [prg_rom_size |-> \h4000,
   prg_rom |-> [i \in 1 .. 768 |-> CASE i % 3 = 1 -> i \div 3 [] i % 3 = 2 -> \hEA [] OTHER -> \h38]]

EndsWith(code) == [prg_rom_size |-> \h8000, prg_rom |-> [i \in {\h7FFE} |-> code]]

Carts == {EveryOpcode} \cup {EndsWith(code) : code \in {\hA9, \h4C}}
=============================================================================
