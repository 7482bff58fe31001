------------------------------- MODULE Memory -------------------------------
(***************************************************************************)
(* What the bus promises its client: an address space in which a read      *)
(* yields what was last written to any address of the same RAM cell, the   *)
(* cartridge answers with the bytes of its PRG ROM, repeated to fill the   *)
(* upper half, and nothing else is there.  mem holds what a read of each   *)
(* address of interest yields, and value what the last read did yield.     *)
(***************************************************************************)
EXTENDS Bus

CONSTANTS
  Addresses,      \* the addresses the client uses
  Values          \* the bytes it writes

VARIABLES mem, value

IsRam(a) == a < RAM_MIRROR_END
IsRom(a) == a >= PRG_ROM_START

\* The addresses at which the RAM cell at a can be read.
Mirrors(a) == {b \in Addresses : IsRam(b) /\ b % RAM_SIZE = a % RAM_SIZE}

InitialByte(c, a) ==
  IF IsRam(a) THEN 0
  ELSE IF IsRom(a) THEN PrgRom(c, (a - PRG_ROM_START) % c.prg_rom_size)
  ELSE OPEN_BUS

MemoryInit ==
  /\ \E c \in Cartridges : mem = [a \in Addresses |-> InitialByte(c, a)]
  /\ value = OPEN_BUS

Read(a) == value' = mem[a] /\ UNCHANGED mem

Write(a, v) ==
  /\ mem' = [b \in Addresses |-> IF IsRam(a) /\ b \in Mirrors(a) THEN v ELSE mem[b]]
  /\ UNCHANGED value

MemoryNext == \E a \in Addresses : Read(a) \/ \E v \in Values : Write(a, v)

MemorySpec == MemoryInit /\ [][MemoryNext]_<<mem, value>>
=============================================================================
