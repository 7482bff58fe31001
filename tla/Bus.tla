-------------------------------- MODULE Bus --------------------------------
(***************************************************************************)
(* The bus of bus.cpp: the CPU's view of the address space.  A bus value   *)
(* is the struct Bus: the loaded cartridge, the 2 KiB of cpu_ram and the   *)
(* registers of the CPU.  read_mem returns what a read yields, write_mem   *)
(* the bus after a write.                                                  *)
(*                                                                         *)
(* A cartridge's prg_rom is given by the bytes of interest; the offsets it *)
(* does not list hold 0.                                                   *)
(***************************************************************************)
EXTENDS Common

CONSTANT Cartridges     \* the cartridges that can be in the slot

\* Mutant: the end of the mirrors of the PPU's registers.
RAM_MIRROR_END_OfPpu == \h4000
RAM_MIRROR_END == \h2000
PRG_ROM_START  == \h8000
PRG_ROM_END    == \hFFFF
RAM_SIZE       == \h800
PRG_ROM_PAGE   == \h4000

OPEN_BUS == \hFF        \* read_mem's initial value: what an unmapped read yields

\* load_cartridge only returns whole 16 KiB pages, and at least one.
IsCartridge(c) ==
  /\ c.prg_rom_size \in {n * PRG_ROM_PAGE : n \in 1 .. 255}
  /\ DOMAIN c.prg_rom \subseteq 0 .. c.prg_rom_size - 1
  /\ \A i \in DOMAIN c.prg_rom : c.prg_rom[i] \in u8

ASSUME CartridgesAssumption == \A c \in Cartridges : IsCartridge(c)

PrgRom(c, offset) == IF offset \in DOMAIN c.prg_rom THEN c.prg_rom[offset] ELSE 0

-----------------------------------------------------------------------------

CartMaps(addr) == addr > PRG_ROM_START /\ addr < PRG_ROM_END

\* The index into prg_rom that cart_read uses: a 16 KiB ROM appears twice.
CartOffset(c, addr) ==
  IF c.prg_rom_size = PRG_ROM_PAGE
    THEN (addr - PRG_ROM_START) % PRG_ROM_PAGE
    ELSE addr - PRG_ROM_START

\* Mutant: & 0x03FF for & 0x07FF.
RamCell_1KiB(addr) == addr % \h400
RamCell(addr) == addr % RAM_SIZE

read_mem(bus, addr) ==
  CASE CartMaps(addr) -> PrgRom(bus.cartridge, CartOffset(bus.cartridge, addr))
    [] addr <= RAM_MIRROR_END -> bus.cpu_ram[RamCell(addr)]
    [] OTHER -> OPEN_BUS

\* cart_write accepts nothing, and the PPU registers are not there yet.
write_mem(bus, addr, value) ==
  IF addr < RAM_MIRROR_END
    THEN [bus EXCEPT !.cpu_ram[RamCell(addr)] = value]
    ELSE bus

\* Mutant: cpu_ram has one cell too many.
bus_load_cartridge_LargeRam(c) ==
  [cartridge |-> c, cpu_ram |-> [cell \in 0 .. RAM_SIZE |-> 0],
   program_counter |-> 0, stack_pointer |-> 0,
   accumulator |-> 0, x |-> 0, y |-> 0, status |-> {}, cycles |-> 0]

\* Bus bus = {} followed by bus_load_cartridge.
bus_load_cartridge(c) ==
  [cartridge |-> c, cpu_ram |-> [cell \in 0 .. RAM_SIZE - 1 |-> 0],
   program_counter |-> 0, stack_pointer |-> 0,
   accumulator |-> 0, x |-> 0, y |-> 0, status |-> {}, cycles |-> 0]

\* Every value the struct can hold; status is the set of the flags that are 1.
BusState ==
  [cartridge : Cartridges, cpu_ram : [0 .. RAM_SIZE - 1 -> u8],
   program_counter : u16, stack_pointer : u8,
   accumulator : u8, x : u8, y : u8, status : SUBSET Weights, cycles : Nat]
=============================================================================
