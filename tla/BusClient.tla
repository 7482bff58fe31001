----------------------------- MODULE BusClient -----------------------------
(***************************************************************************)
(* The bus with a client that may read and write any address at any time,  *)
(* as the CPU does: read_mem and write_mem are called with every address a *)
(* program can form.                                                       *)
(***************************************************************************)
EXTENDS Bus

CONSTANTS
  Addresses,      \* the addresses the client uses
  Values          \* the bytes it writes

ASSUME AddressesAssumption == Addresses \subseteq u16
ASSUME ValuesAssumption == Values \subseteq u8

VARIABLES
  bus,       \* the struct Bus
  value      \* what the last read_mem returned

busVars == <<bus, value>>

BusInit ==
  /\ \E c \in Cartridges : bus = bus_load_cartridge(c)
  /\ value = OPEN_BUS

BusRead(a) == value' = read_mem(bus, a) /\ UNCHANGED bus

BusWrite(a, v) == bus' = write_mem(bus, a, v) /\ UNCHANGED value

BusNext == \E a \in Addresses : BusRead(a) \/ \E v \in Values : BusWrite(a, v)

BusSpec == BusInit /\ [][BusNext]_busVars

BusTypeOK == bus \in BusState /\ value \in u8

-----------------------------------------------------------------------------

\* The bus implements the memory map, with what a read of each address would
\* yield now as the memory.
MemoryMap ==
  INSTANCE Memory WITH mem <- [a \in Addresses |-> read_mem(bus, a)]

\* No write is lost, reaches another cell, is missed by a mirror or changes
\* the cartridge, and no read changes the memory.
ImplementsMemory == MemoryMap!MemorySpec

\* "RAM_MIRROR_END = 0x2000;  // Excluded" (bus.cpp:9): RAM ends before
\* 0x2000, so that what is written to RAM never shows at the registers of the
\* PPU, from 0x2000 on.
RamEndsBefore2000 ==
  [][\A a \in Addresses \cap \h2000 .. \h3FFF :
       read_mem(bus', a) = read_mem(bus, a)]_busVars

\* "Mirror if addr > 0x4000" (bus.cpp:25): a 16 KiB ROM appears at 0xC000 as
\* it does at 0x8000.
RomIsMirrored ==
  bus.cartridge.prg_rom_size = PRG_ROM_PAGE =>
    \A a \in Addresses \cap \h8000 .. \hBFFF :
      a + \h4000 \in Addresses => read_mem(bus, a) = read_mem(bus, a + \h4000)
=============================================================================
