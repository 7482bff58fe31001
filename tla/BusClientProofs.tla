-------------------------- MODULE BusClientProofs --------------------------
(***************************************************************************)
(* The bus implements the memory map at all addresses but the three where  *)
(* the ranges of the code and of its comments differ, for every set of     *)
(* cartridges, of addresses and of values.                                 *)
(***************************************************************************)
EXTENDS BusClient, BusProofs

\* The ends of the ranges: 0x2000 is read as RAM, 0x8000 and 0xFFFF are not
\* read as ROM.
Ends == {RAM_MIRROR_END, PRG_ROM_START, PRG_ROM_END}

\* The memory the bus presents to its client.
Contents(b) == [a \in Addresses |-> read_mem(b, a)]

LEMMA AddressType == \A a \in Addresses : a \in u16
  BY AddressesAssumption

-----------------------------------------------------------------------------

LEMMA InitType == BusInit => BusTypeOK
<1>1. OPEN_BUS \in u8
  BY U8 DEF OPEN_BUS
<1> QED
  BY <1>1, PowerUpType DEF BusInit, BusTypeOK

LEMMA NextType == BusTypeOK /\ [BusNext]_busVars => BusTypeOK'
<1> SUFFICES ASSUME BusTypeOK, [BusNext]_busVars PROVE BusTypeOK'
  OBVIOUS
<1>1. ASSUME NEW a \in Addresses, BusRead(a) PROVE BusTypeOK'
  BY <1>1, AddressType, ReadType DEF BusRead, BusTypeOK
<1>2. ASSUME NEW a \in Addresses, NEW v \in Values, BusWrite(a, v) PROVE BusTypeOK'
  BY <1>2, AddressType, ValuesAssumption, WriteType DEF BusWrite, BusTypeOK
<1>3. CASE UNCHANGED busVars
  BY <1>3 DEF busVars, BusTypeOK
<1> QED
  BY <1>1, <1>2, <1>3 DEF BusNext

\* Whatever its client reads and writes, the bus keeps 2 KiB of bytes.
THEOREM BusTypeCorrectness == BusSpec => []BusTypeOK
  BY InitType, NextType, PTL DEF BusSpec

-----------------------------------------------------------------------------
(* The values a read yields.                                               *)

\* A ROM of one page is repeated; one of two or more has a byte for every
\* address of the window.
LEMMA OffsetIsMirrored ==
  ASSUME NEW c, IsCartridge(c), NEW a \in u16, CartMaps(a)
  PROVE  CartOffset(c, a) = (a - PRG_ROM_START) % c.prg_rom_size
<1>1. PICK n \in 1 .. 255 : c.prg_rom_size = n * 16384
  BY DEF IsCartridge, PRG_ROM_PAGE
<1>2. a - 32768 \in Nat /\ a - 32768 <= 32766
  BY U16 DEF CartMaps, PRG_ROM_START, PRG_ROM_END
<1>3. CASE n = 1
  BY <1>1, <1>3 DEF CartOffset, PRG_ROM_PAGE
<1>4. CASE n >= 2
  <2>1. c.prg_rom_size \in Int /\ c.prg_rom_size >= 32768
    BY <1>1, <1>4
  <2>2. CartOffset(c, a) = a - 32768
    BY <2>1 DEF CartOffset, PRG_ROM_PAGE, PRG_ROM_START
  <2>3. (a - 32768) % c.prg_rom_size = a - 32768
    BY <1>2, <2>1
  <2> QED
    BY <2>2, <2>3 DEF PRG_ROM_START
<1> QED
  BY <1>3, <1>4

\* The byte read at an address that is not an end of a range.
LEMMA ReadByRange ==
  ASSUME NEW b \in BusState, NEW a \in u16, a \notin Ends
  PROVE  read_mem(b, a) = IF a < RAM_MIRROR_END THEN b.cpu_ram[RamCell(a)]
                          ELSE IF a >= PRG_ROM_START
                            THEN PrgRom(b.cartridge,
                                        (a - PRG_ROM_START) % b.cartridge.prg_rom_size)
                            ELSE OPEN_BUS
<1>1. IsCartridge(b.cartridge)
  BY CartridgesAssumption DEF BusState
<1>2. CASE a < RAM_MIRROR_END
  BY <1>2, U16 DEF read_mem, CartMaps, RAM_MIRROR_END, PRG_ROM_START
<1>3. CASE a > RAM_MIRROR_END /\ a < PRG_ROM_START
  BY <1>3, U16 DEF read_mem, CartMaps, RAM_MIRROR_END, PRG_ROM_START
<1>4. CASE a > PRG_ROM_START /\ a < PRG_ROM_END
  <2>1. CartMaps(a)
    BY <1>4 DEF CartMaps
  <2>2. read_mem(b, a) = PrgRom(b.cartridge, CartOffset(b.cartridge, a))
    BY <2>1, <1>4, U16 DEF read_mem, RAM_MIRROR_END, PRG_ROM_START
  <2>3. CartOffset(b.cartridge, a) = (a - PRG_ROM_START) % b.cartridge.prg_rom_size
    BY <1>1, <2>1, OffsetIsMirrored
  <2> QED
    BY <1>4, <2>2, <2>3, U16 DEF RAM_MIRROR_END, PRG_ROM_START
<1> QED
  BY <1>2, <1>3, <1>4, U16 DEF Ends, RAM_MIRROR_END, PRG_ROM_START, PRG_ROM_END

\* A write to RAM shows at the mirrors of its cell and nowhere else; any
\* other write changes nothing.
LEMMA ReadAfterWrite ==
  ASSUME NEW b \in BusState, NEW a \in u16, NEW v \in u8,
         NEW x \in u16, x \notin Ends
  PROVE  read_mem(write_mem(b, a, v), x) =
           IF /\ a < RAM_MIRROR_END
              /\ x < RAM_MIRROR_END /\ x % RAM_SIZE = a % RAM_SIZE
             THEN v ELSE read_mem(b, x)
<1> DEFINE w == write_mem(b, a, v)
<1>1. w \in BusState
  BY WriteType
<1>2. w.cartridge = b.cartridge
  BY DEF write_mem, BusState
<1>3. w.cpu_ram = IF a < RAM_MIRROR_END THEN [b.cpu_ram EXCEPT ![RamCell(a)] = v]
                                        ELSE b.cpu_ram
  BY DEF write_mem, BusState
<1> HIDE DEF w
<1>4. DOMAIN b.cpu_ram = 0 .. RAM_SIZE - 1 /\ RamCell(x) \in 0 .. RAM_SIZE - 1
  BY RamCellType DEF BusState
<1>5. w.cpu_ram[RamCell(x)] = IF a < RAM_MIRROR_END /\ RamCell(x) = RamCell(a)
                                THEN v ELSE b.cpu_ram[RamCell(x)]
  BY <1>3, <1>4
<1>6. RamCell(x) = RamCell(a) <=> x % RAM_SIZE = a % RAM_SIZE
  BY DEF RamCell
<1>7. read_mem(w, x) = IF /\ a < RAM_MIRROR_END
                          /\ x < RAM_MIRROR_END /\ x % RAM_SIZE = a % RAM_SIZE
                         THEN v ELSE read_mem(b, x)
  BY <1>1, <1>2, <1>5, <1>6, ReadByRange
<1> QED
  BY <1>7 DEF w

-----------------------------------------------------------------------------
(* The refinement.                                                         *)

\* Memory has the constants of the bus under the same names.
LEMMA SameMap ==
  /\ MemoryMap!RAM_MIRROR_END = RAM_MIRROR_END
  /\ MemoryMap!PRG_ROM_START = PRG_ROM_START
  /\ MemoryMap!RAM_SIZE = RAM_SIZE
  /\ MemoryMap!OPEN_BUS = OPEN_BUS
  /\ \A c, offset : MemoryMap!PrgRom(c, offset) = PrgRom(c, offset)
  BY DEF MemoryMap!RAM_MIRROR_END, RAM_MIRROR_END, MemoryMap!PRG_ROM_START,
         PRG_ROM_START, MemoryMap!RAM_SIZE, RAM_SIZE, MemoryMap!OPEN_BUS, OPEN_BUS,
         MemoryMap!PrgRom, PrgRom

LEMMA InitImplements ==
  ASSUME Addresses \cap Ends = {}, BusInit
  PROVE  MemoryMap!MemoryInit
<1>1. PICK c \in Cartridges : bus = bus_load_cartridge(c)
  BY DEF BusInit
<1>2. bus \in BusState /\ bus.cartridge = c
  BY <1>1, PowerUpType DEF bus_load_cartridge
<1>3. \A cell \in 0 .. RAM_SIZE - 1 : bus.cpu_ram[cell] = 0
  BY <1>1 DEF bus_load_cartridge
<1>4. ASSUME NEW a \in Addresses
      PROVE  read_mem(bus, a) = MemoryMap!InitialByte(c, a)
  <2>1. a \in u16 /\ a \notin Ends
    BY AddressType
  <2>2. bus.cpu_ram[RamCell(a)] = 0
    BY <1>3, <2>1, RamCellType
  <2> QED
    BY <1>2, <2>1, <2>2, ReadByRange, SameMap
       DEF MemoryMap!InitialByte, MemoryMap!IsRam, MemoryMap!IsRom
<1> QED
  BY <1>4, SameMap DEF BusInit, MemoryMap!MemoryInit

LEMMA ReadImplements ==
  ASSUME NEW a \in Addresses, BusRead(a)
  PROVE  MemoryMap!Read(a)
  BY DEF BusRead, MemoryMap!Read

LEMMA WriteImplements ==
  ASSUME Addresses \cap Ends = {}, BusTypeOK,
         NEW a \in Addresses, NEW v \in Values, BusWrite(a, v)
  PROVE  MemoryMap!Write(a, v)
<1>1. a \in u16 /\ v \in u8 /\ bus \in BusState
  BY AddressType, ValuesAssumption DEF BusTypeOK
<1>2. ASSUME NEW x \in Addresses
      PROVE  read_mem(bus', x) = IF MemoryMap!IsRam(a) /\ x \in MemoryMap!Mirrors(a)
                                   THEN v ELSE read_mem(bus, x)
  <2>1. x \in u16 /\ x \notin Ends
    BY AddressType
  <2> QED
    BY <1>1, <2>1, ReadAfterWrite, SameMap DEF BusWrite, MemoryMap!IsRam, MemoryMap!Mirrors
<1> QED
  BY <1>2 DEF BusWrite, MemoryMap!Write

LEMMA NextImplements ==
  ASSUME Addresses \cap Ends = {}, BusTypeOK, [BusNext]_busVars
  PROVE  [MemoryMap!MemoryNext]_<<Contents(bus), value>>
<1>1. CASE UNCHANGED busVars
  BY <1>1 DEF busVars, Contents
<1>2. CASE BusNext
  BY <1>2, ReadImplements, WriteImplements DEF BusNext, MemoryMap!MemoryNext
<1> QED
  BY <1>1, <1>2

\* A client that stays off the three ends sees a memory: every write reaches
\* the mirrors of its cell and nothing else, and reads change nothing.
THEOREM BusImplementsMemory ==
  ASSUME Addresses \cap Ends = {}
  PROVE  BusSpec => ImplementsMemory
<1>1. BusInit => MemoryMap!MemoryInit
  BY InitImplements
<1>2. BusTypeOK /\ [BusNext]_busVars
        => [MemoryMap!MemoryNext]_<<[a \in Addresses |-> read_mem(bus, a)], value>>
  BY NextImplements DEF Contents
<1> QED
  BY <1>1, <1>2, BusTypeCorrectness, PTL
     DEF BusSpec, ImplementsMemory, MemoryMap!MemorySpec
=============================================================================
