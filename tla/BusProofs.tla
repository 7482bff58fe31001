----------------------------- MODULE BusProofs -----------------------------
(***************************************************************************)
(* Lemmas about the widths of the values that the conversions of module    *)
(* Common and the operations of the bus produce.                           *)
(***************************************************************************)
EXTENDS Bus, TLAPS

\* The two integer types as ranges of numbers: the provers are given these
\* facts and not the definitions.
LEMMA U8 == \A n : n \in u8 <=> n \in Int /\ 0 <= n /\ n <= 255
  BY DEF u8

LEMMA U16 == \A n : n \in u16 <=> n \in Int /\ 0 <= n /\ n <= 65535
<1>1. UINT16_MAX \in Int /\ UINT16_MAX <= 65535 /\ UINT16_MAX >= 65535
  BY DEF UINT16_MAX
<1> QED
  BY <1>1 DEF u16

\* A conversion to u8 or to u16 yields a value of that width, and the bytes
\* of a word are bytes.
LEMMA Widths ==
  /\ \A n \in Int : ToU8(n) \in u8 /\ ToU16(n) \in u16 /\ LowByte(n) \in u8
  /\ \A w \in u16 : HighByte(w) \in u8
  /\ \A hi, lo \in u8 : Word(hi, lo) \in u16
<1>1. \A n \in Int : ToU8(n) \in u8 /\ ToU16(n) \in u16 /\ LowByte(n) \in u8
  BY U8, U16 DEF ToU8, ToU16, LowByte
<1>2. \A w \in u16 : HighByte(w) \in u8
  BY U8, U16 DEF HighByte
<1>3. \A hi, lo \in u8 : Word(hi, lo) \in u16
  BY U8, U16 DEF Word
<1> QED
  BY <1>1, <1>2, <1>3

\* Counting up and down wraps.
LEMMA Wraps ==
  /\ \A s \in u8 : ToU8(s + 1) \in u8 /\ ToU8(s - 1) \in u8
  /\ \A w \in u16 : ToU16(w + 1) \in u16 /\ ToU16(w - 1) \in u16
  BY U8, U16 DEF ToU8, ToU16

\* The number a set of bits stands for is a byte.
LEMMA ByteType == ASSUME NEW S PROVE Byte(S) \in u8
  BY U8 DEF Byte

\* The byte of the bits of v is v.
LEMMA ByteOfBits == ASSUME NEW v \in u8 PROVE Byte(Bits(v)) = v
  BY SMTT(60) DEF Byte, Bits, Weights, u8

\* A cell number is within cpu_ram, whatever the address.
LEMMA RamCellType == ASSUME NEW a \in u16 PROVE RamCell(a) \in 0 .. RAM_SIZE - 1
  BY U16 DEF RamCell, RAM_SIZE

\* cart_read only reads bytes that load_cartridge has allocated: a ROM of
\* one page is mirrored, and one of two or more fills the upper half.
LEMMA CartOffsetInBounds ==
  ASSUME NEW c, IsCartridge(c), NEW a \in u16, CartMaps(a)
  PROVE  CartOffset(c, a) \in 0 .. c.prg_rom_size - 1
<1>1. PICK n \in 1 .. 255 : c.prg_rom_size = n * 16384
  BY DEF IsCartridge, PRG_ROM_PAGE
<1>2. a - 32768 \in Nat /\ a - 32768 <= 32766
  BY U16 DEF CartMaps, PRG_ROM_START, PRG_ROM_END
<1>3. CASE n = 1
  <2>1. c.prg_rom_size \in Int /\ c.prg_rom_size >= 16384
    BY <1>1, <1>3
  <2>2. CartOffset(c, a) = (a - 32768) % 16384
    BY <1>1, <1>3 DEF CartOffset, PRG_ROM_PAGE, PRG_ROM_START
  <2> QED
    BY <1>2, <2>1, <2>2
<1>4. CASE n >= 2
  <2>1. c.prg_rom_size \in Int /\ c.prg_rom_size >= 32768
    BY <1>1, <1>4
  <2>2. CartOffset(c, a) = a - 32768
    BY <2>1 DEF CartOffset, PRG_ROM_PAGE, PRG_ROM_START
  <2> QED
    BY <1>2, <2>1, <2>2
<1> QED
  BY <1>3, <1>4

\* A read yields a byte.
LEMMA ReadType ==
  ASSUME NEW b \in BusState, NEW a \in u16
  PROVE  read_mem(b, a) \in u8
<1>1. PrgRom(b.cartridge, CartOffset(b.cartridge, a)) \in u8
  BY U8, CartridgesAssumption DEF BusState, PrgRom, IsCartridge
<1>2. b.cpu_ram[RamCell(a)] \in u8
  BY RamCellType DEF BusState
<1>3. OPEN_BUS \in u8
  BY U8 DEF OPEN_BUS
<1> QED
  BY <1>1, <1>2, <1>3 DEF read_mem

\* A write keeps the bus well-typed.
LEMMA WriteType ==
  ASSUME NEW b \in BusState, NEW a \in u16, NEW v \in u8
  PROVE  write_mem(b, a, v) \in BusState
  BY RamCellType DEF BusState, write_mem

LEMMA PowerUpType ==
  ASSUME NEW c \in Cartridges
  PROVE  bus_load_cartridge(c) \in BusState
  BY U8, U16 DEF bus_load_cartridge, BusState
=============================================================================
