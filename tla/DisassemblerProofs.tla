------------------------- MODULE DisassemblerProofs -------------------------
(***************************************************************************)
(* The listing of every ROM starts a line where the bus starts to read it, *)
(* at 0x8001: the walk counts through RAM byte by byte, and then in threes *)
(* through 3 * 8192 addresses where nothing is mapped, the ROM's own first *)
(* address among them, which end right there.                              *)
(* Every line shows the bytes at its address and the operand they encode,  *)
(* and the addresses of the lines ascend.                                  *)
(***************************************************************************)
EXTENDS Disassembler, BusProofs

\* The first address behind RAM for a read, the first one at which the bus
\* reads the ROM, and where the walk is on the way from the one to the other.
UNMAPPED_START == RAM_MIRROR_END + 1
MAPPED_START   == PRG_ROM_START + 1

InFront ==
  \/ pc <= UNMAPPED_START
  \/ pc <= MAPPED_START /\ (pc - UNMAPPED_START) % 3 = 0

\* The inductive invariant.
WalkInv ==
  /\ cart \in Cartridges
  /\ pc \in Nat
  /\ Len(line.bytes) \in Nat
  /\ InFront \/ LineStart >= MAPPED_START

LEMMA Borders ==
  /\ RAM_MIRROR_END = 8192 /\ UNMAPPED_START = 8193 /\ MAPPED_START = 32769
  /\ LISTING_END = 65536 /\ PRG_ROM_START = 32768 /\ PRG_ROM_END = 65535
  BY DEF RAM_MIRROR_END, UNMAPPED_START, MAPPED_START, LISTING_END, PRG_ROM_START, PRG_ROM_END

\* What the walk reads in RAM and behind it.
LEMMA PaddingReads ==
  ASSUME NEW c \in Cartridges, NEW a \in u16
  PROVE  /\ a <= RAM_MIRROR_END => read_mem(bus_load_cartridge(c), a) = 0
         /\ RAM_MIRROR_END < a /\ a <= PRG_ROM_START
              => read_mem(bus_load_cartridge(c), a) = OPEN_BUS
<1>1. CartMaps(a) <=> a > 32768 /\ a < 65535
  BY Borders DEF CartMaps
<1>2. a <= RAM_MIRROR_END => bus_load_cartridge(c).cpu_ram[RamCell(a)] = 0
  BY RamCellType DEF bus_load_cartridge
<1> QED
  BY <1>1, <1>2, U16, Borders DEF read_mem

\* An instruction is one to three bytes long, and its length is that of the
\* padding where only padding is.
LEMMA Lengths ==
  ASSUME NEW c \in Cartridges, NEW p \in Nat
  PROVE  LET n == get_next_opcode(bus_load_cartridge(c), ToU16(p)).bytes
         IN  /\ n \in 1 .. 3
             /\ p <= RAM_MIRROR_END => n = 1
             /\ RAM_MIRROR_END < p /\ p <= PRG_ROM_START => n = 3
<1> DEFINE a == ToU16(p)
           b == bus_load_cartridge(c)
           n == get_next_opcode(b, a).bytes
<1>1. a \in u16
  BY Widths
<1>2. p <= PRG_ROM_START => a = p
  BY Borders DEF ToU16
<1>3. n = opcodes[read_mem(b, a)].bytes
  BY DEF get_next_opcode
<1>4. read_mem(b, a) \in u8
  BY <1>1, PowerUpType, ReadType
<1>5. n \in 1 .. 3
  BY <1>3, <1>4, OpcodesAssumption DEF OpCode
<1>6. p <= RAM_MIRROR_END => n = 1
  BY <1>1, <1>2, <1>3, PaddingReads, PaddingAssumption, Borders
<1>7. RAM_MIRROR_END < p /\ p <= PRG_ROM_START => n = 3
  BY <1>1, <1>2, <1>3, PaddingReads, PaddingAssumption, Borders
<1> QED
  BY <1>5, <1>6, <1>7

\* A line has as many bytes as the pc moves by.
LEMMA LineLength ==
  ASSUME WalkInv, ListLine
  PROVE  /\ cart' = cart
         /\ \E n \in 1 .. 3 :
              /\ n = get_next_opcode(bus_load_cartridge(cart), ToU16(pc)).bytes
              /\ pc' = pc + n
              /\ Len(line'.bytes) = n /\ DOMAIN line'.bytes = 1 .. n
<1> DEFINE opcode == get_next_opcode(bus_load_cartridge(cart), ToU16(pc))
<1>1. opcode.bytes \in 1 .. 3
  BY Lengths DEF WalkInv
<1>2. line'.bytes = [i \in 1 .. opcode.bytes |->
                       dec_to_hex(read_mem(bus_load_cartridge(cart), ToU16(pc + i - 1)), 2)]
  BY DEF ListLine
<1>3. Len(line'.bytes) = opcode.bytes /\ DOMAIN line'.bytes = 1 .. opcode.bytes
  BY <1>1, <1>2
<1>4. pc' = pc + opcode.bytes /\ cart' = cart
  BY DEF ListLine, Advance
<1> QED
  BY <1>1, <1>3, <1>4

LEMMA InitWalkInv == WalkInit => WalkInv
<1> SUFFICES ASSUME WalkInit PROVE WalkInv
  OBVIOUS
<1>1. pc = 0 /\ cart \in Cartridges /\ line.bytes = <<>>
  BY DEF WalkInit, NoLine
<1> QED
  BY <1>1, Borders DEF WalkInv, InFront

LEMMA ListLineWalkInv == ASSUME WalkInv, ListLine PROVE WalkInv'
<1>1. PICK n \in 1 .. 3 :
        /\ n = get_next_opcode(bus_load_cartridge(cart), ToU16(pc)).bytes
        /\ pc' = pc + n
        /\ Len(line'.bytes) = n
  BY LineLength
<1>2. cart' \in Cartridges /\ pc' \in Nat /\ Len(line'.bytes) \in Nat
  BY <1>1, LineLength DEF WalkInv
<1>3. LineStart' = pc
  BY <1>1 DEF LineStart, WalkInv
<1>4. CASE pc <= 8192
  <2>1. n = 1
    BY <1>1, <1>4, Lengths, Borders DEF WalkInv
  <2>2. pc' <= 8193
    BY <1>1, <1>4, <2>1 DEF WalkInv
  <2>3. InFront'
    BY <2>2, Borders DEF InFront
  <2> QED
    BY <1>2, <2>3 DEF WalkInv
<1>5. CASE 8193 <= pc /\ pc <= 32768
  <2>1. n = 3
    BY <1>1, <1>5, Lengths, Borders DEF WalkInv
  <2>2. pc >= LineStart
    BY DEF LineStart, WalkInv
  <2>3. (pc - 8193) % 3 = 0
    BY <1>5, <2>2, Borders DEF WalkInv, InFront, LineStart
  <2>4. (pc' - 8193) % 3 = 0 /\ pc' <= 32769
    BY <1>1, <1>5, <2>1, <2>3 DEF WalkInv
  <2>5. InFront'
    BY <2>4, Borders DEF InFront
  <2> QED
    BY <1>2, <2>5 DEF WalkInv
<1>6. CASE pc >= 32769
  BY <1>2, <1>3, <1>6, Borders DEF WalkInv
<1> QED
  BY <1>4, <1>5, <1>6 DEF WalkInv

LEMMA NextWalkInv == WalkInv /\ [WalkNext]_walkVars => WalkInv'
<1> SUFFICES ASSUME WalkInv, [WalkNext]_walkVars PROVE WalkInv'
  OBVIOUS
<1>1. CASE ListLine
  BY <1>1, ListLineWalkInv
<1>2. CASE UNCHANGED walkVars
  BY <1>2 DEF walkVars, WalkInv, InFront, LineStart
<1> QED
  BY <1>1, <1>2 DEF WalkNext, Listed

\* A line has at most three bytes and does not begin above 0x10000.
HasBytes(n) ==
  /\ Len(line.bytes) = n
  /\ DOMAIN line.bytes = 1 .. n
  /\ LineStart \in Nat /\ LineStart <= LISTING_END /\ pc = LineStart + n

LineFits == \E n \in 0 .. 3 : HasBytes(n)

LEMMA InitLineFits == WalkInit => LineFits
<1> SUFFICES ASSUME WalkInit PROVE LineFits
  OBVIOUS
<1>1. pc = 0 /\ line.bytes = <<>>
  BY DEF WalkInit, NoLine
<1>2. Len(line.bytes) = 0 /\ DOMAIN line.bytes = 1 .. 0
  BY <1>1
<1> DEFINE n == Len(line.bytes)
<1>3. pc - n = 0
  <2>1. n = 0 /\ pc = 0
    BY <1>1, <1>2
  <2> HIDE DEF n
  <2> QED
    BY <2>1
<1>4. LineStart \in Nat /\ LineStart <= LISTING_END /\ pc = LineStart + 0
  BY <1>1, <1>3, Borders DEF LineStart
<1>5. HasBytes(0)
  BY <1>2, <1>4 DEF HasBytes
<1> QED
  BY <1>5 DEF LineFits

LEMMA NextLineFits ==
  WalkInv /\ LineFits /\ [WalkNext]_walkVars => LineFits'
<1> SUFFICES ASSUME WalkInv, LineFits, [WalkNext]_walkVars PROVE LineFits'
  OBVIOUS
<1>1. CASE ListLine
  <2>1. PICK n \in 1 .. 3 :
          pc' = pc + n /\ Len(line'.bytes) = n /\ DOMAIN line'.bytes = 1 .. n
    BY <1>1, LineLength
  <2>2. pc \in Nat /\ pc <= LISTING_END
    BY <1>1 DEF WalkInv, ListLine
  <2>3. LineStart' = pc
    BY <2>1, <2>2 DEF LineStart
  <2>4. LineStart' \in Nat /\ LineStart' <= LISTING_END /\ pc' = LineStart' + n
    BY <2>1, <2>2, <2>3, Borders
  <2>5. HasBytes(n)'
    BY <2>1, <2>4 DEF HasBytes
  <2> QED
    BY <2>5 DEF LineFits
<1>2. CASE UNCHANGED walkVars
  BY <1>2 DEF walkVars, LineFits, HasBytes, LineStart
<1> QED
  BY <1>1, <1>2 DEF WalkNext, Listed

\* An address of the ROM in a line in front of it, or in one over its end.
LEMMA MappedFromTheStart ==
  ASSUME NEW s \in Nat, s <= LISTING_END, NEW n \in 0 .. 3, NEW i \in 1 .. n,
         s + n <= 32769 \/ s >= 32769, CartMaps(ToU16(s + i - 1))
  PROVE  CartMaps(ToU16(s))
<1> s <= 65536
  BY Borders
<1>1. ToU16(s + i - 1) > 32768 /\ ToU16(s + i - 1) < 65535
  BY Borders DEF CartMaps
<1>2. s >= 32769
  BY <1>1 DEF ToU16
<1>3. s < 65535
  BY <1>1 DEF ToU16
<1>4. ToU16(s) = s
  BY <1>2, <1>3 DEF ToU16
<1> QED
  BY <1>2, <1>3, <1>4, Borders DEF CartMaps

\* disassemble_code lists what the bus reads of a ROM apart from what is in
\* front of it, whatever the ROM holds.
THEOREM RomListedApart == WalkSpec => []RomIsListedApart
<1>1. WalkInv /\ LineFits => RomIsListedApart
  <2> SUFFICES ASSUME WalkInv, LineFits PROVE RomIsListedApart
    OBVIOUS
  <2>1. PICK n \in 0 .. 3 : HasBytes(n)
    BY DEF LineFits
  <2>2. /\ LineStart \in Nat /\ LineStart <= LISTING_END /\ pc = LineStart + n
        /\ DOMAIN line.bytes = 1 .. n
    BY <2>1 DEF HasBytes
  <2>3. LineStart + n <= 32769 \/ LineStart >= 32769
    BY <2>2, Borders DEF WalkInv, InFront
  <2> QED
    BY <2>2, <2>3, MappedFromTheStart DEF RomIsListedApart
<1> QED
  BY <1>1, InitWalkInv, NextWalkInv, InitLineFits, NextLineFits, PTL DEF WalkSpec

-----------------------------------------------------------------------------
(* What the columns of a line show.                                        *)

\* The digits of a number of one to eight digits, the most an int has.
Digits1(d) == Append(<<>>, d % 16)
Digits2(d) == Append(Digits1(d \div 16), d % 16)
Digits3(d) == Append(Digits2(d \div 16), d % 16)
Digits4(d) == Append(Digits3(d \div 16), d % 16)
Digits5(d) == Append(Digits4(d \div 16), d % 16)
Digits6(d) == Append(Digits5(d \div 16), d % 16)
Digits7(d) == Append(Digits6(d \div 16), d % 16)
Digits8(d) == Append(Digits7(d \div 16), d % 16)

Digits(d) ==
  IF d = 0 THEN <<>>
  ELSE IF d < 16 THEN Digits1(d)
  ELSE IF d < 256 THEN Digits2(d)
  ELSE IF d < 4096 THEN Digits3(d)
  ELSE IF d < 65536 THEN Digits4(d)
  ELSE IF d \div 65536 < 16 THEN Digits5(d)
  ELSE IF d \div 65536 < 256 THEN Digits6(d)
  ELSE IF d \div 65536 < 4096 THEN Digits7(d)
  ELSE Digits8(d)

LEMMA DigitsAppend ==
  ASSUME NEW d \in NonNegativeInt, d # 0
  PROVE  d \div 16 \in NonNegativeInt /\ Digits(d) = Append(Digits(d \div 16), d % 16)
<1>1. INT_MAX \in Nat
  BY DEF INT_MAX
<1>2. d \in Nat /\ d <= INT_MAX
  BY <1>1 DEF NonNegativeInt
<1>3. d \div 65536 < 32768
  <2>1. d < 32768 * 65536
    BY <1>2 DEF INT_MAX
  <2> QED
    BY <1>2, <2>1
<1>4. d \div 16 \in NonNegativeInt
  BY <1>1, <1>2 DEF NonNegativeInt
<1>5. CASE d < 16
  <2>1. d \div 16 = 0
    BY <1>2, <1>5
  <2> QED
    BY <1>4, <1>5, <2>1 DEF Digits, Digits1
<1>6. CASE 16 <= d /\ d < 256
  BY <1>2, <1>4, <1>6 DEF Digits, Digits2
<1>7. CASE 256 <= d /\ d < 4096
  BY <1>2, <1>4, <1>7 DEF Digits, Digits3
<1>8. CASE 4096 <= d /\ d < 65536
  BY <1>2, <1>4, <1>8 DEF Digits, Digits4
<1>9. CASE 65536 <= d /\ d \div 65536 < 16
  BY <1>2, <1>4, <1>9 DEF Digits, Digits5
<1>10. CASE 16 <= d \div 65536 /\ d \div 65536 < 256
  BY <1>2, <1>4, <1>10 DEF Digits, Digits6
<1>11. CASE 256 <= d \div 65536 /\ d \div 65536 < 4096
  BY <1>2, <1>4, <1>11 DEF Digits, Digits7
<1>12. CASE 4096 <= d \div 65536
  BY <1>2, <1>4, <1>3, <1>12 DEF Digits, Digits8
<1> QED
  BY <1>2, <1>5, <1>6, <1>7, <1>8, <1>9, <1>10, <1>11, <1>12

\* The equation of the recursive definition: a function that satisfies it exists.
LEMMA HexDigitsDef ==
  \A d \in NonNegativeInt :
    HexDigits[d] = IF d = 0 THEN <<>> ELSE Append(HexDigits[d \div 16], d % 16)
<1> DEFINE Solves(f) == f = [d \in NonNegativeInt |->
                               IF d = 0 THEN <<>> ELSE Append(f[d \div 16], d % 16)]
           g == [d \in NonNegativeInt |-> Digits(d)]
<1>1. ASSUME NEW d \in NonNegativeInt
      PROVE  Digits(d) = IF d = 0 THEN <<>> ELSE Append(g[d \div 16], d % 16)
  <2>1. CASE d = 0
    BY <2>1 DEF Digits
  <2>2. CASE d # 0
    BY <2>2, DigitsAppend
  <2> QED
    BY <2>1, <2>2
<1>2. Solves(g)
  BY <1>1
<1>3. HexDigits = CHOOSE f : f = [d \in NonNegativeInt |->
                                    IF d = 0 THEN <<>> ELSE Append(f[d \div 16], d % 16)]
  BY DEF HexDigits
<1>4. HexDigits = CHOOSE f : Solves(f)
  BY <1>3
<1> HIDE DEF g, Solves
<1>5. Solves(HexDigits)
  BY <1>2, <1>4
<1> USE DEF Solves
<1> QED
  BY <1>5

LEMMA SmallAppends ==
  /\ \A a : Append(<<>>, a) = <<a>>
  /\ \A a, b : Append(<<a>>, b) = <<a, b>>
  /\ \A a, b, c : Append(<<a, b>>, c) = <<a, b, c>>
  /\ \A a, b, c, e : Append(<<a, b, c>>, e) = <<a, b, c, e>>
<1>1. ASSUME NEW a PROVE Append(<<>>, a) = <<a>>
  <2> DEFINE s == Append(<<>>, a)
  <2>1. Len(s) = 1 /\ s[1] = a
    OBVIOUS
  <2>2. s \in Seq({a})
    OBVIOUS
  <2> HIDE DEF s
  <2>3. s = <<a>>
    BY <2>1, <2>2
  <2> QED
    BY <2>3 DEF s
<1>2. ASSUME NEW a, NEW b PROVE Append(<<a>>, b) = <<a, b>>
  <2> DEFINE s == Append(<<a>>, b)
  <2>1. Len(s) = 2 /\ s[1] = a /\ s[2] = b
    OBVIOUS
  <2>2. s \in Seq({a, b})
    OBVIOUS
  <2> HIDE DEF s
  <2>3. s = <<a, b>>
    BY <2>1, <2>2
  <2> QED
    BY <2>3 DEF s
<1>3. ASSUME NEW a, NEW b, NEW c PROVE Append(<<a, b>>, c) = <<a, b, c>>
  <2> DEFINE s == Append(<<a, b>>, c)
  <2>1. Len(s) = 3 /\ s[1] = a /\ s[2] = b /\ s[3] = c
    OBVIOUS
  <2>2. s \in Seq({a, b, c})
    OBVIOUS
  <2> HIDE DEF s
  <2>3. s = <<a, b, c>>
    BY <2>1, <2>2
  <2> QED
    BY <2>3 DEF s
<1>4. ASSUME NEW a, NEW b, NEW c, NEW e PROVE Append(<<a, b, c>>, e) = <<a, b, c, e>>
  <2> DEFINE s == Append(<<a, b, c>>, e)
  <2>1. Len(s) = 4 /\ s[1] = a /\ s[2] = b /\ s[3] = c /\ s[4] = e
    OBVIOUS
  <2>2. s \in Seq({a, b, c, e})
    OBVIOUS
  <2> HIDE DEF s
  <2>3. s = <<a, b, c, e>>
    BY <2>1, <2>2
  <2> QED
    BY <2>3 DEF s
<1> QED
  BY <1>1, <1>2, <1>3, <1>4

\* The digits of the numbers a column holds.
LEMMA HexDigitsOfWord ==
  ASSUME NEW d \in u16
  PROVE  /\ d = 0 => HexDigits[d] = <<>>
         /\ 1 <= d /\ d < 16 => HexDigits[d] = <<d>>
         /\ 16 <= d /\ d < 256 => HexDigits[d] = <<d \div 16, d % 16>>
         /\ 256 <= d /\ d < 4096 =>
              HexDigits[d] = <<d \div 256, (d \div 16) % 16, d % 16>>
         /\ 4096 <= d =>
              HexDigits[d] = <<d \div 4096, (d \div 256) % 16, (d \div 16) % 16, d % 16>>
<1>1. /\ \A a : Append(<<>>, a) = <<a>>
      /\ \A a, b : Append(<<a>>, b) = <<a, b>>
      /\ \A a, b, c : Append(<<a, b>>, c) = <<a, b, c>>
      /\ \A a, b, c, e : Append(<<a, b, c>>, e) = <<a, b, c, e>>
  BY SmallAppends
<1>2. INT_MAX \in Nat /\ 65535 <= INT_MAX
  BY DEF INT_MAX
<1>3. \A n \in u16 : n \in NonNegativeInt /\ n \in Nat
  BY <1>2, U16 DEF NonNegativeInt
<1>4. \A n \in u16 : HexDigits[n] = IF n = 0 THEN <<>> ELSE Append(HexDigits[n \div 16], n % 16)
  BY <1>3, HexDigitsDef
<1>5. \A n \in u16 : n \div 16 \in u16
  BY U16
<1>6. \A n \in u16 : n = 0 => HexDigits[n] = <<>>
  BY <1>4
<1>7. ASSUME NEW n \in u16, 1 <= n, n < 16 PROVE HexDigits[n] = <<n>>
  <2>1. n # 0 /\ n \div 16 = 0 /\ n % 16 = n
    BY <1>3, <1>7
  <2>2. HexDigits[n] = Append(<<>>, n)
    BY <1>4, <1>5, <1>6, <2>1
  <2> QED
    BY <1>1, <2>2
<1>8. ASSUME NEW n \in u16, 16 <= n, n < 256 PROVE HexDigits[n] = <<n \div 16, n % 16>>
  <2>1. n # 0 /\ 1 <= n \div 16 /\ n \div 16 < 16
    BY <1>3, <1>8
  <2>2. HexDigits[n] = Append(<<n \div 16>>, n % 16)
    BY <1>4, <1>5, <1>7, <2>1
  <2> QED
    BY <1>1, <2>2
<1>9. ASSUME NEW n \in u16, 256 <= n, n < 4096
      PROVE  HexDigits[n] = <<n \div 256, (n \div 16) % 16, n % 16>>
  <2>1. n # 0 /\ 16 <= n \div 16 /\ n \div 16 < 256 /\ (n \div 16) \div 16 = n \div 256
    BY <1>3, <1>9
  <2>2. HexDigits[n \div 16] = <<n \div 256, (n \div 16) % 16>>
    BY <1>5, <1>8, <2>1
  <2>3. HexDigits[n] = Append(<<n \div 256, (n \div 16) % 16>>, n % 16)
    BY <1>4, <2>1, <2>2
  <2> QED
    BY <1>1, <2>3
<1>10. ASSUME NEW n \in u16, 4096 <= n
       PROVE  HexDigits[n]
                = <<n \div 4096, (n \div 256) % 16, (n \div 16) % 16, n % 16>>
  <2>1. /\ n # 0 /\ 256 <= n \div 16 /\ n \div 16 < 4096
        /\ (n \div 16) \div 16 = n \div 256 /\ (n \div 16) \div 256 = n \div 4096
    BY <1>10, U16
  <2>2. HexDigits[n \div 16] = <<n \div 4096, (n \div 256) % 16, (n \div 16) % 16>>
    BY <1>5, <1>9, <2>1
  <2>3. HexDigits[n] = Append(HexDigits[n \div 16], n % 16)
    <3>1. n # 0
      BY <2>1
    <3> QED
      BY <1>4, <3>1
  <2> QED
    BY <1>1, <2>2, <2>3
<1> QED
  BY <1>6, <1>7, <1>8, <1>9, <1>10

\* A column of a byte has two digits and one of a word four, leading zeros
\* included.
LEMMA HexOfByte ==
  ASSUME NEW d \in u8
  PROVE  dec_to_hex(d, 2) = <<d \div 16, d % 16>>
<1>1. d \in Nat /\ d <= 255 /\ d \in u16
  BY U8, U16
<1>2. CASE d = 0
  <2>1. dec_to_hex(d, 2) = [i \in 1 .. 2 |-> 0] \o <<>>
    BY <1>1, <1>2, HexDigitsOfWord DEF dec_to_hex
  <2> QED
    BY <1>2, <2>1
<1>3. CASE 1 <= d /\ d < 16
  <2>1. HexDigits[d] = <<d>>
    BY <1>1, <1>3, HexDigitsOfWord
  <2>2. dec_to_hex(d, 2) = [i \in 1 .. 1 |-> 0] \o <<d>>
    BY <2>1 DEF dec_to_hex
  <2> QED
    BY <1>1, <1>3, <2>2
<1>4. CASE 16 <= d
  <2>1. HexDigits[d] = <<d \div 16, d % 16>>
    BY <1>1, <1>4, HexDigitsOfWord
  <2>2. dec_to_hex(d, 2) = [i \in 1 .. 0 |-> 0] \o <<d \div 16, d % 16>>
    BY <2>1 DEF dec_to_hex
  <2> QED
    BY <2>2
<1> QED
  BY <1>1, <1>2, <1>3, <1>4

LEMMA HexOfWord ==
  ASSUME NEW d \in u16
  PROVE  dec_to_hex(d, 4) = <<d \div 4096, (d \div 256) % 16, (d \div 16) % 16, d % 16>>
<1>1. d \in Nat /\ d <= 65535
  BY U16
<1>2. CASE d = 0
  <2>1. dec_to_hex(d, 4) = [i \in 1 .. 4 |-> 0] \o <<>>
    BY <1>1, <1>2, HexDigitsOfWord DEF dec_to_hex
  <2> QED
    BY <1>2, <2>1
<1>3. CASE 1 <= d /\ d < 16
  <2>1. HexDigits[d] = <<d>>
    BY <1>1, <1>3, HexDigitsOfWord
  <2>2. dec_to_hex(d, 4) = [i \in 1 .. 3 |-> 0] \o <<d>>
    BY <2>1 DEF dec_to_hex
  <2>3. d \div 4096 = 0 /\ (d \div 256) % 16 = 0 /\ (d \div 16) % 16 = 0 /\ d % 16 = d
    BY <1>1, <1>3
  <2> QED
    BY <2>2, <2>3
<1>4. CASE 16 <= d /\ d < 256
  <2>1. HexDigits[d] = <<d \div 16, d % 16>>
    BY <1>1, <1>4, HexDigitsOfWord
  <2>2. dec_to_hex(d, 4) = [i \in 1 .. 2 |-> 0] \o <<d \div 16, d % 16>>
    BY <2>1 DEF dec_to_hex
  <2>3. d \div 4096 = 0 /\ (d \div 256) % 16 = 0 /\ (d \div 16) % 16 = d \div 16
    BY <1>1, <1>4
  <2> QED
    BY <2>2, <2>3
<1>5. CASE 256 <= d /\ d < 4096
  <2>1. HexDigits[d] = <<d \div 256, (d \div 16) % 16, d % 16>>
    BY <1>1, <1>5, HexDigitsOfWord
  <2>2. dec_to_hex(d, 4) = [i \in 1 .. 1 |-> 0] \o <<d \div 256, (d \div 16) % 16, d % 16>>
    BY <2>1 DEF dec_to_hex
  <2>3. d \div 4096 = 0 /\ (d \div 256) % 16 = d \div 256
    BY <1>1, <1>5
  <2> QED
    BY <2>2, <2>3
<1>6. CASE 4096 <= d
  <2>1. HexDigits[d] = <<d \div 4096, (d \div 256) % 16, (d \div 16) % 16, d % 16>>
    BY <1>1, <1>6, HexDigitsOfWord
  <2>2. dec_to_hex(d, 4)
          = [i \in 1 .. 0 |-> 0]
              \o <<d \div 4096, (d \div 256) % 16, (d \div 16) % 16, d % 16>>
    BY <2>1 DEF dec_to_hex
  <2> QED
    BY <2>2
<1> QED
  BY <1>1, <1>2, <1>3, <1>4, <1>5, <1>6

\* Reading digits back satisfies the equation of its definition, since a
\* function that does exists for the lengths of the columns.
LEMMA HexValueOfTwo ==
  ASSUME NEW a \in Nat, NEW b \in Nat
  PROVE  HexValue(<<a, b>>) = 16 * a + b
<1> DEFINE digits == <<a, b>>
           Solves(v) == v = [i \in 0 .. Len(digits) |->
                               IF i = 0 THEN 0 ELSE 16 * v[i - 1] + digits[i]]
           g == [i \in 0 .. Len(digits) |->
                   IF i = 0 THEN 0 ELSE IF i = 1 THEN a ELSE 16 * a + b]
           w == CHOOSE v : Solves(v)
<1>1. Solves(g)
  OBVIOUS
<1>2. HexValue(digits) = (CHOOSE v : v = [i \in 0 .. Len(digits) |->
                               IF i = 0 THEN 0 ELSE 16 * v[i - 1] + digits[i]])[Len(digits)]
  BY DEF HexValue
<1>3. HexValue(digits) = w[Len(digits)]
  BY <1>2
<1> HIDE DEF g, Solves
<1>4. Solves(w)
  BY <1>1
<1> HIDE DEF w
<1> USE DEF Solves
<1>5. w[0] = 0 /\ w[1] = 16 * w[0] + a /\ w[2] = 16 * w[1] + b
  BY <1>4
<1> QED
  BY <1>3, <1>5

LEMMA HexValueOfFour ==
  ASSUME NEW a \in Nat, NEW b \in Nat, NEW c \in Nat, NEW d \in Nat
  PROVE  HexValue(<<a, b, c, d>>) = 4096 * a + 256 * b + 16 * c + d
<1> DEFINE digits == <<a, b, c, d>>
           Solves(v) == v = [i \in 0 .. Len(digits) |->
                               IF i = 0 THEN 0 ELSE 16 * v[i - 1] + digits[i]]
           v1 == a
           v2 == 16 * v1 + b
           v3 == 16 * v2 + c
           v4 == 16 * v3 + d
           g == [i \in 0 .. Len(digits) |->
                   CASE i = 0 -> 0 [] i = 1 -> v1 [] i = 2 -> v2 [] i = 3 -> v3 [] OTHER -> v4]
           w == CHOOSE v : Solves(v)
<1>1. Solves(g)
  OBVIOUS
<1>2. HexValue(digits) = (CHOOSE v : v = [i \in 0 .. Len(digits) |->
                               IF i = 0 THEN 0 ELSE 16 * v[i - 1] + digits[i]])[Len(digits)]
  BY DEF HexValue
<1>3. HexValue(digits) = w[Len(digits)]
  BY <1>2
<1> HIDE DEF g, Solves
<1>4. Solves(w)
  BY <1>1
<1> HIDE DEF w
<1> USE DEF Solves
<1>5. w[0] = 0 /\ w[1] = 16 * w[0] + a /\ w[2] = 16 * w[1] + b
      /\ w[3] = 16 * w[2] + c /\ w[4] = 16 * w[3] + d
  BY <1>4
<1> QED
  BY <1>3, <1>5

\* What a column shows, read back.
LEMMA ByteColumn ==
  ASSUME NEW d \in u8
  PROVE  Len(dec_to_hex(d, 2)) = 2 /\ HexValue(dec_to_hex(d, 2)) = d
<1>1. d \div 16 \in Nat /\ d % 16 \in Nat /\ 16 * (d \div 16) + (d % 16) = d
  BY U8
<1> QED
  BY <1>1, HexOfByte, HexValueOfTwo

LEMMA WordColumn ==
  ASSUME NEW d \in u16
  PROVE  Len(dec_to_hex(d, 4)) = 4 /\ HexValue(dec_to_hex(d, 4)) = d
<1> DEFINE a == d \div 4096
           b == (d \div 256) % 16
           c == (d \div 16) % 16
           e == d % 16
<1>1. d \in Nat
  BY U16
<1>2. a \in Nat /\ b \in Nat /\ c \in Nat /\ e \in Nat
  BY <1>1
<1>3. d = 16 * (d \div 16) + e
  BY <1>1
<1>4. d \div 16 = 16 * (d \div 256) + c
  BY <1>1
<1>5. d \div 256 = 16 * a + b
  BY <1>1
<1>6. d \div 16 \in Nat /\ d \div 256 \in Nat
  BY <1>1
<1>7. dec_to_hex(d, 4) = <<a, b, c, e>>
  BY HexOfWord
<1> HIDE DEF a, b, c, e
<1>8. 4096 * a + 256 * b + 16 * c + e = d
  BY <1>1, <1>2, <1>3, <1>4, <1>5, <1>6
<1>9. HexValue(<<a, b, c, e>>) = 4096 * a + 256 * b + 16 * c + e
  BY <1>2, HexValueOfFour
<1> QED
  BY <1>7, <1>8, <1>9

LEMMA TwoAndTwo ==
  ASSUME NEW a, NEW b, NEW c, NEW e
  PROVE  <<a, b>> \o <<c, e>> = <<a, b, c, e>>
<1> DEFINE s == <<a, b>> \o <<c, e>>
<1>1. Len(s) = 4 /\ s[1] = a /\ s[2] = b /\ s[3] = c /\ s[4] = e
  OBVIOUS
<1>2. s \in Seq({a, b, c, e})
  OBVIOUS
<1> HIDE DEF s
<1>3. s = <<a, b, c, e>>
  BY <1>1, <1>2
<1> QED
  BY <1>3 DEF s

\* A word is shown with its high byte first, although it is stored last.
LEMMA WordShowsBytes ==
  ASSUME NEW hi \in u8, NEW lo \in u8
  PROVE  dec_to_hex(Word(hi, lo), 4) = dec_to_hex(hi, 2) \o dec_to_hex(lo, 2)
<1> DEFINE d == Word(hi, lo)
<1>1. d \in u16
  BY Widths
<1>2. d = hi * 256 + lo /\ hi \in Nat /\ hi <= 255 /\ lo \in Nat /\ lo <= 255
  BY U8 DEF Word
<1> HIDE DEF d
<1>3. d \div 256 = hi /\ d % 256 = lo
  BY <1>2
<1>4. d \div 4096 = hi \div 16
  BY <1>2
<1>5. (d \div 16) % 16 = lo \div 16
  BY <1>2
<1>6. d % 16 = lo % 16
  BY <1>2
<1>7. dec_to_hex(d, 4) = <<hi \div 16, hi % 16, lo \div 16, lo % 16>>
  BY <1>1, <1>3, <1>4, <1>5, <1>6, HexOfWord
<1>8. <<hi \div 16, hi % 16>> \o <<lo \div 16, lo % 16>>
        = <<hi \div 16, hi % 16, lo \div 16, lo % 16>>
  BY TwoAndTwo
<1> QED
  BY <1>7, <1>8, HexOfByte DEF d

\* A line: its columns are those of the bytes at its address.
LEMMA LineColumns ==
  ASSUME WalkInv, ListLine
  PROVE  LET b      == bus_load_cartridge(cart)
             opcode == get_next_opcode(b, ToU16(pc))
             n      == opcode.bytes
         IN  /\ n \in 1 .. 3 /\ pc' = pc + n /\ cart' = cart /\ LineStart' = pc
             /\ line'.address = dec_to_hex(ToU16(pc), 4)
             /\ line'.operand = OperandDigits(opcode)
             /\ Len(line'.bytes) = n /\ DOMAIN line'.bytes = 1 .. n
             /\ \A i \in 1 .. n : /\ read_mem(b, ToU16(pc + i - 1)) \in u8
                                  /\ line'.bytes[i] = dec_to_hex(read_mem(b, ToU16(pc + i - 1)), 2)
<1> DEFINE b      == bus_load_cartridge(cart)
           opcode == get_next_opcode(b, ToU16(pc))
           n      == opcode.bytes
<1>1. n \in 1 .. 3 /\ pc' = pc + n /\ cart' = cart /\ Len(line'.bytes) = n
  BY LineLength
<1>2. LineStart' = pc
  BY <1>1 DEF LineStart, WalkInv
<1>3. /\ line'.address = dec_to_hex(ToU16(pc), 4)
      /\ line'.operand = OperandDigits(opcode)
      /\ line'.bytes = [i \in 1 .. n |-> dec_to_hex(read_mem(b, ToU16(pc + i - 1)), 2)]
  BY DEF ListLine, Address
<1>4. b \in BusState
  BY PowerUpType DEF WalkInv
<1> HIDE DEF n, b
<1>5. ASSUME NEW i \in 1 .. n PROVE read_mem(b, ToU16(pc + i - 1)) \in u8
  <2>1. pc + i - 1 \in Int
    BY <1>1 DEF WalkInv
  <2> QED
    BY <1>4, <2>1, ReadType, Widths
<1>6. /\ DOMAIN line'.bytes = 1 .. n
      /\ \A i \in 1 .. n : line'.bytes[i] = dec_to_hex(read_mem(b, ToU16(pc + i - 1)), 2)
  BY <1>3
<1> QED
  BY <1>1, <1>2, <1>3, <1>5, <1>6 DEF n, b

\* The operand is that of the bytes, where the row's length is its mode's.
LEMMA LineOperand ==
  ASSUME WalkInv, ListLine, LengthsFitModes
  PROVE  line'.operand =
           CASE Len(line'.bytes) = 3 -> line'.bytes[3] \o line'.bytes[2]
             [] Len(line'.bytes) = 2 -> line'.bytes[2]
             [] OTHER -> <<>>
<1> DEFINE b      == bus_load_cartridge(cart)
           at     == ToU16(pc)
           row    == opcodes[read_mem(b, at)]
           opcode == get_next_opcode(b, at)
           second == read_mem(b, ToU16(pc + 1))
           third  == read_mem(b, ToU16(pc + 2))
           mode   == row.addressing_mode
<1>1. at \in u16 /\ ToU16(at + 1) = ToU16(pc + 1) /\ ToU16(at + 2) = ToU16(pc + 2) /\ pc \in Nat
  BY Widths DEF ToU16, WalkInv
<1>2. read_mem(b, at) \in u8
  BY <1>1, PowerUpType, ReadType DEF WalkInv
<1>3. /\ opcode.bytes = row.bytes /\ opcode.addressing_mode = mode
      /\ row.bytes >= 2 => opcode.byte = second
      /\ row.bytes = 3 => opcode.word = Word(third, second)
  BY <1>1 DEF get_next_opcode
<1>4. row.bytes = CASE mode \in {"Accumulator", "Implied"} -> 1
                    [] mode \in {"Absolute", "Absolute_X", "Absolute_Y", "Indirect"} -> 3
                    [] OTHER -> 2
  BY <1>2 DEF LengthsFitModes
<1>5. /\ line'.operand = OperandDigits(opcode) /\ Len(line'.bytes) = row.bytes
      /\ row.bytes >= 2 => /\ second \in u8 /\ line'.bytes[2] = dec_to_hex(second, 2)
      /\ row.bytes = 3 => /\ third \in u8 /\ line'.bytes[3] = dec_to_hex(third, 2)
  <2> DEFINE n == opcode.bytes
  <2>1. pc + 2 - 1 = pc + 1 /\ pc + 3 - 1 = pc + 2
    BY <1>1
  <2>2. /\ n \in 1 .. 3 /\ line'.operand = OperandDigits(opcode) /\ Len(line'.bytes) = n
        /\ \A i \in 1 .. n : /\ read_mem(b, ToU16(pc + i - 1)) \in u8
                             /\ line'.bytes[i] = dec_to_hex(read_mem(b, ToU16(pc + i - 1)), 2)
    BY LineColumns
  <2>3. n = row.bytes
    BY <1>3
  <2> HIDE DEF n, b, row, opcode
  <2>4. n >= 2 => 2 \in 1 .. n
    BY <2>2
  <2>5. n = 3 => 3 \in 1 .. n
    BY <2>2
  <2>6. n >= 2 => /\ read_mem(b, ToU16(pc + 1)) \in u8
                  /\ line'.bytes[2] = dec_to_hex(read_mem(b, ToU16(pc + 1)), 2)
    BY <2>1, <2>2, <2>4
  <2>7. n = 3 => /\ read_mem(b, ToU16(pc + 2)) \in u8
                 /\ line'.bytes[3] = dec_to_hex(read_mem(b, ToU16(pc + 2)), 2)
    BY <2>1, <2>2, <2>5
  <2> QED
    BY <2>2, <2>3, <2>6, <2>7
<1> HIDE DEF b, at, row, opcode, second, third, mode
<1>6. CASE mode \in {"Accumulator", "Implied"}
  BY <1>3, <1>4, <1>5, <1>6 DEF OperandDigits
<1>7. CASE mode \in {"Absolute", "Absolute_X", "Absolute_Y", "Indirect"}
  <2>1. row.bytes = 3
    BY <1>4, <1>7
  <2>2. line'.operand = dec_to_hex(Word(third, second), 4)
    BY <1>3, <1>5, <1>7, <2>1 DEF OperandDigits
  <2>3. dec_to_hex(Word(third, second), 4) = dec_to_hex(third, 2) \o dec_to_hex(second, 2)
    BY <1>5, <2>1, WordShowsBytes
  <2> DEFINE x == line'.bytes
           y == line'.operand
           z == x[3] \o x[2]
  <2>4. x[3] = dec_to_hex(third, 2) /\ x[2] = dec_to_hex(second, 2)
    BY <1>5, <2>1
  <2>5. y = z
    BY <2>2, <2>3, <2>4
  <2>6. Len(x) = 3
    BY <1>5, <2>1
  <2> HIDE DEF x, y, z
  <2>7. y = CASE Len(x) = 3 -> z [] Len(x) = 2 -> x[2] [] OTHER -> <<>>
    BY <2>5, <2>6
  <2> QED
    BY <2>7 DEF x, y, z
<1>8. CASE mode \notin {"Accumulator", "Implied", "Absolute", "Absolute_X", "Absolute_Y", "Indirect"}
  BY <1>3, <1>4, <1>5, <1>8 DEF OperandDigits
<1> QED
  BY <1>6, <1>7, <1>8

LEMMA ListLineExact ==
  ASSUME WalkInv, ListLine, LengthsFitModes
  PROVE  LineIsExact'
<1>1. ToU16(pc) \in u16
  BY Widths DEF WalkInv
<1>2. Len(line'.address) = 4 /\ HexValue(line'.address) = ToU16(LineStart')
  BY <1>1, LineColumns, WordColumn
<1>3. ASSUME NEW i \in DOMAIN line'.bytes
      PROVE  /\ Len(line'.bytes[i]) = 2
             /\ HexValue(line'.bytes[i])
                  = read_mem(bus_load_cartridge(cart'), ToU16(LineStart' + i - 1))
  BY <1>3, LineColumns, ByteColumn
<1> QED
  BY <1>2, <1>3, LineOperand DEF LineIsExact

\* Every line of every listing shows the bytes at its address and the operand
\* these encode, for all ROMs and all tables that count an instruction's bytes
\* as its addressing mode does.
THEOREM ListingIsExact ==
  ASSUME LengthsFitModes
  PROVE  WalkSpec => []LineIsExact
<1>1. WalkInit => LineIsExact
  BY DEF WalkInit, LineIsExact
<1>2. WalkInv /\ LineIsExact /\ [WalkNext]_walkVars => LineIsExact'
  <2> SUFFICES ASSUME WalkInv, LineIsExact, [WalkNext]_walkVars
               PROVE  LineIsExact'
    OBVIOUS
  <2>1. CASE ListLine
    BY <2>1, ListLineExact
  <2>2. CASE UNCHANGED walkVars
    BY <2>2 DEF walkVars, LineIsExact, LineStart
  <2> QED
    BY <2>1, <2>2 DEF WalkNext, Listed
<1> QED
  BY <1>1, <1>2, InitWalkInv, NextWalkInv, PTL DEF WalkSpec

\* What the next line needs of the one before it.
LineBefore ==
  line # NoLine =>
    /\ Len(line.bytes) \in 1 .. 3 /\ Len(line.bytes) <= pc
    /\ line.address = dec_to_hex(ToU16(LineStart), 4)

\* The addresses of every listing ascend, whatever the lengths in the table,
\* but for address 0 again where a line ends exactly at 0x10000.
THEOREM ListingGoesOn == WalkSpec => ListingAscends
<1> DEFINE Ascends ==
             line # NoLine =>
               \/ HexValue(line'.address) > HexValue(line.address)
               \/ /\ pc = LISTING_END
                  /\ HexValue(line'.address) = 0
                  /\ pc' > LISTING_END
<1>1. WalkInit => LineBefore
  BY DEF WalkInit, LineBefore
<1>2. WalkInv /\ LineBefore /\ [WalkNext]_walkVars => LineBefore'
  <2> SUFFICES ASSUME WalkInv, LineBefore, [WalkNext]_walkVars
               PROVE  LineBefore'
    OBVIOUS
  <2>1. CASE ListLine
    <3> DEFINE n == get_next_opcode(bus_load_cartridge(cart), ToU16(pc)).bytes
    <3>1. /\ n \in 1 .. 3 /\ pc' = pc + n /\ LineStart' = pc /\ Len(line'.bytes) = n
          /\ line'.address = dec_to_hex(ToU16(pc), 4)
      BY <2>1, LineColumns
    <3> HIDE DEF n
    <3>2. pc \in Nat
      BY DEF WalkInv
    <3>3. Len(line'.bytes) \in 1 .. 3 /\ Len(line'.bytes) <= pc'
      BY <3>1, <3>2
    <3> QED
      BY <3>1, <3>3 DEF LineBefore
  <2>2. CASE UNCHANGED walkVars
    BY <2>2 DEF walkVars, LineBefore, LineStart
  <2> QED
    BY <2>1, <2>2 DEF WalkNext, Listed
<1>3. WalkInv /\ LineBefore /\ [WalkNext]_walkVars => [Ascends]_walkVars
  <2> SUFFICES ASSUME WalkInv, LineBefore, ListLine, line # NoLine
               PROVE  Ascends
    BY DEF WalkNext, Listed
  <2>1. PICK n \in 1 .. 3 : pc' = pc + n
    BY LineLength
  <2>2. pc \in Nat /\ LineStart \in Nat /\ LineStart < pc /\ pc <= 65536
    <3>1. pc \in Nat /\ pc <= 65536
      BY Borders DEF WalkInv, ListLine
    <3>2. Len(line.bytes) \in 1 .. 3 /\ Len(line.bytes) <= pc
      BY DEF LineBefore
    <3> DEFINE l == Len(line.bytes)
    <3>3. l \in 1 .. 3 /\ l <= pc /\ LineStart = pc - l
      BY <3>2 DEF LineStart
    <3> HIDE DEF l
    <3> QED
      BY <3>1, <3>3
  <2>3. HexValue(line.address) = LineStart
    <3>1. LineStart \in u16 /\ ToU16(LineStart) = LineStart
      BY <2>2, U16 DEF ToU16
    <3> QED
      BY <3>1, WordColumn DEF LineBefore
  <2>4. HexValue(line'.address) = ToU16(pc)
    <3>1. ToU16(pc) \in u16
      BY <2>2, Widths
    <3>2. line'.address = dec_to_hex(ToU16(pc), 4)
      BY LineColumns
    <3> QED
      BY <3>1, <3>2, WordColumn
  <2>5. CASE pc < 65536
    BY <2>2, <2>3, <2>4, <2>5 DEF ToU16
  <2>6. CASE pc = 65536
    BY <2>1, <2>4, <2>6, Borders DEF ToU16
  <2> QED
    BY <2>2, <2>5, <2>6
<1> QED
  BY <1>1, <1>2, <1>3, InitWalkInv, NextWalkInv, PTL DEF WalkSpec, ListingAscends
=============================================================================
