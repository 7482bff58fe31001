---------------------------- MODULE Disassembler ----------------------------
(***************************************************************************)
(* disassemble_code, the listing main makes when the cartridge has been    *)
(* inserted: a walk over the address space, a line for each instruction it *)
(* meets, from address 0 until the 32-bit pc has passed 0x10000.  A line   *)
(* is the hexadecimal digits of its columns, without the text around them. *)
(***************************************************************************)
EXTENDS Opcode, Sequences

LISTING_END == \h10000

\* What is in memory in front of the ROM decodes to instructions of one and
\* of three bytes: 0x00 in RAM, 0xFF where nothing is mapped.
ASSUME PaddingAssumption ==
  opcodes[0].bytes = 1 /\ opcodes[OPEN_BUS].bytes = 3

VARIABLES
  cart,      \* the cartridge in the bus, whose RAM and registers are still 0
  pc,        \* the u32 of the walk
  line       \* the last line of the result

walkVars == <<cart, pc, line>>

-----------------------------------------------------------------------------

\* What an int that is not negative can be.
INT_MAX == \h7FFF * \h10000 + \hFFFF
NonNegativeInt == 0 .. INT_MAX

\* The digits the first loop of dec_to_hex writes, from right to left.
HexDigits[d \in NonNegativeInt] ==
  IF d = 0 THEN <<>> ELSE Append(HexDigits[d \div 16], d % 16)

\* The second loop fills up with zeros on the left; a number of more digits
\* than size overruns the string on its left.
dec_to_hex(d, size) ==
  [i \in 1 .. size - Len(HexDigits[d]) |-> 0] \o HexDigits[d]

\* The operand's digits, which the addressing mode chooses.
OperandDigits(opcode) ==
  CASE opcode.addressing_mode \in {"Accumulator", "Implied"} -> <<>>
    [] opcode.addressing_mode \in {"Absolute", "Absolute_X", "Absolute_Y", "Indirect"} ->
         dec_to_hex(opcode.word, 4)
    [] OTHER -> dec_to_hex(opcode.byte, 2)

\* The address in front of a line.  Mutant: pc is not cut to 16 bits.
Address_Uncut == dec_to_hex(pc, 4)
Address == dec_to_hex(ToU16(pc), 4)

NoLine == [address |-> <<>>, bytes |-> <<>>, operand |-> <<>>]

WalkInit == cart \in Cartridges /\ pc = 0 /\ line = NoLine

\* Mutant: pc is a u16.
Advance_U16(opcode) == ToU16(pc + opcode.bytes)
Advance(opcode) == pc + opcode.bytes

\* One iteration of the loop; get_next_opcode and read_mem take a u16.
ListLine ==
  /\ pc <= LISTING_END
  /\ LET bus    == bus_load_cartridge(cart)
         opcode == get_next_opcode(bus, ToU16(pc))
     IN  /\ line' = [address |-> Address,
                     bytes |-> [i \in 1 .. opcode.bytes |->
                                  dec_to_hex(read_mem(bus, ToU16(pc + i - 1)), 2)],
                     operand |-> OperandDigits(opcode)]
         /\ pc' = Advance(opcode)
  /\ UNCHANGED cart

Listed == pc > LISTING_END /\ UNCHANGED walkVars

WalkNext == ListLine \/ Listed

WalkSpec == WalkInit /\ [][WalkNext]_walkVars

-----------------------------------------------------------------------------
(* Properties.                                                             *)

HexValue(digits) ==
  LET value[i \in 0 .. Len(digits)] ==
        IF i = 0 THEN 0 ELSE 16 * value[i - 1] + digits[i]
  IN  value[Len(digits)]

LineStart == pc - Len(line.bytes)

\* Each column of a line has its width and, read back, is what the line is
\* about: its address, also when pc has reached 0x10000, the bytes in memory
\* there, and the operand that these bytes encode: the bytes are counted by
\* the length in the table, the operand is chosen by the addressing mode.
LineIsExact ==
  line # NoLine =>
    /\ Len(line.address) = 4
    /\ HexValue(line.address) = ToU16(LineStart)
    /\ \A i \in DOMAIN line.bytes :
         /\ Len(line.bytes[i]) = 2
         /\ HexValue(line.bytes[i]) =
              read_mem(bus_load_cartridge(cart), ToU16(LineStart + i - 1))
    /\ line.operand =
         CASE Len(line.bytes) = 3 -> line.bytes[3] \o line.bytes[2]
           [] Len(line.bytes) = 2 -> line.bytes[2]
           [] OTHER -> <<>>

\* What LineIsExact asks of the table: the length of a row is that of the
\* operand its addressing mode has.
LengthsFitModes ==
  \A v \in u8 :
    LET mode == opcodes[v].addressing_mode
    IN  opcodes[v].bytes =
          CASE mode \in {"Accumulator", "Implied"} -> 1
            [] mode \in {"Absolute", "Absolute_X", "Absolute_Y", "Indirect"} -> 3
            [] OTHER -> 2

\* A line that shows a byte of the ROM begins in the ROM: what the walk makes
\* of the zeros in RAM and of the addresses where nothing is never takes the
\* ROM's first instructions for operands.  The byte at PRG_ROM_START itself is
\* no byte of the ROM to the bus (cart_read starts one address later), and is
\* listed as the last 0xFF of the line at 0x7FFE.
RomIsListedApart ==
  \A i \in DOMAIN line.bytes :
    CartMaps(ToU16(LineStart + i - 1)) => CartMaps(ToU16(LineStart))

\* The addresses in front of the lines ascend, so that no instruction is
\* listed twice, but for one: when a line ends exactly at 0x10000, the loop
\* goes round once more and lists address 0 again, as the last line.
ListingAscends ==
  [][line # NoLine =>
       \/ HexValue(line'.address) > HexValue(line.address)
       \/ /\ pc = LISTING_END
          /\ HexValue(line'.address) = 0
          /\ pc' > LISTING_END]_walkVars
=============================================================================
