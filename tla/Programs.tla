------------------------------ MODULE Programs ------------------------------
(***************************************************************************)
(* Programs whose results depend on flags, carries, pointers and branches  *)
(* working together over many instructions: the one of test.cpp:89-104, a  *)
(* 16-bit product, a quotient, a copy over a page border, a jump through a *)
(* vector and a subroutine that calls itself.  A program's inputs are      *)
(* bytes of its code, and what it must have computed is stated of the RAM  *)
(* it leaves when BRK has ended it.                                        *)
(***************************************************************************)
EXTENDS CPU, TestCarts

\* The byte at an offset of the ROM: an input of the program in it.
Input(offset) == PrgRom(bus.cartridge, offset)

HasRun(code) == phase = "returned" /\ bus.cartridge = CartOf(code)

-----------------------------------------------------------------------------

\* The loop of the test adds 3 ten times without clearing the carry.
RepeatedAddition(a, b) ==
  << \hA2, a, \h8E, \h00, \h00,      \* LDX #a, STX $0000
     \hA2, b, \h8E, \h01, \h00,      \* LDX #b, STX $0001
     \hAC, \h00, \h00, \hA9, \h00,   \* LDY $0000, LDA #0
     \h18, \h6D, \h01, \h00,         \* CLC, ADC $0001
     \h88, \hD0, \hFA,               \* DEY, BNE to the ADC
     \h8D, \h02, \h00,               \* STA $0002
     \hEA, \hEA, \hEA, \h00 >>

\* No addition carries while the sum is a byte.
AdditionComputes ==
  LET a == Input(1)
      b == Input(6)
  IN  HasRun(RepeatedAddition(a, b)) /\ a # 0 /\ a * b <= 255 =>
        bus.cpu_ram[2] = a * b

\* Shift and add: the product is in $02 (high) and $00 (low).
Product(a, b) ==
  << \hA9, a, \h85, \h00, \hA9, b, \h85, \h01,  \* $00 := a, $01 := b
     \hA9, \h00, \hA2, \h08, \h46, \h00,        \* LDA #0, LDX #8, LSR $00
     \h90, \h03, \h18, \h65, \h01,              \* BCC +3, CLC, ADC $01
     \h6A, \h66, \h00, \hCA, \hD0, \hF5,        \* ROR A, ROR $00, DEX, BNE
     \h85, \h02, \h00 >>                        \* STA $02

ProductComputes ==
  LET a == Input(1)
      b == Input(5)
  IN  HasRun(Product(a, b)) => Word(bus.cpu_ram[2], bus.cpu_ram[0]) = a * b

\* Shift and subtract: the quotient is in $00, the remainder in $02.
Quotient(a, b) ==
  << \hA9, a, \h85, \h00, \hA9, b, \h85, \h01,  \* $00 := a, $01 := b
     \hA9, \h00, \hA2, \h08, \h06, \h00,        \* LDA #0, LDX #8, ASL $00
     \h2A, \hC5, \h01, \h90, \h02, \hE5, \h01,  \* ROL A, CMP $01, BCC +2, SBC $01
     \h26, \h00, \hCA, \hD0, \hF4,              \* ROL $00, DEX, BNE
     \h85, \h02, \h00 >>                        \* STA $02

QuotientComputes ==
  LET a == Input(1)
      b == Input(5)
  IN  HasRun(Quotient(a, b)) /\ b # 0 =>
        /\ a = bus.cpu_ram[0] * b + bus.cpu_ram[2]
        /\ bus.cpu_ram[2] < b

\* The program copies its own first bytes over a page border, through a pointer
\* that wraps within the zero page, and from there to a mirror of RAM.
Copy(n) ==
  << \hA9, \hFC, \h85, \hFF,                       \* the pointer in $FF and $00
     \hA9, \h02, \h85, \h00,                       \* is 0x02FC
     \hA2, \h00, \hA0, \h00,                       \* LDX #0, LDY #0
     \hBD, \h00, \hC0, \h91, \hFF,                 \* LDA $C000,X, STA ($FF),Y
     \hB1, \hFF, \h99, \h10, \h1B,                 \* LDA ($FF),Y, STA $1B10,Y
     \hE8, \hC8, \hC0, n, \hD0, \hF0,              \* INX, INY, CPY #n, BNE
     \h00 >>

\* The two copies are in different cells as long as they are of 20 bytes.
CopyComputes ==
  LET n == Input(25)
  IN  HasRun(Copy(n)) /\ n \in 1 .. 20 =>
        \A i \in 0 .. n - 1 :
          bus.cpu_ram[\h02FC + i] = Input(i) /\ bus.cpu_ram[\h0310 + i] = Input(i)

\* A jump through a vector in RAM, whose high byte is in the same page: after
\* 0x02FF comes 0x0200.  The byte at 0x0300 would lead to a BRK at once.
IndirectJump(low) ==
  << \hA9, \hC1, \h8D, \h00, \h03,                 \* $0300 := $C1
     \hA9, \h13, \h8D, low, \h02,                  \* the vector 0x0200 + low
     \hA9, \hC0, \h8D, (low + 1) % 256, \h02,      \* := $C013
     \h6C, low, \h02, \h00,                        \* JMP (vector), BRK
     \hA9, \h2A, \h85, \h02, \h00 >>               \* LDA #42, STA $02

JumpArrives == HasRun(IndirectJump(Input(8))) => bus.cpu_ram[2] = 42

\* A subroutine that calls itself to a given depth and counts in Y the
\* returns from the inner calls.
Recursion(depth) ==
  << \hA2, depth, \h20, \h0B, \hC0,            \* LDX #depth, JSR $C00B
     \h84, \h02, \hBA, \h86, \h03, \h00,       \* STY $02, TSX, STX $03, BRK
     \hCA, \hF0, \h04, \h20, \h0B, \hC0,       \* C00B: DEX, BEQ $C012, JSR $C00B
     \hC8, \h60 >>                             \* INY, C012: RTS

\* A frame is two of the 256 bytes of page one: a recursion that fits there
\* unwinds.  It returns from every inner call, and the stack pointer is where
\* it was; the 129th nested call overwrites the frame of the first.
Frames == 128

RecursionUnwinds ==
  LET depth == Input(1)
  IN  HasRun(Recursion(depth)) /\ depth \in 1 .. Frames =>
        bus.cpu_ram[2] = depth - 1 /\ bus.cpu_ram[3] = \hFD

-----------------------------------------------------------------------------

\* A program has computed its results when it ends: flags, carries and
\* addresses are right in combination, over loops of any of these lengths.
ProgramsCompute ==
  /\ AdditionComputes /\ ProductComputes /\ QuotientComputes
  /\ CopyComputes /\ JumpArrives /\ RecursionUnwinds

\* What ProgramsCompute asks of the table beside RowsAgree: the rows of the
\* instructions in these programs are those of the 6502's documents.
Row(code, fn, bytes, mode) ==
  /\ opcodes[code].fn = fn
  /\ opcodes[code].bytes = bytes
  /\ opcodes[code].addressing_mode = mode

ProgramRows ==
  /\ Row(\hA9, "lda", 2, "Immediate") /\ Row(\hBD, "lda", 3, "Absolute_X")
  /\ Row(\hB1, "lda", 2, "Indirect_Y")
  /\ Row(\hA2, "ldx", 2, "Immediate") /\ Row(\hA0, "ldy", 2, "Immediate")
  /\ Row(\hAC, "ldy", 3, "Absolute")
  /\ Row(\h85, "sta", 2, "ZeroPage") /\ Row(\h8D, "sta", 3, "Absolute")
  /\ Row(\h99, "sta", 3, "Absolute_Y") /\ Row(\h91, "sta", 2, "Indirect_Y")
  /\ Row(\h86, "stx", 2, "ZeroPage") /\ Row(\h8E, "stx", 3, "Absolute")
  /\ Row(\h84, "sty", 2, "ZeroPage") /\ Row(\hBA, "tsx", 1, "Implied")
  /\ Row(\h65, "adc", 2, "ZeroPage") /\ Row(\h6D, "adc", 3, "Absolute")
  /\ Row(\hE5, "sbc", 2, "ZeroPage") /\ Row(\hC5, "cmp", 2, "ZeroPage")
  /\ Row(\hC0, "cpy", 2, "Immediate")
  /\ Row(\hE8, "inx", 1, "Implied") /\ Row(\hC8, "iny", 1, "Implied")
  /\ Row(\hCA, "dex", 1, "Implied") /\ Row(\h88, "dey", 1, "Implied")
  /\ Row(\h06, "asl", 2, "ZeroPage") /\ Row(\h46, "lsr", 2, "ZeroPage")
  /\ Row(\h26, "rol", 2, "ZeroPage") /\ Row(\h66, "ror", 2, "ZeroPage")
  /\ Row(\h2A, "rol_acc", 1, "Accumulator") /\ Row(\h6A, "ror_acc", 1, "Accumulator")
  /\ Row(\h90, "bcc", 2, "Relative") /\ Row(\hD0, "bne", 2, "Relative")
  /\ Row(\hF0, "beq", 2, "Relative") /\ Row(\h6C, "jmp", 3, "Indirect")
  /\ Row(\h20, "jsr", 3, "Absolute") /\ Row(\h60, "rts", 1, "Implied")
  /\ Row(\h18, "clc", 1, "Implied") /\ Row(\hEA, "nop", 1, "Implied")
  /\ Row(\h00, "brk", 1, "Implied")
=============================================================================
