--------------------------- MODULE CPUProperties ---------------------------
(***************************************************************************)
(* What every instruction of the CPU must and must not do, stated against  *)
(* references that are independent of the code: the comments of cpu.cpp    *)
(* on the registers and flags an instruction changes, the one-access-per-  *)
(* cycle rule of the 6502 for the timing, and integer arithmetic.          *)
(***************************************************************************)
EXTENDS CPU

\* A step that starts here executes one instruction.
Running == phase = "running"

\* The address of the instruction after the one being executed.
NextAddress == ToU16(bus.program_counter + Fetched.bytes)

-----------------------------------------------------------------------------

\* The flags in the status register: from the reset on bit 5 is always 1,
\* and while the program runs B is 0: it only exists in what PHP and BRK
\* push, and PLP and RTI must drop it again.
StatusDiscipline ==
  /\ phase # "loaded" => UnusedFlag \in bus.status
  /\ phase \in {"reset", "running"} => BreakCommand \notin bus.status

-----------------------------------------------------------------------------
(* Control flow.                                                           *)

\* The program counter moves over exactly the bytes the table gives the
\* instruction, although it is the addressing mode that moves it, and a
\* branch goes there or to the signed displacement from there.
Flow ==
  LET fn == Fetched.fn
  IN  \/ fn \in JumpFns
      \/ bus'.program_counter = NextAddress
      \/ /\ fn \in BranchFns
         /\ bus'.program_counter = ToU16(NextAddress + Signed(Fetched.byte))

ControlFlow == [][Running => Flow]_vars

\* What ControlFlow asks of the table: a row gives the bytes its addressing
\* mode moves over, and the relative mode to the branches.  A jump's row need
\* not: BRK pushes the address behind a byte its row does not count.
RowsAgree ==
  \A v \in u8 :
    opcodes[v].fn \notin JumpFns =>
      /\ opcodes[v].bytes = 1 + OperandBytes(opcodes[v].addressing_mode)
      /\ opcodes[v].fn \in BranchFns <=> opcodes[v].addressing_mode = "Relative"

-----------------------------------------------------------------------------
(* Frame.                                                                  *)

\* The registers and the flags the comments above the instruction functions
\* list, e.g. "A,Z,N = A&M".
Result(fn) ==
  CASE fn \in {"lda", "txa", "tya", "and", "ora", "eor", "adc", "sbc", "pla",
               "slo", "rla", "sre", "rra", "isb"} \cup AccShiftFns -> {"accumulator"}
    [] fn \in {"ldx", "tax", "tsx", "inx", "dex"} -> {"x"}
    [] fn \in {"ldy", "tay", "iny", "dey"} -> {"y"}
    [] fn = "lax" -> {"accumulator", "x"}
    [] OTHER -> {}

MovesStackPointer == {"txs", "jsr", "rts", "rti", "brk"} \cup StackFns

AffectedFlags(fn) ==
  CASE fn \in {"adc", "sbc", "rra", "isb"} ->
         {CarryFlag, ZeroFlag, OverflowFlag, NegativeFlag}
    [] fn = "bit" -> {ZeroFlag, OverflowFlag, NegativeFlag}
    [] fn \in {"cmp", "cpx", "cpy", "dcp", "asl", "lsr", "rol", "ror", "slo",
               "rla", "sre"} \cup AccShiftFns -> {CarryFlag, ZeroFlag, NegativeFlag}
    [] fn \in LoadFns \cup {"tax", "tay", "tsx", "txa", "tya"} \cup IncDecFns
              \cup {"and", "ora", "eor", "inc", "dec", "pla"} -> {ZeroFlag, NegativeFlag}
    [] fn \in {"plp", "rti"} -> Weights \ {BreakCommand, UnusedFlag}
    [] fn = "brk" -> {BreakCommand}
    [] fn \in {"clc", "sec"} -> {CarryFlag}
    [] fn \in {"cld", "sed"} -> {DecimalModeFlag}
    [] fn \in {"cli", "sei"} -> {InterruptDisable}
    [] fn = "clv" -> {OverflowFlag}
    [] OTHER -> {}

\* The bytes an instruction pushes; it writes them below the stack pointer.
PushedBytes(fn) ==
  CASE fn \in {"pha", "php"} -> 1 [] fn = "jsr" -> 2 [] fn = "brk" -> 3
    [] OTHER -> 0

HasOperand == Fetched.addressing_mode \notin {"Accumulator", "Implied"}

\* The RAM cells it may write: the operand of a store or of a read-modify-
\* write instruction, when RAM answers there, or the cells it pushes into.
WritableCells(fn) ==
  IF fn \in StoreFns \cup RmwFns
    THEN IF ~HasOperand THEN {} ELSE {RamCell(a) : a \in {Operand.address} \cap 0 .. RAM_MIRROR_END - 1}
    ELSE {STACK_START + ToU8(bus.stack_pointer - i) : i \in 0 .. PushedBytes(fn) - 1}

Registers == {"accumulator", "x", "y"}

\* An instruction disturbs nothing it is not about: the other registers and
\* flags, the other cells of RAM and the cartridge keep their values.  The
\* accumulator forms of the shifts write no memory, although they share the
\* enumerator of the forms that do.
Undisturbed ==
  LET fn == Fetched.fn
  IN  /\ \A r \in Registers \ Result(fn) : bus'[r] = bus[r]
      /\ fn \notin MovesStackPointer => bus'.stack_pointer = bus.stack_pointer
      /\ \A flag \in Weights \ AffectedFlags(fn) :
           flag \in bus'.status <=> flag \in bus.status
      /\ \/ bus'.cpu_ram = bus.cpu_ram
         \/ {cell \in DOMAIN bus.cpu_ram : bus'.cpu_ram[cell] # bus.cpu_ram[cell]}
               \subseteq WritableCells(fn)
      /\ bus'.cartridge = bus.cartridge

Frame == [][Running => Undisturbed]_vars

\* What Frame asks of the table: an instruction that writes its operand's
\* address has an operand, or it would write through the address 0 that
\* run_cpu starts from.
WritersHaveOperands ==
  \A v \in u8 :
    opcodes[v].fn \in StoreFns \cup RmwFns =>
      opcodes[v].addressing_mode \notin {"Accumulator", "Implied"}

-----------------------------------------------------------------------------
(* Timing.                                                                 *)

\* The cycles that find the operand's address: one per byte of the
\* instruction and per byte of a pointer, and one per unpaid index addition.
AddressCycles(mode) ==
  CASE mode = "Immediate" -> 1
    [] mode = "ZeroPage" -> 2
    [] mode \in {"ZeroPage_X", "ZeroPage_Y", "Absolute", "Absolute_X", "Absolute_Y"} -> 3
    [] mode = "Indirect_Y" -> 4
    [] mode = "Indirect_X" -> 5

WriteFns == StoreFns \cup {"sha", "shx", "shy", "tas"}

\* Adding the index to the low byte of the address carries into its high byte.
IndexCarries ==
  LET base == IF Fetched.addressing_mode = "Indirect_Y"
                THEN read_mem(bus, Fetched.byte) ELSE LowByte(Fetched.word)
      index == IF Fetched.addressing_mode = "Absolute_X" THEN bus.x ELSE bus.y
  IN  base + index > 255

Indexed == {"Absolute_X", "Absolute_Y", "Indirect_Y"}

\* One cycle for each access, and one to correct the high byte of an indexed
\* address: a read only needs it when the page is crossed.
MemoryCycles(fn, mode) ==
  AddressCycles(mode) + 1
    + (IF fn \in RmwFns THEN 2 ELSE 0)
    + (IF mode \in Indexed /\ fn \in RmwFns \cup WriteFns THEN 1 ELSE 0)

ReadsIndexed(fn, mode) == mode \in Indexed /\ fn \notin RmwFns \cup WriteFns

\* The cycles of an instruction that is no branch and crosses no page.
LeastCycles(fn, mode) ==
  CASE fn = "jam" -> 1      \* locks the 6502: the table says 1
    [] fn = "jmp" -> IF mode = "Indirect" THEN 5 ELSE 3
    [] fn \in {"jsr", "rts", "rti"} -> 6
    [] fn = "brk" -> 7
    [] fn \in {"pha", "php"} -> 3
    [] fn \in {"pla", "plp"} -> 4
    [] mode \in {"Implied", "Accumulator"} -> 2
    [] OTHER -> MemoryCycles(fn, mode)

\* The page of the instruction after the branch against that of its target.
BranchCycles ==
  LET target == bus'.program_counter
  IN  IF target = NextAddress THEN {2, 3}   \* not taken, or to the next one
      ELSE IF HighByte(target) = HighByte(NextAddress) THEN {3} ELSE {4}

Timing ==
  LET fn   == Fetched.fn
      mode == Fetched.addressing_mode
  IN  IF fn \in BranchFns THEN BranchCycles
      ELSE {LeastCycles(fn, mode)
              + (IF ReadsIndexed(fn, mode) /\ IndexCarries THEN 1 ELSE 0)}

\* The place where the code does not count a branch as documented: see the
\* finding on branch and the property BranchTiming.
BranchAtPageEnd == Fetched.fn \in BranchFns /\ LowByte(NextAddress) = \hFF

\* An instruction takes the cycles its accesses to memory need: what the 256
\* rows of the table, the page-crossing penalty and branch add up to.
CycleTiming ==
  [][Running /\ ~BranchAtPageEnd => bus'.cycles - bus.cycles \in Timing]_vars

\* What CycleTiming asks of the table: a row gives the cycles that need no page
\* crossing, and the list of the instructions that pay for one has those that
\* read through an indexed address.
RowsTimed ==
  \A v \in u8 :
    LET fn   == opcodes[v].fn
        mode == opcodes[v].addressing_mode
    IN  /\ opcodes[v].cycles = IF fn \in BranchFns THEN 2 ELSE LeastCycles(fn, mode)
        /\ mode \in Indexed =>
             (instruction_has_additional_cycle_on_page_crossing(Instruction(fn))
                <=> ReadsIndexed(fn, mode))

\* "Crossing boundaries means 1 additional cycle" (cpu.cpp:119), for a branch
\* too: it costs a cycle more exactly when its target is on another page.
BranchTiming ==
  [][Running /\ Fetched.fn \in BranchFns
       => bus'.cycles - bus.cycles \in BranchCycles]_vars

-----------------------------------------------------------------------------
(* Arithmetic.                                                             *)

\* The flags agree with a result r computed without wrapping in unsigned
\* arithmetic, and s in signed arithmetic.
Agrees(carry, s) ==
  /\ CarryFlag \in bus'.status <=> carry
  /\ OverflowFlag \in bus'.status <=> s \notin -128 .. 127
  /\ ZeroFlag \in bus'.status <=> bus'.accumulator = 0
  /\ NegativeFlag \in bus'.status <=> Signed(bus'.accumulator) < 0

\* ADC and SBC add and subtract: V is set exactly when the signed result is
\* out of range and C when the unsigned one carries or does not borrow; the
\* truth table above adc_fn is about bits 7 only.  A comparison orders its
\* operands as unsigned numbers in C and Z, and N is the sign of the difference.
Arithmetic ==
  LET A == bus.accumulator
      M == read_mem(Operand.bus, Operand.address)
      C == IF CarryFlag \in bus.status THEN 1 ELSE 0
      Orders(register) == /\ CarryFlag \in bus'.status <=> register >= M
                          /\ ZeroFlag \in bus'.status <=> register = M
                          /\ NegativeFlag \in bus'.status <=> ToU8(register - M) >= 128
  IN CASE Fetched.fn = "adc" ->
            /\ bus'.accumulator = ToU8(A + M + C)
            /\ Agrees(A + M + C > 255, Signed(A) + Signed(M) + C)
       [] Fetched.fn = "sbc" ->
            /\ bus'.accumulator = ToU8(A - M - (1 - C))
            /\ Agrees(A - M - (1 - C) >= 0, Signed(A) - Signed(M) - (1 - C))
       [] Fetched.fn = "cmp" -> Orders(A)
       [] Fetched.fn = "cpx" -> Orders(bus.x)
       [] Fetched.fn = "cpy" -> Orders(bus.y)
       [] OTHER -> TRUE

SignedArithmetic == [][Running => Arithmetic]_vars

-----------------------------------------------------------------------------
(* The combined undocumented instructions.                                 *)

\* The second half works on what the first one has just stored, with the
\* carry the first one has left: for an operand M in RAM, which becomes N,
\* the result of the two halves together in integers and in bits.
Combined ==
  LET A == bus.accumulator
      M == read_mem(bus, Operand.address)
      N == read_mem(bus', Operand.address)
      C == IF CarryFlag \in bus.status THEN 1 ELSE 0
      Holds(flag) == flag \in bus'.status
      Leaves(carry, bits) == /\ Holds(CarryFlag) <=> carry
                             /\ bus'.accumulator = Byte(bits)
                             /\ Holds(ZeroFlag) <=> bits = {}
                             /\ Holds(NegativeFlag) <=> 128 \in bits
  IN CASE Fetched.fn = "slo" ->
            /\ N = ToU8(2 * M)
            /\ Leaves(M >= 128, Bits(A) \cup Bits(N))
       [] Fetched.fn = "rla" ->
            /\ N = ToU8(2 * M) + C
            /\ Leaves(M >= 128, Bits(A) \cap Bits(N))
       [] Fetched.fn = "sre" ->
            /\ N = M \div 2
            /\ Leaves(M % 2 = 1, {b \in Weights : b \in Bits(A) <=> b \notin Bits(N)})
       [] Fetched.fn = "rra" ->
            /\ N = (M \div 2) + 128 * C
            /\ bus'.accumulator = ToU8(A + N + (M % 2))
            /\ Agrees(A + N + (M % 2) > 255, Signed(A) + Signed(N) + (M % 2))
       [] Fetched.fn = "dcp" ->
            /\ N = ToU8(M - 1)
            /\ Holds(CarryFlag) <=> A >= N
            /\ Holds(ZeroFlag) <=> A = N
            /\ Holds(NegativeFlag) <=> ToU8(A - N) >= 128
       [] Fetched.fn = "isb" ->
            /\ N = ToU8(M + 1)
            /\ bus'.accumulator = ToU8(A - N - (1 - C))
            /\ Agrees(A - N - (1 - C) >= 0, Signed(A) - Signed(N) - (1 - C))
       [] Fetched.fn = "lax" ->
            /\ bus'.accumulator = M /\ bus'.x = M
            /\ Holds(ZeroFlag) <=> M = 0
            /\ Holds(NegativeFlag) <=> M >= 128
       [] Fetched.fn = "sax" -> Bits(N) = Bits(A) \cap Bits(bus.x)
       [] OTHER -> TRUE

CombinedComputes ==
  [][Running /\ Operand.address < RAM_MIRROR_END => Combined]_vars
=============================================================================
