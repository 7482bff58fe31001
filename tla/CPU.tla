-------------------------------- MODULE CPU --------------------------------
(***************************************************************************)
(* The 6502 of cpu.cpp.  Every instruction function is an operator from    *)
(* the bus before it to the bus after it, so that the functions that call  *)
(* others (slo_fn, rti_fn, ...) are compositions; an action of the         *)
(* specification is one iteration of the loop of run_cpu: fetch, decode,   *)
(* compute the operand address, execute, count the cycles, stop at BRK.    *)
(***************************************************************************)
EXTENDS Opcode

CONSTANTS
  PopsLowByteFirst,  \* pop_stack_u16 reads two bytes in the operands of one |
                     \* and C++ leaves their order to the build
  MaxCycles          \* bound: no instruction starts at or after this cycle

ASSUME PopsLowByteFirstAssumption == PopsLowByteFirst \in BOOLEAN
ASSUME MaxCyclesAssumption == MaxCycles \in Nat

CarryFlag        == 1
ZeroFlag         == 2
InterruptDisable == 4
DecimalModeFlag  == 8
BreakCommand     == 16
UnusedFlag       == 32
OverflowFlag     == 64
NegativeFlag     == 128

STACK_START      == \h0100
RESET_VECTOR     == \hFFFC
IRQ_VECTOR       == \hFFFE
AUTOMATION_ENTRY == \hC000   \* where main and the test start the program

-----------------------------------------------------------------------------
(* Helpers.                                                                *)

tick(bus, cycles) == [bus EXCEPT !.cycles = @ + cycles]

set_flag(bus, flag, v) ==
  [bus EXCEPT !.status = IF v THEN @ \cup {flag} ELSE @ \ {flag}]

update_zero_and_negative_flags(bus, value) ==
  set_flag(set_flag(bus, ZeroFlag, value = 0), NegativeFlag, Bit7(value))

read_mem_u16(bus, addr) ==
  Word(read_mem(bus, ToU16(addr + 1)), read_mem(bus, addr))

\* Mutant: the stack pointer moves before the write.
push_stack_MovesFirst(bus, value) ==
  [write_mem(bus, STACK_START + ToU8(bus.stack_pointer - 1), value)
     EXCEPT !.stack_pointer = ToU8(@ - 1)]

push_stack(bus, value) ==
  [write_mem(bus, STACK_START + bus.stack_pointer, value)
     EXCEPT !.stack_pointer = ToU8(@ - 1)]

push_stack_u16(bus, value) ==
  push_stack(push_stack(bus, HighByte(value)), LowByte(value))

pop_stack(bus) ==
  LET popped == [bus EXCEPT !.stack_pointer = ToU8(@ + 1)]
  IN  [value |-> read_mem(popped, STACK_START + popped.stack_pointer),
       bus   |-> popped]

\* Mutant: the bytes of the word are swapped.
pop_stack_u16_Swapped(bus) ==
  LET first  == pop_stack(bus)
      second == pop_stack(first.bus)
  IN  [value |-> Word(first.value, second.value), bus |-> second.bus]

pop_stack_u16(bus) ==
  LET first  == pop_stack(bus)
      second == pop_stack(first.bus)
  IN  [value |-> IF PopsLowByteFirst THEN Word(second.value, first.value)
                                     ELSE Word(first.value, second.value),
       bus   |-> second.bus]

cpu_reset(bus) ==
  tick([bus EXCEPT !.accumulator = 0, !.x = 0, !.y = 0,
                   !.status = {UnusedFlag, InterruptDisable},
                   !.stack_pointer = \hFD,
                   !.program_counter = read_mem_u16(bus, RESET_VECTOR)], 7)

-----------------------------------------------------------------------------
(* Operand addresses.                                                      *)

\* How far the switch of get_operand_address moves the program counter.
OperandBytes(mode) ==
  CASE mode \in {"Accumulator", "Implied"} -> 0
    [] mode \in {"Absolute", "Absolute_X", "Absolute_Y", "Indirect"} -> 2
    [] OTHER -> 1

\* A 16-bit pointer held in the zero page, which wraps within it.
ZeroPageWord(bus, ptr) ==
  Word(read_mem(bus, LowByte(ptr + 1)), read_mem(bus, ptr))

\* The vector of JMP (ind): its high byte comes from the vector's own page.
IndirectTarget(bus, vector) ==
  LET next == IF LowByte(vector) = \hFF THEN vector - \hFF ELSE ToU16(vector + 1)
  IN  Word(read_mem(bus, next), read_mem(bus, vector))

\* Mutant: a displacement is never negative.
SignExtend_Unsigned(byte) == byte
SignExtend(byte) == IF Bit7(byte) THEN \hFF00 + byte ELSE byte

\* The address an indexed mode starts from, before the index is added.
BaseAddress(bus, opcode) ==
  IF opcode.addressing_mode = "Indirect_Y" THEN ZeroPageWord(bus, opcode.byte)
                                           ELSE opcode.word

\* *out_address; 0, its initial value in run_cpu, when there is no operand.
OperandAddress(bus, opcode) ==
  LET mode == opcode.addressing_mode
  IN CASE mode = "Absolute"   -> opcode.word
       [] mode = "Absolute_X" -> ToU16(opcode.word + bus.x)
       [] mode \in {"Absolute_Y", "Indirect_Y"} ->
            ToU16(BaseAddress(bus, opcode) + bus.y)
       [] mode = "Immediate"  -> bus.program_counter
       [] mode = "Indirect"   -> IndirectTarget(bus, opcode.word)
       [] mode = "Indirect_X" -> ZeroPageWord(bus, LowByte(opcode.byte + bus.x))
       [] mode = "Relative"   -> SignExtend(opcode.byte)
       [] mode = "ZeroPage"   -> opcode.byte
       [] mode = "ZeroPage_X" -> LowByte(opcode.byte + bus.x)
       [] mode = "ZeroPage_Y" -> LowByte(opcode.byte + bus.y)
       [] OTHER -> 0

\* Mutant: (ind),Y never crosses a page.
PageCrossed_AbsoluteOnly(bus, opcode) ==
  /\ opcode.addressing_mode \in {"Absolute_X", "Absolute_Y"}
  /\ HighByte(OperandAddress(bus, opcode)) # HighByte(BaseAddress(bus, opcode))

PageCrossed(bus, opcode) ==
  /\ opcode.addressing_mode \in {"Absolute_X", "Absolute_Y", "Indirect_Y"}
  /\ HighByte(OperandAddress(bus, opcode)) # HighByte(BaseAddress(bus, opcode))

get_operand_address(bus, opcode) ==
  [address    |-> OperandAddress(bus, opcode),
   additional |-> IF PageCrossed(bus, opcode) THEN 1 ELSE 0,
   bus |-> [bus EXCEPT !.program_counter =
                         ToU16(@ + OperandBytes(opcode.addressing_mode))]]

-----------------------------------------------------------------------------
(* Loads, stores and transfers.                                            *)

SetA(bus, v) == update_zero_and_negative_flags([bus EXCEPT !.accumulator = v], v)
SetX(bus, v) == update_zero_and_negative_flags([bus EXCEPT !.x = v], v)
SetY(bus, v) == update_zero_and_negative_flags([bus EXCEPT !.y = v], v)

lda_fn(bus, addr) == SetA(bus, read_mem(bus, addr))
ldx_fn(bus, addr) == SetX(bus, read_mem(bus, addr))
ldy_fn(bus, addr) == SetY(bus, read_mem(bus, addr))
lax_fn(bus, addr) == ldx_fn(lda_fn(bus, addr), addr)

sta_fn(bus, addr) == write_mem(bus, addr, bus.accumulator)
stx_fn(bus, addr) == write_mem(bus, addr, bus.x)
sty_fn(bus, addr) == write_mem(bus, addr, bus.y)
sax_fn(bus, addr) == write_mem(bus, addr, BitAnd(bus.accumulator, bus.x))

tax_fn(bus, addr) == SetX(bus, bus.accumulator)
tay_fn(bus, addr) == SetY(bus, bus.accumulator)
tsx_fn(bus, addr) == SetX(bus, bus.stack_pointer)
txa_fn(bus, addr) == SetA(bus, bus.x)
tya_fn(bus, addr) == SetA(bus, bus.y)
txs_fn(bus, addr) == [bus EXCEPT !.stack_pointer = bus.x]

-----------------------------------------------------------------------------
(* Arithmetic, logic and comparisons.                                      *)

\* Mutants: V with A ^ M for ~(A ^ M); the sum is stored without & 0x00FF.
AddWithCarry_XorOverflow(bus, M) ==
  LET A == bus.accumulator
      R == M + A + (IF CarryFlag \in bus.status THEN 1 ELSE 0)
      overflow == ~(Bit7(A) <=> Bit7(M)) /\ ~(Bit7(M) <=> Bit7(R))
      carried  == set_flag(bus, CarryFlag, HighByte(R) # 0)
  IN  set_flag(SetA(carried, LowByte(R)), OverflowFlag, overflow)
AddWithCarry_Wide(bus, M) ==
  LET R == M + bus.accumulator + (IF CarryFlag \in bus.status THEN 1 ELSE 0)
  IN  SetA(set_flag(bus, CarryFlag, HighByte(R) # 0), R)

\* The common part of adc_fn and sbc_fn: A + M + C, where the u16 R does
\* not overflow, and ~(A ^ M) & (M ^ R) of the bits 7.
AddWithCarry(bus, M) ==
  LET A == bus.accumulator
      R == M + A + (IF CarryFlag \in bus.status THEN 1 ELSE 0)
      overflow == (Bit7(A) <=> Bit7(M)) /\ ~(Bit7(M) <=> Bit7(R))
      carried  == set_flag(bus, CarryFlag, HighByte(R) # 0)
  IN  set_flag(SetA(carried, LowByte(R)), OverflowFlag, overflow)

adc_fn(bus, addr) == AddWithCarry(bus, read_mem(bus, addr))
sbc_fn(bus, addr) == AddWithCarry(bus, 255 - read_mem(bus, addr))

and_fn(bus, addr) == SetA(bus, BitAnd(bus.accumulator, read_mem(bus, addr)))
ora_fn(bus, addr) == SetA(bus, BitOr(bus.accumulator, read_mem(bus, addr)))
eor_fn(bus, addr) == SetA(bus, BitXor(bus.accumulator, read_mem(bus, addr)))

\* Mutant: the result is kept, as and_fn does.
bit_fn_KeepsResult(bus, addr) ==
  set_flag(and_fn(bus, addr), OverflowFlag, 64 \in Bits(read_mem(bus, addr)))
bit_fn(bus, addr) ==
  LET memory == read_mem(bus, addr)
      zero   == set_flag(bus, ZeroFlag, BitAnd(bus.accumulator, memory) = 0)
  IN  set_flag(set_flag(zero, OverflowFlag, 64 \in Bits(memory)),
               NegativeFlag, 128 \in Bits(memory))

Compare(bus, register, memory) ==
  update_zero_and_negative_flags(set_flag(bus, CarryFlag, register >= memory),
                                 ToU8(register - memory))

cmp_fn(bus, addr) == Compare(bus, bus.accumulator, read_mem(bus, addr))
cpx_fn(bus, addr) == Compare(bus, bus.x, read_mem(bus, addr))
cpy_fn(bus, addr) == Compare(bus, bus.y, read_mem(bus, addr))

inx_fn(bus, addr) == SetX(bus, ToU8(bus.x + 1))
iny_fn(bus, addr) == SetY(bus, ToU8(bus.y + 1))
\* Mutant: the flags are not updated.
dex_fn_NoFlags(bus, addr) == [bus EXCEPT !.x = ToU8(@ - 1)]
dex_fn(bus, addr) == SetX(bus, ToU8(bus.x - 1))
\* Mutant: the flags are not updated.
dey_fn_NoFlags(bus, addr) == [bus EXCEPT !.y = ToU8(@ - 1)]
dey_fn(bus, addr) == SetY(bus, ToU8(bus.y - 1))

-----------------------------------------------------------------------------
(* Shifts and read-modify-write instructions.                              *)

Carry(bus) == IF CarryFlag \in bus.status THEN 1 ELSE 0

\* The result and the carry of the four shifts of a byte.
ShiftLeft(v)     == [value |-> ToU8(2 * v), carry |-> Bit7(v)]
ShiftRight(v)    == [value |-> v \div 2,    carry |-> v % 2 = 1]
RotateLeft(v, c)  == [value |-> ToU8(2 * v) + c,       carry |-> Bit7(v)]
\* Mutant: the carry is not shifted in.
RotateRight_NoCarry(v, c) == [value |-> v \div 2, carry |-> v % 2 = 1]
RotateRight(v, c) == [value |-> (v \div 2) + 128 * c,  carry |-> v % 2 = 1]

StoreShifted(bus, addr, shifted) ==
  update_zero_and_negative_flags(
    write_mem(set_flag(bus, CarryFlag, shifted.carry), addr, shifted.value),
    shifted.value)

asl_fn(bus, addr) == StoreShifted(bus, addr, ShiftLeft(read_mem(bus, addr)))
lsr_fn(bus, addr) == StoreShifted(bus, addr, ShiftRight(read_mem(bus, addr)))
rol_fn(bus, addr) ==
  StoreShifted(bus, addr, RotateLeft(read_mem(bus, addr), Carry(bus)))
ror_fn(bus, addr) ==
  StoreShifted(bus, addr, RotateRight(read_mem(bus, addr), Carry(bus)))

SetShifted(bus, shifted) ==
  SetA(set_flag(bus, CarryFlag, shifted.carry), shifted.value)

asl_acc_fn(bus, addr) == SetShifted(bus, ShiftLeft(bus.accumulator))
lsr_acc_fn(bus, addr) == SetShifted(bus, ShiftRight(bus.accumulator))
rol_acc_fn(bus, addr) == SetShifted(bus, RotateLeft(bus.accumulator, Carry(bus)))
ror_acc_fn(bus, addr) == SetShifted(bus, RotateRight(bus.accumulator, Carry(bus)))

StoreCounted(bus, addr, value) ==
  update_zero_and_negative_flags(write_mem(bus, addr, value), value)

inc_fn(bus, addr) == StoreCounted(bus, addr, ToU8(read_mem(bus, addr) + 1))
dec_fn(bus, addr) == StoreCounted(bus, addr, ToU8(read_mem(bus, addr) - 1))

\* Undocumented instructions: two documented ones on the same operand.
slo_fn(bus, addr) == ora_fn(asl_fn(bus, addr), addr)
\* Mutant: the halves are swapped.
rra_fn_Swapped(bus, addr) == ror_fn(adc_fn(bus, addr), addr)
rla_fn(bus, addr) == and_fn(rol_fn(bus, addr), addr)
sre_fn(bus, addr) == eor_fn(lsr_fn(bus, addr), addr)
rra_fn(bus, addr) == adc_fn(ror_fn(bus, addr), addr)
dcp_fn(bus, addr) == cmp_fn(dec_fn(bus, addr), addr)
isb_fn(bus, addr) == sbc_fn(inc_fn(bus, addr), addr)

-----------------------------------------------------------------------------
(* Branches, jumps and the stack.                                          *)

branch(bus, relative_address) ==
  LET new_pc == ToU16(bus.program_counter + relative_address)
      \* & 0xFF00 drops bit 16 of the int when the program counter is 0xFFFF
      page   == HighByte(ToU16(bus.program_counter + 1))
  IN  tick([bus EXCEPT !.program_counter = new_pc],
           IF page # HighByte(new_pc) THEN 2 ELSE 1)

BranchIf(condition, bus, rel) == IF condition THEN branch(bus, rel) ELSE bus

bcc_fn(bus, rel) == BranchIf(CarryFlag    \notin bus.status, bus, rel)
bcs_fn(bus, rel) == BranchIf(CarryFlag    \in bus.status,    bus, rel)
bne_fn(bus, rel) == BranchIf(ZeroFlag     \notin bus.status, bus, rel)
beq_fn(bus, rel) == BranchIf(ZeroFlag     \in bus.status,    bus, rel)
bpl_fn(bus, rel) == BranchIf(NegativeFlag \notin bus.status, bus, rel)
bmi_fn(bus, rel) == BranchIf(NegativeFlag \in bus.status,    bus, rel)
bvc_fn(bus, rel) == BranchIf(OverflowFlag \notin bus.status, bus, rel)
bvs_fn(bus, rel) == BranchIf(OverflowFlag \in bus.status,    bus, rel)

jmp_fn(bus, addr) == [bus EXCEPT !.program_counter = addr]

jsr_fn(bus, addr) ==
  [push_stack_u16(bus, ToU16(bus.program_counter - 1))
     EXCEPT !.program_counter = addr]

\* Mutant: the 1 that jsr_fn subtracts is not added again.
rts_fn_NoIncrement(bus, addr) ==
  LET popped == pop_stack_u16(bus)
  IN  [popped.bus EXCEPT !.program_counter = popped.value]

rts_fn(bus, addr) ==
  LET popped == pop_stack_u16(bus)
  IN  [popped.bus EXCEPT !.program_counter = ToU16(popped.value + 1)]

pha_fn(bus, addr) == push_stack(bus, bus.accumulator)
php_fn(bus, addr) ==
  push_stack(bus, Byte(bus.status \cup {UnusedFlag, BreakCommand}))

pla_fn(bus, addr) == LET popped == pop_stack(bus) IN SetA(popped.bus, popped.value)

\* Mutant: the B flag that php_fn pushes is popped into the status.
plp_fn_KeepsBreak(bus, addr) ==
  LET popped == pop_stack(bus)
  IN  [popped.bus EXCEPT !.status = Bits(popped.value) \cup {UnusedFlag}]

plp_fn(bus, addr) ==
  LET popped == pop_stack(bus)
  IN  [popped.bus EXCEPT
         !.status = (Bits(popped.value) \ {BreakCommand}) \cup {UnusedFlag}]

rti_fn(bus, addr) ==
  LET popped == pop_stack_u16(plp_fn(bus, addr))
  IN  [popped.bus EXCEPT !.program_counter = popped.value]

brk_fn(bus, addr) ==
  LET returning == push_stack_u16(bus, ToU16(bus.program_counter + 1))
      flagged   == set_flag(returning, BreakCommand, TRUE)
      pushed    == push_stack(flagged, Byte(flagged.status))
  IN  [pushed EXCEPT !.program_counter = read_mem_u16(pushed, IRQ_VECTOR)]

-----------------------------------------------------------------------------
(* Flags.                                                                  *)

clc_fn(bus, addr) == set_flag(bus, CarryFlag, FALSE)
cld_fn(bus, addr) == set_flag(bus, DecimalModeFlag, FALSE)
cli_fn(bus, addr) == set_flag(bus, InterruptDisable, FALSE)
clv_fn(bus, addr) == set_flag(bus, OverflowFlag, FALSE)
sec_fn(bus, addr) == set_flag(bus, CarryFlag, TRUE)
sed_fn(bus, addr) == set_flag(bus, DecimalModeFlag, TRUE)
sei_fn(bus, addr) == set_flag(bus, InterruptDisable, TRUE)

\* nop_fn, and the undocumented instructions whose function is still empty.
nop_fn(bus, addr) == bus

-----------------------------------------------------------------------------
(* The specification.                                                      *)

VARIABLES
  bus,      \* the struct Bus of main
  phase     \* where main is: cartridge loaded, bus reset, in or after run_cpu

vars == <<bus, phase>>

Init ==
  /\ \E c \in Cartridges : bus = bus_load_cartridge(c)
  /\ phase = "loaded"

BusReset ==
  /\ phase = "loaded"
  /\ bus' = cpu_reset(bus)
  /\ phase' = "reset"

\* main and the test overwrite the program counter, then call run_cpu.
Start ==
  /\ phase = "reset"
  /\ bus' = [bus EXCEPT !.program_counter = AUTOMATION_ENTRY]
  /\ phase' = "running"

\* The instruction at the program counter, and the operand run_cpu finds for
\* an opcode once the program counter has moved past its byte.
Fetched == get_next_opcode(bus, bus.program_counter)
OperandOf(opcode) ==
  get_operand_address([bus EXCEPT !.program_counter = ToU16(@ + 1)], opcode)
Operand == OperandOf(Fetched)

\* The opcode at the program counter is one whose row points to fn.
Dispatches(fn) ==
  /\ phase = "running"
  /\ bus.cycles < MaxCycles
  /\ Fetched.fn = fn

\* The cycles run_cpu counts; branch has counted its own before.
Cycles(opcode, operand) ==
  opcode.cycles
    + (IF instruction_has_additional_cycle_on_page_crossing(Instruction(opcode.fn))
         THEN operand.additional ELSE 0)

\* What follows the instruction function, which has led to the bus after.
Retires(opcode, operand, after) ==
  /\ bus' = tick(after, Cycles(opcode, operand))
  /\ phase' = IF Instruction(opcode.fn) = "brk" THEN "returned" ELSE phase

\* One iteration of the loop of run_cpu, with its local variables.
Execute(fn, instruction_fn(_, _)) ==
  /\ Dispatches(fn)
  /\ \E opcode \in {Fetched} : \E operand \in {OperandOf(opcode)} :
       Retires(opcode, operand, instruction_fn(operand.bus, operand.address))

Load ==
  \/ Execute("lda", lda_fn)
  \/ Execute("ldx", ldx_fn)
  \/ Execute("ldy", ldy_fn)
  \/ Execute("lax", lax_fn)

Store ==
  \/ Execute("sta", sta_fn)
  \/ Execute("stx", stx_fn)
  \/ Execute("sty", sty_fn)
  \/ Execute("sax", sax_fn)

Transfer ==
  \/ Execute("tax", tax_fn)
  \/ Execute("tay", tay_fn)
  \/ Execute("tsx", tsx_fn)
  \/ Execute("txa", txa_fn)
  \/ Execute("txs", txs_fn)
  \/ Execute("tya", tya_fn)

Alu ==
  \/ Execute("adc", adc_fn)
  \/ Execute("sbc", sbc_fn)
  \/ Execute("and", and_fn)
  \/ Execute("ora", ora_fn)
  \/ Execute("eor", eor_fn)
  \/ Execute("bit", bit_fn)
  \/ Execute("cmp", cmp_fn)
  \/ Execute("cpx", cpx_fn)
  \/ Execute("cpy", cpy_fn)

IncDec ==
  \/ Execute("inx", inx_fn)
  \/ Execute("iny", iny_fn)
  \/ Execute("dex", dex_fn)
  \/ Execute("dey", dey_fn)

Shift ==
  \/ Execute("asl_acc", asl_acc_fn)
  \/ Execute("lsr_acc", lsr_acc_fn)
  \/ Execute("rol_acc", rol_acc_fn)
  \/ Execute("ror_acc", ror_acc_fn)

ReadModifyWrite ==
  \/ Execute("asl", asl_fn)
  \/ Execute("lsr", lsr_fn)
  \/ Execute("rol", rol_fn)
  \/ Execute("ror", ror_fn)
  \/ Execute("inc", inc_fn)
  \/ Execute("dec", dec_fn)
  \/ Execute("slo", slo_fn)
  \/ Execute("rla", rla_fn)
  \/ Execute("sre", sre_fn)
  \/ Execute("rra", rra_fn)
  \/ Execute("dcp", dcp_fn)
  \/ Execute("isb", isb_fn)

Branch ==
  \/ Execute("bcc", bcc_fn)
  \/ Execute("bcs", bcs_fn)
  \/ Execute("bne", bne_fn)
  \/ Execute("beq", beq_fn)
  \/ Execute("bpl", bpl_fn)
  \/ Execute("bmi", bmi_fn)
  \/ Execute("bvc", bvc_fn)
  \/ Execute("bvs", bvs_fn)

Jump ==
  \/ Execute("jmp", jmp_fn)
  \/ Execute("jsr", jsr_fn)
  \/ Execute("rts", rts_fn)
  \/ Execute("rti", rti_fn)
  \/ Execute("brk", brk_fn)

Stack ==
  \/ Execute("pha", pha_fn)
  \/ Execute("php", php_fn)
  \/ Execute("pla", pla_fn)
  \/ Execute("plp", plp_fn)

Flag ==
  \/ Execute("clc", clc_fn)
  \/ Execute("cld", cld_fn)
  \/ Execute("cli", cli_fn)
  \/ Execute("clv", clv_fn)
  \/ Execute("sec", sec_fn)
  \/ Execute("sed", sed_fn)
  \/ Execute("sei", sei_fn)

Empty == \E fn \in EmptyFns : Execute(fn, nop_fn)

Step ==
  \/ Load \/ Store \/ Transfer \/ Alu \/ IncDec \/ Shift \/ ReadModifyWrite
  \/ Branch \/ Jump \/ Stack \/ Flag \/ Empty

\* run_cpu has returned, or the run has reached the bound.
Stopped ==
  /\ phase = "returned" \/ bus.cycles >= MaxCycles
  /\ UNCHANGED vars

Next == BusReset \/ Start \/ Step \/ Stopped

Spec == Init /\ [][Next]_vars

\* The loop of run_cpu is plain sequential code: it keeps taking steps.
FairSpec == Spec /\ WF_vars(Next)

Phases == {"loaded", "reset", "running", "returned"}

\* The bus holds values of the widths its struct declares.
TypeOK ==
  /\ bus \in BusState
  /\ phase \in Phases
=============================================================================
