----------------------------- MODULE CPUProofs -----------------------------
(***************************************************************************)
(* Type correctness of the CPU, the discipline of its status register and  *)
(* control flow, for every opcode table of the type of OpCode, every set   *)
(* of cartridges and either order of the reads in pop_stack_u16; and what  *)
(* the proofs of InstructionProofs and of StackProofs share, which RAM and *)
(* which registers each function leaves alone.                             *)
(*                                                                         *)
(* The argument: every instruction function but brk_fn maps the set of     *)
(* the states a program can be in to itself, and every one that neither    *)
(* branches nor jumps leaves the program counter where the operand's       *)
(* addressing mode has put it.                                             *)
(***************************************************************************)
EXTENDS CPUProperties, BusProofs

\* The states between cpu_reset and BRK.
ProgramState ==
  {b \in BusState : UnusedFlag \in b.status /\ BreakCommand \notin b.status}

\* The flags that instructions set and clear one at a time.
ProgramFlags == Weights \ {UnusedFlag, BreakCommand}

-----------------------------------------------------------------------------
(* The helpers.                                                            *)

LEMMA FlagValues ==
  /\ {CarryFlag, ZeroFlag, InterruptDisable, DecimalModeFlag, OverflowFlag,
      NegativeFlag} \subseteq ProgramFlags
  /\ UnusedFlag \in Weights /\ BreakCommand \in Weights /\ UnusedFlag # BreakCommand
  BY DEF CarryFlag, ZeroFlag, InterruptDisable, DecimalModeFlag, OverflowFlag,
         NegativeFlag, ProgramFlags, Weights, UnusedFlag, BreakCommand

LEMMA FieldTypes ==
  ASSUME NEW b \in BusState
  PROVE  /\ b.accumulator \in u8 /\ b.x \in u8 /\ b.y \in u8 /\ b.stack_pointer \in u8
         /\ b.program_counter \in u16 /\ b.cycles \in Nat
  BY DEF BusState

LEMMA RegisterUpdates ==
  ASSUME NEW b \in ProgramState, NEW v \in u8
  PROVE  /\ [b EXCEPT !.accumulator = v] \in ProgramState
         /\ [b EXCEPT !.x = v] \in ProgramState
         /\ [b EXCEPT !.y = v] \in ProgramState
         /\ [b EXCEPT !.stack_pointer = v] \in ProgramState
  BY DEF ProgramState, BusState

LEMMA CounterUpdates ==
  ASSUME NEW b \in ProgramState
  PROVE  /\ \A v \in u16 : [b EXCEPT !.program_counter = v] \in ProgramState
         /\ \A n \in Nat : tick(b, n) \in ProgramState
  BY DEF ProgramState, BusState, tick

LEMMA FlagUpdates ==
  ASSUME NEW b \in ProgramState, NEW flag \in ProgramFlags, NEW v
  PROVE  set_flag(b, flag, v) \in ProgramState
  BY DEF ProgramState, BusState, set_flag, ProgramFlags

LEMMA ZeroNegativeType ==
  ASSUME NEW b \in ProgramState, NEW v
  PROVE  update_zero_and_negative_flags(b, v) \in ProgramState
  BY FlagValues, FlagUpdates DEF update_zero_and_negative_flags

LEMMA ProgramWrite ==
  ASSUME NEW b \in ProgramState, NEW a \in u16, NEW v \in u8
  PROVE  write_mem(b, a, v) \in ProgramState
<1>1. write_mem(b, a, v) \in BusState
  BY WriteType DEF ProgramState
<1>2. write_mem(b, a, v).status = b.status
  BY DEF ProgramState, BusState, write_mem
<1> QED
  BY <1>1, <1>2 DEF ProgramState

LEMMA StackAddress ==
  ASSUME NEW s \in u8
  PROVE  STACK_START + s \in u16
  BY U8, U16 DEF STACK_START

LEMMA PushType ==
  ASSUME NEW b \in ProgramState, NEW v \in u8
  PROVE  push_stack(b, v) \in ProgramState
<1> DEFINE written == write_mem(b, STACK_START + b.stack_pointer, v)
<1>1. written \in ProgramState
  BY FieldTypes, StackAddress, ProgramWrite DEF ProgramState
<1>2. ToU8(written.stack_pointer - 1) \in u8
  BY <1>1, FieldTypes, Wraps DEF ProgramState
<1>3. [written EXCEPT !.stack_pointer = ToU8(written.stack_pointer - 1)] \in ProgramState
  BY <1>1, <1>2, RegisterUpdates
<1> QED
  BY <1>3 DEF push_stack

LEMMA PushWordType ==
  ASSUME NEW b \in ProgramState, NEW w \in u16
  PROVE  push_stack_u16(b, w) \in ProgramState
  BY PushType, Widths, U16 DEF push_stack_u16

LEMMA PopType ==
  ASSUME NEW b \in ProgramState
  PROVE  pop_stack(b).bus \in ProgramState /\ pop_stack(b).value \in u8
<1> DEFINE popped == [b EXCEPT !.stack_pointer = ToU8(b.stack_pointer + 1)]
<1>1. popped \in ProgramState
  <2>1. ToU8(b.stack_pointer + 1) \in u8
    BY FieldTypes, Wraps DEF ProgramState
  <2> QED
    BY <2>1, RegisterUpdates
<1>2. popped \in BusState /\ STACK_START + popped.stack_pointer \in u16
  BY <1>1, FieldTypes, StackAddress DEF ProgramState
<1>3. read_mem(popped, STACK_START + popped.stack_pointer) \in u8
  BY <1>2, ReadType
<1> QED
  BY <1>1, <1>3 DEF pop_stack

LEMMA PopWordType ==
  ASSUME NEW b \in ProgramState
  PROVE  pop_stack_u16(b).bus \in ProgramState /\ pop_stack_u16(b).value \in u16
<1> DEFINE first == pop_stack(b)
           second == pop_stack(first.bus)
<1>1. first.bus \in ProgramState /\ first.value \in u8
  BY PopType
<1>2. second.bus \in ProgramState /\ second.value \in u8
  BY <1>1, PopType
<1>3. Word(second.value, first.value) \in u16 /\ Word(first.value, second.value) \in u16
  BY <1>1, <1>2, Widths
<1> QED
  BY <1>2, <1>3 DEF pop_stack_u16

LEMMA ReadWordType ==
  ASSUME NEW b \in BusState, NEW a \in u16
  PROVE  read_mem_u16(b, a) \in u16
<1>1. read_mem(b, ToU16(a + 1)) \in u8 /\ read_mem(b, a) \in u8
  BY ReadType, Wraps
<1> QED
  BY <1>1, Widths DEF read_mem_u16

-----------------------------------------------------------------------------
(* The instruction functions.                                              *)

LEMMA SetRegisterType ==
  ASSUME NEW b \in ProgramState, NEW v \in u8
  PROVE  SetA(b, v) \in ProgramState /\ SetX(b, v) \in ProgramState
         /\ SetY(b, v) \in ProgramState
  BY RegisterUpdates, ZeroNegativeType DEF SetA, SetX, SetY

LEMMA ProgramRead ==
  ASSUME NEW b \in ProgramState, NEW a \in u16
  PROVE  read_mem(b, a) \in u8
  BY ReadType DEF ProgramState

LEMMA ProgramFields ==
  ASSUME NEW b \in ProgramState
  PROVE  /\ b.accumulator \in u8 /\ b.x \in u8 /\ b.y \in u8 /\ b.stack_pointer \in u8
         /\ b.program_counter \in u16 /\ b.cycles \in Nat
  BY FieldTypes DEF ProgramState

LEMMA LoadType ==
  ASSUME NEW b \in ProgramState, NEW a \in u16
  PROVE  /\ lda_fn(b, a) \in ProgramState /\ ldx_fn(b, a) \in ProgramState
         /\ ldy_fn(b, a) \in ProgramState /\ lax_fn(b, a) \in ProgramState
<1>1. \A c \in ProgramState : lda_fn(c, a) \in ProgramState
                              /\ ldx_fn(c, a) \in ProgramState
  BY ProgramRead, SetRegisterType DEF lda_fn, ldx_fn
<1>2. ldy_fn(b, a) \in ProgramState
  BY ProgramRead, SetRegisterType DEF ldy_fn
<1> QED
  BY <1>1, <1>2 DEF lax_fn

LEMMA StoreType ==
  ASSUME NEW b \in ProgramState, NEW a \in u16
  PROVE  /\ sta_fn(b, a) \in ProgramState /\ stx_fn(b, a) \in ProgramState
         /\ sty_fn(b, a) \in ProgramState /\ sax_fn(b, a) \in ProgramState
  BY ProgramFields, ProgramWrite, ByteType DEF sta_fn, stx_fn, sty_fn, sax_fn, BitAnd

LEMMA TransferType ==
  ASSUME NEW b \in ProgramState, NEW a \in u16
  PROVE  /\ tax_fn(b, a) \in ProgramState /\ tay_fn(b, a) \in ProgramState
         /\ tsx_fn(b, a) \in ProgramState /\ txa_fn(b, a) \in ProgramState
         /\ txs_fn(b, a) \in ProgramState /\ tya_fn(b, a) \in ProgramState
  BY ProgramFields, SetRegisterType, RegisterUpdates
     DEF tax_fn, tay_fn, tsx_fn, txa_fn, txs_fn, tya_fn

LEMMA AddWithCarryType ==
  ASSUME NEW b \in ProgramState, NEW M \in u8
  PROVE  AddWithCarry(b, M) \in ProgramState
<1> DEFINE R == M + b.accumulator + (IF CarryFlag \in b.status THEN 1 ELSE 0)
<1>1. R \in Int
  BY ProgramFields, U8
<1>2. LowByte(R) \in u8
  BY <1>1, Widths
<1> HIDE DEF R
<1>3. \A v : set_flag(b, CarryFlag, v) \in ProgramState
  BY FlagValues, FlagUpdates
<1>4. \A v : SetA(set_flag(b, CarryFlag, v), LowByte(R)) \in ProgramState
  BY <1>2, <1>3, SetRegisterType
<1>5. \A v, w : set_flag(SetA(set_flag(b, CarryFlag, v), LowByte(R)), OverflowFlag, w)
                  \in ProgramState
  BY <1>4, FlagValues, FlagUpdates
<1> QED
  BY <1>5 DEF AddWithCarry, R

LEMMA CompareType ==
  ASSUME NEW b \in ProgramState, NEW r, NEW m
  PROVE  Compare(b, r, m) \in ProgramState
  BY FlagValues, FlagUpdates, ZeroNegativeType DEF Compare

LEMMA LogicType ==
  ASSUME NEW b \in ProgramState, NEW a \in u16
  PROVE  /\ and_fn(b, a) \in ProgramState /\ ora_fn(b, a) \in ProgramState
         /\ eor_fn(b, a) \in ProgramState /\ bit_fn(b, a) \in ProgramState
<1>1. /\ and_fn(b, a) \in ProgramState /\ ora_fn(b, a) \in ProgramState
      /\ eor_fn(b, a) \in ProgramState
  BY ByteType, SetRegisterType DEF and_fn, ora_fn, eor_fn, BitAnd, BitOr, BitXor
<1>2. bit_fn(b, a) \in ProgramState
  BY FlagValues, FlagUpdates DEF bit_fn
<1> QED
  BY <1>1, <1>2

LEMMA AluType ==
  ASSUME NEW b \in ProgramState, NEW a \in u16
  PROVE  /\ adc_fn(b, a) \in ProgramState /\ sbc_fn(b, a) \in ProgramState
         /\ cmp_fn(b, a) \in ProgramState /\ cpx_fn(b, a) \in ProgramState
         /\ cpy_fn(b, a) \in ProgramState
<1>1. read_mem(b, a) \in u8 /\ 255 - read_mem(b, a) \in u8
  BY ProgramRead, U8
<1>2. adc_fn(b, a) \in ProgramState /\ sbc_fn(b, a) \in ProgramState
  BY <1>1, AddWithCarryType DEF adc_fn, sbc_fn
<1>3. /\ cmp_fn(b, a) \in ProgramState /\ cpx_fn(b, a) \in ProgramState
      /\ cpy_fn(b, a) \in ProgramState
  BY CompareType DEF cmp_fn, cpx_fn, cpy_fn
<1> QED
  BY <1>2, <1>3

LEMMA IncDecType ==
  ASSUME NEW b \in ProgramState, NEW a \in u16
  PROVE  /\ inx_fn(b, a) \in ProgramState /\ iny_fn(b, a) \in ProgramState
         /\ dex_fn(b, a) \in ProgramState /\ dey_fn(b, a) \in ProgramState
  BY ProgramFields, Wraps, SetRegisterType DEF inx_fn, iny_fn, dex_fn, dey_fn

LEMMA CarryBit == \A b : Carry(b) \in {0, 1}
  BY DEF Carry

LEMMA ShiftType ==
  ASSUME NEW v \in u8, NEW c \in {0, 1}
  PROVE  /\ ShiftLeft(v).value \in u8 /\ ShiftRight(v).value \in u8
         /\ RotateLeft(v, c).value \in u8 /\ RotateRight(v, c).value \in u8
<1>1. ToU8(2 * v) \in u8 /\ v \div 2 \in u8
  BY U8 DEF ToU8
<1>2. ToU8(2 * v) + c \in u8 /\ (v \div 2) + 128 * c \in u8
  BY U8 DEF ToU8
<1> QED
  BY <1>1, <1>2 DEF ShiftLeft, ShiftRight, RotateLeft, RotateRight

LEMMA StoreShiftedType ==
  ASSUME NEW b \in ProgramState, NEW a \in u16, NEW s, s.value \in u8
  PROVE  StoreShifted(b, a, s) \in ProgramState
<1>1. set_flag(b, CarryFlag, s.carry) \in ProgramState
  BY FlagValues, FlagUpdates
<1>2. write_mem(set_flag(b, CarryFlag, s.carry), a, s.value) \in ProgramState
  BY <1>1, ProgramWrite
<1> QED
  BY <1>2, ZeroNegativeType DEF StoreShifted

LEMMA SetShiftedType ==
  ASSUME NEW b \in ProgramState, NEW s, s.value \in u8
  PROVE  SetShifted(b, s) \in ProgramState
<1>1. set_flag(b, CarryFlag, s.carry) \in ProgramState
  BY FlagValues, FlagUpdates
<1> QED
  BY <1>1, SetRegisterType DEF SetShifted

LEMMA AccShiftType ==
  ASSUME NEW b \in ProgramState, NEW a \in u16
  PROVE  /\ asl_acc_fn(b, a) \in ProgramState /\ lsr_acc_fn(b, a) \in ProgramState
         /\ rol_acc_fn(b, a) \in ProgramState /\ ror_acc_fn(b, a) \in ProgramState
  BY ProgramFields, CarryBit, ShiftType, SetShiftedType
     DEF asl_acc_fn, lsr_acc_fn, rol_acc_fn, ror_acc_fn

LEMMA MemoryShiftType ==
  ASSUME NEW b \in ProgramState, NEW a \in u16
  PROVE  /\ asl_fn(b, a) \in ProgramState /\ lsr_fn(b, a) \in ProgramState
         /\ rol_fn(b, a) \in ProgramState /\ ror_fn(b, a) \in ProgramState
  BY ProgramRead, CarryBit, ShiftType, StoreShiftedType
     DEF asl_fn, lsr_fn, rol_fn, ror_fn

LEMMA CountType ==
  ASSUME NEW b \in ProgramState, NEW a \in u16
  PROVE  inc_fn(b, a) \in ProgramState /\ dec_fn(b, a) \in ProgramState
<1>1. ToU8(read_mem(b, a) + 1) \in u8 /\ ToU8(read_mem(b, a) - 1) \in u8
  BY ProgramRead, Wraps
<1> QED
  BY <1>1, ProgramWrite, ZeroNegativeType DEF inc_fn, dec_fn, StoreCounted

LEMMA ComposedType ==
  ASSUME NEW b \in ProgramState, NEW a \in u16
  PROVE  /\ slo_fn(b, a) \in ProgramState /\ rla_fn(b, a) \in ProgramState
         /\ sre_fn(b, a) \in ProgramState /\ rra_fn(b, a) \in ProgramState
         /\ dcp_fn(b, a) \in ProgramState /\ isb_fn(b, a) \in ProgramState
  BY MemoryShiftType, CountType, LogicType, AluType
     DEF slo_fn, rla_fn, sre_fn, rra_fn, dcp_fn, isb_fn

LEMMA BranchType ==
  ASSUME NEW b \in ProgramState, NEW a \in u16, NEW condition
  PROVE  BranchIf(condition, b, a) \in ProgramState
<1>1. ToU16(b.program_counter + a) \in u16
  <2>1. b.program_counter + a \in Int
    BY ProgramFields, U16
  <2> QED
    BY <2>1, Widths
<1>2. [b EXCEPT !.program_counter = ToU16(b.program_counter + a)] \in ProgramState
  BY <1>1, CounterUpdates
<1>3. branch(b, a) \in ProgramState
  BY <1>2, CounterUpdates DEF branch
<1> QED
  BY <1>3 DEF BranchIf

LEMMA BranchesType ==
  ASSUME NEW b \in ProgramState, NEW a \in u16
  PROVE  /\ bcc_fn(b, a) \in ProgramState /\ bcs_fn(b, a) \in ProgramState
         /\ bne_fn(b, a) \in ProgramState /\ beq_fn(b, a) \in ProgramState
         /\ bpl_fn(b, a) \in ProgramState /\ bmi_fn(b, a) \in ProgramState
         /\ bvc_fn(b, a) \in ProgramState /\ bvs_fn(b, a) \in ProgramState
  BY BranchType DEF bcc_fn, bcs_fn, bne_fn, beq_fn, bpl_fn, bmi_fn, bvc_fn, bvs_fn

LEMMA StackFnsType ==
  ASSUME NEW b \in ProgramState, NEW a \in u16
  PROVE  /\ pha_fn(b, a) \in ProgramState /\ php_fn(b, a) \in ProgramState
         /\ pla_fn(b, a) \in ProgramState
  BY ProgramFields, PushType, PopType, ByteType, SetRegisterType
     DEF pha_fn, php_fn, pla_fn

\* What makes the discipline hold: whatever byte the program has pushed, or
\* written to the stack, PLP and RTI clear B and set the unused flag.
LEMMA PlpType ==
  ASSUME NEW b \in ProgramState, NEW a \in u16
  PROVE  plp_fn(b, a) \in ProgramState
<1> DEFINE popped == pop_stack(b)
           status == (Bits(popped.value) \ {BreakCommand}) \cup {UnusedFlag}
<1>1. popped.bus \in ProgramState
  BY PopType
<1>2. status \subseteq Weights
  BY FlagValues DEF Bits
<1>3. UnusedFlag \in status /\ BreakCommand \notin status
  BY FlagValues
<1> HIDE DEF popped, status
<1>4. [popped.bus EXCEPT !.status = status] \in ProgramState
  BY <1>1, <1>2, <1>3 DEF ProgramState, BusState
<1> QED
  BY <1>4 DEF plp_fn, popped, status

LEMMA JumpType ==
  ASSUME NEW b \in ProgramState, NEW a \in u16
  PROVE  /\ jmp_fn(b, a) \in ProgramState /\ jsr_fn(b, a) \in ProgramState
         /\ rts_fn(b, a) \in ProgramState /\ rti_fn(b, a) \in ProgramState
<1>1. jmp_fn(b, a) \in ProgramState
  BY CounterUpdates DEF jmp_fn
<1>2. jsr_fn(b, a) \in ProgramState
  <2>1. push_stack_u16(b, ToU16(b.program_counter - 1)) \in ProgramState
    BY ProgramFields, Wraps, PushWordType
  <2> QED
    BY <2>1, CounterUpdates DEF jsr_fn
<1>3. rts_fn(b, a) \in ProgramState
  BY PopWordType, Wraps, CounterUpdates DEF rts_fn
<1>4. rti_fn(b, a) \in ProgramState
  BY PlpType, PopWordType, CounterUpdates DEF rti_fn
<1> QED
  BY <1>1, <1>2, <1>3, <1>4

LEMMA FlagFnsType ==
  ASSUME NEW b \in ProgramState, NEW a \in u16
  PROVE  /\ clc_fn(b, a) \in ProgramState /\ cld_fn(b, a) \in ProgramState
         /\ cli_fn(b, a) \in ProgramState /\ clv_fn(b, a) \in ProgramState
         /\ sec_fn(b, a) \in ProgramState /\ sed_fn(b, a) \in ProgramState
         /\ sei_fn(b, a) \in ProgramState
  BY FlagValues, FlagUpdates
     DEF clc_fn, cld_fn, cli_fn, clv_fn, sec_fn, sed_fn, sei_fn

\* BRK leaves the program states by setting B.
LEMMA BrkType ==
  ASSUME NEW b \in ProgramState, NEW a \in u16
  PROVE  brk_fn(b, a) \in BusState /\ UnusedFlag \in brk_fn(b, a).status
<1> DEFINE returning == push_stack_u16(b, ToU16(b.program_counter + 1))
           flagged   == set_flag(returning, BreakCommand, TRUE)
           status    == Byte(flagged.status)
           written   == write_mem(flagged, STACK_START + flagged.stack_pointer, status)
           pushed    == push_stack(flagged, status)
<1>1. returning \in ProgramState
  BY ProgramFields, Wraps, PushWordType
<1>2. flagged \in BusState /\ UnusedFlag \in flagged.status
  BY <1>1, FlagValues DEF ProgramState, BusState, set_flag
<1>3. status \in u8
  BY ByteType
<1> HIDE DEF flagged, status
<1>4. written \in BusState /\ written.status = flagged.status
  <2>1. STACK_START + flagged.stack_pointer \in u16
    BY <1>2, FieldTypes, StackAddress
  <2>2. written \in BusState
    BY <1>2, <1>3, <2>1, WriteType
  <2> QED
    BY <1>2, <2>2 DEF BusState, write_mem
<1>5. pushed \in BusState /\ pushed.status = flagged.status
  <2>1. ToU8(written.stack_pointer - 1) \in u8
    BY <1>4, FieldTypes, Wraps
  <2> QED
    BY <1>4, <2>1 DEF push_stack, BusState
<1>6. read_mem_u16(pushed, IRQ_VECTOR) \in u16
  BY <1>5, ReadWordType, U16 DEF IRQ_VECTOR
<1> HIDE DEF pushed
<1>7. [pushed EXCEPT !.program_counter = read_mem_u16(pushed, IRQ_VECTOR)] \in BusState
      /\ [pushed EXCEPT !.program_counter = read_mem_u16(pushed, IRQ_VECTOR)].status
           = pushed.status
  BY <1>5, <1>6 DEF BusState
<1> QED
  BY <1>2, <1>5, <1>7 DEF brk_fn, pushed, status, flagged

LEMMA ResetType ==
  ASSUME NEW b \in BusState
  PROVE  cpu_reset(b) \in ProgramState
<1> DEFINE vector == read_mem_u16(b, RESET_VECTOR)
           status == {UnusedFlag, InterruptDisable}
           sp     == \hFD
           zero   == 0
           reset  == [b EXCEPT !.accumulator = zero, !.x = zero, !.y = zero,
                               !.status = status, !.stack_pointer = sp,
                               !.program_counter = vector]
<1>1. vector \in u16
  BY ReadWordType, U16 DEF RESET_VECTOR
<1>2. zero \in u8 /\ sp \in u8
  BY U8
<1>3. status \subseteq Weights /\ UnusedFlag \in status /\ BreakCommand \notin status
  BY FlagValues DEF ProgramFlags
<1> HIDE DEF vector, status, sp, zero
<1>4. reset \in BusState /\ reset.status = status
  BY <1>1, <1>2, <1>3 DEF BusState
<1>5. reset \in ProgramState
  BY <1>3, <1>4 DEF ProgramState
<1> HIDE DEF reset
<1>6. tick(reset, 7) \in ProgramState
  BY <1>5, CounterUpdates
<1> QED
  BY <1>6 DEF cpu_reset, reset, vector, status, sp, zero

-----------------------------------------------------------------------------
(* Decoding and operand addresses.                                         *)

LEMMA RowType ==
  ASSUME NEW v \in u8
  PROVE  /\ opcodes[v].bytes \in 1 .. 3 /\ opcodes[v].cycles \in Nat
         /\ opcodes[v].fn \in Fns
  BY OpcodesAssumption DEF OpCode

\* The operand that run_cpu decodes has the types of the union in OpCode.
LEMMA DecodeType ==
  ASSUME NEW b \in BusState, NEW pc \in u16
  PROVE  /\ get_next_opcode(b, pc).byte \in u8
         /\ get_next_opcode(b, pc).word \in u16
         /\ get_next_opcode(b, pc).cycles \in Nat
         /\ get_next_opcode(b, pc).fn \in Fns
<1> DEFINE row == opcodes[read_mem(b, pc)]
           lo  == IF row.bytes >= 2 THEN read_mem(b, ToU16(pc + 1)) ELSE 0
           hi  == IF row.bytes  = 3 THEN read_mem(b, ToU16(pc + 2)) ELSE 0
<1>1. row.cycles \in Nat /\ row.fn \in Fns
  BY ReadType, RowType
<1>2. ToU16(pc + 1) \in u16 /\ ToU16(pc + 2) \in u16 /\ 0 \in u8
  BY U8, U16 DEF ToU16
<1>3. lo \in u8 /\ hi \in u8
  BY <1>2, ReadType
<1>4. Word(hi, lo) \in u16
  BY <1>3, Widths
<1> HIDE DEF lo, hi
<1>5. get_next_opcode(b, pc) =
        [fn |-> row.fn, bytes |-> row.bytes, cycles |-> row.cycles,
         addressing_mode |-> row.addressing_mode, byte |-> lo, word |-> Word(hi, lo)]
  BY DEF get_next_opcode, lo, hi
<1> QED
  BY <1>1, <1>3, <1>4, <1>5

LEMMA ZeroPageWordType ==
  ASSUME NEW b \in BusState, NEW p \in u8
  PROVE  ZeroPageWord(b, p) \in u16
<1>1. LowByte(p + 1) \in u8 /\ p \in u8
  BY Widths, U8
<1>2. LowByte(p + 1) \in u16 /\ p \in u16
  BY <1>1, U8, U16
<1> QED
  BY <1>2, ReadType, Widths DEF ZeroPageWord

LEMMA IndirectTargetType ==
  ASSUME NEW b \in BusState, NEW w \in u16
  PROVE  IndirectTarget(b, w) \in u16
<1> DEFINE next == IF LowByte(w) = 255 THEN w - 255 ELSE ToU16(w + 1)
<1>1. next \in u16
  BY U16 DEF LowByte, ToU16
<1>2. read_mem(b, next) \in u8 /\ read_mem(b, w) \in u8
  BY <1>1, ReadType
<1> QED
  BY <1>2, Widths DEF IndirectTarget

\* Every operand address is 16 bits wide: none of the indexed modes leaves
\* the address space.
LEMMA AddressType ==
  ASSUME NEW b \in BusState, NEW o, o.byte \in u8, o.word \in u16
  PROVE  OperandAddress(b, o) \in u16
<1>1. b.x \in Int /\ b.y \in Int /\ o.byte \in Int /\ o.word \in Int
  BY FieldTypes, U8, U16
<1>2. /\ o.byte \in u16 /\ 0 \in u16 /\ b.program_counter \in u16
      /\ SignExtend(o.byte) \in u16
  BY FieldTypes, U8, U16 DEF SignExtend, Bit7
<1>3. o.byte + b.x \in Int /\ o.byte + b.y \in Int /\ o.word + b.x \in Int
  BY <1>1
<1>4. LowByte(o.byte + b.x) \in u8 /\ LowByte(o.byte + b.y) \in u8
  BY <1>3, Widths
<1>5. LowByte(o.byte + b.x) \in u16 /\ LowByte(o.byte + b.y) \in u16
  BY <1>4, U8, U16
<1>6. ToU16(o.word + b.x) \in u16
  BY <1>3, Widths
<1>7. ToU16(BaseAddress(b, o) + b.y) \in u16
  <2>1. BaseAddress(b, o) \in u16
    BY ZeroPageWordType DEF BaseAddress
  <2>2. BaseAddress(b, o) + b.y \in Int
    BY <1>1, <2>1, U16
  <2> QED
    BY <2>2, Widths
<1>8. IndirectTarget(b, o.word) \in u16
  BY IndirectTargetType
<1>9. ZeroPageWord(b, LowByte(o.byte + b.x)) \in u16
  BY <1>4, ZeroPageWordType
<1> QED
  BY <1>2, <1>5, <1>6, <1>7, <1>8, <1>9, Zenon DEF OperandAddress

\* What run_cpu hands to the instruction function.
LEMMA OperandType ==
  ASSUME bus \in ProgramState
  PROVE  /\ Operand.bus \in ProgramState
         /\ Operand.address \in u16
         /\ Operand.additional \in Nat
         /\ Fetched.cycles \in Nat
         /\ Fetched.fn \in Fns
<1> DEFINE moved == [bus EXCEPT !.program_counter = ToU16(bus.program_counter + 1)]
           next  == ToU16(moved.program_counter
                            + OperandBytes(Fetched.addressing_mode))
<1>1. bus.program_counter \in u16 /\ bus \in BusState
  BY ProgramFields DEF ProgramState
<1>2. /\ Fetched.byte \in u8 /\ Fetched.word \in u16 /\ Fetched.cycles \in Nat
      /\ Fetched.fn \in Fns
  BY <1>1, DecodeType DEF Fetched
<1>3. moved \in ProgramState
  BY <1>1, Wraps, CounterUpdates
<1> HIDE DEF moved
<1>4. OperandAddress(moved, Fetched) \in u16
  BY <1>2, <1>3, AddressType DEF ProgramState
<1>5. next \in u16
  <2>1. OperandBytes(Fetched.addressing_mode) \in Int
    BY DEF OperandBytes
  <2>2. moved.program_counter \in Int
    BY <1>3, ProgramFields, U16
  <2>3. moved.program_counter + OperandBytes(Fetched.addressing_mode) \in Int
    BY <2>1, <2>2
  <2> QED
    BY <2>3, Widths
<1>6. [moved EXCEPT !.program_counter = next] \in ProgramState
  BY <1>3, <1>5, CounterUpdates
<1>7. Operand = [address |-> OperandAddress(moved, Fetched),
                 additional |-> IF PageCrossed(moved, Fetched) THEN 1 ELSE 0,
                 bus |-> [moved EXCEPT !.program_counter = next]]
  BY DEF Operand, OperandOf, get_operand_address, moved
<1> QED
  BY <1>2, <1>4, <1>6, <1>7

-----------------------------------------------------------------------------
(* The invariant.                                                          *)

IInv == TypeOK /\ StatusDiscipline

\* The program goes on after an instruction.
Continues == bus' \in ProgramState /\ phase' = "running"

LEMMA RunningType ==
  ASSUME IInv, phase \in {"reset", "running"}
  PROVE  bus \in ProgramState
  BY DEF IInv, TypeOK, StatusDiscipline, ProgramState

\* One iteration of the loop of run_cpu, around any instruction function.
LEMMA IterationType ==
  ASSUME bus \in ProgramState, NEW fn \in Fns \ {"brk"}, NEW after \in ProgramState,
         Dispatches(fn), Retires(Fetched, Operand, after)
  PROVE  Continues
<1>1. Cycles(Fetched, Operand) \in Nat
  BY OperandType DEF Cycles
<1>2. Instruction(fn) # "brk"
  BY DEF Instruction, Fns
<1> QED
  BY <1>1, <1>2, CounterUpdates DEF Continues, Dispatches, Retires

LEMMA LoadsStep == ASSUME bus \in ProgramState, Load PROVE Continues
<1>1. LoadFns \subseteq Fns \ {"brk"}
  BY DEF Fns, LoadFns
<1> QED
  BY <1>1, OperandType, LoadType, IterationType
     DEF Load, Execute, Operand, LoadFns

LEMMA StoreStep == ASSUME bus \in ProgramState, Store PROVE Continues
<1>1. StoreFns \subseteq Fns \ {"brk"}
  BY DEF Fns, StoreFns
<1> QED
  BY <1>1, OperandType, StoreType, IterationType
     DEF Store, Execute, Operand, StoreFns

LEMMA TransferStep == ASSUME bus \in ProgramState, Transfer PROVE Continues
<1>1. TransferFns \subseteq Fns \ {"brk"}
  BY DEF Fns, TransferFns
<1> QED
  BY <1>1, OperandType, TransferType, IterationType
     DEF Transfer, Execute, Operand, TransferFns

LEMMA AluStep == ASSUME bus \in ProgramState, Alu PROVE Continues
<1>1. AluFns \subseteq Fns \ {"brk"}
  BY DEF Fns, AluFns
<1> QED
  BY <1>1, OperandType, LogicType, AluType, IterationType
     DEF Alu, Execute, Operand, AluFns

LEMMA IncDecStep == ASSUME bus \in ProgramState, IncDec PROVE Continues
<1>1. IncDecFns \subseteq Fns \ {"brk"}
  BY DEF Fns, IncDecFns
<1> QED
  BY <1>1, OperandType, IncDecType, IterationType
     DEF IncDec, Execute, Operand, IncDecFns

LEMMA ShiftStep == ASSUME bus \in ProgramState, Shift PROVE Continues
<1>1. AccShiftFns \subseteq Fns \ {"brk"}
  BY DEF Fns, AccShiftFns
<1> QED
  BY <1>1, OperandType, AccShiftType, IterationType
     DEF Shift, Execute, Operand, AccShiftFns

LEMMA ReadModifyWriteStep == ASSUME bus \in ProgramState, ReadModifyWrite PROVE Continues
<1>1. RmwFns \subseteq Fns \ {"brk"}
  BY DEF Fns, RmwFns
<1> QED
  BY <1>1, OperandType, MemoryShiftType, CountType, ComposedType, IterationType
     DEF ReadModifyWrite, Execute, Operand, RmwFns

LEMMA BranchStep == ASSUME bus \in ProgramState, Branch PROVE Continues
<1>1. BranchFns \subseteq Fns \ {"brk"}
  BY DEF Fns, BranchFns
<1> QED
  BY <1>1, OperandType, BranchesType, IterationType
     DEF Branch, Execute, Operand, BranchFns

LEMMA StackStep == ASSUME bus \in ProgramState, Stack PROVE Continues
<1>1. StackFns \subseteq Fns \ {"brk"}
  BY DEF Fns, StackFns
<1> QED
  BY <1>1, OperandType, StackFnsType, PlpType, IterationType
     DEF Stack, Execute, Operand, StackFns

LEMMA FlagStep == ASSUME bus \in ProgramState, Flag PROVE Continues
<1>1. FlagFns \subseteq Fns \ {"brk"}
  BY DEF Fns, FlagFns
<1> QED
  BY <1>1, OperandType, FlagFnsType, IterationType
     DEF Flag, Execute, Operand, FlagFns

LEMMA JumpStep ==
  ASSUME bus \in ProgramState, Jump, Fetched.fn # "brk"
  PROVE  Continues
<1>1. {"jmp", "jsr", "rts", "rti"} \subseteq Fns \ {"brk"}
  BY DEF Fns, JumpFns
<1> QED
  BY <1>1, OperandType, JumpType, IterationType DEF Jump, Execute, Operand, Dispatches

LEMMA EmptyStep == ASSUME bus \in ProgramState, Empty PROVE Continues
<1>1. EmptyFns \subseteq Fns \ {"brk"}
  BY DEF Fns, EmptyFns
<1> QED
  BY <1>1, OperandType, IterationType DEF Empty, Execute, Operand, nop_fn

\* BRK ends the program: B is set, but nothing runs any more.
LEMMA BrkStep ==
  ASSUME bus \in ProgramState, Jump, Fetched.fn = "brk"
  PROVE  bus' \in BusState /\ UnusedFlag \in bus'.status /\ phase' = "returned"
<1> DEFINE after == brk_fn(Operand.bus, Operand.address)
<1>1. Fetched.fn = "brk" /\ phase = "running" /\ Retires(Fetched, Operand, after)
  BY DEF Jump, Execute, Operand, Dispatches
<1>2. after \in BusState /\ UnusedFlag \in after.status
  BY OperandType, BrkType
<1>3. /\ Instruction("brk") = "brk"
      /\ ~instruction_has_additional_cycle_on_page_crossing(Instruction("brk"))
  BY DEF Instruction, instruction_has_additional_cycle_on_page_crossing
<1>4. bus' = tick(after, Fetched.cycles + 0) /\ phase' = "returned"
  BY <1>1, <1>3 DEF Retires, Cycles
<1>5. Fetched.cycles + 0 \in Nat
  BY OperandType
<1> HIDE DEF after
<1>6. tick(after, Fetched.cycles + 0) \in BusState
      /\ tick(after, Fetched.cycles + 0).status = after.status
  BY <1>2, <1>5 DEF tick, BusState
<1> QED
  BY <1>2, <1>4, <1>6

-----------------------------------------------------------------------------

LEMMA InitIInv == Init => IInv
  BY PowerUpType DEF Init, IInv, TypeOK, StatusDiscipline, Phases

LEMMA ContinuesIInv == Continues => IInv'
  BY DEF Continues, IInv, TypeOK, StatusDiscipline, ProgramState, Phases

LEMMA NextIInv == IInv /\ [Next]_vars => IInv'
<1> SUFFICES ASSUME IInv, [Next]_vars PROVE IInv'
  OBVIOUS
<1>1. CASE BusReset
  <2>1. bus' \in ProgramState /\ phase' = "reset"
    BY <1>1, ResetType DEF BusReset, IInv, TypeOK
  <2> QED
    BY <2>1 DEF IInv, TypeOK, StatusDiscipline, ProgramState, Phases
<1>2. CASE Start
  <2>1. bus \in ProgramState
    BY <1>2, RunningType DEF Start
  <2>2. AUTOMATION_ENTRY \in u16
    BY U16 DEF AUTOMATION_ENTRY
  <2> QED
    BY <1>2, <2>1, <2>2, CounterUpdates, ContinuesIInv DEF Start, Continues
<1>3. CASE Step
  <2>1. phase = "running"
    BY <1>3 DEF Step, Load, Store, Transfer, Alu, IncDec, Shift, ReadModifyWrite,
                Branch, Jump, Stack, Flag, Empty, Execute, Dispatches
  <2>2. bus \in ProgramState
    BY <2>1, RunningType
  <2>3. CASE Jump /\ Fetched.fn = "brk"
    BY <2>2, <2>3, BrkStep DEF IInv, TypeOK, StatusDiscipline, Phases
  <2>4. CASE ~(Jump /\ Fetched.fn = "brk")
    BY <1>3, <2>2, <2>4, ContinuesIInv, LoadsStep, StoreStep, TransferStep, AluStep,
       IncDecStep, ShiftStep, ReadModifyWriteStep, BranchStep, JumpStep, StackStep,
       FlagStep, EmptyStep DEF Step
  <2> QED
    BY <2>3, <2>4
<1>4. CASE Stopped \/ UNCHANGED vars
  BY <1>4 DEF Stopped, vars, IInv, TypeOK, StatusDiscipline
<1> QED
  BY <1>1, <1>2, <1>3, <1>4 DEF Next

\* Every register, every RAM cell and every counter keeps a value of its
\* declared width in every run of every program.
THEOREM TypeCorrectness == Spec => []TypeOK
<1>1. IInv => TypeOK
  BY DEF IInv
<1> QED
  BY InitIInv, NextIInv, <1>1, PTL DEF Spec

\* From the reset on bit 5 of the status is 1, and B is 0 while the program
\* runs, whatever bytes PLP and RTI find on the stack.
THEOREM StatusIsDisciplined == Spec => []StatusDiscipline
<1>1. IInv => StatusDiscipline
  BY DEF IInv
<1> QED
  BY InitIInv, NextIInv, <1>1, PTL DEF Spec


-----------------------------------------------------------------------------
(* What the instruction functions leave alone.                             *)

\* c has the cartridge of b, and its program counter too.
SameCartridge(b, c) == c.cartridge = b.cartridge
Stays(b, c) == SameCartridge(b, c) /\ c.program_counter = b.program_counter

LEMMA UpdatesStay ==
  ASSUME NEW b \in BusState, NEW v
  PROVE  /\ Stays(b, [b EXCEPT !.accumulator = v]) /\ Stays(b, [b EXCEPT !.x = v])
         /\ Stays(b, [b EXCEPT !.y = v]) /\ Stays(b, [b EXCEPT !.status = v])
         /\ Stays(b, [b EXCEPT !.stack_pointer = v])
         /\ Stays(b, [b EXCEPT !.cpu_ram = v]) /\ Stays(b, [b EXCEPT !.cycles = v])
         /\ SameCartridge(b, [b EXCEPT !.program_counter = v])
  BY DEF BusState, Stays, SameCartridge

LEMMA StaysTransitive ==
  ASSUME NEW b, NEW c, NEW d
  PROVE  /\ Stays(b, c) /\ Stays(c, d) => Stays(b, d)
         /\ SameCartridge(b, c) /\ SameCartridge(c, d) => SameCartridge(b, d)
         /\ Stays(b, c) => SameCartridge(b, c)
         /\ Stays(b, b)
  BY DEF Stays, SameCartridge

LEMMA FlagStays ==
  ASSUME NEW b \in ProgramState, NEW flag, NEW v
  PROVE  Stays(b, set_flag(b, flag, v))
  BY UpdatesStay DEF set_flag, ProgramState

LEMMA ZeroNegativeStays ==
  ASSUME NEW b \in ProgramState, NEW v
  PROVE  Stays(b, update_zero_and_negative_flags(b, v))
<1>1. set_flag(b, ZeroFlag, v = 0) \in ProgramState
  BY FlagValues, FlagUpdates
<1> QED
  BY <1>1, FlagStays, StaysTransitive DEF update_zero_and_negative_flags

LEMMA SetRegisterStays ==
  ASSUME NEW b \in ProgramState, NEW v \in u8
  PROVE  Stays(b, SetA(b, v)) /\ Stays(b, SetX(b, v)) /\ Stays(b, SetY(b, v))
  BY RegisterUpdates, UpdatesStay, ZeroNegativeStays, StaysTransitive
     DEF SetA, SetX, SetY, ProgramState

LEMMA WriteStays ==
  ASSUME NEW b \in BusState, NEW a, NEW v
  PROVE  Stays(b, write_mem(b, a, v))
<1>1. CASE a < RAM_MIRROR_END
  <2>1. write_mem(b, a, v) = [b EXCEPT !.cpu_ram = [b.cpu_ram EXCEPT ![RamCell(a)] = v]]
    BY <1>1 DEF write_mem
  <2> QED
    BY <2>1, UpdatesStay
<1>2. CASE ~(a < RAM_MIRROR_END)
  BY <1>2, StaysTransitive DEF write_mem
<1> QED
  BY <1>1, <1>2

LEMMA LoadStays ==
  ASSUME NEW b \in ProgramState, NEW a \in u16
  PROVE  /\ Stays(b, lda_fn(b, a)) /\ Stays(b, ldx_fn(b, a))
         /\ Stays(b, ldy_fn(b, a)) /\ Stays(b, lax_fn(b, a))
<1>1. ASSUME NEW c \in ProgramState PROVE Stays(c, lda_fn(c, a)) /\ Stays(c, ldx_fn(c, a))
  BY ProgramRead, SetRegisterStays DEF lda_fn, ldx_fn
<1>2. Stays(b, ldy_fn(b, a))
  BY ProgramRead, SetRegisterStays DEF ldy_fn
<1>3. Stays(b, lax_fn(b, a))
  BY <1>1, LoadType, StaysTransitive DEF lax_fn
<1> QED
  BY <1>1, <1>2, <1>3

LEMMA StoreStays ==
  ASSUME NEW b \in ProgramState, NEW a \in u16
  PROVE  /\ Stays(b, sta_fn(b, a)) /\ Stays(b, stx_fn(b, a))
         /\ Stays(b, sty_fn(b, a)) /\ Stays(b, sax_fn(b, a))
  BY WriteStays DEF sta_fn, stx_fn, sty_fn, sax_fn, ProgramState

LEMMA TransferStays ==
  ASSUME NEW b \in ProgramState, NEW a \in u16
  PROVE  /\ Stays(b, tax_fn(b, a)) /\ Stays(b, tay_fn(b, a)) /\ Stays(b, tsx_fn(b, a))
         /\ Stays(b, txa_fn(b, a)) /\ Stays(b, txs_fn(b, a)) /\ Stays(b, tya_fn(b, a))
<1>1. Stays(b, txs_fn(b, a))
  BY UpdatesStay DEF txs_fn, ProgramState
<1> QED
  BY <1>1, ProgramFields, SetRegisterStays DEF tax_fn, tay_fn, tsx_fn, txa_fn, tya_fn

LEMMA AddWithCarryStays ==
  ASSUME NEW b \in ProgramState, NEW M \in u8
  PROVE  Stays(b, AddWithCarry(b, M))
<1> DEFINE R == M + b.accumulator + (IF CarryFlag \in b.status THEN 1 ELSE 0)
           carried(v) == set_flag(b, CarryFlag, v)
           added(v) == SetA(carried(v), LowByte(R))
<1>1. LowByte(R) \in u8
  <2>1. R \in Int
    BY ProgramFields, U8
  <2> QED
    BY <2>1, Widths
<1> HIDE DEF R
<1>2. \A v : carried(v) \in ProgramState /\ Stays(b, carried(v))
  BY FlagValues, FlagUpdates, FlagStays
<1> HIDE DEF carried
<1>3. \A v : added(v) \in ProgramState /\ Stays(b, added(v))
  BY <1>1, <1>2, SetRegisterType, SetRegisterStays, StaysTransitive
<1> HIDE DEF added
<1>4. \A v, w : Stays(b, set_flag(added(v), OverflowFlag, w))
  BY <1>3, FlagStays, StaysTransitive
<1> QED
  BY <1>4 DEF AddWithCarry, R, carried, added

LEMMA CompareStays ==
  ASSUME NEW b \in ProgramState, NEW r, NEW m
  PROVE  Stays(b, Compare(b, r, m))
<1>1. set_flag(b, CarryFlag, r >= m) \in ProgramState
  BY FlagValues, FlagUpdates
<1> QED
  BY <1>1, FlagStays, ZeroNegativeStays, StaysTransitive DEF Compare

LEMMA LogicStays ==
  ASSUME NEW b \in ProgramState, NEW a \in u16
  PROVE  /\ Stays(b, and_fn(b, a)) /\ Stays(b, ora_fn(b, a)) /\ Stays(b, eor_fn(b, a))
         /\ Stays(b, bit_fn(b, a))
<1>1. Stays(b, and_fn(b, a)) /\ Stays(b, ora_fn(b, a)) /\ Stays(b, eor_fn(b, a))
  BY ByteType, SetRegisterStays DEF and_fn, ora_fn, eor_fn, BitAnd, BitOr, BitXor
<1>2. Stays(b, bit_fn(b, a))
  <2>1. ASSUME NEW u, NEW v, NEW w
        PROVE  Stays(b, set_flag(set_flag(set_flag(b, ZeroFlag, u), OverflowFlag, v),
                                 NegativeFlag, w))
    <3>1. set_flag(b, ZeroFlag, u) \in ProgramState
      BY FlagValues, FlagUpdates
    <3>2. set_flag(set_flag(b, ZeroFlag, u), OverflowFlag, v) \in ProgramState
      BY <3>1, FlagValues, FlagUpdates
    <3> QED
      BY <3>1, <3>2, FlagStays, StaysTransitive
  <2> QED
    BY <2>1 DEF bit_fn
<1> QED
  BY <1>1, <1>2

LEMMA AluStays ==
  ASSUME NEW b \in ProgramState, NEW a \in u16
  PROVE  /\ Stays(b, adc_fn(b, a)) /\ Stays(b, sbc_fn(b, a)) /\ Stays(b, cmp_fn(b, a))
         /\ Stays(b, cpx_fn(b, a)) /\ Stays(b, cpy_fn(b, a))
<1>1. read_mem(b, a) \in u8 /\ 255 - read_mem(b, a) \in u8
  BY ProgramRead, U8
<1>2. Stays(b, adc_fn(b, a)) /\ Stays(b, sbc_fn(b, a))
  BY <1>1, AddWithCarryStays DEF adc_fn, sbc_fn
<1>3. Stays(b, cmp_fn(b, a)) /\ Stays(b, cpx_fn(b, a)) /\ Stays(b, cpy_fn(b, a))
  BY CompareStays DEF cmp_fn, cpx_fn, cpy_fn
<1> QED
  BY <1>2, <1>3

LEMMA IncDecStays ==
  ASSUME NEW b \in ProgramState, NEW a \in u16
  PROVE  /\ Stays(b, inx_fn(b, a)) /\ Stays(b, iny_fn(b, a))
         /\ Stays(b, dex_fn(b, a)) /\ Stays(b, dey_fn(b, a))
  BY ProgramFields, Wraps, SetRegisterStays DEF inx_fn, iny_fn, dex_fn, dey_fn

LEMMA SetShiftedStays ==
  ASSUME NEW b \in ProgramState, NEW s, s.value \in u8
  PROVE  Stays(b, SetShifted(b, s))
<1>1. set_flag(b, CarryFlag, s.carry) \in ProgramState
  BY FlagValues, FlagUpdates
<1> QED
  BY <1>1, FlagStays, SetRegisterStays, StaysTransitive DEF SetShifted

LEMMA AccShiftStays ==
  ASSUME NEW b \in ProgramState, NEW a \in u16
  PROVE  /\ Stays(b, asl_acc_fn(b, a)) /\ Stays(b, lsr_acc_fn(b, a))
         /\ Stays(b, rol_acc_fn(b, a)) /\ Stays(b, ror_acc_fn(b, a))
  BY ProgramFields, CarryBit, ShiftType, SetShiftedStays
     DEF asl_acc_fn, lsr_acc_fn, rol_acc_fn, ror_acc_fn

LEMMA StoreShiftedStays ==
  ASSUME NEW b \in ProgramState, NEW a \in u16, NEW s, s.value \in u8
  PROVE  Stays(b, StoreShifted(b, a, s))
<1> DEFINE flagged == set_flag(b, CarryFlag, s.carry)
           written == write_mem(flagged, a, s.value)
<1>1. flagged \in ProgramState /\ Stays(b, flagged)
  BY FlagValues, FlagUpdates, FlagStays
<1> HIDE DEF flagged
<1>2. written \in ProgramState /\ Stays(flagged, written)
  BY <1>1, ProgramWrite, WriteStays DEF ProgramState
<1> HIDE DEF written
<1>3. Stays(b, update_zero_and_negative_flags(written, s.value))
  BY <1>1, <1>2, ZeroNegativeStays, StaysTransitive
<1> QED
  BY <1>3 DEF StoreShifted, flagged, written

LEMMA MemoryShiftStays ==
  ASSUME NEW b \in ProgramState, NEW a \in u16
  PROVE  /\ Stays(b, asl_fn(b, a)) /\ Stays(b, lsr_fn(b, a))
         /\ Stays(b, rol_fn(b, a)) /\ Stays(b, ror_fn(b, a))
  BY ProgramRead, CarryBit, ShiftType, StoreShiftedStays
     DEF asl_fn, lsr_fn, rol_fn, ror_fn

LEMMA CountStays ==
  ASSUME NEW b \in ProgramState, NEW a \in u16
  PROVE  Stays(b, inc_fn(b, a)) /\ Stays(b, dec_fn(b, a))
<1>1. ASSUME NEW v \in u8 PROVE Stays(b, StoreCounted(b, a, v))
  <2>1. write_mem(b, a, v) \in ProgramState /\ Stays(b, write_mem(b, a, v))
    BY ProgramWrite, WriteStays DEF ProgramState
  <2> QED
    BY <2>1, ZeroNegativeStays, StaysTransitive DEF StoreCounted
<1>2. ToU8(read_mem(b, a) + 1) \in u8 /\ ToU8(read_mem(b, a) - 1) \in u8
  BY ProgramRead, Wraps
<1> QED
  BY <1>1, <1>2 DEF inc_fn, dec_fn

LEMMA ComposedStays ==
  ASSUME NEW b \in ProgramState, NEW a \in u16
  PROVE  /\ Stays(b, slo_fn(b, a)) /\ Stays(b, rla_fn(b, a)) /\ Stays(b, sre_fn(b, a))
         /\ Stays(b, rra_fn(b, a)) /\ Stays(b, dcp_fn(b, a)) /\ Stays(b, isb_fn(b, a))
<1>1. ASSUME NEW c \in ProgramState, Stays(b, c)
      PROVE  /\ Stays(b, ora_fn(c, a)) /\ Stays(b, and_fn(c, a)) /\ Stays(b, eor_fn(c, a))
             /\ Stays(b, adc_fn(c, a)) /\ Stays(b, cmp_fn(c, a)) /\ Stays(b, sbc_fn(c, a))
  BY <1>1, LogicStays, AluStays, StaysTransitive
<1> QED
  BY <1>1, MemoryShiftType, MemoryShiftStays, CountType, CountStays
     DEF slo_fn, rla_fn, sre_fn, rra_fn, dcp_fn, isb_fn

LEMMA FlagFnsStay ==
  ASSUME NEW b \in ProgramState, NEW a \in u16
  PROVE  /\ Stays(b, clc_fn(b, a)) /\ Stays(b, cld_fn(b, a)) /\ Stays(b, cli_fn(b, a))
         /\ Stays(b, clv_fn(b, a)) /\ Stays(b, sec_fn(b, a)) /\ Stays(b, sed_fn(b, a))
         /\ Stays(b, sei_fn(b, a)) /\ Stays(b, nop_fn(b, a))
  BY FlagStays, StaysTransitive
     DEF clc_fn, cld_fn, cli_fn, clv_fn, sec_fn, sed_fn, sei_fn, nop_fn

\* B may be set: BRK pushes too.
LEMMA PushStays ==
  ASSUME NEW b \in BusState, NEW v \in u8
  PROVE  Stays(b, push_stack(b, v))
<1> DEFINE written == write_mem(b, STACK_START + b.stack_pointer, v)
           sp      == ToU8(written.stack_pointer - 1)
<1>1. written \in BusState /\ Stays(b, written)
  BY FieldTypes, StackAddress, WriteType, WriteStays
<1>2. push_stack(b, v) = [written EXCEPT !.stack_pointer = sp]
  BY DEF push_stack
<1> HIDE DEF written, sp
<1>3. Stays(written, [written EXCEPT !.stack_pointer = sp])
  BY <1>1, UpdatesStay
<1> QED
  BY <1>1, <1>2, <1>3, StaysTransitive

LEMMA PushWordStays ==
  ASSUME NEW b \in ProgramState, NEW w \in u16
  PROVE  Stays(b, push_stack_u16(b, w))
<1>1. HighByte(w) \in u8 /\ LowByte(w) \in u8
  BY Widths, U16
<1>2. push_stack(b, HighByte(w)) \in ProgramState
  BY <1>1, PushType
<1> QED
  BY <1>1, <1>2, PushStays, StaysTransitive DEF push_stack_u16, ProgramState

LEMMA PopStays ==
  ASSUME NEW b \in ProgramState
  PROVE  Stays(b, pop_stack(b).bus) /\ Stays(b, pop_stack_u16(b).bus)
<1>1. ASSUME NEW c \in ProgramState PROVE Stays(c, pop_stack(c).bus)
  BY UpdatesStay DEF pop_stack, ProgramState
<1>2. pop_stack_u16(b).bus = pop_stack(pop_stack(b).bus).bus
  BY DEF pop_stack_u16
<1> QED
  BY <1>1, <1>2, PopType, StaysTransitive

LEMMA StackFnsStay ==
  ASSUME NEW b \in ProgramState, NEW a \in u16
  PROVE  /\ Stays(b, pha_fn(b, a)) /\ Stays(b, php_fn(b, a))
         /\ Stays(b, pla_fn(b, a)) /\ Stays(b, plp_fn(b, a))
<1>1. Stays(b, pha_fn(b, a)) /\ Stays(b, php_fn(b, a))
  BY ProgramFields, ByteType, PushStays DEF pha_fn, php_fn, ProgramState
<1>2. Stays(b, pla_fn(b, a))
  BY PopType, PopStays, SetRegisterStays, StaysTransitive DEF pla_fn
<1>3. Stays(b, plp_fn(b, a))
  <2>1. pop_stack(b).bus \in BusState
    BY PopType DEF ProgramState
  <2> QED
    BY <2>1, PopStays, UpdatesStay, StaysTransitive DEF plp_fn
<1> QED
  BY <1>1, <1>2, <1>3

LEMMA BranchMoves ==
  ASSUME NEW b \in ProgramState, NEW a \in u16, NEW condition
  PROVE  /\ SameCartridge(b, BranchIf(condition, b, a))
         /\ BranchIf(condition, b, a).program_counter
              \in {b.program_counter, ToU16(b.program_counter + a)}
<1> DEFINE target == ToU16(b.program_counter + a)
           moved  == [b EXCEPT !.program_counter = target]
<1>1. target \in u16
  <2>1. b.program_counter + a \in Int
    BY ProgramFields, U16
  <2> QED
    BY <2>1, Widths
<1> HIDE DEF target
<1>2. moved \in BusState /\ moved.program_counter = target /\ SameCartridge(b, moved)
  BY <1>1 DEF ProgramState, BusState, SameCartridge
<1>3. \E n : branch(b, a) = tick(moved, n)
  BY DEF branch, target
<1> HIDE DEF moved
<1>4. \A n : Stays(moved, tick(moved, n))
  BY <1>2, UpdatesStay DEF tick
<1>5. SameCartridge(b, branch(b, a)) /\ branch(b, a).program_counter = target
  BY <1>2, <1>3, <1>4 DEF Stays, SameCartridge
<1>6. SameCartridge(b, b)
  BY DEF SameCartridge
<1> QED
  BY <1>5, <1>6 DEF BranchIf, target

LEMMA BranchesMove ==
  ASSUME NEW b \in ProgramState, NEW a \in u16,
         NEW c \in {bcc_fn(b, a), bcs_fn(b, a), bne_fn(b, a), beq_fn(b, a),
                    bpl_fn(b, a), bmi_fn(b, a), bvc_fn(b, a), bvs_fn(b, a)}
  PROVE  /\ SameCartridge(b, c)
         /\ c.program_counter \in {b.program_counter, ToU16(b.program_counter + a)}
  BY BranchMoves DEF bcc_fn, bcs_fn, bne_fn, beq_fn, bpl_fn, bmi_fn, bvc_fn, bvs_fn

LEMMA JumpsKeepCartridge ==
  ASSUME NEW b \in ProgramState, NEW a \in u16
  PROVE  /\ SameCartridge(b, jmp_fn(b, a)) /\ SameCartridge(b, jsr_fn(b, a))
         /\ SameCartridge(b, rts_fn(b, a)) /\ SameCartridge(b, rti_fn(b, a))
<1>1. ASSUME NEW c \in ProgramState, NEW v, Stays(b, c)
      PROVE  SameCartridge(b, [c EXCEPT !.program_counter = v])
  BY <1>1, UpdatesStay, StaysTransitive DEF ProgramState
<1>2. SameCartridge(b, jmp_fn(b, a))
  BY <1>1, StaysTransitive DEF jmp_fn
<1>3. SameCartridge(b, jsr_fn(b, a))
  <2>1. ToU16(b.program_counter - 1) \in u16
    BY ProgramFields, Wraps
  <2> QED
    BY <1>1, <2>1, PushWordType, PushWordStays DEF jsr_fn
<1>4. SameCartridge(b, rts_fn(b, a))
  BY <1>1, PopWordType, PopStays DEF rts_fn
<1>5. SameCartridge(b, rti_fn(b, a))
  <2>1. plp_fn(b, a) \in ProgramState /\ Stays(b, plp_fn(b, a))
    BY PlpType, StackFnsStay
  <2> QED
    BY <1>1, <2>1, PopWordType, PopStays, StaysTransitive DEF rti_fn
<1> QED
  BY <1>2, <1>3, <1>4, <1>5

LEMMA BrkKeepsCartridge ==
  ASSUME NEW b \in ProgramState, NEW a \in u16
  PROVE  SameCartridge(b, brk_fn(b, a))
<1> DEFINE returning == push_stack_u16(b, ToU16(b.program_counter + 1))
           flagged   == set_flag(returning, BreakCommand, TRUE)
           status    == Byte(flagged.status)
           pushed    == push_stack(flagged, status)
           target    == read_mem_u16(pushed, IRQ_VECTOR)
<1>1. returning \in ProgramState /\ Stays(b, returning)
  BY ProgramFields, Wraps, PushWordType, PushWordStays
<1>2. flagged \in BusState /\ Stays(returning, flagged)
  <2>1. flagged \in BusState
    BY <1>1, FlagValues DEF ProgramState, BusState, set_flag
  <2> QED
    BY <1>1, <2>1, FlagStays
<1>3. status \in u8
  BY ByteType
<1>4. brk_fn(b, a) = [pushed EXCEPT !.program_counter = target]
  BY DEF brk_fn
<1> HIDE DEF returning, flagged, status
<1>5. Stays(flagged, pushed)
  BY <1>2, <1>3, PushStays
<1>6. pushed \in BusState
  <2> DEFINE written == write_mem(flagged, STACK_START + flagged.stack_pointer, status)
             sp      == ToU8(written.stack_pointer - 1)
  <2>1. written \in BusState
    BY <1>2, <1>3, FieldTypes, StackAddress, WriteType
  <2>2. sp \in u8
    BY <2>1, FieldTypes, Wraps
  <2>3. pushed = [written EXCEPT !.stack_pointer = sp]
    BY DEF push_stack
  <2> HIDE DEF written, sp
  <2> QED
    BY <2>1, <2>2, <2>3 DEF BusState
<1> HIDE DEF pushed, target
<1>7. SameCartridge(pushed, [pushed EXCEPT !.program_counter = target])
  BY <1>6, UpdatesStay
<1> QED
  BY <1>1, <1>2, <1>4, <1>5, <1>7, StaysTransitive

LEMMA ResetKeepsCartridge ==
  ASSUME NEW b \in BusState
  PROVE  SameCartridge(b, cpu_reset(b))
  BY DEF BusState, cpu_reset, tick, SameCartridge

-----------------------------------------------------------------------------
(* Control flow.                                                           *)

\* Where the program counter is when the instruction function is called.
LEMMA OperandMoves ==
  ASSUME bus \in ProgramState
  PROVE  /\ SameCartridge(bus, Operand.bus)
         /\ Operand.bus.program_counter
              = ToU16(bus.program_counter + (1 + OperandBytes(Fetched.addressing_mode)))
<1> DEFINE n == OperandBytes(Fetched.addressing_mode)
           pc == ToU16(bus.program_counter + 1)
           moved == [bus EXCEPT !.program_counter = pc]
           next  == ToU16(moved.program_counter + n)
<1>1. bus.program_counter \in u16 /\ pc \in u16 /\ bus \in BusState
  BY ProgramFields, Wraps DEF ProgramState
<1>2. Operand.bus = [moved EXCEPT !.program_counter = next]
  BY DEF Operand, OperandOf, get_operand_address
<1>3. n \in 0 .. 2
  BY DEF OperandBytes
<1> HIDE DEF n
<1>4. ToU16(pc + n) = ToU16(bus.program_counter + (1 + n))
  BY <1>1, <1>3, U16 DEF ToU16
<1> HIDE DEF pc
<1>5. moved \in BusState /\ moved.program_counter = pc /\ SameCartridge(bus, moved)
  BY <1>1 DEF BusState, SameCartridge
<1>6. next = ToU16(pc + n)
  BY <1>5
<1> HIDE DEF moved, next
<1>7. /\ [moved EXCEPT !.program_counter = next].program_counter = next
      /\ SameCartridge(moved, [moved EXCEPT !.program_counter = next])
  BY <1>5 DEF BusState, SameCartridge
<1> QED
  BY <1>2, <1>4, <1>5, <1>6, <1>7, StaysTransitive DEF n

\* The addressing mode has moved the program counter over the instruction.
LEMMA OperandIsNext ==
  ASSUME bus \in ProgramState, RowsAgree, Fetched.fn \notin JumpFns
  PROVE  /\ Operand.bus.program_counter = NextAddress
         /\ Fetched.fn \in BranchFns => Fetched.addressing_mode = "Relative"
<1> DEFINE code == read_mem(bus, bus.program_counter)
<1>1. code \in u8
  BY ProgramFields, ProgramRead
<1>2. /\ Fetched.fn = opcodes[code].fn /\ Fetched.bytes = opcodes[code].bytes
      /\ Fetched.addressing_mode = opcodes[code].addressing_mode
  BY DEF Fetched, get_next_opcode
<1> HIDE DEF code
<1>3. /\ Fetched.bytes = 1 + OperandBytes(Fetched.addressing_mode)
      /\ Fetched.fn \in BranchFns => Fetched.addressing_mode = "Relative"
  BY <1>1, <1>2 DEF RowsAgree
<1> QED
  BY <1>3, OperandMoves DEF NextAddress

LEMMA DisplacementIsSigned ==
  ASSUME NEW w \in u16, NEW byte \in u8
  PROVE  ToU16(w + SignExtend(byte)) = ToU16(w + Signed(byte))
<1>1. CASE byte >= 128
  <2>1. SignExtend(byte) = 65536 + Signed(byte)
    BY <1>1, U8 DEF SignExtend, Bit7, Signed
  <2>2. Signed(byte) \in Int
    BY U8 DEF Signed
  <2> HIDE DEF Signed
  <2> QED
    BY <2>1, <2>2, U16 DEF ToU16
<1>2. CASE byte < 128
  BY <1>2, U8 DEF SignExtend, Bit7, Signed
<1> QED
  BY <1>1, <1>2, U8

\* The cycles change nothing but their counter.
LEMMA RetiresStays ==
  ASSUME NEW after \in BusState, Retires(Fetched, Operand, after)
  PROVE  Stays(after, bus')
<1>1. \A n : Stays(after, tick(after, n))
  BY UpdatesStay DEF tick
<1> QED
  BY <1>1 DEF Retires

\* The step of an instruction that neither branches nor jumps.
Straight == Stays(Operand.bus, bus')

LEMMA StraightStep ==
  ASSUME bus \in ProgramState,
         Load \/ Store \/ Transfer \/ Alu \/ IncDec \/ Shift \/ ReadModifyWrite
           \/ Stack \/ Flag \/ Empty
  PROVE  Straight
<1> USE OperandType
<1>1. ASSUME NEW after \in ProgramState, Retires(Fetched, Operand, after),
             Stays(Operand.bus, after)
      PROVE  Straight
  BY <1>1, RetiresStays, StaysTransitive DEF Straight, ProgramState
<1>2. Load => Straight
  BY <1>1, LoadType, LoadStays DEF Load, Execute, Operand
<1>3. Store => Straight
  BY <1>1, StoreType, StoreStays DEF Store, Execute, Operand
<1>4. Transfer => Straight
  BY <1>1, TransferType, TransferStays DEF Transfer, Execute, Operand
<1>5. Alu => Straight
  BY <1>1, LogicType, AluType, LogicStays, AluStays DEF Alu, Execute, Operand
<1>6. IncDec => Straight
  BY <1>1, IncDecType, IncDecStays DEF IncDec, Execute, Operand
<1>7. Shift => Straight
  BY <1>1, AccShiftType, AccShiftStays DEF Shift, Execute, Operand
<1>8. ReadModifyWrite => Straight
  BY <1>1, MemoryShiftType, CountType, ComposedType, MemoryShiftStays, CountStays,
     ComposedStays DEF ReadModifyWrite, Execute, Operand
<1>9. Stack => Straight
  BY <1>1, StackFnsType, PlpType, StackFnsStay DEF Stack, Execute, Operand
<1>10. Flag => Straight
  BY <1>1, FlagFnsType, FlagFnsStay DEF Flag, Execute, Operand
<1>11. Empty => Straight
  BY <1>1, FlagFnsStay DEF Empty, Execute, Operand, nop_fn
<1> QED
  BY <1>2, <1>3, <1>4, <1>5, <1>6, <1>7, <1>8, <1>9, <1>10, <1>11

LEMMA BranchStepMoves ==
  ASSUME bus \in ProgramState, Branch
  PROVE  /\ Fetched.fn \in BranchFns
         /\ SameCartridge(bus, bus')
         /\ bus'.program_counter \in
              {Operand.bus.program_counter,
               ToU16(Operand.bus.program_counter + Operand.address)}
<1> DEFINE b == Operand.bus
           a == Operand.address
           targets == {bcc_fn(b, a), bcs_fn(b, a), bne_fn(b, a), beq_fn(b, a),
                       bpl_fn(b, a), bmi_fn(b, a), bvc_fn(b, a), bvs_fn(b, a)}
<1>1. Fetched.fn \in BranchFns
  BY DEF Branch, Execute, Dispatches, BranchFns
<1>2. PICK after \in targets : Retires(Fetched, Operand, after)
  BY DEF Branch, Execute, Operand
<1>3. b \in ProgramState /\ a \in u16
  BY OperandType
<1>4. after \in ProgramState
  BY <1>2, <1>3, BranchesType
<1>5. /\ SameCartridge(b, after)
      /\ after.program_counter \in {b.program_counter, ToU16(b.program_counter + a)}
  BY <1>2, <1>3, BranchesMove
<1>6. Stays(after, bus')
  BY <1>2, <1>4, RetiresStays DEF ProgramState
<1> HIDE DEF targets, b, a
<1> QED
  BY <1>1, <1>5, <1>6, OperandMoves DEF Stays, SameCartridge, b, a

\* No instruction touches the pointer to the cartridge.
LEMMA StepKeepsCartridge ==
  ASSUME bus \in ProgramState, Step
  PROVE  SameCartridge(bus, bus')
<1>1. CASE Jump
  <2>1. ASSUME NEW after \in BusState, SameCartridge(Operand.bus, after),
               Retires(Fetched, Operand, after)
        PROVE  SameCartridge(bus, bus')
    BY <2>1, OperandMoves, RetiresStays, StaysTransitive
  <2>2. Operand.bus \in ProgramState /\ Operand.address \in u16
    BY OperandType
  <2>3. ASSUME Execute("brk", brk_fn) PROVE SameCartridge(bus, bus')
    BY <2>1, <2>2, <2>3, BrkType, BrkKeepsCartridge DEF Execute, Operand
  <2>4. ASSUME ~Execute("brk", brk_fn) PROVE SameCartridge(bus, bus')
    BY <1>1, <2>1, <2>2, <2>4, JumpType, JumpsKeepCartridge
       DEF Jump, Execute, Operand, ProgramState
  <2> QED
    BY <2>3, <2>4
<1>2. CASE Branch
  BY <1>2, BranchStepMoves
<1>3. CASE ~Jump /\ ~Branch
  <2>1. Straight
    BY <1>3, StraightStep DEF Step
  <2> QED
    BY <2>1, OperandMoves, StaysTransitive DEF Straight
<1> QED
  BY <1>1, <1>2, <1>3

LEMMA StepFlows ==
  ASSUME bus \in ProgramState, Step, RowsAgree
  PROVE  Flow
<1>1. CASE Jump
  <2>1. Fetched.fn \in JumpFns
    BY <1>1 DEF Jump, Execute, Dispatches, JumpFns
  <2> QED
    BY <2>1 DEF Flow
<1>2. CASE Fetched.fn \in JumpFns
  BY <1>2 DEF Flow
<1>3. CASE Branch /\ Fetched.fn \notin JumpFns
  <2>1. Operand.bus.program_counter = NextAddress /\ Fetched.addressing_mode = "Relative"
    BY <1>3, OperandIsNext, BranchStepMoves
  <2>2. Operand.address = SignExtend(Fetched.byte)
    BY <2>1 DEF Operand, OperandOf, get_operand_address, OperandAddress
  <2>3. Fetched.byte \in u8
    BY ProgramFields, DecodeType DEF Fetched, ProgramState
  <2>4. NextAddress \in u16
    BY <2>1, OperandType, ProgramFields
  <2>5. ToU16(NextAddress + SignExtend(Fetched.byte))
          = ToU16(NextAddress + Signed(Fetched.byte))
    BY <2>3, <2>4, DisplacementIsSigned
  <2>6. Fetched.fn \in BranchFns
    BY <1>3, BranchStepMoves
  <2>7. bus'.program_counter \in {NextAddress, ToU16(NextAddress + Operand.address)}
    BY <1>3, <2>1, BranchStepMoves
  <2> HIDE DEF NextAddress
  <2> QED
    BY <2>2, <2>5, <2>6, <2>7 DEF Flow
<1>4. CASE ~Jump /\ ~Branch /\ Fetched.fn \notin JumpFns
  <2>1. Straight
    BY <1>4, StraightStep DEF Step
  <2> QED
    BY <1>4, <2>1, OperandIsNext DEF Straight, Stays, Flow
<1> QED
  BY <1>1, <1>2, <1>3, <1>4

LEMMA RunningStep ==
  ASSUME IInv, [Next]_vars, Running
  PROVE  bus \in ProgramState /\ (Step \/ UNCHANGED vars)
  BY RunningType DEF Next, BusReset, Start, Stopped, Running

\* In every program of every table whose rows agree with themselves, execution
\* never goes on inside an instruction: the program counter moves over the
\* bytes of the row or, after a branch, by the signed displacement from there.
THEOREM ControlFollowsRows ==
  ASSUME RowsAgree
  PROVE  Spec => ControlFlow
<1>1. IInv /\ [Next]_vars => [Running => Flow]_vars
  BY RunningStep, StepFlows
<1> QED
  BY InitIInv, NextIInv, <1>1, PTL DEF Spec, ControlFlow

-----------------------------------------------------------------------------
(* The stack and the rest of RAM.                                          *)

\* c has the stack of b.
Kept(b, c) == c.cpu_ram = b.cpu_ram /\ c.stack_pointer = b.stack_pointer

\* c has the stack of b, but for the RAM cell that a write to a reaches.
KeptBut(a, b, c) ==
  /\ c.stack_pointer = b.stack_pointer
  /\ \A cell \in 0 .. RAM_SIZE - 1 :
       ~(a < RAM_MIRROR_END /\ cell = RamCell(a)) => c.cpu_ram[cell] = b.cpu_ram[cell]

LEMMA StackCells ==
  ASSUME NEW s \in u8
  PROVE  /\ STACK_START + s \in 0 .. RAM_SIZE - 1
         /\ RamCell(STACK_START + s) = STACK_START + s
         /\ STACK_START + s < RAM_MIRROR_END
         /\ ~CartMaps(STACK_START + s)
  BY U8 DEF STACK_START, RAM_SIZE, RamCell, RAM_MIRROR_END, CartMaps, PRG_ROM_START

LEMMA PushShape ==
  ASSUME NEW b \in BusState, NEW v \in u8
  PROVE  /\ push_stack(b, v) \in BusState
         /\ push_stack(b, v).status = b.status
         /\ push_stack(b, v).cpu_ram
              = [b.cpu_ram EXCEPT ![STACK_START + b.stack_pointer] = v]
         /\ push_stack(b, v).stack_pointer = ToU8(b.stack_pointer - 1)
<1> DEFINE cell    == STACK_START + b.stack_pointer
           ram     == [b.cpu_ram EXCEPT ![cell] = v]
           written == [b EXCEPT !.cpu_ram = ram]
           sp      == ToU8(b.stack_pointer - 1)
<1>1. b.stack_pointer \in u8 /\ sp \in u8
  BY FieldTypes, Wraps
<1>2. cell \in 0 .. RAM_SIZE - 1 /\ RamCell(cell) = cell /\ cell < RAM_MIRROR_END
  BY <1>1, StackCells
<1>3. ram \in [0 .. RAM_SIZE - 1 -> u8]
  BY <1>2 DEF BusState
<1>4. write_mem(b, cell, v) = written
  BY <1>2 DEF write_mem
<1> HIDE DEF ram, sp, cell
<1>5. written \in BusState /\ written.stack_pointer = b.stack_pointer
      /\ written.cpu_ram = ram /\ written.status = b.status
  BY <1>3 DEF BusState
<1>6. push_stack(b, v) = [written EXCEPT !.stack_pointer = sp]
  BY <1>4, <1>5 DEF push_stack, sp, cell
<1> HIDE DEF written
<1>7. /\ [written EXCEPT !.stack_pointer = sp] \in BusState
      /\ [written EXCEPT !.stack_pointer = sp].stack_pointer = sp
      /\ [written EXCEPT !.stack_pointer = sp].status = written.status
      /\ [written EXCEPT !.stack_pointer = sp].cpu_ram = written.cpu_ram
  BY <1>1, <1>5 DEF BusState
<1> QED
  BY <1>5, <1>6, <1>7 DEF ram, sp, cell

-----------------------------------------------------------------------------
(* What the other instruction functions do to the stack.                   *)

LEMMA UpdatesKeep ==
  ASSUME NEW b \in BusState, NEW v
  PROVE  /\ Kept(b, [b EXCEPT !.accumulator = v]) /\ Kept(b, [b EXCEPT !.x = v])
         /\ Kept(b, [b EXCEPT !.y = v]) /\ Kept(b, [b EXCEPT !.status = v])
         /\ Kept(b, [b EXCEPT !.program_counter = v])
         /\ Kept(b, [b EXCEPT !.cycles = v])
  BY DEF BusState, Kept

LEMMA KeptTransitive ==
  ASSUME NEW b, NEW c, NEW d, Kept(b, c), Kept(c, d)
  PROVE  Kept(b, d)
  BY DEF Kept

LEMMA FlagsKeep ==
  ASSUME NEW b \in ProgramState, NEW flag, NEW v
  PROVE  /\ Kept(b, set_flag(b, flag, v))
         /\ Kept(b, update_zero_and_negative_flags(b, v))
<1>1. ASSUME NEW c \in ProgramState, NEW f, NEW w PROVE Kept(c, set_flag(c, f, w))
  BY UpdatesKeep DEF set_flag, ProgramState
<1>2. set_flag(b, ZeroFlag, v = 0) \in ProgramState
  BY FlagValues, FlagUpdates
<1>3. Kept(b, update_zero_and_negative_flags(b, v))
  BY <1>1, <1>2, KeptTransitive DEF update_zero_and_negative_flags
<1> QED
  BY <1>1, <1>3

LEMMA SetRegisterKeeps ==
  ASSUME NEW b \in ProgramState, NEW v \in u8
  PROVE  Kept(b, SetA(b, v)) /\ Kept(b, SetX(b, v)) /\ Kept(b, SetY(b, v))
  BY RegisterUpdates, UpdatesKeep, FlagsKeep, KeptTransitive
     DEF SetA, SetX, SetY, ProgramState

LEMMA LoadKeeps ==
  ASSUME NEW b \in ProgramState, NEW a \in u16
  PROVE  /\ Kept(b, lda_fn(b, a)) /\ Kept(b, ldx_fn(b, a))
         /\ Kept(b, ldy_fn(b, a)) /\ Kept(b, lax_fn(b, a))
<1>1. ASSUME NEW c \in ProgramState PROVE Kept(c, lda_fn(c, a)) /\ Kept(c, ldx_fn(c, a))
  BY ProgramRead, SetRegisterKeeps DEF lda_fn, ldx_fn
<1>2. Kept(b, ldy_fn(b, a))
  BY ProgramRead, SetRegisterKeeps DEF ldy_fn
<1>3. Kept(b, lax_fn(b, a))
  BY <1>1, LoadType, KeptTransitive DEF lax_fn
<1> QED
  BY <1>1, <1>2, <1>3

LEMMA TransferKeeps ==
  ASSUME NEW b \in ProgramState, NEW a \in u16
  PROVE  /\ Kept(b, tax_fn(b, a)) /\ Kept(b, tay_fn(b, a)) /\ Kept(b, tsx_fn(b, a))
         /\ Kept(b, txa_fn(b, a)) /\ Kept(b, tya_fn(b, a))
  BY ProgramFields, SetRegisterKeeps DEF tax_fn, tay_fn, tsx_fn, txa_fn, tya_fn

LEMMA AddWithCarryKeeps ==
  ASSUME NEW b \in ProgramState, NEW M \in u8
  PROVE  Kept(b, AddWithCarry(b, M))
<1> DEFINE R == M + b.accumulator + (IF CarryFlag \in b.status THEN 1 ELSE 0)
           carried(v) == set_flag(b, CarryFlag, v)
           added(v) == SetA(carried(v), LowByte(R))
<1>1. LowByte(R) \in u8
  <2>1. R \in Int
    BY ProgramFields, U8
  <2> QED
    BY <2>1, Widths
<1> HIDE DEF R
<1>2. \A v : carried(v) \in ProgramState /\ Kept(b, carried(v))
  BY FlagValues, FlagUpdates, FlagsKeep
<1> HIDE DEF carried
<1>3. \A v : added(v) \in ProgramState /\ Kept(b, added(v))
  BY <1>1, <1>2, SetRegisterType, SetRegisterKeeps, KeptTransitive
<1> HIDE DEF added
<1>4. \A v, w : Kept(b, set_flag(added(v), OverflowFlag, w))
  BY <1>3, FlagsKeep, KeptTransitive
<1> QED
  BY <1>4 DEF AddWithCarry, R, carried, added

LEMMA CompareKeeps ==
  ASSUME NEW b \in ProgramState, NEW r, NEW m
  PROVE  Kept(b, Compare(b, r, m))
<1>1. set_flag(b, CarryFlag, r >= m) \in ProgramState
  BY FlagValues, FlagUpdates
<1> QED
  BY <1>1, FlagsKeep, KeptTransitive DEF Compare

LEMMA LogicKeeps ==
  ASSUME NEW b \in ProgramState, NEW a \in u16
  PROVE  /\ Kept(b, and_fn(b, a)) /\ Kept(b, ora_fn(b, a)) /\ Kept(b, eor_fn(b, a))
         /\ Kept(b, bit_fn(b, a))
<1>1. Kept(b, and_fn(b, a)) /\ Kept(b, ora_fn(b, a)) /\ Kept(b, eor_fn(b, a))
  BY ByteType, SetRegisterKeeps DEF and_fn, ora_fn, eor_fn, BitAnd, BitOr, BitXor
<1>2. Kept(b, bit_fn(b, a))
  <2>1. ASSUME NEW u, NEW v, NEW w
        PROVE  Kept(b, set_flag(set_flag(set_flag(b, ZeroFlag, u), OverflowFlag, v),
                                NegativeFlag, w))
    <3>1. set_flag(b, ZeroFlag, u) \in ProgramState
      BY FlagValues, FlagUpdates
    <3>2. set_flag(set_flag(b, ZeroFlag, u), OverflowFlag, v) \in ProgramState
      BY <3>1, FlagValues, FlagUpdates
    <3> QED
      BY <3>1, <3>2, FlagsKeep, KeptTransitive
  <2> QED
    BY <2>1 DEF bit_fn
<1> QED
  BY <1>1, <1>2

LEMMA AluKeeps ==
  ASSUME NEW b \in ProgramState, NEW a \in u16
  PROVE  /\ Kept(b, adc_fn(b, a)) /\ Kept(b, sbc_fn(b, a)) /\ Kept(b, cmp_fn(b, a))
         /\ Kept(b, cpx_fn(b, a)) /\ Kept(b, cpy_fn(b, a))
<1>1. read_mem(b, a) \in u8 /\ 255 - read_mem(b, a) \in u8
  BY ProgramRead, U8
<1>2. Kept(b, adc_fn(b, a)) /\ Kept(b, sbc_fn(b, a))
  BY <1>1, AddWithCarryKeeps DEF adc_fn, sbc_fn
<1>3. Kept(b, cmp_fn(b, a)) /\ Kept(b, cpx_fn(b, a)) /\ Kept(b, cpy_fn(b, a))
  BY CompareKeeps DEF cmp_fn, cpx_fn, cpy_fn
<1> QED
  BY <1>2, <1>3

LEMMA IncDecKeeps ==
  ASSUME NEW b \in ProgramState, NEW a \in u16
  PROVE  /\ Kept(b, inx_fn(b, a)) /\ Kept(b, iny_fn(b, a))
         /\ Kept(b, dex_fn(b, a)) /\ Kept(b, dey_fn(b, a))
  BY ProgramFields, Wraps, SetRegisterKeeps DEF inx_fn, iny_fn, dex_fn, dey_fn

LEMMA SetShiftedKeeps ==
  ASSUME NEW b \in ProgramState, NEW s, s.value \in u8
  PROVE  Kept(b, SetShifted(b, s))
<1>1. set_flag(b, CarryFlag, s.carry) \in ProgramState
  BY FlagValues, FlagUpdates
<1> QED
  BY <1>1, FlagsKeep, SetRegisterKeeps, KeptTransitive DEF SetShifted

LEMMA AccShiftKeeps ==
  ASSUME NEW b \in ProgramState, NEW a \in u16
  PROVE  /\ Kept(b, asl_acc_fn(b, a)) /\ Kept(b, lsr_acc_fn(b, a))
         /\ Kept(b, rol_acc_fn(b, a)) /\ Kept(b, ror_acc_fn(b, a))
  BY ProgramFields, CarryBit, ShiftType, SetShiftedKeeps
     DEF asl_acc_fn, lsr_acc_fn, rol_acc_fn, ror_acc_fn

LEMMA BranchKeeps ==
  ASSUME NEW b \in ProgramState, NEW a \in u16, NEW condition
  PROVE  Kept(b, BranchIf(condition, b, a))
<1> DEFINE moved == [b EXCEPT !.program_counter = ToU16(b.program_counter + a)]
<1>1. Kept(b, moved)
  BY UpdatesKeep DEF ProgramState
<1>2. moved \in BusState
  <2>1. b.program_counter + a \in Int
    BY ProgramFields, U16
  <2>2. ToU16(b.program_counter + a) \in u16
    BY <2>1, Widths
  <2> QED
    BY <2>2, CounterUpdates DEF ProgramState
<1> HIDE DEF moved
<1>3. \A n : Kept(moved, tick(moved, n))
  BY <1>2, UpdatesKeep DEF tick
<1>4. Kept(b, branch(b, a))
  BY <1>1, <1>3, KeptTransitive DEF branch, moved
<1>5. Kept(b, b)
  BY DEF Kept
<1> QED
  BY <1>4, <1>5 DEF BranchIf

LEMMA BranchesKeep ==
  ASSUME NEW b \in ProgramState, NEW a \in u16
  PROVE  /\ Kept(b, bcc_fn(b, a)) /\ Kept(b, bcs_fn(b, a)) /\ Kept(b, bne_fn(b, a))
         /\ Kept(b, beq_fn(b, a)) /\ Kept(b, bpl_fn(b, a)) /\ Kept(b, bmi_fn(b, a))
         /\ Kept(b, bvc_fn(b, a)) /\ Kept(b, bvs_fn(b, a))
  BY BranchKeeps DEF bcc_fn, bcs_fn, bne_fn, beq_fn, bpl_fn, bmi_fn, bvc_fn, bvs_fn

LEMMA FlagFnsKeep ==
  ASSUME NEW b \in ProgramState, NEW a \in u16
  PROVE  /\ Kept(b, clc_fn(b, a)) /\ Kept(b, cld_fn(b, a)) /\ Kept(b, cli_fn(b, a))
         /\ Kept(b, clv_fn(b, a)) /\ Kept(b, sec_fn(b, a)) /\ Kept(b, sed_fn(b, a))
         /\ Kept(b, sei_fn(b, a)) /\ Kept(b, jmp_fn(b, a)) /\ Kept(b, nop_fn(b, a))
<1>1. Kept(b, jmp_fn(b, a))
  BY UpdatesKeep DEF jmp_fn, ProgramState
<1>2. Kept(b, nop_fn(b, a))
  BY DEF nop_fn, Kept
<1> QED
  BY <1>1, <1>2, FlagsKeep DEF clc_fn, cld_fn, cli_fn, clv_fn, sec_fn, sed_fn, sei_fn

-----------------------------------------------------------------------------
(* Writes.                                                                 *)

LEMMA WriteKeeps ==
  ASSUME NEW b \in BusState, NEW a \in u16, NEW v \in u8
  PROVE  KeptBut(a, b, write_mem(b, a, v))
<1> DEFINE ram == [b.cpu_ram EXCEPT ![RamCell(a)] = v]
<1>1. \A cell \in 0 .. RAM_SIZE - 1 : cell # RamCell(a) => ram[cell] = b.cpu_ram[cell]
  BY DEF BusState
<1> HIDE DEF ram
<1> DEFINE written == [b EXCEPT !.cpu_ram = ram]
<1>2. written.stack_pointer = b.stack_pointer /\ written.cpu_ram = ram
  BY DEF BusState
<1>3. CASE a < RAM_MIRROR_END
  <2>1. write_mem(b, a, v) = written
    BY <1>3 DEF write_mem, ram
  <2> HIDE DEF written
  <2>2. KeptBut(a, b, written)
    BY <1>1, <1>2, <1>3 DEF KeptBut
  <2> QED
    BY <2>1, <2>2
<1>4. CASE ~(a < RAM_MIRROR_END)
  BY <1>4 DEF write_mem, KeptBut
<1> QED
  BY <1>3, <1>4

\* One write among functions that keep the stack.
LEMMA KeptButTransitive ==
  ASSUME NEW a, NEW b, NEW c, NEW d
  PROVE  /\ Kept(b, c) /\ KeptBut(a, c, d) => KeptBut(a, b, d)
         /\ KeptBut(a, b, c) /\ Kept(c, d) => KeptBut(a, b, d)
  BY DEF Kept, KeptBut

LEMMA StoreKeeps ==
  ASSUME NEW b \in ProgramState, NEW a \in u16
  PROVE  /\ KeptBut(a, b, sta_fn(b, a)) /\ KeptBut(a, b, stx_fn(b, a))
         /\ KeptBut(a, b, sty_fn(b, a)) /\ KeptBut(a, b, sax_fn(b, a))
  BY ProgramFields, WriteKeeps, ByteType
     DEF sta_fn, stx_fn, sty_fn, sax_fn, BitAnd, ProgramState

LEMMA StoreShiftedKeeps ==
  ASSUME NEW b \in ProgramState, NEW a \in u16, NEW s, s.value \in u8
  PROVE  KeptBut(a, b, StoreShifted(b, a, s))
<1> DEFINE flagged == set_flag(b, CarryFlag, s.carry)
           written == write_mem(flagged, a, s.value)
<1>1. flagged \in ProgramState /\ Kept(b, flagged)
  BY FlagValues, FlagUpdates, FlagsKeep
<1> HIDE DEF flagged
<1>2. written \in ProgramState /\ KeptBut(a, flagged, written)
  BY <1>1, ProgramWrite, WriteKeeps DEF ProgramState
<1> HIDE DEF written
<1>3. KeptBut(a, b, written)
  BY <1>1, <1>2, KeptButTransitive
<1>4. KeptBut(a, b, update_zero_and_negative_flags(written, s.value))
  BY <1>2, <1>3, FlagsKeep, KeptButTransitive
<1> QED
  BY <1>4 DEF StoreShifted, flagged, written

LEMMA MemoryShiftKeeps ==
  ASSUME NEW b \in ProgramState, NEW a \in u16
  PROVE  /\ KeptBut(a, b, asl_fn(b, a)) /\ KeptBut(a, b, lsr_fn(b, a))
         /\ KeptBut(a, b, rol_fn(b, a)) /\ KeptBut(a, b, ror_fn(b, a))
  BY ProgramRead, CarryBit, ShiftType, StoreShiftedKeeps
     DEF asl_fn, lsr_fn, rol_fn, ror_fn

LEMMA StoreCountedKeeps ==
  ASSUME NEW b \in ProgramState, NEW a \in u16, NEW v \in u8
  PROVE  KeptBut(a, b, StoreCounted(b, a, v))
<1> DEFINE written == write_mem(b, a, v)
<1>1. written \in ProgramState /\ KeptBut(a, b, written)
  BY ProgramWrite, WriteKeeps DEF ProgramState
<1> HIDE DEF written
<1>2. Kept(written, update_zero_and_negative_flags(written, v))
  BY <1>1, FlagsKeep
<1> QED
  BY <1>1, <1>2, KeptButTransitive DEF StoreCounted, written

LEMMA CountKeeps ==
  ASSUME NEW b \in ProgramState, NEW a \in u16
  PROVE  KeptBut(a, b, inc_fn(b, a)) /\ KeptBut(a, b, dec_fn(b, a))
<1>1. ToU8(read_mem(b, a) + 1) \in u8 /\ ToU8(read_mem(b, a) - 1) \in u8
  BY ProgramRead, Wraps
<1> QED
  BY <1>1, StoreCountedKeeps DEF inc_fn, dec_fn

LEMMA ComposedKeeps ==
  ASSUME NEW b \in ProgramState, NEW a \in u16
  PROVE  /\ KeptBut(a, b, slo_fn(b, a)) /\ KeptBut(a, b, rla_fn(b, a))
         /\ KeptBut(a, b, sre_fn(b, a)) /\ KeptBut(a, b, rra_fn(b, a))
         /\ KeptBut(a, b, dcp_fn(b, a)) /\ KeptBut(a, b, isb_fn(b, a))
<1>1. \A c \in ProgramState : /\ Kept(c, ora_fn(c, a)) /\ Kept(c, and_fn(c, a))
                              /\ Kept(c, eor_fn(c, a)) /\ Kept(c, adc_fn(c, a))
                              /\ Kept(c, cmp_fn(c, a)) /\ Kept(c, sbc_fn(c, a))
  BY LogicKeeps, AluKeeps
<1>2. ASSUME NEW first \in ProgramState, KeptBut(a, b, first)
      PROVE  /\ KeptBut(a, b, ora_fn(first, a)) /\ KeptBut(a, b, and_fn(first, a))
             /\ KeptBut(a, b, eor_fn(first, a)) /\ KeptBut(a, b, adc_fn(first, a))
             /\ KeptBut(a, b, cmp_fn(first, a)) /\ KeptBut(a, b, sbc_fn(first, a))
  BY <1>1, <1>2, KeptButTransitive
<1>3. KeptBut(a, b, slo_fn(b, a)) /\ KeptBut(a, b, rla_fn(b, a))
  BY <1>2, MemoryShiftType, MemoryShiftKeeps DEF slo_fn, rla_fn
<1>4. KeptBut(a, b, sre_fn(b, a)) /\ KeptBut(a, b, rra_fn(b, a))
  BY <1>2, MemoryShiftType, MemoryShiftKeeps DEF sre_fn, rra_fn
<1>5. KeptBut(a, b, dcp_fn(b, a)) /\ KeptBut(a, b, isb_fn(b, a))
  BY <1>2, CountType, CountKeeps DEF dcp_fn, isb_fn
<1> QED
  BY <1>3, <1>4, <1>5

\* What the instruction function is called with: only the program counter
\* has moved.
LEMMA OperandKeeps ==
  ASSUME bus \in ProgramState
  PROVE  /\ Kept(bus, Operand.bus)
         /\ Operand.bus.accumulator = bus.accumulator
         /\ Operand.bus.x = bus.x /\ Operand.bus.y = bus.y
         /\ Operand.bus.status = bus.status /\ Operand.bus.cycles = bus.cycles
         /\ Operand.bus.program_counter
              = ToU16(ToU16(bus.program_counter + 1)
                        + OperandBytes(Fetched.addressing_mode))
<1> DEFINE next  == ToU16(bus.program_counter + 1)
           moved == [bus EXCEPT !.program_counter = next]
           last  == ToU16(next + OperandBytes(Fetched.addressing_mode))
           after == [moved EXCEPT !.program_counter = last]
<1>1. moved \in BusState
  <2>1. next \in u16
    BY ProgramFields, Wraps
  <2> HIDE DEF next
  <2> QED
    BY <2>1 DEF ProgramState, BusState
<1>2. /\ Kept(bus, moved) /\ moved.accumulator = bus.accumulator
      /\ moved.x = bus.x /\ moved.y = bus.y /\ moved.cycles = bus.cycles
      /\ moved.status = bus.status /\ moved.program_counter = next
  BY DEF Kept, ProgramState, BusState
<1>3. Operand.bus = after
  BY <1>2 DEF Operand, OperandOf, get_operand_address
<1> HIDE DEF moved, next, last
<1>4. /\ Kept(moved, after) /\ after.accumulator = moved.accumulator
      /\ after.x = moved.x /\ after.y = moved.y /\ after.cycles = moved.cycles
      /\ after.status = moved.status /\ after.program_counter = last
  BY <1>1 DEF Kept, BusState
<1> QED
  BY <1>2, <1>3, <1>4, KeptTransitive DEF next, last

LEMMA RetiresKeeps ==
  ASSUME NEW after \in BusState, Retires(Fetched, Operand, after)
  PROVE  /\ Kept(after, bus')
         /\ bus'.accumulator = after.accumulator
         /\ bus'.x = after.x /\ bus'.y = after.y
         /\ bus'.status = after.status
         /\ bus'.program_counter = after.program_counter
         /\ bus'.cycles = after.cycles + Cycles(Fetched, Operand)
  BY DEF Retires, tick, Kept, BusState

\* An iteration does to the stack what its instruction function does.
LEMMA IterationKeeps ==
  ASSUME bus \in ProgramState, NEW after \in BusState,
         Retires(Fetched, Operand, after)
  PROVE  /\ Kept(Operand.bus, after) => Kept(bus, bus')
         /\ KeptBut(Operand.address, Operand.bus, after) => KeptBut(Operand.address, bus, bus')
<1>1. Kept(bus, Operand.bus) /\ Kept(after, bus')
  BY OperandKeeps, RetiresKeeps
<1> QED
  BY <1>1, KeptTransitive, KeptButTransitive

\* A step is an instruction of one family, which its function tells.
LEMMA Families ==
  ASSUME Step
  PROVE  \/ Load /\ Fetched.fn \in LoadFns
         \/ Store /\ Fetched.fn \in StoreFns
         \/ Transfer /\ Fetched.fn \in TransferFns
         \/ Alu /\ Fetched.fn \in AluFns
         \/ IncDec /\ Fetched.fn \in IncDecFns
         \/ Shift /\ Fetched.fn \in AccShiftFns
         \/ ReadModifyWrite /\ Fetched.fn \in RmwFns
         \/ Branch /\ Fetched.fn \in BranchFns
         \/ Jump /\ Fetched.fn \in JumpFns
         \/ Stack /\ Fetched.fn \in StackFns
         \/ Flag /\ Fetched.fn \in FlagFns
         \/ Empty /\ Fetched.fn \in EmptyFns
<1>1. Load => Fetched.fn \in LoadFns
  BY DEF Load, Execute, Dispatches, LoadFns
<1>2. Store => Fetched.fn \in StoreFns
  BY DEF Store, Execute, Dispatches, StoreFns
<1>3. Transfer => Fetched.fn \in TransferFns
  BY DEF Transfer, Execute, Dispatches, TransferFns
<1>4. Alu => Fetched.fn \in AluFns
  BY DEF Alu, Execute, Dispatches, AluFns
<1>5. IncDec => Fetched.fn \in IncDecFns
  BY DEF IncDec, Execute, Dispatches, IncDecFns
<1>6. Shift => Fetched.fn \in AccShiftFns
  BY DEF Shift, Execute, Dispatches, AccShiftFns
<1>7. ReadModifyWrite => Fetched.fn \in RmwFns
  BY DEF ReadModifyWrite, Execute, Dispatches, RmwFns
<1>8. Branch => Fetched.fn \in BranchFns
  BY DEF Branch, Execute, Dispatches, BranchFns
<1>9. Jump => Fetched.fn \in JumpFns
  BY DEF Jump, Execute, Dispatches, JumpFns
<1>10. Stack => Fetched.fn \in StackFns
  BY DEF Stack, Execute, Dispatches, StackFns
<1>11. Flag => Fetched.fn \in FlagFns
  BY DEF Flag, Execute, Dispatches, FlagFns
<1>12. Empty => Fetched.fn \in EmptyFns
  BY DEF Empty, Execute, Dispatches
<1> QED
  BY <1>1, <1>2, <1>3, <1>4, <1>5, <1>6, <1>7, <1>8, <1>9, <1>10, <1>11, <1>12 DEF Step

\* The instructions that leave the stack alone.
QuietFns == Fns \ (StoreFns \cup RmwFns \cup StackFns
                     \cup {"jsr", "rts", "rti", "brk", "txs"})

LEMMA QuietStep ==
  ASSUME bus \in ProgramState, Step, Fetched.fn \in QuietFns
  PROVE  Kept(bus, bus')
<1> DEFINE b == Operand.bus
           a == Operand.address
<1>1. b \in ProgramState /\ a \in u16
  BY OperandType
<1> HIDE DEF b, a
<1>2. ASSUME NEW after \in ProgramState, Retires(Fetched, Operand, after), Kept(b, after)
      PROVE  Kept(bus, bus')
  BY <1>2, IterationKeeps DEF ProgramState, b
<1>3. CASE Load
  BY <1>1, <1>2, <1>3, LoadType, LoadKeeps DEF Load, Execute, Operand, b, a
<1>4. CASE Transfer
  <2>1. Fetched.fn # "txs"
    BY DEF QuietFns
  <2> QED
    BY <1>1, <1>2, <1>4, <2>1, TransferType, TransferKeeps
       DEF Transfer, Execute, Dispatches, Operand, b, a
<1>5. CASE Alu
  BY <1>1, <1>2, <1>5, LogicType, LogicKeeps, AluType, AluKeeps DEF Alu, Execute, Operand, b, a
<1>6. CASE IncDec
  BY <1>1, <1>2, <1>6, IncDecType, IncDecKeeps DEF IncDec, Execute, Operand, b, a
<1>7. CASE Shift
  BY <1>1, <1>2, <1>7, AccShiftType, AccShiftKeeps DEF Shift, Execute, Operand, b, a
<1>8. CASE Branch
  BY <1>1, <1>2, <1>8, BranchesType, BranchesKeep DEF Branch, Execute, Operand, b, a
<1>9. CASE Flag
  BY <1>1, <1>2, <1>9, FlagFnsType, FlagFnsKeep DEF Flag, Execute, Operand, b, a
<1>10. CASE Jump
  <2>1. Fetched.fn \notin {"jsr", "rts", "rti", "brk"}
    BY DEF QuietFns
  <2> QED
    BY <1>1, <1>2, <1>10, <2>1, JumpType, FlagFnsKeep
       DEF Jump, Execute, Dispatches, Operand, b, a
<1>11. CASE Empty
  <2>1. nop_fn(b, a) \in ProgramState /\ Kept(b, nop_fn(b, a))
    BY <1>1, FlagFnsKeep DEF nop_fn
  <2> QED
    BY <1>2, <1>11, <2>1 DEF Empty, Execute, Operand, b, a
<1> QED
  BY <1>3, <1>4, <1>5, <1>6, <1>7, <1>8, <1>9, <1>10, <1>11, Families DEF QuietFns

LEMMA WriteStep ==
  ASSUME bus \in ProgramState, Step, Fetched.fn \in StoreFns \cup RmwFns
  PROVE  KeptBut(Operand.address, bus, bus')
<1> DEFINE b == Operand.bus
           a == Operand.address
<1>1. b \in ProgramState /\ a \in u16
  BY OperandType
<1>2. Store \/ ReadModifyWrite
  BY Families DEF LoadFns, StoreFns, TransferFns, AluFns, IncDecFns, AccShiftFns, RmwFns,
                  BranchFns, JumpFns, StackFns, FlagFns, EmptyFns
<1> HIDE DEF b, a
<1>3. ASSUME NEW after \in ProgramState, Retires(Fetched, Operand, after), KeptBut(a, b, after)
      PROVE  KeptBut(Operand.address, bus, bus')
  BY <1>3, IterationKeeps DEF ProgramState, b, a
<1>4. CASE Store
  BY <1>1, <1>3, <1>4, StoreType, StoreKeeps DEF Store, Execute, Operand, b, a
<1>5. CASE ReadModifyWrite
  <2>1. CASE Fetched.fn \in {"asl", "lsr", "rol", "ror", "inc", "dec"}
    BY <1>1, <1>3, <1>5, <2>1, MemoryShiftType, MemoryShiftKeeps, CountType, CountKeeps
       DEF ReadModifyWrite, Execute, Dispatches, Operand, b, a
  <2>2. CASE Fetched.fn \notin {"asl", "lsr", "rol", "ror", "inc", "dec"}
    BY <1>1, <1>3, <1>5, <2>2, ComposedType, ComposedKeeps
       DEF ReadModifyWrite, Execute, Dispatches, Operand, b, a
  <2> QED
    BY <2>1, <2>2
<1> QED
  BY <1>2, <1>4, <1>5
=============================================================================
