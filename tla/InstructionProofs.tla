-------------------------- MODULE InstructionProofs --------------------------
(***************************************************************************)
(* What an instruction changes, what it computes, what it costs, and what  *)
(* the trace says of it before, for every program and every state.         *)
(*                                                                         *)
(* The argument: each instruction function is described by the registers,  *)
(* flags and RAM cells it leaves alone and by what it puts in the others;  *)
(* the descriptions of the two halves of a combined instruction compose.   *)
(***************************************************************************)
EXTENDS Trace, CPUProofs

-----------------------------------------------------------------------------
(* The frame.                                                              *)

\* c has the registers of b but those in R, and the flags of b but those in F.
Only(b, c, R, F) ==
  /\ "accumulator" \in R \/ c.accumulator = b.accumulator
  /\ "x" \in R \/ c.x = b.x
  /\ "y" \in R \/ c.y = b.y
  /\ "cycles" \in R \/ c.cycles = b.cycles
  /\ \A g \in Weights \ F : g \in c.status <=> g \in b.status

\* The flags the instruction functions set together.
NZ   == {ZeroFlag, NegativeFlag}
CNZ  == {CarryFlag, ZeroFlag, NegativeFlag}
VNZ  == {ZeroFlag, OverflowFlag, NegativeFlag}
CVNZ == {CarryFlag, ZeroFlag, OverflowFlag, NegativeFlag}

LEMMA UpdatesOnly ==
  ASSUME NEW b \in BusState, NEW v
  PROVE  /\ Only(b, [b EXCEPT !.accumulator = v], {"accumulator"}, {})
         /\ Only(b, [b EXCEPT !.x = v], {"x"}, {})
         /\ Only(b, [b EXCEPT !.y = v], {"y"}, {})
         /\ Only(b, [b EXCEPT !.program_counter = v], {}, {})
         /\ Only(b, [b EXCEPT !.stack_pointer = v], {}, {})
         /\ Only(b, [b EXCEPT !.cycles = v], {"cycles"}, {})
         /\ Only(b, [b EXCEPT !.cpu_ram = v], {}, {})
         /\ Only(b, [b EXCEPT !.status = v], {}, Weights)
         /\ Only(b, b, {}, {})
  BY DEF BusState, Only

\* What two functions change is what either does.
LEMMA OnlyTransitive ==
  ASSUME NEW b, NEW c, NEW d, NEW R, NEW S, NEW F, NEW G,
         Only(b, c, R, F), Only(c, d, S, G)
  PROVE  \A T, H : R \cup S \subseteq T /\ F \cup G \subseteq H => Only(b, d, T, H)
  BY DEF Only

LEMMA OnlyWeaker ==
  ASSUME NEW b, NEW c, NEW R, NEW F, Only(b, c, R, F)
  PROVE  \A T, H : R \subseteq T /\ F \subseteq H => Only(b, c, T, H)
  BY DEF Only

LEMMA FlagOnly ==
  ASSUME NEW b \in BusState, NEW flag, NEW v
  PROVE  Only(b, set_flag(b, flag, v), {}, {flag})
<1> DEFINE status == IF v THEN b.status \cup {flag} ELSE b.status \ {flag}
<1>1. set_flag(b, flag, v) = [b EXCEPT !.status = status]
  BY DEF set_flag
<1>2. \A g \in Weights \ {flag} : g \in status <=> g \in b.status
  OBVIOUS
<1> HIDE DEF status
<1>3. /\ [b EXCEPT !.status = status].status = status
      /\ [b EXCEPT !.status = status].accumulator = b.accumulator
      /\ [b EXCEPT !.status = status].x = b.x
      /\ [b EXCEPT !.status = status].y = b.y
      /\ [b EXCEPT !.status = status].cycles = b.cycles
  BY DEF BusState
<1> QED
  BY <1>1, <1>2, <1>3 DEF Only

LEMMA ZeroNegativeOnly ==
  ASSUME NEW b \in ProgramState, NEW v
  PROVE  Only(b, update_zero_and_negative_flags(b, v), {}, NZ)
<1>1. set_flag(b, ZeroFlag, v = 0) \in BusState
  BY FlagValues, FlagUpdates DEF ProgramState
<1>2. /\ Only(b, set_flag(b, ZeroFlag, v = 0), {}, {ZeroFlag})
      /\ \A c \in BusState : \A w :
           Only(c, set_flag(c, NegativeFlag, w), {}, {NegativeFlag})
  BY FlagOnly DEF ProgramState
<1> QED
  BY <1>1, <1>2, OnlyTransitive DEF update_zero_and_negative_flags, NZ

LEMMA SetRegisterOnly ==
  ASSUME NEW b \in ProgramState, NEW v \in u8
  PROVE  /\ Only(b, SetA(b, v), {"accumulator"}, NZ)
         /\ Only(b, SetX(b, v), {"x"}, NZ)
         /\ Only(b, SetY(b, v), {"y"}, NZ)
<1>1. ASSUME NEW c \in ProgramState, NEW R, Only(b, c, R, {})
      PROVE  Only(b, update_zero_and_negative_flags(c, v), R, NZ)
  BY <1>1, ZeroNegativeOnly, OnlyTransitive
<1>2. b \in BusState
  BY DEF ProgramState
<1> QED
  BY <1>1, <1>2, RegisterUpdates, UpdatesOnly DEF SetA, SetX, SetY

LEMMA WriteOnly ==
  ASSUME NEW b \in BusState, NEW a, NEW v
  PROVE  Only(b, write_mem(b, a, v), {}, {})
<1>1. CASE a < RAM_MIRROR_END
  <2>1. write_mem(b, a, v) = [b EXCEPT !.cpu_ram = [b.cpu_ram EXCEPT ![RamCell(a)] = v]]
    BY <1>1 DEF write_mem
  <2> QED
    BY <2>1, UpdatesOnly
<1>2. CASE ~(a < RAM_MIRROR_END)
  BY <1>2, UpdatesOnly DEF write_mem
<1> QED
  BY <1>1, <1>2

LEMMA LoadOnly ==
  ASSUME NEW b \in ProgramState, NEW a \in u16
  PROVE  /\ Only(b, lda_fn(b, a), {"accumulator"}, NZ)
         /\ Only(b, ldx_fn(b, a), {"x"}, NZ)
         /\ Only(b, ldy_fn(b, a), {"y"}, NZ)
         /\ Only(b, lax_fn(b, a), {"accumulator", "x"}, NZ)
<1>1. \A c \in ProgramState : /\ Only(c, lda_fn(c, a), {"accumulator"}, NZ)
                              /\ Only(c, ldx_fn(c, a), {"x"}, NZ)
  BY ProgramRead, SetRegisterOnly DEF lda_fn, ldx_fn
<1>2. Only(b, ldy_fn(b, a), {"y"}, NZ)
  BY ProgramRead, SetRegisterOnly DEF ldy_fn
<1>3. Only(b, lax_fn(b, a), {"accumulator", "x"}, NZ)
  <2>1. /\ Only(b, lda_fn(b, a), {"accumulator"}, NZ)
        /\ Only(lda_fn(b, a), lax_fn(b, a), {"x"}, NZ)
    BY <1>1, LoadType DEF lax_fn
  <2> QED
    BY <2>1, OnlyTransitive
<1> QED
  BY <1>1, <1>2, <1>3

LEMMA StoreOnly ==
  ASSUME NEW b \in ProgramState, NEW a \in u16
  PROVE  /\ Only(b, sta_fn(b, a), {}, {}) /\ Only(b, stx_fn(b, a), {}, {})
         /\ Only(b, sty_fn(b, a), {}, {}) /\ Only(b, sax_fn(b, a), {}, {})
  BY WriteOnly DEF sta_fn, stx_fn, sty_fn, sax_fn, ProgramState

LEMMA TransferOnly ==
  ASSUME NEW b \in ProgramState, NEW a \in u16
  PROVE  /\ Only(b, tax_fn(b, a), {"x"}, NZ) /\ Only(b, tay_fn(b, a), {"y"}, NZ)
         /\ Only(b, tsx_fn(b, a), {"x"}, NZ)
         /\ Only(b, txa_fn(b, a), {"accumulator"}, NZ)
         /\ Only(b, tya_fn(b, a), {"accumulator"}, NZ)
         /\ Only(b, txs_fn(b, a), {}, {})
<1>1. Only(b, txs_fn(b, a), {}, {})
  BY UpdatesOnly DEF txs_fn, ProgramState
<1> QED
  BY <1>1, ProgramFields, SetRegisterOnly DEF tax_fn, tay_fn, tsx_fn, txa_fn, tya_fn

LEMMA AddWithCarryOnly ==
  ASSUME NEW b \in ProgramState, NEW M \in u8
  PROVE  Only(b, AddWithCarry(b, M), {"accumulator"}, CVNZ)
<1> DEFINE R == M + b.accumulator + (IF CarryFlag \in b.status THEN 1 ELSE 0)
           carried(v) == set_flag(b, CarryFlag, v)
           added(v) == SetA(carried(v), LowByte(R))
<1>1. LowByte(R) \in u8
  <2>1. R \in Int
    BY ProgramFields, U8
  <2> QED
    BY <2>1, Widths
<1> HIDE DEF R
<1>2. \A v : carried(v) \in ProgramState /\ Only(b, carried(v), {}, {CarryFlag})
  BY FlagValues, FlagUpdates, FlagOnly DEF ProgramState
<1> HIDE DEF carried
<1>3. \A v : added(v) \in ProgramState /\ Only(carried(v), added(v), {"accumulator"}, NZ)
  BY <1>1, <1>2, SetRegisterType, SetRegisterOnly
<1> HIDE DEF added
<1>4. ASSUME NEW v PROVE Only(b, added(v), {"accumulator"}, CNZ)
  BY <1>2, <1>3, OnlyTransitive DEF NZ, CNZ
<1>5. ASSUME NEW v, NEW w
      PROVE  Only(b, set_flag(added(v), OverflowFlag, w), {"accumulator"}, CVNZ)
  <2>1. Only(added(v), set_flag(added(v), OverflowFlag, w), {}, {OverflowFlag})
    BY <1>3, FlagOnly DEF ProgramState
  <2> QED
    BY <1>4, <2>1, OnlyTransitive DEF CNZ, CVNZ
<1> QED
  BY <1>5 DEF AddWithCarry, R, carried, added

LEMMA CompareOnly ==
  ASSUME NEW b \in ProgramState, NEW r, NEW m
  PROVE  Only(b, Compare(b, r, m), {}, CNZ)
<1> DEFINE carried == set_flag(b, CarryFlag, r >= m)
<1>1. carried \in ProgramState /\ Only(b, carried, {}, {CarryFlag})
  BY FlagValues, FlagUpdates, FlagOnly DEF ProgramState
<1> HIDE DEF carried
<1>2. \A v : Only(carried, update_zero_and_negative_flags(carried, v), {}, NZ)
  BY <1>1, ZeroNegativeOnly
<1>3. \A v : Only(b, update_zero_and_negative_flags(carried, v), {}, CNZ)
  BY <1>1, <1>2, OnlyTransitive DEF NZ, CNZ
<1> QED
  BY <1>3 DEF Compare, carried

LEMMA LogicOnly ==
  ASSUME NEW b \in ProgramState, NEW a \in u16
  PROVE  /\ Only(b, and_fn(b, a), {"accumulator"}, NZ)
         /\ Only(b, ora_fn(b, a), {"accumulator"}, NZ)
         /\ Only(b, eor_fn(b, a), {"accumulator"}, NZ)
         /\ Only(b, bit_fn(b, a), {}, VNZ)
<1>1. /\ Only(b, and_fn(b, a), {"accumulator"}, NZ)
      /\ Only(b, ora_fn(b, a), {"accumulator"}, NZ)
      /\ Only(b, eor_fn(b, a), {"accumulator"}, NZ)
  BY ByteType, SetRegisterOnly DEF and_fn, ora_fn, eor_fn, BitAnd, BitOr, BitXor
<1>2. ASSUME NEW u, NEW v, NEW w
      PROVE  Only(b, set_flag(set_flag(set_flag(b, ZeroFlag, u), OverflowFlag, v),
                              NegativeFlag, w), {}, VNZ)
  <2> DEFINE zero     == set_flag(b, ZeroFlag, u)
             overflow == set_flag(zero, OverflowFlag, v)
             negative == set_flag(overflow, NegativeFlag, w)
  <2>1. zero \in ProgramState /\ Only(b, zero, {}, {ZeroFlag})
    BY FlagValues, FlagUpdates, FlagOnly DEF ProgramState
  <2> HIDE DEF zero
  <2>2. overflow \in ProgramState /\ Only(zero, overflow, {}, {OverflowFlag})
    BY <2>1, FlagValues, FlagUpdates, FlagOnly DEF ProgramState
  <2> HIDE DEF overflow
  <2>3. Only(overflow, negative, {}, {NegativeFlag})
    BY <2>2, FlagOnly DEF ProgramState
  <2> HIDE DEF negative
  <2>4. Only(b, overflow, {}, {ZeroFlag, OverflowFlag})
    BY <2>1, <2>2, OnlyTransitive
  <2>5. Only(b, negative, {}, VNZ)
    BY <2>3, <2>4, OnlyTransitive DEF VNZ
  <2> QED
    BY <2>5 DEF zero, overflow, negative
<1> QED
  BY <1>1, <1>2 DEF bit_fn

LEMMA AluOnly ==
  ASSUME NEW b \in ProgramState, NEW a \in u16
  PROVE  /\ Only(b, adc_fn(b, a), {"accumulator"}, CVNZ)
         /\ Only(b, sbc_fn(b, a), {"accumulator"}, CVNZ)
         /\ Only(b, cmp_fn(b, a), {}, CNZ) /\ Only(b, cpx_fn(b, a), {}, CNZ)
         /\ Only(b, cpy_fn(b, a), {}, CNZ)
<1>1. read_mem(b, a) \in u8 /\ 255 - read_mem(b, a) \in u8
  BY ProgramRead, U8
<1> QED
  BY <1>1, AddWithCarryOnly, CompareOnly DEF adc_fn, sbc_fn, cmp_fn, cpx_fn, cpy_fn

LEMMA IncDecOnly ==
  ASSUME NEW b \in ProgramState, NEW a \in u16
  PROVE  /\ Only(b, inx_fn(b, a), {"x"}, NZ) /\ Only(b, iny_fn(b, a), {"y"}, NZ)
         /\ Only(b, dex_fn(b, a), {"x"}, NZ) /\ Only(b, dey_fn(b, a), {"y"}, NZ)
  BY ProgramFields, Wraps, SetRegisterOnly DEF inx_fn, iny_fn, dex_fn, dey_fn

LEMMA SetShiftedOnly ==
  ASSUME NEW b \in ProgramState, NEW s, s.value \in u8
  PROVE  Only(b, SetShifted(b, s), {"accumulator"}, CNZ)
<1> DEFINE carried == set_flag(b, CarryFlag, s.carry)
<1>1. carried \in ProgramState /\ Only(b, carried, {}, {CarryFlag})
  BY FlagValues, FlagUpdates, FlagOnly DEF ProgramState
<1> HIDE DEF carried
<1>2. Only(carried, SetA(carried, s.value), {"accumulator"}, NZ)
  BY <1>1, SetRegisterOnly
<1>3. Only(b, SetA(carried, s.value), {"accumulator"}, CNZ)
  BY <1>1, <1>2, OnlyTransitive DEF NZ, CNZ
<1> QED
  BY <1>3 DEF SetShifted, carried

LEMMA AccShiftOnly ==
  ASSUME NEW b \in ProgramState, NEW a \in u16
  PROVE  /\ Only(b, asl_acc_fn(b, a), {"accumulator"}, CNZ)
         /\ Only(b, lsr_acc_fn(b, a), {"accumulator"}, CNZ)
         /\ Only(b, rol_acc_fn(b, a), {"accumulator"}, CNZ)
         /\ Only(b, ror_acc_fn(b, a), {"accumulator"}, CNZ)
  BY ProgramFields, CarryBit, ShiftType, SetShiftedOnly
     DEF asl_acc_fn, lsr_acc_fn, rol_acc_fn, ror_acc_fn

LEMMA StoreShiftedOnly ==
  ASSUME NEW b \in ProgramState, NEW a \in u16, NEW s, s.value \in u8
  PROVE  Only(b, StoreShifted(b, a, s), {}, CNZ)
<1> DEFINE carried == set_flag(b, CarryFlag, s.carry)
           written == write_mem(carried, a, s.value)
<1>1. carried \in ProgramState /\ Only(b, carried, {}, {CarryFlag})
  BY FlagValues, FlagUpdates, FlagOnly DEF ProgramState
<1> HIDE DEF carried
<1>2. written \in ProgramState /\ Only(carried, written, {}, {})
  BY <1>1, ProgramWrite, WriteOnly DEF ProgramState
<1> HIDE DEF written
<1>3. Only(written, update_zero_and_negative_flags(written, s.value), {}, NZ)
  BY <1>2, ZeroNegativeOnly
<1>4. Only(b, written, {}, {CarryFlag})
  BY <1>1, <1>2, OnlyTransitive
<1>5. Only(b, update_zero_and_negative_flags(written, s.value), {}, CNZ)
  BY <1>3, <1>4, OnlyTransitive DEF NZ, CNZ
<1> QED
  BY <1>5 DEF StoreShifted, carried, written

LEMMA MemoryShiftOnly ==
  ASSUME NEW b \in ProgramState, NEW a \in u16
  PROVE  /\ Only(b, asl_fn(b, a), {}, CNZ) /\ Only(b, lsr_fn(b, a), {}, CNZ)
         /\ Only(b, rol_fn(b, a), {}, CNZ) /\ Only(b, ror_fn(b, a), {}, CNZ)
  BY ProgramRead, CarryBit, ShiftType, StoreShiftedOnly
     DEF asl_fn, lsr_fn, rol_fn, ror_fn

LEMMA CountOnly ==
  ASSUME NEW b \in ProgramState, NEW a \in u16
  PROVE  Only(b, inc_fn(b, a), {}, NZ) /\ Only(b, dec_fn(b, a), {}, NZ)
<1>1. ASSUME NEW v \in u8 PROVE Only(b, StoreCounted(b, a, v), {}, NZ)
  <2> DEFINE written == write_mem(b, a, v)
  <2>1. written \in ProgramState /\ Only(b, written, {}, {})
    BY ProgramWrite, WriteOnly DEF ProgramState
  <2> HIDE DEF written
  <2>2. Only(written, update_zero_and_negative_flags(written, v), {}, NZ)
    BY <2>1, ZeroNegativeOnly
  <2>3. Only(b, update_zero_and_negative_flags(written, v), {}, NZ)
    BY <2>1, <2>2, OnlyTransitive
  <2> QED
    BY <2>3 DEF StoreCounted, written
<1>2. ToU8(read_mem(b, a) + 1) \in u8 /\ ToU8(read_mem(b, a) - 1) \in u8
  BY ProgramRead, Wraps
<1> QED
  BY <1>1, <1>2 DEF inc_fn, dec_fn

LEMMA ComposedOnly ==
  ASSUME NEW b \in ProgramState, NEW a \in u16
  PROVE  /\ Only(b, slo_fn(b, a), {"accumulator"}, CNZ)
         /\ Only(b, rla_fn(b, a), {"accumulator"}, CNZ)
         /\ Only(b, sre_fn(b, a), {"accumulator"}, CNZ)
         /\ Only(b, rra_fn(b, a), {"accumulator"}, CVNZ)
         /\ Only(b, dcp_fn(b, a), {}, CNZ)
         /\ Only(b, isb_fn(b, a), {"accumulator"}, CVNZ)
<1>1. NZ \subseteq CNZ /\ CNZ \subseteq CVNZ /\ NZ \subseteq CVNZ
  BY DEF NZ, CNZ, CVNZ
<1>2. ASSUME NEW c \in ProgramState, Only(b, c, {}, CNZ)
      PROVE  /\ Only(b, ora_fn(c, a), {"accumulator"}, CNZ)
             /\ Only(b, and_fn(c, a), {"accumulator"}, CNZ)
             /\ Only(b, eor_fn(c, a), {"accumulator"}, CNZ)
             /\ Only(b, adc_fn(c, a), {"accumulator"}, CVNZ)
             /\ Only(b, cmp_fn(c, a), {}, CNZ)
             /\ Only(b, sbc_fn(c, a), {"accumulator"}, CVNZ)
  <2>1. /\ Only(c, ora_fn(c, a), {"accumulator"}, NZ)
        /\ Only(c, and_fn(c, a), {"accumulator"}, NZ)
        /\ Only(c, eor_fn(c, a), {"accumulator"}, NZ)
    BY LogicOnly
  <2>2. /\ Only(c, adc_fn(c, a), {"accumulator"}, CVNZ)
        /\ Only(c, sbc_fn(c, a), {"accumulator"}, CVNZ)
        /\ Only(c, cmp_fn(c, a), {}, CNZ)
    BY AluOnly
  <2>3. \A d : Only(c, d, {"accumulator"}, NZ) => Only(b, d, {"accumulator"}, CNZ)
    BY <1>1, <1>2, OnlyTransitive
  <2>4. \A d : Only(c, d, {"accumulator"}, CVNZ) => Only(b, d, {"accumulator"}, CVNZ)
    BY <1>1, <1>2, OnlyTransitive
  <2>5. \A d : Only(c, d, {}, CNZ) => Only(b, d, {}, CNZ)
    BY <1>2, OnlyTransitive
  <2> QED
    BY <2>1, <2>2, <2>3, <2>4, <2>5
<1>3. /\ Only(b, inc_fn(b, a), {}, CNZ) /\ Only(b, dec_fn(b, a), {}, CNZ)
  BY <1>1, CountOnly, OnlyWeaker
<1> QED
  BY <1>2, <1>3, MemoryShiftType, MemoryShiftOnly, CountType
     DEF slo_fn, rla_fn, sre_fn, rra_fn, dcp_fn, isb_fn

LEMMA BranchOnly ==
  ASSUME NEW b \in ProgramState, NEW a \in u16, NEW condition
  PROVE  Only(b, BranchIf(condition, b, a), {"cycles"}, {})
<1> DEFINE target == ToU16(b.program_counter + a)
           moved  == [b EXCEPT !.program_counter = target]
<1>1. moved \in BusState
  <2>1. b.program_counter + a \in Int
    BY ProgramFields, U16
  <2>2. target \in u16
    BY <2>1, Widths
  <2> QED
    BY <2>2, CounterUpdates DEF ProgramState
<1>2. Only(b, moved, {}, {}) /\ Only(b, b, {}, {})
  BY UpdatesOnly DEF ProgramState
<1>3. \E n : branch(b, a) = tick(moved, n)
  BY DEF branch
<1> HIDE DEF moved
<1>4. \A n : Only(moved, tick(moved, n), {"cycles"}, {})
  BY <1>1, UpdatesOnly DEF tick
<1>5. Only(b, branch(b, a), {"cycles"}, {})
  BY <1>2, <1>3, <1>4, OnlyTransitive
<1>6. Only(b, b, {"cycles"}, {})
  BY <1>2, OnlyWeaker
<1> QED
  BY <1>5, <1>6 DEF BranchIf

LEMMA BranchesOnly ==
  ASSUME NEW b \in ProgramState, NEW a \in u16
  PROVE  /\ Only(b, bcc_fn(b, a), {"cycles"}, {}) /\ Only(b, bcs_fn(b, a), {"cycles"}, {})
         /\ Only(b, bne_fn(b, a), {"cycles"}, {}) /\ Only(b, beq_fn(b, a), {"cycles"}, {})
         /\ Only(b, bpl_fn(b, a), {"cycles"}, {}) /\ Only(b, bmi_fn(b, a), {"cycles"}, {})
         /\ Only(b, bvc_fn(b, a), {"cycles"}, {}) /\ Only(b, bvs_fn(b, a), {"cycles"}, {})
  BY BranchOnly DEF bcc_fn, bcs_fn, bne_fn, beq_fn, bpl_fn, bmi_fn, bvc_fn, bvs_fn

LEMMA FlagFnsOnly ==
  ASSUME NEW b \in ProgramState, NEW a \in u16
  PROVE  /\ Only(b, clc_fn(b, a), {}, {CarryFlag}) /\ Only(b, sec_fn(b, a), {}, {CarryFlag})
         /\ Only(b, cld_fn(b, a), {}, {DecimalModeFlag})
         /\ Only(b, sed_fn(b, a), {}, {DecimalModeFlag})
         /\ Only(b, cli_fn(b, a), {}, {InterruptDisable})
         /\ Only(b, sei_fn(b, a), {}, {InterruptDisable})
         /\ Only(b, clv_fn(b, a), {}, {OverflowFlag})
         /\ Only(b, nop_fn(b, a), {}, {}) /\ Only(b, jmp_fn(b, a), {}, {})
<1>1. b \in BusState
  BY DEF ProgramState
<1> QED
  BY <1>1, FlagOnly, UpdatesOnly
     DEF clc_fn, cld_fn, cli_fn, clv_fn, sec_fn, sed_fn, sei_fn, nop_fn, jmp_fn

LEMMA PushOnly ==
  ASSUME NEW b \in BusState, NEW v \in u8
  PROVE  Only(b, push_stack(b, v), {}, {})
<1> DEFINE written == write_mem(b, STACK_START + b.stack_pointer, v)
           sp      == ToU8(written.stack_pointer - 1)
<1>1. written \in BusState /\ Only(b, written, {}, {})
  BY FieldTypes, StackAddress, WriteType, WriteOnly
<1>2. push_stack(b, v) = [written EXCEPT !.stack_pointer = sp]
  BY DEF push_stack
<1> HIDE DEF written, sp
<1>3. Only(written, push_stack(b, v), {}, {})
  BY <1>1, <1>2, UpdatesOnly
<1> QED
  BY <1>1, <1>3, OnlyTransitive

LEMMA PushWordOnly ==
  ASSUME NEW b \in BusState, NEW w \in u16
  PROVE  push_stack_u16(b, w) \in BusState /\ Only(b, push_stack_u16(b, w), {}, {})
<1>1. HighByte(w) \in u8 /\ LowByte(w) \in u8
  BY Widths, U16
<1>2. \A c \in BusState, v \in u8 : push_stack(c, v) \in BusState /\ Only(c, push_stack(c, v), {}, {})
  BY PushShape, PushOnly
<1> QED
  BY <1>1, <1>2, OnlyTransitive DEF push_stack_u16

LEMMA PopOnly ==
  ASSUME NEW b \in ProgramState
  PROVE  Only(b, pop_stack(b).bus, {}, {}) /\ Only(b, pop_stack_u16(b).bus, {}, {})
<1>1. \A c \in ProgramState : Only(c, pop_stack(c).bus, {}, {})
  BY UpdatesOnly DEF pop_stack, ProgramState
<1>2. pop_stack_u16(b).bus = pop_stack(pop_stack(b).bus).bus
  BY DEF pop_stack_u16
<1> QED
  BY <1>1, <1>2, PopType, OnlyTransitive

LEMMA StackFnsOnly ==
  ASSUME NEW b \in ProgramState, NEW a \in u16
  PROVE  /\ Only(b, pha_fn(b, a), {}, {}) /\ Only(b, php_fn(b, a), {}, {})
         /\ Only(b, pla_fn(b, a), {"accumulator"}, NZ)
         /\ Only(b, plp_fn(b, a), {}, Weights \ {BreakCommand, UnusedFlag})
<1>1. Only(b, pha_fn(b, a), {}, {}) /\ Only(b, php_fn(b, a), {}, {})
  BY ProgramFields, ByteType, PushOnly DEF pha_fn, php_fn, ProgramState
<1>2. Only(b, pla_fn(b, a), {"accumulator"}, NZ)
  BY PopType, PopOnly, SetRegisterOnly, OnlyTransitive DEF pla_fn
<1>3. Only(b, plp_fn(b, a), {}, Weights \ {BreakCommand, UnusedFlag})
  <2> DEFINE popped == pop_stack(b).bus
             status == (Bits(pop_stack(b).value) \ {BreakCommand}) \cup {UnusedFlag}
  <2>1. plp_fn(b, a) = [popped EXCEPT !.status = status]
    BY DEF plp_fn
  <2>2. popped \in BusState /\ Only(b, popped, {}, {})
    BY PopType, PopOnly DEF ProgramState
  <2> HIDE DEF popped, status
  <2>3. Only(popped, plp_fn(b, a), {}, Weights)
    BY <2>1, <2>2, UpdatesOnly
  <2>4. plp_fn(b, a) \in ProgramState
    BY PlpType
  <2> QED
    BY <2>2, <2>3, <2>4 DEF Only, ProgramState
<1> QED
  BY <1>1, <1>2, <1>3

LEMMA JumpOnly ==
  ASSUME NEW b \in ProgramState, NEW a \in u16
  PROVE  /\ Only(b, jsr_fn(b, a), {}, {}) /\ Only(b, rts_fn(b, a), {}, {})
         /\ Only(b, rti_fn(b, a), {}, Weights \ {BreakCommand, UnusedFlag})
         /\ Only(b, brk_fn(b, a), {}, {BreakCommand})
<1>1. ASSUME NEW c \in BusState, NEW F, Only(b, c, {}, F), NEW v
      PROVE  Only(b, [c EXCEPT !.program_counter = v], {}, F)
  <2>1. Only(c, [c EXCEPT !.program_counter = v], {}, {})
    BY UpdatesOnly
  <2> QED
    BY <1>1, <2>1, OnlyTransitive
<1>2. ToU16(b.program_counter - 1) \in u16 /\ ToU16(b.program_counter + 1) \in u16
  BY ProgramFields, Wraps
<1>3. Only(b, jsr_fn(b, a), {}, {})
  BY <1>1, <1>2, PushWordOnly DEF jsr_fn, ProgramState
<1>4. Only(b, rts_fn(b, a), {}, {})
  BY <1>1, PopWordType, PopOnly DEF rts_fn, ProgramState
<1>5. Only(b, rti_fn(b, a), {}, Weights \ {BreakCommand, UnusedFlag})
  <2> DEFINE pulled == plp_fn(b, a)
             popped == pop_stack_u16(pulled)
  <2>1. pulled \in ProgramState /\ Only(b, pulled, {}, Weights \ {BreakCommand, UnusedFlag})
    BY PlpType, StackFnsOnly
  <2> HIDE DEF pulled
  <2>2. popped.bus \in BusState /\ Only(pulled, popped.bus, {}, {})
    BY <2>1, PopWordType, PopOnly DEF ProgramState
  <2>3. rti_fn(b, a) = [popped.bus EXCEPT !.program_counter = popped.value]
    BY DEF rti_fn, pulled
  <2> HIDE DEF popped
  <2> QED
    BY <1>1, <2>1, <2>2, <2>3, OnlyTransitive
<1>6. Only(b, brk_fn(b, a), {}, {BreakCommand})
  <2> DEFINE returning == push_stack_u16(b, ToU16(b.program_counter + 1))
             flagged   == set_flag(returning, BreakCommand, TRUE)
             pushed    == push_stack(flagged, Byte(flagged.status))
  <2>1. returning \in BusState /\ Only(b, returning, {}, {})
    BY <1>2, PushWordOnly DEF ProgramState
  <2>2. brk_fn(b, a) = [pushed EXCEPT !.program_counter = read_mem_u16(pushed, IRQ_VECTOR)]
    BY DEF brk_fn
  <2> HIDE DEF returning
  <2>3. flagged \in BusState /\ Only(returning, flagged, {}, {BreakCommand})
    <3>1. flagged \in BusState
      BY <2>1, FlagValues DEF BusState, set_flag
    <3> QED
      BY <2>1, <3>1, FlagOnly
  <2> HIDE DEF flagged
  <2>4. pushed \in BusState /\ Only(flagged, pushed, {}, {})
    BY <2>3, ByteType, PushShape, PushOnly
  <2> HIDE DEF pushed
  <2> QED
    BY <1>1, <2>1, <2>2, <2>3, <2>4, OnlyTransitive
<1> QED
  BY <1>3, <1>4, <1>5, <1>6

\* c differs from b by what the comment above fn lists; the branches count
\* cycles too.
Changes(b, c, fn) ==
  Only(b, c, Result(fn) \cup (IF fn \in BranchFns THEN {"cycles"} ELSE {}), AffectedFlags(fn))

\* The step changes what the comment lists, and the cycles that run_cpu counts.
StepEffect ==
  /\ Only(bus, bus', Result(Fetched.fn) \cup {"cycles"}, AffectedFlags(Fetched.fn))
  /\ Fetched.fn \notin BranchFns => bus'.cycles = bus.cycles + Cycles(Fetched, Operand)

LEMMA IterationChanges ==
  ASSUME bus \in ProgramState, NEW after \in BusState,
         Retires(Fetched, Operand, after), Changes(Operand.bus, after, Fetched.fn)
  PROVE  StepEffect
<1>1. /\ bus'.accumulator = after.accumulator /\ bus'.x = after.x
      /\ bus'.y = after.y /\ bus'.status = after.status
      /\ bus'.cycles = after.cycles + Cycles(Fetched, Operand)
  BY RetiresKeeps
<1>2. /\ Operand.bus.accumulator = bus.accumulator /\ Operand.bus.x = bus.x
      /\ Operand.bus.y = bus.y /\ Operand.bus.status = bus.status
      /\ Operand.bus.cycles = bus.cycles
  BY OperandKeeps
<1>3. "cycles" \notin Result(Fetched.fn)
  BY DEF Result
<1> HIDE DEF Fetched, Operand, Retires, Cycles
<1> QED
  BY <1>1, <1>2, <1>3 DEF Changes, StepEffect, Only

LEMMA LoadStoreChanges ==
  ASSUME NEW b \in ProgramState, NEW a \in u16
  PROVE  /\ Changes(b, lda_fn(b, a), "lda") /\ Changes(b, ldx_fn(b, a), "ldx")
         /\ Changes(b, ldy_fn(b, a), "ldy") /\ Changes(b, lax_fn(b, a), "lax")
         /\ Changes(b, sta_fn(b, a), "sta") /\ Changes(b, stx_fn(b, a), "stx")
         /\ Changes(b, sty_fn(b, a), "sty") /\ Changes(b, sax_fn(b, a), "sax")
  BY LoadOnly, StoreOnly
     DEF Changes, Result, AffectedFlags, AccShiftFns, LoadFns, IncDecFns, BranchFns, NZ

LEMMA TransferChanges ==
  ASSUME NEW b \in ProgramState, NEW a \in u16
  PROVE  /\ Changes(b, tax_fn(b, a), "tax") /\ Changes(b, tay_fn(b, a), "tay")
         /\ Changes(b, tsx_fn(b, a), "tsx") /\ Changes(b, txa_fn(b, a), "txa")
         /\ Changes(b, txs_fn(b, a), "txs") /\ Changes(b, tya_fn(b, a), "tya")
  BY TransferOnly
     DEF Changes, Result, AffectedFlags, AccShiftFns, LoadFns, IncDecFns, BranchFns, NZ

LEMMA AluChanges ==
  ASSUME NEW b \in ProgramState, NEW a \in u16
  PROVE  /\ Changes(b, adc_fn(b, a), "adc") /\ Changes(b, sbc_fn(b, a), "sbc")
         /\ Changes(b, and_fn(b, a), "and") /\ Changes(b, ora_fn(b, a), "ora")
         /\ Changes(b, eor_fn(b, a), "eor") /\ Changes(b, bit_fn(b, a), "bit")
         /\ Changes(b, cmp_fn(b, a), "cmp") /\ Changes(b, cpx_fn(b, a), "cpx")
         /\ Changes(b, cpy_fn(b, a), "cpy")
  BY LogicOnly, AluOnly
     DEF Changes, Result, AffectedFlags, AccShiftFns, LoadFns, IncDecFns, BranchFns,
         NZ, CNZ, VNZ, CVNZ

LEMMA RegisterChanges ==
  ASSUME NEW b \in ProgramState, NEW a \in u16
  PROVE  /\ Changes(b, inx_fn(b, a), "inx") /\ Changes(b, iny_fn(b, a), "iny")
         /\ Changes(b, dex_fn(b, a), "dex") /\ Changes(b, dey_fn(b, a), "dey")
         /\ Changes(b, asl_acc_fn(b, a), "asl_acc") /\ Changes(b, lsr_acc_fn(b, a), "lsr_acc")
         /\ Changes(b, rol_acc_fn(b, a), "rol_acc") /\ Changes(b, ror_acc_fn(b, a), "ror_acc")
  BY IncDecOnly, AccShiftOnly
     DEF Changes, Result, AffectedFlags, AccShiftFns, LoadFns, IncDecFns, BranchFns,
         NZ, CNZ

LEMMA ReadModifyWriteChanges ==
  ASSUME NEW b \in ProgramState, NEW a \in u16
  PROVE  /\ Changes(b, asl_fn(b, a), "asl") /\ Changes(b, lsr_fn(b, a), "lsr")
         /\ Changes(b, rol_fn(b, a), "rol") /\ Changes(b, ror_fn(b, a), "ror")
         /\ Changes(b, inc_fn(b, a), "inc") /\ Changes(b, dec_fn(b, a), "dec")
         /\ Changes(b, slo_fn(b, a), "slo") /\ Changes(b, rla_fn(b, a), "rla")
         /\ Changes(b, sre_fn(b, a), "sre") /\ Changes(b, rra_fn(b, a), "rra")
         /\ Changes(b, dcp_fn(b, a), "dcp") /\ Changes(b, isb_fn(b, a), "isb")
  BY MemoryShiftOnly, CountOnly, ComposedOnly
     DEF Changes, Result, AffectedFlags, AccShiftFns, LoadFns, IncDecFns, BranchFns,
         NZ, CNZ, CVNZ

LEMMA BranchChanges ==
  ASSUME NEW b \in ProgramState, NEW a \in u16
  PROVE  /\ Changes(b, bcc_fn(b, a), "bcc") /\ Changes(b, bcs_fn(b, a), "bcs")
         /\ Changes(b, bne_fn(b, a), "bne") /\ Changes(b, beq_fn(b, a), "beq")
         /\ Changes(b, bpl_fn(b, a), "bpl") /\ Changes(b, bmi_fn(b, a), "bmi")
         /\ Changes(b, bvc_fn(b, a), "bvc") /\ Changes(b, bvs_fn(b, a), "bvs")
  BY BranchesOnly
     DEF Changes, Result, AffectedFlags, AccShiftFns, LoadFns, IncDecFns, BranchFns

LEMMA JumpChanges ==
  ASSUME NEW b \in ProgramState, NEW a \in u16
  PROVE  /\ Changes(b, jmp_fn(b, a), "jmp") /\ Changes(b, jsr_fn(b, a), "jsr")
         /\ Changes(b, rts_fn(b, a), "rts") /\ Changes(b, rti_fn(b, a), "rti")
         /\ Changes(b, brk_fn(b, a), "brk")
  BY FlagFnsOnly, JumpOnly
     DEF Changes, Result, AffectedFlags, AccShiftFns, LoadFns, IncDecFns, BranchFns

LEMMA StackFnChanges ==
  ASSUME NEW b \in ProgramState, NEW a \in u16
  PROVE  /\ Changes(b, pha_fn(b, a), "pha") /\ Changes(b, php_fn(b, a), "php")
         /\ Changes(b, pla_fn(b, a), "pla") /\ Changes(b, plp_fn(b, a), "plp")
  BY StackFnsOnly
     DEF Changes, Result, AffectedFlags, AccShiftFns, LoadFns, IncDecFns, BranchFns, NZ

LEMMA FlagChanges ==
  ASSUME NEW b \in ProgramState, NEW a \in u16
  PROVE  /\ Changes(b, clc_fn(b, a), "clc") /\ Changes(b, cld_fn(b, a), "cld")
         /\ Changes(b, cli_fn(b, a), "cli") /\ Changes(b, clv_fn(b, a), "clv")
         /\ Changes(b, sec_fn(b, a), "sec") /\ Changes(b, sed_fn(b, a), "sed")
         /\ Changes(b, sei_fn(b, a), "sei")
  BY FlagFnsOnly
     DEF Changes, Result, AffectedFlags, AccShiftFns, LoadFns, IncDecFns, BranchFns

LEMMA EmptyChanges ==
  ASSUME NEW b \in ProgramState, NEW a \in u16
  PROVE  \A fn \in EmptyFns : Changes(b, nop_fn(b, a), fn)
<1>1. Only(b, nop_fn(b, a), {}, {})
  BY FlagFnsOnly
<1>2. \A fn \in EmptyFns : Result(fn) = {} /\ AffectedFlags(fn) = {}
  BY DEF Result, AffectedFlags, AccShiftFns, LoadFns, IncDecFns, EmptyFns
<1>3. \A fn \in EmptyFns : fn \notin BranchFns
  BY DEF BranchFns, EmptyFns
<1> QED
  BY <1>1, <1>2, <1>3 DEF Changes

\* A step changes the registers and the flags its instruction is about.
LEMMA StepChanges ==
  ASSUME bus \in ProgramState, Step
  PROVE  StepEffect
<1> DEFINE b == Operand.bus
           a == Operand.address
<1>1. b \in ProgramState /\ a \in u16
  BY OperandType
<1> HIDE DEF b, a
<1>2. ASSUME NEW after \in ProgramState, Retires(Fetched, Operand, after),
             Changes(b, after, Fetched.fn)
      PROVE  StepEffect
  BY <1>2, IterationChanges DEF ProgramState, b
<1>3. CASE Load
  BY <1>1, <1>2, <1>3, LoadType, LoadStoreChanges DEF Load, Execute, Dispatches, Operand, b, a
<1>4. CASE Store
  BY <1>1, <1>2, <1>4, StoreType, LoadStoreChanges DEF Store, Execute, Dispatches, Operand, b, a
<1>5. CASE Transfer
  BY <1>1, <1>2, <1>5, TransferType, TransferChanges
     DEF Transfer, Execute, Dispatches, Operand, b, a
<1>6. CASE Alu
  BY <1>1, <1>2, <1>6, LogicType, AluType, AluChanges
     DEF Alu, Execute, Dispatches, Operand, b, a
<1>7. CASE IncDec
  BY <1>1, <1>2, <1>7, IncDecType, RegisterChanges
     DEF IncDec, Execute, Dispatches, Operand, b, a
<1>8. CASE Shift
  BY <1>1, <1>2, <1>8, AccShiftType, RegisterChanges
     DEF Shift, Execute, Dispatches, Operand, b, a
<1>9. CASE ReadModifyWrite
  BY <1>1, <1>2, <1>9, MemoryShiftType, CountType, ComposedType, ReadModifyWriteChanges
     DEF ReadModifyWrite, Execute, Dispatches, Operand, b, a
<1>10. CASE Branch
  BY <1>1, <1>2, <1>10, BranchesType, BranchChanges
     DEF Branch, Execute, Dispatches, Operand, b, a
<1>11. CASE Jump
  <2>1. ASSUME NEW after \in BusState, Retires(Fetched, Operand, after),
               Changes(b, after, Fetched.fn)
        PROVE  StepEffect
    BY <2>1, IterationChanges DEF b
  <2>2. CASE Execute("brk", brk_fn)
    BY <1>1, <2>1, <2>2, BrkType, JumpChanges DEF Execute, Dispatches, Operand, b, a
  <2>3. CASE ~Execute("brk", brk_fn)
    BY <1>1, <1>2, <1>11, <2>3, JumpType, JumpChanges
       DEF Jump, Execute, Dispatches, Operand, b, a
  <2> QED
    BY <2>2, <2>3
<1>12. CASE Stack
  BY <1>1, <1>2, <1>12, StackFnsType, PlpType, StackFnChanges
     DEF Stack, Execute, Dispatches, Operand, b, a
<1>13. CASE Flag
  BY <1>1, <1>2, <1>13, FlagFnsType, FlagChanges DEF Flag, Execute, Dispatches, Operand, b, a
<1>14. CASE Empty
  <2>1. nop_fn(b, a) \in ProgramState
    BY <1>1 DEF nop_fn
  <2> QED
    BY <1>1, <1>2, <1>14, <2>1, EmptyChanges DEF Empty, Execute, Dispatches, Operand, b, a
<1> QED
  BY <1>3, <1>4, <1>5, <1>6, <1>7, <1>8, <1>9, <1>10, <1>11, <1>12, <1>13, <1>14 DEF Step

-----------------------------------------------------------------------------
(* The RAM an instruction writes.                                          *)

\* The RAM of c is that of b but for some cells.
RamBut(cells, b, c) ==
  \A cell \in (0 .. RAM_SIZE - 1) \ cells : c.cpu_ram[cell] = b.cpu_ram[cell]

\* The cells that n pushes from b write.
PushCells(b, n) == {STACK_START + ToU8(b.stack_pointer - i) : i \in 0 .. n - 1}

LEMMA RamButTransitive ==
  ASSUME NEW b, NEW c, NEW d, NEW cells, RamBut(cells, b, c), RamBut(cells, c, d)
  PROVE  RamBut(cells, b, d)
  BY DEF RamBut

LEMMA PushWrites ==
  ASSUME NEW b \in BusState, NEW v \in u8
  PROVE  RamBut({STACK_START + b.stack_pointer}, b, push_stack(b, v))
<1>1. push_stack(b, v).cpu_ram = [b.cpu_ram EXCEPT ![STACK_START + b.stack_pointer] = v]
  BY PushShape
<1>2. b.cpu_ram \in [0 .. RAM_SIZE - 1 -> u8]
  BY DEF BusState
<1> QED
  BY <1>1, <1>2 DEF RamBut

LEMMA FirstCells ==
  ASSUME NEW b \in BusState
  PROVE  /\ PushCells(b, 1) = {STACK_START + b.stack_pointer}
         /\ PushCells(b, 1) \subseteq PushCells(b, 2)
         /\ PushCells(b, 2) \subseteq PushCells(b, 3)
         /\ STACK_START + ToU8(b.stack_pointer - 1) \in PushCells(b, 2)
         /\ STACK_START + ToU8(ToU8(b.stack_pointer - 1) - 1) \in PushCells(b, 3)
<1>1. b.stack_pointer \in u8
  BY FieldTypes
<1>2. /\ ToU8(b.stack_pointer - 0) = b.stack_pointer
      /\ ToU8(ToU8(b.stack_pointer - 1) - 1) = ToU8(b.stack_pointer - 2)
  BY <1>1, U8 DEF ToU8
<1>3. 0 .. 1 - 1 = {0} /\ 0 .. 2 - 1 = {0, 1} /\ 0 .. 3 - 1 = {0, 1, 2}
  OBVIOUS
<1> QED
  BY <1>2, <1>3 DEF PushCells

LEMMA PushWordWrites ==
  ASSUME NEW b \in BusState, NEW w \in u16
  PROVE  /\ RamBut(PushCells(b, 2), b, push_stack_u16(b, w))
         /\ push_stack_u16(b, w).stack_pointer = ToU8(ToU8(b.stack_pointer - 1) - 1)
<1> DEFINE c == push_stack(b, HighByte(w))
<1>1. HighByte(w) \in u8 /\ LowByte(w) \in u8
  BY Widths, U16
<1>2. /\ c \in BusState /\ c.stack_pointer = ToU8(b.stack_pointer - 1)
      /\ RamBut({STACK_START + b.stack_pointer}, b, c)
  BY <1>1, PushShape, PushWrites
<1>3. push_stack_u16(b, w) = push_stack(c, LowByte(w))
  BY DEF push_stack_u16
<1> HIDE DEF c
<1>4. /\ push_stack(c, LowByte(w)).stack_pointer = ToU8(c.stack_pointer - 1)
      /\ RamBut({STACK_START + c.stack_pointer}, c, push_stack(c, LowByte(w)))
  BY <1>1, <1>2, PushShape, PushWrites
<1>5. RamBut(PushCells(b, 2), b, c) /\ RamBut(PushCells(b, 2), c, push_stack(c, LowByte(w)))
  BY <1>2, <1>4, FirstCells DEF RamBut
<1> QED
  BY <1>2, <1>3, <1>4, <1>5, RamButTransitive

LEMMA PopKeepsRam ==
  ASSUME NEW b \in ProgramState
  PROVE  pop_stack(b).bus.cpu_ram = b.cpu_ram /\ pop_stack_u16(b).bus.cpu_ram = b.cpu_ram
<1>1. \A c \in ProgramState : pop_stack(c).bus.cpu_ram = c.cpu_ram
  BY DEF pop_stack, ProgramState, BusState
<1>2. pop_stack_u16(b).bus = pop_stack(pop_stack(b).bus).bus
  BY DEF pop_stack_u16
<1> QED
  BY <1>1, <1>2, PopType

\* The functions that move the stack pointer without a push.
LEMMA PullsKeepRam ==
  ASSUME NEW b \in ProgramState, NEW a \in u16
  PROVE  /\ txs_fn(b, a).cpu_ram = b.cpu_ram /\ pla_fn(b, a).cpu_ram = b.cpu_ram
         /\ plp_fn(b, a).cpu_ram = b.cpu_ram /\ rts_fn(b, a).cpu_ram = b.cpu_ram
         /\ rti_fn(b, a).cpu_ram = b.cpu_ram
<1>1. txs_fn(b, a).cpu_ram = b.cpu_ram
  BY DEF txs_fn, ProgramState, BusState
<1>2. pla_fn(b, a).cpu_ram = b.cpu_ram
  BY PopType, PopKeepsRam, SetRegisterKeeps DEF pla_fn, Kept
<1>3. plp_fn(b, a).cpu_ram = b.cpu_ram
  BY PopType, PopKeepsRam DEF plp_fn, ProgramState, BusState
<1>4. rts_fn(b, a).cpu_ram = b.cpu_ram
  BY PopWordType, PopKeepsRam DEF rts_fn, ProgramState, BusState
<1>5. rti_fn(b, a).cpu_ram = b.cpu_ram
  BY <1>3, PlpType, PopWordType, PopKeepsRam DEF rti_fn, ProgramState, BusState
<1> QED
  BY <1>1, <1>2, <1>3, <1>4, <1>5

LEMMA PushesWrite ==
  ASSUME NEW b \in ProgramState, NEW a \in u16
  PROVE  /\ RamBut(PushCells(b, 1), b, pha_fn(b, a))
         /\ RamBut(PushCells(b, 1), b, php_fn(b, a))
         /\ RamBut(PushCells(b, 2), b, jsr_fn(b, a))
         /\ RamBut(PushCells(b, 3), b, brk_fn(b, a))
<1>1. b \in BusState /\ b.accumulator \in u8
  BY ProgramFields DEF ProgramState
<1>2. ASSUME NEW c \in BusState, NEW v
      PROVE  [c EXCEPT !.program_counter = v].cpu_ram = c.cpu_ram
  BY DEF BusState
<1>3. RamBut(PushCells(b, 1), b, pha_fn(b, a)) /\ RamBut(PushCells(b, 1), b, php_fn(b, a))
  BY <1>1, ByteType, PushWrites, FirstCells DEF pha_fn, php_fn
<1>4. ToU16(b.program_counter - 1) \in u16 /\ ToU16(b.program_counter + 1) \in u16
  BY ProgramFields, Wraps
<1>5. RamBut(PushCells(b, 2), b, jsr_fn(b, a))
  BY <1>1, <1>2, <1>4, PushWordOnly, PushWordWrites DEF jsr_fn, RamBut
<1>6. RamBut(PushCells(b, 3), b, brk_fn(b, a))
  <2> DEFINE returning == push_stack_u16(b, ToU16(b.program_counter + 1))
             flagged   == set_flag(returning, BreakCommand, TRUE)
             pushed    == push_stack(flagged, Byte(flagged.status))
  <2>1. /\ returning \in BusState /\ RamBut(PushCells(b, 2), b, returning)
        /\ returning.stack_pointer = ToU8(ToU8(b.stack_pointer - 1) - 1)
    BY <1>1, <1>4, PushWordOnly, PushWordWrites
  <2>2. brk_fn(b, a) = [pushed EXCEPT !.program_counter = read_mem_u16(pushed, IRQ_VECTOR)]
    BY DEF brk_fn
  <2> HIDE DEF returning
  <2>3. /\ flagged \in BusState /\ flagged.cpu_ram = returning.cpu_ram
        /\ flagged.stack_pointer = returning.stack_pointer
    BY <2>1, FlagValues DEF BusState, set_flag
  <2> HIDE DEF flagged
  <2>4. pushed \in BusState /\ RamBut({STACK_START + flagged.stack_pointer}, flagged, pushed)
    BY <2>3, ByteType, PushShape, PushWrites
  <2> HIDE DEF pushed
  <2>5. RamBut(PushCells(b, 3), b, returning) /\ RamBut(PushCells(b, 3), returning, pushed)
    BY <1>1, <2>1, <2>3, <2>4, FirstCells DEF RamBut
  <2>6. brk_fn(b, a).cpu_ram = pushed.cpu_ram
    BY <1>2, <2>2, <2>4
  <2> QED
    BY <2>5, <2>6 DEF RamBut
<1> QED
  BY <1>3, <1>5, <1>6

\* What the pushes of an iteration write.
LEMMA IterationWrites ==
  ASSUME bus \in ProgramState, NEW after \in BusState,
         Retires(Fetched, Operand, after), NEW n,
         RamBut(PushCells(Operand.bus, n), Operand.bus, after)
  PROVE  RamBut(PushCells(bus, n), bus, bus')
<1>1. bus'.cpu_ram = after.cpu_ram
  BY RetiresKeeps DEF Kept
<1>2. Operand.bus.cpu_ram = bus.cpu_ram /\ Operand.bus.stack_pointer = bus.stack_pointer
  BY OperandKeeps DEF Kept
<1> HIDE DEF Fetched, Operand, Retires
<1> QED
  BY <1>1, <1>2 DEF RamBut, PushCells

LEMMA RamAddresses ==
  \A a \in u16 : a < RAM_MIRROR_END => a \in 0 .. RAM_MIRROR_END - 1
<1>1. \A a \in u16 : a \in Nat
  BY U16
<1>2. RAM_MIRROR_END \in Int
  BY DEF RAM_MIRROR_END
<1> QED
  BY <1>1, <1>2

\* No step writes RAM but at its operand or where it pushes.
LEMMA StepWrites ==
  ASSUME bus \in ProgramState, Step, WritersHaveOperands
  PROVE  RamBut(WritableCells(Fetched.fn), bus, bus')
<1> DEFINE b == Operand.bus
           a == Operand.address
<1>1. b \in ProgramState /\ a \in u16
  BY OperandType
<1>2. CASE Fetched.fn \in QuietFns
  BY <1>2, QuietStep DEF Kept, RamBut
<1>3. CASE Fetched.fn \in StoreFns \cup RmwFns
  <2>1. HasOperand
    <3>1. bus \in BusState /\ bus.program_counter \in u16
      BY ProgramFields DEF ProgramState
    <3>2. read_mem(bus, bus.program_counter) \in u8
      BY <3>1, ReadType
    <3>3. /\ Fetched.fn = opcodes[read_mem(bus, bus.program_counter)].fn
          /\ Fetched.addressing_mode
               = opcodes[read_mem(bus, bus.program_counter)].addressing_mode
      BY DEF Fetched, get_next_opcode
    <3> QED
      BY <1>3, <3>2, <3>3 DEF HasOperand, WritersHaveOperands
  <2>2. WritableCells(Fetched.fn)
          = {RamCell(c) : c \in {Operand.address} \cap 0 .. RAM_MIRROR_END - 1}
    BY <1>3, <2>1 DEF WritableCells
  <2>3. KeptBut(Operand.address, bus, bus')
    BY <1>3, WriteStep
  <2>4. Operand.address < RAM_MIRROR_END =>
          RamCell(Operand.address) \in WritableCells(Fetched.fn)
    <3> HIDE DEF b, a
    <3> QED
      BY <1>1, <2>2, RamAddresses DEF a
  <2> QED
    BY <2>3, <2>4 DEF KeptBut, RamBut
<1>4. CASE Fetched.fn \in {"txs", "jsr", "rts", "rti", "brk"} \cup StackFns
  <2>1. Fetched.fn \notin StoreFns \cup RmwFns
    BY <1>4 DEF StoreFns, RmwFns, StackFns
  <2>2. WritableCells(Fetched.fn) = PushCells(bus, PushedBytes(Fetched.fn))
    BY <2>1 DEF WritableCells, PushCells
  <2>3. /\ PushedBytes("pha") = 1 /\ PushedBytes("php") = 1
        /\ PushedBytes("jsr") = 2 /\ PushedBytes("brk") = 3
    BY DEF PushedBytes
  <2>4. Transfer \/ Jump \/ Stack
    BY <1>4, Families DEF LoadFns, StoreFns, TransferFns, AluFns, IncDecFns, AccShiftFns,
                    RmwFns, BranchFns, JumpFns, StackFns, FlagFns, EmptyFns
  <2> HIDE DEF b, a
  <2>5. ASSUME NEW after \in ProgramState, Retires(Fetched, Operand, after),
               after.cpu_ram = b.cpu_ram
        PROVE  RamBut(WritableCells(Fetched.fn), bus, bus')
    <3>1. RamBut(PushCells(Operand.bus, PushedBytes(Fetched.fn)), Operand.bus, after)
      BY <2>5 DEF RamBut, b
    <3> QED
      BY <2>2, <2>5, <3>1, IterationWrites DEF ProgramState
  <2>6. ASSUME NEW after \in BusState, Retires(Fetched, Operand, after),
               RamBut(PushCells(b, PushedBytes(Fetched.fn)), b, after)
        PROVE  RamBut(WritableCells(Fetched.fn), bus, bus')
    BY <2>2, <2>6, IterationWrites DEF b
  <2>7. CASE Execute("jmp", jmp_fn)
    BY <1>4, <2>7 DEF Execute, Dispatches, StackFns
  <2>8. CASE Transfer
    BY <1>1, <1>4, <2>5, <2>8, TransferType, PullsKeepRam
       DEF Transfer, Execute, Dispatches, StackFns, Operand, b, a
  <2>9. CASE Stack
    <3>1. \/ Execute("pha", pha_fn) \/ Execute("php", php_fn)
          \/ Execute("pla", pla_fn) \/ Execute("plp", plp_fn)
      BY <2>9 DEF Stack
    <3>2. CASE Execute("pla", pla_fn) \/ Execute("plp", plp_fn)
      BY <1>1, <2>5, <3>2, StackFnsType, PlpType, PullsKeepRam
         DEF Execute, Dispatches, Operand, b, a
    <3>3. CASE Execute("pha", pha_fn) \/ Execute("php", php_fn)
      BY <1>1, <2>3, <2>6, <3>3, StackFnsType, PushesWrite
         DEF Execute, Dispatches, Operand, b, a, ProgramState
    <3> QED
      BY <3>1, <3>2, <3>3
  <2>10. CASE Jump
    <3>1. CASE Execute("rts", rts_fn) \/ Execute("rti", rti_fn)
      BY <1>1, <2>5, <3>1, JumpType, PullsKeepRam DEF Execute, Operand, b, a
    <3>2. CASE Execute("jsr", jsr_fn)
      BY <1>1, <2>3, <2>6, <3>2, JumpType, PushesWrite
         DEF Execute, Dispatches, Operand, b, a, ProgramState
    <3>3. CASE Execute("brk", brk_fn)
      BY <1>1, <2>3, <2>6, <3>3, BrkType, PushesWrite DEF Execute, Dispatches, Operand, b, a
    <3> QED
      BY <2>7, <2>10, <3>1, <3>2, <3>3 DEF Jump
  <2> QED
    BY <2>4, <2>8, <2>9, <2>10
<1> QED
  <2>1. Fetched.fn \in Fns
    BY ProgramFields, DecodeType DEF Fetched, ProgramState
  <2> QED
    BY <1>2, <1>3, <1>4, <2>1 DEF QuietFns

LEMMA StepKeepsStackPointer ==
  ASSUME bus \in ProgramState, Step, Fetched.fn \notin MovesStackPointer
  PROVE  bus'.stack_pointer = bus.stack_pointer
<1>1. Fetched.fn \in Fns
  BY ProgramFields, DecodeType DEF Fetched, ProgramState
<1>2. Fetched.fn \in QuietFns \/ Fetched.fn \in StoreFns \cup RmwFns
  BY <1>1 DEF QuietFns, MovesStackPointer
<1> QED
  BY <1>2, QuietStep, WriteStep DEF Kept, KeptBut

LEMMA StepUndisturbed ==
  ASSUME bus \in ProgramState, Step, WritersHaveOperands
  PROVE  Undisturbed
<1>1. Only(bus, bus', Result(Fetched.fn) \cup {"cycles"}, AffectedFlags(Fetched.fn))
  BY StepChanges DEF StepEffect
<1>2. \A r \in Registers \ Result(Fetched.fn) : bus'[r] = bus[r]
  BY <1>1 DEF Only, Registers
<1>3. DOMAIN bus.cpu_ram = 0 .. RAM_SIZE - 1
  BY DEF ProgramState, BusState
<1>4. {cell \in DOMAIN bus.cpu_ram : bus'.cpu_ram[cell] # bus.cpu_ram[cell]}
        \subseteq WritableCells(Fetched.fn)
  BY <1>3, StepWrites DEF RamBut
<1>5. bus'.cartridge = bus.cartridge
  BY StepKeepsCartridge DEF SameCartridge
<1> QED
  BY <1>1, <1>2, <1>4, <1>5, StepKeepsStackPointer DEF Undisturbed, Only

\* An instruction of any table changes the registers and the flags the comment
\* above its function lists, writes RAM only at its operand or below the stack
\* pointer, and leaves the cartridge alone.
THEOREM InstructionsKeepTheRest ==
  ASSUME WritersHaveOperands
  PROVE  Spec => Frame
<1>1. IInv /\ [Next]_vars => [Running => Undisturbed]_vars
  BY RunningStep, StepUndisturbed
<1> QED
  BY InitIInv, NextIInv, <1>1, PTL DEF Spec, Frame

-----------------------------------------------------------------------------
(* Arithmetic.                                                             *)

LEMMA SetFlag ==
  ASSUME NEW b \in BusState, NEW flag, NEW v \in BOOLEAN
  PROVE  /\ flag \in set_flag(b, flag, v).status <=> v
         /\ \A g : g # flag => (g \in set_flag(b, flag, v).status <=> g \in b.status)
         /\ set_flag(b, flag, v).accumulator = b.accumulator
<1> DEFINE status == IF v THEN b.status \cup {flag} ELSE b.status \ {flag}
<1>1. /\ flag \in status <=> v
      /\ \A g : g # flag => (g \in status <=> g \in b.status)
  OBVIOUS
<1>2. set_flag(b, flag, v) = [b EXCEPT !.status = status]
  BY DEF set_flag
<1> HIDE DEF status
<1>3. /\ [b EXCEPT !.status = status].status = status
      /\ [b EXCEPT !.status = status].accumulator = b.accumulator
  BY DEF BusState
<1> QED
  BY <1>1, <1>2, <1>3

LEMMA FlagsDiffer ==
  /\ CarryFlag # ZeroFlag /\ CarryFlag # NegativeFlag /\ CarryFlag # OverflowFlag
  /\ ZeroFlag # NegativeFlag /\ ZeroFlag # OverflowFlag /\ NegativeFlag # OverflowFlag
  BY DEF CarryFlag, ZeroFlag, NegativeFlag, OverflowFlag

LEMMA ZeroNegative ==
  ASSUME NEW b \in ProgramState, NEW v \in u8
  PROVE  LET c == update_zero_and_negative_flags(b, v)
         IN  /\ ZeroFlag \in c.status <=> v = 0
             /\ NegativeFlag \in c.status <=> v >= 128
             /\ \A g : g \notin {ZeroFlag, NegativeFlag} =>
                  (g \in c.status <=> g \in b.status)
             /\ c.accumulator = b.accumulator
<1> DEFINE zero == set_flag(b, ZeroFlag, v = 0)
           c    == set_flag(zero, NegativeFlag, Bit7(v))
<1>1. Bit7(v) \in BOOLEAN /\ (Bit7(v) <=> v >= 128)
  BY U8 DEF Bit7
<1>2. /\ ZeroFlag \in zero.status <=> v = 0
      /\ \A g : g # ZeroFlag => (g \in zero.status <=> g \in b.status)
      /\ zero.accumulator = b.accumulator
  BY SetFlag DEF ProgramState
<1>3. zero \in BusState
  BY FlagValues, FlagUpdates DEF ProgramState
<1> HIDE DEF zero
<1>4. /\ NegativeFlag \in c.status <=> Bit7(v)
      /\ \A g : g # NegativeFlag => (g \in c.status <=> g \in zero.status)
      /\ c.accumulator = zero.accumulator
  BY <1>1, <1>3, SetFlag
<1> HIDE DEF c
<1>5. update_zero_and_negative_flags(b, v) = c
  BY DEF update_zero_and_negative_flags, c, zero
<1> QED
  BY <1>1, <1>2, <1>4, <1>5, FlagsDiffer

\* A + M and the carry in unsigned and in signed arithmetic.
LEMMA Overflow ==
  ASSUME NEW A \in u8, NEW M \in u8, NEW C \in {0, 1}
  PROVE  LET R == M + A + C
         IN  /\ R \in 0 .. 511
             /\ HighByte(R) # 0 <=> A + M + C > 255
             /\ LowByte(R) = ToU8(A + M + C)
             /\ (Bit7(A) <=> Bit7(M)) /\ ~(Bit7(M) <=> Bit7(R))
                  <=> Signed(A) + Signed(M) + C \notin -128 .. 127
<1>1. A \in 0 .. 255 /\ M \in 0 .. 255
  BY DEF u8
<1> DEFINE R == M + A + C
<1>2. R \in 0 .. 511 /\ R = A + M + C
  BY <1>1
<1>3. (HighByte(R) # 0 <=> R > 255) /\ LowByte(R) = ToU8(R)
  BY <1>2 DEF HighByte, LowByte, ToU8
<1>4. (Bit7(A) <=> A >= 128) /\ (Bit7(M) <=> M >= 128)
  BY <1>1 DEF Bit7
<1>5. Bit7(R) <=> (R >= 128 /\ R < 256) \/ R >= 384
  <2> HIDE DEF R
  <2> QED
    BY <1>2 DEF Bit7
<1>6. (A >= 128 <=> M >= 128) /\ ~(M >= 128 <=> ((R >= 128 /\ R < 256) \/ R >= 384))
        <=> Signed(A) + Signed(M) + C \notin -128 .. 127
  BY <1>1 DEF Signed
<1> QED
  BY <1>2, <1>3, <1>4, <1>5, <1>6

\* What AddWithCarry leaves, as the instruction's definition in integers.
LEMMA AddWithCarryAdds ==
  ASSUME NEW b \in ProgramState, NEW M \in u8
  PROVE  LET A == b.accumulator
             C == IF CarryFlag \in b.status THEN 1 ELSE 0
             c == AddWithCarry(b, M)
         IN  /\ c.accumulator = ToU8(A + M + C)
             /\ CarryFlag \in c.status <=> A + M + C > 255
             /\ OverflowFlag \in c.status <=> Signed(A) + Signed(M) + C \notin -128 .. 127
             /\ ZeroFlag \in c.status <=> c.accumulator = 0
             /\ NegativeFlag \in c.status <=> c.accumulator >= 128
<1> DEFINE A == b.accumulator
           C == IF CarryFlag \in b.status THEN 1 ELSE 0
           R == M + A + C
           low == LowByte(R)
           carry == HighByte(R) # 0
           overflow == (Bit7(A) <=> Bit7(M)) /\ ~(Bit7(M) <=> Bit7(R))
           carried == set_flag(b, CarryFlag, carry)
           stored == [carried EXCEPT !.accumulator = low]
           added == update_zero_and_negative_flags(stored, low)
           c == set_flag(added, OverflowFlag, overflow)
<1>1. A \in u8 /\ C \in {0, 1}
  BY ProgramFields
<1>2. /\ low = ToU8(A + M + C)
      /\ carry <=> A + M + C > 255
      /\ overflow <=> Signed(A) + Signed(M) + C \notin -128 .. 127
  BY <1>1, Overflow
<1>3. low \in u8 /\ carry \in BOOLEAN /\ overflow \in BOOLEAN
  <2>1. A + M + C \in Int
    BY <1>1, U8
  <2> QED
    BY <1>2, <2>1, Widths
<1>4. AddWithCarry(b, M) = c
  BY DEF AddWithCarry, SetA
<1> HIDE DEF low, carry, overflow
<1>5. carried \in ProgramState /\ (CarryFlag \in carried.status <=> carry)
  BY <1>3, FlagValues, FlagUpdates, SetFlag DEF ProgramState
<1> HIDE DEF carried
<1>6. stored \in ProgramState /\ stored.status = carried.status /\ stored.accumulator = low
  BY <1>3, <1>5, RegisterUpdates DEF ProgramState, BusState
<1> HIDE DEF stored
<1>7. /\ added \in ProgramState /\ added.accumulator = low
      /\ ZeroFlag \in added.status <=> low = 0
      /\ NegativeFlag \in added.status <=> low >= 128
      /\ CarryFlag \in added.status <=> CarryFlag \in stored.status
  BY <1>3, <1>6, ZeroNegative, ZeroNegativeType, FlagsDiffer
<1> HIDE DEF added
<1>8. /\ c.accumulator = added.accumulator
      /\ OverflowFlag \in c.status <=> overflow
      /\ \A g : g # OverflowFlag => (g \in c.status <=> g \in added.status)
  BY <1>3, <1>7, SetFlag DEF ProgramState
<1> HIDE DEF c
<1>9. /\ CarryFlag \in c.status <=> carry
      /\ ZeroFlag \in c.status <=> low = 0
      /\ NegativeFlag \in c.status <=> low >= 128
      /\ c.accumulator = low
  BY <1>5, <1>6, <1>7, <1>8, FlagsDiffer
<1> HIDE DEF A, C, R
<1>10. /\ c.accumulator = ToU8(A + M + C)
       /\ CarryFlag \in c.status <=> A + M + C > 255
       /\ OverflowFlag \in c.status <=> Signed(A) + Signed(M) + C \notin -128 .. 127
       /\ ZeroFlag \in c.status <=> c.accumulator = 0
       /\ NegativeFlag \in c.status <=> c.accumulator >= 128
  BY <1>2, <1>8, <1>9
<1> QED
  BY <1>4, <1>10 DEF A, C

\* Adding the complement subtracts, the carry being the absence of a borrow.
LEMMA ComplementSubtracts ==
  ASSUME NEW A \in u8, NEW M \in u8, NEW C \in {0, 1}
  PROVE  /\ 255 - M \in u8
         /\ ToU8(A + (255 - M) + C) = ToU8(A - M - (1 - C))
         /\ A + (255 - M) + C > 255 <=> A - M - (1 - C) >= 0
         /\ Signed(A) + Signed(255 - M) + C = Signed(A) - Signed(M) - (1 - C)
<1>1. A \in Int /\ M \in Int /\ 0 <= M /\ M <= 255 /\ C \in Int
  BY U8
<1>2. A + (255 - M) + C = (A - M - (1 - C)) + 256
  BY <1>1
<1>3. ToU8((A - M - (1 - C)) + 256) = ToU8(A - M - (1 - C))
  BY <1>1 DEF ToU8
<1>4. Signed(A) \in Int
  BY <1>1 DEF Signed
<1>5. Signed(255 - M) = -1 - Signed(M) /\ Signed(M) \in Int
  BY <1>1 DEF Signed
<1>6. Signed(A) + Signed(255 - M) + C = Signed(A) - Signed(M) - (1 - C)
  <2> HIDE DEF Signed
  <2> QED
    BY <1>1, <1>4, <1>5
<1> QED
  BY <1>1, <1>2, <1>3, <1>6, U8

LEMMA CompareOrders ==
  ASSUME NEW b \in ProgramState, NEW r \in u8, NEW m \in u8
  PROVE  /\ CarryFlag \in Compare(b, r, m).status <=> r >= m
         /\ ZeroFlag \in Compare(b, r, m).status <=> r = m
         /\ NegativeFlag \in Compare(b, r, m).status <=> ToU8(r - m) >= 128
<1> DEFINE above   == r >= m
           carried == set_flag(b, CarryFlag, above)
           d       == ToU8(r - m)
<1>1. carried \in ProgramState /\ (CarryFlag \in carried.status <=> above)
  <2>1. above \in BOOLEAN
    BY U8
  <2> HIDE DEF above
  <2> QED
    BY <2>1, FlagValues, FlagUpdates, SetFlag DEF ProgramState
<1>2. d \in u8 /\ (d = 0 <=> r = m)
  BY U8 DEF ToU8
<1>3. Compare(b, r, m) = update_zero_and_negative_flags(carried, d)
  BY DEF Compare
<1> HIDE DEF carried, d
<1>4. /\ CarryFlag \in Compare(b, r, m).status <=> above
      /\ ZeroFlag \in Compare(b, r, m).status <=> d = 0
      /\ NegativeFlag \in Compare(b, r, m).status <=> d >= 128
  BY <1>1, <1>2, <1>3, ZeroNegative, FlagsDiffer
<1> QED
  BY <1>2, <1>4 DEF d

LEMMA StepComputes ==
  ASSUME bus \in ProgramState, Step
  PROVE  Arithmetic
<1> DEFINE b == Operand.bus
           a == Operand.address
           A == bus.accumulator
           M == read_mem(b, a)
           C == IF CarryFlag \in bus.status THEN 1 ELSE 0
           Orders(r) == /\ CarryFlag \in bus'.status <=> r >= M
                        /\ ZeroFlag \in bus'.status <=> r = M
                        /\ NegativeFlag \in bus'.status <=> ToU8(r - M) >= 128
<1>1. b \in ProgramState /\ a \in u16 /\ M \in u8 /\ A \in u8 /\ C \in {0, 1}
  BY OperandType, ProgramRead, ProgramFields
<1>2. b.accumulator = A /\ b.x = bus.x /\ b.y = bus.y /\ b.status = bus.status
  BY OperandKeeps
<1>3. bus.x \in u8 /\ bus.y \in u8
  BY ProgramFields
<1>4. ASSUME NEW after \in ProgramState, Retires(Fetched, Operand, after)
      PROVE  bus'.accumulator = after.accumulator /\ bus'.status = after.status
  BY <1>4, RetiresKeeps DEF ProgramState
<1>5. \A v \in u8 : Signed(v) < 0 <=> v >= 128
  BY U8 DEF Signed
<1>6. /\ Fetched.fn = "adc" => Retires(Fetched, Operand, adc_fn(b, a))
      /\ Fetched.fn = "sbc" => Retires(Fetched, Operand, sbc_fn(b, a))
      /\ Fetched.fn = "cmp" => Retires(Fetched, Operand, cmp_fn(b, a))
      /\ Fetched.fn = "cpx" => Retires(Fetched, Operand, cpx_fn(b, a))
      /\ Fetched.fn = "cpy" => Retires(Fetched, Operand, cpy_fn(b, a))
  BY DEF Step, Load, Store, Transfer, Alu, IncDec, Shift, ReadModifyWrite, Branch,
         Jump, Stack, Flag, Empty, EmptyFns, Execute, Dispatches, Operand
<1>7. ASSUME Fetched.fn = "adc"
      PROVE  /\ bus'.accumulator = ToU8(A + M + C)
             /\ Agrees(A + M + C > 255, Signed(A) + Signed(M) + C)
  <2> DEFINE after == AddWithCarry(b, M)
  <2>1. after \in ProgramState /\ Retires(Fetched, Operand, after)
    BY <1>1, <1>6, <1>7, AddWithCarryType DEF adc_fn
  <2>2. bus'.accumulator = after.accumulator /\ bus'.status = after.status
        /\ after.accumulator \in u8
    BY <1>4, <2>1, ProgramFields
  <2>3. /\ after.accumulator = ToU8(A + M + C)
        /\ CarryFlag \in after.status <=> A + M + C > 255
        /\ OverflowFlag \in after.status <=> Signed(A) + Signed(M) + C \notin -128 .. 127
        /\ ZeroFlag \in after.status <=> after.accumulator = 0
        /\ NegativeFlag \in after.status <=> after.accumulator >= 128
    BY <1>1, <1>2, AddWithCarryAdds
  <2> HIDE DEF after, A, C, M
  <2> QED
    BY <1>5, <2>2, <2>3 DEF Agrees
<1>8. ASSUME Fetched.fn = "sbc"
      PROVE  /\ bus'.accumulator = ToU8(A - M - (1 - C))
             /\ Agrees(A - M - (1 - C) >= 0, Signed(A) - Signed(M) - (1 - C))
  <2> DEFINE N == 255 - M
             after == AddWithCarry(b, N)
  <2>1. /\ N \in u8
        /\ ToU8(A + N + C) = ToU8(A - M - (1 - C))
        /\ A + N + C > 255 <=> A - M - (1 - C) >= 0
        /\ Signed(A) + Signed(N) + C = Signed(A) - Signed(M) - (1 - C)
    BY <1>1, ComplementSubtracts
  <2>2. sbc_fn(b, a) = after
    BY DEF sbc_fn
  <2> HIDE DEF N
  <2>3. after \in ProgramState /\ Retires(Fetched, Operand, after)
    BY <1>1, <1>6, <1>8, <2>1, <2>2, AddWithCarryType
  <2>4. bus'.accumulator = after.accumulator /\ bus'.status = after.status
        /\ after.accumulator \in u8
    BY <1>4, <2>3, ProgramFields
  <2>5. /\ after.accumulator = ToU8(A + N + C)
        /\ CarryFlag \in after.status <=> A + N + C > 255
        /\ OverflowFlag \in after.status <=> Signed(A) + Signed(N) + C \notin -128 .. 127
        /\ ZeroFlag \in after.status <=> after.accumulator = 0
        /\ NegativeFlag \in after.status <=> after.accumulator >= 128
    BY <1>1, <1>2, <2>1, AddWithCarryAdds
  <2> HIDE DEF after, A, C, M
  <2> QED
    BY <1>5, <2>1, <2>4, <2>5 DEF Agrees
<1>9. ASSUME NEW r \in u8, Retires(Fetched, Operand, Compare(b, r, M))
      PROVE  Orders(r)
  <2>1. bus'.status = Compare(b, r, M).status
    BY <1>1, <1>4, <1>9, CompareType
  <2> QED
    BY <1>1, <2>1, CompareOrders
<1>10. /\ Fetched.fn = "cmp" => Orders(A)
       /\ Fetched.fn = "cpx" => Orders(bus.x)
       /\ Fetched.fn = "cpy" => Orders(bus.y)
  <2>1. /\ cmp_fn(b, a) = Compare(b, A, M)
        /\ cpx_fn(b, a) = Compare(b, bus.x, M)
        /\ cpy_fn(b, a) = Compare(b, bus.y, M)
    BY <1>2 DEF cmp_fn, cpx_fn, cpy_fn
  <2> QED
    BY <1>1, <1>3, <1>6, <1>9, <2>1
<1> HIDE DEF Orders, A, C, M
<1> QED
  BY <1>7, <1>8, <1>10 DEF Arithmetic, Orders, A, C, M, a, b

\* In every program of every table, for all operands in all addressing modes,
\* ADC, SBC and the comparisons agree with the integers: C, V, Z and N too.
THEOREM ArithmeticIsSigned == Spec => SignedArithmetic
<1>1. IInv /\ [Next]_vars => [Running => Arithmetic]_vars
  BY RunningStep, StepComputes
<1> QED
  BY InitIInv, NextIInv, <1>1, PTL DEF Spec, SignedArithmetic

-----------------------------------------------------------------------------
(* The combined instructions.                                              *)

\* A byte as a set of bits: it is 0 when it has none, and its bit 7 is its
\* sign.
LEMMA BitsOfByte ==
  ASSUME NEW S, S \subseteq Weights
  PROVE  /\ Byte(S) = 0 <=> S = {}
         /\ Byte(S) >= 128 <=> 128 \in S
         /\ Bits(Byte(S)) = S
<1> DEFINE bit(w) == IF w \in S THEN w ELSE 0
           n == bit(1) + bit(2) + bit(4) + bit(8) + bit(16) + bit(32) + bit(64) + bit(128)
<1>1. Byte(S) = n
  BY DEF Byte
<1>2. n = 0 <=> \A w \in Weights : w \notin S
  BY DEF Weights
<1>3. n >= 128 <=> 128 \in S
  OBVIOUS
<1>4. \A w \in Weights : (n \div w) % 2 = 1 <=> w \in S
  BY SMTT(60) DEF Weights
<1> HIDE DEF n
<1>5. Bits(n) = S
  BY <1>4 DEF Bits
<1> QED
  BY <1>1, <1>2, <1>3, <1>5

\* Reading needs the RAM and the cartridge alone.
LEMMA SameReads ==
  ASSUME NEW b, NEW c, c.cpu_ram = b.cpu_ram, c.cartridge = b.cartridge
  PROVE  \A a : read_mem(c, a) = read_mem(b, a)
  BY DEF read_mem

\* What is written to RAM is read there.
LEMMA WriteReads ==
  ASSUME NEW b \in BusState, NEW a \in u16, a < RAM_MIRROR_END, NEW v \in u8
  PROVE  read_mem(write_mem(b, a, v), a) = v
<1> DEFINE ram == [b.cpu_ram EXCEPT ![RamCell(a)] = v]
<1>1. RamCell(a) \in 0 .. RAM_SIZE - 1
  BY RamCellType
<1>2. ram[RamCell(a)] = v
  BY <1>1 DEF BusState
<1>3. write_mem(b, a, v) = [b EXCEPT !.cpu_ram = ram]
  BY DEF write_mem
<1>4. ~CartMaps(a) /\ a <= RAM_MIRROR_END
  BY U16 DEF CartMaps, PRG_ROM_START, RAM_MIRROR_END
<1> HIDE DEF ram
<1>5. [b EXCEPT !.cpu_ram = ram].cpu_ram = ram
  BY DEF BusState
<1> QED
  BY <1>2, <1>3, <1>4, <1>5 DEF read_mem

\* What a function leaves that stores v at a: it changes no register.
Stores(b, c, a, v) ==
  /\ c \in ProgramState
  /\ read_mem(c, a) = v
  /\ c.accumulator = b.accumulator

LEMMA StoreShiftedStores ==
  ASSUME NEW b \in ProgramState, NEW a \in u16, a < RAM_MIRROR_END,
         NEW s, s.value \in u8, s.carry \in BOOLEAN
  PROVE  /\ Stores(b, StoreShifted(b, a, s), a, s.value)
         /\ CarryFlag \in StoreShifted(b, a, s).status <=> s.carry
<1> DEFINE carried == set_flag(b, CarryFlag, s.carry)
           written == write_mem(carried, a, s.value)
           updated == update_zero_and_negative_flags(written, s.value)
<1>1. StoreShifted(b, a, s) = updated
  BY DEF StoreShifted
<1>2. /\ carried \in ProgramState /\ (CarryFlag \in carried.status <=> s.carry)
      /\ carried.accumulator = b.accumulator
  BY FlagValues, FlagUpdates, SetFlag DEF ProgramState
<1> HIDE DEF carried
<1>3. /\ written \in ProgramState /\ read_mem(written, a) = s.value
      /\ written.accumulator = carried.accumulator
      /\ CarryFlag \in written.status <=> CarryFlag \in carried.status
  BY <1>2, ProgramWrite, WriteReads, WriteOnly, FlagValues DEF ProgramState, Only, ProgramFlags
<1> HIDE DEF written
<1>4. /\ updated \in ProgramState /\ updated.accumulator = written.accumulator
      /\ CarryFlag \in updated.status <=> CarryFlag \in written.status
  BY <1>3, ZeroNegativeType, ZeroNegative, FlagsDiffer
<1>5. read_mem(updated, a) = read_mem(written, a)
  BY <1>3, FlagsKeep, ZeroNegativeStays, SameReads DEF Kept, Stays, SameCartridge
<1> HIDE DEF updated
<1> QED
  BY <1>1, <1>2, <1>3, <1>4, <1>5 DEF Stores

LEMMA StoreCountedStores ==
  ASSUME NEW b \in ProgramState, NEW a \in u16, a < RAM_MIRROR_END, NEW v \in u8
  PROVE  /\ Stores(b, StoreCounted(b, a, v), a, v)
         /\ CarryFlag \in StoreCounted(b, a, v).status <=> CarryFlag \in b.status
<1> DEFINE written == write_mem(b, a, v)
           updated == update_zero_and_negative_flags(written, v)
<1>1. StoreCounted(b, a, v) = updated
  BY DEF StoreCounted
<1>2. /\ written \in ProgramState /\ read_mem(written, a) = v
      /\ written.accumulator = b.accumulator
      /\ CarryFlag \in written.status <=> CarryFlag \in b.status
  BY ProgramWrite, WriteReads, WriteOnly, FlagValues DEF ProgramState, Only, ProgramFlags
<1> HIDE DEF written
<1>3. /\ updated \in ProgramState /\ updated.accumulator = written.accumulator
      /\ CarryFlag \in updated.status <=> CarryFlag \in written.status
  BY <1>2, ZeroNegativeType, ZeroNegative, FlagsDiffer
<1>4. read_mem(updated, a) = read_mem(written, a)
  BY <1>2, FlagsKeep, ZeroNegativeStays, SameReads DEF Kept, Stays, SameCartridge
<1> HIDE DEF updated
<1> QED
  BY <1>1, <1>2, <1>3, <1>4 DEF Stores

\* The second halves: what they leave, and that they read memory only.
LeavesBits(c, S) ==
  /\ c.accumulator = Byte(S)
  /\ ZeroFlag \in c.status <=> S = {}
  /\ NegativeFlag \in c.status <=> 128 \in S

LEMMA SetBits ==
  ASSUME NEW b \in ProgramState, NEW S, S \subseteq Weights
  PROVE  /\ LeavesBits(SetA(b, Byte(S)), S)
         /\ CarryFlag \in SetA(b, Byte(S)).status <=> CarryFlag \in b.status
<1> DEFINE v      == Byte(S)
           stored == [b EXCEPT !.accumulator = v]
<1>1. v \in u8 /\ (v = 0 <=> S = {}) /\ (v >= 128 <=> 128 \in S)
  BY ByteType, BitsOfByte
<1> HIDE DEF v
<1>2. stored \in ProgramState /\ stored.accumulator = v /\ stored.status = b.status
  BY <1>1, RegisterUpdates DEF ProgramState, BusState
<1>3. SetA(b, v) = update_zero_and_negative_flags(stored, v)
  BY DEF SetA
<1> HIDE DEF stored
<1> QED
  BY <1>1, <1>2, <1>3, ZeroNegative, FlagsDiffer DEF LeavesBits, v

LEMMA LogicLeaves ==
  ASSUME NEW b \in ProgramState, NEW a \in u16
  PROVE  LET A == Bits(b.accumulator)
             N == Bits(read_mem(b, a))
             CarryKept(c) == CarryFlag \in c.status <=> CarryFlag \in b.status
         IN  /\ LeavesBits(ora_fn(b, a), A \cup N) /\ CarryKept(ora_fn(b, a))
             /\ LeavesBits(and_fn(b, a), A \cap N) /\ CarryKept(and_fn(b, a))
             /\ LeavesBits(eor_fn(b, a), {w \in Weights : w \in A <=> w \notin N})
             /\ CarryKept(eor_fn(b, a))
<1> DEFINE A == Bits(b.accumulator)
           N == Bits(read_mem(b, a))
<1>1. A \subseteq Weights /\ N \subseteq Weights
  BY DEF Bits
<1>2. /\ ora_fn(b, a) = SetA(b, Byte(A \cup N))
      /\ and_fn(b, a) = SetA(b, Byte(A \cap N))
      /\ eor_fn(b, a) = SetA(b, Byte((A \ N) \cup (N \ A)))
  BY DEF ora_fn, and_fn, eor_fn, BitOr, BitAnd, BitXor
<1> HIDE DEF A, N
<1>3. (A \ N) \cup (N \ A) = {w \in Weights : w \in A <=> w \notin N}
  BY <1>1
<1>4. /\ A \cup N \subseteq Weights /\ A \cap N \subseteq Weights
      /\ (A \ N) \cup (N \ A) \subseteq Weights
  BY <1>1
<1> QED
  BY <1>2, <1>3, <1>4, SetBits DEF A, N

\* The second halves change neither RAM nor the cartridge.
LEMMA SecondHalves ==
  ASSUME NEW b \in ProgramState, NEW a \in u16
  PROVE  \A c \in {ora_fn(b, a), and_fn(b, a), eor_fn(b, a), adc_fn(b, a),
                   sbc_fn(b, a), cmp_fn(b, a)} : read_mem(c, a) = read_mem(b, a)
<1>1. ASSUME NEW c, Kept(b, c), Stays(b, c) PROVE read_mem(c, a) = read_mem(b, a)
  BY <1>1, SameReads DEF Kept, Stays, SameCartridge
<1> QED
  BY <1>1, LogicKeeps, LogicStays, AluKeeps, AluStays

\* What a sum r of signed value v leaves in the registers.
LeavesSum(c, r, v, carry) ==
  /\ c.accumulator = ToU8(r)
  /\ CarryFlag \in c.status <=> carry
  /\ OverflowFlag \in c.status <=> v \notin -128 .. 127
  /\ ZeroFlag \in c.status <=> c.accumulator = 0
  /\ NegativeFlag \in c.status <=> c.accumulator >= 128

LEMMA ShiftThenLogic ==
  ASSUME NEW b \in ProgramState, NEW a \in u16, a < RAM_MIRROR_END
  PROVE  LET M == read_mem(b, a)
             A == Bits(b.accumulator)
             Leaves(c, carry, n, S) == /\ read_mem(c, a) = n
                                       /\ CarryFlag \in c.status <=> carry
                                       /\ LeavesBits(c, S)
         IN  /\ LET n == ToU8(2 * M)
                IN  Leaves(slo_fn(b, a), M >= 128, n, A \cup Bits(n))
             /\ LET n == ToU8(2 * M) + Carry(b)
                IN  Leaves(rla_fn(b, a), M >= 128, n, A \cap Bits(n))
             /\ LET n == M \div 2
                IN  Leaves(sre_fn(b, a), M % 2 = 1, n,
                           {w \in Weights : w \in A <=> w \notin Bits(n)})
<1> DEFINE M == read_mem(b, a)
<1>1. M \in u8 /\ Carry(b) \in {0, 1}
  BY ProgramRead, CarryBit
<1>2. Bit7(M) <=> M >= 128
  BY <1>1, U8 DEF Bit7
<1>3. /\ ShiftLeft(M).value = ToU8(2 * M) /\ ShiftLeft(M).carry = Bit7(M)
      /\ RotateLeft(M, Carry(b)).value = ToU8(2 * M) + Carry(b)
      /\ RotateLeft(M, Carry(b)).carry = Bit7(M)
      /\ ShiftRight(M).value = M \div 2 /\ ShiftRight(M).carry = (M % 2 = 1)
  BY DEF ShiftLeft, RotateLeft, ShiftRight
<1>4. Bit7(M) \in BOOLEAN /\ (M % 2 = 1) \in BOOLEAN
  BY <1>1, U8 DEF Bit7
<1> DEFINE asl == asl_fn(b, a)
           rol == rol_fn(b, a)
           lsr == lsr_fn(b, a)
<1>5. /\ Stores(b, asl, a, ToU8(2 * M)) /\ (CarryFlag \in asl.status <=> Bit7(M))
      /\ Stores(b, rol, a, ToU8(2 * M) + Carry(b)) /\ (CarryFlag \in rol.status <=> Bit7(M))
      /\ Stores(b, lsr, a, M \div 2) /\ (CarryFlag \in lsr.status <=> M % 2 = 1)
  <2>1. /\ ShiftLeft(M).value \in u8 /\ RotateLeft(M, Carry(b)).value \in u8
        /\ ShiftRight(M).value \in u8
    BY <1>1, ShiftType
  <2> HIDE DEF M
  <2>2. \A s : s.value \in u8 /\ s.carry \in BOOLEAN
               => /\ Stores(b, StoreShifted(b, a, s), a, s.value)
                  /\ CarryFlag \in StoreShifted(b, a, s).status <=> s.carry
    BY StoreShiftedStores
  <2>3. /\ asl = StoreShifted(b, a, ShiftLeft(M))
        /\ rol = StoreShifted(b, a, RotateLeft(M, Carry(b)))
        /\ lsr = StoreShifted(b, a, ShiftRight(M))
    BY DEF asl_fn, rol_fn, lsr_fn, M
  <2> HIDE DEF asl, rol, lsr
  <2>4. Stores(b, asl, a, ToU8(2 * M)) /\ (CarryFlag \in asl.status <=> Bit7(M))
    BY <1>3, <1>4, <2>1, <2>2, <2>3
  <2>5. /\ Stores(b, rol, a, ToU8(2 * M) + Carry(b))
        /\ CarryFlag \in rol.status <=> Bit7(M)
    BY <1>3, <1>4, <2>1, <2>2, <2>3
  <2>6. Stores(b, lsr, a, M \div 2) /\ (CarryFlag \in lsr.status <=> M % 2 = 1)
    BY <1>3, <1>4, <2>1, <2>2, <2>3
  <2> QED
    BY <2>4, <2>5, <2>6
<1>6. /\ slo_fn(b, a) = ora_fn(asl, a) /\ rla_fn(b, a) = and_fn(rol, a)
      /\ sre_fn(b, a) = eor_fn(lsr, a)
  BY DEF slo_fn, rla_fn, sre_fn
<1> HIDE DEF M, asl, rol, lsr
<1>7. ASSUME NEW c, NEW n, Stores(b, c, a, n)
      PROVE  LET A == Bits(b.accumulator)
             IN  /\ LeavesBits(ora_fn(c, a), A \cup Bits(n)) /\ read_mem(ora_fn(c, a), a) = n
                 /\ LeavesBits(and_fn(c, a), A \cap Bits(n)) /\ read_mem(and_fn(c, a), a) = n
                 /\ LeavesBits(eor_fn(c, a), {w \in Weights : w \in A <=> w \notin Bits(n)})
                 /\ read_mem(eor_fn(c, a), a) = n
                 /\ CarryFlag \in ora_fn(c, a).status <=> CarryFlag \in c.status
                 /\ CarryFlag \in and_fn(c, a).status <=> CarryFlag \in c.status
                 /\ CarryFlag \in eor_fn(c, a).status <=> CarryFlag \in c.status
  BY <1>7, LogicLeaves, SecondHalves DEF Stores
<1>8. /\ LET n == ToU8(2 * M)
         IN  /\ LeavesBits(slo_fn(b, a), Bits(b.accumulator) \cup Bits(n))
             /\ read_mem(slo_fn(b, a), a) = n
             /\ CarryFlag \in slo_fn(b, a).status <=> M >= 128
      /\ LET n == ToU8(2 * M) + Carry(b)
         IN  /\ LeavesBits(rla_fn(b, a), Bits(b.accumulator) \cap Bits(n))
             /\ read_mem(rla_fn(b, a), a) = n
             /\ CarryFlag \in rla_fn(b, a).status <=> M >= 128
      /\ LET n == M \div 2
         IN  /\ LeavesBits(sre_fn(b, a),
                           {w \in Weights : w \in Bits(b.accumulator) <=> w \notin Bits(n)})
             /\ read_mem(sre_fn(b, a), a) = n
             /\ CarryFlag \in sre_fn(b, a).status <=> M % 2 = 1
  BY <1>2, <1>5, <1>6, <1>7
<1> QED
  BY <1>8 DEF M

LEMMA StoreThenAdd ==
  ASSUME NEW b \in ProgramState, NEW a \in u16, a < RAM_MIRROR_END
  PROVE  LET M == read_mem(b, a)
             A == b.accumulator
             C == Carry(b)
         IN  /\ LET n == (M \div 2) + 128 * C
                    r == A + n + (M % 2)
                IN  /\ read_mem(rra_fn(b, a), a) = n
                    /\ LeavesSum(rra_fn(b, a), r, Signed(A) + Signed(n) + (M % 2), r > 255)
             /\ LET n == ToU8(M + 1)
                    r == A - n - (1 - C)
                IN  /\ read_mem(isb_fn(b, a), a) = n
                    /\ LeavesSum(isb_fn(b, a), r, Signed(A) - Signed(n) - (1 - C), r >= 0)
             /\ LET n == ToU8(M - 1)
                IN  /\ read_mem(dcp_fn(b, a), a) = n
                    /\ CarryFlag \in dcp_fn(b, a).status <=> A >= n
                    /\ ZeroFlag \in dcp_fn(b, a).status <=> A = n
                    /\ NegativeFlag \in dcp_fn(b, a).status <=> ToU8(A - n) >= 128
<1> DEFINE M == read_mem(b, a)
           A == b.accumulator
           C == Carry(b)
<1>1. M \in u8 /\ A \in u8 /\ C \in {0, 1}
  BY ProgramRead, ProgramFields, CarryBit
<1>2. ASSUME NEW c \in ProgramState, NEW n \in u8, Stores(b, c, a, n)
      PROVE  /\ LET r == A + n + Carry(c)
                IN  LeavesSum(adc_fn(c, a), r, Signed(A) + Signed(n) + Carry(c), r > 255)
             /\ LET r == A - n - (1 - Carry(c))
                IN  LeavesSum(sbc_fn(c, a), r, Signed(A) - Signed(n) - (1 - Carry(c)), r >= 0)
             /\ CarryFlag \in cmp_fn(c, a).status <=> A >= n
             /\ ZeroFlag \in cmp_fn(c, a).status <=> A = n
             /\ NegativeFlag \in cmp_fn(c, a).status <=> ToU8(A - n) >= 128
             /\ read_mem(adc_fn(c, a), a) = n /\ read_mem(sbc_fn(c, a), a) = n
             /\ read_mem(cmp_fn(c, a), a) = n
  <2>1. c.accumulator = A /\ read_mem(c, a) = n /\ Carry(c) \in {0, 1}
    BY <1>2, CarryBit DEF Stores
  <2>2. ASSUME NEW m \in u8
        PROVE  LET r == A + m + Carry(c)
               IN  LeavesSum(AddWithCarry(c, m), r, Signed(A) + Signed(m) + Carry(c), r > 255)
    <3>1. Carry(c) = IF CarryFlag \in c.status THEN 1 ELSE 0
      BY DEF Carry
    <3> QED
      BY <2>1, <3>1, AddWithCarryAdds DEF LeavesSum
  <2>3. LET r == A - n - (1 - Carry(c))
        IN  LeavesSum(sbc_fn(c, a), r, Signed(A) - Signed(n) - (1 - Carry(c)), r >= 0)
    <3>1. sbc_fn(c, a) = AddWithCarry(c, 255 - n)
      BY <2>1 DEF sbc_fn
    <3>2. /\ 255 - n \in u8
          /\ ToU8(A + (255 - n) + Carry(c)) = ToU8(A - n - (1 - Carry(c)))
          /\ A + (255 - n) + Carry(c) > 255 <=> A - n - (1 - Carry(c)) >= 0
          /\ Signed(A) + Signed(255 - n) + Carry(c) = Signed(A) - Signed(n) - (1 - Carry(c))
      BY <1>1, <2>1, ComplementSubtracts
    <3> DEFINE m == 255 - n
    <3>3. m \in u8
      BY <3>2
    <3> HIDE DEF m, A
    <3>4. LET r == A + m + Carry(c)
          IN  LeavesSum(AddWithCarry(c, m), r, Signed(A) + Signed(m) + Carry(c), r > 255)
      BY <2>2, <3>3
    <3> QED
      BY <3>1, <3>2, <3>4 DEF LeavesSum, m
  <2>4. adc_fn(c, a) = AddWithCarry(c, n) /\ cmp_fn(c, a) = Compare(c, A, n)
    BY <2>1 DEF adc_fn, cmp_fn
  <2>5. /\ CarryFlag \in cmp_fn(c, a).status <=> A >= n
        /\ ZeroFlag \in cmp_fn(c, a).status <=> A = n
        /\ NegativeFlag \in cmp_fn(c, a).status <=> ToU8(A - n) >= 128
    BY <1>1, <2>4, CompareOrders
  <2>6. /\ read_mem(adc_fn(c, a), a) = n /\ read_mem(sbc_fn(c, a), a) = n
        /\ read_mem(cmp_fn(c, a), a) = n
    BY <2>1, SecondHalves
  <2> HIDE DEF A
  <2> QED
    BY <2>2, <2>3, <2>4, <2>5, <2>6
<1> DEFINE ror == ror_fn(b, a)
           inc == inc_fn(b, a)
           dec == dec_fn(b, a)
<1>3. /\ (M \div 2) + 128 * C \in u8 /\ ToU8(M + 1) \in u8 /\ ToU8(M - 1) \in u8
      /\ (M % 2 = 1) \in BOOLEAN /\ M % 2 \in {0, 1}
  BY <1>1, U8 DEF ToU8
<1>4. /\ ror \in ProgramState /\ Stores(b, ror, a, (M \div 2) + 128 * C)
      /\ Carry(ror) = M % 2
  <2> DEFINE s == RotateRight(M, C)
  <2>1. s.value = (M \div 2) + 128 * C /\ s.carry = (M % 2 = 1)
    BY DEF RotateRight
  <2>2. ror = StoreShifted(b, a, s)
    BY DEF ror_fn
  <2> HIDE DEF s, ror, M, C
  <2>3. Stores(b, ror, a, (M \div 2) + 128 * C) /\ (CarryFlag \in ror.status <=> M % 2 = 1)
    BY <1>3, <2>1, <2>2, StoreShiftedStores
  <2> QED
    BY <1>3, <2>3 DEF Stores, Carry
<1>5. /\ inc \in ProgramState /\ Stores(b, inc, a, ToU8(M + 1)) /\ Carry(inc) = C
      /\ dec \in ProgramState /\ Stores(b, dec, a, ToU8(M - 1))
  <2>1. inc = StoreCounted(b, a, ToU8(M + 1)) /\ dec = StoreCounted(b, a, ToU8(M - 1))
    BY DEF inc_fn, dec_fn
  <2>2. /\ Stores(b, inc, a, ToU8(M + 1)) /\ Stores(b, dec, a, ToU8(M - 1))
        /\ CarryFlag \in inc.status <=> CarryFlag \in b.status
    BY <1>3, <2>1, StoreCountedStores
  <2> QED
    BY <2>2 DEF Stores, Carry
<1>6. /\ rra_fn(b, a) = adc_fn(ror, a) /\ isb_fn(b, a) = sbc_fn(inc, a)
      /\ dcp_fn(b, a) = cmp_fn(dec, a)
  BY DEF rra_fn, isb_fn, dcp_fn
<1> HIDE DEF M, A, C, ror, inc, dec
<1>7. LET n == (M \div 2) + 128 * C
          r == A + n + (M % 2)
      IN  /\ read_mem(rra_fn(b, a), a) = n
          /\ LeavesSum(rra_fn(b, a), r, Signed(A) + Signed(n) + (M % 2), r > 255)
  BY <1>2, <1>3, <1>4, <1>6
<1>8. LET n == ToU8(M + 1)
          r == A - n - (1 - C)
      IN  /\ read_mem(isb_fn(b, a), a) = n
          /\ LeavesSum(isb_fn(b, a), r, Signed(A) - Signed(n) - (1 - C), r >= 0)
  BY <1>2, <1>3, <1>5, <1>6
<1>9. LET n == ToU8(M - 1)
      IN  /\ read_mem(dcp_fn(b, a), a) = n
          /\ CarryFlag \in dcp_fn(b, a).status <=> A >= n
          /\ ZeroFlag \in dcp_fn(b, a).status <=> A = n
          /\ NegativeFlag \in dcp_fn(b, a).status <=> ToU8(A - n) >= 128
  BY <1>2, <1>3, <1>5, <1>6
<1> QED
  BY <1>7, <1>8, <1>9 DEF M, A, C

LEMMA TwoRegisters ==
  ASSUME NEW b \in ProgramState, NEW a \in u16
  PROVE  /\ lax_fn(b, a).accumulator = read_mem(b, a) /\ lax_fn(b, a).x = read_mem(b, a)
         /\ ZeroFlag \in lax_fn(b, a).status <=> read_mem(b, a) = 0
         /\ NegativeFlag \in lax_fn(b, a).status <=> read_mem(b, a) >= 128
         /\ a < RAM_MIRROR_END =>
              Bits(read_mem(sax_fn(b, a), a)) = Bits(b.accumulator) \cap Bits(b.x)
<1>1. ASSUME NEW c \in ProgramState, NEW v \in u8
      PROVE  /\ SetA(c, v).accumulator = v /\ SetX(c, v).x = v
             /\ ZeroFlag \in SetX(c, v).status <=> v = 0
             /\ NegativeFlag \in SetX(c, v).status <=> v >= 128
  <2>1. /\ [c EXCEPT !.accumulator = v] \in ProgramState
        /\ [c EXCEPT !.accumulator = v].accumulator = v
        /\ [c EXCEPT !.x = v] \in ProgramState /\ [c EXCEPT !.x = v].x = v
    BY RegisterUpdates DEF ProgramState, BusState
  <2>2. \A d \in ProgramState :
          /\ update_zero_and_negative_flags(d, v).accumulator = d.accumulator
          /\ update_zero_and_negative_flags(d, v).x = d.x
    BY ZeroNegativeOnly DEF Only
  <2>3. \A d \in ProgramState :
          /\ ZeroFlag \in update_zero_and_negative_flags(d, v).status <=> v = 0
          /\ NegativeFlag \in update_zero_and_negative_flags(d, v).status <=> v >= 128
    BY ZeroNegative
  <2> QED
    BY <2>1, <2>2, <2>3 DEF SetA, SetX
<1>2. lda_fn(b, a) \in ProgramState /\ lda_fn(b, a).accumulator = read_mem(b, a)
  BY <1>1, ProgramRead, LoadType DEF lda_fn
<1>3. read_mem(lda_fn(b, a), a) = read_mem(b, a)
  BY LoadKeeps, LoadStays, SameReads DEF Kept, Stays, SameCartridge
<1>4. /\ lax_fn(b, a).x = read_mem(b, a) /\ lax_fn(b, a).accumulator = lda_fn(b, a).accumulator
      /\ ZeroFlag \in lax_fn(b, a).status <=> read_mem(b, a) = 0
      /\ NegativeFlag \in lax_fn(b, a).status <=> read_mem(b, a) >= 128
  <2>1. lax_fn(b, a) = ldx_fn(lda_fn(b, a), a)
    BY DEF lax_fn
  <2>2. ldx_fn(lda_fn(b, a), a) = SetX(lda_fn(b, a), read_mem(b, a))
    BY <1>3 DEF ldx_fn
  <2>3. Only(lda_fn(b, a), ldx_fn(lda_fn(b, a), a), {"x"}, NZ)
    BY <1>2, LoadOnly
  <2> QED
    BY <1>1, <1>2, <2>1, <2>2, <2>3, ProgramRead DEF Only
<1>5. ASSUME a < RAM_MIRROR_END
      PROVE  Bits(read_mem(sax_fn(b, a), a)) = Bits(b.accumulator) \cap Bits(b.x)
  <2> DEFINE S == Bits(b.accumulator) \cap Bits(b.x)
  <2>1. S \subseteq Weights
    BY DEF Bits
  <2>2. sax_fn(b, a) = write_mem(b, a, Byte(S))
    BY DEF sax_fn, BitAnd
  <2> HIDE DEF S
  <2>3. read_mem(sax_fn(b, a), a) = Byte(S)
    BY <1>5, <2>2, ByteType, WriteReads DEF ProgramState
  <2> QED
    BY <2>1, <2>3, BitsOfByte DEF S
<1> QED
  BY <1>2, <1>4, <1>5

LEMMA CombinedFunctions ==
  ASSUME Step
  PROVE  LET retires(after) == Retires(Fetched, Operand, after)
             b == Operand.bus
             a == Operand.address
         IN  /\ Fetched.fn = "slo" => retires(slo_fn(b, a))
             /\ Fetched.fn = "rla" => retires(rla_fn(b, a))
             /\ Fetched.fn = "sre" => retires(sre_fn(b, a))
             /\ Fetched.fn = "rra" => retires(rra_fn(b, a))
             /\ Fetched.fn = "dcp" => retires(dcp_fn(b, a))
             /\ Fetched.fn = "isb" => retires(isb_fn(b, a))
             /\ Fetched.fn = "lax" => retires(lax_fn(b, a))
             /\ Fetched.fn = "sax" => retires(sax_fn(b, a))
  BY DEF Step, Load, Store, Transfer, Alu, IncDec, Shift, ReadModifyWrite, Branch,
         Jump, Stack, Flag, Empty, EmptyFns, Execute, Dispatches, Operand

LEMMA StepCombines ==
  ASSUME bus \in ProgramState, Step, Operand.address < RAM_MIRROR_END
  PROVE  Combined
<1> DEFINE b == Operand.bus
           a == Operand.address
           A == bus.accumulator
           M == read_mem(bus, a)
           C == IF CarryFlag \in bus.status THEN 1 ELSE 0
           Holds(flag) == flag \in bus'.status
           Leaves(carry, bits) == /\ Holds(CarryFlag) <=> carry
                                  /\ bus'.accumulator = Byte(bits)
                                  /\ Holds(ZeroFlag) <=> bits = {}
                                  /\ Holds(NegativeFlag) <=> 128 \in bits
           N == read_mem(bus', a)
<1>1. b \in ProgramState /\ a \in u16 /\ a < RAM_MIRROR_END
  BY OperandType
<1>2. b.accumulator = A /\ b.x = bus.x /\ Carry(b) = C
  BY OperandKeeps DEF Carry
<1>3. read_mem(b, a) = M
  BY OperandKeeps, OperandMoves, SameReads DEF Kept, SameCartridge
<1>4. ASSUME NEW after \in ProgramState, Retires(Fetched, Operand, after)
      PROVE  /\ bus'.accumulator = after.accumulator /\ bus'.x = after.x
             /\ bus'.status = after.status /\ N = read_mem(after, a)
  <2>1. after \in BusState
    BY DEF ProgramState
  <2>2. bus'.cpu_ram = after.cpu_ram /\ bus'.cartridge = after.cartridge
    BY <1>4, <2>1, RetiresKeeps, RetiresStays DEF Kept, Stays, SameCartridge
  <2> QED
    BY <1>4, <2>1, <2>2, RetiresKeeps, SameReads
<1>5. /\ Fetched.fn = "slo" => Retires(Fetched, Operand, slo_fn(b, a))
      /\ Fetched.fn = "rla" => Retires(Fetched, Operand, rla_fn(b, a))
      /\ Fetched.fn = "sre" => Retires(Fetched, Operand, sre_fn(b, a))
      /\ Fetched.fn = "rra" => Retires(Fetched, Operand, rra_fn(b, a))
      /\ Fetched.fn = "dcp" => Retires(Fetched, Operand, dcp_fn(b, a))
      /\ Fetched.fn = "isb" => Retires(Fetched, Operand, isb_fn(b, a))
      /\ Fetched.fn = "lax" => Retires(Fetched, Operand, lax_fn(b, a))
      /\ Fetched.fn = "sax" => Retires(Fetched, Operand, sax_fn(b, a))
  BY CombinedFunctions
<1>6. \A v \in u8 : Signed(v) < 0 <=> v >= 128
  BY U8 DEF Signed
<1> HIDE DEF b, a, A, M, C, N
<1>7. /\ Fetched.fn = "slo" => /\ N = ToU8(2 * M)
                               /\ Leaves(M >= 128, Bits(A) \cup Bits(N))
      /\ Fetched.fn = "rla" => /\ N = ToU8(2 * M) + C
                               /\ Leaves(M >= 128, Bits(A) \cap Bits(N))
      /\ Fetched.fn = "sre" =>
           /\ N = M \div 2
           /\ Leaves(M % 2 = 1, {w \in Weights : w \in Bits(A) <=> w \notin Bits(N)})
  <2>1. ASSUME NEW after \in ProgramState, Retires(Fetched, Operand, after),
               NEW S, LeavesBits(after, S)
        PROVE  /\ N = read_mem(after, a)
               /\ Holds(CarryFlag) <=> CarryFlag \in after.status
               /\ bus'.accumulator = Byte(S)
               /\ Holds(ZeroFlag) <=> S = {}
               /\ Holds(NegativeFlag) <=> 128 \in S
    BY <1>4, <2>1 DEF LeavesBits
  <2>2. /\ slo_fn(b, a) \in ProgramState /\ rla_fn(b, a) \in ProgramState
        /\ sre_fn(b, a) \in ProgramState
    BY <1>1, ComposedType
  <2>3. LET n == ToU8(2 * M)
        IN  /\ read_mem(slo_fn(b, a), a) = n /\ LeavesBits(slo_fn(b, a), Bits(A) \cup Bits(n))
            /\ CarryFlag \in slo_fn(b, a).status <=> M >= 128
    BY <1>1, <1>2, <1>3, ShiftThenLogic
  <2>4. LET n == ToU8(2 * M) + C
        IN  /\ read_mem(rla_fn(b, a), a) = n /\ LeavesBits(rla_fn(b, a), Bits(A) \cap Bits(n))
            /\ CarryFlag \in rla_fn(b, a).status <=> M >= 128
    BY <1>1, <1>2, <1>3, ShiftThenLogic
  <2>5. LET n == M \div 2
        IN  /\ read_mem(sre_fn(b, a), a) = n
            /\ LeavesBits(sre_fn(b, a), {w \in Weights : w \in Bits(A) <=> w \notin Bits(n)})
            /\ CarryFlag \in sre_fn(b, a).status <=> M % 2 = 1
    BY <1>1, <1>2, <1>3, ShiftThenLogic
  <2>6. ASSUME Fetched.fn = "slo"
        PROVE  N = ToU8(2 * M) /\ Leaves(M >= 128, Bits(A) \cup Bits(N))
    BY <1>5, <2>1, <2>2, <2>3, <2>6
  <2>7. ASSUME Fetched.fn = "rla"
        PROVE  N = ToU8(2 * M) + C /\ Leaves(M >= 128, Bits(A) \cap Bits(N))
    BY <1>5, <2>1, <2>2, <2>4, <2>7
  <2>8. ASSUME Fetched.fn = "sre"
        PROVE  /\ N = M \div 2
               /\ Leaves(M % 2 = 1, {w \in Weights : w \in Bits(A) <=> w \notin Bits(N)})
    <3> DEFINE S == {w \in Weights : w \in Bits(A) <=> w \notin Bits(M \div 2)}
    <3>1. /\ read_mem(sre_fn(b, a), a) = M \div 2 /\ LeavesBits(sre_fn(b, a), S)
          /\ CarryFlag \in sre_fn(b, a).status <=> M % 2 = 1
      BY <2>5
    <3> HIDE DEF S
    <3>2. N = M \div 2 /\ Leaves(M % 2 = 1, S)
      BY <1>5, <2>1, <2>2, <2>8, <3>1
    <3> QED
      BY <3>2 DEF S
  <2> QED
    BY <2>6, <2>7, <2>8
<1>8. ASSUME NEW after \in ProgramState, NEW r, NEW v, NEW carry,
             Retires(Fetched, Operand, after), LeavesSum(after, r, v, carry)
      PROVE  bus'.accumulator = ToU8(r) /\ Agrees(carry, v)
  <2>1. bus'.accumulator = after.accumulator /\ bus'.status = after.status
        /\ after.accumulator \in u8
    BY <1>4, <1>8, ProgramFields
  <2> QED
    BY <1>6, <1>8, <2>1 DEF LeavesSum, Agrees
<1>9. ASSUME Fetched.fn = "rra"
      PROVE  /\ N = (M \div 2) + 128 * C
             /\ bus'.accumulator = ToU8(A + N + (M % 2))
             /\ Agrees(A + N + (M % 2) > 255, Signed(A) + Signed(N) + (M % 2))
  <2>1. /\ rra_fn(b, a) \in ProgramState /\ Retires(Fetched, Operand, rra_fn(b, a))
        /\ N = read_mem(rra_fn(b, a), a)
    BY <1>1, <1>4, <1>5, <1>9, ComposedType
  <2>2. /\ N = (M \div 2) + 128 * C
        /\ LeavesSum(rra_fn(b, a), A + N + (M % 2), Signed(A) + Signed(N) + (M % 2),
                     A + N + (M % 2) > 255)
    BY <1>1, <1>2, <1>3, <2>1, StoreThenAdd
  <2> QED
    BY <1>8, <2>1, <2>2
<1>10. ASSUME Fetched.fn = "isb"
       PROVE  /\ N = ToU8(M + 1)
              /\ bus'.accumulator = ToU8(A - N - (1 - C))
              /\ Agrees(A - N - (1 - C) >= 0, Signed(A) - Signed(N) - (1 - C))
  <2>1. /\ isb_fn(b, a) \in ProgramState /\ Retires(Fetched, Operand, isb_fn(b, a))
        /\ N = read_mem(isb_fn(b, a), a)
    BY <1>1, <1>4, <1>5, <1>10, ComposedType
  <2>2. /\ N = ToU8(M + 1)
        /\ LeavesSum(isb_fn(b, a), A - N - (1 - C), Signed(A) - Signed(N) - (1 - C),
                     A - N - (1 - C) >= 0)
    BY <1>1, <1>2, <1>3, <2>1, StoreThenAdd
  <2> QED
    BY <1>8, <2>1, <2>2
<1>11. ASSUME Fetched.fn = "dcp"
       PROVE  /\ N = ToU8(M - 1)
              /\ Holds(CarryFlag) <=> A >= N
              /\ Holds(ZeroFlag) <=> A = N
              /\ Holds(NegativeFlag) <=> ToU8(A - N) >= 128
  <2>1. dcp_fn(b, a) \in ProgramState /\ Retires(Fetched, Operand, dcp_fn(b, a))
    BY <1>1, <1>5, <1>11, ComposedType
  <2>2. N = read_mem(dcp_fn(b, a), a) /\ bus'.status = dcp_fn(b, a).status
    BY <1>4, <2>1
  <2> QED
    BY <1>1, <1>2, <1>3, <2>2, StoreThenAdd
<1>12. ASSUME Fetched.fn = "lax"
       PROVE  /\ bus'.accumulator = M /\ bus'.x = M
              /\ Holds(ZeroFlag) <=> M = 0
              /\ Holds(NegativeFlag) <=> M >= 128
  <2>1. lax_fn(b, a) \in ProgramState /\ Retires(Fetched, Operand, lax_fn(b, a))
    BY <1>1, <1>5, <1>12, LoadType
  <2>2. /\ bus'.accumulator = lax_fn(b, a).accumulator /\ bus'.x = lax_fn(b, a).x
        /\ bus'.status = lax_fn(b, a).status
    BY <1>4, <2>1
  <2> QED
    BY <1>1, <1>3, <2>2, TwoRegisters
<1>13. Fetched.fn = "sax" => Bits(N) = Bits(A) \cap Bits(bus.x)
  BY <1>1, <1>2, <1>4, <1>5, StoreType, TwoRegisters
<1> HIDE DEF Leaves, Holds
<1> QED
  BY <1>7, <1>9, <1>10, <1>11, <1>12, <1>13 DEF Combined, Leaves, Holds, A, M, C, N, a

\* In every program of every table the second half of a combined instruction
\* works on the byte and the carry of the first: both are what the definition
\* in integers and bits of the two together gives, for every operand in RAM.
THEOREM CombinedInstructionsCompute == Spec => CombinedComputes
<1>1. IInv /\ [Next]_vars => [Running /\ Operand.address < RAM_MIRROR_END => Combined]_vars
  BY RunningStep, StepCombines
<1> QED
  BY InitIInv, NextIInv, <1>1, PTL DEF Spec, CombinedComputes

-----------------------------------------------------------------------------
(* Timing.                                                                 *)

\* Adding an index changes the high byte of an address exactly when it
\* carries out of the low one, at the top of the address space too.
LEMMA HighByteCarries ==
  ASSUME NEW w \in u16, NEW i \in u8
  PROVE  HighByte(ToU16(w + i)) # HighByte(w) <=> LowByte(w) + i > 255
<1>1. PICK h \in Int, l \in Int : w = 256 * h + l /\ 0 <= h /\ h <= 255 /\ 0 <= l /\ l <= 255
  <2>1. /\ w = 256 * (w \div 256) + (w % 256) /\ 0 <= w \div 256 /\ w \div 256 <= 255
        /\ 0 <= w % 256 /\ w % 256 <= 255 /\ w \div 256 \in Int /\ w % 256 \in Int
    BY U16
  <2> QED
    BY <2>1
<1>2. i \in Int /\ 0 <= i /\ i <= 255
  BY U8
<1>3. HighByte(w) = h /\ LowByte(w) = l
  BY <1>1 DEF HighByte, LowByte
<1>4. CASE l + i <= 255
  <2>1. w + i = 256 * h + (l + i) /\ w + i <= 65535 /\ 0 <= w + i
    BY <1>1, <1>2, <1>4
  <2>2. ToU16(w + i) = w + i
    BY <1>1, <1>2, <2>1 DEF ToU16
  <2>3. HighByte(w + i) = h
    BY <1>1, <1>2, <1>4, <2>1 DEF HighByte
  <2> QED
    BY <1>1, <1>2, <1>3, <1>4, <2>2, <2>3
<1>5. CASE l + i > 255 /\ h < 255
  <2>1. w + i = 256 * (h + 1) + (l + i - 256) /\ w + i <= 65535 /\ 0 <= w + i
    BY <1>1, <1>2, <1>5
  <2>2. ToU16(w + i) = w + i
    BY <1>1, <1>2, <2>1 DEF ToU16
  <2>3. HighByte(w + i) = h + 1
    BY <1>1, <1>2, <1>5, <2>1 DEF HighByte
  <2> QED
    BY <1>1, <1>2, <1>3, <1>5, <2>2, <2>3
<1>6. CASE l + i > 255 /\ h = 255
  <2>1. w + i = 65536 + (l + i - 256) /\ l + i - 256 <= 255
    BY <1>1, <1>2, <1>6
  <2>2. ToU16(w + i) = l + i - 256
    BY <1>1, <1>2, <1>6, <2>1 DEF ToU16
  <2>3. HighByte(l + i - 256) = 0
    BY <1>1, <1>2, <1>6, <2>1 DEF HighByte
  <2> QED
    BY <1>1, <1>2, <1>3, <1>6, <2>2, <2>3
<1> QED
  BY <1>1, <1>2, <1>4, <1>5, <1>6

\* The code compares the pages of two addresses, and the reference looks at
\* the carry.
LEMMA CrossingIsCarry ==
  ASSUME bus \in ProgramState
  PROVE  Operand.additional
           = IF Fetched.addressing_mode \in Indexed /\ IndexCarries THEN 1 ELSE 0
<1> DEFINE next  == ToU16(bus.program_counter + 1)
           moved == [bus EXCEPT !.program_counter = next]
<1>1. /\ moved \in BusState /\ moved.x = bus.x /\ moved.y = bus.y
      /\ moved.cpu_ram = bus.cpu_ram /\ moved.cartridge = bus.cartridge
  BY ProgramFields, Wraps DEF ProgramState, BusState
<1>2. Operand.additional = IF PageCrossed(moved, Fetched) THEN 1 ELSE 0
  BY DEF Operand, OperandOf, get_operand_address
<1>3. /\ Fetched.byte \in u8 /\ Fetched.word \in u16 /\ bus.x \in u8 /\ bus.y \in u8
  BY ProgramFields, DecodeType DEF Fetched, ProgramState
<1> HIDE DEF moved, Fetched
<1> DEFINE pointer == ZeroPageWord(moved, Fetched.byte)
<1>4. pointer \in u16 /\ LowByte(pointer) = read_mem(bus, Fetched.byte)
  <2>1. read_mem(moved, Fetched.byte) = read_mem(bus, Fetched.byte)
    BY <1>1, SameReads
  <2>2. Fetched.byte \in u16 /\ LowByte(Fetched.byte + 1) \in u16
    BY <1>3, U8, U16 DEF LowByte
  <2>3. /\ read_mem(moved, Fetched.byte) \in u8
        /\ read_mem(moved, LowByte(Fetched.byte + 1)) \in u8
    BY <1>1, <2>2, ReadType
  <2>4. \A hi, lo \in u8 : LowByte(Word(hi, lo)) = lo
    BY U8 DEF LowByte, Word
  <2> QED
    BY <1>1, <1>3, <2>1, <2>3, <2>4, ZeroPageWordType DEF ZeroPageWord
<1> HIDE DEF pointer
<1>5. CASE Fetched.addressing_mode = "Absolute_X"
  <2>1. PageCrossed(moved, Fetched)
          <=> HighByte(ToU16(Fetched.word + bus.x)) # HighByte(Fetched.word)
    BY <1>1, <1>5 DEF PageCrossed, OperandAddress, BaseAddress
  <2>2. IndexCarries <=> LowByte(Fetched.word) + bus.x > 255
    BY <1>5 DEF IndexCarries
  <2> QED
    BY <1>2, <1>3, <1>5, <2>1, <2>2, HighByteCarries DEF Indexed
<1>6. CASE Fetched.addressing_mode = "Absolute_Y"
  <2>1. PageCrossed(moved, Fetched)
          <=> HighByte(ToU16(Fetched.word + bus.y)) # HighByte(Fetched.word)
    BY <1>1, <1>6 DEF PageCrossed, OperandAddress, BaseAddress
  <2>2. IndexCarries <=> LowByte(Fetched.word) + bus.y > 255
    BY <1>6 DEF IndexCarries
  <2> QED
    BY <1>2, <1>3, <1>6, <2>1, <2>2, HighByteCarries DEF Indexed
<1>7. CASE Fetched.addressing_mode = "Indirect_Y"
  <2>1. PageCrossed(moved, Fetched)
          <=> HighByte(ToU16(pointer + bus.y)) # HighByte(pointer)
    BY <1>1, <1>7 DEF PageCrossed, OperandAddress, BaseAddress, pointer
  <2>2. IndexCarries <=> LowByte(pointer) + bus.y > 255
    BY <1>4, <1>7 DEF IndexCarries
  <2> QED
    BY <1>2, <1>3, <1>4, <1>7, <2>1, <2>2, HighByteCarries DEF Indexed
<1>8. CASE Fetched.addressing_mode \notin {"Absolute_X", "Absolute_Y", "Indirect_Y"}
  BY <1>2, <1>8 DEF PageCrossed, Indexed
<1> QED
  BY <1>5, <1>6, <1>7, <1>8

\* What the row of the instruction contributes.
LEMMA RowCycles ==
  ASSUME bus \in ProgramState, RowsTimed
  PROVE  Cycles(Fetched, Operand)
           = IF Fetched.fn \in BranchFns THEN 2
             ELSE LeastCycles(Fetched.fn, Fetched.addressing_mode)
                    + (IF ReadsIndexed(Fetched.fn, Fetched.addressing_mode) /\ IndexCarries
                         THEN 1 ELSE 0)
<1> DEFINE code == read_mem(bus, bus.program_counter)
           fn   == Fetched.fn
           mode == Fetched.addressing_mode
           pays == instruction_has_additional_cycle_on_page_crossing(Instruction(fn))
<1>1. code \in u8
  BY ProgramFields, ProgramRead
<1>2. /\ fn = opcodes[code].fn /\ mode = opcodes[code].addressing_mode
      /\ Fetched.cycles = opcodes[code].cycles /\ Fetched.cycles \in Int
  BY <1>1, RowType DEF Fetched, get_next_opcode
<1> HIDE DEF code, fn, mode
<1>3. /\ Fetched.cycles = IF fn \in BranchFns THEN 2 ELSE LeastCycles(fn, mode)
      /\ mode \in Indexed => (pays <=> ReadsIndexed(fn, mode))
  BY <1>1, <1>2 DEF RowsTimed
<1>4. fn \in BranchFns => ~pays
  BY DEF BranchFns, Instruction, instruction_has_additional_cycle_on_page_crossing
<1>5. Operand.additional = IF mode \in Indexed /\ IndexCarries THEN 1 ELSE 0
  BY CrossingIsCarry DEF mode
<1>6. Cycles(Fetched, Operand) = Fetched.cycles + (IF pays THEN Operand.additional ELSE 0)
  BY DEF Cycles, fn
<1>7. ReadsIndexed(fn, mode) => mode \in Indexed
  BY DEF ReadsIndexed
<1> HIDE DEF pays
<1>8. Cycles(Fetched, Operand)
        = Fetched.cycles + (IF pays /\ mode \in Indexed /\ IndexCarries THEN 1 ELSE 0)
  BY <1>5, <1>6
<1>9. CASE fn \in BranchFns
  BY <1>2, <1>3, <1>4, <1>8, <1>9 DEF fn
<1>10. CASE fn \notin BranchFns
  BY <1>2, <1>3, <1>7, <1>8, <1>10 DEF fn, mode
<1> QED
  BY <1>9, <1>10

\* A branch that is taken pays for the page of its target, as seen from the
\* address after the next instruction's first byte.
LEMMA BranchPays ==
  ASSUME NEW b \in ProgramState, NEW a \in u16, NEW condition
  PROVE  LET c == BranchIf(condition, b, a)
             target == ToU16(b.program_counter + a)
         IN  \/ c.program_counter = b.program_counter /\ c.cycles = b.cycles
             \/ /\ c.program_counter = target
                /\ c.cycles = b.cycles
                     + (IF HighByte(ToU16(b.program_counter + 1)) # HighByte(target)
                          THEN 2 ELSE 1)
<1> DEFINE target == ToU16(b.program_counter + a)
           moved  == [b EXCEPT !.program_counter = target]
           n      == IF HighByte(ToU16(b.program_counter + 1)) # HighByte(target) THEN 2 ELSE 1
<1>1. branch(b, a) = tick(moved, n)
  BY DEF branch
<1>2. target \in u16
  <2>1. b.program_counter + a \in Int
    BY ProgramFields, U16
  <2> QED
    BY <2>1, Widths
<1> HIDE DEF target, n
<1>3. moved \in BusState /\ moved.program_counter = target /\ moved.cycles = b.cycles
  BY <1>2 DEF ProgramState, BusState
<1> HIDE DEF moved
<1>4. /\ tick(moved, n).program_counter = target
      /\ tick(moved, n).cycles = b.cycles + n
  BY <1>3 DEF tick, BusState
<1>5. /\ branch(b, a).program_counter = target
      /\ branch(b, a).cycles = b.cycles
           + (IF HighByte(ToU16(b.program_counter + 1)) # HighByte(target) THEN 2 ELSE 1)
  BY <1>1, <1>4 DEF n
<1>6. BranchIf(condition, b, a) \in {branch(b, a), b}
  BY DEF BranchIf
<1> QED
  BY <1>5, <1>6 DEF target

\* The step of a branch whose row is as documented.
LEMMA BranchStepPays ==
  ASSUME bus \in ProgramState, Branch, RowsAgree, RowsTimed, ~BranchAtPageEnd
  PROVE  bus'.cycles - bus.cycles \in BranchCycles
<1> DEFINE b == Operand.bus
           a == Operand.address
           target == ToU16(b.program_counter + a)
<1>1. Fetched.fn \in BranchFns /\ Fetched.fn \notin JumpFns
  BY BranchStepMoves DEF BranchFns, JumpFns
<1>2. b \in ProgramState /\ a \in u16
  BY OperandType
<1>3. PICK after \in ProgramState :
        /\ Retires(Fetched, Operand, after)
        /\ \/ after.program_counter = b.program_counter /\ after.cycles = b.cycles
           \/ /\ after.program_counter = target
              /\ after.cycles = b.cycles
                   + (IF HighByte(ToU16(b.program_counter + 1)) # HighByte(target)
                        THEN 2 ELSE 1)
  <2> DEFINE fns == {bcc_fn(b, a), bcs_fn(b, a), bne_fn(b, a), beq_fn(b, a),
                     bpl_fn(b, a), bmi_fn(b, a), bvc_fn(b, a), bvs_fn(b, a)}
  <2>1. PICK after \in fns : Retires(Fetched, Operand, after)
    BY DEF Branch, Execute, Operand
  <2>2. after \in ProgramState
    BY <1>2, <2>1, BranchesType
  <2>3. \E condition : after = BranchIf(condition, b, a)
    BY <2>1 DEF bcc_fn, bcs_fn, bne_fn, beq_fn, bpl_fn, bmi_fn, bvc_fn, bvs_fn
  <2> HIDE DEF fns, b, a
  <2> QED
    BY <1>2, <2>1, <2>2, <2>3, BranchPays
<1>4. b.program_counter = NextAddress /\ NextAddress \in u16
  BY <1>1, <1>2, OperandIsNext, ProgramFields
<1>5. LowByte(NextAddress) # 255
  BY <1>1 DEF BranchAtPageEnd
<1>6. /\ bus'.program_counter = after.program_counter
      /\ bus'.cycles = after.cycles + 2
  BY <1>1, <1>3, RetiresKeeps, RowCycles DEF ProgramState
<1>7. b.cycles = bus.cycles /\ bus.cycles \in Int
  BY OperandKeeps DEF ProgramState, BusState
<1> DEFINE next == NextAddress
<1>8. HighByte(ToU16(next + 1)) = HighByte(next)
  <2> HIDE DEF next
  <2>1. next \in u16 /\ LowByte(next) # 255
    BY <1>4, <1>5 DEF next
  <2>2. LowByte(next) \in Int /\ LowByte(next) <= 255
    BY <2>1, U16 DEF LowByte
  <2>3. 1 \in u8 /\ ~(LowByte(next) + 1 > 255)
    BY <2>1, <2>2, U8
  <2> QED
    BY <2>1, <2>3, HighByteCarries
<1> HIDE DEF b, a, target, next
<1>9. CASE after.program_counter = next /\ after.cycles = bus.cycles
  <2>1. bus'.cycles - bus.cycles = 2 /\ bus'.program_counter = NextAddress
    BY <1>6, <1>7, <1>9 DEF next
  <2> QED
    BY <2>1 DEF BranchCycles
<1>10. CASE after.program_counter = target /\ HighByte(target) = HighByte(next)
              /\ after.cycles = bus.cycles + 1
  <2>1. bus'.cycles - bus.cycles = 3 /\ HighByte(bus'.program_counter) = HighByte(NextAddress)
    BY <1>6, <1>7, <1>10 DEF next
  <2> QED
    BY <2>1 DEF BranchCycles
<1>11. CASE after.program_counter = target /\ HighByte(target) # HighByte(next)
              /\ after.cycles = bus.cycles + 2
  <2>1. bus'.cycles - bus.cycles = 4 /\ HighByte(bus'.program_counter) # HighByte(NextAddress)
    BY <1>6, <1>7, <1>11 DEF next
  <2> QED
    BY <2>1 DEF BranchCycles
<1> QED
  BY <1>3, <1>4, <1>7, <1>8, <1>9, <1>10, <1>11 DEF next

LEMMA StepTimed ==
  ASSUME bus \in ProgramState, Step, RowsAgree, RowsTimed, ~BranchAtPageEnd
  PROVE  bus'.cycles - bus.cycles \in Timing
<1>1. CASE Branch
  <2>1. Fetched.fn \in BranchFns
    BY <1>1, BranchStepMoves
  <2> QED
    BY <1>1, <2>1, BranchStepPays DEF Timing
<1>2. CASE ~Branch
  <2>1. Fetched.fn \notin BranchFns
    BY <1>2, Families DEF LoadFns, StoreFns, TransferFns, AluFns, IncDecFns, AccShiftFns,
                    RmwFns, BranchFns, JumpFns, StackFns, FlagFns, EmptyFns
  <2> DEFINE n == LeastCycles(Fetched.fn, Fetched.addressing_mode)
                    + (IF ReadsIndexed(Fetched.fn, Fetched.addressing_mode) /\ IndexCarries
                         THEN 1 ELSE 0)
  <2>2. bus'.cycles = bus.cycles + n
    BY <2>1, StepChanges, RowCycles DEF StepEffect
  <2>3. bus.cycles \in Int /\ n \in Int
    <3>1. Cycles(Fetched, Operand) \in Int
      BY OperandType DEF Cycles
    <3> QED
      BY <2>1, <3>1, RowCycles DEF ProgramState, BusState
  <2>4. Timing = {n}
    BY <2>1 DEF Timing
  <2> HIDE DEF n
  <2> QED
    BY <2>2, <2>3, <2>4
<1> QED
  BY <1>1, <1>2

\* In every program every instruction of a table with the documented cycles
\* takes them, a cycle more when an indexed read or a branch crosses a page, but
\* for the branches of finding 1: the comparison of pages is the carry.
THEOREM InstructionsTakeTheirCycles ==
  ASSUME RowsAgree, RowsTimed
  PROVE  Spec => CycleTiming
<1>1. IInv /\ [Next]_vars
        => [Running /\ ~BranchAtPageEnd => bus'.cycles - bus.cycles \in Timing]_vars
  BY RunningStep, StepTimed
<1> QED
  BY InitIInv, NextIInv, <1>1, PTL DEF Spec, CycleTiming

-----------------------------------------------------------------------------
(* The trace.                                                              *)

\* A bus whose program counter has moved reads the same memory and has the
\* same registers.
LEMMA MovedBus ==
  ASSUME NEW b \in BusState, NEW n
  PROVE  LET moved == [b EXCEPT !.program_counter = n]
         IN  /\ moved.x = b.x /\ moved.y = b.y
             /\ \A a : read_mem(moved, a) = read_mem(b, a)
<1> DEFINE moved == [b EXCEPT !.program_counter = n]
<1>1. moved.cartridge = b.cartridge /\ moved.cpu_ram = b.cpu_ram
  BY DEF BusState
<1>2. moved.x = b.x /\ moved.y = b.y
  BY DEF BusState
<1>3. \A a : read_mem(moved, a) = read_mem(b, a)
  BY <1>1 DEF read_mem
<1> QED
  BY <1>2, <1>3

\* The two copies of get_operand_address agree on every operand but an
\* immediate one, whose address is the program counter itself.
LEMMA SameAddress ==
  ASSUME bus \in BusState, NEW n, NEW o, o.addressing_mode # "Immediate"
  PROVE  TraceAddress(o) = OperandAddress([bus EXCEPT !.program_counter = n], o)
<1> DEFINE moved == [bus EXCEPT !.program_counter = n]
           mode  == o.addressing_mode
<1>1. moved.x = bus.x /\ moved.y = bus.y
  BY MovedBus
<1>2. \A a : read_mem(moved, a) = read_mem(bus, a)
  BY MovedBus
<1> HIDE DEF moved
<1>3. \A p : TracePointer(p) = ZeroPageWord(moved, p)
  BY <1>2 DEF TracePointer, ZeroPageWord, ToU8, LowByte
<1>4. \A w : TraceVector(w) = IndirectTarget(moved, w)
  BY <1>2 DEF TraceVector, IndirectTarget
<1>5. \A v : ToU8(v) = LowByte(v)
  BY DEF ToU8, LowByte
<1>6. mode = "Indirect_Y" => BaseAddress(moved, o) = TracePointer(o.byte)
  BY <1>3 DEF BaseAddress
<1>7. mode = "Absolute_Y" => BaseAddress(moved, o) = o.word
  BY DEF BaseAddress
<1>8. TraceAddress(o) = OperandAddress(moved, o)
  <2>1. CASE mode \in {"Absolute_Y", "Indirect_Y"}
    BY <1>1, <1>6, <1>7, <2>1 DEF TraceAddress, OperandAddress
  <2>2. CASE mode \in {"Absolute", "Absolute_X", "Relative"}
    BY <1>1, <2>2 DEF TraceAddress, OperandAddress, SignExtend
  <2>3. CASE mode \in {"Indirect", "Indirect_X"}
    BY <1>1, <1>3, <1>4, <1>5, <2>3 DEF TraceAddress, OperandAddress
  <2>4. CASE mode \in {"ZeroPage", "ZeroPage_X", "ZeroPage_Y"}
    BY <1>1, <1>5, <2>4 DEF TraceAddress, OperandAddress
  <2>5. CASE mode \notin {"Absolute", "Absolute_X", "Absolute_Y", "Indirect", "Indirect_X",
                          "Indirect_Y", "Relative", "ZeroPage", "ZeroPage_X", "ZeroPage_Y"}
    BY <2>5 DEF TraceAddress, OperandAddress
  <2> QED
    BY <2>1, <2>2, <2>3, <2>4, <2>5
<1> QED
  BY <1>8 DEF moved

LEMMA LineAddress ==
  ASSUME bus \in BusState, Fetched.addressing_mode # "Immediate"
  PROVE  TraceAddress(Fetched) = Operand.address
<1>1. Operand.address
        = OperandAddress([bus EXCEPT !.program_counter = ToU16(bus.program_counter + 1)],
                         Fetched)
  BY DEF Operand, OperandOf, get_operand_address
<1> QED
  BY <1>1, SameAddress

\* Every line of the trace shows the address that the CPU hands to the
\* instruction function, whatever the table, the program and the state.
THEOREM TraceAgreesWithCpu == Spec => []CopiesAgree
<1>1. TypeOK => CopiesAgree
  BY LineAddress DEF TypeOK, CopiesAgree
<1> QED
  BY <1>1, TypeCorrectness, PTL

\* The carry of a shift is the bit shifted out, wherever the operand is: the
\* second half of a combined instruction keeps it.
LEMMA ShiftCarries ==
  ASSUME NEW b \in ProgramState, NEW a \in u16
  PROVE  LET M == read_mem(b, a)
             Holds(c) == CarryFlag \in c.status
         IN  /\ Holds(asl_fn(b, a)) <=> M >= 128
             /\ Holds(rol_fn(b, a)) <=> M >= 128
             /\ Holds(slo_fn(b, a)) <=> M >= 128
             /\ Holds(rla_fn(b, a)) <=> M >= 128
             /\ Holds(lsr_fn(b, a)) <=> M % 2 = 1
             /\ Holds(ror_fn(b, a)) <=> M % 2 = 1
             /\ Holds(sre_fn(b, a)) <=> M % 2 = 1
<1> DEFINE M == read_mem(b, a)
<1>1. M \in u8 /\ Carry(b) \in {0, 1}
  BY ProgramRead, CarryBit
<1>2. (Bit7(M) <=> M >= 128) /\ Bit7(M) \in BOOLEAN /\ (M % 2 = 1) \in BOOLEAN
  BY <1>1, U8 DEF Bit7
<1>3. /\ ShiftLeft(M).value \in u8 /\ ShiftRight(M).value \in u8
      /\ RotateLeft(M, Carry(b)).value \in u8 /\ RotateRight(M, Carry(b)).value \in u8
  BY <1>1, ShiftType
<1>4. /\ ShiftLeft(M).carry = Bit7(M) /\ RotateLeft(M, Carry(b)).carry = Bit7(M)
      /\ ShiftRight(M).carry = (M % 2 = 1) /\ RotateRight(M, Carry(b)).carry = (M % 2 = 1)
  BY DEF ShiftLeft, RotateLeft, ShiftRight, RotateRight
<1>5. ASSUME NEW s, s.value \in u8, s.carry \in BOOLEAN
      PROVE  /\ StoreShifted(b, a, s) \in ProgramState
             /\ CarryFlag \in StoreShifted(b, a, s).status <=> s.carry
  <2> DEFINE carried == set_flag(b, CarryFlag, s.carry)
             written == write_mem(carried, a, s.value)
  <2>1. carried \in ProgramState /\ (CarryFlag \in carried.status <=> s.carry)
    BY <1>5, FlagValues, FlagUpdates, SetFlag DEF ProgramState
  <2>2. StoreShifted(b, a, s) = update_zero_and_negative_flags(written, s.value)
    BY DEF StoreShifted
  <2> HIDE DEF carried
  <2>3. written \in ProgramState /\ (CarryFlag \in written.status <=> s.carry)
    BY <1>5, <2>1, ProgramWrite, WriteOnly, FlagValues DEF ProgramState, Only, ProgramFlags
  <2> HIDE DEF written
  <2> QED
    BY <1>5, <2>2, <2>3, ZeroNegativeType, ZeroNegative, FlagsDiffer
<1>6. ASSUME NEW c \in ProgramState
      PROVE  /\ CarryFlag \in ora_fn(c, a).status <=> CarryFlag \in c.status
             /\ CarryFlag \in and_fn(c, a).status <=> CarryFlag \in c.status
             /\ CarryFlag \in eor_fn(c, a).status <=> CarryFlag \in c.status
  BY LogicLeaves
<1> DEFINE asl == asl_fn(b, a)
           rol == rol_fn(b, a)
           lsr == lsr_fn(b, a)
           ror == ror_fn(b, a)
<1>7. /\ asl = StoreShifted(b, a, ShiftLeft(M)) /\ rol = StoreShifted(b, a, RotateLeft(M, Carry(b)))
      /\ lsr = StoreShifted(b, a, ShiftRight(M)) /\ ror = StoreShifted(b, a, RotateRight(M, Carry(b)))
  BY DEF asl_fn, rol_fn, lsr_fn, ror_fn
<1>8. /\ slo_fn(b, a) = ora_fn(asl, a) /\ rla_fn(b, a) = and_fn(rol, a)
      /\ sre_fn(b, a) = eor_fn(lsr, a)
  BY DEF slo_fn, rla_fn, sre_fn
<1> HIDE DEF M, asl, rol, lsr, ror
<1>9. asl \in ProgramState /\ (CarryFlag \in asl.status <=> M >= 128)
  BY <1>2, <1>3, <1>4, <1>5, <1>7
<1>10. rol \in ProgramState /\ (CarryFlag \in rol.status <=> M >= 128)
  BY <1>2, <1>3, <1>4, <1>5, <1>7
<1>11. lsr \in ProgramState /\ (CarryFlag \in lsr.status <=> M % 2 = 1)
  BY <1>2, <1>3, <1>4, <1>5, <1>7
<1>12. ror \in ProgramState /\ (CarryFlag \in ror.status <=> M % 2 = 1)
  BY <1>2, <1>3, <1>4, <1>5, <1>7
<1> QED
  BY <1>6, <1>8, <1>9, <1>10, <1>11, <1>12 DEF M, asl, rol, lsr, ror

\* What is at the operand after it was counted up or down: the count, or, where
\* nothing can be written, the byte that was there.
LEMMA CountWritten ==
  ASSUME NEW b \in ProgramState, NEW a \in u16
  PROVE  LET M == read_mem(b, a)
         IN  /\ read_mem(inc_fn(b, a), a) \in {M, ToU8(M + 1)}
             /\ read_mem(isb_fn(b, a), a) \in {M, ToU8(M + 1)}
             /\ read_mem(dec_fn(b, a), a) \in {M, ToU8(M - 1)}
             /\ read_mem(dcp_fn(b, a), a) \in {M, ToU8(M - 1)}
<1> DEFINE M == read_mem(b, a)
           inc == inc_fn(b, a)
           dec == dec_fn(b, a)
<1>1. M \in u8 /\ ToU8(M + 1) \in u8 /\ ToU8(M - 1) \in u8
  BY ProgramRead, U8 DEF ToU8
<1>2. ASSUME NEW v \in u8
      PROVE  /\ StoreCounted(b, a, v) \in ProgramState
             /\ read_mem(StoreCounted(b, a, v), a) \in {M, v}
  <2>1. CASE a < RAM_MIRROR_END
    BY <2>1, StoreCountedStores DEF Stores
  <2>2. CASE ~(a < RAM_MIRROR_END)
    <3>1. StoreCounted(b, a, v) = update_zero_and_negative_flags(b, v)
      BY <2>2 DEF StoreCounted, write_mem
    <3>2. update_zero_and_negative_flags(b, v) \in ProgramState
      BY ZeroNegativeType
    <3>3. read_mem(update_zero_and_negative_flags(b, v), a) = M
      BY FlagsKeep, ZeroNegativeStays, SameReads DEF Kept, Stays, SameCartridge, ProgramState
    <3> QED
      BY <3>1, <3>2, <3>3
  <2> QED
    BY <2>1, <2>2
<1>3. inc = StoreCounted(b, a, ToU8(M + 1)) /\ dec = StoreCounted(b, a, ToU8(M - 1))
  BY DEF inc_fn, dec_fn
<1>4. isb_fn(b, a) = sbc_fn(inc, a) /\ dcp_fn(b, a) = cmp_fn(dec, a)
  BY DEF isb_fn, dcp_fn
<1> HIDE DEF M, inc, dec
<1>5. inc \in ProgramState /\ read_mem(inc, a) \in {M, ToU8(M + 1)}
  BY <1>1, <1>2, <1>3
<1>6. dec \in ProgramState /\ read_mem(dec, a) \in {M, ToU8(M - 1)}
  BY <1>1, <1>2, <1>3
<1>7. read_mem(sbc_fn(inc, a), a) = read_mem(inc, a) /\ read_mem(cmp_fn(dec, a), a) = read_mem(dec, a)
  BY <1>5, <1>6, SecondHalves
<1> QED
  BY <1>4, <1>5, <1>6, <1>7 DEF M, inc, dec

\* What a load leaves in its register.
LEMMA RegisterLeaves ==
  ASSUME NEW b \in ProgramState, NEW v \in u8
  PROVE  SetA(b, v).accumulator = v /\ SetX(b, v).x = v /\ SetY(b, v).y = v
<1>1. \A c \in ProgramState :
        /\ update_zero_and_negative_flags(c, v).accumulator = c.accumulator
        /\ update_zero_and_negative_flags(c, v).x = c.x
        /\ update_zero_and_negative_flags(c, v).y = c.y
  BY ZeroNegativeOnly DEF Only
<1>2. /\ [b EXCEPT !.accumulator = v] \in ProgramState /\ [b EXCEPT !.accumulator = v].accumulator = v
      /\ [b EXCEPT !.x = v] \in ProgramState /\ [b EXCEPT !.x = v].x = v
      /\ [b EXCEPT !.y = v] \in ProgramState /\ [b EXCEPT !.y = v].y = v
  BY RegisterUpdates DEF ProgramState, BusState
<1> QED
  BY <1>1, <1>2 DEF SetA, SetX, SetY

LEMMA LoadLeaves ==
  ASSUME NEW b \in ProgramState, NEW a \in u16
  PROVE  LET M == read_mem(b, a)
         IN  /\ lda_fn(b, a).accumulator = M /\ lax_fn(b, a).accumulator = M
             /\ ldx_fn(b, a).x = M /\ ldy_fn(b, a).y = M
  BY ProgramRead, RegisterLeaves, TwoRegisters DEF lda_fn, ldx_fn, ldy_fn

\* The flag BIT takes from the byte's sign.
LEMMA BitSign ==
  ASSUME NEW b \in ProgramState, NEW a \in u16
  PROVE  NegativeFlag \in bit_fn(b, a).status <=> read_mem(b, a) >= 128
<1> DEFINE M == read_mem(b, a)
           zero == set_flag(b, ZeroFlag, BitAnd(b.accumulator, M) = 0)
           over == set_flag(zero, OverflowFlag, 64 \in Bits(M))
<1>1. M \in u8
  BY ProgramRead
<1>2. bit_fn(b, a) = set_flag(over, NegativeFlag, 128 \in Bits(M))
  BY DEF bit_fn
<1>3. 128 \in Bits(M) <=> M >= 128
  <2>1. 128 \in Bits(M) <=> (M \div 128) % 2 = 1
    BY DEF Bits, Weights
  <2> QED
    BY <1>1, <2>1, U8
<1>4. over \in BusState
  <2>1. zero \in ProgramState
    BY FlagValues, FlagUpdates
  <2> HIDE DEF zero
  <2> QED
    BY <2>1, FlagValues, FlagUpdates DEF ProgramState
<1> HIDE DEF over
<1> DEFINE sign == 128 \in Bits(M)
<1>5. sign \in BOOLEAN /\ bit_fn(b, a) = set_flag(over, NegativeFlag, sign)
  BY <1>2
<1> HIDE DEF sign
<1>6. NegativeFlag \in bit_fn(b, a).status <=> sign
  BY <1>4, <1>5, SetFlag
<1> QED
  BY <1>3, <1>6 DEF sign

LEMMA TracedFunctions ==
  ASSUME Step
  PROVE  LET retires(after) == Retires(Fetched, Operand, after)
             b == Operand.bus
             a == Operand.address
         IN  /\ Fetched.fn = "lda" => retires(lda_fn(b, a))
             /\ Fetched.fn = "lax" => retires(lax_fn(b, a))
             /\ Fetched.fn = "ldx" => retires(ldx_fn(b, a))
             /\ Fetched.fn = "ldy" => retires(ldy_fn(b, a))
             /\ Fetched.fn = "and" => retires(and_fn(b, a))
             /\ Fetched.fn = "ora" => retires(ora_fn(b, a))
             /\ Fetched.fn = "eor" => retires(eor_fn(b, a))
             /\ Fetched.fn = "bit" => retires(bit_fn(b, a))
             /\ Fetched.fn = "inc" => retires(inc_fn(b, a))
             /\ Fetched.fn = "isb" => retires(isb_fn(b, a))
             /\ Fetched.fn = "dec" => retires(dec_fn(b, a))
             /\ Fetched.fn = "dcp" => retires(dcp_fn(b, a))
             /\ Fetched.fn = "asl" => retires(asl_fn(b, a))
             /\ Fetched.fn = "rol" => retires(rol_fn(b, a))
             /\ Fetched.fn = "slo" => retires(slo_fn(b, a))
             /\ Fetched.fn = "rla" => retires(rla_fn(b, a))
             /\ Fetched.fn = "lsr" => retires(lsr_fn(b, a))
             /\ Fetched.fn = "ror" => retires(ror_fn(b, a))
             /\ Fetched.fn = "sre" => retires(sre_fn(b, a))
  BY DEF Step, Load, Store, Transfer, Alu, IncDec, Shift, ReadModifyWrite, Branch,
         Jump, Stack, Flag, Empty, EmptyFns, Execute, Dispatches, Operand

\* The bus after the step is c, but for the cycles.
Leaves(c) ==
  /\ bus'.accumulator = c.accumulator /\ bus'.x = c.x /\ bus'.y = c.y
  /\ bus'.status = c.status
  /\ \A a : read_mem(bus', a) = read_mem(c, a)

LEMMA StepShowsValue ==
  ASSUME bus \in ProgramState, Step, TracesValue(Fetched),
         TraceAddress(Fetched) = Operand.address
  PROVE  ValueIsUsed
<1> DEFINE b  == Operand.bus
           a  == Operand.address
           fn == Fetched.fn
           v  == Line.value
           A  == bus.accumulator
           C  == IF CarryFlag \in bus.status THEN 1 ELSE 0
           written == read_mem(bus', a)
           Holds(c) == CarryFlag \in c.status
<1>1. b \in ProgramState /\ a \in u16
  BY OperandType
<1>2. v = read_mem(bus, a) /\ v = read_mem(b, a)
  <2>1. v = read_mem(bus, a)
    BY DEF Line, TraceValue
  <2> QED
    BY <2>1, OperandKeeps, OperandMoves, SameReads DEF Kept, SameCartridge
<1>3. b.accumulator = A
  BY OperandKeeps
<1>4. ASSUME NEW after \in ProgramState, Retires(Fetched, Operand, after)
      PROVE  Leaves(after)
  <2>1. after \in BusState
    BY DEF ProgramState
  <2>2. bus'.cpu_ram = after.cpu_ram /\ bus'.cartridge = after.cartridge
    BY <1>4, <2>1, RetiresKeeps, RetiresStays DEF Kept, Stays, SameCartridge
  <2>3. /\ bus'.accumulator = after.accumulator /\ bus'.x = after.x /\ bus'.y = after.y
        /\ bus'.status = after.status
    BY <1>4, <2>1, RetiresKeeps
  <2> QED
    BY <2>2, <2>3, SameReads DEF Leaves
<1>5. /\ fn = "lda" => Leaves(lda_fn(b, a))
      /\ fn = "lax" => Leaves(lax_fn(b, a))
      /\ fn = "ldx" => Leaves(ldx_fn(b, a))
      /\ fn = "ldy" => Leaves(ldy_fn(b, a))
  BY <1>1, <1>4, TracedFunctions, LoadType
<1>6. /\ fn = "and" => Leaves(and_fn(b, a))
      /\ fn = "ora" => Leaves(ora_fn(b, a))
      /\ fn = "eor" => Leaves(eor_fn(b, a))
      /\ fn = "bit" => Leaves(bit_fn(b, a))
  BY <1>1, <1>4, TracedFunctions, AluType, LogicType
<1>7. /\ fn = "inc" => Leaves(inc_fn(b, a))
      /\ fn = "isb" => Leaves(isb_fn(b, a))
      /\ fn = "dec" => Leaves(dec_fn(b, a))
      /\ fn = "dcp" => Leaves(dcp_fn(b, a))
  BY <1>1, <1>4, TracedFunctions, CountType, ComposedType
<1>8. /\ fn = "asl" => Leaves(asl_fn(b, a))
      /\ fn = "rol" => Leaves(rol_fn(b, a))
      /\ fn = "slo" => Leaves(slo_fn(b, a))
      /\ fn = "rla" => Leaves(rla_fn(b, a))
      /\ fn = "lsr" => Leaves(lsr_fn(b, a))
      /\ fn = "ror" => Leaves(ror_fn(b, a))
      /\ fn = "sre" => Leaves(sre_fn(b, a))
  BY <1>1, <1>4, TracedFunctions, MemoryShiftType, ComposedType
<1>9. /\ fn = "adc" => bus'.accumulator = ToU8(A + v + C)
      /\ fn = "sbc" => bus'.accumulator = ToU8(A - v - (1 - C))
      /\ fn = "cmp" => (Holds(bus') <=> A >= v)
      /\ fn = "cpx" => (Holds(bus') <=> bus.x >= v)
      /\ fn = "cpy" => (Holds(bus') <=> bus.y >= v)
  <2>1. Arithmetic
    BY StepComputes
  <2>2. v = read_mem(Operand.bus, Operand.address)
    BY <1>2
  <2> HIDE DEF v
  <2> QED
    BY <2>1, <2>2 DEF Arithmetic
<1> HIDE DEF a, b, v, A, C, written
<1>10. /\ fn \in {"lda", "lax"} => bus'.accumulator = v
       /\ fn = "ldx" => bus'.x = v
       /\ fn = "ldy" => bus'.y = v
  BY <1>1, <1>2, <1>5, LoadLeaves DEF Leaves
<1>11. /\ fn = "and" => bus'.accumulator = BitAnd(A, v)
       /\ fn = "ora" => bus'.accumulator = BitOr(A, v)
       /\ fn = "eor" => bus'.accumulator = BitXor(A, v)
  <2>1. /\ and_fn(b, a) = SetA(b, BitAnd(A, v)) /\ ora_fn(b, a) = SetA(b, BitOr(A, v))
        /\ eor_fn(b, a) = SetA(b, BitXor(A, v))
    BY <1>2, <1>3 DEF and_fn, ora_fn, eor_fn
  <2>2. \A w \in u8 : SetA(b, w).accumulator = w
    BY <1>1, RegisterLeaves
  <2>3. BitAnd(A, v) \in u8 /\ BitOr(A, v) \in u8 /\ BitXor(A, v) \in u8
    BY ByteType DEF Bits, BitAnd, BitOr, BitXor
  <2> QED
    BY <1>6, <2>1, <2>2, <2>3 DEF Leaves
<1>12. fn = "bit" => (NegativeFlag \in bus'.status <=> v >= 128)
  BY <1>1, <1>2, <1>6, BitSign DEF Leaves
<1>13. /\ fn \in {"inc", "isb"} => written \in {v, ToU8(v + 1)}
       /\ fn \in {"dec", "dcp"} => written \in {v, ToU8(v - 1)}
  BY <1>1, <1>2, <1>7, CountWritten DEF Leaves, written
<1>14. /\ fn \in {"asl", "rol", "slo", "rla"} => (Holds(bus') <=> v >= 128)
       /\ fn \in {"lsr", "ror", "sre"} => (Holds(bus') <=> v % 2 = 1)
  BY <1>1, <1>2, <1>8, ShiftCarries DEF Leaves
<1> HIDE DEF Holds, fn
<1>15. v = read_mem(bus, a)
  BY <1>2
<1> QED
  BY <1>9, <1>10, <1>11, <1>12, <1>13, <1>14, <1>15 DEF ValueIsUsed, a, v, A, C, written, Holds, fn

\* In every program of every table the value a line of the trace ends with is
\* the one its instruction then works on, or the one that is at the operand of
\* a store until it is overwritten: disassemble_cpu's second computation of the
\* address, made before the program counter moves, never shows another byte.
THEOREM TraceShowsTheValueUsed == Spec => TraceShowsValue
<1>1. IInv /\ [Next]_vars => [Running /\ TracesValue(Fetched) => ValueIsUsed]_vars
  <2> SUFFICES ASSUME IInv, [Next]_vars, Running, TracesValue(Fetched), ~UNCHANGED vars
               PROVE  ValueIsUsed
    OBVIOUS
  <2>1. bus \in ProgramState /\ Step
    BY RunningStep
  <2>2. Fetched.addressing_mode # "Immediate" /\ bus \in BusState
    BY <2>1 DEF TracesValue, ProgramState
  <2>3. TraceAddress(Fetched) = Operand.address
    BY <2>2, LineAddress
  <2> QED
    BY <2>1, <2>3, StepShowsValue
<1> QED
  BY InitIInv, NextIInv, <1>1, PTL DEF Spec, TraceShowsValue

LEMMA ImmediateByte ==
  ASSUME bus \in ProgramState, RowsAgree, JumpsHaveAddresses,
         Fetched.addressing_mode = "Immediate"
  PROVE  Line.operand = read_mem(bus, Operand.address)
<1> DEFINE pc  == bus.program_counter
           row == opcodes[read_mem(bus, pc)]
           lo  == IF row.bytes >= 2 THEN read_mem(bus, ToU16(pc + 1)) ELSE 0
           moved == [bus EXCEPT !.program_counter = ToU16(pc + 1)]
<1>1. row.addressing_mode = "Immediate" /\ Fetched.byte = lo
  BY DEF Fetched, get_next_opcode
<1>2. read_mem(bus, pc) \in u8
  BY ReadType, ProgramFields DEF ProgramState
<1>3. row.bytes = 2
  BY <1>1, <1>2 DEF RowsAgree, JumpsHaveAddresses, OperandBytes
<1>4. Fetched.byte = read_mem(bus, ToU16(pc + 1))
  BY <1>1, <1>3
<1>5. moved.program_counter = ToU16(pc + 1)
  BY DEF ProgramState, BusState
<1>6. Operand.address = OperandAddress(moved, Fetched)
  BY DEF Operand, OperandOf, get_operand_address
<1> HIDE DEF moved
<1>7. OperandAddress(moved, Fetched) = ToU16(pc + 1)
  BY <1>5 DEF OperandAddress
<1>8. Line.operand = Fetched.byte
  BY DEF Line, TraceOperand
<1> QED
  BY <1>4, <1>6, <1>7, <1>8

\* A branch goes to the target in its line, which counts from the program
\* counter of the opcode.
LEMMA BranchTarget ==
  ASSUME bus \in ProgramState, Step, RowsAgree, JumpsHaveAddresses,
         Fetched.addressing_mode = "Relative"
  PROVE  bus'.program_counter \in {NextAddress, Line.operand}
<1> DEFINE pc   == bus.program_counter
           row  == opcodes[read_mem(bus, pc)]
           disp == SignExtend(Fetched.byte)
<1>1. read_mem(bus, pc) \in u8 /\ pc \in u16
  BY ReadType, ProgramFields DEF ProgramState
<1>2. row.addressing_mode = "Relative" /\ row.fn = Fetched.fn /\ row.bytes = Fetched.bytes
  BY DEF Fetched, get_next_opcode
<1>3. Fetched.bytes = 2 /\ Fetched.fn \in BranchFns /\ Fetched.fn \notin JumpFns
  BY <1>1, <1>2 DEF RowsAgree, JumpsHaveAddresses, OperandBytes
<1>4. Branch
  BY <1>3 DEF Step, Load, Store, Transfer, Alu, IncDec, Shift, ReadModifyWrite,
              Jump, Stack, Flag, Empty, EmptyFns, Execute, Dispatches, BranchFns
<1>5. Operand.bus.program_counter = NextAddress
  BY <1>3, OperandIsNext
<1>6. bus'.program_counter \in {NextAddress, ToU16(NextAddress + Operand.address)}
  BY <1>4, <1>5, BranchStepMoves
<1>7. Operand.address = disp
  BY DEF Operand, OperandOf, get_operand_address, OperandAddress
<1>8. Line.operand = ToU16(pc + 2 + disp)
  BY DEF Line, TraceOperand, TraceAddress, SignExtend
<1>9. ToU16(NextAddress + disp) = ToU16(pc + 2 + disp)
  <2>1. Fetched.byte \in u8
    BY <1>1, DecodeType DEF Fetched, ProgramState
  <2>2. disp \in Int
    BY <2>1, U8 DEF SignExtend
  <2>3. NextAddress = ToU16(pc + 2) /\ pc \in Int
    BY <1>1, <1>3, U16 DEF NextAddress
  <2> HIDE DEF disp, pc
  <2> QED
    BY <2>2, <2>3 DEF ToU16
<1> QED
  BY <1>6, <1>7, <1>8, <1>9

LEMMA JumpTarget ==
  ASSUME bus \in ProgramState, Step, Fetched.fn \in {"jmp", "jsr"},
         Fetched.addressing_mode \notin {"Immediate", "Relative"}
  PROVE  Line.operand = bus'.program_counter
<1> DEFINE b == Operand.bus
           a == Operand.address
<1>1. Line.operand = a
  <2>1. Line.operand = TraceAddress(Fetched)
    BY DEF Line, TraceOperand
  <2> QED
    BY <2>1, LineAddress DEF ProgramState
<1>2. b \in ProgramState /\ a \in u16
  BY OperandType
<1>3. Retires(Fetched, Operand, jmp_fn(b, a)) \/ Retires(Fetched, Operand, jsr_fn(b, a))
  BY DEF Step, Load, Store, Transfer, Alu, IncDec, Shift, ReadModifyWrite, Branch,
         Jump, Stack, Flag, Empty, EmptyFns, Execute, Dispatches, Operand
<1>4. jmp_fn(b, a) \in ProgramState /\ jsr_fn(b, a) \in ProgramState
  BY <1>2, JumpType
<1>5. jmp_fn(b, a).program_counter = a /\ jsr_fn(b, a).program_counter = a
  BY <1>2 DEF jmp_fn, jsr_fn, ProgramState, BusState
<1> QED
  BY <1>1, <1>3, <1>4, <1>5, RetiresStays DEF ProgramState, Stays

LEMMA BaseShown ==
  ASSUME bus \in ProgramState
  PROVE  BaseIsUsed
<1> DEFINE mode == Fetched.addressing_mode
           ptr  == ToU8(Fetched.byte + bus.x)
<1>1. CASE mode \in {"Absolute_X", "Absolute_Y", "Indirect_Y"}
  BY <1>1 DEF BaseIsUsed, Line, TraceOperand, TraceAddress, TraceBase
<1>2. CASE mode = "Indirect_X"
  <2>1. Line.base = ptr
    BY <1>2 DEF Line, TraceBase
  <2>2. TraceAddress(Fetched) = Operand.address
    BY <1>2, LineAddress DEF ProgramState
  <2>3. TraceAddress(Fetched) = Word(read_mem(bus, ToU8(ptr + 1)), read_mem(bus, ptr))
    BY <1>2 DEF TraceAddress, TracePointer
  <2>4. read_mem(bus, ToU8(ptr + 1)) \in u8 /\ read_mem(bus, ptr) \in u8
    <3>1. Fetched.byte \in u8 /\ bus.x \in u8
      BY ProgramFields, DecodeType DEF Fetched, ProgramState
    <3>2. ptr \in u8 /\ ToU8(ptr + 1) \in u8
      BY <3>1, U8 DEF ToU8
    <3>3. u8 \subseteq u16
      BY U8, U16
    <3> HIDE DEF ptr
    <3> QED
      BY <3>2, <3>3, ProgramRead
  <2>5. LowByte(Operand.address) = read_mem(bus, ptr)
    <3>1. \A hi, lo \in u8 : LowByte(Word(hi, lo)) = lo
      BY U8 DEF LowByte, Word
    <3> HIDE DEF ptr
    <3> QED
      BY <2>2, <2>3, <2>4, <3>1
  <2> QED
    BY <1>2, <2>1, <2>5 DEF BaseIsUsed
<1>3. CASE mode \notin {"Absolute_X", "Absolute_Y", "Indirect_Y", "Indirect_X"}
  BY <1>3 DEF BaseIsUsed
<1> QED
  BY <1>1, <1>2, <1>3

\* In every program of every table whose rows agree with themselves, the number
\* in the operand's column of a line of the trace is the one the instruction
\* acts on - the byte of an immediate operand, the target of a jump and of a
\* branch - and an index is added to the base the line shows.
THEOREM TraceShowsTheOperandUsed ==
  ASSUME RowsAgree, JumpsHaveAddresses
  PROVE  Spec => TraceShowsOperand
<1>1. IInv /\ [Next]_vars => [Running => OperandIsUsed /\ BaseIsUsed]_vars
  <2> SUFFICES ASSUME IInv, [Next]_vars, Running, ~UNCHANGED vars
               PROVE  OperandIsUsed /\ BaseIsUsed
    OBVIOUS
  <2>1. bus \in ProgramState /\ Step
    BY RunningStep
  <2>2. Fetched.fn \in {"jmp", "jsr"} =>
          Fetched.addressing_mode \notin {"Immediate", "Relative"}
    <3> DEFINE code == read_mem(bus, bus.program_counter)
    <3>1. code \in u8
      BY <2>1, ProgramFields, ProgramRead
    <3>2. /\ Fetched.fn = opcodes[code].fn
          /\ Fetched.addressing_mode = opcodes[code].addressing_mode
      BY DEF Fetched, get_next_opcode
    <3> QED
      BY <3>1, <3>2 DEF JumpsHaveAddresses, JumpFns
  <2>3. OperandIsUsed
    BY <2>1, <2>2, ImmediateByte, BranchTarget, JumpTarget DEF OperandIsUsed
  <2> QED
    BY <2>1, <2>3, BaseShown
<1> QED
  BY InitIInv, NextIInv, <1>1, PTL DEF Spec, TraceShowsOperand
=============================================================================
