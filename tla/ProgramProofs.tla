--------------------------- MODULE ProgramProofs ----------------------------
(***************************************************************************)
(* The programs of Programs compute their results for all their inputs.    *)
(*                                                                         *)
(* A program is proved as its author would argue: with an assertion at     *)
(* each of its instructions (AdditionPoint and the like).  A step of       *)
(* run_cpu executes the instruction at the program counter, which its      *)
(* bytes in ROM and the rows of the table decide; what it leaves is that   *)
(* of InstructionProofs; and it goes on to an instruction whose assertion  *)
(* holds, or ends in BRK with the result.  Loops are covered by the value  *)
(* of their counter, and nested calls by the frames in page one.           *)
(***************************************************************************)
EXTENDS InstructionProofs, Programs

-----------------------------------------------------------------------------
(* What one iteration of the loop of run_cpu leaves, per instruction.      *)

\* The step ends at pc with these values in the registers, the carry and RAM.
LeadsTo(pc, a, x, y, carry, ram) ==
  /\ phase' = "running"
  /\ bus'.cartridge = bus.cartridge
  /\ bus'.program_counter = pc
  /\ bus'.accumulator = a /\ bus'.x = x /\ bus'.y = y
  /\ CarryFlag \in bus'.status <=> carry
  /\ bus'.cpu_ram = ram

\* The step executes the function fn, of a table whose rows agree.
Executes(fn) ==
  /\ RowsAgree
  /\ bus \in ProgramState /\ Step /\ Fetched.fn = fn

\* An instruction but BRK goes on, in the same program: it leaves what its
\* function does not compute.
LEMMA InstructionRuns ==
  ASSUME NEW fn \in Fns \ {"brk"}, Executes(fn)
  PROVE  /\ phase' = "running"
         /\ bus'.cartridge = bus.cartridge
         /\ fn \notin JumpFns \cup BranchFns => bus'.program_counter = NextAddress
         /\ Only(bus, bus', Result(fn) \cup {"cycles"}, AffectedFlags(fn))
         /\ fn \in QuietFns => bus'.cpu_ram = bus.cpu_ram
<1>1. Flow /\ StepEffect /\ SameCartridge(bus, bus')
  BY StepFlows, StepChanges, StepKeepsCartridge DEF Executes
<1>2. fn \in QuietFns => bus'.cpu_ram = bus.cpu_ram
  BY QuietStep DEF Kept, Executes
<1>3. Continues
  BY LoadsStep, StoreStep, TransferStep, AluStep, IncDecStep, ShiftStep, ReadModifyWriteStep,
     BranchStep, JumpStep, StackStep, FlagStep, EmptyStep DEF Step, Executes
<1> QED
  BY <1>1, <1>2, <1>3 DEF Flow, StepEffect, SameCartridge, Continues, Executes

\* A load leaves the byte at its operand in its register.
LEMMA LoadRuns ==
  ASSUME NEW fn \in {"lda", "ldx", "ldy"}, Executes(fn)
  PROVE  LET M == read_mem(bus, Operand.address)
         IN  LeadsTo(NextAddress,
                     IF fn = "lda" THEN M ELSE bus.accumulator,
                     IF fn = "ldx" THEN M ELSE bus.x,
                     IF fn = "ldy" THEN M ELSE bus.y,
                     CarryFlag \in bus.status, bus.cpu_ram)
<1> DEFINE M == read_mem(bus, Operand.address)
<1>1. fn \in Fns \ {"brk"} /\ fn \notin JumpFns \cup BranchFns /\ fn \in QuietFns /\ fn \in LoadFns
  BY DEF QuietFns, Fns, LoadFns, StoreFns, RmwFns, StackFns, JumpFns, BranchFns
<1>2. /\ phase' = "running" /\ bus'.cartridge = bus.cartridge
      /\ bus'.program_counter = NextAddress /\ bus'.cpu_ram = bus.cpu_ram
      /\ Only(bus, bus', Result(fn) \cup {"cycles"}, AffectedFlags(fn))
  BY <1>1, InstructionRuns
<1>3. CarryFlag \in Weights \ AffectedFlags(fn)
  BY <1>1, FlagsDiffer, FlagValues DEF AffectedFlags, ProgramFlags
<1>4. CarryFlag \in bus'.status <=> CarryFlag \in bus.status
  BY <1>2, <1>3 DEF Only
<1>5. Operand.bus \in ProgramState /\ Operand.address \in u16
  BY OperandType DEF Executes
<1>6. M = read_mem(Operand.bus, Operand.address)
  BY OperandKeeps, OperandMoves, SameReads DEF Kept, SameCartridge, Executes
<1>7. ASSUME NEW after \in ProgramState, Retires(Fetched, Operand, after)
      PROVE  bus'.accumulator = after.accumulator /\ bus'.x = after.x /\ bus'.y = after.y
  BY <1>7, RetiresKeeps DEF ProgramState
<1>8. /\ fn = "lda" => bus'.accumulator = M
      /\ fn = "ldx" => bus'.x = M
      /\ fn = "ldy" => bus'.y = M
  <2>1. /\ fn = "lda" => Retires(Fetched, Operand, lda_fn(Operand.bus, Operand.address))
        /\ fn = "ldx" => Retires(Fetched, Operand, ldx_fn(Operand.bus, Operand.address))
        /\ fn = "ldy" => Retires(Fetched, Operand, ldy_fn(Operand.bus, Operand.address))
    BY TracedFunctions DEF Executes
  <2>2. /\ lda_fn(Operand.bus, Operand.address) \in ProgramState
        /\ ldx_fn(Operand.bus, Operand.address) \in ProgramState
        /\ ldy_fn(Operand.bus, Operand.address) \in ProgramState
    BY <1>5, LoadType
  <2>3. /\ lda_fn(Operand.bus, Operand.address).accumulator = M
        /\ ldx_fn(Operand.bus, Operand.address).x = M
        /\ ldy_fn(Operand.bus, Operand.address).y = M
    BY <1>5, <1>6, LoadLeaves
  <2> HIDE DEF M
  <2> QED
    BY <1>7, <2>1, <2>2, <2>3
<1>9. /\ Result("lda") = {"accumulator"} /\ Result("ldx") = {"x"} /\ Result("ldy") = {"y"}
  BY DEF Result, AccShiftFns
<1> HIDE DEF M
<1>10. /\ fn # "lda" => bus'.accumulator = bus.accumulator
       /\ fn # "ldx" => bus'.x = bus.x
       /\ fn # "ldy" => bus'.y = bus.y
  BY <1>2, <1>9 DEF Only
<1> QED
  BY <1>2, <1>4, <1>8, <1>10 DEF LeadsTo, M

\* The functions of the programs that TracedFunctions does not list.
LEMMA ProgramFunctions ==
  ASSUME Step
  PROVE  LET retires(after) == Retires(Fetched, Operand, after)
             b == Operand.bus
             a == Operand.address
         IN  /\ Fetched.fn = "sta" => retires(sta_fn(b, a))
             /\ Fetched.fn = "stx" => retires(stx_fn(b, a))
             /\ Fetched.fn = "sty" => retires(sty_fn(b, a))
             /\ Fetched.fn = "tsx" => retires(tsx_fn(b, a))
             /\ Fetched.fn = "inx" => retires(inx_fn(b, a))
             /\ Fetched.fn = "iny" => retires(iny_fn(b, a))
             /\ Fetched.fn = "dex" => retires(dex_fn(b, a))
             /\ Fetched.fn = "dey" => retires(dey_fn(b, a))
             /\ Fetched.fn = "rol_acc" => retires(rol_acc_fn(b, a))
             /\ Fetched.fn = "ror_acc" => retires(ror_acc_fn(b, a))
             /\ Fetched.fn = "clc" => retires(clc_fn(b, a))
             /\ Fetched.fn = "bcc" => retires(bcc_fn(b, a))
             /\ Fetched.fn = "bne" => retires(bne_fn(b, a))
             /\ Fetched.fn = "beq" => retires(beq_fn(b, a))
             /\ Fetched.fn = "jmp" => retires(jmp_fn(b, a))
             /\ Fetched.fn = "jsr" => retires(jsr_fn(b, a))
             /\ Fetched.fn = "rts" => retires(rts_fn(b, a))
             /\ Fetched.fn = "brk" => retires(brk_fn(b, a))
  BY DEF Step, Load, Store, Transfer, Alu, IncDec, Shift, ReadModifyWrite, Branch,
         Jump, Stack, Flag, Empty, EmptyFns, Execute, Dispatches, Operand

\* What the instruction function gets and what comes of its result.
LEMMA Iteration ==
  ASSUME bus \in ProgramState
  PROVE  /\ Operand.bus \in ProgramState /\ Operand.address \in u16
         /\ Operand.bus.accumulator = bus.accumulator
         /\ Operand.bus.x = bus.x /\ Operand.bus.y = bus.y
         /\ Operand.bus.status = bus.status
         /\ Operand.bus.cpu_ram = bus.cpu_ram
         /\ Operand.bus.stack_pointer = bus.stack_pointer
         /\ read_mem(Operand.bus, Operand.address) = read_mem(bus, Operand.address)
         /\ \A after \in BusState :
              Retires(Fetched, Operand, after) =>
                /\ bus'.accumulator = after.accumulator
                /\ bus'.x = after.x /\ bus'.y = after.y
                /\ bus'.status = after.status
                /\ bus'.cpu_ram = after.cpu_ram
                /\ bus'.stack_pointer = after.stack_pointer
<1>1. read_mem(Operand.bus, Operand.address) = read_mem(bus, Operand.address)
  BY OperandKeeps, OperandMoves, SameReads DEF Kept, SameCartridge
<1> QED
  BY <1>1, OperandType, OperandKeeps, RetiresKeeps DEF Kept

\* A store to RAM changes the one cell its operand stands for.
LEMMA StoreRuns ==
  ASSUME NEW fn \in {"sta", "stx", "sty"}, Executes(fn), Operand.address < RAM_MIRROR_END
  PROVE  LET r == IF fn = "sta" THEN bus.accumulator
                    ELSE IF fn = "stx" THEN bus.x ELSE bus.y
         IN  LeadsTo(NextAddress, bus.accumulator, bus.x, bus.y, CarryFlag \in bus.status,
                     [bus.cpu_ram EXCEPT ![RamCell(Operand.address)] = r])
<1> DEFINE r == IF fn = "sta" THEN bus.accumulator
                  ELSE IF fn = "stx" THEN bus.x ELSE bus.y
           a == Operand.address
           ram == [bus.cpu_ram EXCEPT ![RamCell(a)] = r]
<1>1. fn \in Fns \ {"brk"} /\ fn \notin JumpFns \cup BranchFns /\ fn \in StoreFns
  BY DEF Fns, StoreFns, JumpFns, BranchFns
<1>2. /\ phase' = "running" /\ bus'.cartridge = bus.cartridge
      /\ bus'.program_counter = NextAddress
      /\ Only(bus, bus', Result(fn) \cup {"cycles"}, AffectedFlags(fn))
  BY <1>1, InstructionRuns
<1>3. Result(fn) = {} /\ AffectedFlags(fn) = {}
  BY DEF Result, AffectedFlags, AccShiftFns, LoadFns, IncDecFns
<1>4. CarryFlag \in Weights
  BY FlagValues DEF ProgramFlags
<1>5. /\ bus'.accumulator = bus.accumulator /\ bus'.x = bus.x /\ bus'.y = bus.y
      /\ CarryFlag \in bus'.status <=> CarryFlag \in bus.status
  BY <1>2, <1>3, <1>4 DEF Only
<1>6. Retires(Fetched, Operand, write_mem(Operand.bus, a, r))
  <2>1. /\ fn = "sta" => Retires(Fetched, Operand, sta_fn(Operand.bus, Operand.address))
        /\ fn = "stx" => Retires(Fetched, Operand, stx_fn(Operand.bus, Operand.address))
        /\ fn = "sty" => Retires(Fetched, Operand, sty_fn(Operand.bus, Operand.address))
    BY ProgramFunctions DEF Executes
  <2> QED
    BY <2>1, Iteration DEF sta_fn, stx_fn, sty_fn, Executes
<1>7. r \in u8
  BY ProgramFields DEF Executes
<1> HIDE DEF r
<1>8. write_mem(Operand.bus, a, r) \in BusState
  BY <1>7, Iteration, ProgramWrite DEF Executes, ProgramState
<1>9. write_mem(Operand.bus, a, r).cpu_ram = ram
  <2>1. write_mem(Operand.bus, a, r) = [Operand.bus EXCEPT !.cpu_ram = ram]
    BY Iteration DEF write_mem, Executes
  <2> HIDE DEF ram
  <2> QED
    BY <2>1, Iteration DEF Executes, ProgramState, BusState
<1>10. bus'.cpu_ram = ram
  BY <1>6, <1>8, <1>9, Iteration DEF Executes
<1> QED
  BY <1>2, <1>5, <1>10 DEF LeadsTo, r

\* What SetA, SetX and SetY leave.
LEMMA SetRegisterLeaves ==
  ASSUME NEW b \in ProgramState, NEW v \in u8
  PROVE  /\ SetA(b, v) \in BusState /\ SetA(b, v).accumulator = v
         /\ SetX(b, v) \in BusState /\ SetX(b, v).x = v
         /\ SetY(b, v) \in BusState /\ SetY(b, v).y = v
         /\ ZeroFlag \in SetX(b, v).status <=> v = 0
         /\ ZeroFlag \in SetY(b, v).status <=> v = 0
<1>1. [b EXCEPT !.x = v] \in ProgramState /\ [b EXCEPT !.y = v] \in ProgramState
  BY RegisterUpdates
<1>2. /\ ZeroFlag \in SetX(b, v).status <=> v = 0
      /\ ZeroFlag \in SetY(b, v).status <=> v = 0
  BY <1>1, ZeroNegative DEF SetX, SetY
<1> QED
  BY <1>2, RegisterLeaves, SetRegisterType DEF ProgramState

\* INX, INY, DEX and DEY count within a byte, and Z says that it is 0.
LEMMA CountRuns ==
  ASSUME NEW fn \in {"inx", "iny", "dex", "dey"}, Executes(fn)
  PROVE  LET x == IF fn = "inx" THEN ToU8(bus.x + 1)
                    ELSE IF fn = "dex" THEN ToU8(bus.x - 1) ELSE bus.x
             y == IF fn = "iny" THEN ToU8(bus.y + 1)
                    ELSE IF fn = "dey" THEN ToU8(bus.y - 1) ELSE bus.y
         IN  /\ LeadsTo(NextAddress, bus.accumulator, x, y, CarryFlag \in bus.status,
                        bus.cpu_ram)
             /\ ZeroFlag \in bus'.status <=> (IF fn \in {"inx", "dex"} THEN x ELSE y) = 0
<1> DEFINE b == Operand.bus
           a == Operand.address
           more(r) == ToU8(r + 1)
           less(r) == ToU8(r - 1)
<1>1. /\ fn \in Fns \ {"brk"} /\ fn \notin JumpFns \cup BranchFns /\ fn \in QuietFns
      /\ fn \in IncDecFns
  BY DEF QuietFns, Fns, IncDecFns, StoreFns, RmwFns, StackFns, JumpFns, BranchFns
<1>2. /\ phase' = "running" /\ bus'.cartridge = bus.cartridge
      /\ bus'.program_counter = NextAddress /\ bus'.cpu_ram = bus.cpu_ram
      /\ Only(bus, bus', Result(fn) \cup {"cycles"}, AffectedFlags(fn))
  BY <1>1, InstructionRuns
<1>3. CarryFlag \in Weights \ AffectedFlags(fn)
  BY <1>1, FlagsDiffer, FlagValues DEF AffectedFlags, ProgramFlags
<1>4. CarryFlag \in bus'.status <=> CarryFlag \in bus.status
  BY <1>2, <1>3 DEF Only
<1>5. /\ Result("inx") = {"x"} /\ Result("dex") = {"x"} /\ Result("iny") = {"y"}
      /\ Result("dey") = {"y"}
  BY DEF Result, AccShiftFns
<1>6. /\ bus'.accumulator = bus.accumulator
      /\ fn \in {"iny", "dey"} => bus'.x = bus.x
      /\ fn \in {"inx", "dex"} => bus'.y = bus.y
  BY <1>2, <1>5 DEF Only
<1>7. b \in ProgramState
  BY Iteration DEF Executes
<1>8. \A v \in u8 :
        /\ SetX(b, v) \in BusState /\ SetX(b, v).x = v
        /\ ZeroFlag \in SetX(b, v).status <=> v = 0
        /\ SetY(b, v) \in BusState /\ SetY(b, v).y = v
        /\ ZeroFlag \in SetY(b, v).status <=> v = 0
  BY <1>7, SetRegisterLeaves
<1>9. /\ more(bus.x) \in u8 /\ less(bus.x) \in u8
      /\ more(bus.y) \in u8 /\ less(bus.y) \in u8
  BY ProgramFields, Wraps DEF Executes
<1>10. /\ fn = "inx" => Retires(Fetched, Operand, SetX(b, more(bus.x)))
       /\ fn = "dex" => Retires(Fetched, Operand, SetX(b, less(bus.x)))
       /\ fn = "iny" => Retires(Fetched, Operand, SetY(b, more(bus.y)))
       /\ fn = "dey" => Retires(Fetched, Operand, SetY(b, less(bus.y)))
  <2>1. /\ fn = "inx" => Retires(Fetched, Operand, inx_fn(b, a))
        /\ fn = "dex" => Retires(Fetched, Operand, dex_fn(b, a))
        /\ fn = "iny" => Retires(Fetched, Operand, iny_fn(b, a))
        /\ fn = "dey" => Retires(Fetched, Operand, dey_fn(b, a))
    BY ProgramFunctions DEF Executes
  <2> QED
    BY <2>1, Iteration DEF inx_fn, iny_fn, dex_fn, dey_fn, Executes
<1> HIDE DEF more, less, b, a
<1>11. /\ fn = "inx" => bus'.x = more(bus.x) /\ (ZeroFlag \in bus'.status <=> more(bus.x) = 0)
       /\ fn = "dex" => bus'.x = less(bus.x) /\ (ZeroFlag \in bus'.status <=> less(bus.x) = 0)
       /\ fn = "iny" => bus'.y = more(bus.y) /\ (ZeroFlag \in bus'.status <=> more(bus.y) = 0)
       /\ fn = "dey" => bus'.y = less(bus.y) /\ (ZeroFlag \in bus'.status <=> less(bus.y) = 0)
  BY <1>8, <1>9, <1>10, Iteration DEF Executes
<1> QED
  BY <1>2, <1>4, <1>6, <1>11 DEF LeadsTo, more, less

\* The sums and differences of ADC, SBC and the comparisons, and their carry.
LEMMA ArithmeticRuns ==
  ASSUME NEW fn \in {"adc", "sbc", "cmp", "cpy"}, Executes(fn)
  PROVE  LET A == bus.accumulator
             M == read_mem(bus, Operand.address)
             C == IF CarryFlag \in bus.status THEN 1 ELSE 0
             leads(r, c) == LeadsTo(NextAddress, r, bus.x, bus.y, c, bus.cpu_ram)
         IN  /\ fn = "adc" => leads(ToU8(A + M + C), A + M + C > 255)
             /\ fn = "sbc" => leads(ToU8(A - M - (1 - C)), A - M - (1 - C) >= 0)
             /\ fn = "cmp" => leads(A, A >= M)
             /\ fn = "cpy" => leads(A, bus.y >= M)
             /\ fn = "cpy" => (ZeroFlag \in bus'.status <=> bus.y = M)
<1> DEFINE A == bus.accumulator
           M == read_mem(bus, Operand.address)
           C == IF CarryFlag \in bus.status THEN 1 ELSE 0
           sum == A + M + C
           difference == A - M - (1 - C)
<1>1. fn \in Fns \ {"brk"} /\ fn \notin JumpFns \cup BranchFns /\ fn \in QuietFns
  BY DEF QuietFns, Fns, AluFns, StoreFns, RmwFns, StackFns, JumpFns, BranchFns
<1>2. /\ phase' = "running" /\ bus'.cartridge = bus.cartridge
      /\ bus'.program_counter = NextAddress /\ bus'.cpu_ram = bus.cpu_ram
      /\ Only(bus, bus', Result(fn) \cup {"cycles"}, AffectedFlags(fn))
  BY <1>1, InstructionRuns
<1>3. /\ Result("adc") = {"accumulator"} /\ Result("sbc") = {"accumulator"}
      /\ Result("cmp") = {} /\ Result("cpy") = {}
  BY DEF Result, AccShiftFns
<1>4. /\ bus'.x = bus.x /\ bus'.y = bus.y
      /\ fn \in {"cmp", "cpy"} => bus'.accumulator = A
  BY <1>2, <1>3 DEF Only
<1>5. Arithmetic /\ read_mem(Operand.bus, Operand.address) = M
  BY StepComputes, Iteration DEF Executes
<1> HIDE DEF A, M, C
<1>6. /\ fn = "adc" => bus'.accumulator = ToU8(sum) /\ (CarryFlag \in bus'.status <=> sum > 255)
      /\ fn = "sbc" => bus'.accumulator = ToU8(difference)
                        /\ (CarryFlag \in bus'.status <=> difference >= 0)
      /\ fn = "cmp" => (CarryFlag \in bus'.status <=> A >= M)
      /\ fn = "cpy" => (CarryFlag \in bus'.status <=> bus.y >= M)
                        /\ (ZeroFlag \in bus'.status <=> bus.y = M)
  BY <1>5 DEF Arithmetic, Agrees, Executes, A, C
<1> HIDE DEF sum, difference
<1> QED
  BY <1>2, <1>4, <1>6 DEF LeadsTo, sum, difference, A, M, C

\* CLC clears the carry, NOP leaves it.
LEMMA FlagRuns ==
  ASSUME NEW fn \in {"clc", "nop"}, Executes(fn)
  PROVE  LET leads(c) == LeadsTo(NextAddress, bus.accumulator, bus.x, bus.y, c, bus.cpu_ram)
         IN  /\ fn = "clc" => leads(FALSE)
             /\ fn = "nop" => leads(CarryFlag \in bus.status)
<1>1. fn \in Fns \ {"brk"} /\ fn \notin JumpFns \cup BranchFns /\ fn \in QuietFns
  BY DEF QuietFns, Fns, FlagFns, EmptyFns, StoreFns, RmwFns, StackFns, JumpFns, BranchFns
<1>2. /\ phase' = "running" /\ bus'.cartridge = bus.cartridge
      /\ bus'.program_counter = NextAddress /\ bus'.cpu_ram = bus.cpu_ram
      /\ Only(bus, bus', Result(fn) \cup {"cycles"}, AffectedFlags(fn))
  BY <1>1, InstructionRuns
<1>3. Result(fn) = {}
  BY DEF Result, AccShiftFns
<1>4. bus'.accumulator = bus.accumulator /\ bus'.x = bus.x /\ bus'.y = bus.y
  BY <1>2, <1>3 DEF Only
<1>5. CASE fn = "clc"
  <2>1. Retires(Fetched, Operand, set_flag(Operand.bus, CarryFlag, FALSE))
    BY <1>5, ProgramFunctions DEF clc_fn, Executes
  <2>2. Operand.bus \in ProgramState
    BY Iteration DEF Executes
  <2>3. /\ set_flag(Operand.bus, CarryFlag, FALSE) \in BusState
        /\ ~(CarryFlag \in set_flag(Operand.bus, CarryFlag, FALSE).status)
    BY <2>2, FlagValues, FlagUpdates, SetFlag DEF ProgramState
  <2>4. ~(CarryFlag \in bus'.status)
    BY <2>1, <2>3, Iteration DEF Executes
  <2> QED
    BY <1>2, <1>4, <1>5, <2>4 DEF LeadsTo
<1>6. CASE fn = "nop"
  <2>1. AffectedFlags(fn) = {}
    BY <1>6 DEF AffectedFlags, AccShiftFns, LoadFns, IncDecFns
  <2>2. CarryFlag \in Weights
    BY FlagValues DEF ProgramFlags
  <2>3. CarryFlag \in bus'.status <=> CarryFlag \in bus.status
    BY <1>2, <2>1, <2>2 DEF Only
  <2> QED
    BY <1>2, <1>4, <1>6, <2>3 DEF LeadsTo
<1> QED
  BY <1>5, <1>6

\* What the shifts of a byte in RAM leave in RAM and in the carry.
LEMMA StoreShiftedLeaves ==
  ASSUME NEW b \in ProgramState, NEW a \in u16, a < RAM_MIRROR_END,
         NEW s, s.value \in u8, s.carry \in BOOLEAN
  PROVE  /\ StoreShifted(b, a, s) \in BusState
         /\ StoreShifted(b, a, s).cpu_ram = [b.cpu_ram EXCEPT ![RamCell(a)] = s.value]
         /\ CarryFlag \in StoreShifted(b, a, s).status <=> s.carry
<1> DEFINE carried == set_flag(b, CarryFlag, s.carry)
           written == write_mem(carried, a, s.value)
           updated == update_zero_and_negative_flags(written, s.value)
           ram     == [b.cpu_ram EXCEPT ![RamCell(a)] = s.value]
<1>1. carried \in ProgramState /\ carried.cpu_ram = b.cpu_ram
  BY FlagValues, FlagUpdates, FlagsKeep DEF Kept
<1>2. StoreShifted(b, a, s) = updated
  BY DEF StoreShifted
<1> HIDE DEF carried
<1>3. written \in ProgramState
  BY <1>1, ProgramWrite
<1>4. written.cpu_ram = ram
  <2>1. written = [carried EXCEPT !.cpu_ram = ram]
    BY <1>1 DEF write_mem
  <2> HIDE DEF ram
  <2> QED
    BY <1>1, <2>1 DEF ProgramState, BusState
<1> HIDE DEF written
<1>5. updated.cpu_ram = written.cpu_ram
  BY <1>3, FlagsKeep DEF Kept
<1> HIDE DEF updated
<1> QED
  BY <1>2, <1>4, <1>5, StoreShiftedStores DEF Stores, ProgramState

\* A shift of a byte in RAM moves a bit into the carry.
LEMMA ShiftRuns ==
  ASSUME NEW fn \in {"asl", "lsr", "rol", "ror"}, Executes(fn), Operand.address < RAM_MIRROR_END
  PROVE  LET a == Operand.address
             M == read_mem(bus, a)
             C == IF CarryFlag \in bus.status THEN 1 ELSE 0
             leads(v, c) == LeadsTo(NextAddress, bus.accumulator, bus.x, bus.y, c,
                                    [bus.cpu_ram EXCEPT ![RamCell(a)] = v])
         IN  /\ fn = "asl" => leads(ToU8(2 * M), M >= 128)
             /\ fn = "lsr" => leads(M \div 2, M % 2 = 1)
             /\ fn = "rol" => leads(ToU8(2 * M) + C, M >= 128)
             /\ fn = "ror" => leads((M \div 2) + 128 * C, M % 2 = 1)
<1> DEFINE a == Operand.address
           b == Operand.bus
           M == read_mem(bus, a)
           C == IF CarryFlag \in bus.status THEN 1 ELSE 0
           ram(v) == [bus.cpu_ram EXCEPT ![RamCell(a)] = v]
<1>1. fn \in Fns \ {"brk"} /\ fn \notin JumpFns \cup BranchFns
  BY DEF Fns, RmwFns, JumpFns, BranchFns
<1>2. /\ phase' = "running" /\ bus'.cartridge = bus.cartridge
      /\ bus'.program_counter = NextAddress
      /\ Only(bus, bus', Result(fn) \cup {"cycles"}, AffectedFlags(fn))
  BY <1>1, InstructionRuns
<1>3. Result(fn) = {}
  BY DEF Result, AccShiftFns
<1>4. bus'.accumulator = bus.accumulator /\ bus'.x = bus.x /\ bus'.y = bus.y
  BY <1>2, <1>3 DEF Only
<1>5. /\ b \in ProgramState /\ a \in u16 /\ read_mem(b, a) = M /\ M \in u8
      /\ Carry(b) = C /\ C \in {0, 1} /\ b.cpu_ram = bus.cpu_ram
  BY Iteration, ProgramRead DEF Carry, Executes
<1> HIDE DEF a, b, M, C
<1>6. ASSUME NEW s, s.value \in u8, s.carry \in BOOLEAN,
             Retires(Fetched, Operand, StoreShifted(b, a, s))
      PROVE  LeadsTo(NextAddress, bus.accumulator, bus.x, bus.y, s.carry, ram(s.value))
  <2>1. /\ StoreShifted(b, a, s) \in BusState
        /\ StoreShifted(b, a, s).cpu_ram = ram(s.value)
        /\ CarryFlag \in StoreShifted(b, a, s).status <=> s.carry
    BY <1>5, <1>6, StoreShiftedLeaves DEF a
  <2>2. bus'.cpu_ram = ram(s.value) /\ (CarryFlag \in bus'.status <=> s.carry)
    BY <1>6, <2>1, Iteration DEF Executes
  <2> QED
    BY <1>2, <1>4, <2>2 DEF LeadsTo
<1>7. /\ fn = "asl" => Retires(Fetched, Operand, StoreShifted(b, a, ShiftLeft(M)))
      /\ fn = "lsr" => Retires(Fetched, Operand, StoreShifted(b, a, ShiftRight(M)))
      /\ fn = "rol" => Retires(Fetched, Operand, StoreShifted(b, a, RotateLeft(M, C)))
      /\ fn = "ror" => Retires(Fetched, Operand, StoreShifted(b, a, RotateRight(M, C)))
  BY <1>5, TracedFunctions DEF asl_fn, lsr_fn, rol_fn, ror_fn, Executes, a, b
<1>8. (Bit7(M) <=> M >= 128) /\ Bit7(M) \in BOOLEAN /\ (M % 2 = 1) \in BOOLEAN
  BY <1>5, U8 DEF Bit7
<1>9. /\ ShiftLeft(M).value \in u8 /\ ShiftRight(M).value \in u8
      /\ RotateLeft(M, C).value \in u8 /\ RotateRight(M, C).value \in u8
  BY <1>5, ShiftType
<1>10. /\ ShiftLeft(M).value = ToU8(2 * M) /\ ShiftLeft(M).carry = Bit7(M)
       /\ ShiftRight(M).value = M \div 2 /\ ShiftRight(M).carry = (M % 2 = 1)
       /\ RotateLeft(M, C).value = ToU8(2 * M) + C /\ RotateLeft(M, C).carry = Bit7(M)
       /\ RotateRight(M, C).value = (M \div 2) + 128 * C /\ RotateRight(M, C).carry = (M % 2 = 1)
  BY DEF ShiftLeft, RotateLeft, ShiftRight, RotateRight
<1> HIDE DEF ram
<1>11. /\ fn = "asl" =>
            LeadsTo(NextAddress, bus.accumulator, bus.x, bus.y, Bit7(M), ram(ToU8(2 * M)))
       /\ fn = "lsr" =>
            LeadsTo(NextAddress, bus.accumulator, bus.x, bus.y, M % 2 = 1, ram(M \div 2))
       /\ fn = "rol" =>
            LeadsTo(NextAddress, bus.accumulator, bus.x, bus.y, Bit7(M), ram(ToU8(2 * M) + C))
       /\ fn = "ror" => LeadsTo(NextAddress, bus.accumulator, bus.x, bus.y, M % 2 = 1,
                               ram((M \div 2) + 128 * C))
  BY <1>6, <1>7, <1>8, <1>9, <1>10
<1> QED
  BY <1>8, <1>11 DEF LeadsTo, ram, a, M, C

\* A rotation of the accumulator takes the carry in and a bit out.
LEMMA AccShiftRuns ==
  ASSUME NEW fn \in {"rol_acc", "ror_acc"}, Executes(fn)
  PROVE  LET A == bus.accumulator
             C == IF CarryFlag \in bus.status THEN 1 ELSE 0
             leads(r, c) == LeadsTo(NextAddress, r, bus.x, bus.y, c, bus.cpu_ram)
         IN  /\ fn = "rol_acc" => leads(ToU8(2 * A) + C, A >= 128)
             /\ fn = "ror_acc" => leads((A \div 2) + 128 * C, A % 2 = 1)
<1> DEFINE A == bus.accumulator
           C == IF CarryFlag \in bus.status THEN 1 ELSE 0
           b == Operand.bus
<1>1. fn \in Fns \ {"brk"} /\ fn \notin JumpFns \cup BranchFns /\ fn \in QuietFns
  BY DEF QuietFns, Fns, AccShiftFns, StoreFns, RmwFns, StackFns, JumpFns, BranchFns
<1>2. /\ phase' = "running" /\ bus'.cartridge = bus.cartridge
      /\ bus'.program_counter = NextAddress /\ bus'.cpu_ram = bus.cpu_ram
      /\ Only(bus, bus', Result(fn) \cup {"cycles"}, AffectedFlags(fn))
  BY <1>1, InstructionRuns
<1>3. Result(fn) = {"accumulator"}
  BY DEF Result, AccShiftFns
<1>4. bus'.x = bus.x /\ bus'.y = bus.y
  BY <1>2, <1>3 DEF Only
<1>5. /\ b \in ProgramState /\ b.accumulator = A /\ A \in u8
      /\ Carry(b) = C /\ C \in {0, 1}
  BY Iteration, ProgramFields DEF Carry, Executes
<1> HIDE DEF b, A, C
<1>6. ASSUME NEW s, s.value \in u8, s.carry \in BOOLEAN,
             Retires(Fetched, Operand, SetShifted(b, s))
      PROVE  LeadsTo(NextAddress, s.value, bus.x, bus.y, s.carry, bus.cpu_ram)
  <2> DEFINE carried == set_flag(b, CarryFlag, s.carry)
  <2>1. carried \in ProgramState /\ (CarryFlag \in carried.status <=> s.carry)
    BY <1>5, <1>6, FlagValues, FlagUpdates, SetFlag DEF ProgramState
  <2>2. SetShifted(b, s) = SetA(carried, s.value)
    BY DEF SetShifted
  <2> HIDE DEF carried
  <2>3. /\ SetA(carried, s.value) \in BusState /\ SetA(carried, s.value).accumulator = s.value
        /\ CarryFlag \in SetA(carried, s.value).status <=> CarryFlag \in carried.status
    BY <1>6, <2>1, SetRegisterLeaves, SetRegisterOnly, FlagsDiffer, FlagValues
       DEF Only, ProgramFlags, ProgramState, NZ
  <2>4. bus'.accumulator = s.value /\ (CarryFlag \in bus'.status <=> s.carry)
    BY <1>6, <2>1, <2>2, <2>3, Iteration DEF Executes
  <2> QED
    BY <1>2, <1>4, <2>4 DEF LeadsTo
<1>7. /\ fn = "rol_acc" => Retires(Fetched, Operand, SetShifted(b, RotateLeft(A, C)))
      /\ fn = "ror_acc" => Retires(Fetched, Operand, SetShifted(b, RotateRight(A, C)))
  BY <1>5, ProgramFunctions DEF rol_acc_fn, ror_acc_fn, Executes, b
<1>8. (Bit7(A) <=> A >= 128) /\ Bit7(A) \in BOOLEAN /\ (A % 2 = 1) \in BOOLEAN
  BY <1>5, U8 DEF Bit7
<1>9. RotateLeft(A, C).value \in u8 /\ RotateRight(A, C).value \in u8
  BY <1>5, ShiftType
<1>10. /\ RotateLeft(A, C).value = ToU8(2 * A) + C /\ RotateLeft(A, C).carry = Bit7(A)
       /\ RotateRight(A, C).value = (A \div 2) + 128 * C /\ RotateRight(A, C).carry = (A % 2 = 1)
  BY DEF RotateLeft, RotateRight
<1>11. /\ fn = "rol_acc" =>
            LeadsTo(NextAddress, ToU8(2 * A) + C, bus.x, bus.y, Bit7(A), bus.cpu_ram)
       /\ fn = "ror_acc" => LeadsTo(NextAddress, (A \div 2) + 128 * C, bus.x, bus.y, A % 2 = 1,
                                   bus.cpu_ram)
  BY <1>6, <1>7, <1>8, <1>9, <1>10
<1> QED
  BY <1>8, <1>11 DEF LeadsTo, A, C

\* A branch that is taken goes to its target.
LEMMA BranchGoes ==
  ASSUME NEW b \in ProgramState, NEW a \in u16, NEW condition
  PROVE  BranchIf(condition, b, a).program_counter
           = IF condition THEN ToU16(b.program_counter + a) ELSE b.program_counter
<1> DEFINE target == ToU16(b.program_counter + a)
           moved  == [b EXCEPT !.program_counter = target]
<1>1. target \in u16
  <2>1. b.program_counter + a \in Int
    BY ProgramFields, U16
  <2> QED
    BY <2>1, Widths
<1> HIDE DEF target
<1>2. moved \in BusState /\ moved.program_counter = target
  BY <1>1 DEF ProgramState, BusState
<1>3. \E n : branch(b, a) = tick(moved, n)
  BY DEF branch, target
<1> HIDE DEF moved
<1>4. \A n : Stays(moved, tick(moved, n))
  BY <1>2, UpdatesStay DEF tick
<1>5. branch(b, a).program_counter = target
  BY <1>2, <1>3, <1>4 DEF Stays
<1> QED
  BY <1>5 DEF BranchIf, target

\* A branch goes where its condition says and changes nothing else.
LEMMA BranchRuns ==
  ASSUME NEW fn \in {"bcc", "bne", "beq"}, Executes(fn)
  PROVE  LET taken == IF fn = "bcc" THEN CarryFlag \notin bus.status
                        ELSE IF fn = "bne" THEN ZeroFlag \notin bus.status
                        ELSE ZeroFlag \in bus.status
             pc == IF taken THEN ToU16(NextAddress + SignExtend(Fetched.byte)) ELSE NextAddress
         IN  LeadsTo(pc, bus.accumulator, bus.x, bus.y, CarryFlag \in bus.status, bus.cpu_ram)
<1> DEFINE taken == IF fn = "bcc" THEN CarryFlag \notin bus.status
                      ELSE IF fn = "bne" THEN ZeroFlag \notin bus.status
                      ELSE ZeroFlag \in bus.status
           b == Operand.bus
           a == Operand.address
           pc == IF taken THEN ToU16(NextAddress + SignExtend(Fetched.byte)) ELSE NextAddress
<1>1. fn \in Fns \ {"brk"} /\ fn \in QuietFns /\ fn \in BranchFns /\ fn \notin JumpFns
  BY DEF QuietFns, Fns, StoreFns, RmwFns, StackFns, JumpFns, BranchFns
<1>2. /\ phase' = "running" /\ bus'.cartridge = bus.cartridge /\ bus'.cpu_ram = bus.cpu_ram
      /\ Only(bus, bus', Result(fn) \cup {"cycles"}, AffectedFlags(fn))
  BY <1>1, InstructionRuns
<1>3. Result(fn) = {} /\ AffectedFlags(fn) = {}
  BY DEF Result, AffectedFlags, AccShiftFns, LoadFns, IncDecFns
<1>4. CarryFlag \in Weights
  BY FlagValues DEF ProgramFlags
<1>5. /\ bus'.accumulator = bus.accumulator /\ bus'.x = bus.x /\ bus'.y = bus.y
      /\ CarryFlag \in bus'.status <=> CarryFlag \in bus.status
  BY <1>2, <1>3, <1>4 DEF Only
<1>6. b.program_counter = NextAddress /\ Fetched.addressing_mode = "Relative"
  BY <1>1, OperandIsNext DEF Executes
<1>7. a = SignExtend(Fetched.byte)
  BY <1>6 DEF Operand, OperandOf, get_operand_address, OperandAddress
<1>8. Retires(Fetched, Operand, BranchIf(taken, b, a))
  <2>1. /\ fn = "bcc" => Retires(Fetched, Operand, bcc_fn(b, a))
        /\ fn = "bne" => Retires(Fetched, Operand, bne_fn(b, a))
        /\ fn = "beq" => Retires(Fetched, Operand, beq_fn(b, a))
    BY ProgramFunctions DEF Executes
  <2>2. b.status = bus.status
    BY Iteration DEF Executes
  <2> HIDE DEF b, a
  <2> QED
    BY <2>1, <2>2 DEF bcc_fn, bne_fn, beq_fn
<1> HIDE DEF taken
<1>9. b \in ProgramState /\ a \in u16
  BY Iteration DEF Executes
<1> HIDE DEF b, a
<1>10. bus'.program_counter = IF taken THEN ToU16(b.program_counter + a) ELSE b.program_counter
  BY <1>8, <1>9, BranchType, BranchGoes, RetiresStays DEF Stays, ProgramState
<1>11. bus'.program_counter = pc
  BY <1>6, <1>7, <1>10
<1> QED
  BY <1>2, <1>5, <1>11 DEF LeadsTo, taken

\* JMP goes to its operand.
LEMMA JmpRuns ==
  ASSUME Executes("jmp")
  PROVE  LeadsTo(Operand.address, bus.accumulator, bus.x, bus.y, CarryFlag \in bus.status,
                 bus.cpu_ram)
<1> DEFINE b == Operand.bus
           a == Operand.address
<1>1. "jmp" \in Fns \ {"brk"} /\ "jmp" \in QuietFns
  BY DEF QuietFns, Fns, StoreFns, RmwFns, StackFns, JumpFns
<1>2. /\ phase' = "running" /\ bus'.cartridge = bus.cartridge /\ bus'.cpu_ram = bus.cpu_ram
      /\ Only(bus, bus', Result("jmp") \cup {"cycles"}, AffectedFlags("jmp"))
  BY <1>1, InstructionRuns
<1>3. Result("jmp") = {} /\ AffectedFlags("jmp") = {}
  BY DEF Result, AffectedFlags, AccShiftFns, LoadFns, IncDecFns
<1>4. CarryFlag \in Weights
  BY FlagValues DEF ProgramFlags
<1>5. /\ bus'.accumulator = bus.accumulator /\ bus'.x = bus.x /\ bus'.y = bus.y
      /\ CarryFlag \in bus'.status <=> CarryFlag \in bus.status
  BY <1>2, <1>3, <1>4 DEF Only
<1>6. Retires(Fetched, Operand, jmp_fn(b, a)) /\ b \in ProgramState /\ a \in u16
  BY ProgramFunctions, Iteration DEF Executes
<1> HIDE DEF b, a
<1>7. jmp_fn(b, a) \in BusState /\ jmp_fn(b, a).program_counter = a
  BY <1>6 DEF jmp_fn, ProgramState, BusState
<1>8. bus'.program_counter = a
  BY <1>6, <1>7, RetiresStays DEF Stays
<1> QED
  BY <1>2, <1>5, <1>8 DEF LeadsTo, a

\* BRK ends the program and writes page one alone.
PageOne == STACK_START .. STACK_START + 255

\* BRK ends the program, and of RAM it writes page one alone.
LEMMA BrkRuns ==
  ASSUME Executes("brk")
  PROVE  /\ phase' = "returned"
         /\ bus'.cartridge = bus.cartridge
         /\ \A cell \in (0 .. RAM_SIZE - 1) \ PageOne : bus'.cpu_ram[cell] = bus.cpu_ram[cell]
<1> DEFINE b == Operand.bus
           a == Operand.address
<1>1. phase' = "returned"
  <2>1. Jump
    BY Families DEF Executes, LoadFns, StoreFns, TransferFns, AluFns, IncDecFns, AccShiftFns,
                    RmwFns, BranchFns, JumpFns, StackFns, FlagFns, EmptyFns
  <2> QED
    BY <2>1, BrkStep DEF Executes
<1>2. bus'.cartridge = bus.cartridge
  BY StepKeepsCartridge DEF SameCartridge, Executes
<1>3. /\ Retires(Fetched, Operand, brk_fn(b, a)) /\ b \in ProgramState /\ a \in u16
      /\ b.cpu_ram = bus.cpu_ram
  BY ProgramFunctions, Iteration DEF Executes
<1>4. bus'.cpu_ram = brk_fn(b, a).cpu_ram
  BY <1>3, BrkType, RetiresKeeps DEF Kept
<1>5. PushCells(b, 3) \subseteq PageOne
  <2>1. \A i \in 0 .. 2 : ToU8(b.stack_pointer - i) \in u8
    <3>1. b.stack_pointer \in Int
      BY <1>3, ProgramFields, U8
    <3> HIDE DEF b
    <3>2. \A i \in 0 .. 2 : b.stack_pointer - i \in Int
      BY <3>1
    <3> QED
      BY <3>2, Widths
  <2> QED
    BY <2>1, U8 DEF PushCells, PageOne, STACK_START
<1> QED
  BY <1>1, <1>2, <1>3, <1>4, <1>5, PushesWrite DEF RamBut

-----------------------------------------------------------------------------
(* Instructions of a program in ROM.                                       *)

\* The step executes the instruction at the offset p of the program.
Executing(code, p) ==
  /\ RowsAgree /\ ProgramRows
  /\ bus \in ProgramState /\ Step
  /\ bus.cartridge = CartOf(code)
  /\ bus.program_counter = AUTOMATION_ENTRY + p

\* A byte of the program is read at its offset from AUTOMATION_ENTRY.
LEMMA CodeByte ==
  ASSUME NEW b \in BusState, NEW code, NEW n \in 1 .. 256, Len(code) = n,
         b.cartridge = CartOf(code), NEW p \in 0 .. n - 1
  PROVE  /\ read_mem(b, AUTOMATION_ENTRY + p) = code[p + 1]
         /\ code[p + 1] \in u8
         /\ AUTOMATION_ENTRY + p \in u16 /\ ToU16(AUTOMATION_ENTRY + p) = AUTOMATION_ENTRY + p
<1> DEFINE a == AUTOMATION_ENTRY + p
<1>1. AUTOMATION_ENTRY = 49152
  BY DEF AUTOMATION_ENTRY
<1>2. a \in u16 /\ ToU16(a) = a
  BY <1>1, U16 DEF ToU16
<1>3. /\ CartMaps(a) /\ CartOffset(b.cartridge, a) = p /\ ~(a <= RAM_MIRROR_END)
  <2>1. b.cartridge.prg_rom_size = 16384
    BY DEF CartOf
  <2> QED
    BY <1>1, <2>1 DEF CartMaps, CartOffset, PRG_ROM_START, PRG_ROM_END, PRG_ROM_PAGE,
                          RAM_MIRROR_END
<1>4. PrgRom(b.cartridge, p) = code[p + 1]
  BY DEF PrgRom, CartOf
<1> HIDE DEF a
<1>5. read_mem(b, a) = code[p + 1]
  <2>1. PrgRom(b.cartridge, CartOffset(b.cartridge, a)) = code[p + 1]
    BY <1>3, <1>4
  <2> QED
    BY <1>3, <2>1 DEF read_mem
<1>6. code[p + 1] \in u8
  BY <1>2, <1>5, ReadType
<1> QED
  BY <1>2, <1>5, <1>6 DEF a

\* The program has this instruction at the offset p.
Instr(code, p, fn, bytes, mode) ==
  /\ Len(code) \in 1 .. 256 /\ bytes \in 1 .. 3 /\ p \in 0 .. Len(code) - bytes
  /\ Row(code[p + 1], fn, bytes, mode)

\* What is decoded at an offset of the program.
LEMMA Decoding ==
  ASSUME NEW code, NEW p, Executing(code, p),
         NEW fn, NEW bytes, NEW mode, Instr(code, p, fn, bytes, mode)
  PROVE  /\ Executes(fn)
         /\ Fetched.addressing_mode = mode
         /\ NextAddress = AUTOMATION_ENTRY + (p + bytes)
         /\ bytes >= 2 => Fetched.byte = code[p + 2] /\ code[p + 2] \in u8
         /\ bytes = 3 => Fetched.word = Word(code[p + 3], code[p + 2]) /\ code[p + 3] \in u8
<1> DEFINE pc == bus.program_counter
           row == opcodes[code[p + 1]]
<1>1. bus \in BusState /\ AUTOMATION_ENTRY \in Int /\ pc = AUTOMATION_ENTRY + p
      /\ bus.cartridge = CartOf(code)
  BY DEF Executing, ProgramState, AUTOMATION_ENTRY
<1>2. PICK n \in 1 .. 256 : n = Len(code)
  BY DEF Instr
<1>3. /\ row.fn = fn /\ row.bytes = bytes /\ row.addressing_mode = mode
      /\ bytes \in 1 .. 3 /\ p \in 0 .. n - bytes
  BY <1>2 DEF Row, Instr
<1>4. /\ read_mem(bus, pc) = code[p + 1]
      /\ bytes >= 2 => read_mem(bus, ToU16(pc + 1)) = code[p + 2] /\ code[p + 2] \in u8
      /\ bytes = 3 => read_mem(bus, ToU16(pc + 2)) = code[p + 3] /\ code[p + 3] \in u8
  <2>1. \A k \in 0 .. n - 1 :
          /\ read_mem(bus, AUTOMATION_ENTRY + k) = code[k + 1] /\ code[k + 1] \in u8
          /\ ToU16(AUTOMATION_ENTRY + k) = AUTOMATION_ENTRY + k
    <3> TAKE k \in 0 .. n - 1
    <3> QED
      BY <1>1, <1>2, CodeByte
  <2>2. /\ p \in 0 .. n - 1 /\ (bytes >= 2 => p + 1 \in 0 .. n - 1)
        /\ (bytes = 3 => p + 2 \in 0 .. n - 1)
    BY <1>3
  <2>3. /\ pc + 1 = AUTOMATION_ENTRY + (p + 1) /\ pc + 2 = AUTOMATION_ENTRY + (p + 2)
        /\ (p + 1) + 1 = p + 2 /\ (p + 2) + 1 = p + 3
    BY <1>1, <1>3
  <2> HIDE DEF pc
  <2> QED
    BY <1>1, <2>1, <2>2, <2>3
<1> HIDE DEF pc
<1>5. /\ Fetched.fn = fn /\ Fetched.bytes = bytes /\ Fetched.addressing_mode = mode
      /\ bytes >= 2 => Fetched.byte = code[p + 2]
      /\ bytes = 3 => Fetched.word = Word(code[p + 3], code[p + 2])
  BY <1>3, <1>4 DEF Fetched, get_next_opcode, pc
<1>6. NextAddress = AUTOMATION_ENTRY + (p + bytes)
  <2>1. NextAddress = ToU16(AUTOMATION_ENTRY + p + bytes)
    BY <1>1, <1>5 DEF NextAddress, pc
  <2>2. ToU16(AUTOMATION_ENTRY + p + bytes) = AUTOMATION_ENTRY + (p + bytes)
    BY <1>3 DEF ToU16, AUTOMATION_ENTRY
  <2> QED
    BY <2>1, <2>2
<1> QED
  BY <1>4, <1>5, <1>6 DEF Executes, Executing

\* The operand of an instruction of the program.
LEMMA Operands ==
  ASSUME NEW code, NEW p, Executing(code, p),
         NEW fn, NEW bytes, NEW mode, Instr(code, p, fn, bytes, mode)
  PROVE  LET a == Operand.address
         IN  /\ mode = "Immediate" /\ bytes = 2 => read_mem(bus, a) = code[p + 2]
             /\ mode = "ZeroPage" => a = Fetched.byte
             /\ mode = "Absolute" => a = Fetched.word
             /\ mode = "Absolute_X" => a = ToU16(Fetched.word + bus.x)
             /\ mode = "Absolute_Y" => a = ToU16(Fetched.word + bus.y)
             /\ mode = "Indirect_Y" => a = ToU16(ZeroPageWord(bus, Fetched.byte) + bus.y)
             /\ mode = "Indirect" => a = IndirectTarget(bus, Fetched.word)
<1> DEFINE pc == bus.program_counter
           moved == [bus EXCEPT !.program_counter = ToU16(pc + 1)]
<1>1. bus \in BusState /\ pc = AUTOMATION_ENTRY + p /\ AUTOMATION_ENTRY \in Int
      /\ bus.cartridge = CartOf(code)
  BY DEF Executing, ProgramState, AUTOMATION_ENTRY
<1>2. /\ moved.x = bus.x /\ moved.y = bus.y /\ moved.cpu_ram = bus.cpu_ram
      /\ moved.cartridge = bus.cartridge /\ moved.program_counter = ToU16(pc + 1)
  BY <1>1 DEF BusState
<1>3. Operand.address = OperandAddress(moved, Fetched)
  BY DEF Operand, OperandOf, get_operand_address
<1> HIDE DEF moved, pc
<1>4. \A a : read_mem(moved, a) = read_mem(bus, a)
  BY <1>2 DEF read_mem
<1>5. Fetched.addressing_mode = mode
  BY Decoding
<1>6. /\ mode = "Indirect_Y" => Operand.address = ToU16(ZeroPageWord(bus, Fetched.byte) + bus.y)
      /\ mode = "Absolute_Y" => Operand.address = ToU16(Fetched.word + bus.y)
      /\ mode = "Indirect" => Operand.address = IndirectTarget(bus, Fetched.word)
  BY <1>2, <1>3, <1>4, <1>5 DEF OperandAddress, BaseAddress, ZeroPageWord, IndirectTarget
<1>7. /\ mode = "Immediate" => Operand.address = ToU16(pc + 1)
      /\ mode = "ZeroPage" => Operand.address = Fetched.byte
      /\ mode = "Absolute" => Operand.address = Fetched.word
      /\ mode = "Absolute_X" => Operand.address = ToU16(Fetched.word + bus.x)
  BY <1>2, <1>3, <1>5 DEF OperandAddress
<1>8. bytes = 2 => read_mem(bus, ToU16(pc + 1)) = code[p + 2]
  <2> SUFFICES ASSUME bytes = 2 PROVE read_mem(bus, ToU16(pc + 1)) = code[p + 2]
    OBVIOUS
  <2>1. PICK n \in 1 .. 256 : n = Len(code)
    BY DEF Instr
  <2>2. p + 1 \in 0 .. n - 1 /\ (p + 1) + 1 = p + 2 /\ pc + 1 = AUTOMATION_ENTRY + (p + 1)
    BY <1>1, <2>1 DEF Instr
  <2> QED
    BY <1>1, <2>1, <2>2, CodeByte
<1> QED
  BY <1>6, <1>7, <1>8

\* A cell of RAM at its first address.
LEMMA RamCells ==
  ASSUME NEW b, NEW c \in 0 .. RAM_SIZE - 1
  PROVE  /\ c < RAM_MIRROR_END /\ RamCell(c) = c
         /\ read_mem(b, c) = b.cpu_ram[c]
<1>1. c < RAM_MIRROR_END /\ c <= RAM_MIRROR_END /\ RamCell(c) = c /\ ~CartMaps(c)
  BY DEF RAM_SIZE, RAM_MIRROR_END, RamCell, CartMaps, PRG_ROM_START
<1> QED
  BY <1>1 DEF read_mem

\* What an instruction of the program finds at its operand, per mode.
LEMMA ImmediateAt ==
  ASSUME NEW code, NEW p, Executing(code, p), NEW fn, Instr(code, p, fn, 2, "Immediate")
  PROVE  /\ Executes(fn) /\ NextAddress = AUTOMATION_ENTRY + (p + 2)
         /\ read_mem(bus, Operand.address) = code[p + 2]
  BY Decoding, Operands

\* One without an operand leads to the next byte.
LEMMA ImpliedAt ==
  ASSUME NEW code, NEW p, Executing(code, p), NEW fn, NEW mode, Instr(code, p, fn, 1, mode)
  PROVE  Executes(fn) /\ NextAddress = AUTOMATION_ENTRY + (p + 1)
  BY Decoding

\* A branch has its offset behind it.
LEMMA RelativeAt ==
  ASSUME NEW code, NEW p, Executing(code, p), NEW fn, Instr(code, p, fn, 2, "Relative")
  PROVE  /\ Executes(fn) /\ NextAddress = AUTOMATION_ENTRY + (p + 2)
         /\ Fetched.byte = code[p + 2]
  BY Decoding

\* The cell a zero page or an absolute operand stands for.
LEMMA ZeroPageAt ==
  ASSUME NEW code, NEW p, Executing(code, p), NEW fn, Instr(code, p, fn, 2, "ZeroPage")
  PROVE  /\ Executes(fn) /\ NextAddress = AUTOMATION_ENTRY + (p + 2)
         /\ Operand.address < RAM_MIRROR_END /\ RamCell(Operand.address) = code[p + 2]
         /\ read_mem(bus, Operand.address) = bus.cpu_ram[code[p + 2]]
<1>1. /\ Executes(fn) /\ NextAddress = AUTOMATION_ENTRY + (p + 2)
      /\ Operand.address = code[p + 2] /\ code[p + 2] \in u8
  BY Decoding, Operands
<1>2. code[p + 2] \in 0 .. RAM_SIZE - 1
  BY <1>1, U8 DEF RAM_SIZE
<1> QED
  BY <1>1, <1>2, RamCells

\* An absolute operand is the word behind the opcode, low byte first.
LEMMA AbsoluteAt ==
  ASSUME NEW code, NEW p, Executing(code, p), NEW fn, Instr(code, p, fn, 3, "Absolute")
  PROVE  LET word == Word(code[p + 3], code[p + 2])
         IN  /\ Executes(fn) /\ NextAddress = AUTOMATION_ENTRY + (p + 3)
             /\ Operand.address = word
             /\ word \in 0 .. RAM_SIZE - 1 =>
                  /\ Operand.address < RAM_MIRROR_END /\ RamCell(Operand.address) = word
                  /\ read_mem(bus, Operand.address) = bus.cpu_ram[word]
<1>1. /\ Executes(fn) /\ NextAddress = AUTOMATION_ENTRY + (p + 3)
      /\ Operand.address = Word(code[p + 3], code[p + 2])
  BY Decoding, Operands
<1> QED
  BY <1>1, RamCells

-----------------------------------------------------------------------------
(* RepeatedAddition.                                                       *)

\* The program counter is at the offset p of the program.
At(p) == bus.program_counter = AUTOMATION_ENTRY + p

\* What holds at each instruction of RepeatedAddition(a, b).
AdditionPoint(a, b) ==
  LET A == bus.accumulator
      y == bus.y
      r == bus.cpu_ram
      rest(k) == r[1] = b /\ CarryFlag \notin bus.status /\ A + k * b = a * b
  IN  \/ At(0)
      \/ At(2)  /\ bus.x = a
      \/ At(5)  /\ r[0] = a
      \/ At(7)  /\ r[0] = a /\ bus.x = b
      \/ At(10) /\ r[0] = a /\ r[1] = b
      \/ At(13) /\ y = a /\ r[1] = b
      \/ At(15) /\ y = a /\ r[1] = b /\ A = 0
      \/ At(16) /\ y # 0 /\ rest(y)
      \/ At(19) /\ y # 0 /\ rest(y - 1)
      \/ At(20) /\ rest(y) /\ (ZeroFlag \in bus.status <=> y = 0)
      \/ At(22) /\ A = a * b
      \/ (At(25) \/ At(26) \/ At(27) \/ At(28)) /\ r[2] = a * b

AdditionInv(a, b) ==
  bus.cartridge = CartOf(RepeatedAddition(a, b)) =>
    /\ Running => AdditionPoint(a, b)
    /\ phase = "returned" => bus.cpu_ram[2] = a * b

\* The instructions of the program and their operands, from its bytes.
LEMMA AdditionListing ==
  ASSUME NEW a, NEW b, ProgramRows
  PROVE  LET code == RepeatedAddition(a, b)
             instr(p, fn, bytes, mode) == Instr(code, p, fn, bytes, mode)
         IN  /\ instr(0, "ldx", 2, "Immediate") /\ code[2] = a
             /\ instr(2, "stx", 3, "Absolute") /\ code[4] = 0 /\ code[5] = 0
             /\ instr(5, "ldx", 2, "Immediate") /\ code[7] = b
             /\ instr(7, "stx", 3, "Absolute") /\ code[9] = 1 /\ code[10] = 0
             /\ instr(10, "ldy", 3, "Absolute") /\ code[12] = 0 /\ code[13] = 0
             /\ instr(13, "lda", 2, "Immediate") /\ code[15] = 0
             /\ instr(15, "clc", 1, "Implied")
             /\ instr(16, "adc", 3, "Absolute") /\ code[18] = 1 /\ code[19] = 0
             /\ instr(19, "dey", 1, "Implied")
             /\ instr(20, "bne", 2, "Relative") /\ code[22] = 250
             /\ instr(22, "sta", 3, "Absolute") /\ code[24] = 2 /\ code[25] = 0
             /\ \A p \in 25 .. 27 : instr(p, "nop", 1, "Implied")
             /\ instr(28, "brk", 1, "Implied")
<1> DEFINE code == RepeatedAddition(a, b)
<1>1. Len(code) = 29
  BY DEF RepeatedAddition
<1>2. /\ code[1] = 162 /\ code[2] = a /\ code[3] = 142 /\ code[4] = 0 /\ code[5] = 0
      /\ code[6] = 162 /\ code[7] = b /\ code[8] = 142 /\ code[9] = 1 /\ code[10] = 0
      /\ code[11] = 172 /\ code[12] = 0 /\ code[13] = 0 /\ code[14] = 169 /\ code[15] = 0
      /\ code[16] = 24 /\ code[17] = 109 /\ code[18] = 1 /\ code[19] = 0
      /\ code[20] = 136 /\ code[21] = 208 /\ code[22] = 250
      /\ code[23] = 141 /\ code[24] = 2 /\ code[25] = 0
      /\ code[26] = 234 /\ code[27] = 234 /\ code[28] = 234 /\ code[29] = 0
  BY DEF RepeatedAddition
<1>3. /\ Row(162, "ldx", 2, "Immediate") /\ Row(142, "stx", 3, "Absolute")
      /\ Row(172, "ldy", 3, "Absolute") /\ Row(169, "lda", 2, "Immediate")
      /\ Row(24, "clc", 1, "Implied") /\ Row(109, "adc", 3, "Absolute")
      /\ Row(136, "dey", 1, "Implied") /\ Row(208, "bne", 2, "Relative")
      /\ Row(141, "sta", 3, "Absolute") /\ Row(234, "nop", 1, "Implied")
      /\ Row(0, "brk", 1, "Implied")
  BY DEF ProgramRows
<1> HIDE DEF code
<1>4. \A p, fn, bytes, mode :
        p \in 0 .. 29 - bytes /\ bytes \in 1 .. 3 /\ Row(code[p + 1], fn, bytes, mode)
          => Instr(code, p, fn, bytes, mode)
  BY <1>1 DEF Instr
<1>5. /\ Instr(code, 0, "ldx", 2, "Immediate") /\ Instr(code, 2, "stx", 3, "Absolute")
      /\ Instr(code, 5, "ldx", 2, "Immediate") /\ Instr(code, 7, "stx", 3, "Absolute")
      /\ Instr(code, 10, "ldy", 3, "Absolute") /\ Instr(code, 13, "lda", 2, "Immediate")
      /\ Instr(code, 15, "clc", 1, "Implied") /\ Instr(code, 16, "adc", 3, "Absolute")
      /\ Instr(code, 19, "dey", 1, "Implied") /\ Instr(code, 20, "bne", 2, "Relative")
      /\ Instr(code, 22, "sta", 3, "Absolute") /\ Instr(code, 25, "nop", 1, "Implied")
      /\ Instr(code, 26, "nop", 1, "Implied") /\ Instr(code, 27, "nop", 1, "Implied")
      /\ Instr(code, 28, "brk", 1, "Implied")
  BY <1>1, <1>2, <1>3 DEF Instr
<1> QED
  BY <1>2, <1>5 DEF code

\* One of k summands.
LEMMA Peel ==
  ASSUME NEW k \in Nat, NEW b \in Nat, k # 0
  PROVE  (k - 1) * b \in Nat /\ k * b = (k - 1) * b + b
<1> DEFINE j == k - 1
<1>1. j \in Nat /\ k = j + 1
  OBVIOUS
<1> HIDE DEF j
<1>2. (j + 1) * b = j * b + b /\ j * b \in Nat
  BY <1>1
<1> QED
  BY <1>1, <1>2 DEF j

\* A byte does not wrap.
LEMMA ByteStays == \A v : v \in Int /\ 0 <= v /\ v <= 255 => ToU8(v) = v
  BY DEF ToU8

\* The programs keep their variables in the first three cells.
LEMMA Variables ==
  ASSUME NEW r, DOMAIN r = 0 .. RAM_SIZE - 1
  PROVE  \A v :
           LET with(i) == [r EXCEPT ![i] = v]
           IN  /\ with(0)[0] = v /\ with(0)[1] = r[1] /\ with(0)[2] = r[2]
               /\ with(1)[1] = v /\ with(1)[0] = r[0] /\ with(1)[2] = r[2]
               /\ with(2)[2] = v /\ with(2)[0] = r[0] /\ with(2)[1] = r[1]
  BY DEF RAM_SIZE

\* A step of the program from an instruction to the next.
LEMMA AdditionStep ==
  ASSUME NEW a \in u8, NEW b \in u8, a # 0, a * b <= 255,
         RowsAgree, ProgramRows,
         bus \in ProgramState, Step, bus.cartridge = CartOf(RepeatedAddition(a, b)),
         AdditionPoint(a, b)
  PROVE  \/ phase' = "running" /\ AdditionPoint(a, b)'
         \/ phase' = "returned" /\ bus'.cpu_ram[2] = a * b
<1> DEFINE code == RepeatedAddition(a, b)
           A == bus.accumulator
           y == bus.y
           r == bus.cpu_ram
           M == read_mem(bus, Operand.address)
           rest(k) == r[1] = b /\ CarryFlag \notin bus.status /\ A + k * b = a * b
           Goal == \/ phase' = "running" /\ AdditionPoint(a, b)'
                   \/ phase' = "returned" /\ bus'.cpu_ram[2] = a * b
<1>1. /\ a \in Int /\ b \in Int /\ a >= 0 /\ b >= 0 /\ a <= 255 /\ b <= 255
      /\ A \in Int /\ y \in Int /\ A >= 0 /\ y >= 0 /\ y <= 255
  BY ProgramFields, U8
<1>2. a * b \in Int /\ 0 * b = 0
  BY <1>1
<1>3. /\ DOMAIN r = 0 .. RAM_SIZE - 1
      /\ 0 \in 0 .. RAM_SIZE - 1 /\ 1 \in 0 .. RAM_SIZE - 1 /\ 2 \in 0 .. RAM_SIZE - 1
  BY DEF ProgramState, BusState, RAM_SIZE
<1>4. Word(0, 0) = 0 /\ Word(0, 1) = 1 /\ Word(0, 2) = 2
  BY DEF Word
<1>5. \A p : At(p) => Executing(code, p)
  BY DEF At, Executing
<1>6. CASE At(0)
  <2>1. Executes("ldx") /\ NextAddress = AUTOMATION_ENTRY + 2 /\ M = a
    BY <1>5, <1>6, AdditionListing, ImmediateAt
  <2> QED
    BY <2>1, LoadRuns DEF LeadsTo, AdditionPoint, At
<1>7. CASE At(2) /\ bus.x = a
  <2>1. Executes("stx") /\ NextAddress = AUTOMATION_ENTRY + 5
        /\ Operand.address < RAM_MIRROR_END /\ RamCell(Operand.address) = 0
    BY <1>3, <1>4, <1>5, <1>7, AdditionListing, AbsoluteAt
  <2>2. LeadsTo(AUTOMATION_ENTRY + 5, A, bus.x, y, CarryFlag \in bus.status, [r EXCEPT ![0] = a])
    BY <1>7, <2>1, StoreRuns
  <2> QED
    BY <1>3, <2>2 DEF LeadsTo, AdditionPoint, At
<1>8. CASE At(5) /\ r[0] = a
  <2>1. Executes("ldx") /\ NextAddress = AUTOMATION_ENTRY + 7 /\ M = b
    BY <1>5, <1>8, AdditionListing, ImmediateAt
  <2> QED
    BY <1>8, <2>1, LoadRuns DEF LeadsTo, AdditionPoint, At
<1>9. CASE At(7) /\ r[0] = a /\ bus.x = b
  <2>1. Executes("stx") /\ NextAddress = AUTOMATION_ENTRY + 10
        /\ Operand.address < RAM_MIRROR_END /\ RamCell(Operand.address) = 1
    BY <1>3, <1>4, <1>5, <1>9, AdditionListing, AbsoluteAt
  <2>2. LeadsTo(AUTOMATION_ENTRY + 10, A, bus.x, y, CarryFlag \in bus.status, [r EXCEPT ![1] = b])
    BY <1>9, <2>1, StoreRuns
  <2> QED
    <3>1. [r EXCEPT ![1] = b][0] = a /\ [r EXCEPT ![1] = b][1] = b
      BY <1>3, <1>9, Variables
    <3>2. phase' = "running" /\ At(10)' /\ bus'.cpu_ram = [r EXCEPT ![1] = b]
      BY <2>2 DEF LeadsTo, At
    <3> QED
      BY <3>1, <3>2 DEF AdditionPoint
<1>10. CASE At(10) /\ r[0] = a /\ r[1] = b
  <2>1. Executes("ldy") /\ NextAddress = AUTOMATION_ENTRY + 13 /\ M = a
    BY <1>3, <1>4, <1>5, <1>10, AdditionListing, AbsoluteAt
  <2> QED
    BY <1>10, <2>1, LoadRuns DEF LeadsTo, AdditionPoint, At
<1>11. CASE At(13) /\ y = a /\ r[1] = b
  <2>1. Executes("lda") /\ NextAddress = AUTOMATION_ENTRY + 15 /\ M = 0
    BY <1>5, <1>11, AdditionListing, ImmediateAt
  <2> QED
    BY <1>11, <2>1, LoadRuns DEF LeadsTo, AdditionPoint, At
<1>12. CASE At(15) /\ y = a /\ r[1] = b /\ A = 0
  <2>1. Executes("clc") /\ NextAddress = AUTOMATION_ENTRY + 16
    BY <1>5, <1>12, AdditionListing, ImpliedAt
  <2>2. A + y * b = a * b
    BY <1>1, <1>2, <1>12
  <2> QED
    BY <1>12, <2>1, <2>2, FlagRuns DEF LeadsTo, AdditionPoint, At
<1>13. CASE At(16) /\ y # 0 /\ rest(y)
  <2>1. Executes("adc") /\ NextAddress = AUTOMATION_ENTRY + 19 /\ M = b
    BY <1>3, <1>4, <1>5, <1>13, AdditionListing, AbsoluteAt
  <2>2. /\ A + b + (y - 1) * b = a * b /\ A + b <= 255
    BY <1>1, <1>2, <1>13, Peel
  <2>3. ToU8(A + b + 0) = A + b /\ ~(A + b + 0 > 255)
    BY <1>1, <2>2, ByteStays
  <2>4. CarryFlag \notin bus.status
    BY <1>13
  <2>5. LeadsTo(AUTOMATION_ENTRY + 19, ToU8(A + b + 0), bus.x, y, A + b + 0 > 255, r)
    BY <2>1, <2>4, ArithmeticRuns
  <2> QED
    BY <1>13, <2>2, <2>3, <2>5 DEF LeadsTo, AdditionPoint, At
<1>14. CASE At(19) /\ y # 0 /\ rest(y - 1)
  <2>1. Executes("dey") /\ NextAddress = AUTOMATION_ENTRY + 20
    BY <1>5, <1>14, AdditionListing, ImpliedAt
  <2>2. ToU8(y - 1) = y - 1
    BY <1>1, <1>14, ByteStays
  <2>3. /\ LeadsTo(AUTOMATION_ENTRY + 20, A, bus.x, y - 1, CarryFlag \in bus.status, r)
        /\ ZeroFlag \in bus'.status <=> y - 1 = 0
    BY <2>1, <2>2, CountRuns
  <2> QED
    BY <1>14, <2>3 DEF LeadsTo, AdditionPoint, At
<1>15. CASE At(20) /\ rest(y) /\ (ZeroFlag \in bus.status <=> y = 0)
  <2>1. Executes("bne") /\ NextAddress = AUTOMATION_ENTRY + 22 /\ Fetched.byte = 250
    BY <1>5, <1>15, AdditionListing, RelativeAt
  <2>2. ToU16(AUTOMATION_ENTRY + 22 + SignExtend(250)) = AUTOMATION_ENTRY + 16
    BY DEF ToU16, SignExtend, Bit7, AUTOMATION_ENTRY
  <2>3. LeadsTo(AUTOMATION_ENTRY + (IF y = 0 THEN 22 ELSE 16), A, bus.x, y,
                CarryFlag \in bus.status, r)
    BY <1>15, <2>1, <2>2, BranchRuns
  <2>4. y = 0 => A = a * b
    BY <1>1, <1>2, <1>15
  <2> QED
    BY <1>15, <2>3, <2>4 DEF LeadsTo, AdditionPoint, At
<1>16. CASE At(22) /\ A = a * b
  <2>1. Executes("sta") /\ NextAddress = AUTOMATION_ENTRY + 25
        /\ Operand.address < RAM_MIRROR_END /\ RamCell(Operand.address) = 2
    BY <1>3, <1>4, <1>5, <1>16, AdditionListing, AbsoluteAt
  <2>2. LeadsTo(AUTOMATION_ENTRY + 25, A, bus.x, y, CarryFlag \in bus.status, [r EXCEPT ![2] = A])
    BY <2>1, StoreRuns
  <2> QED
    BY <1>3, <1>16, <2>2 DEF LeadsTo, AdditionPoint, At
<1>17. CASE (At(25) \/ At(26) \/ At(27)) /\ r[2] = a * b
  <2>1. PICK p \in 25 .. 27 : At(p)
    BY <1>17
  <2>2. Executes("nop") /\ NextAddress = AUTOMATION_ENTRY + (p + 1)
    BY <1>5, <2>1, AdditionListing, ImpliedAt
  <2> QED
    BY <1>17, <2>2, FlagRuns DEF LeadsTo, AdditionPoint, At
<1>18. CASE At(28) /\ r[2] = a * b
  <2>1. Executes("brk")
    BY <1>5, <1>18, AdditionListing, ImpliedAt
  <2>2. 2 \in (0 .. RAM_SIZE - 1) \ PageOne
    BY <1>3 DEF PageOne, STACK_START
  <2> QED
    BY <1>18, <2>1, <2>2, BrkRuns
<1> QED
  BY <1>6, <1>7, <1>8, <1>9, <1>10, <1>11, <1>12, <1>13, <1>14, <1>15, <1>16, <1>17, <1>18
     DEF AdditionPoint

\* Where a program starts, and what its instructions are steps of.
LEMMA Lifetime ==
  ASSUME IInv, [Next]_vars
  PROVE  \/ UNCHANGED vars
         \/ phase' = "reset"
         \/ phase' = "running" /\ At(0)'
         \/ /\ Running /\ Step /\ bus \in ProgramState
            /\ bus'.cartridge = bus.cartridge
<1>1. CASE BusReset
  BY <1>1 DEF BusReset
<1>2. CASE Start
  <2>1. phase' = "running" /\ bus' = [bus EXCEPT !.program_counter = AUTOMATION_ENTRY]
    BY <1>2 DEF Start
  <2>2. bus'.program_counter = AUTOMATION_ENTRY
    BY <2>1 DEF IInv, TypeOK, BusState
  <2> QED
    BY <2>1, <2>2 DEF At, AUTOMATION_ENTRY
<1>3. CASE Step
  <2>1. Running
    BY <1>3 DEF Step, Load, Store, Transfer, Alu, IncDec, Shift, ReadModifyWrite, Branch, Jump,
                Stack, Flag, Empty, Execute, Dispatches, Running
  <2>2. bus \in ProgramState
    BY <2>1, RunningType DEF Running
  <2> QED
    BY <1>3, <2>1, <2>2, StepKeepsCartridge DEF SameCartridge
<1> QED
  BY <1>1, <1>2, <1>3 DEF Next, Stopped

\* The inputs of a program are bytes.
LEMMA InputType ==
  ASSUME IInv, NEW offset
  PROVE  Input(offset) \in u8
<1>1. bus.cartridge \in Cartridges
  BY DEF IInv, TypeOK, BusState
<1> QED
  BY <1>1, CartridgesAssumption, U8 DEF Input, PrgRom, IsCartridge

AdditionsInv ==
  \A a, b \in u8 : a # 0 /\ a * b <= 255 => AdditionInv(a, b)

\* Every step keeps the invariant of the additions.
LEMMA NextAdditions ==
  ASSUME RowsAgree, ProgramRows, IInv, AdditionsInv, [Next]_vars
  PROVE  AdditionsInv'
<1> SUFFICES ASSUME NEW a \in u8, NEW b \in u8, a # 0, a * b <= 255,
                    bus'.cartridge = CartOf(RepeatedAddition(a, b))
             PROVE  /\ Running' => AdditionPoint(a, b)'
                    /\ phase' = "returned" => bus'.cpu_ram[2] = a * b
  BY DEF AdditionsInv, AdditionInv
<1>1. AdditionInv(a, b)
  BY DEF AdditionsInv
<1>2. CASE UNCHANGED vars
  BY <1>1, <1>2 DEF vars, AdditionInv, AdditionPoint, At, Running
<1>3. CASE phase' = "reset"
  BY <1>3 DEF Running
<1>4. CASE phase' = "running" /\ At(0)'
  BY <1>4 DEF AdditionPoint, At
<1>5. CASE Running /\ Step /\ bus \in ProgramState /\ bus'.cartridge = bus.cartridge
  <2>1. AdditionPoint(a, b)
    BY <1>1, <1>5 DEF AdditionInv
  <2> QED
    BY <1>5, <2>1, AdditionStep DEF Running
<1> QED
  BY <1>2, <1>3, <1>4, <1>5, Lifetime

\* For all bytes a but 0 and b with a product of a byte, the program of
\* test.cpp:89-104 leaves a * b at 0x0002: no addition of its loop carries into
\* the next, though the carry is cleared once.
THEOREM RepeatedAdditionMultiplies ==
  ASSUME RowsAgree, ProgramRows
  PROVE  Spec => []AdditionComputes
<1>1. Init => AdditionsInv
  BY DEF Init, AdditionsInv, AdditionInv, Running
<1>2. IInv /\ AdditionsInv => AdditionComputes
  BY InputType DEF AdditionsInv, AdditionInv, AdditionComputes, HasRun
<1> QED
  BY <1>1, <1>2, InitIInv, NextIInv, NextAdditions, PTL DEF Spec

-----------------------------------------------------------------------------
(* Product.                                                                *)

\* The powers of two up to 512.
Power(n) ==
  CASE n = 0 -> 1  [] n = 1 -> 2  [] n = 2 -> 4   [] n = 3 -> 8   [] n = 4 -> 16
    [] n = 5 -> 32 [] n = 6 -> 64 [] n = 7 -> 128 [] n = 8 -> 256 [] OTHER -> 512

\* Their values.
LEMMA Powers ==
  /\ Power(0) = 1 /\ Power(1) = 2 /\ Power(2) = 4 /\ Power(3) = 8 /\ Power(4) = 16
  /\ Power(5) = 32 /\ Power(6) = 64 /\ Power(7) = 128 /\ Power(8) = 256 /\ Power(9) = 512
  BY DEF Power

\* How they are related around iteration k of eight.
LEMMA PowersDouble ==
  ASSUME NEW k \in 0 .. 7
  PROVE  /\ Power(k) \in Nat /\ Power(7 - k) \in Nat /\ Power(8 - k) \in Nat
         /\ Power(k + 1) = 2 * Power(k)
         /\ Power(8 - k) = 2 * Power(7 - k) /\ Power(9 - k) = 2 * Power(8 - k)
         /\ Power(k) * Power(8 - k) = 256
<1>1. CASE k \in 0 .. 3
  BY <1>1, Powers
<1>2. CASE k \in 4 .. 7
  BY <1>2, Powers
<1> QED
  BY <1>1, <1>2

CarryOf(b) == IF CarryFlag \in b.status THEN 1 ELSE 0

\* Product and Quotient begin alike.
ByteLoop(code, a, b) ==
  /\ Instr(code, 0, "lda", 2, "Immediate") /\ code[2] = a
  /\ Instr(code, 2, "sta", 2, "ZeroPage") /\ code[4] = 0
  /\ Instr(code, 4, "lda", 2, "Immediate") /\ code[6] = b
  /\ Instr(code, 6, "sta", 2, "ZeroPage") /\ code[8] = 1
  /\ Instr(code, 8, "lda", 2, "Immediate") /\ code[10] = 0
  /\ Instr(code, 10, "ldx", 2, "Immediate") /\ code[12] = 8

PreludePoint(a, b) ==
  LET A == bus.accumulator
      r == bus.cpu_ram
  IN  \/ At(0)
      \/ At(2)  /\ A = a
      \/ At(4)  /\ r[0] = a
      \/ At(6)  /\ r[0] = a /\ A = b
      \/ At(8)  /\ r[0] = a /\ r[1] = b
      \/ At(10) /\ r[0] = a /\ r[1] = b /\ A = 0

\* A step before the loop.
LEMMA PreludeStep ==
  ASSUME NEW a, NEW b, NEW code, ByteLoop(code, a, b),
         RowsAgree, ProgramRows,
         bus \in ProgramState, Step, bus.cartridge = CartOf(code),
         PreludePoint(a, b)
  PROVE  /\ phase' = "running"
         /\ \/ PreludePoint(a, b)'
            \/ /\ At(12)' /\ bus'.accumulator = 0 /\ bus'.x = 8
               /\ bus'.cpu_ram[0] = a /\ bus'.cpu_ram[1] = b
<1> DEFINE A == bus.accumulator
           r == bus.cpu_ram
           M == read_mem(bus, Operand.address)
           C == CarryFlag \in bus.status
<1>1. DOMAIN r = 0 .. RAM_SIZE - 1
  BY DEF ProgramState, BusState
<1>2. \A p : At(p) => Executing(code, p)
  BY DEF At, Executing
<1>3. CASE At(0)
  <2>1. Executes("lda") /\ NextAddress = AUTOMATION_ENTRY + 2 /\ M = a
    BY <1>2, <1>3, ImmediateAt DEF ByteLoop
  <2> QED
    BY <2>1, LoadRuns DEF LeadsTo, PreludePoint, At
<1>4. CASE At(2) /\ A = a
  <2>1. Executes("sta") /\ NextAddress = AUTOMATION_ENTRY + 4
        /\ Operand.address < RAM_MIRROR_END /\ RamCell(Operand.address) = 0
    BY <1>2, <1>4, ZeroPageAt DEF ByteLoop
  <2>2. LeadsTo(AUTOMATION_ENTRY + 4, A, bus.x, bus.y, C, [r EXCEPT ![0] = a])
    BY <1>4, <2>1, StoreRuns
  <2> QED
    BY <1>1, <2>2, Variables DEF LeadsTo, PreludePoint, At
<1>5. CASE At(4) /\ r[0] = a
  <2>1. Executes("lda") /\ NextAddress = AUTOMATION_ENTRY + 6 /\ M = b
    BY <1>2, <1>5, ImmediateAt DEF ByteLoop
  <2> QED
    BY <1>5, <2>1, LoadRuns DEF LeadsTo, PreludePoint, At
<1>6. CASE At(6) /\ r[0] = a /\ A = b
  <2>1. Executes("sta") /\ NextAddress = AUTOMATION_ENTRY + 8
        /\ Operand.address < RAM_MIRROR_END /\ RamCell(Operand.address) = 1
    BY <1>2, <1>6, ZeroPageAt DEF ByteLoop
  <2>2. LeadsTo(AUTOMATION_ENTRY + 8, A, bus.x, bus.y, C, [r EXCEPT ![1] = b])
    BY <1>6, <2>1, StoreRuns
  <2>3. [r EXCEPT ![1] = b][0] = r[0] /\ [r EXCEPT ![1] = b][1] = b
    BY <1>1, Variables
  <2> QED
    BY <1>6, <2>2, <2>3 DEF LeadsTo, PreludePoint, At
<1>7. CASE At(8) /\ r[0] = a /\ r[1] = b
  <2>1. Executes("lda") /\ NextAddress = AUTOMATION_ENTRY + 10 /\ M = 0
    BY <1>2, <1>7, ImmediateAt DEF ByteLoop
  <2> QED
    BY <1>7, <2>1, LoadRuns DEF LeadsTo, PreludePoint, At
<1>8. CASE At(10) /\ r[0] = a /\ r[1] = b /\ A = 0
  <2>1. Executes("ldx") /\ NextAddress = AUTOMATION_ENTRY + 12 /\ M = 8
    BY <1>2, <1>8, ImmediateAt DEF ByteLoop
  <2> QED
    BY <1>8, <2>1, LoadRuns DEF LeadsTo, At
<1> QED
  BY <1>3, <1>4, <1>5, <1>6, <1>7, <1>8 DEF PreludePoint

-----------------------------------------------------------------------------

\* The shift register of Product, A and $00 and the carry, after k of its
\* eight iterations: the rest h of the factor a is still in its low bits, and the
\* product of b and the part that has been shifted out is above it.
PartialProduct(a, b, k, register) ==
  \E h \in u8 :
    /\ h < Power(8 - k)
    /\ register = (a * b - Power(k) * (h * b)) * Power(9 - k) + h

\* One iteration takes the low bit of the register and adds b above it.
LEMMA ProductIteration ==
  ASSUME NEW a \in u8, NEW b \in u8, NEW k \in 0 .. 7, NEW m \in Nat, NEW c \in {0, 1},
         PartialProduct(a, b, k, 2 * m + c)
  PROVE  PartialProduct(a, b, k + 1, m + c * b * 256)
<1>1. PICK h \in u8 :
        /\ h < Power(8 - k)
        /\ 2 * m + c = (a * b - Power(k) * (h * b)) * Power(9 - k) + h
  BY DEF PartialProduct
<1> DEFINE w == Power(k)
           u == Power(8 - k)
           rest == a * b - w * (h * b)
           j == m - rest * u
<1>2. /\ h \in Int /\ h >= 0 /\ h <= 255 /\ a \in Int /\ b \in Int /\ c \in Int
      /\ w \in Int /\ u \in Int /\ w * u = 256 /\ u = 2 * Power(7 - k)
      /\ Power(9 - k) = 2 * u /\ Power(k + 1) = 2 * w /\ Power(7 - k) \in Int
  BY U8, PowersDouble
<1> HIDE DEF w, u
<1>3. h * b \in Int /\ a * b \in Int
  BY <1>2
<1>4. w * (h * b) \in Int
  BY <1>2, <1>3
<1>5. rest \in Int
  BY <1>3, <1>4
<1>6. 2 * m + c = rest * (2 * u) + h
  BY <1>1, <1>2 DEF w
<1> HIDE DEF rest
<1>7. j \in Int /\ rest * u \in Int
  BY <1>2, <1>5
<1>8. h = 2 * j + c
  BY <1>2, <1>5, <1>6, <1>7
<1>9. m = rest * u + j
  BY <1>7
<1> HIDE DEF j
<1>10. j \in u8 /\ j < Power(7 - k)
  BY <1>1, <1>2, <1>7, <1>8, U8 DEF u
<1>11. j * b \in Int /\ c * b \in Int
  BY <1>2, <1>7
<1>12. h * b = 2 * (j * b) + c * b
  BY <1>2, <1>7, <1>8
<1>13. a * b - (2 * w) * (j * b) = rest + w * (c * b)
  <2> DEFINE x == j * b
             y == c * b
             P == a * b
             Q == h * b
  <2>1. x \in Int /\ y \in Int /\ P \in Int /\ Q = 2 * x + y /\ rest = P - w * Q
    BY <1>3, <1>11, <1>12 DEF rest
  <2> HIDE DEF x, y, P, Q
  <2>2. w * (2 * x + y) = (2 * w) * x + w * y /\ (2 * w) * x \in Int /\ w * y \in Int
    BY <1>2, <2>1
  <2>3. P - (2 * w) * x = rest + w * y
    BY <2>1, <2>2
  <2> QED
    BY <2>3 DEF x, y, P
<1>14. (rest + w * (c * b)) * u = rest * u + 256 * (c * b)
  BY <1>2, <1>5, <1>11
<1>15. m + c * b * 256 = (a * b - Power(k + 1) * (j * b)) * u + j
  <2>1. c * b * 256 = 256 * (c * b)
    BY <1>2, <1>11
  <2>2. (a * b - Power(k + 1) * (j * b)) * u = rest * u + 256 * (c * b)
    BY <1>2, <1>13, <1>14
  <2> QED
    BY <1>7, <1>9, <1>11, <2>1, <2>2
<1>16. 8 - (k + 1) = 7 - k /\ 9 - (k + 1) = 8 - k
  OBVIOUS
<1> QED
  BY <1>10, <1>15, <1>16 DEF PartialProduct, u

\* A byte is its half and its low bit.
LEMMA Halves ==
  ASSUME NEW v \in u8
  PROVE  /\ v = 2 * (v \div 2) + (v % 2) /\ v % 2 \in {0, 1} /\ v \div 2 \in 0 .. 127
         /\ (IF v % 2 = 1 THEN 1 ELSE 0) = v % 2
  BY U8

\* A sum of two bytes is a byte and a carry.
LEMMA NinthBit ==
  ASSUME NEW n \in 0 .. 511
  PROVE  /\ ToU8(n) \in u8
         /\ n = ToU8(n) + 256 * (IF n > 255 THEN 1 ELSE 0)
  BY U8 DEF ToU8

\* The arithmetic of the shift register.
LEMMA RegisterParts ==
  ASSUME NEW A \in u8, NEW L \in u8, NEW C \in {0, 1}
  PROVE  /\ A * 256 + L \in Nat
         /\ A * 512 + 2 * L + C = 2 * (A * 256 + L) + C
         /\ (A * 256 + L) + 0 * 256 = (0 * 256 + A) * 256 + L
         /\ A * 512 + 2 * ((L \div 2) + 128 * C) + (L % 2) = (2 * A + C) * 256 + L
         /\ (2 * ((A \div 2) + 128 * C) + (A % 2)) * 256 + L = (C * 256 + A) * 256 + L
<1>1. /\ A = 2 * (A \div 2) + (A % 2) /\ L = 2 * (L \div 2) + (L % 2)
      /\ A \div 2 \in Int /\ A % 2 \in Int /\ L \div 2 \in Int /\ L % 2 \in Int
      /\ A \in Int /\ L \in Int /\ C \in Int /\ A >= 0 /\ L >= 0
  BY Halves, U8
<1> QED
  BY <1>1

\* The counter in X and the number of the iteration.
LEMMA Countdown ==
  ASSUME NEW X \in 1 .. 8
  PROVE  /\ 8 - X \in 0 .. 7 /\ (8 - X) + 1 = 9 - X
         /\ X - 1 \in 0 .. 7 /\ 8 - (X - 1) = 9 - X /\ ToU8(X - 1) = X - 1
  BY ByteStays

\* What holds at each instruction of Product(a, b).
ProductPoint(a, b) ==
  LET A == bus.accumulator
      X == bus.x
      r == bus.cpu_ram
      C == CarryOf(bus)
      partial(k, register) == r[1] = b /\ PartialProduct(a, b, k, register)
  IN  \/ PreludePoint(a, b)
      \/ At(12) /\ A = 0 /\ X = 8 /\ r[0] = a /\ r[1] = b
      \/ At(14) /\ X \in 1 .. 8 /\ partial(8 - X, A * 512 + 2 * r[0] + C)
      \/ At(16) /\ X \in 1 .. 8 /\ partial(8 - X, A * 512 + 2 * r[0] + 1)
      \/ At(17) /\ X \in 1 .. 8 /\ C = 0 /\ partial(8 - X, A * 512 + 2 * r[0] + 1)
      \/ At(19) /\ X \in 1 .. 8 /\ partial(9 - X, (C * 256 + A) * 256 + r[0])
      \/ At(20) /\ X \in 1 .. 8 /\ partial(9 - X, (2 * A + C) * 256 + r[0])
      \/ At(22) /\ X \in 1 .. 8 /\ partial(9 - X, A * 512 + 2 * r[0] + C)
      \/ /\ At(23) /\ X \in 0 .. 7 /\ (ZeroFlag \in bus.status <=> X = 0)
         /\ partial(8 - X, A * 512 + 2 * r[0] + C)
      \/ At(25) /\ A * 256 + r[0] = a * b
      \/ At(27) /\ r[2] * 256 + r[0] = a * b

\* The instructions of the program and their operands, from its bytes.
LEMMA ProductListing ==
  ASSUME NEW a, NEW b, ProgramRows
  PROVE  LET code == Product(a, b)
             instr(p, fn, bytes, mode) == Instr(code, p, fn, bytes, mode)
         IN  /\ ByteLoop(code, a, b)
             /\ instr(12, "lsr", 2, "ZeroPage") /\ code[14] = 0
             /\ instr(14, "bcc", 2, "Relative") /\ code[16] = 3
             /\ instr(16, "clc", 1, "Implied")
             /\ instr(17, "adc", 2, "ZeroPage") /\ code[19] = 1
             /\ instr(19, "ror_acc", 1, "Accumulator")
             /\ instr(20, "ror", 2, "ZeroPage") /\ code[22] = 0
             /\ instr(22, "dex", 1, "Implied")
             /\ instr(23, "bne", 2, "Relative") /\ code[25] = 245
             /\ instr(25, "sta", 2, "ZeroPage") /\ code[27] = 2
             /\ instr(27, "brk", 1, "Implied")
<1> DEFINE code == Product(a, b)
<1>1. Len(code) = 28
  BY DEF Product
<1>2. /\ code[1] = 169 /\ code[2] = a /\ code[3] = 133 /\ code[4] = 0
      /\ code[5] = 169 /\ code[6] = b /\ code[7] = 133 /\ code[8] = 1
      /\ code[9] = 169 /\ code[10] = 0 /\ code[11] = 162 /\ code[12] = 8
      /\ code[13] = 70 /\ code[14] = 0 /\ code[15] = 144 /\ code[16] = 3
      /\ code[17] = 24 /\ code[18] = 101 /\ code[19] = 1 /\ code[20] = 106
      /\ code[21] = 102 /\ code[22] = 0 /\ code[23] = 202 /\ code[24] = 208 /\ code[25] = 245
      /\ code[26] = 133 /\ code[27] = 2 /\ code[28] = 0
  BY DEF Product
<1>3. /\ Row(169, "lda", 2, "Immediate") /\ Row(133, "sta", 2, "ZeroPage")
      /\ Row(162, "ldx", 2, "Immediate") /\ Row(70, "lsr", 2, "ZeroPage")
      /\ Row(144, "bcc", 2, "Relative") /\ Row(24, "clc", 1, "Implied")
      /\ Row(101, "adc", 2, "ZeroPage") /\ Row(106, "ror_acc", 1, "Accumulator")
      /\ Row(102, "ror", 2, "ZeroPage") /\ Row(202, "dex", 1, "Implied")
      /\ Row(208, "bne", 2, "Relative") /\ Row(0, "brk", 1, "Implied")
  BY DEF ProgramRows
<1> HIDE DEF code
<1>4. ByteLoop(code, a, b)
  BY <1>1, <1>2, <1>3 DEF ByteLoop, Instr
<1>5. /\ Instr(code, 12, "lsr", 2, "ZeroPage") /\ Instr(code, 14, "bcc", 2, "Relative")
      /\ Instr(code, 16, "clc", 1, "Implied") /\ Instr(code, 17, "adc", 2, "ZeroPage")
      /\ Instr(code, 19, "ror_acc", 1, "Accumulator") /\ Instr(code, 20, "ror", 2, "ZeroPage")
      /\ Instr(code, 22, "dex", 1, "Implied") /\ Instr(code, 23, "bne", 2, "Relative")
      /\ Instr(code, 25, "sta", 2, "ZeroPage") /\ Instr(code, 27, "brk", 1, "Implied")
  BY <1>1, <1>2, <1>3 DEF Instr
<1> QED
  BY <1>2, <1>4, <1>5 DEF code

\* A step of the program from an instruction to the next.
LEMMA ProductStep ==
  ASSUME NEW a \in u8, NEW b \in u8, RowsAgree, ProgramRows,
         bus \in ProgramState, Step, bus.cartridge = CartOf(Product(a, b)),
         ProductPoint(a, b)
  PROVE  \/ phase' = "running" /\ ProductPoint(a, b)'
         \/ phase' = "returned" /\ bus'.cpu_ram[2] * 256 + bus'.cpu_ram[0] = a * b
<1> DEFINE code == Product(a, b)
           A == bus.accumulator
           X == bus.x
           y == bus.y
           r == bus.cpu_ram
           C == CarryOf(bus)
           L == r[0]
           M == read_mem(bus, Operand.address)
           partial(k, register) == r[1] = b /\ PartialProduct(a, b, k, register)
<1>1. /\ a \in Int /\ b \in Int /\ a >= 0 /\ b >= 0 /\ a <= 255 /\ b <= 255
      /\ A \in u8 /\ A \in Int /\ A >= 0 /\ A <= 255
  BY ProgramFields, U8
<1>2. C \in {0, 1} /\ (CarryFlag \in bus.status <=> C = 1)
  BY DEF CarryOf
<1>3. DOMAIN r = 0 .. RAM_SIZE - 1 /\ L \in u8 /\ L \in Int /\ L >= 0 /\ L <= 255
  BY U8 DEF ProgramState, BusState, RAM_SIZE
<1>4. \A v : /\ [r EXCEPT ![0] = v][0] = v /\ [r EXCEPT ![0] = v][1] = r[1]
             /\ [r EXCEPT ![2] = v][0] = r[0] /\ [r EXCEPT ![2] = v][2] = v
  BY <1>3 DEF RAM_SIZE
<1>5. /\ A * 256 + L \in Nat
       /\ A * 512 + 2 * L + 0 = 2 * (A * 256 + L) + 0
       /\ A * 512 + 2 * L + 1 = 2 * (A * 256 + L) + 1
       /\ (A * 256 + L) + 0 * 256 = (0 * 256 + A) * 256 + L
       /\ A * 512 + 2 * ((L \div 2) + 128 * C) + (L % 2) = (2 * A + C) * 256 + L
       /\ (2 * ((A \div 2) + 128 * C) + (A % 2)) * 256 + L = (C * 256 + A) * 256 + L
       /\ A + b \in 0 .. 511
  <2> HIDE DEF A, L, C
  <2>1. 0 \in {0, 1} /\ 1 \in {0, 1}
    OBVIOUS
  <2>2. A + b \in 0 .. 511
    BY <1>1
  <2> QED
    BY <1>2, <1>1, <1>3, <2>1, <2>2, RegisterParts
<1>6. \A p : At(p) => Executing(code, p)
  BY DEF At, Executing
<1>7. CASE PreludePoint(a, b)
  <2>1. ByteLoop(code, a, b)
    BY ProductListing
  <2> QED
    BY <1>7, <2>1, PreludeStep DEF ProductPoint, At
<1>8. CASE At(12) /\ A = 0 /\ X = 8 /\ L = a /\ r[1] = b
  <2>1. Executes("lsr") /\ NextAddress = AUTOMATION_ENTRY + 14
        /\ Operand.address < RAM_MIRROR_END /\ RamCell(Operand.address) = 0 /\ M = a
    BY <1>6, <1>8, ProductListing, ZeroPageAt
  <2>2. LeadsTo(AUTOMATION_ENTRY + 14, A, X, y, a % 2 = 1, [r EXCEPT ![0] = a \div 2])
    BY <2>1, ShiftRuns
  <2>3. PartialProduct(a, b, 0, a)
    <3>1. a * b \in Int /\ a < Power(8) /\ Power(0) = 1 /\ Power(9) = 512
      BY <1>1, Powers
    <3>2. a = (a * b - Power(0) * (a * b)) * Power(9) + a
      BY <1>1, <3>1
    <3> QED
      BY <3>1, <3>2 DEF PartialProduct
  <2>4. /\ bus'.accumulator = 0 /\ bus'.cpu_ram[0] = a \div 2
        /\ CarryOf(bus') = a % 2
    BY <1>4, <1>8, <2>2, Halves DEF LeadsTo, CarryOf
  <2>5. 0 * 512 + 2 * (a \div 2) + (a % 2) = a
    BY Halves
  <2> QED
    BY <1>4, <1>8, <2>2, <2>3, <2>4, <2>5 DEF LeadsTo, ProductPoint, At
<1>9. CASE At(14) /\ X \in 1 .. 8 /\ partial(8 - X, A * 512 + 2 * L + C)
  <2>1. Executes("bcc") /\ NextAddress = AUTOMATION_ENTRY + 16 /\ Fetched.byte = 3
    BY <1>6, <1>9, ProductListing, RelativeAt
  <2>2. ToU16(AUTOMATION_ENTRY + 16 + SignExtend(3)) = AUTOMATION_ENTRY + 19
    BY DEF ToU16, SignExtend, Bit7, AUTOMATION_ENTRY
  <2>3. LeadsTo(AUTOMATION_ENTRY + (IF C = 1 THEN 16 ELSE 19), A, X, y, C = 1, r)
    BY <1>2, <2>1, <2>2, BranchRuns
  <2>4. CASE C = 1
    BY <1>9, <2>3, <2>4 DEF LeadsTo, ProductPoint, At
  <2>5. CASE C = 0
    <3> DEFINE m == A * 256 + L
    <3>1. m \in Nat /\ A * 512 + 2 * L + C = 2 * m + 0 /\ 8 - X \in 0 .. 7 /\ (8 - X) + 1 = 9 - X
      BY <1>9, <1>5, <2>5, Countdown
    <3>2. m + 0 * b * 256 = (0 * 256 + A) * 256 + L
      BY <1>1, <1>3
    <3> HIDE DEF m
    <3>3. PartialProduct(a, b, 9 - X, (0 * 256 + A) * 256 + L)
      BY <1>9, <3>1, <3>2, ProductIteration
    <3>4. CarryOf(bus') = 0
      BY <2>3, <2>5 DEF LeadsTo, CarryOf
    <3> QED
      BY <1>9, <2>3, <2>5, <3>3, <3>4 DEF LeadsTo, ProductPoint, At
  <2> QED
    BY <1>2, <2>4, <2>5
<1>10. CASE At(16) /\ X \in 1 .. 8 /\ partial(8 - X, A * 512 + 2 * L + 1)
  <2>1. Executes("clc") /\ NextAddress = AUTOMATION_ENTRY + 17
    BY <1>6, <1>10, ProductListing, ImpliedAt
  <2> QED
    BY <1>10, <2>1, FlagRuns DEF LeadsTo, ProductPoint, At, CarryOf
<1>11. CASE At(17) /\ X \in 1 .. 8 /\ C = 0 /\ partial(8 - X, A * 512 + 2 * L + 1)
  <2> DEFINE m == A * 256 + L
             C2 == IF A + b > 255 THEN 1 ELSE 0
  <2>1. Executes("adc") /\ NextAddress = AUTOMATION_ENTRY + 19 /\ M = b
    BY <1>6, <1>11, ProductListing, ZeroPageAt
  <2>2. LeadsTo(AUTOMATION_ENTRY + 19, ToU8(A + b), X, y, A + b > 255, r)
    <3>1. CarryFlag \notin bus.status /\ A + b + 0 = A + b
      BY <1>2, <1>1, <1>11
    <3>2. LeadsTo(AUTOMATION_ENTRY + 19, ToU8(A + b + 0), X, y, A + b + 0 > 255, r)
      BY <2>1, <3>1, ArithmeticRuns
    <3> QED
      BY <3>1, <3>2
  <2>3. m \in Nat /\ A * 512 + 2 * L + 1 = 2 * m + 1 /\ 8 - X \in 0 .. 7 /\ (8 - X) + 1 = 9 - X
    BY <1>11, <1>5, Countdown
  <2>4. m + 1 * b * 256 = (A + b) * 256 + L
    BY <1>1, <1>3
  <2> HIDE DEF m
  <2>5. PartialProduct(a, b, 9 - X, (A + b) * 256 + L)
    BY <1>11, <2>3, <2>4, ProductIteration
  <2>6. A + b = C2 * 256 + ToU8(A + b)
    <3>1. A + b \in 0 .. 511
      BY <1>5
    <3>2. ToU8(A + b) \in Int /\ A + b = ToU8(A + b) + 256 * C2 /\ C2 \in Int
      BY <3>1, NinthBit, U8
    <3> HIDE DEF C2
    <3> QED
      BY <3>2
  <2>7. CarryOf(bus') = C2
    BY <2>2 DEF LeadsTo, CarryOf
  <2> HIDE DEF C2
  <2> QED
    BY <1>11, <2>2, <2>5, <2>6, <2>7 DEF LeadsTo, ProductPoint, At
<1>12. CASE At(19) /\ X \in 1 .. 8 /\ partial(9 - X, (C * 256 + A) * 256 + L)
  <2> DEFINE A2 == (A \div 2) + 128 * C
  <2>1. Executes("ror_acc") /\ NextAddress = AUTOMATION_ENTRY + 20
    BY <1>6, <1>12, ProductListing, ImpliedAt
  <2>2. LeadsTo(AUTOMATION_ENTRY + 20, A2, X, y, A % 2 = 1, r)
    BY <2>1, AccShiftRuns DEF CarryOf
  <2>3. (2 * A2 + (A % 2)) * 256 + L = (C * 256 + A) * 256 + L
    BY <1>5
  <2>4. CarryOf(bus') = A % 2
    BY <1>1, <2>2, Halves DEF LeadsTo, CarryOf
  <2> HIDE DEF A2
  <2> QED
    BY <1>12, <2>2, <2>3, <2>4 DEF LeadsTo, ProductPoint, At
<1>13. CASE At(20) /\ X \in 1 .. 8 /\ partial(9 - X, (2 * A + C) * 256 + L)
  <2> DEFINE L2 == (L \div 2) + 128 * C
  <2>1. Executes("ror") /\ NextAddress = AUTOMATION_ENTRY + 22
        /\ Operand.address < RAM_MIRROR_END /\ RamCell(Operand.address) = 0 /\ M = L
    BY <1>6, <1>13, ProductListing, ZeroPageAt
  <2>2. LeadsTo(AUTOMATION_ENTRY + 22, A, X, y, L % 2 = 1, [r EXCEPT ![0] = L2])
    BY <2>1, ShiftRuns DEF CarryOf
  <2>3. A * 512 + 2 * L2 + (L % 2) = (2 * A + C) * 256 + L
    BY <1>5
  <2>4. CarryOf(bus') = L % 2
    BY <1>3, <2>2, Halves DEF LeadsTo, CarryOf
  <2> HIDE DEF L2
  <2>5. bus'.cpu_ram = [r EXCEPT ![0] = L2]
    BY <2>2 DEF LeadsTo
  <2>6. bus'.cpu_ram[0] = L2 /\ bus'.cpu_ram[1] = r[1]
    BY <1>3, <2>5 DEF RAM_SIZE
  <2> QED
    BY <1>13, <2>2, <2>3, <2>4, <2>6 DEF LeadsTo, ProductPoint, At
<1>14. CASE At(22) /\ X \in 1 .. 8 /\ partial(9 - X, A * 512 + 2 * L + C)
  <2>1. Executes("dex") /\ NextAddress = AUTOMATION_ENTRY + 23
    BY <1>6, <1>14, ProductListing, ImpliedAt
  <2>2. ToU8(X - 1) = X - 1 /\ X - 1 \in 0 .. 7 /\ 8 - (X - 1) = 9 - X
    BY <1>14, Countdown
  <2>3. /\ LeadsTo(AUTOMATION_ENTRY + 23, A, X - 1, y, CarryFlag \in bus.status, r)
        /\ ZeroFlag \in bus'.status <=> X - 1 = 0
    BY <2>1, <2>2, CountRuns
  <2> QED
    BY <1>14, <2>2, <2>3 DEF LeadsTo, ProductPoint, At, CarryOf
<1>15. CASE /\ At(23) /\ X \in 0 .. 7 /\ (ZeroFlag \in bus.status <=> X = 0)
            /\ partial(8 - X, A * 512 + 2 * L + C)
  <2>1. Executes("bne") /\ NextAddress = AUTOMATION_ENTRY + 25 /\ Fetched.byte = 245
    BY <1>6, <1>15, ProductListing, RelativeAt
  <2>2. ToU16(AUTOMATION_ENTRY + 25 + SignExtend(245)) = AUTOMATION_ENTRY + 14
    BY DEF ToU16, SignExtend, Bit7, AUTOMATION_ENTRY
  <2>3. LeadsTo(AUTOMATION_ENTRY + (IF X = 0 THEN 25 ELSE 14), A, X, y,
                CarryFlag \in bus.status, r)
    BY <1>15, <2>1, <2>2, BranchRuns
  <2>4. CASE X # 0
    BY <1>15, <2>3, <2>4 DEF LeadsTo, ProductPoint, At, CarryOf
  <2>5. CASE X = 0
    <3>1. PICK h \in u8 : /\ h < Power(0)
                          /\ A * 512 + 2 * L + C = (a * b - Power(8) * (h * b)) * Power(1) + h
      BY <1>15, <2>5 DEF PartialProduct
    <3>2. h = 0 /\ Power(1) = 2 /\ Power(8) = 256
      BY <3>1, Powers, U8
    <3>3. 0 * b = 0 /\ a * b \in Int
      BY <1>1
    <3>4. A * 512 + 2 * L + C = 2 * (a * b)
      BY <3>1, <3>2, <3>3
    <3>5. A * 256 + L = a * b
      <4> DEFINE n == A * 256 + L
                 P == a * b
      <4>1. n \in Int /\ 2 * n + C = 2 * P /\ P \in Int
        <5>1. n \in Nat /\ A * 512 + 2 * L + C = 2 * n + C
          BY <1>2, <1>5
        <5> QED
          BY <3>3, <3>4, <5>1
      <4> HIDE DEF n, P
      <4>2. n = P
        BY <1>2, <4>1
      <4> QED
        BY <4>2 DEF n, P
    <3> QED
      BY <2>3, <2>5, <3>5 DEF LeadsTo, ProductPoint, At
  <2> QED
    BY <2>4, <2>5
<1>16. CASE At(25) /\ A * 256 + L = a * b
  <2>1. Executes("sta") /\ NextAddress = AUTOMATION_ENTRY + 27
        /\ Operand.address < RAM_MIRROR_END /\ RamCell(Operand.address) = 2
    BY <1>6, <1>16, ProductListing, ZeroPageAt
  <2>2. LeadsTo(AUTOMATION_ENTRY + 27, A, X, y, CarryFlag \in bus.status, [r EXCEPT ![2] = A])
    BY <2>1, StoreRuns
  <2>3. bus'.cpu_ram[0] = L /\ bus'.cpu_ram[2] = A
    BY <1>4, <2>2 DEF LeadsTo
  <2> QED
    BY <1>16, <2>2, <2>3 DEF LeadsTo, ProductPoint, At
<1>17. CASE At(27) /\ r[2] * 256 + L = a * b
  <2>1. Executes("brk")
    BY <1>6, <1>17, ProductListing, ImpliedAt
  <2>2. {0, 2} \subseteq (0 .. RAM_SIZE - 1) \ PageOne
    BY DEF PageOne, STACK_START, RAM_SIZE
  <2> QED
    BY <1>17, <2>1, <2>2, BrkRuns
<1> QED
  BY <1>7, <1>8, <1>9, <1>10, <1>11, <1>12, <1>13, <1>14, <1>15, <1>16, <1>17 DEF ProductPoint

ProductInv ==
  \A a, b \in u8 :
    bus.cartridge = CartOf(Product(a, b)) =>
      /\ Running => ProductPoint(a, b)
      /\ phase = "returned" => bus.cpu_ram[2] * 256 + bus.cpu_ram[0] = a * b

\* Every step keeps the invariant of the products.
LEMMA NextProduct ==
  ASSUME RowsAgree, ProgramRows, IInv, ProductInv, [Next]_vars
  PROVE  ProductInv'
<1> SUFFICES ASSUME NEW a \in u8, NEW b \in u8, bus'.cartridge = CartOf(Product(a, b))
             PROVE  /\ Running' => ProductPoint(a, b)'
                    /\ phase' = "returned" =>
                         bus'.cpu_ram[2] * 256 + bus'.cpu_ram[0] = a * b
  BY DEF ProductInv
<1>1. CASE UNCHANGED vars
  BY <1>1 DEF vars, ProductInv, ProductPoint, PreludePoint, At, Running
<1>2. CASE phase' = "reset"
  BY <1>2 DEF Running
<1>3. CASE phase' = "running" /\ At(0)'
  BY <1>3 DEF ProductPoint, PreludePoint, At
<1>4. CASE Running /\ Step /\ bus \in ProgramState /\ bus'.cartridge = bus.cartridge
  <2>1. ProductPoint(a, b)
    BY <1>4 DEF ProductInv
  <2> QED
    BY <1>4, <2>1, ProductStep DEF Running
<1> QED
  BY <1>1, <1>2, <1>3, <1>4, Lifetime

\* For all bytes a and b the shift-and-add loop leaves their 16-bit product:
\* the carry of each sum goes through two rotations into RAM.
THEOREM ShiftsMultiply ==
  ASSUME RowsAgree, ProgramRows
  PROVE  Spec => []ProductComputes
<1>1. Init => ProductInv
  BY DEF Init, ProductInv, Running
<1>2. IInv /\ ProductInv => ProductComputes
  BY InputType DEF ProductInv, ProductComputes, HasRun, Word
<1> QED
  BY <1>1, <1>2, InitIInv, NextIInv, NextProduct, PTL DEF Spec

-----------------------------------------------------------------------------
(* Quotient.                                                               *)

\* The powers of two of iteration k, for the register and for the rest of a.
LEMMA PowersOfLoop ==
  ASSUME NEW k \in 0 .. 7
  PROVE  /\ Power(k) \in Int /\ Power(k + 1) \in Int /\ Power(7 - k) \in Int
         /\ Power(k) >= 1 /\ Power(7 - k) >= 1 /\ Power(k + 1) <= 256 /\ Power(7 - k) <= 256
         /\ Power(k + 1) = 2 * Power(k) /\ Power(k + 2) = 2 * Power(k + 1)
         /\ Power(8 - k) = 2 * Power(7 - k)
         /\ Power(k + 1) * Power(7 - k) = 256
<1>1. CASE k \in 0 .. 3
  BY <1>1, Powers
<1>2. CASE k \in 4 .. 7
  BY <1>2, Powers
<1> QED
  BY <1>1, <1>2

\* After k iterations the quotient of the bits of a that have been shifted
\* into A is q and the remainder A; the register, the carry and $00, has the
\* rest l of the bits of a above q.
PartialQuotient(a, b, k, register, A) ==
  \E q, l \in u8 :
    /\ q < Power(k) /\ l < Power(8 - k)
    /\ register = Power(k + 1) * l + q
    /\ a = Power(8 - k) * (q * b + A) + l

\* The same within an iteration, when $00 is yet to take the bit c of the
\* quotient.
PendingQuotient(a, b, k, register, c, A) ==
  \E q, l \in u8 :
    /\ q < Power(k) /\ l < Power(7 - k)
    /\ register = Power(k + 1) * l + q
    /\ a = Power(7 - k) * ((2 * q + c) * b + A) + l

\* The first rotation brings the next bit of a into A, without a loss.
LEMMA QuotientTakesBit ==
  ASSUME NEW a \in u8, NEW b \in u8, NEW k \in 0 .. 7, NEW A \in u8, NEW L \in u8,
         NEW C \in {0, 1}, PartialQuotient(a, b, k, 256 * C + L, A)
  PROVE  /\ 2 * A + C \in u8
         /\ PendingQuotient(a, b, k, L, 0, 2 * A + C)
<1>1. PICK q \in u8, l \in u8 :
        /\ q < Power(k) /\ l < Power(8 - k)
        /\ 256 * C + L = Power(k + 1) * l + q
        /\ a = Power(8 - k) * (q * b + A) + l
  BY DEF PartialQuotient
<1> DEFINE w == Power(k)
           s == Power(k + 1)
           t == Power(7 - k)
           m == l - C * t
           Q == q * b
<1>2. /\ w \in Int /\ s \in Int /\ t \in Int /\ w >= 1 /\ t >= 1 /\ s = 2 * w /\ s * t = 256
      /\ t <= 256 /\ Power(8 - k) = 2 * t
  BY PowersOfLoop
<1>3. /\ a \in Int /\ b \in Int /\ A \in Int /\ L \in Int /\ q \in Int /\ l \in Int /\ C \in Int
      /\ a <= 255 /\ b >= 0 /\ A >= 0 /\ L >= 0 /\ L <= 255 /\ q >= 0 /\ l >= 0
      /\ C \in {0, 1}
  BY U8
<1> HIDE DEF w, s, t
<1>4. q < w /\ l < 2 * t /\ 256 * C + L = s * l + q
  BY <1>1, <1>2 DEF w, s
<1>5. Q \in Int /\ Q >= 0
  BY <1>3
<1>6. a = (2 * t) * (Q + A) + l
  BY <1>1, <1>2
<1> HIDE DEF Q
<1>7. m \in Int /\ m >= 0 /\ m < t
  <2>1. CASE C = 0
    <3>1. l >= t => s * l >= 256
      <4>1. l >= t => s * l >= s * t
        BY <1>2, <1>3
      <4> QED
        BY <1>2, <4>1
    <3> QED
      BY <1>2, <1>3, <1>4, <2>1, <3>1
  <2>2. CASE C = 1
    <3>1. l < t => s * l <= 256 - s
      <4>1. l < t => s * l <= s * (t - 1)
        BY <1>2, <1>3
      <4>2. s * (t - 1) = 256 - s
        BY <1>2
      <4> QED
        BY <4>1, <4>2
    <3> QED
      BY <1>2, <1>3, <1>4, <2>2, <3>1
  <2> QED
    BY <1>3, <2>1, <2>2
<1>8. L = s * m + q
  <2>1. CASE C = 0
    <3>1. m = l
      BY <1>2, <1>3, <2>1
    <3> HIDE DEF m
    <3> QED
      BY <1>3, <1>4, <2>1, <3>1
  <2>2. CASE C = 1
    <3>1. m = l - t
      BY <1>2, <1>3, <2>2
    <3> HIDE DEF m
    <3>2. s * (l - t) = s * l - 256 /\ s * l \in Int
      BY <1>2, <1>3
    <3> QED
      BY <1>3, <1>4, <2>2, <3>1, <3>2
  <2> QED
    BY <1>3, <2>1, <2>2
<1>9. a = t * ((2 * q + 0) * b + (2 * A + C)) + m
  <2>1. (2 * q + 0) * b = 2 * Q
    BY <1>3 DEF Q
  <2>2. (2 * t) * (Q + A) + C * t = t * (2 * Q + (2 * A + C))
    BY <1>2, <1>3, <1>5
  <2>3. C * t \in Int /\ (2 * t) * (Q + A) \in Int
    BY <1>2, <1>3, <1>5
  <2> QED
    BY <1>3, <1>6, <2>1, <2>2, <2>3
<1> HIDE DEF m
<1>10. 2 * A + C <= 255
  <2> DEFINE N == 2 * Q + (2 * A + C)
             product == t * N
  <2>1. a = product + m
    BY <1>3, <1>9 DEF Q
  <2>2. N \in Int /\ N >= 2 * A + C
    BY <1>3, <1>5
  <2> HIDE DEF N
  <2>3. product \in Int /\ (N >= 0 => product >= N)
    BY <1>2, <2>2
  <2> HIDE DEF product
  <2> QED
    BY <1>3, <1>7, <2>1, <2>2, <2>3
<1>11. m \in u8 /\ 2 * A + C \in u8
  <2>1. m <= 255
    BY <1>2, <1>7
  <2> QED
    BY <1>3, <1>7, <1>10, <2>1, U8
<1> QED
  BY <1>1, <1>7, <1>8, <1>9, <1>11 DEF PendingQuotient, s, t

\* The subtraction goes into the bit of the quotient.
LEMMA QuotientSubtracts ==
  ASSUME NEW a \in u8, NEW b \in u8, NEW k \in 0 .. 7, NEW A \in u8, NEW L \in u8,
         PendingQuotient(a, b, k, L, 0, A)
  PROVE  PendingQuotient(a, b, k, L, 1, A - b)
<1>1. PICK q \in u8, l \in u8 :
        /\ q < Power(k) /\ l < Power(7 - k)
        /\ L = Power(k + 1) * l + q
        /\ a = Power(7 - k) * ((2 * q + 0) * b + A) + l
  BY DEF PendingQuotient
<1>2. q \in Int /\ b \in Int /\ A \in Int
  BY U8
<1>3. (2 * q + 1) * b + (A - b) = (2 * q + 0) * b + A
  BY <1>2
<1> QED
  BY <1>1, <1>3 DEF PendingQuotient

\* The second rotation appends the bit to the quotient.
LEMMA QuotientAppendsBit ==
  ASSUME NEW a \in u8, NEW b \in u8, NEW k \in 0 .. 7, NEW A \in u8, NEW L \in u8,
         NEW c \in {0, 1}, PendingQuotient(a, b, k, L, c, A)
  PROVE  PartialQuotient(a, b, k + 1, 2 * L + c, A)
<1>1. PICK q \in u8, l \in u8 :
        /\ q < Power(k) /\ l < Power(7 - k)
        /\ L = Power(k + 1) * l + q
        /\ a = Power(7 - k) * ((2 * q + c) * b + A) + l
  BY DEF PendingQuotient
<1> DEFINE w == Power(k)
           s == Power(k + 1)
           n == 2 * q + c
<1>2. /\ w \in Int /\ s \in Int /\ s = 2 * w /\ s <= 256 /\ Power((k + 1) + 1) = 2 * s
      /\ 8 - (k + 1) = 7 - k
  BY PowersOfLoop
<1>3. q \in Int /\ l \in Int /\ L \in Int /\ c \in Int /\ q >= 0 /\ c >= 0 /\ c <= 1
  BY U8
<1> HIDE DEF w, s
<1>4. q < w /\ L = s * l + q
  BY <1>1 DEF w, s
<1>5. n \in u8 /\ n < s
  BY <1>2, <1>3, <1>4, U8
<1>6. 2 * L + c = (2 * s) * l + n
  <2>1. (2 * s) * l = 2 * (s * l) /\ s * l \in Int
    BY <1>2, <1>3
  <2> QED
    BY <1>3, <1>4, <2>1
<1> HIDE DEF n
<1> QED
  BY <1>1, <1>2, <1>5, <1>6 DEF PartialQuotient, s, n

\* A rotation moves the high bit of a byte into the carry.
LEMMA DoubleByte ==
  ASSUME NEW v \in u8, NEW c \in {0, 1}
  PROVE  /\ ToU8(2 * v) + c \in u8
         /\ 2 * v + c = 256 * (IF v >= 128 THEN 1 ELSE 0) + (ToU8(2 * v) + c)
  BY U8 DEF ToU8

\* Before the first iteration nothing has been divided.
LEMMA QuotientBegins ==
  ASSUME NEW a \in u8, NEW b \in u8
  PROVE  PartialQuotient(a, b, 0, 2 * a, 0)
<1>1. /\ Power(0) = 1 /\ Power(0 + 1) = 2 /\ Power(8 - 0) = 256
      /\ a \in Int /\ b \in Int /\ a <= 255 /\ 0 \in u8
  BY Powers, U8
<1>2. 0 * b = 0
  BY <1>1
<1>3. /\ 0 < Power(0) /\ a < Power(8 - 0)
      /\ 2 * a = Power(0 + 1) * a + 0
      /\ a = Power(8 - 0) * (0 * b + 0) + a
  BY <1>1, <1>2
<1> QED
  BY <1>1, <1>3 DEF PartialQuotient

\* After eight iterations the register is the quotient.
LEMMA QuotientEnds ==
  ASSUME NEW a \in u8, NEW b \in u8, NEW A \in u8, NEW L \in u8, NEW C \in {0, 1},
         PartialQuotient(a, b, 8, 256 * C + L, A)
  PROVE  a = L * b + A
<1>1. PICK q \in u8, l \in u8 :
        /\ q < Power(8) /\ l < Power(8 - 8)
        /\ 256 * C + L = Power(8 + 1) * l + q
        /\ a = Power(8 - 8) * (q * b + A) + l
  BY DEF PartialQuotient
<1>2. l = 0 /\ Power(8 - 8) = 1 /\ Power(8 + 1) = 512
  BY <1>1, Powers, U8
<1>3. L \in Int /\ q \in Int /\ b \in Int /\ A \in Int /\ L >= 0 /\ q <= 255
  BY U8
<1>4. L = q
  BY <1>1, <1>2, <1>3
<1>5. L * b \in Int
  BY <1>3
<1> QED
  BY <1>1, <1>2, <1>3, <1>4, <1>5

\* What holds at each instruction of Quotient(a, b), for b not 0.
QuotientPoint(a, b) ==
  LET A == bus.accumulator
      X == bus.x
      r == bus.cpu_ram
      C == CarryOf(bus)
      partial(k) == PartialQuotient(a, b, k, 256 * C + r[0], A) /\ r[1] = b /\ A < b
      pending(c) == PendingQuotient(a, b, 8 - X, r[0], c, A) /\ r[1] = b
  IN  \/ PreludePoint(a, b)
      \/ At(12) /\ A = 0 /\ X = 8 /\ r[0] = a /\ r[1] = b
      \/ At(14) /\ X \in 1 .. 8 /\ partial(8 - X)
      \/ At(15) /\ X \in 1 .. 8 /\ pending(0) /\ A < 2 * b
      \/ At(17) /\ X \in 1 .. 8 /\ pending(0) /\ A < 2 * b /\ (C = 1 <=> A >= b)
      \/ At(19) /\ X \in 1 .. 8 /\ pending(0) /\ A < 2 * b /\ C = 1 /\ A >= b
      \/ At(21) /\ X \in 1 .. 8 /\ pending(C) /\ A < b
      \/ At(23) /\ X \in 1 .. 8 /\ partial(9 - X)
      \/ At(24) /\ X \in 0 .. 7 /\ partial(8 - X) /\ (ZeroFlag \in bus.status <=> X = 0)
      \/ At(26) /\ a = r[0] * b + A /\ A < b
      \/ At(28) /\ a = r[0] * b + r[2] /\ r[2] < b

\* The instructions of the program and their operands, from its bytes.
LEMMA QuotientListing ==
  ASSUME NEW a, NEW b, ProgramRows
  PROVE  LET code == Quotient(a, b)
             instr(p, fn, bytes, mode) == Instr(code, p, fn, bytes, mode)
         IN  /\ ByteLoop(code, a, b)
             /\ instr(12, "asl", 2, "ZeroPage") /\ code[14] = 0
             /\ instr(14, "rol_acc", 1, "Accumulator")
             /\ instr(15, "cmp", 2, "ZeroPage") /\ code[17] = 1
             /\ instr(17, "bcc", 2, "Relative") /\ code[19] = 2
             /\ instr(19, "sbc", 2, "ZeroPage") /\ code[21] = 1
             /\ instr(21, "rol", 2, "ZeroPage") /\ code[23] = 0
             /\ instr(23, "dex", 1, "Implied")
             /\ instr(24, "bne", 2, "Relative") /\ code[26] = 244
             /\ instr(26, "sta", 2, "ZeroPage") /\ code[28] = 2
             /\ instr(28, "brk", 1, "Implied")
<1> DEFINE code == Quotient(a, b)
<1>1. Len(code) = 29
  BY DEF Quotient
<1>2. /\ code[1] = 169 /\ code[2] = a /\ code[3] = 133 /\ code[4] = 0
      /\ code[5] = 169 /\ code[6] = b /\ code[7] = 133 /\ code[8] = 1
      /\ code[9] = 169 /\ code[10] = 0 /\ code[11] = 162 /\ code[12] = 8
      /\ code[13] = 6 /\ code[14] = 0 /\ code[15] = 42 /\ code[16] = 197 /\ code[17] = 1
      /\ code[18] = 144 /\ code[19] = 2 /\ code[20] = 229 /\ code[21] = 1
      /\ code[22] = 38 /\ code[23] = 0 /\ code[24] = 202 /\ code[25] = 208 /\ code[26] = 244
      /\ code[27] = 133 /\ code[28] = 2 /\ code[29] = 0
  BY DEF Quotient
<1>3. /\ Row(169, "lda", 2, "Immediate") /\ Row(133, "sta", 2, "ZeroPage")
      /\ Row(162, "ldx", 2, "Immediate") /\ Row(6, "asl", 2, "ZeroPage")
      /\ Row(42, "rol_acc", 1, "Accumulator") /\ Row(197, "cmp", 2, "ZeroPage")
      /\ Row(144, "bcc", 2, "Relative") /\ Row(229, "sbc", 2, "ZeroPage")
      /\ Row(38, "rol", 2, "ZeroPage") /\ Row(202, "dex", 1, "Implied")
      /\ Row(208, "bne", 2, "Relative") /\ Row(0, "brk", 1, "Implied")
  BY DEF ProgramRows
<1> HIDE DEF code
<1>4. ByteLoop(code, a, b)
  BY <1>1, <1>2, <1>3 DEF ByteLoop, Instr
<1>5. /\ Instr(code, 12, "asl", 2, "ZeroPage") /\ Instr(code, 14, "rol_acc", 1, "Accumulator")
      /\ Instr(code, 15, "cmp", 2, "ZeroPage") /\ Instr(code, 17, "bcc", 2, "Relative")
      /\ Instr(code, 19, "sbc", 2, "ZeroPage") /\ Instr(code, 21, "rol", 2, "ZeroPage")
      /\ Instr(code, 23, "dex", 1, "Implied") /\ Instr(code, 24, "bne", 2, "Relative")
      /\ Instr(code, 26, "sta", 2, "ZeroPage") /\ Instr(code, 28, "brk", 1, "Implied")
  BY <1>1, <1>2, <1>3 DEF Instr
<1> QED
  BY <1>2, <1>4, <1>5 DEF code

\* A step of the program from an instruction to the next.
LEMMA QuotientStep ==
  ASSUME NEW a \in u8, NEW b \in u8, b # 0, RowsAgree, ProgramRows,
         bus \in ProgramState, Step, bus.cartridge = CartOf(Quotient(a, b)),
         QuotientPoint(a, b)
  PROVE  \/ phase' = "running" /\ QuotientPoint(a, b)'
         \/ /\ phase' = "returned"
            /\ a = bus'.cpu_ram[0] * b + bus'.cpu_ram[2] /\ bus'.cpu_ram[2] < b
<1> DEFINE code == Quotient(a, b)
           A == bus.accumulator
           X == bus.x
           y == bus.y
           r == bus.cpu_ram
           C == CarryOf(bus)
           L == r[0]
           M == read_mem(bus, Operand.address)
           partial(k) == PartialQuotient(a, b, k, 256 * C + r[0], A) /\ r[1] = b /\ A < b
           pending(c) == PendingQuotient(a, b, 8 - X, r[0], c, A) /\ r[1] = b
<1>1. /\ a \in Int /\ b \in Int /\ a >= 0 /\ b >= 1 /\ a <= 255 /\ b <= 255
      /\ A \in u8 /\ A \in Int /\ A >= 0 /\ A <= 255
  BY ProgramFields, U8
<1>2. C \in {0, 1} /\ (CarryFlag \in bus.status <=> C = 1)
  BY DEF CarryOf
<1>3. DOMAIN r = 0 .. RAM_SIZE - 1 /\ L \in u8 /\ L \in Int /\ L >= 0 /\ L <= 255
  BY U8 DEF ProgramState, BusState, RAM_SIZE
<1>4. \A v : /\ [r EXCEPT ![0] = v][0] = v /\ [r EXCEPT ![0] = v][1] = r[1]
             /\ [r EXCEPT ![2] = v][0] = r[0] /\ [r EXCEPT ![2] = v][2] = v
  BY <1>3 DEF RAM_SIZE
<1>5. \A p : At(p) => Executing(code, p)
  BY DEF At, Executing
<1>6. CASE PreludePoint(a, b)
  <2>1. ByteLoop(code, a, b)
    BY QuotientListing
  <2> QED
    BY <1>6, <2>1, PreludeStep DEF QuotientPoint, At
<1>7. CASE At(12) /\ A = 0 /\ X = 8 /\ L = a /\ r[1] = b
  <2> DEFINE L2 == ToU8(2 * a)
             C2 == IF a >= 128 THEN 1 ELSE 0
  <2>1. Executes("asl") /\ NextAddress = AUTOMATION_ENTRY + 14
        /\ Operand.address < RAM_MIRROR_END /\ RamCell(Operand.address) = 0 /\ M = a
    BY <1>5, <1>7, QuotientListing, ZeroPageAt
  <2>2. LeadsTo(AUTOMATION_ENTRY + 14, A, X, y, a >= 128, [r EXCEPT ![0] = L2])
    BY <2>1, ShiftRuns
  <2>3. PartialQuotient(a, b, 0, 256 * C2 + L2, 0)
    <3>1. 2 * a + 0 = 256 * C2 + (L2 + 0) /\ L2 + 0 \in u8 /\ 0 \in {0, 1}
      BY DoubleByte
    <3>2. L2 \in Int /\ C2 \in Int
      BY <1>1 DEF ToU8
    <3> HIDE DEF L2, C2
    <3>3. 256 * C2 + L2 = 2 * a
      BY <1>1, <3>1, <3>2
    <3> QED
      BY <3>3, QuotientBegins
  <2>4. CarryOf(bus') = C2
    BY <2>2 DEF LeadsTo, CarryOf
  <2>5. bus'.cpu_ram[0] = L2 /\ bus'.cpu_ram[1] = r[1]
    BY <1>4, <2>2 DEF LeadsTo
  <2> HIDE DEF L2, C2
  <2> QED
    BY <1>1, <1>7, <2>2, <2>3, <2>4, <2>5 DEF LeadsTo, QuotientPoint, At
<1>8. CASE At(14) /\ X \in 1 .. 8 /\ partial(8 - X)
  <2>1. Executes("rol_acc") /\ NextAddress = AUTOMATION_ENTRY + 15
    BY <1>5, <1>8, QuotientListing, ImpliedAt
  <2>2. LeadsTo(AUTOMATION_ENTRY + 15, ToU8(2 * A) + C, X, y, A >= 128, r)
    BY <2>1, AccShiftRuns DEF CarryOf
  <2>3. 8 - X \in 0 .. 7
    BY <1>8
  <2>4. 2 * A + C \in u8 /\ PendingQuotient(a, b, 8 - X, L, 0, 2 * A + C)
    <3>1. /\ A \in u8 /\ L \in u8 /\ C \in {0, 1}
          /\ PartialQuotient(a, b, 8 - X, 256 * C + L, A)
      BY <1>1, <1>2, <1>3, <1>8
    <3> HIDE DEF A, L, C
    <3> QED
      BY <2>3, <3>1, QuotientTakesBit
  <2>5. ToU8(2 * A) + C = 2 * A + C /\ 2 * A + C < 2 * b
    <3> DEFINE C2 == IF A >= 128 THEN 1 ELSE 0
               low == ToU8(2 * A)
    <3>1. 2 * A + C = 256 * C2 + (low + C) /\ low + C \in u8
      BY <1>1, <1>2, DoubleByte
    <3>2. C2 \in {0, 1} /\ low \in Int
      BY <1>1 DEF ToU8
    <3> HIDE DEF A, C, C2, low
    <3>3. low + C = 2 * A + C
      BY <1>1, <1>2, <2>4, <3>1, <3>2, U8
    <3>4. 2 * A + C < 2 * b
      BY <1>1, <1>2, <1>8
    <3> QED
      BY <3>3, <3>4 DEF low
  <2> QED
    BY <1>8, <2>2, <2>4, <2>5 DEF LeadsTo, QuotientPoint, At
<1>9. CASE At(15) /\ X \in 1 .. 8 /\ pending(0) /\ A < 2 * b
  <2>1. Executes("cmp") /\ NextAddress = AUTOMATION_ENTRY + 17 /\ M = b
    BY <1>5, <1>9, QuotientListing, ZeroPageAt
  <2>2. LeadsTo(AUTOMATION_ENTRY + 17, A, X, y, A >= b, r)
    BY <2>1, ArithmeticRuns
  <2>3. CarryOf(bus') = 1 <=> A >= b
    BY <2>2 DEF LeadsTo, CarryOf
  <2> QED
    BY <1>9, <2>2, <2>3 DEF LeadsTo, QuotientPoint, At
<1>10. CASE At(17) /\ X \in 1 .. 8 /\ pending(0) /\ A < 2 * b /\ (C = 1 <=> A >= b)
  <2>1. Executes("bcc") /\ NextAddress = AUTOMATION_ENTRY + 19 /\ Fetched.byte = 2
    BY <1>5, <1>10, QuotientListing, RelativeAt
  <2>2. ToU16(AUTOMATION_ENTRY + 19 + SignExtend(2)) = AUTOMATION_ENTRY + 21
    BY DEF ToU16, SignExtend, Bit7, AUTOMATION_ENTRY
  <2>3. LeadsTo(AUTOMATION_ENTRY + (IF C = 1 THEN 19 ELSE 21), A, X, y, C = 1, r)
    BY <1>2, <2>1, <2>2, BranchRuns
  <2>4. CarryOf(bus') = C
    BY <1>2, <2>3 DEF LeadsTo, CarryOf
  <2>5. CASE C = 1
    BY <1>10, <2>3, <2>4, <2>5 DEF LeadsTo, QuotientPoint, At
  <2>6. CASE C = 0
    <3>1. A < b
      BY <1>1, <1>10, <2>6
    <3> QED
      BY <1>10, <2>3, <2>4, <2>6, <3>1 DEF LeadsTo, QuotientPoint, At
  <2> QED
    BY <1>2, <2>5, <2>6
<1>11. CASE At(19) /\ X \in 1 .. 8 /\ pending(0) /\ A < 2 * b /\ C = 1 /\ A >= b
  <2>1. Executes("sbc") /\ NextAddress = AUTOMATION_ENTRY + 21 /\ M = b
    BY <1>5, <1>11, QuotientListing, ZeroPageAt
  <2>2. ToU8(A - b - (1 - 1)) = A - b /\ A - b - (1 - 1) >= 0 /\ A - b < b
    BY <1>1, <1>11, ByteStays
  <2>3. LeadsTo(AUTOMATION_ENTRY + 21, A - b, X, y, TRUE, r)
    <3>1. CarryFlag \in bus.status
      BY <1>2, <1>11
    <3>2. LeadsTo(AUTOMATION_ENTRY + 21, ToU8(A - b - (1 - 1)), X, y, A - b - (1 - 1) >= 0, r)
      BY <2>1, <3>1, ArithmeticRuns
    <3> QED
      BY <2>2, <3>2
  <2>4. PendingQuotient(a, b, 8 - X, L, 1, A - b)
    <3>1. 8 - X \in 0 .. 7 /\ PendingQuotient(a, b, 8 - X, L, 0, A)
      BY <1>11
    <3> HIDE DEF A, L
    <3> QED
      BY <1>1, <1>3, <3>1, QuotientSubtracts
  <2>5. CarryOf(bus') = 1
    BY <2>3 DEF LeadsTo, CarryOf
  <2> QED
    BY <1>11, <2>2, <2>3, <2>4, <2>5 DEF LeadsTo, QuotientPoint, At
<1>12. CASE At(21) /\ X \in 1 .. 8 /\ pending(C) /\ A < b
  <2> DEFINE L2 == ToU8(2 * L) + C
             C2 == IF L >= 128 THEN 1 ELSE 0
  <2>1. Executes("rol") /\ NextAddress = AUTOMATION_ENTRY + 23
        /\ Operand.address < RAM_MIRROR_END /\ RamCell(Operand.address) = 0 /\ M = L
    BY <1>5, <1>12, QuotientListing, ZeroPageAt
  <2>2. LeadsTo(AUTOMATION_ENTRY + 23, A, X, y, L >= 128, [r EXCEPT ![0] = L2])
    BY <2>1, ShiftRuns DEF CarryOf
  <2>3. 2 * L + C = 256 * C2 + L2
    BY <1>2, <1>3, DoubleByte
  <2>4. 8 - X \in 0 .. 7 /\ (8 - X) + 1 = 9 - X
    BY <1>12
  <2>5. PartialQuotient(a, b, 9 - X, 2 * L + C, A)
    <3> HIDE DEF A, L, C
    <3> QED
      BY <1>1, <1>2, <1>3, <1>12, <2>4, QuotientAppendsBit DEF L
  <2>6. CarryOf(bus') = C2
    BY <2>2 DEF LeadsTo, CarryOf
  <2>7. bus'.cpu_ram = [r EXCEPT ![0] = L2]
    BY <2>2 DEF LeadsTo
  <2> HIDE DEF L2, C2
  <2>8. bus'.cpu_ram[0] = L2 /\ bus'.cpu_ram[1] = r[1]
    BY <1>3, <2>7 DEF RAM_SIZE
  <2> QED
    BY <1>12, <2>2, <2>3, <2>5, <2>6, <2>8 DEF LeadsTo, QuotientPoint, At
<1>13. CASE At(23) /\ X \in 1 .. 8 /\ partial(9 - X)
  <2>1. Executes("dex") /\ NextAddress = AUTOMATION_ENTRY + 24
    BY <1>5, <1>13, QuotientListing, ImpliedAt
  <2>2. ToU8(X - 1) = X - 1 /\ X - 1 \in 0 .. 7 /\ 8 - (X - 1) = 9 - X
    BY <1>13, Countdown
  <2>3. /\ LeadsTo(AUTOMATION_ENTRY + 24, A, X - 1, y, CarryFlag \in bus.status, r)
        /\ ZeroFlag \in bus'.status <=> X - 1 = 0
    BY <2>1, <2>2, CountRuns
  <2> QED
    BY <1>13, <2>2, <2>3 DEF LeadsTo, QuotientPoint, At, CarryOf
<1>14. CASE At(24) /\ X \in 0 .. 7 /\ partial(8 - X) /\ (ZeroFlag \in bus.status <=> X = 0)
  <2>1. Executes("bne") /\ NextAddress = AUTOMATION_ENTRY + 26 /\ Fetched.byte = 244
    BY <1>5, <1>14, QuotientListing, RelativeAt
  <2>2. ToU16(AUTOMATION_ENTRY + 26 + SignExtend(244)) = AUTOMATION_ENTRY + 14
    BY DEF ToU16, SignExtend, Bit7, AUTOMATION_ENTRY
  <2>3. LeadsTo(AUTOMATION_ENTRY + (IF X = 0 THEN 26 ELSE 14), A, X, y,
                CarryFlag \in bus.status, r)
    BY <1>14, <2>1, <2>2, BranchRuns
  <2>4. CASE X # 0
    BY <1>14, <2>3, <2>4 DEF LeadsTo, QuotientPoint, At, CarryOf
  <2>5. CASE X = 0
    <3>1. a = L * b + A
      <4>1. PartialQuotient(a, b, 8, 256 * C + L, A)
        BY <1>14, <2>5
      <4> HIDE DEF A, C, L
      <4> QED
        BY <1>1, <1>2, <1>3, <4>1, QuotientEnds
    <3> QED
      BY <1>14, <2>3, <2>5, <3>1 DEF LeadsTo, QuotientPoint, At
  <2> QED
    BY <2>4, <2>5
<1>15. CASE At(26) /\ a = L * b + A /\ A < b
  <2>1. Executes("sta") /\ NextAddress = AUTOMATION_ENTRY + 28
        /\ Operand.address < RAM_MIRROR_END /\ RamCell(Operand.address) = 2
    BY <1>5, <1>15, QuotientListing, ZeroPageAt
  <2>2. LeadsTo(AUTOMATION_ENTRY + 28, A, X, y, CarryFlag \in bus.status, [r EXCEPT ![2] = A])
    BY <2>1, StoreRuns
  <2>3. bus'.cpu_ram[0] = L /\ bus'.cpu_ram[2] = A
    BY <1>4, <2>2 DEF LeadsTo
  <2> QED
    BY <1>15, <2>2, <2>3 DEF LeadsTo, QuotientPoint, At
<1>16. CASE At(28) /\ a = L * b + r[2] /\ r[2] < b
  <2>1. Executes("brk")
    BY <1>5, <1>16, QuotientListing, ImpliedAt
  <2>2. {0, 2} \subseteq (0 .. RAM_SIZE - 1) \ PageOne
    BY DEF PageOne, STACK_START, RAM_SIZE
  <2> QED
    BY <1>16, <2>1, <2>2, BrkRuns
<1> QED
  BY <1>6, <1>7, <1>8, <1>9, <1>10, <1>11, <1>12, <1>13, <1>14, <1>15, <1>16 DEF QuotientPoint

QuotientInv ==
  \A a, b \in u8 :
    b # 0 /\ bus.cartridge = CartOf(Quotient(a, b)) =>
      /\ Running => QuotientPoint(a, b)
      /\ phase = "returned" =>
           a = bus.cpu_ram[0] * b + bus.cpu_ram[2] /\ bus.cpu_ram[2] < b

\* Every step keeps the invariant of the quotients.
LEMMA NextQuotient ==
  ASSUME RowsAgree, ProgramRows, IInv, QuotientInv, [Next]_vars
  PROVE  QuotientInv'
<1> SUFFICES ASSUME NEW a \in u8, NEW b \in u8, b # 0, bus'.cartridge = CartOf(Quotient(a, b))
             PROVE  /\ Running' => QuotientPoint(a, b)'
                    /\ phase' = "returned" =>
                         a = bus'.cpu_ram[0] * b + bus'.cpu_ram[2] /\ bus'.cpu_ram[2] < b
  BY DEF QuotientInv
<1>1. CASE UNCHANGED vars
  BY <1>1 DEF vars, QuotientInv, QuotientPoint, PreludePoint, At, Running, CarryOf
<1>2. CASE phase' = "reset"
  BY <1>2 DEF Running
<1>3. CASE phase' = "running" /\ At(0)'
  BY <1>3 DEF QuotientPoint, PreludePoint, At
<1>4. CASE Running /\ Step /\ bus \in ProgramState /\ bus'.cartridge = bus.cartridge
  <2>1. QuotientPoint(a, b)
    BY <1>4 DEF QuotientInv
  <2> QED
    BY <1>4, <2>1, QuotientStep DEF Running
<1> QED
  BY <1>1, <1>2, <1>3, <1>4, Lifetime

\* For all bytes a and b but b = 0 the shift-and-subtract loop leaves the
\* quotient and a remainder below b.
THEOREM SubtractionsDivide ==
  ASSUME RowsAgree, ProgramRows
  PROVE  Spec => []QuotientComputes
<1>1. Init => QuotientInv
  BY DEF Init, QuotientInv, Running
<1>2. IInv /\ QuotientInv => QuotientComputes
  BY InputType DEF QuotientInv, QuotientComputes, HasRun
<1> QED
  BY <1>1, <1>2, InitIInv, NextIInv, NextQuotient, PTL DEF Spec

-----------------------------------------------------------------------------
(* IndirectJump.                                                           *)

Page(low) == 512 + low
NextLow(low) == (low + 1) % 256

\* What holds at each instruction of IndirectJump(low).
JumpPoint(low) ==
  LET A == bus.accumulator
      r == bus.cpu_ram
  IN  \/ At(0) \/ At(2) \/ At(5)
      \/ At(7)  /\ A = 19
      \/ At(10) /\ r[Page(low)] = 19
      \/ At(12) /\ r[Page(low)] = 19 /\ A = 192
      \/ At(15) /\ r[Page(low)] = 19 /\ r[Page(NextLow(low))] = 192
      \/ At(19)
      \/ At(21) /\ A = 42
      \/ At(23) /\ r[2] = 42

\* The instructions of the program and their operands, from its bytes.
LEMMA JumpListing ==
  ASSUME NEW low, ProgramRows
  PROVE  LET code == IndirectJump(low)
             instr(p, fn, bytes, mode) == Instr(code, p, fn, bytes, mode)
         IN  /\ instr(0, "lda", 2, "Immediate") /\ code[2] = 193
             /\ instr(2, "sta", 3, "Absolute") /\ code[4] = 0 /\ code[5] = 3
             /\ instr(5, "lda", 2, "Immediate") /\ code[7] = 19
             /\ instr(7, "sta", 3, "Absolute") /\ code[9] = low /\ code[10] = 2
             /\ instr(10, "lda", 2, "Immediate") /\ code[12] = 192
             /\ instr(12, "sta", 3, "Absolute") /\ code[14] = NextLow(low) /\ code[15] = 2
             /\ instr(15, "jmp", 3, "Indirect") /\ code[17] = low /\ code[18] = 2
             /\ instr(19, "lda", 2, "Immediate") /\ code[21] = 42
             /\ instr(21, "sta", 2, "ZeroPage") /\ code[23] = 2
             /\ instr(23, "brk", 1, "Implied")
<1> DEFINE code == IndirectJump(low)
<1>1. Len(code) = 24
  BY DEF IndirectJump
<1>2. /\ code[1] = 169 /\ code[2] = 193 /\ code[3] = 141 /\ code[4] = 0 /\ code[5] = 3
      /\ code[6] = 169 /\ code[7] = 19 /\ code[8] = 141 /\ code[9] = low /\ code[10] = 2
      /\ code[11] = 169 /\ code[12] = 192 /\ code[13] = 141
      /\ code[14] = NextLow(low) /\ code[15] = 2
      /\ code[16] = 108 /\ code[17] = low /\ code[18] = 2 /\ code[19] = 0
      /\ code[20] = 169 /\ code[21] = 42 /\ code[22] = 133 /\ code[23] = 2 /\ code[24] = 0
  BY DEF IndirectJump, NextLow
<1>3. /\ Row(169, "lda", 2, "Immediate") /\ Row(141, "sta", 3, "Absolute")
      /\ Row(108, "jmp", 3, "Indirect") /\ Row(133, "sta", 2, "ZeroPage")
      /\ Row(0, "brk", 1, "Implied")
  BY DEF ProgramRows
<1> HIDE DEF code
<1>4. /\ Instr(code, 0, "lda", 2, "Immediate") /\ Instr(code, 2, "sta", 3, "Absolute")
      /\ Instr(code, 5, "lda", 2, "Immediate") /\ Instr(code, 7, "sta", 3, "Absolute")
      /\ Instr(code, 10, "lda", 2, "Immediate") /\ Instr(code, 12, "sta", 3, "Absolute")
      /\ Instr(code, 15, "jmp", 3, "Indirect") /\ Instr(code, 19, "lda", 2, "Immediate")
      /\ Instr(code, 21, "sta", 2, "ZeroPage") /\ Instr(code, 23, "brk", 1, "Implied")
  BY <1>1, <1>2, <1>3 DEF Instr
<1> QED
  BY <1>2, <1>4 DEF code

\* The two bytes of the vector are in different cells of its page.
LEMMA VectorCells ==
  ASSUME NEW low \in u8
  PROVE  /\ Word(2, low) = Page(low) /\ Word(2, NextLow(low)) = Page(NextLow(low))
         /\ Page(low) \in 0 .. RAM_SIZE - 1 /\ Page(NextLow(low)) \in 0 .. RAM_SIZE - 1
         /\ Page(low) # Page(NextLow(low)) /\ Word(3, 0) \in 0 .. RAM_SIZE - 1
         /\ Page(NextLow(low)) = IF LowByte(Page(low)) = 255 THEN Page(low) - 255
                                 ELSE ToU16(Page(low) + 1)
<1>1. low \in 0 .. 255
  BY U8
<1>2. NextLow(low) = IF low = 255 THEN 0 ELSE low + 1
  BY <1>1 DEF NextLow
<1>3. LowByte(Page(low)) = low /\ ToU16(Page(low) + 1) = Page(low) + 1
  BY <1>1 DEF LowByte, Page, ToU16
<1> QED
  BY <1>1, <1>2, <1>3 DEF Page, Word, RAM_SIZE

\* A step of the program from an instruction to the next.
LEMMA JumpStepArrives ==
  ASSUME NEW low \in u8, RowsAgree, ProgramRows,
         bus \in ProgramState, Step, bus.cartridge = CartOf(IndirectJump(low)),
         JumpPoint(low)
  PROVE  \/ phase' = "running" /\ JumpPoint(low)'
         \/ phase' = "returned" /\ bus'.cpu_ram[2] = 42
<1> DEFINE code == IndirectJump(low)
           A == bus.accumulator
           r == bus.cpu_ram
           M == read_mem(bus, Operand.address)
           C == CarryFlag \in bus.status
<1>1. DOMAIN r = 0 .. RAM_SIZE - 1 /\ 2 \in 0 .. RAM_SIZE - 1
  BY DEF ProgramState, BusState, RAM_SIZE
<1>2. \A p : At(p) => Executing(code, p)
  BY DEF At, Executing
<1>3. CASE At(0)
  <2>1. Executes("lda") /\ NextAddress = AUTOMATION_ENTRY + 2
    BY <1>2, <1>3, JumpListing, ImmediateAt
  <2> QED
    BY <2>1, LoadRuns DEF LeadsTo, JumpPoint, At
<1>4. CASE At(2)
  <2>1. Executes("sta") /\ NextAddress = AUTOMATION_ENTRY + 5 /\ Operand.address < RAM_MIRROR_END
    BY <1>2, <1>4, JumpListing, AbsoluteAt, VectorCells
  <2> QED
    BY <2>1, StoreRuns DEF LeadsTo, JumpPoint, At
<1>5. CASE At(5)
  <2>1. Executes("lda") /\ NextAddress = AUTOMATION_ENTRY + 7 /\ M = 19
    BY <1>2, <1>5, JumpListing, ImmediateAt
  <2> QED
    BY <2>1, LoadRuns DEF LeadsTo, JumpPoint, At
<1>6. CASE At(7) /\ A = 19
  <2>1. Executes("sta") /\ NextAddress = AUTOMATION_ENTRY + 10
        /\ Operand.address < RAM_MIRROR_END /\ RamCell(Operand.address) = Page(low)
    BY <1>2, <1>6, JumpListing, AbsoluteAt, VectorCells
  <2>2. LeadsTo(AUTOMATION_ENTRY + 10, A, bus.x, bus.y, C, [r EXCEPT ![Page(low)] = 19])
    BY <1>6, <2>1, StoreRuns
  <2>3. [r EXCEPT ![Page(low)] = 19][Page(low)] = 19
    BY <1>1, VectorCells
  <2> QED
    BY <2>2, <2>3 DEF LeadsTo, JumpPoint, At
<1>7. CASE At(10) /\ r[Page(low)] = 19
  <2>1. Executes("lda") /\ NextAddress = AUTOMATION_ENTRY + 12 /\ M = 192
    BY <1>2, <1>7, JumpListing, ImmediateAt
  <2> QED
    BY <1>7, <2>1, LoadRuns DEF LeadsTo, JumpPoint, At
<1>8. CASE At(12) /\ r[Page(low)] = 19 /\ A = 192
  <2>1. Executes("sta") /\ NextAddress = AUTOMATION_ENTRY + 15
        /\ Operand.address < RAM_MIRROR_END /\ RamCell(Operand.address) = Page(NextLow(low))
    BY <1>2, <1>8, JumpListing, AbsoluteAt, VectorCells
  <2> DEFINE ram == [r EXCEPT ![Page(NextLow(low))] = 192]
  <2>2. LeadsTo(AUTOMATION_ENTRY + 15, A, bus.x, bus.y, C, ram)
    BY <1>8, <2>1, StoreRuns
  <2>3. ram[Page(NextLow(low))] = 192 /\ ram[Page(low)] = r[Page(low)]
    BY <1>1, VectorCells
  <2> HIDE DEF ram
  <2> QED
    BY <1>8, <2>2, <2>3 DEF LeadsTo, JumpPoint, At
<1>9. CASE At(15) /\ r[Page(low)] = 19 /\ r[Page(NextLow(low))] = 192
  <2>1. /\ Executes("jmp") /\ Fetched.word = Page(low)
        /\ Operand.address = IndirectTarget(bus, Page(low))
    <3>1. Executing(code, 15) /\ Instr(code, 15, "jmp", 3, "Indirect")
          /\ code[17] = low /\ code[18] = 2
      BY <1>2, <1>9, JumpListing
    <3>2. Executes("jmp") /\ Fetched.word = Word(2, low)
      BY <3>1, Decoding
    <3> QED
      BY <3>1, <3>2, Operands, VectorCells
  <2>2. /\ read_mem(bus, Page(low)) = 19
        /\ read_mem(bus, Page(NextLow(low))) = 192
    BY <1>9, RamCells, VectorCells
  <2>3. IndirectTarget(bus, Page(low)) = Word(192, 19)
    BY <2>2, VectorCells DEF IndirectTarget
  <2>4. Word(192, 19) = AUTOMATION_ENTRY + 19
    BY DEF Word, AUTOMATION_ENTRY
  <2> QED
    BY <2>1, <2>3, <2>4, JmpRuns DEF LeadsTo, JumpPoint, At
<1>10. CASE At(19)
  <2>1. Executes("lda") /\ NextAddress = AUTOMATION_ENTRY + 21 /\ M = 42
    BY <1>2, <1>10, JumpListing, ImmediateAt
  <2> QED
    BY <2>1, LoadRuns DEF LeadsTo, JumpPoint, At
<1>11. CASE At(21) /\ A = 42
  <2>1. Executes("sta") /\ NextAddress = AUTOMATION_ENTRY + 23
        /\ Operand.address < RAM_MIRROR_END /\ RamCell(Operand.address) = 2
    BY <1>2, <1>11, JumpListing, ZeroPageAt
  <2>2. LeadsTo(AUTOMATION_ENTRY + 23, A, bus.x, bus.y, C, [r EXCEPT ![2] = 42])
    BY <1>11, <2>1, StoreRuns
  <2> QED
    BY <1>1, <2>2 DEF LeadsTo, JumpPoint, At
<1>12. CASE At(23) /\ r[2] = 42
  <2>1. Executes("brk")
    BY <1>2, <1>12, JumpListing, ImpliedAt
  <2>2. 2 \in (0 .. RAM_SIZE - 1) \ PageOne
    BY <1>1 DEF PageOne, STACK_START
  <2> QED
    BY <1>12, <2>1, <2>2, BrkRuns
<1> QED
  BY <1>3, <1>4, <1>5, <1>6, <1>7, <1>8, <1>9, <1>10, <1>11, <1>12 DEF JumpPoint

JumpInv ==
  \A low \in u8 :
    bus.cartridge = CartOf(IndirectJump(low)) =>
      /\ Running => JumpPoint(low)
      /\ phase = "returned" => bus.cpu_ram[2] = 42

\* Every step keeps the invariant of the jumps.
LEMMA NextJump ==
  ASSUME RowsAgree, ProgramRows, IInv, JumpInv, [Next]_vars
  PROVE  JumpInv'
<1> SUFFICES ASSUME NEW low \in u8, bus'.cartridge = CartOf(IndirectJump(low))
             PROVE  /\ Running' => JumpPoint(low)'
                    /\ phase' = "returned" => bus'.cpu_ram[2] = 42
  BY DEF JumpInv
<1>1. CASE UNCHANGED vars
  BY <1>1 DEF vars, JumpInv, JumpPoint, At, Running
<1>2. CASE phase' = "reset"
  BY <1>2 DEF Running
<1>3. CASE phase' = "running" /\ At(0)'
  BY <1>3 DEF JumpPoint, At
<1>4. CASE Running /\ Step /\ bus \in ProgramState /\ bus'.cartridge = bus.cartridge
  <2>1. JumpPoint(low)
    BY <1>4 DEF JumpInv
  <2> QED
    BY <1>4, <2>1, JumpStepArrives DEF Running
<1> QED
  BY <1>1, <1>2, <1>3, <1>4, Lifetime

\* For every low byte of a vector in RAM, JMP finds the high byte in the same
\* page, at 0x0200 after 0x02FF.
THEOREM VectorsStayInTheirPage ==
  ASSUME RowsAgree, ProgramRows
  PROVE  Spec => []JumpArrives
<1>1. Init => JumpInv
  BY DEF Init, JumpInv, Running
<1>2. IInv /\ JumpInv => JumpArrives
  BY InputType DEF JumpInv, JumpArrives, HasRun
<1> QED
  BY <1>1, <1>2, InitIInv, NextIInv, NextJump, PTL DEF Spec

-----------------------------------------------------------------------------
(* Copy.                                                                   *)

\* The first k bytes of the program are in both copies.
Copied(code, k) ==
  \A i \in 0 .. k - 1 :
    bus.cpu_ram[764 + i] = code[i + 1] /\ bus.cpu_ram[784 + i] = code[i + 1]

\* What holds at each instruction of Copy(n).
CopyPoint(n) ==
  LET code == Copy(n)
      A == bus.accumulator
      i == bus.y
      r == bus.cpu_ram
      pointer == r[255] = 252 /\ r[0] = 2
      copying == pointer /\ bus.x = i /\ i \in 0 .. n - 1 /\ Copied(code, i)
      counted == pointer /\ bus.x = i /\ i \in 1 .. n /\ Copied(code, i)
  IN  \/ At(0)
      \/ At(2)  /\ A = 252
      \/ At(4)  /\ r[255] = 252
      \/ At(6)  /\ r[255] = 252 /\ A = 2
      \/ At(8)  /\ pointer
      \/ At(10) /\ pointer /\ bus.x = 0
      \/ At(12) /\ copying
      \/ At(15) /\ copying /\ A = code[i + 1]
      \/ At(17) /\ copying /\ r[764 + i] = code[i + 1]
      \/ At(19) /\ copying /\ r[764 + i] = code[i + 1] /\ A = code[i + 1]
      \/ At(22) /\ pointer /\ bus.x = i /\ i \in 0 .. n - 1 /\ Copied(code, i + 1)
      \/ At(23) /\ pointer /\ bus.x = i + 1 /\ i \in 0 .. n - 1 /\ Copied(code, i + 1)
      \/ At(24) /\ counted
      \/ At(26) /\ counted /\ (ZeroFlag \in bus.status <=> i = n)
      \/ At(28) /\ Copied(code, n)

\* The instructions of the program and their operands, from its bytes.
LEMMA CopyListing ==
  ASSUME NEW n, ProgramRows
  PROVE  LET code == Copy(n)
             instr(p, fn, bytes, mode) == Instr(code, p, fn, bytes, mode)
         IN  /\ Len(code) = 29
             /\ instr(0, "lda", 2, "Immediate") /\ code[2] = 252
             /\ instr(2, "sta", 2, "ZeroPage") /\ code[4] = 255
             /\ instr(4, "lda", 2, "Immediate") /\ code[6] = 2
             /\ instr(6, "sta", 2, "ZeroPage") /\ code[8] = 0
             /\ instr(8, "ldx", 2, "Immediate") /\ code[10] = 0
             /\ instr(10, "ldy", 2, "Immediate") /\ code[12] = 0
             /\ instr(12, "lda", 3, "Absolute_X") /\ code[14] = 0 /\ code[15] = 192
             /\ instr(15, "sta", 2, "Indirect_Y") /\ code[17] = 255
             /\ instr(17, "lda", 2, "Indirect_Y") /\ code[19] = 255
             /\ instr(19, "sta", 3, "Absolute_Y") /\ code[21] = 16 /\ code[22] = 27
             /\ instr(22, "inx", 1, "Implied") /\ instr(23, "iny", 1, "Implied")
             /\ instr(24, "cpy", 2, "Immediate") /\ code[26] = n
             /\ instr(26, "bne", 2, "Relative") /\ code[28] = 240
             /\ instr(28, "brk", 1, "Implied")
<1> DEFINE code == Copy(n)
<1>1. Len(code) = 29
  BY DEF Copy
<1>2. /\ code[1] = 169 /\ code[2] = 252 /\ code[3] = 133 /\ code[4] = 255
      /\ code[5] = 169 /\ code[6] = 2 /\ code[7] = 133 /\ code[8] = 0
      /\ code[9] = 162 /\ code[10] = 0 /\ code[11] = 160 /\ code[12] = 0
      /\ code[13] = 189 /\ code[14] = 0 /\ code[15] = 192 /\ code[16] = 145 /\ code[17] = 255
      /\ code[18] = 177 /\ code[19] = 255 /\ code[20] = 153 /\ code[21] = 16 /\ code[22] = 27
      /\ code[23] = 232 /\ code[24] = 200 /\ code[25] = 192 /\ code[26] = n
      /\ code[27] = 208 /\ code[28] = 240 /\ code[29] = 0
  BY DEF Copy
<1>3. /\ Row(169, "lda", 2, "Immediate") /\ Row(133, "sta", 2, "ZeroPage")
      /\ Row(162, "ldx", 2, "Immediate") /\ Row(160, "ldy", 2, "Immediate")
      /\ Row(189, "lda", 3, "Absolute_X") /\ Row(145, "sta", 2, "Indirect_Y")
      /\ Row(177, "lda", 2, "Indirect_Y") /\ Row(153, "sta", 3, "Absolute_Y")
      /\ Row(232, "inx", 1, "Implied") /\ Row(200, "iny", 1, "Implied")
      /\ Row(192, "cpy", 2, "Immediate") /\ Row(208, "bne", 2, "Relative")
      /\ Row(0, "brk", 1, "Implied")
  BY DEF ProgramRows
<1> HIDE DEF code
<1>4. /\ Instr(code, 0, "lda", 2, "Immediate") /\ Instr(code, 2, "sta", 2, "ZeroPage")
      /\ Instr(code, 4, "lda", 2, "Immediate") /\ Instr(code, 6, "sta", 2, "ZeroPage")
      /\ Instr(code, 8, "ldx", 2, "Immediate") /\ Instr(code, 10, "ldy", 2, "Immediate")
      /\ Instr(code, 12, "lda", 3, "Absolute_X") /\ Instr(code, 15, "sta", 2, "Indirect_Y")
      /\ Instr(code, 17, "lda", 2, "Indirect_Y") /\ Instr(code, 19, "sta", 3, "Absolute_Y")
      /\ Instr(code, 22, "inx", 1, "Implied") /\ Instr(code, 23, "iny", 1, "Implied")
      /\ Instr(code, 24, "cpy", 2, "Immediate") /\ Instr(code, 26, "bne", 2, "Relative")
      /\ Instr(code, 28, "brk", 1, "Implied")
  BY <1>1, <1>2, <1>3 DEF Instr
<1> QED
  BY <1>1, <1>2, <1>4 DEF code

\* Where the indexed operands of the loop lead.
LEMMA CopyAddresses ==
  ASSUME NEW i \in 0 .. 19
  PROVE  /\ ToU16(Word(192, 0) + i) = AUTOMATION_ENTRY + i
         /\ ToU16(Word(2, 252) + i) = 764 + i
         /\ 764 + i < RAM_MIRROR_END /\ RamCell(764 + i) = 764 + i
         /\ 764 + i \in 0 .. RAM_SIZE - 1
         /\ ToU16(Word(27, 16) + i) < RAM_MIRROR_END
         /\ RamCell(ToU16(Word(27, 16) + i)) = 784 + i
         /\ 784 + i \in 0 .. RAM_SIZE - 1
<1>1. Word(192, 0) = 49152 /\ Word(2, 252) = 764 /\ Word(27, 16) = 6928
  BY DEF Word
<1>2. ToU16(49152 + i) = 49152 + i /\ ToU16(764 + i) = 764 + i /\ ToU16(6928 + i) = 6928 + i
  BY DEF ToU16
<1> QED
  BY <1>1, <1>2 DEF AUTOMATION_ENTRY, RAM_MIRROR_END, RAM_SIZE, RamCell

\* A store changes one cell.
LEMMA CellStored ==
  ASSUME NEW r, NEW cell \in DOMAIN r, NEW v, NEW ram, ram = [r EXCEPT ![cell] = v]
  PROVE  ram[cell] = v /\ \A c \in DOMAIN r \ {cell} : ram[c] = r[c]
  OBVIOUS

\* A step of the program from an instruction to the next.
LEMMA CopyStep ==
  ASSUME NEW n \in 1 .. 20, RowsAgree, ProgramRows,
         bus \in ProgramState, Step, bus.cartridge = CartOf(Copy(n)),
         CopyPoint(n)
  PROVE  \/ phase' = "running" /\ CopyPoint(n)'
         \/ phase' = "returned" /\ Copied(Copy(n), n)'
<1> DEFINE code == Copy(n)
           A == bus.accumulator
           i == bus.y
           r == bus.cpu_ram
           M == read_mem(bus, Operand.address)
           C == CarryFlag \in bus.status
           pointer == r[255] = 252 /\ r[0] = 2
           copying == pointer /\ bus.x = i /\ i \in 0 .. n - 1 /\ Copied(code, i)
           counted == pointer /\ bus.x = i /\ i \in 1 .. n /\ Copied(code, i)
<1>1. DOMAIN r = 0 .. RAM_SIZE - 1 /\ 0 \in 0 .. RAM_SIZE - 1 /\ 255 \in 0 .. RAM_SIZE - 1
  BY DEF ProgramState, BusState, RAM_SIZE
<1>2. \A p : At(p) => Executing(code, p)
  BY DEF At, Executing
<1>3. pointer => ZeroPageWord(bus, 255) = Word(2, 252)
  <2>1. read_mem(bus, 0) = r[0] /\ read_mem(bus, 255) = r[255] /\ LowByte(255 + 1) = 0
    <3>1. 0 \in 0 .. RAM_SIZE - 1 /\ 255 \in 0 .. RAM_SIZE - 1 /\ LowByte(255 + 1) = 0
      BY DEF RAM_SIZE, LowByte
    <3> QED
      BY <3>1, RamCells
  <2> QED
    BY <2>1 DEF ZeroPageWord
<1>4. CASE At(0)
  <2>1. Executes("lda") /\ NextAddress = AUTOMATION_ENTRY + 2 /\ M = 252
    BY <1>2, <1>4, CopyListing, ImmediateAt
  <2> QED
    BY <2>1, LoadRuns DEF LeadsTo, CopyPoint, At
<1>5. CASE At(2) /\ A = 252
  <2>1. Executes("sta") /\ NextAddress = AUTOMATION_ENTRY + 4
        /\ Operand.address < RAM_MIRROR_END /\ RamCell(Operand.address) = 255
    BY <1>2, <1>5, CopyListing, ZeroPageAt
  <2>2. LeadsTo(AUTOMATION_ENTRY + 4, A, bus.x, i, C, [r EXCEPT ![255] = 252])
    BY <1>5, <2>1, StoreRuns
  <2>3. [r EXCEPT ![255] = 252][255] = 252
    BY <1>1 DEF RAM_SIZE
  <2> QED
    BY <2>2, <2>3 DEF LeadsTo, CopyPoint, At
<1>6. CASE At(4) /\ r[255] = 252
  <2>1. Executes("lda") /\ NextAddress = AUTOMATION_ENTRY + 6 /\ M = 2
    BY <1>2, <1>6, CopyListing, ImmediateAt
  <2> QED
    BY <1>6, <2>1, LoadRuns DEF LeadsTo, CopyPoint, At
<1>7. CASE At(6) /\ r[255] = 252 /\ A = 2
  <2>1. Executes("sta") /\ NextAddress = AUTOMATION_ENTRY + 8
        /\ Operand.address < RAM_MIRROR_END /\ RamCell(Operand.address) = 0
    BY <1>2, <1>7, CopyListing, ZeroPageAt
  <2>2. LeadsTo(AUTOMATION_ENTRY + 8, A, bus.x, i, C, [r EXCEPT ![0] = 2])
    BY <1>7, <2>1, StoreRuns
  <2>3. [r EXCEPT ![0] = 2][0] = 2 /\ [r EXCEPT ![0] = 2][255] = r[255]
    BY <1>1 DEF RAM_SIZE
  <2> QED
    BY <1>7, <2>2, <2>3 DEF LeadsTo, CopyPoint, At
<1>8. CASE At(8) /\ pointer
  <2>1. Executes("ldx") /\ NextAddress = AUTOMATION_ENTRY + 10 /\ M = 0
    BY <1>2, <1>8, CopyListing, ImmediateAt
  <2> QED
    BY <1>8, <2>1, LoadRuns DEF LeadsTo, CopyPoint, At
<1>9. CASE At(10) /\ pointer /\ bus.x = 0
  <2>1. Executes("ldy") /\ NextAddress = AUTOMATION_ENTRY + 12 /\ M = 0
    BY <1>2, <1>9, CopyListing, ImmediateAt
  <2>2. LeadsTo(AUTOMATION_ENTRY + 12, A, 0, 0, C, r)
    BY <1>9, <2>1, LoadRuns
  <2>3. 0 \in 0 .. n - 1 /\ Copied(code, 0)'
    BY DEF Copied
  <2> QED
    BY <1>9, <2>2, <2>3 DEF LeadsTo, CopyPoint, At
<1>10. CASE At(12) /\ copying
  <2>1. /\ Executes("lda") /\ NextAddress = AUTOMATION_ENTRY + 15 /\ M = code[i + 1]
    <3>1. Executing(code, 12) /\ Instr(code, 12, "lda", 3, "Absolute_X")
          /\ code[14] = 0 /\ code[15] = 192
      BY <1>2, <1>10, CopyListing
    <3>2. /\ Executes("lda") /\ NextAddress = AUTOMATION_ENTRY + 15
          /\ Fetched.word = Word(192, 0)
      BY <3>1, Decoding
    <3>3. Operand.address = ToU16(Word(192, 0) + i)
      BY <1>10, <3>1, <3>2, Operands
    <3>4. i \in 0 .. 19 /\ i \in 0 .. 29 - 1 /\ Len(code) = 29
      BY <1>10, CopyListing
    <3>5. Operand.address = AUTOMATION_ENTRY + i
      BY <3>3, <3>4, CopyAddresses
    <3>6. bus \in BusState /\ bus.cartridge = CartOf(code) /\ 29 \in 1 .. 256
      BY DEF ProgramState
    <3>7. read_mem(bus, AUTOMATION_ENTRY + i) = code[i + 1]
      <4> HIDE DEF i, code
      <4> QED
        BY <3>4, <3>6, CodeByte
    <3> QED
      BY <3>2, <3>5, <3>7
  <2>2. LeadsTo(AUTOMATION_ENTRY + 15, code[i + 1], bus.x, i, C, r)
    BY <2>1, LoadRuns
  <2> QED
    BY <1>10, <2>2 DEF LeadsTo, CopyPoint, At, Copied
<1>11. CASE At(15) /\ copying /\ A = code[i + 1]
  <2> DEFINE ram == [r EXCEPT ![764 + i] = A]
  <2>1. i \in 0 .. 19
    BY <1>11
  <2>2. /\ Executes("sta") /\ NextAddress = AUTOMATION_ENTRY + 17
        /\ Operand.address < RAM_MIRROR_END /\ RamCell(Operand.address) = 764 + i
    <3>1. Executing(code, 15) /\ Instr(code, 15, "sta", 2, "Indirect_Y") /\ code[17] = 255
      BY <1>2, <1>11, CopyListing
    <3>2. /\ Executes("sta") /\ NextAddress = AUTOMATION_ENTRY + 17
          /\ Fetched.byte = 255
      BY <3>1, Decoding
    <3>3. Operand.address = ToU16(Word(2, 252) + i)
      BY <1>3, <1>11, <3>1, <3>2, Operands
    <3> QED
      BY <2>1, <3>2, <3>3, CopyAddresses
  <2>3. LeadsTo(AUTOMATION_ENTRY + 17, A, bus.x, i, C, ram)
    BY <2>2, StoreRuns
  <2>4. ram[764 + i] = A /\ \A c \in DOMAIN r \ {764 + i} : ram[c] = r[c]
    <3>1. 764 + i \in DOMAIN r /\ ram = [r EXCEPT ![764 + i] = A]
      BY <1>1, <2>1 DEF RAM_SIZE
    <3> HIDE DEF ram, i, A, r
    <3> QED
      BY <3>1, CellStored
  <2> HIDE DEF ram
  <2>5. /\ ram[255] = r[255] /\ ram[0] = r[0]
        /\ \A j \in 0 .. i - 1 : ram[764 + j] = r[764 + j] /\ ram[784 + j] = r[784 + j]
    <3> DEFINE cell == 764 + i
    <3>1. cell \in {764 + i, 784 + i} /\ \A c \in (0 .. RAM_SIZE - 1) \ {cell} : ram[c] = r[c]
      BY <1>1, <2>4
    <3>2. cell = 764 + i /\ cell \in Int
      BY <2>1
    <3> HIDE DEF i, r, cell
    <3> QED
      BY <2>1, <3>1, <3>2 DEF RAM_SIZE
  <2>6. Copied(code, i)'
    BY <1>11, <2>3, <2>5 DEF Copied, LeadsTo
  <2> QED
    BY <1>11, <2>3, <2>4, <2>5, <2>6 DEF LeadsTo, CopyPoint, At
<1>12. CASE At(17) /\ copying /\ r[764 + i] = code[i + 1]
  <2>1. i \in 0 .. 19
    BY <1>12
  <2>2. Executes("lda") /\ NextAddress = AUTOMATION_ENTRY + 19 /\ M = code[i + 1]
    <3>1. Executing(code, 17) /\ Instr(code, 17, "lda", 2, "Indirect_Y") /\ code[19] = 255
      BY <1>2, <1>12, CopyListing
    <3>2. /\ Executes("lda") /\ NextAddress = AUTOMATION_ENTRY + 19
          /\ Fetched.byte = 255
      BY <3>1, Decoding
    <3>3. Operand.address = ToU16(Word(2, 252) + i)
      BY <1>3, <1>12, <3>1, <3>2, Operands
    <3>4. M = r[764 + i]
      BY <2>1, <3>3, CopyAddresses, RamCells
    <3> QED
      BY <1>12, <3>2, <3>4
  <2>3. LeadsTo(AUTOMATION_ENTRY + 19, code[i + 1], bus.x, i, C, r)
    BY <2>2, LoadRuns
  <2> QED
    BY <1>12, <2>3 DEF LeadsTo, CopyPoint, At, Copied
<1>13. CASE At(19) /\ copying /\ r[764 + i] = code[i + 1] /\ A = code[i + 1]
  <2> DEFINE ram == [r EXCEPT ![784 + i] = A]
  <2>1. i \in 0 .. 19
    BY <1>13
  <2>2. /\ Executes("sta") /\ NextAddress = AUTOMATION_ENTRY + 22
        /\ Operand.address < RAM_MIRROR_END /\ RamCell(Operand.address) = 784 + i
    <3>1. Executing(code, 19) /\ Instr(code, 19, "sta", 3, "Absolute_Y")
          /\ code[21] = 16 /\ code[22] = 27
      BY <1>2, <1>13, CopyListing
    <3>2. /\ Executes("sta") /\ NextAddress = AUTOMATION_ENTRY + 22
          /\ Fetched.word = Word(27, 16)
      BY <3>1, Decoding
    <3>3. Operand.address = ToU16(Word(27, 16) + i)
      BY <3>1, <3>2, Operands
    <3> QED
      BY <2>1, <3>2, <3>3, CopyAddresses
  <2>3. LeadsTo(AUTOMATION_ENTRY + 22, A, bus.x, i, C, ram)
    BY <2>2, StoreRuns
  <2>4. ram[784 + i] = A /\ \A c \in DOMAIN r \ {784 + i} : ram[c] = r[c]
    <3>1. 784 + i \in DOMAIN r /\ ram = [r EXCEPT ![784 + i] = A]
      BY <1>1, <2>1 DEF RAM_SIZE
    <3> HIDE DEF ram, i, A, r
    <3> QED
      BY <3>1, CellStored
  <2> HIDE DEF ram
  <2>5. /\ ram[255] = r[255] /\ ram[0] = r[0]
        /\ ram[764 + i] = r[764 + i]
        /\ \A j \in 0 .. i - 1 : ram[764 + j] = r[764 + j] /\ ram[784 + j] = r[784 + j]
    <3> DEFINE cell == 784 + i
    <3>1. cell \in {764 + i, 784 + i} /\ \A c \in (0 .. RAM_SIZE - 1) \ {cell} : ram[c] = r[c]
      BY <1>1, <2>4
    <3>2. cell = 784 + i /\ cell \in Int
      BY <2>1
    <3> HIDE DEF i, r, cell
    <3>3. ram[255] = r[255] /\ ram[0] = r[0] /\ ram[764 + i] = r[764 + i]
      BY <2>1, <3>1, <3>2 DEF RAM_SIZE
    <3>4. \A j \in 0 .. i - 1 : ram[764 + j] = r[764 + j] /\ ram[784 + j] = r[784 + j]
      BY <2>1, <3>1, <3>2 DEF RAM_SIZE
    <3> QED
      BY <3>3, <3>4
  <2>6. \A j \in 0 .. i : ram[764 + j] = code[j + 1] /\ ram[784 + j] = code[j + 1]
    <3> TAKE j \in 0 .. i
    <3>1. CASE j = i
      BY <1>13, <2>4, <2>5, <3>1
    <3>2. CASE j # i
      <4>1. j \in 0 .. i - 1
        BY <2>1, <3>2
      <4> QED
        BY <1>13, <2>5, <4>1 DEF Copied
    <3> QED
      BY <3>1, <3>2
  <2>7. Copied(code, i + 1)' /\ bus'.y = i
    <3>1. 0 .. (i + 1) - 1 = 0 .. i
      BY <2>1
    <3>2. bus'.cpu_ram = ram /\ bus'.y = i
      BY <2>3 DEF LeadsTo
    <3>3. \A j \in 0 .. (i + 1) - 1 : ram[764 + j] = code[j + 1] /\ ram[784 + j] = code[j + 1]
      BY <2>6, <3>1
    <3>4. i' = i
      BY <3>2
    <3> HIDE DEF i
    <3> QED
      BY <3>2, <3>3, <3>4 DEF Copied
  <2> QED
    BY <1>13, <2>3, <2>5, <2>7 DEF LeadsTo, CopyPoint, At
<1>14. CASE At(22) /\ pointer /\ bus.x = i /\ i \in 0 .. n - 1 /\ Copied(code, i + 1)
  <2>1. Executes("inx") /\ NextAddress = AUTOMATION_ENTRY + 23
    BY <1>2, <1>14, CopyListing, ImpliedAt
  <2>2. ToU8(bus.x + 1) = i + 1
    BY <1>14, ByteStays
  <2>3. LeadsTo(AUTOMATION_ENTRY + 23, A, i + 1, i, C, r)
    BY <2>1, <2>2, CountRuns
  <2> QED
    BY <1>14, <2>3 DEF LeadsTo, CopyPoint, At, Copied
<1>15. CASE At(23) /\ pointer /\ bus.x = i + 1 /\ i \in 0 .. n - 1 /\ Copied(code, i + 1)
  <2>1. Executes("iny") /\ NextAddress = AUTOMATION_ENTRY + 24
    BY <1>2, <1>15, CopyListing, ImpliedAt
  <2>2. ToU8(i + 1) = i + 1 /\ i + 1 \in 1 .. n
    BY <1>15, ByteStays
  <2>3. LeadsTo(AUTOMATION_ENTRY + 24, A, bus.x, i + 1, C, r)
    BY <2>1, <2>2, CountRuns
  <2> QED
    BY <1>15, <2>2, <2>3 DEF LeadsTo, CopyPoint, At, Copied
<1>16. CASE At(24) /\ counted
  <2>1. Executes("cpy") /\ NextAddress = AUTOMATION_ENTRY + 26 /\ M = n
    BY <1>2, <1>16, CopyListing, ImmediateAt
  <2>2. /\ LeadsTo(AUTOMATION_ENTRY + 26, A, bus.x, i, i >= n, r)
        /\ ZeroFlag \in bus'.status <=> i = n
    BY <2>1, ArithmeticRuns
  <2> QED
    BY <1>16, <2>2 DEF LeadsTo, CopyPoint, At, Copied
<1>17. CASE At(26) /\ counted /\ (ZeroFlag \in bus.status <=> i = n)
  <2>1. Executes("bne") /\ NextAddress = AUTOMATION_ENTRY + 28 /\ Fetched.byte = 240
    BY <1>2, <1>17, CopyListing, RelativeAt
  <2>2. ToU16(AUTOMATION_ENTRY + 28 + SignExtend(240)) = AUTOMATION_ENTRY + 12
    BY DEF ToU16, SignExtend, Bit7, AUTOMATION_ENTRY
  <2>3. LeadsTo(AUTOMATION_ENTRY + (IF i = n THEN 28 ELSE 12), A, bus.x, i, C, r)
    BY <1>17, <2>1, <2>2, BranchRuns
  <2>4. CASE i = n
    BY <1>17, <2>3, <2>4 DEF LeadsTo, CopyPoint, At, Copied
  <2>5. CASE i # n
    <3>1. i \in 0 .. n - 1
      BY <1>17, <2>5
    <3> QED
      BY <1>17, <2>3, <2>5, <3>1 DEF LeadsTo, CopyPoint, At, Copied
  <2> QED
    BY <2>4, <2>5
<1>18. CASE At(28) /\ Copied(code, n)
  <2>1. Executes("brk")
    BY <1>2, <1>18, CopyListing, ImpliedAt
  <2>2. \A j \in 0 .. n - 1 : {764 + j, 784 + j} \subseteq (0 .. RAM_SIZE - 1) \ PageOne
    BY DEF PageOne, STACK_START, RAM_SIZE
  <2> QED
    BY <1>18, <2>1, <2>2, BrkRuns DEF Copied
<1> QED
  BY <1>4, <1>5, <1>6, <1>7, <1>8, <1>9, <1>10, <1>11, <1>12, <1>13, <1>14, <1>15, <1>16,
     <1>17, <1>18 DEF CopyPoint

CopyInv ==
  \A n \in 1 .. 20 :
    bus.cartridge = CartOf(Copy(n)) =>
      /\ Running => CopyPoint(n)
      /\ phase = "returned" => Copied(Copy(n), n)

\* Every step keeps the invariant of the copies.
LEMMA NextCopy ==
  ASSUME RowsAgree, ProgramRows, IInv, CopyInv, [Next]_vars
  PROVE  CopyInv'
<1> SUFFICES ASSUME NEW n \in 1 .. 20, bus'.cartridge = CartOf(Copy(n))
             PROVE  /\ Running' => CopyPoint(n)'
                    /\ phase' = "returned" => Copied(Copy(n), n)'
  BY DEF CopyInv
<1>1. CASE UNCHANGED vars
  <2>1. bus' = bus /\ phase' = phase
    BY <1>1 DEF vars
  <2>2. (CopyPoint(n) => CopyPoint(n)') /\ (Copied(Copy(n), n) => Copied(Copy(n), n)')
    BY <2>1 DEF CopyPoint, Copied, At
  <2> QED
    BY <2>1, <2>2 DEF CopyInv, Running
<1>2. CASE phase' = "reset"
  BY <1>2 DEF Running
<1>3. CASE phase' = "running" /\ At(0)'
  BY <1>3 DEF CopyPoint, At
<1>4. CASE Running /\ Step /\ bus \in ProgramState /\ bus'.cartridge = bus.cartridge
  <2>1. CopyPoint(n)
    BY <1>4 DEF CopyInv
  <2> QED
    BY <1>4, <2>1, CopyStep DEF Running
<1> QED
  BY <1>1, <1>2, <1>3, <1>4, Lifetime

\* For every number of bytes up to 20 the program ends with both copies of its
\* first bytes: through a pointer that wraps within the zero page, over a page
\* border, and through a mirror of RAM.
THEOREM ProgramsCopyThemselves ==
  ASSUME RowsAgree, ProgramRows
  PROVE  Spec => []CopyComputes
<1>1. Init => CopyInv
  BY DEF Init, CopyInv, Running
<1>2. CopyInv => CopyComputes
  <2> DEFINE n == Input(25)
             code == Copy(n)
  <2> SUFFICES ASSUME CopyInv, phase = "returned", bus.cartridge = CartOf(code), n \in 1 .. 20
               PROVE  \A i \in 0 .. n - 1 :
                        bus.cpu_ram[764 + i] = Input(i) /\ bus.cpu_ram[784 + i] = Input(i)
    BY DEF CopyComputes, HasRun
  <2>1. Copied(code, n)
    BY DEF CopyInv
  <2>2. Len(code) = 29
    BY DEF Copy
  <2> HIDE DEF n, code
  <2>3. \A i \in 0 .. n - 1 : Input(i) = code[i + 1]
    BY <2>2 DEF Input, PrgRom, CartOf
  <2> QED
    BY <2>1, <2>3 DEF Copied
<1> QED
  BY <1>1, <1>2, InitIInv, NextIInv, NextCopy, PTL DEF Spec

-----------------------------------------------------------------------------
(* Recursion.                                                              *)

\* TSX copies the stack pointer to X.
LEMMA TsxRuns ==
  ASSUME Executes("tsx")
  PROVE  LeadsTo(NextAddress, bus.accumulator, bus.stack_pointer, bus.y,
                 CarryFlag \in bus.status, bus.cpu_ram)
<1>1. "tsx" \in Fns \ {"brk"} /\ "tsx" \notin JumpFns \cup BranchFns /\ "tsx" \in QuietFns
  BY DEF QuietFns, Fns, TransferFns, StoreFns, RmwFns, StackFns, JumpFns, BranchFns
<1>2. /\ phase' = "running" /\ bus'.cartridge = bus.cartridge
      /\ bus'.program_counter = NextAddress /\ bus'.cpu_ram = bus.cpu_ram
      /\ Only(bus, bus', Result("tsx") \cup {"cycles"}, AffectedFlags("tsx"))
  BY <1>1, InstructionRuns
<1>3. Result("tsx") = {"x"}
  BY DEF Result, AccShiftFns
<1>4. bus'.accumulator = bus.accumulator /\ bus'.y = bus.y
  BY <1>2, <1>3 DEF Only
<1>5. CarryFlag \in Weights \ AffectedFlags("tsx")
  BY FlagsDiffer, FlagValues DEF AffectedFlags, ProgramFlags, NZ,
           TransferFns, AccShiftFns, LoadFns, IncDecFns
<1>6. CarryFlag \in bus'.status <=> CarryFlag \in bus.status
  BY <1>2, <1>5 DEF Only
<1>7. /\ Retires(Fetched, Operand, SetX(Operand.bus, bus.stack_pointer))
      /\ Operand.bus \in ProgramState /\ bus.stack_pointer \in u8
  BY ProgramFunctions, Iteration, ProgramFields DEF tsx_fn, Executes
<1>8. bus'.x = bus.stack_pointer
  BY <1>7, SetRegisterLeaves, Iteration DEF Executes
<1> QED
  BY <1>2, <1>4, <1>6, <1>8 DEF LeadsTo

\* JSR writes the two bytes of an address below the stack pointer.
LEMMA JsrRuns ==
  ASSUME Executes("jsr")
  PROVE  LET s    == bus.stack_pointer
             back == ToU16(Operand.bus.program_counter - 1)
             high == [bus.cpu_ram EXCEPT ![STACK_START + s] = HighByte(back)]
         IN  /\ LeadsTo(Operand.address, bus.accumulator, bus.x, bus.y,
                        CarryFlag \in bus.status,
                        [high EXCEPT ![STACK_START + ToU8(s - 1)] = LowByte(back)])
             /\ bus'.stack_pointer = ToU8(ToU8(s - 1) - 1)
<1> DEFINE b == Operand.bus
           a == Operand.address
           s == bus.stack_pointer
           back == ToU16(b.program_counter - 1)
           high == [bus.cpu_ram EXCEPT ![STACK_START + s] = HighByte(back)]
           ram == [high EXCEPT ![STACK_START + ToU8(s - 1)] = LowByte(back)]
           first == push_stack(b, HighByte(back))
           second == push_stack(first, LowByte(back))
<1>1. "jsr" \in Fns \ {"brk"}
  BY DEF Fns, JumpFns
<1>2. /\ phase' = "running" /\ bus'.cartridge = bus.cartridge
      /\ Only(bus, bus', Result("jsr") \cup {"cycles"}, AffectedFlags("jsr"))
  BY <1>1, InstructionRuns
<1>3. Result("jsr") = {} /\ AffectedFlags("jsr") = {}
  BY DEF Result, AffectedFlags, AccShiftFns, LoadFns, IncDecFns
<1>4. CarryFlag \in Weights
  BY FlagValues DEF ProgramFlags
<1>5. /\ bus'.accumulator = bus.accumulator /\ bus'.x = bus.x /\ bus'.y = bus.y
      /\ CarryFlag \in bus'.status <=> CarryFlag \in bus.status
  BY <1>2, <1>3, <1>4 DEF Only
<1>6. /\ Retires(Fetched, Operand, jsr_fn(b, a)) /\ b \in ProgramState /\ a \in u16
      /\ b.cpu_ram = bus.cpu_ram /\ b.stack_pointer = s /\ b \in BusState
  BY ProgramFunctions, Iteration DEF Executes, ProgramState
<1>7. back \in u16
  BY <1>6, ProgramFields, Wraps
<1>8. HighByte(back) \in u8 /\ LowByte(back) \in u8
  BY <1>7, Widths, U16
<1> HIDE DEF b, a, back
<1>9. /\ first \in BusState /\ first.cpu_ram = high
      /\ first.stack_pointer = ToU8(s - 1)
  BY <1>6, <1>8, PushShape
<1> HIDE DEF first, high
<1>10. /\ second \in BusState /\ second.cpu_ram = ram
       /\ second.stack_pointer = ToU8(ToU8(s - 1) - 1)
  BY <1>8, <1>9, PushShape
<1>11. jsr_fn(b, a) = [second EXCEPT !.program_counter = a]
  BY DEF jsr_fn, push_stack_u16, back, first
<1> HIDE DEF second, ram
<1>12. /\ jsr_fn(b, a) \in BusState /\ jsr_fn(b, a).cpu_ram = ram
       /\ jsr_fn(b, a).stack_pointer = ToU8(ToU8(s - 1) - 1)
       /\ jsr_fn(b, a).program_counter = a
  BY <1>6, <1>10, <1>11 DEF BusState
<1>13. /\ bus'.cpu_ram = ram /\ bus'.stack_pointer = ToU8(ToU8(s - 1) - 1)
       /\ bus'.program_counter = a
  BY <1>6, <1>12, RetiresKeeps DEF Kept
<1> QED
  BY <1>2, <1>5, <1>13 DEF LeadsTo, a, b, back, ram, high

\* RTS goes past the address in the two bytes above the stack pointer.
LEMMA RtsRuns ==
  ASSUME Executes("rts"), PopsLowByteFirst
  PROVE  LET s    == ToU8(bus.stack_pointer + 1)
             t    == ToU8(s + 1)
             back == Word(bus.cpu_ram[STACK_START + t], bus.cpu_ram[STACK_START + s])
         IN  /\ LeadsTo(ToU16(back + 1), bus.accumulator, bus.x, bus.y,
                        CarryFlag \in bus.status, bus.cpu_ram)
             /\ bus'.stack_pointer = t
<1> DEFINE b == Operand.bus
           a == Operand.address
           s == ToU8(bus.stack_pointer + 1)
           t == ToU8(s + 1)
           back == Word(bus.cpu_ram[STACK_START + t], bus.cpu_ram[STACK_START + s])
           first == pop_stack(b)
           second == pop_stack(first.bus)
<1>1. "rts" \in Fns \ {"brk"}
  BY DEF Fns, JumpFns
<1>2. /\ phase' = "running" /\ bus'.cartridge = bus.cartridge
      /\ Only(bus, bus', Result("rts") \cup {"cycles"}, AffectedFlags("rts"))
  BY <1>1, InstructionRuns
<1>3. Result("rts") = {} /\ AffectedFlags("rts") = {}
  BY DEF Result, AffectedFlags, AccShiftFns, LoadFns, IncDecFns
<1>4. CarryFlag \in Weights
  BY FlagValues DEF ProgramFlags
<1>5. /\ bus'.accumulator = bus.accumulator /\ bus'.x = bus.x /\ bus'.y = bus.y
      /\ CarryFlag \in bus'.status <=> CarryFlag \in bus.status
  BY <1>2, <1>3, <1>4 DEF Only
<1>6. /\ Retires(Fetched, Operand, rts_fn(b, a)) /\ b \in ProgramState /\ a \in u16
      /\ b.cpu_ram = bus.cpu_ram /\ b.stack_pointer = bus.stack_pointer /\ b \in BusState
  BY ProgramFunctions, Iteration DEF Executes, ProgramState
<1>7. s \in u8 /\ t \in u8
  BY ProgramFields, Wraps DEF Executes
<1> HIDE DEF b, a
<1>8. ASSUME NEW c \in BusState, c.cpu_ram = bus.cpu_ram,
             NEW u \in u8, u = ToU8(c.stack_pointer + 1)
      PROVE  /\ pop_stack(c).bus \in BusState /\ pop_stack(c).bus.cpu_ram = bus.cpu_ram
             /\ pop_stack(c).bus.stack_pointer = u
             /\ pop_stack(c).value = bus.cpu_ram[STACK_START + u]
  <2> DEFINE popped == [c EXCEPT !.stack_pointer = ToU8(@ + 1)]
  <2>1. popped \in BusState /\ popped.stack_pointer = u /\ popped.cpu_ram = bus.cpu_ram
    BY <1>8 DEF BusState
  <2> HIDE DEF popped
  <2>2. read_mem(popped, STACK_START + u) = bus.cpu_ram[STACK_START + u]
    BY <1>8, <2>1, StackCells, RamCells
  <2> QED
    BY <2>1, <2>2 DEF pop_stack, popped
<1> HIDE DEF s
<1>9. /\ first.bus \in BusState /\ first.bus.cpu_ram = bus.cpu_ram
      /\ first.bus.stack_pointer = s /\ first.value = bus.cpu_ram[STACK_START + s]
  BY <1>6, <1>7, <1>8 DEF s
<1> HIDE DEF first, t
<1>10. /\ second.bus \in BusState /\ second.bus.cpu_ram = bus.cpu_ram
       /\ second.bus.stack_pointer = t /\ second.value = bus.cpu_ram[STACK_START + t]
  BY <1>7, <1>8, <1>9 DEF t
<1>11. rts_fn(b, a) = [second.bus EXCEPT !.program_counter = ToU16(back + 1)]
  BY <1>9, <1>10 DEF rts_fn, pop_stack_u16, first
<1> HIDE DEF second, back
<1>12. /\ rts_fn(b, a) \in BusState
       /\ rts_fn(b, a).stack_pointer = t /\ rts_fn(b, a).cpu_ram = bus.cpu_ram
       /\ rts_fn(b, a).program_counter = ToU16(back + 1)
  <2>1. rts_fn(b, a) \in BusState
    BY <1>6, JumpType DEF ProgramState
  <2> QED
    BY <1>10, <1>11, <2>1 DEF BusState
<1>13. /\ bus'.cpu_ram = bus.cpu_ram /\ bus'.stack_pointer = t
       /\ bus'.program_counter = ToU16(back + 1)
  BY <1>6, <1>12, RetiresKeeps DEF Kept
<1> QED
  BY <1>2, <1>5, <1>13 DEF LeadsTo, back, t, s

\* The stack pointer s and the RAM r of k nested calls, of which the first is
\* the one at the offset 2 and the others those at 14.
PointerAt(k) == ToU8(253 - 2 * k)
FrameHigh(i) == STACK_START + ToU8(255 - 2 * i)
FrameLow(i)  == STACK_START + ToU8(254 - 2 * i)
ReturnLow(i) == IF i = 1 THEN 4 ELSE 16

Calls(s, r, k) ==
  /\ s = PointerAt(k)
  /\ \A i \in 1 .. k : r[FrameHigh(i)] = 192 /\ r[FrameLow(i)] = ReturnLow(i)

\* The frames of nested calls are in different cells of page one.
LEMMA FramesApart ==
  ASSUME NEW i \in 1 .. 128, NEW k \in 1 .. 128
  PROVE  /\ FrameHigh(i) \in 0 .. RAM_SIZE - 1 /\ FrameLow(i) \in 0 .. RAM_SIZE - 1
         /\ FrameHigh(i) # FrameLow(k)
         /\ i # k => FrameHigh(i) # FrameHigh(k) /\ FrameLow(i) # FrameLow(k)
<1>1. \A j \in 1 .. 128 :
        /\ FrameHigh(j) = IF j = 128 THEN 511 ELSE 511 - 2 * j
        /\ FrameLow(j) = IF j = 128 THEN 510 ELSE 510 - 2 * j
  BY DEF FrameHigh, FrameLow, STACK_START, ToU8
<1>2. \A j \in 1 .. 128 :
        FrameHigh(j) \in 0 .. RAM_SIZE - 1 /\ FrameLow(j) \in 0 .. RAM_SIZE - 1
  BY <1>1 DEF RAM_SIZE
<1>3. /\ FrameHigh(i) = IF i = 128 THEN 511 ELSE 511 - 2 * i
      /\ FrameLow(i) = IF i = 128 THEN 510 ELSE 510 - 2 * i
      /\ FrameHigh(k) = IF k = 128 THEN 511 ELSE 511 - 2 * k
      /\ FrameLow(k) = IF k = 128 THEN 510 ELSE 510 - 2 * k
  BY <1>1
<1>4. FrameHigh(i) # FrameLow(k)
  BY <1>3
<1>5. i # k => FrameHigh(i) # FrameHigh(k) /\ FrameLow(i) # FrameLow(k)
  BY <1>3
<1> QED
  BY <1>2, <1>4, <1>5

\* Where the stack pointer goes around a call.
LEMMA CallWraps ==
  ASSUME NEW k \in 1 .. 128
  PROVE  LET s == PointerAt(k - 1)
             t == PointerAt(k)
         IN  /\ STACK_START + s = FrameHigh(k)
             /\ STACK_START + ToU8(s - 1) = FrameLow(k)
             /\ ToU8(ToU8(s - 1) - 1) = t
             /\ STACK_START + ToU8(t + 1) = FrameLow(k)
             /\ STACK_START + ToU8(ToU8(t + 1) + 1) = FrameHigh(k)
             /\ ToU8(ToU8(t + 1) + 1) = s
<1> DEFINE s == PointerAt(k - 1)
           t == PointerAt(k)
<1>1. /\ s = IF k = 128 THEN 255 ELSE 255 - 2 * k
      /\ t = IF k = 128 THEN 253 ELSE IF k = 127 THEN 255 ELSE 253 - 2 * k
      /\ ToU8(255 - 2 * k) = s
      /\ ToU8(254 - 2 * k) = IF k = 128 THEN 254 ELSE 254 - 2 * k
  BY DEF PointerAt, ToU8
<1> HIDE DEF s, t
<1>2. ToU8(s - 1) = ToU8(254 - 2 * k) /\ ToU8(t + 1) = ToU8(254 - 2 * k)
  BY <1>1 DEF ToU8
<1>3. ToU8(ToU8(s - 1) - 1) = t /\ ToU8(ToU8(t + 1) + 1) = s
  BY <1>1, <1>2 DEF ToU8
<1> QED
  BY <1>1, <1>2, <1>3 DEF FrameHigh, FrameLow, s, t

\* A call adds a frame.
LEMMA CallMade ==
  ASSUME NEW k \in 1 .. 128, NEW r, DOMAIN r = 0 .. RAM_SIZE - 1,
         NEW s, Calls(s, r, k - 1)
  PROVE  LET high == [r EXCEPT ![STACK_START + s] = 192]
             ram  == [high EXCEPT ![STACK_START + ToU8(s - 1)] = ReturnLow(k)]
         IN  Calls(ToU8(ToU8(s - 1) - 1), ram, k)
<1> DEFINE high == [r EXCEPT ![STACK_START + s] = 192]
           ram  == [high EXCEPT ![STACK_START + ToU8(s - 1)] = ReturnLow(k)]
           h    == FrameHigh(k)
           l    == FrameLow(k)
<1>1. /\ STACK_START + s = h /\ STACK_START + ToU8(s - 1) = l
      /\ ToU8(ToU8(s - 1) - 1) = PointerAt(k)
  BY CallWraps DEF Calls
<1>2. h \in DOMAIN r /\ l \in DOMAIN r /\ h # l
  BY FramesApart
<1>3. /\ ram[h] = 192 /\ ram[l] = ReturnLow(k)
      /\ \A c \in DOMAIN r : c # h /\ c # l => ram[c] = r[c]
  <2>1. ram = [[r EXCEPT ![h] = 192] EXCEPT ![l] = ReturnLow(k)]
    BY <1>1
  <2> HIDE DEF ram, h, l
  <2> QED
    BY <1>2, <2>1
<1> HIDE DEF ram
<1>4. ASSUME NEW i \in 1 .. k
      PROVE  ram[FrameHigh(i)] = 192 /\ ram[FrameLow(i)] = ReturnLow(i)
  <2>1. CASE i = k
    BY <1>3, <2>1
  <2>2. CASE i # k
    <3>1. i \in 1 .. k - 1 /\ i \in 1 .. 128
      BY <2>2
    <3>2. /\ FrameHigh(i) \in DOMAIN r /\ FrameLow(i) \in DOMAIN r
          /\ FrameHigh(i) # h /\ FrameHigh(i) # l /\ FrameLow(i) # h /\ FrameLow(i) # l
      BY <2>2, <3>1, FramesApart
    <3> HIDE DEF h, l
    <3> QED
      BY <1>3, <3>1, <3>2 DEF Calls
  <2> QED
    BY <2>1, <2>2
<1> QED
  BY <1>1, <1>4 DEF Calls, ram

\* A return finds the frame of the last call.
LEMMA CallReturns ==
  ASSUME NEW k \in 1 .. 128, NEW r, NEW s, Calls(s, r, k)
  PROVE  LET t == ToU8(s + 1)
             u == ToU8(t + 1)
         IN  /\ r[STACK_START + t] = ReturnLow(k) /\ r[STACK_START + u] = 192
             /\ Calls(u, r, k - 1)
<1> DEFINE t == ToU8(s + 1)
           u == ToU8(t + 1)
<1>1. STACK_START + t = FrameLow(k) /\ STACK_START + u = FrameHigh(k)
      /\ u = PointerAt(k - 1)
  BY CallWraps DEF Calls
<1> HIDE DEF t, u
<1>2. k \in 1 .. k /\ \A i \in 1 .. k - 1 : i \in 1 .. k
  OBVIOUS
<1> QED
  BY <1>1, <1>2 DEF Calls, t, u

\* What holds at each instruction of Recursion(d).
RecursionPoint(d) ==
  LET x == bus.x
      y == bus.y
      r == bus.cpu_ram
      calls(k) == Calls(bus.stack_pointer, r, k)
  IN  \/ At(0)  /\ y = 0 /\ calls(0)
      \/ At(2)  /\ x = d /\ y = 0 /\ calls(0)
      \/ At(11) /\ x \in 1 .. d /\ y = 0 /\ calls(d + 1 - x)
      \/ At(12) /\ x \in 0 .. d - 1 /\ y = 0 /\ calls(d - x)
                /\ (ZeroFlag \in bus.status <=> x = 0)
      \/ At(14) /\ x \in 1 .. d - 1 /\ y = 0 /\ calls(d - x)
      \/ At(17) /\ y \in 0 .. d - 2 /\ calls(d - 1 - y)
      \/ At(18) /\ y \in 0 .. d - 1 /\ calls(d - y)
      \/ At(5)  /\ y = d - 1 /\ calls(0)
      \/ At(7)  /\ r[2] = d - 1 /\ calls(0)
      \/ At(8)  /\ r[2] = d - 1 /\ x = 253
      \/ At(10) /\ r[2] = d - 1 /\ r[3] = 253

\* The instructions of the program and their operands, from its bytes.
LEMMA RecursionListing ==
  ASSUME NEW d, ProgramRows
  PROVE  LET code == Recursion(d)
             instr(p, fn, bytes, mode) == Instr(code, p, fn, bytes, mode)
         IN  /\ instr(0, "ldx", 2, "Immediate") /\ code[2] = d
             /\ instr(2, "jsr", 3, "Absolute") /\ code[4] = 11 /\ code[5] = 192
             /\ instr(5, "sty", 2, "ZeroPage") /\ code[7] = 2
             /\ instr(7, "tsx", 1, "Implied")
             /\ instr(8, "stx", 2, "ZeroPage") /\ code[10] = 3
             /\ instr(10, "brk", 1, "Implied")
             /\ instr(11, "dex", 1, "Implied")
             /\ instr(12, "beq", 2, "Relative") /\ code[14] = 4
             /\ instr(14, "jsr", 3, "Absolute") /\ code[16] = 11 /\ code[17] = 192
             /\ instr(17, "iny", 1, "Implied") /\ instr(18, "rts", 1, "Implied")
<1> DEFINE code == Recursion(d)
<1>1. Len(code) = 19
  BY DEF Recursion
<1>2. /\ code[1] = 162 /\ code[2] = d /\ code[3] = 32 /\ code[4] = 11 /\ code[5] = 192
      /\ code[6] = 132 /\ code[7] = 2 /\ code[8] = 186 /\ code[9] = 134 /\ code[10] = 3
      /\ code[11] = 0 /\ code[12] = 202 /\ code[13] = 240 /\ code[14] = 4
      /\ code[15] = 32 /\ code[16] = 11 /\ code[17] = 192 /\ code[18] = 200 /\ code[19] = 96
  BY DEF Recursion
<1>3. /\ Row(162, "ldx", 2, "Immediate") /\ Row(32, "jsr", 3, "Absolute")
      /\ Row(132, "sty", 2, "ZeroPage") /\ Row(186, "tsx", 1, "Implied")
      /\ Row(134, "stx", 2, "ZeroPage") /\ Row(0, "brk", 1, "Implied")
      /\ Row(202, "dex", 1, "Implied") /\ Row(240, "beq", 2, "Relative")
      /\ Row(200, "iny", 1, "Implied") /\ Row(96, "rts", 1, "Implied")
  BY DEF ProgramRows
<1> HIDE DEF code
<1>4. /\ Instr(code, 0, "ldx", 2, "Immediate") /\ Instr(code, 2, "jsr", 3, "Absolute")
      /\ Instr(code, 5, "sty", 2, "ZeroPage") /\ Instr(code, 7, "tsx", 1, "Implied")
      /\ Instr(code, 8, "stx", 2, "ZeroPage") /\ Instr(code, 10, "brk", 1, "Implied")
      /\ Instr(code, 11, "dex", 1, "Implied") /\ Instr(code, 12, "beq", 2, "Relative")
      /\ Instr(code, 14, "jsr", 3, "Absolute") /\ Instr(code, 17, "iny", 1, "Implied")
      /\ Instr(code, 18, "rts", 1, "Implied")
  BY <1>1, <1>2, <1>3 DEF Instr
<1> QED
  BY <1>2, <1>4 DEF code

\* A call in the program adds a frame with the address of its last byte.
LEMMA CallAt ==
  ASSUME NEW code, NEW p \in {2, 14}, Executing(code, p),
         Instr(code, p, "jsr", 3, "Absolute"), code[p + 2] = 11, code[p + 3] = 192,
         NEW k \in 1 .. 128, ReturnLow(k) = p + 2,
         Calls(bus.stack_pointer, bus.cpu_ram, k - 1)
  PROVE  /\ LeadsTo(AUTOMATION_ENTRY + 11, bus.accumulator, bus.x, bus.y,
                    CarryFlag \in bus.status, bus'.cpu_ram)
         /\ Calls(bus'.stack_pointer, bus'.cpu_ram, k)
<1> DEFINE s    == bus.stack_pointer
           back == ToU16(Operand.bus.program_counter - 1)
           high == [bus.cpu_ram EXCEPT ![STACK_START + s] = 192]
           ram  == [high EXCEPT ![STACK_START + ToU8(s - 1)] = ReturnLow(k)]
<1>1. /\ Executes("jsr") /\ Fetched.addressing_mode = "Absolute"
      /\ Operand.address = Word(192, 11)
  BY Decoding, AbsoluteAt
<1>2. bus \in ProgramState /\ bus.program_counter = AUTOMATION_ENTRY + p
  BY DEF Executing
<1>3. back = AUTOMATION_ENTRY + p + 2
  <2>1. Operand.bus.program_counter = ToU16(ToU16(AUTOMATION_ENTRY + p + 1) + 2)
    BY <1>1, <1>2, OperandKeeps DEF OperandBytes
  <2>2. ToU16(ToU16(ToU16(AUTOMATION_ENTRY + p + 1) + 2) - 1) = AUTOMATION_ENTRY + p + 2
    BY DEF ToU16, AUTOMATION_ENTRY
  <2> QED
    BY <2>1, <2>2
<1>4. HighByte(back) = 192 /\ LowByte(back) = ReturnLow(k)
  BY <1>3 DEF HighByte, LowByte, AUTOMATION_ENTRY
<1>5. Word(192, 11) = AUTOMATION_ENTRY + 11
  BY DEF Word, AUTOMATION_ENTRY
<1>6. /\ LeadsTo(AUTOMATION_ENTRY + 11, bus.accumulator, bus.x, bus.y,
                 CarryFlag \in bus.status, ram)
      /\ bus'.stack_pointer = ToU8(ToU8(s - 1) - 1)
  <2> HIDE DEF back
  <2> QED
    BY <1>1, <1>4, <1>5, JsrRuns DEF back
<1>7. Calls(ToU8(ToU8(s - 1) - 1), ram, k)
  BY <1>2, CallMade DEF ProgramState, BusState
<1> HIDE DEF ram
<1> QED
  BY <1>6, <1>7 DEF LeadsTo

\* A return goes behind the last call.
LEMMA ReturnAt ==
  ASSUME Executes("rts"), PopsLowByteFirst,
         NEW k \in 1 .. 128, Calls(bus.stack_pointer, bus.cpu_ram, k)
  PROVE  /\ LeadsTo(AUTOMATION_ENTRY + (IF k = 1 THEN 5 ELSE 17), bus.accumulator,
                    bus.x, bus.y, CarryFlag \in bus.status, bus.cpu_ram)
         /\ Calls(bus'.stack_pointer, bus.cpu_ram, k - 1)
<1>1. ToU16(Word(192, ReturnLow(k)) + 1) = AUTOMATION_ENTRY + (IF k = 1 THEN 5 ELSE 17)
  BY DEF ToU16, Word, ReturnLow, AUTOMATION_ENTRY
<1> QED
  BY <1>1, RtsRuns, CallReturns

\* The other instructions of the program leave the stack pointer.
LEMMA PointerStays ==
  ASSUME NEW fn \in {"ldx", "sty", "stx", "tsx", "dex", "beq", "iny"}, Executes(fn)
  PROVE  bus'.stack_pointer = bus.stack_pointer
  BY StepKeepsStackPointer DEF MovesStackPointer, StackFns, Executes

\* A step of the program from an instruction to the next.
LEMMA RecursionStep ==
  ASSUME NEW d \in 1 .. 128, RowsAgree, ProgramRows, PopsLowByteFirst,
         bus \in ProgramState, Step, bus.cartridge = CartOf(Recursion(d)),
         RecursionPoint(d)
  PROVE  \/ phase' = "running" /\ RecursionPoint(d)'
         \/ phase' = "returned" /\ bus'.cpu_ram[2] = d - 1 /\ bus'.cpu_ram[3] = 253
<1> DEFINE code == Recursion(d)
           A == bus.accumulator
           x == bus.x
           y == bus.y
           r == bus.cpu_ram
           s == bus.stack_pointer
           M == read_mem(bus, Operand.address)
           C == CarryFlag \in bus.status
           calls(k) == Calls(s, r, k)
<1>1. DOMAIN r = 0 .. RAM_SIZE - 1 /\ 2 \in 0 .. RAM_SIZE - 1 /\ 3 \in 0 .. RAM_SIZE - 1
  BY DEF ProgramState, BusState, RAM_SIZE
<1>2. \A p : At(p) => Executing(code, p)
  BY DEF At, Executing
<1>3. CASE At(0) /\ y = 0 /\ calls(0)
  <2>1. Executes("ldx") /\ NextAddress = AUTOMATION_ENTRY + 2 /\ M = d
    BY <1>2, <1>3, RecursionListing, ImmediateAt
  <2> QED
    BY <1>3, <2>1, LoadRuns, PointerStays DEF LeadsTo, RecursionPoint, At
<1>4. CASE At(2) /\ x = d /\ y = 0 /\ calls(0)
  <2>1. Executing(code, 2) /\ Instr(code, 2, "jsr", 3, "Absolute")
        /\ code[2 + 2] = 11 /\ code[2 + 3] = 192
    BY <1>2, <1>4, RecursionListing
  <2>2. ReturnLow(1) = 2 + 2 /\ calls(1 - 1)
    BY <1>4 DEF ReturnLow
  <2>3. /\ LeadsTo(AUTOMATION_ENTRY + 11, A, x, y, C, bus'.cpu_ram)
        /\ Calls(bus'.stack_pointer, bus'.cpu_ram, 1)
    BY <2>1, <2>2, CallAt
  <2>4. d \in 1 .. d /\ d + 1 - d = 1
    OBVIOUS
  <2> QED
    BY <1>4, <2>3, <2>4 DEF LeadsTo, RecursionPoint, At
<1>5. CASE At(11) /\ x \in 1 .. d /\ y = 0 /\ calls(d + 1 - x)
  <2>1. Executes("dex") /\ NextAddress = AUTOMATION_ENTRY + 12
    BY <1>2, <1>5, RecursionListing, ImpliedAt
  <2>2. ToU8(x - 1) = x - 1 /\ x - 1 \in 0 .. d - 1 /\ d - (x - 1) = d + 1 - x
    BY <1>5, ByteStays
  <2>3. /\ LeadsTo(AUTOMATION_ENTRY + 12, A, x - 1, y, C, r)
        /\ ZeroFlag \in bus'.status <=> x - 1 = 0
    BY <2>1, <2>2, CountRuns
  <2> QED
    BY <1>5, <2>1, <2>2, <2>3, PointerStays DEF LeadsTo, RecursionPoint, At
<1>6. CASE /\ At(12) /\ x \in 0 .. d - 1 /\ y = 0 /\ calls(d - x)
           /\ (ZeroFlag \in bus.status <=> x = 0)
  <2>1. Executes("beq") /\ NextAddress = AUTOMATION_ENTRY + 14 /\ Fetched.byte = 4
    BY <1>2, <1>6, RecursionListing, RelativeAt
  <2>2. ToU16(AUTOMATION_ENTRY + 14 + SignExtend(4)) = AUTOMATION_ENTRY + 18
    BY DEF ToU16, SignExtend, Bit7, AUTOMATION_ENTRY
  <2>3. LeadsTo(AUTOMATION_ENTRY + (IF x = 0 THEN 18 ELSE 14), A, x, y, C, r)
    BY <1>6, <2>1, <2>2, BranchRuns
  <2>4. CASE x = 0
    <3>1. d - x = d - y /\ y \in 0 .. d - 1
      BY <1>6, <2>4
    <3> QED
      BY <1>6, <2>1, <2>3, <2>4, <3>1, PointerStays DEF LeadsTo, RecursionPoint, At
  <2>5. CASE x # 0
    <3>1. x \in 1 .. d - 1
      BY <1>6, <2>5
    <3> QED
      BY <1>6, <2>1, <2>3, <2>5, <3>1, PointerStays DEF LeadsTo, RecursionPoint, At
  <2> QED
    BY <2>4, <2>5
<1>7. CASE At(14) /\ x \in 1 .. d - 1 /\ y = 0 /\ calls(d - x)
  <2> DEFINE k == d + 1 - x
  <2>1. Executing(code, 14) /\ Instr(code, 14, "jsr", 3, "Absolute")
        /\ code[14 + 2] = 11 /\ code[14 + 3] = 192
    BY <1>2, <1>7, RecursionListing
  <2>2. k \in 2 .. 128 /\ k - 1 = d - x
    BY <1>7
  <2>3. k \in 1 .. 128 /\ calls(k - 1) /\ x \in 1 .. d
    BY <1>7, <2>2
  <2> HIDE DEF k
  <2>4. ReturnLow(k) = 14 + 2
    BY <2>2 DEF ReturnLow
  <2>5. /\ LeadsTo(AUTOMATION_ENTRY + 11, A, x, y, C, bus'.cpu_ram)
        /\ Calls(bus'.stack_pointer, bus'.cpu_ram, k)
    BY <2>1, <2>3, <2>4, CallAt
  <2> QED
    BY <1>7, <2>3, <2>5 DEF LeadsTo, RecursionPoint, At, k
<1>8. CASE At(17) /\ y \in 0 .. d - 2 /\ calls(d - 1 - y)
  <2>1. Executes("iny") /\ NextAddress = AUTOMATION_ENTRY + 18
    BY <1>2, <1>8, RecursionListing, ImpliedAt
  <2>2. ToU8(y + 1) = y + 1 /\ y + 1 \in 0 .. d - 1 /\ d - (y + 1) = d - 1 - y
    BY <1>8, ByteStays
  <2>3. LeadsTo(AUTOMATION_ENTRY + 18, A, x, y + 1, C, r)
    BY <2>1, <2>2, CountRuns
  <2> QED
    BY <1>8, <2>1, <2>2, <2>3, PointerStays DEF LeadsTo, RecursionPoint, At
<1>9. CASE At(18) /\ y \in 0 .. d - 1 /\ calls(d - y)
  <2> DEFINE k == d - y
  <2>1. Executes("rts")
    BY <1>2, <1>9, RecursionListing, ImpliedAt
  <2>2. /\ k \in 1 .. 128 /\ k - 1 = d - 1 - y
        /\ k = 1 => k - 1 = 0 /\ y = d - 1
        /\ k # 1 => y \in 0 .. d - 2
    BY <1>9
  <2>3. calls(k)
    BY <1>9
  <2> HIDE DEF k
  <2>4. /\ LeadsTo(AUTOMATION_ENTRY + (IF k = 1 THEN 5 ELSE 17), A, x, y, C, r)
        /\ Calls(bus'.stack_pointer, r, k - 1)
    BY <2>1, <2>2, <2>3, ReturnAt
  <2>5. CASE k = 1
    BY <2>2, <2>4, <2>5 DEF LeadsTo, RecursionPoint, At
  <2>6. CASE k # 1
    BY <2>2, <2>4, <2>6 DEF LeadsTo, RecursionPoint, At
  <2> QED
    BY <2>5, <2>6
<1>10. CASE At(5) /\ y = d - 1 /\ calls(0)
  <2>1. Executes("sty") /\ NextAddress = AUTOMATION_ENTRY + 7
        /\ Operand.address < RAM_MIRROR_END /\ RamCell(Operand.address) = 2
    BY <1>2, <1>10, RecursionListing, ZeroPageAt
  <2>2. LeadsTo(AUTOMATION_ENTRY + 7, A, x, y, C, [r EXCEPT ![2] = y])
    BY <2>1, StoreRuns
  <2>3. [r EXCEPT ![2] = y][2] = y
    BY <1>1
  <2>4. Calls(s, [r EXCEPT ![2] = y], 0)
    BY <1>10 DEF Calls
  <2> QED
    BY <1>10, <2>1, <2>2, <2>3, <2>4, PointerStays DEF LeadsTo, RecursionPoint, At
<1>11. CASE At(7) /\ r[2] = d - 1 /\ calls(0)
  <2>1. Executes("tsx") /\ NextAddress = AUTOMATION_ENTRY + 8
    BY <1>2, <1>11, RecursionListing, ImpliedAt
  <2>2. s = 253
    BY <1>11 DEF Calls, PointerAt, ToU8
  <2> QED
    BY <1>11, <2>1, <2>2, TsxRuns DEF LeadsTo, RecursionPoint, At
<1>12. CASE At(8) /\ r[2] = d - 1 /\ x = 253
  <2>1. Executes("stx") /\ NextAddress = AUTOMATION_ENTRY + 10
        /\ Operand.address < RAM_MIRROR_END /\ RamCell(Operand.address) = 3
    BY <1>2, <1>12, RecursionListing, ZeroPageAt
  <2>2. LeadsTo(AUTOMATION_ENTRY + 10, A, x, y, C, [r EXCEPT ![3] = 253])
    BY <1>12, <2>1, StoreRuns
  <2>3. [r EXCEPT ![3] = 253][3] = 253 /\ [r EXCEPT ![3] = 253][2] = r[2]
    BY <1>1 DEF RAM_SIZE
  <2> QED
    BY <1>12, <2>2, <2>3 DEF LeadsTo, RecursionPoint, At
<1>13. CASE At(10) /\ r[2] = d - 1 /\ r[3] = 253
  <2>1. Executes("brk")
    BY <1>2, <1>13, RecursionListing, ImpliedAt
  <2>2. {2, 3} \subseteq (0 .. RAM_SIZE - 1) \ PageOne
    BY DEF PageOne, STACK_START, RAM_SIZE
  <2> QED
    BY <1>13, <2>1, <2>2, BrkRuns
<1> QED
  BY <1>3, <1>4, <1>5, <1>6, <1>7, <1>8, <1>9, <1>10, <1>11, <1>12, <1>13 DEF RecursionPoint

RecursionInv ==
  /\ phase = "reset" => bus.y = 0 /\ bus.stack_pointer = 253
  /\ \A d \in 1 .. Frames :
       bus.cartridge = CartOf(Recursion(d)) =>
         /\ Running => RecursionPoint(d)
         /\ phase = "returned" => bus.cpu_ram[2] = d - 1 /\ bus.cpu_ram[3] = 253

\* cpu_reset puts the stack pointer where the first call finds it.
LEMMA ResetLeaves ==
  ASSUME NEW b \in BusState
  PROVE  cpu_reset(b).y = 0 /\ cpu_reset(b).stack_pointer = 253
<1> DEFINE reset == [b EXCEPT !.accumulator = 0, !.x = 0, !.y = 0,
                              !.status = {UnusedFlag, InterruptDisable},
                              !.stack_pointer = 253,
                              !.program_counter = read_mem_u16(b, RESET_VECTOR)]
<1>1. cpu_reset(b) = tick(reset, 7)
  BY DEF cpu_reset
<1>2. DOMAIN b = DOMAIN reset /\ "y" \in DOMAIN reset /\ "stack_pointer" \in DOMAIN reset
      /\ "cycles" \in DOMAIN reset /\ reset.y = 0 /\ reset.stack_pointer = 253
  BY DEF BusState
<1> HIDE DEF reset
<1> QED
  BY <1>1, <1>2 DEF tick

\* Every step keeps the invariant of the recursions.
LEMMA NextRecursion ==
  ASSUME RowsAgree, ProgramRows, PopsLowByteFirst, IInv, RecursionInv, [Next]_vars
  PROVE  RecursionInv'
<1>1. CASE UNCHANGED vars
  BY <1>1 DEF vars, RecursionInv, RecursionPoint, At, Running
<1>2. CASE BusReset
  <2>1. bus \in BusState /\ bus' = cpu_reset(bus) /\ phase' = "reset"
    BY <1>2 DEF BusReset, IInv, TypeOK
  <2> QED
    BY <2>1, ResetLeaves DEF RecursionInv, Running
<1>3. CASE Start
  <2>1. /\ bus \in BusState /\ phase' = "running"
        /\ bus' = [bus EXCEPT !.program_counter = AUTOMATION_ENTRY]
        /\ bus.y = 0 /\ bus.stack_pointer = 253
    BY <1>3 DEF Start, RecursionInv, IInv, TypeOK
  <2>2. At(0)' /\ bus'.y = 0 /\ bus'.stack_pointer = 253
    BY <2>1 DEF At, BusState, AUTOMATION_ENTRY
  <2>3. Calls(253, bus'.cpu_ram, 0)
    BY DEF Calls, PointerAt, ToU8
  <2> QED
    BY <2>1, <2>2, <2>3 DEF RecursionInv, RecursionPoint
<1>4. CASE Step
  <2>1. Running /\ bus \in ProgramState /\ bus'.cartridge = bus.cartridge
    <3>1. Running
      BY <1>4 DEF Step, Load, Store, Transfer, Alu, IncDec, Shift, ReadModifyWrite, Branch, Jump,
                  Stack, Flag, Empty, Execute, Dispatches, Running
    <3>2. bus \in ProgramState
      BY <3>1, RunningType DEF Running
    <3> QED
      BY <1>4, <3>1, <3>2, StepKeepsCartridge DEF SameCartridge
  <2>2. phase' \in {"running", "returned"}
    <3>1. CASE Jump /\ Fetched.fn = "brk"
      BY <2>1, <3>1, BrkStep
    <3>2. CASE ~(Jump /\ Fetched.fn = "brk")
      BY <1>4, <2>1, <3>2, LoadsStep, StoreStep, TransferStep, AluStep, IncDecStep, ShiftStep,
         ReadModifyWriteStep, BranchStep, JumpStep, StackStep, FlagStep, EmptyStep
         DEF Step, Continues
    <3> QED
      BY <3>1, <3>2
  <2> SUFFICES ASSUME NEW d \in 1 .. 128, bus'.cartridge = CartOf(Recursion(d))
               PROVE  /\ Running' => RecursionPoint(d)'
                      /\ phase' = "returned" => bus'.cpu_ram[2] = d - 1 /\ bus'.cpu_ram[3] = 253
    BY <2>2 DEF RecursionInv, Frames
  <2>3. RecursionPoint(d)
    BY <2>1 DEF RecursionInv, Frames
  <2> QED
    BY <1>4, <2>1, <2>3, RecursionStep DEF Running
<1> QED
  BY <1>1, <1>2, <1>3, <1>4 DEF Next, Stopped, vars

\* Every recursion up to the 128 frames that page one holds comes back through
\* all its frames, at 128 with the stack pointer around the whole page.
THEOREM FittingRecursionsUnwind ==
  ASSUME RowsAgree, ProgramRows, PopsLowByteFirst
  PROVE  Spec => []RecursionUnwinds
<1>1. Init => RecursionInv
  BY DEF Init, RecursionInv, Running
<1>2. RecursionInv => RecursionUnwinds
  BY DEF RecursionInv, RecursionUnwinds, HasRun
<1> QED
  BY <1>1, <1>2, InitIInv, NextIInv, NextRecursion, PTL DEF Spec

\* ProgramsCompute, for all inputs of all six programs.
THEOREM ProgramsComputeTheirResults ==
  ASSUME RowsAgree, ProgramRows, PopsLowByteFirst
  PROVE  Spec => []ProgramsCompute
<1>1. ProgramsCompute <=> /\ AdditionComputes /\ ProductComputes /\ QuotientComputes
                          /\ CopyComputes /\ JumpArrives /\ RecursionUnwinds
  BY DEF ProgramsCompute
<1> QED
  BY <1>1, RepeatedAdditionMultiplies, ShiftsMultiply, SubtractionsDivide, ProgramsCopyThemselves,
     VectorsStayInTheirPage, FittingRecursionsUnwind, PTL
=============================================================================
