------------------------------- MODULE Trace -------------------------------
(***************************************************************************)
(* disassemble_cpu, which run_cpu calls before it executes an instruction: *)
(* the line of the trace, with the numbers it shows of the operand.  The   *)
(* address of the operand comes from a get_operand_address of its own,     *)
(* while the program counter is still that of the opcode.                  *)
(*                                                                         *)
(* Nothing here changes the state; the properties compare the line with    *)
(* the step that the CPU then takes.                                       *)
(***************************************************************************)
EXTENDS CPUProperties

\* Mutant: the last column of undocumented opcodes is forgotten.
opcode_is_illegal_NoF(code) ==
  \/ code % 4 = 3 /\ code % 16 # 15
  \/ code % 16 = 2 /\ code # \hA2
  \/ code \in {\h04, \h44, \h64, \h14, \h34, \h54, \h74, \hD4, \hF4, \h80, \h89,
               \h1A, \h3A, \h5A, \h7A, \hDA, \hFA, \h0C, \h9C, \h9E,
               \h1C, \h3C, \h5C, \h7C, \hDC, \hFC}

\* The 105 cases of the switch.
opcode_is_illegal(code) ==
  \/ code % 4 = 3
  \/ code % 16 = 2 /\ code # \hA2
  \/ code \in {\h04, \h44, \h64, \h14, \h34, \h54, \h74, \hD4, \hF4, \h80, \h89,
               \h1A, \h3A, \h5A, \h7A, \hDA, \hFA, \h0C, \h9C, \h9E,
               \h1C, \h3C, \h5C, \h7C, \hDC, \hFC}

\* A word of the zero page, whose second byte the code masks to that page.
\* Mutant: it does not.
TracePointer_NoMask(ptr) == Word(read_mem(bus, ptr + 1), read_mem(bus, ptr))
TracePointer(ptr) == Word(read_mem(bus, ToU8(ptr + 1)), read_mem(bus, ptr))

\* The vector's second byte is in its page.
TraceVector(word) ==
  Word(read_mem(bus, IF LowByte(word) = \hFF THEN word - \hFF ELSE ToU16(word + 1)),
       read_mem(bus, word))

\* The second get_operand_address.
TraceAddress(opcode) ==
  LET mode == opcode.addressing_mode
  IN CASE mode = "Absolute"   -> opcode.word
       [] mode = "Absolute_X" -> ToU16(opcode.word + bus.x)
       [] mode = "Absolute_Y" -> ToU16(opcode.word + bus.y)
       [] mode = "Immediate"  -> bus.program_counter
       [] mode = "ZeroPage"   -> opcode.byte
       [] mode = "ZeroPage_X" -> ToU8(opcode.byte + bus.x)
       [] mode = "ZeroPage_Y" -> ToU8(opcode.byte + bus.y)
       [] mode = "Indirect"   -> TraceVector(opcode.word)
       [] mode = "Indirect_X" -> TracePointer(ToU8(opcode.byte + bus.x))
       [] mode = "Indirect_Y" -> ToU16(TracePointer(opcode.byte) + bus.y)
       [] mode = "Relative" ->
            IF Bit7(opcode.byte) THEN \hFF00 + opcode.byte ELSE opcode.byte
       [] OTHER -> 0

\* The number in the column of the operand: behind the last @ or = where the
\* mode has one.
\* Mutant: the target of a branch is counted from the operand byte.
TraceOperand_From1(opcode) ==
  CASE opcode.addressing_mode = "Immediate" -> opcode.byte
    [] opcode.addressing_mode = "Relative" ->
         ToU16(bus.program_counter + 1 + TraceAddress(opcode))
    [] OTHER -> TraceAddress(opcode)

TraceOperand(opcode) ==
  CASE opcode.addressing_mode = "Immediate" -> opcode.byte
    [] opcode.addressing_mode = "Relative" ->
         ToU16(bus.program_counter + 2 + TraceAddress(opcode))
    [] OTHER -> TraceAddress(opcode)

\* The address an index is added to, in the modes that show one: the pointer
\* of (zp),Y, and the zero page address of (zp,X).
TraceBase(opcode) ==
  CASE opcode.addressing_mode = "Indirect_Y" -> TracePointer(opcode.byte)
    [] opcode.addressing_mode = "Indirect_X" -> ToU8(opcode.byte + bus.x)
    [] OTHER -> opcode.word

\* The instructions whose line ends with the byte at the operand's address.
TracesValue(opcode) ==
  /\ opcode.addressing_mode \notin {"Immediate", "Accumulator", "Implied"}
  /\ Instruction(opcode.fn) \in StoreFns \cup LoadFns \cup AluFns \cup RmwFns \cup {"nop"}

\* Mutant: the byte where the index is added to.
TraceValue_AtBase(opcode) == read_mem(bus, TraceBase(opcode))
TraceValue(opcode) == read_mem(bus, TraceAddress(opcode))

\* The columns of the line for the instruction at the program counter.
Line ==
  [at      |-> bus.program_counter,
   marked  |-> opcode_is_illegal(read_mem(bus, bus.program_counter)),
   operand |-> TraceOperand(Fetched),
   base    |-> TraceBase(Fetched),
   value   |-> TraceValue(Fetched)]

-----------------------------------------------------------------------------
(* Properties.                                                             *)

\* The two copies of get_operand_address agree, although one runs before and
\* the other after the program counter has moved: the address that the line
\* shows, and at which it reads the value it shows, is the one handed to the
\* instruction function.  An immediate operand has no address in the line.
CopiesAgree ==
  phase = "running" /\ Fetched.addressing_mode # "Immediate" =>
    TraceAddress(Fetched) = Operand.address

\* The number in the operand's column is the one the step acts on: the byte
\* of an immediate operand, the target to which a branch or a jump goes.
OperandIsUsed ==
  CASE Fetched.addressing_mode = "Immediate" ->
         Line.operand = read_mem(bus, Operand.address)
    [] Fetched.addressing_mode = "Relative" ->
         bus'.program_counter \in {NextAddress, Line.operand}
    [] Fetched.fn \in {"jmp", "jsr"} -> Line.operand = bus'.program_counter
    [] OTHER -> TRUE

\* An index is added to the base the line shows, unless it was added already.
BaseIsUsed ==
  CASE Fetched.addressing_mode \in {"Absolute_Y", "Indirect_Y"} ->
         Line.operand = ToU16(Line.base + bus.y)
    [] Fetched.addressing_mode = "Absolute_X" ->
         Line.operand = ToU16(Line.base + bus.x)
    [] Fetched.addressing_mode = "Indirect_X" ->
         LowByte(Operand.address) = read_mem(bus, Line.base)
    [] OTHER -> TRUE

TraceShowsOperand == [][Running => OperandIsUsed /\ BaseIsUsed]_vars

\* What TraceShowsOperand asks of the table beside RowsAgree, which leaves the
\* rows of the jumps alone: they go to an address.
JumpsHaveAddresses ==
  \A v \in u8 :
    opcodes[v].fn \in JumpFns =>
      opcodes[v].addressing_mode \notin {"Immediate", "Relative"}

\* The value of the line is the one the step works on: what a load leaves in
\* the register, what an operation computes with, and what is at the operand
\* of a store or of a read-modify-write instruction until it overwrites it.
ValueIsUsed ==
  LET fn == Fetched.fn
      v  == Line.value
      A  == bus.accumulator
      C  == IF CarryFlag \in bus.status THEN 1 ELSE 0
      written == read_mem(bus', Operand.address)
  IN CASE fn \in {"lda", "lax"} -> bus'.accumulator = v
       [] fn = "ldx" -> bus'.x = v
       [] fn = "ldy" -> bus'.y = v
       [] fn = "adc" -> bus'.accumulator = ToU8(A + v + C)
       [] fn = "sbc" -> bus'.accumulator = ToU8(A - v - (1 - C))
       [] fn = "and" -> bus'.accumulator = BitAnd(A, v)
       [] fn = "ora" -> bus'.accumulator = BitOr(A, v)
       [] fn = "eor" -> bus'.accumulator = BitXor(A, v)
       [] fn = "bit" -> NegativeFlag \in bus'.status <=> v >= 128
       [] fn = "cmp" -> CarryFlag \in bus'.status <=> A >= v
       [] fn = "cpx" -> CarryFlag \in bus'.status <=> bus.x >= v
       [] fn = "cpy" -> CarryFlag \in bus'.status <=> bus.y >= v
       [] fn \in {"inc", "isb"} -> written \in {v, ToU8(v + 1)}
       [] fn \in {"dec", "dcp"} -> written \in {v, ToU8(v - 1)}
       [] fn \in {"asl", "rol", "slo", "rla"} -> CarryFlag \in bus'.status <=> v >= 128
       [] fn \in {"lsr", "ror", "sre"} -> CarryFlag \in bus'.status <=> v % 2 = 1
       [] OTHER -> v = read_mem(bus, Operand.address)

TraceShowsValue == [][Running /\ TracesValue(Fetched) => ValueIsUsed]_vars

\* A line is marked exactly when the 6502's documents do not list the opcode
\* at its address: an undocumented instruction, another NOP than 0xEA, or the
\* second SBC #.
UndocumentedFns ==
  (EmptyFns \ {"nop"}) \cup {"lax", "sax", "slo", "rla", "sre", "rra", "dcp", "isb"}

TraceMarks ==
  phase = "running" =>
    LET code == read_mem(bus, bus.program_counter)
    IN  Line.marked <=>
          \/ Fetched.fn \in UndocumentedFns
          \/ Fetched.fn = "nop" /\ code # \hEA
          \/ Fetched.fn = "sbc" /\ code = \hEB
=============================================================================
