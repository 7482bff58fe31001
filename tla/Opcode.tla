------------------------------- MODULE Opcode -------------------------------
(***************************************************************************)
(* Decoding, from opcode.h and opcode.cpp: what a row of the opcode table  *)
(* holds, and get_next_opcode, which reads an instruction at the program   *)
(* counter.  The table itself is a constant: module OpcodeTable holds the  *)
(* program's, and what is proved holds for every table of this type.       *)
(***************************************************************************)
EXTENDS Bus

CONSTANT opcodes        \* the table: what each byte decodes to

AddressingModes ==
  {"Accumulator", "Absolute", "Absolute_X", "Absolute_Y", "Immediate",
   "Implied", "Indirect", "Indirect_X", "Indirect_Y", "Relative",
   "ZeroPage", "ZeroPage_X", "ZeroPage_Y"}

\* The instruction functions of cpu.cpp; a table row points to one of them.
StoreFns      == {"sta", "stx", "sty", "sax"}
LoadFns       == {"lda", "ldx", "ldy", "lax"}
TransferFns   == {"tax", "tay", "tsx", "txa", "txs", "tya"}
AluFns        == {"adc", "sbc", "and", "ora", "eor", "bit", "cmp", "cpx", "cpy"}
IncDecFns     == {"inx", "iny", "dex", "dey"}
RmwFns        == {"asl", "lsr", "rol", "ror", "inc", "dec",
                  "slo", "rla", "sre", "rra", "dcp", "isb"}
AccShiftFns   == {"asl_acc", "lsr_acc", "rol_acc", "ror_acc"}
BranchFns     == {"bcc", "bcs", "beq", "bne", "bmi", "bpl", "bvc", "bvs"}
FlagFns       == {"clc", "cld", "cli", "clv", "sec", "sed", "sei"}
StackFns      == {"pha", "php", "pla", "plp"}
JumpFns       == {"jmp", "jsr", "rts", "rti", "brk"}
\* nop_fn and the instructions whose function has an empty body.
EmptyFns      == {"nop", "jam", "anc", "alr", "arr", "ane", "sha", "tas",
                  "shy", "shx", "lxa", "las", "sbx"}

Fns == StoreFns \cup LoadFns \cup TransferFns \cup AluFns \cup IncDecFns
         \cup RmwFns \cup AccShiftFns \cup BranchFns \cup FlagFns
         \cup StackFns \cup JumpFns \cup EmptyFns

OpCode ==
  [fn : Fns, bytes : 1 .. 3, cycles : 1 .. 8, addressing_mode : AddressingModes]

ASSUME OpcodesAssumption == opcodes \in [u8 -> OpCode]

-----------------------------------------------------------------------------

\* The enumerator a row carries beside its function: the accumulator forms
\* share that of the memory forms.
Instruction(fn) ==
  CASE fn = "asl_acc" -> "asl"
    [] fn = "lsr_acc" -> "lsr"
    [] fn = "rol_acc" -> "rol"
    [] fn = "ror_acc" -> "ror"
    [] OTHER -> fn

instruction_has_additional_cycle_on_page_crossing(instruction) ==
  instruction \in {"adc", "and", "cmp", "eor", "lda", "ldx", "ldy", "nop",
                   "ora", "sbc", "las", "lax"}

\* A copy of the row with the operand bytes that follow the opcode; those
\* the instruction does not have are left at 0.
get_next_opcode(bus, pc) ==
  LET row == opcodes[read_mem(bus, pc)]
      lo  == IF row.bytes >= 2 THEN read_mem(bus, ToU16(pc + 1)) ELSE 0
      hi  == IF row.bytes  = 3 THEN read_mem(bus, ToU16(pc + 2)) ELSE 0
  IN  [fn |-> row.fn, bytes |-> row.bytes, cycles |-> row.cycles,
       addressing_mode |-> row.addressing_mode, byte |-> lo, word |-> Word(hi, lo)]
=============================================================================
