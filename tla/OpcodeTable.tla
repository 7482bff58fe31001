---------------------------- MODULE OpcodeTable ----------------------------
(***************************************************************************)
(* The opcode table of opcode.cpp.  A row is the instruction function, the *)
(* bytes the instruction occupies, its base cycles and its addressing      *)
(* mode; the four quarters list the opcodes 0x00-0x3F, 0x40-0x7F,          *)
(* 0x80-0xBF and 0xC0-0xFF in order, four opcodes to a line.               *)
(***************************************************************************)
EXTENDS Integers, Sequences

LOCAL acc == "Accumulator"
LOCAL abs == "Absolute"
LOCAL abx == "Absolute_X"
LOCAL aby == "Absolute_Y"
LOCAL imm == "Immediate"
LOCAL imp == "Implied"
LOCAL ind == "Indirect"
LOCAL izx == "Indirect_X"
LOCAL izy == "Indirect_Y"
LOCAL rel == "Relative"
LOCAL zp  == "ZeroPage"
LOCAL zpx == "ZeroPage_X"
LOCAL zpy == "ZeroPage_Y"

Opcodes00 ==
  << <<"brk", 1, 7, imp>>, <<"ora", 2, 6, izx>>, <<"jam", 1, 1, imp>>, <<"slo", 2, 8, izx>>,
     <<"nop", 2, 3, zp>>, <<"ora", 2, 3, zp>>, <<"asl", 2, 5, zp>>, <<"slo", 2, 5, zp>>,
     <<"php", 1, 3, imp>>, <<"ora", 2, 2, imm>>, <<"asl_acc", 1, 2, acc>>, <<"anc", 2, 2, imm>>,
     <<"nop", 3, 4, abs>>, <<"ora", 3, 4, abs>>, <<"asl", 3, 6, abs>>, <<"slo", 3, 6, abs>>,
     <<"bpl", 2, 2, rel>>, <<"ora", 2, 5, izy>>, <<"jam", 1, 1, imp>>, <<"slo", 2, 8, izy>>,
     <<"nop", 2, 4, zpx>>, <<"ora", 2, 4, zpx>>, <<"asl", 2, 6, zpx>>, <<"slo", 2, 6, zpx>>,
     <<"clc", 1, 2, imp>>, <<"ora", 3, 4, aby>>, <<"nop", 1, 2, imp>>, <<"slo", 3, 7, aby>>,
     <<"nop", 3, 4, abx>>, <<"ora", 3, 4, abx>>, <<"asl", 3, 7, abx>>, <<"slo", 3, 7, abx>>,
     <<"jsr", 3, 6, abs>>, <<"and", 2, 6, izx>>, <<"jam", 1, 1, imp>>, <<"rla", 2, 8, izx>>,
     <<"bit", 2, 3, zp>>, <<"and", 2, 3, zp>>, <<"rol", 2, 5, zp>>, <<"rla", 2, 5, zp>>,
     <<"plp", 1, 4, imp>>, <<"and", 2, 2, imm>>, <<"rol_acc", 1, 2, acc>>, <<"anc", 2, 2, imm>>,
     <<"bit", 3, 4, abs>>, <<"and", 3, 4, abs>>, <<"rol", 3, 6, abs>>, <<"rla", 3, 6, abs>>,
     <<"bmi", 2, 2, rel>>, <<"and", 2, 5, izy>>, <<"jam", 1, 1, imp>>, <<"rla", 2, 8, izy>>,
     <<"nop", 2, 4, zpx>>, <<"and", 2, 4, zpx>>, <<"rol", 2, 6, zpx>>, <<"rla", 2, 6, zpx>>,
     <<"sec", 1, 2, imp>>, <<"and", 3, 4, aby>>, <<"nop", 1, 2, imp>>, <<"rla", 3, 7, aby>>,
     <<"nop", 3, 4, abx>>, <<"and", 3, 4, abx>>, <<"rol", 3, 7, abx>>, <<"rla", 3, 7, abx>> >>

Opcodes40 ==
  << <<"rti", 1, 6, imp>>, <<"eor", 2, 6, izx>>, <<"jam", 1, 1, imp>>, <<"sre", 2, 8, izx>>,
     <<"nop", 2, 3, zp>>, <<"eor", 2, 3, zp>>, <<"lsr", 2, 5, zp>>, <<"sre", 2, 5, zp>>,
     <<"pha", 1, 3, imp>>, <<"eor", 2, 2, imm>>, <<"lsr_acc", 1, 2, acc>>, <<"alr", 2, 2, imm>>,
     <<"jmp", 3, 3, abs>>, <<"eor", 3, 4, abs>>, <<"lsr", 3, 6, abs>>, <<"sre", 3, 6, abs>>,
     <<"bvc", 2, 2, rel>>, <<"eor", 2, 5, izy>>, <<"jam", 1, 1, imp>>, <<"sre", 2, 8, izy>>,
     <<"nop", 2, 4, zpx>>, <<"eor", 2, 4, zpx>>, <<"lsr", 2, 6, zpx>>, <<"sre", 2, 6, zpx>>,
     <<"cli", 1, 2, imp>>, <<"eor", 3, 4, aby>>, <<"nop", 1, 2, imp>>, <<"sre", 3, 7, aby>>,
     <<"nop", 3, 4, abx>>, <<"eor", 3, 4, abx>>, <<"lsr", 3, 7, abx>>, <<"sre", 3, 7, abx>>,
     <<"rts", 1, 6, imp>>, <<"adc", 2, 6, izx>>, <<"jam", 1, 1, imp>>, <<"rra", 2, 8, izx>>,
     <<"nop", 2, 3, zp>>, <<"adc", 2, 3, zp>>, <<"ror", 2, 5, zp>>, <<"rra", 2, 5, zp>>,
     <<"pla", 1, 4, imp>>, <<"adc", 2, 2, imm>>, <<"ror_acc", 1, 2, acc>>, <<"arr", 2, 2, imm>>,
     <<"jmp", 3, 5, ind>>, <<"adc", 3, 4, abs>>, <<"ror", 3, 6, abs>>, <<"rra", 3, 6, abs>>,
     <<"bvs", 2, 2, rel>>, <<"adc", 2, 5, izy>>, <<"jam", 1, 1, imp>>, <<"rra", 2, 8, izy>>,
     <<"nop", 2, 4, zpx>>, <<"adc", 2, 4, zpx>>, <<"ror", 2, 6, zpx>>, <<"rra", 2, 6, zpx>>,
     <<"sei", 1, 2, imp>>, <<"adc", 3, 4, aby>>, <<"nop", 1, 2, imp>>, <<"rra", 3, 7, aby>>,
     <<"nop", 3, 4, abx>>, <<"adc", 3, 4, abx>>, <<"ror", 3, 7, abx>>, <<"rra", 3, 7, abx>> >>

Opcodes80 ==
  << <<"nop", 2, 2, imm>>, <<"sta", 2, 6, izx>>, <<"nop", 2, 2, imm>>, <<"sax", 2, 6, izx>>,
     <<"sty", 2, 3, zp>>, <<"sta", 2, 3, zp>>, <<"stx", 2, 3, zp>>, <<"sax", 2, 3, zp>>,
     <<"dey", 1, 2, imp>>, <<"nop", 2, 2, imm>>, <<"txa", 1, 2, imp>>, <<"ane", 2, 2, imm>>,
     <<"sty", 3, 4, abs>>, <<"sta", 3, 4, abs>>, <<"stx", 3, 4, abs>>, <<"sax", 3, 4, abs>>,
     <<"bcc", 2, 2, rel>>, <<"sta", 2, 6, izy>>, <<"jam", 1, 1, imp>>, <<"sha", 2, 6, izy>>,
     <<"sty", 2, 4, zpx>>, <<"sta", 2, 4, zpx>>, <<"stx", 2, 4, zpy>>, <<"sax", 2, 4, zpy>>,
     <<"tya", 1, 2, imp>>, <<"sta", 3, 5, aby>>, <<"txs", 1, 2, imp>>, <<"tas", 3, 5, aby>>,
     <<"shy", 3, 5, abx>>, <<"sta", 3, 5, abx>>, <<"shx", 3, 5, aby>>, <<"sha", 3, 5, aby>>,
     <<"ldy", 2, 2, imm>>, <<"lda", 2, 6, izx>>, <<"ldx", 2, 2, imm>>, <<"lax", 2, 6, izx>>,
     <<"ldy", 2, 3, zp>>, <<"lda", 2, 3, zp>>, <<"ldx", 2, 3, zp>>, <<"lax", 2, 3, zp>>,
     <<"tay", 1, 2, imp>>, <<"lda", 2, 2, imm>>, <<"tax", 1, 2, imp>>, <<"lxa", 2, 2, imm>>,
     <<"ldy", 3, 4, abs>>, <<"lda", 3, 4, abs>>, <<"ldx", 3, 4, abs>>, <<"lax", 3, 4, abs>>,
     <<"bcs", 2, 2, rel>>, <<"lda", 2, 5, izy>>, <<"jam", 1, 1, imp>>, <<"lax", 2, 5, izy>>,
     <<"ldy", 2, 4, zpx>>, <<"lda", 2, 4, zpx>>, <<"ldx", 2, 4, zpy>>, <<"lax", 2, 4, zpy>>,
     <<"clv", 1, 2, imp>>, <<"lda", 3, 4, aby>>, <<"tsx", 1, 2, imp>>, <<"las", 3, 4, aby>>,
     <<"ldy", 3, 4, abx>>, <<"lda", 3, 4, abx>>, <<"ldx", 3, 4, aby>>, <<"lax", 3, 4, aby>> >>

OpcodesC0 ==
  << <<"cpy", 2, 2, imm>>, <<"cmp", 2, 6, izx>>, <<"nop", 2, 2, imm>>, <<"dcp", 2, 8, izx>>,
     <<"cpy", 2, 3, zp>>, <<"cmp", 2, 3, zp>>, <<"dec", 2, 5, zp>>, <<"dcp", 2, 5, zp>>,
     <<"iny", 1, 2, imp>>, <<"cmp", 2, 2, imm>>, <<"dex", 1, 2, imp>>, <<"sbx", 2, 2, imm>>,
     <<"cpy", 3, 4, abs>>, <<"cmp", 3, 4, abs>>, <<"dec", 3, 6, abs>>, <<"dcp", 3, 6, abs>>,
     <<"bne", 2, 2, rel>>, <<"cmp", 2, 5, izy>>, <<"jam", 1, 1, imp>>, <<"dcp", 2, 8, izy>>,
     <<"nop", 2, 4, zpx>>, <<"cmp", 2, 4, zpx>>, <<"dec", 2, 6, zpx>>, <<"dcp", 2, 6, zpx>>,
     <<"cld", 1, 2, imp>>, <<"cmp", 3, 4, aby>>, <<"nop", 1, 2, imp>>, <<"dcp", 3, 7, aby>>,
     <<"nop", 3, 4, abx>>, <<"cmp", 3, 4, abx>>, <<"dec", 3, 7, abx>>, <<"dcp", 3, 7, abx>>,
     <<"cpx", 2, 2, imm>>, <<"sbc", 2, 6, izx>>, <<"nop", 2, 2, imm>>, <<"isb", 2, 8, izx>>,
     <<"cpx", 2, 3, zp>>, <<"sbc", 2, 3, zp>>, <<"inc", 2, 5, zp>>, <<"isb", 2, 5, zp>>,
     <<"inx", 1, 2, imp>>, <<"sbc", 2, 2, imm>>, <<"nop", 1, 2, imp>>, <<"sbc", 2, 2, imm>>,
     <<"cpx", 3, 4, abs>>, <<"sbc", 3, 4, abs>>, <<"inc", 3, 6, abs>>, <<"isb", 3, 6, abs>>,
     <<"beq", 2, 2, rel>>, <<"sbc", 2, 5, izy>>, <<"jam", 1, 1, imp>>, <<"isb", 2, 8, izy>>,
     <<"nop", 2, 4, zpx>>, <<"sbc", 2, 4, zpx>>, <<"inc", 2, 6, zpx>>, <<"isb", 2, 6, zpx>>,
     <<"sed", 1, 2, imp>>, <<"sbc", 3, 4, aby>>, <<"nop", 1, 2, imp>>, <<"isb", 3, 7, aby>>,
     <<"nop", 3, 4, abx>>, <<"sbc", 3, 4, abx>>, <<"inc", 3, 7, abx>>, <<"isb", 3, 7, abx>> >>

-----------------------------------------------------------------------------

Rows == Opcodes00 \o Opcodes40 \o Opcodes80 \o OpcodesC0

OpcodeTable ==
  [b \in 0 .. 255 |->
     [fn |-> Rows[b + 1][1], bytes |-> Rows[b + 1][2],
      cycles |-> Rows[b + 1][3], addressing_mode |-> Rows[b + 1][4]]]
=============================================================================
