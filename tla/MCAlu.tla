------------------------------- MODULE MCAlu -------------------------------
(***************************************************************************)
(* The arithmetic of every accumulator with a memory operand next to each  *)
(* border of the signed and the unsigned range, with the carry clear and   *)
(* set: a loop over X, whose body is TXA and the instruction.  Combined    *)
(* instructions: the same on a cell of RAM, in a loop over Y.              *)
(***************************************************************************)
EXTENDS CPUProperties, OpcodeTable, TestCarts

CONSTANT Operands       \* the bytes to add, to subtract and to compare with

Loop(m) ==
  << \hA2, \h00,                  \* C000  LDX #0
     \h8A, \h18, \h69, m,         \* C002  TXA, CLC, ADC #m
     \h8A, \h38, \h69, m,         \*       TXA, SEC, ADC #m
     \h8A, \h18, \hE9, m,         \*       TXA, CLC, SBC #m
     \h8A, \h38, \hEB, m,         \*       TXA, SEC, SBC #m (undocumented)
     \h8A, \hC9, m, \hE0, m,      \*       TXA, CMP #m, CPX #m
     \hA8, \hC0, m,               \*       TAY, CPY #m
     \hE8, \hD0, \hE5,            \*       INX, BNE $C002
     \h00 >>                      \*       BRK

\* The combined instructions of every accumulator, with the carry clear and
\* set and the operand m in $10: a loop over Y.
Stored(m, carry, op) == << \hA9, m, \h85, \h10, \h98, carry, op, \h10 >>
                                  \* LDA #m, STA $10, TYA, CLC or SEC, op $10
Combine(m) ==
  << \hA0, \h00 >>                                         \* C000  LDY #0
    \o Stored(m, \h18, \h07) \o Stored(m, \h38, \h07)      \* C002  SLO
    \o Stored(m, \h18, \h27) \o Stored(m, \h38, \h27)      \*       RLA
    \o Stored(m, \h18, \h47) \o Stored(m, \h38, \h47)      \*       SRE
    \o Stored(m, \h18, \h67) \o Stored(m, \h38, \h67)      \*       RRA
    \o Stored(m, \h18, \hC7) \o Stored(m, \h38, \hC7)      \*       DCP
    \o Stored(m, \h18, \hE7) \o Stored(m, \h38, \hE7)      \*       ISB
    \o << \h98, \hA2, m, \h87, \h10, \hA7, \h10,            \*       TYA, LDX #m, SAX, LAX
          \hC8, \hD0, \h96, \h00 >>                        \*       INY, BNE $C002, BRK

Carts == UNION { {CartOf(Loop(m)), CartOf(Combine(m))} : m \in Operands }
=============================================================================
