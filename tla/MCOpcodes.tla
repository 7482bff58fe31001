----------------------------- MODULE MCOpcodes -----------------------------
(***************************************************************************)
(* Every opcode of the table, in a number of situations: a program sets    *)
(* the registers, a flag and three cells of the zero page, pushes a status *)
(* in which B is 1, jumps to where the opcode is, executes it with its     *)
(* operand bytes and goes on until it meets a 0, which is BRK.             *)
(***************************************************************************)
EXTENDS Trace, OpcodeTable, SequencesExt

\* The emulator's table is one of those the proofs of ControlFlow, of Frame, of
\* CycleTiming and of TraceShowsOperand are about.
ASSUME RowsAgreeAssumption == RowsAgree
ASSUME WritersHaveOperandsAssumption == WritersHaveOperands
ASSUME RowsTimedAssumption == RowsTimed
ASSUME JumpsHaveAddressesAssumption == JumpsHaveAddresses

\* The registers (S before PHP), the first operand byte, the second, and the
\* offset in the ROM where the instruction is.
Situations ==
  { \* an operand in RAM, no page crossed
    [a |-> \h50, x |-> \h01, y |-> \h02, s |-> \hFD, carry |-> FALSE,
     lo |-> \h10, hi |-> \h02, at |-> \h0100],
    \* zero page and page wrap, and the vector of JMP (ind) at a page end
    [a |-> \hB0, x |-> \hFF, y |-> \hFF, s |-> \hFD, carry |-> TRUE,
     lo |-> \hFF, hi |-> \h01, at |-> \h0100],
    \* the stack pointer wraps, and the operand is a cell of the stack
    [a |-> \h80, x |-> \h80, y |-> \h7F, s |-> \h01, carry |-> FALSE,
     lo |-> \h80, hi |-> \h00, at |-> \h0100],
    [a |-> \h00, x |-> \h00, y |-> \h00, s |-> \hFF, carry |-> TRUE,
     lo |-> \hFE, hi |-> \h09, at |-> \h0100],
    \* an operand in the ROM: the instruction itself, at a page end
    [a |-> \h01, x |-> \h01, y |-> \h01, s |-> \h7F, carry |-> FALSE,
     lo |-> \hFD, hi |-> \hC1, at |-> \h01FD],
    \* branches over a page border, forwards and backwards
    [a |-> \hFF, x |-> \h10, y |-> \h80, s |-> \hFD, carry |-> TRUE,
     lo |-> \h7F, hi |-> \h20, at |-> \h02F0],
    [a |-> \h7F, x |-> \h20, y |-> \h90, s |-> \hFD, carry |-> FALSE,
     lo |-> \h81, hi |-> \h1F, at |-> \h0210],
    \* the address plus the index wraps to the beginning of RAM
    [a |-> \hC3, x |-> \hF0, y |-> \hF1, s |-> \hFD, carry |-> TRUE,
     lo |-> \hFF, hi |-> \hFF, at |-> \h0100] }

Prologue(sit) ==
  << \hA9, \hF0, \h85, \hFE,              \* LDA #$F0, STA $FE
     \hA9, \h06, \h85, \hFF, \h85, \h00,  \* LDA #$06, STA $FF, STA $00
     \hA2, sit.s, \h9A, \h08,             \* LDX #s, TXS, PHP
     \hA2, sit.x, \hA0, sit.y,            \* LDX #x, LDY #y
     IF sit.carry THEN \h38 ELSE \h18,    \* SEC or CLC
     \hA9, sit.a,                         \* LDA #a
     \h4C, LowByte(sit.at), \hC0 + HighByte(sit.at) >>

ROM(sit, code) ==
  LET prologue == Prologue(sit)
  IN  [i \in 0 .. Len(prologue) - 1 |-> prologue[i + 1]]
        @@ (sit.at :> code @@ (sit.at + 1) :> sit.lo @@ (sit.at + 2) :> sit.hi)

Carts ==
  { [prg_rom_size |-> PRG_ROM_PAGE, prg_rom |-> ROM(sit, code)] :
      sit \in Situations, code \in u8 }
=============================================================================
