------------------------------ MODULE MCStack ------------------------------
(***************************************************************************)
(* Every program of ProgramLength steps out of an alphabet of stack        *)
(* operations: calls of a subroutine, of a subroutine that keeps a byte on *)
(* the stack and of the program itself, returns that were never called,    *)
(* pushes and pops, stack pointers at the ends of page one and a store     *)
(* into the stack.                                                         *)
(***************************************************************************)
EXTENDS StackDiscipline, OpcodeTable, TestCarts, SequencesExt

CONSTANT ProgramLength

Operations ==
  { << \h48 >>,                  \* PHA
    << \h68 >>,                  \* PLA
    << \h08 >>,                  \* PHP
    << \h28, \h0A >>,            \* PLP, ASL A
    << \h20, \h20, \hC0 >>,      \* JSR to the subroutine
    << \h20, \h22, \hC0 >>,      \* JSR to its last instructions
    << \h20, \h00, \hC0 >>,      \* JSR to the program
    << \h60 >>,                  \* RTS
    << \h40 >>,                  \* RTI
    << \hA2, \h01, \h9A >>,      \* LDX #1, TXS
    << \hA9, \h91, \h8D, \hFC, \h09 >> }  \* LDA #$91, STA $09FC

\* PHP, PHA, PLA, PLP, RTS
Subroutine == << \h08, \h48, \h68, \h28, \h60 >>

SubroutineOffset == \h20

Code(operations) ==
  LET main == FlattenSeq(operations)
      gap  == [i \in 1 .. SubroutineOffset - Len(main) |-> 0]
  IN  main \o gap \o Subroutine

Carts == { CartOf(Code(operations)) : operations \in [1 .. ProgramLength -> Operations] }
=============================================================================
