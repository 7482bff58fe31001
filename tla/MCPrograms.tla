----------------------------- MODULE MCPrograms -----------------------------
(***************************************************************************)
(* The programs for a few of their inputs, and the recursions that do not  *)
(* fit in page one.                                                        *)
(***************************************************************************)
EXTENDS StackDiscipline, OpcodeTable, Programs

CONSTANTS
  Inputs,        \* the operands of the products and of the quotients
  Depths         \* how deep the subroutine calls itself

EndingCode ==
  {RepeatedAddition(a, b) : a \in {1, 3, 10}, b \in {3, 25}}
    \cup {Product(a, b) : a, b \in Inputs}
    \cup {Quotient(a, b) : a \in Inputs, b \in Inputs \ {0}}
    \cup {Copy(n) : n \in {1, 5, 16, 20}}
    \cup {IndirectJump(low) : low \in {\h10, \hFF}}
    \cup {Recursion(depth) : depth \in Depths \cap 1 .. Frames}

ProgramCarts == {CartOf(code) : code \in EndingCode}

\* The recursions that do not fit never come back to their BRK.
Carts == ProgramCarts \cup {CartOf(Recursion(depth)) : depth \in Depths}

\* The emulator's table is one of those the proof of ProgramsCompute is about.
ASSUME ProgramRowsAssumption == ProgramRows

\* The loop of run_cpu comes to an end: the counters of the programs reach
\* the value their branches wait for, and their returns lead back to BRK.
Terminates == bus.cartridge \in ProgramCarts => <>(phase = "returned")
=============================================================================
