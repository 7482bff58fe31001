-------------------------- MODULE StackDiscipline --------------------------
(***************************************************************************)
(* The stack a program sees.  The CPU keeps it in page one of RAM, in a    *)
(* ring of 256 cells with no notion of full, empty or of whose bytes are   *)
(* there.  The history variable pushed records what a program may expect   *)
(* to pop: the bytes it has pushed and neither popped nor overwritten      *)
(* since, newest first, each with the instruction that pushed it.          *)
(***************************************************************************)
EXTENDS CPU, Sequences

VARIABLE pushed

stackVars == <<bus, phase, pushed>>

RingSize == 256

\* JSR and BRK push an address that depends on where the addressing mode has
\* left the program counter: their rows must be of these modes.
ASSUME CallRowsAssumption ==
  \A v \in u8 :
    /\ opcodes[v].fn = "jsr" => opcodes[v].addressing_mode = "Absolute"
    /\ opcodes[v].fn = "brk" => opcodes[v].addressing_mode = "Implied"

\* What the instruction at the program counter is documented to push, newest
\* first: JSR pushes the address of its own last byte.
PushedValues(fn) ==
  LET last == ToU16(bus.program_counter + 2)
  IN CASE fn = "pha" -> << bus.accumulator >>
       [] fn = "php" -> << Byte(bus.status \cup {BreakCommand, UnusedFlag}) >>
       [] fn = "jsr" -> << LowByte(last), HighByte(last) >>
       [] fn = "brk" -> << Byte(bus.status \cup {BreakCommand}),
                           LowByte(last), HighByte(last) >>
       [] OTHER -> << >>

PoppedCount(fn) ==
  CASE fn \in {"pla", "plp"} -> 1 [] fn = "rts" -> 2 [] fn = "rti" -> 3
    [] OTHER -> 0

Newest(n, s) == SubSeq(s, 1, IF n < Len(s) THEN n ELSE Len(s))

\* The entries for the bytes fn pushes: who pushed them, where that
\* instruction is and the stack pointer it found.
Entries(fn) ==
  LET values == PushedValues(fn)
  IN  [i \in DOMAIN values |->
         [value |-> values[i], fn |-> fn, at |-> bus.program_counter,
          sp |-> bus.stack_pointer]]

\* How many of the newest entries a store into the RAM cell leaves intact.
Intact(cell) ==
  IF cell \in STACK_START .. STACK_START + RingSize - 1
    THEN ToU8(cell - STACK_START - bus.stack_pointer - 1)
    ELSE RingSize

Overwrites(fn) == fn \in StoreFns \cup RmwFns /\ Operand.address < RAM_MIRROR_END

\* TXS makes any part of the ring the stack: nothing is known of it.
Remember ==
  LET fn == Fetched.fn
  IN  pushed' =
        CASE fn = "txs" -> << >>
          [] Overwrites(fn) -> Newest(Intact(RamCell(Operand.address)), pushed)
          [] PoppedCount(fn) > 0 ->
               SubSeq(pushed, PoppedCount(fn) + 1, Len(pushed))
          [] OTHER -> Newest(RingSize, Entries(fn) \o pushed)

StackInit == Init /\ pushed = << >>

StackNext ==
  \/ (BusReset \/ Start) /\ UNCHANGED pushed
  \/ Step /\ Remember
  \/ Stopped /\ UNCHANGED pushed

StackSpec == StackInit /\ [][StackNext]_stackVars

\* As FairSpec of the CPU.
FairStackSpec == StackSpec /\ WF_stackVars(StackNext)

-----------------------------------------------------------------------------

\* The ring holds the newest 256 bytes the program pushed, in order from the
\* stack pointer on, whatever it has done in between and wherever the stack
\* pointer has wrapped.
StackHoldsPushed ==
  \A i \in DOMAIN pushed :
    bus.cpu_ram[STACK_START + ToU8(bus.stack_pointer + i)] = pushed[i].value

\* An instruction that pops gets the newest bytes pushed, in the order that
\* undoes the push: RTS adds the 1 that JSR leaves out, RTI does not, and
\* PLP restores every flag but B.
PopsNewest ==
  LET fn == Fetched.fn
      v(i) == pushed[i].value
      Restores(i) == bus'.status = (Bits(v(i)) \ {BreakCommand}) \cup {UnusedFlag}
  IN  Len(pushed) >= PoppedCount(fn) =>
        CASE fn = "pla" -> bus'.accumulator = v(1)
          [] fn = "plp" -> Restores(1)
          [] fn = "rts" -> bus'.program_counter = ToU16(Word(v(2), v(1)) + 1)
          [] fn = "rti" -> Restores(1) /\ bus'.program_counter = Word(v(3), v(2))
          [] OTHER -> TRUE

Lifo == [][phase = "running" => PopsNewest]_stackVars

\* The RTS at the end of a subroutine: the two newest bytes are those one
\* JSR has pushed.
AtReturn ==
  /\ Fetched.fn = "rts"
  /\ Len(pushed) >= 2
  /\ pushed[1].fn = "jsr" /\ pushed[2].fn = "jsr"
  /\ pushed[1].at = pushed[2].at /\ pushed[1].sp = pushed[2].sp

\* A subroutine that has popped what it pushed returns to the instruction
\* after the JSR that called it and leaves the stack pointer as it was before
\* the call, however deep the calls are nested.
ReturnsToCaller ==
  [][phase = "running" /\ AtReturn =>
       /\ bus'.program_counter = ToU16(pushed[1].at + 3)
       /\ bus'.stack_pointer = pushed[1].sp]_stackVars
=============================================================================
