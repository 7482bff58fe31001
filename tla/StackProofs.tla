---------------------------- MODULE StackProofs ----------------------------
(***************************************************************************)
(* What programs find on the stack, for every program, every table in      *)
(* which JSR and BRK have their documented forms, and every bound.         *)
(*                                                                         *)
(* The argument counts cells from the stack pointer up: Top(b, i) is what  *)
(* the i-th pop from here would yield.  A push moves every cell but the    *)
(* last one further away, a pop moves them nearer, and both cancel the     *)
(* movement of the stack pointer, wherever it wraps.                       *)
(***************************************************************************)
EXTENDS StackDiscipline, CPUProofs, SequenceTheorems

\* The place and the contents of the i-th cell from the stack pointer up.
Cell(b, i) == ToU8(b.stack_pointer + i)
Top(b, i)  == b.cpu_ram[STACK_START + Cell(b, i)]

-----------------------------------------------------------------------------
(* Pushing and popping.                                                    *)

\* Steps around the ring.
LEMMA Ring ==
  ASSUME NEW s \in u8, NEW i \in Int
  PROVE  /\ ToU8(s + i) \in u8
         /\ ToU8(ToU8(s - 1) + i) = ToU8(s + (i - 1))
         /\ ToU8(ToU8(s + 1) + i) = ToU8(s + (i + 1))
         /\ i \in 1 .. 255 => ToU8(s + i) # s
         /\ ToU8(s + (1 - 1)) = s
<1>1. s \in Int /\ 0 <= s /\ s <= 255
  BY U8
<1>2. (s + i) % 256 \in Int /\ 0 <= (s + i) % 256 /\ (s + i) % 256 <= 255
  BY <1>1
<1>3. ToU8(s + i) \in u8
  BY <1>2, U8 DEF ToU8
<1>4. ToU8(ToU8(s - 1) + i) = ToU8(s + (i - 1))
  <2>1. CASE s = 0
    BY <1>1, <2>1 DEF ToU8
  <2>2. CASE s > 0
    <3>1. ToU8(s - 1) = s - 1
      BY <1>1, <2>2 DEF ToU8
    <3>2. (s - 1) + i = s + (i - 1)
      BY <1>1
    <3> QED
      BY <3>1, <3>2
  <2> QED
    BY <1>1, <2>1, <2>2
<1>5. ToU8(ToU8(s + 1) + i) = ToU8(s + (i + 1))
  <2>1. CASE s = 255
    BY <1>1, <2>1 DEF ToU8
  <2>2. CASE s < 255
    <3>1. ToU8(s + 1) = s + 1
      BY <1>1, <2>2 DEF ToU8
    <3>2. (s + 1) + i = s + (i + 1)
      BY <1>1
    <3> QED
      BY <3>1, <3>2
  <2> QED
    BY <1>1, <2>1, <2>2
<1>6. i \in 1 .. 255 => ToU8(s + i) # s
  BY <1>1 DEF ToU8
<1>7. ToU8(s + (1 - 1)) = s
  BY <1>1 DEF ToU8
<1> QED
  BY <1>3, <1>4, <1>5, <1>6, <1>7

\* A push is the next byte to pop, and the rest comes one later.
LEMMA PushTop ==
  ASSUME NEW b \in BusState, NEW v \in u8
  PROVE  /\ Top(push_stack(b, v), 1) = v
         /\ \A i \in 2 .. RingSize : Top(push_stack(b, v), i) = Top(b, i - 1)
         /\ \A i \in Int : Cell(push_stack(b, v), i) = Cell(b, i - 1)
<1> DEFINE s == b.stack_pointer
           after == push_stack(b, v)
<1>1. s \in u8 /\ b.cpu_ram \in [0 .. RAM_SIZE - 1 -> u8]
  BY DEF BusState
<1>2. after.cpu_ram = [b.cpu_ram EXCEPT ![STACK_START + s] = v]
  BY PushShape
<1>3. ASSUME NEW i \in Int PROVE Cell(after, i) = Cell(b, i - 1)
  <2>1. after.stack_pointer = ToU8(s - 1)
    BY PushShape
  <2>2. ToU8(ToU8(s - 1) + i) = ToU8(s + (i - 1))
    BY <1>1, Ring
  <2> HIDE DEF after
  <2> QED
    BY <2>1, <2>2 DEF Cell
<1>4. Top(after, 1) = v
  <2>1. Cell(after, 1) = s
    BY <1>1, <1>3, Ring DEF Cell
  <2> QED
    BY <1>1, <1>2, <2>1, StackCells DEF Top
<1>5. ASSUME NEW i \in 2 .. RingSize PROVE Top(after, i) = Top(b, i - 1)
  <2>1. i - 1 \in 1 .. 255 /\ i \in Int /\ i - 1 \in Int
    BY DEF RingSize
  <2>2. Cell(b, i - 1) \in u8 /\ Cell(b, i - 1) # s
    BY <1>1, <2>1, Ring DEF Cell
  <2>3. STACK_START + Cell(b, i - 1) # STACK_START + s
    BY <1>1, <2>2, U8 DEF STACK_START
  <2> QED
    BY <1>1, <1>2, <1>3, <2>1, <2>2, <2>3, StackCells DEF Top
<1> QED
  BY <1>3, <1>4, <1>5

LEMMA PopTop ==
  ASSUME NEW b \in BusState
  PROVE  /\ pop_stack(b).value = Top(b, 1)
         /\ \A i \in Int : Top(pop_stack(b).bus, i) = Top(b, i + 1)
         /\ \A i \in Int : Cell(pop_stack(b).bus, i) = Cell(b, i + 1)
<1> DEFINE s == b.stack_pointer
           sp == ToU8(s + 1)
           popped == [b EXCEPT !.stack_pointer = sp]
<1>1. s \in u8 /\ sp \in u8
  BY FieldTypes, Wraps
<1> HIDE DEF sp
<1>2. popped.stack_pointer = sp /\ popped.cpu_ram = b.cpu_ram
  BY DEF BusState
<1> HIDE DEF popped
<1>3. ASSUME NEW i \in Int PROVE Cell(popped, i) = Cell(b, i + 1)
  <2>1. ToU8(ToU8(s + 1) + i) = ToU8(s + (i + 1))
    BY <1>1, Ring
  <2> QED
    BY <1>2, <2>1 DEF Cell, sp
<1>4. \A i \in Int : Top(popped, i) = Top(b, i + 1)
  BY <1>2, <1>3 DEF Top
<1>5. read_mem(popped, STACK_START + sp) = Top(b, 1)
  <2>1. read_mem(popped, STACK_START + sp) = popped.cpu_ram[STACK_START + sp]
    BY <1>1, StackCells, U8 DEF read_mem, STACK_START, RAM_MIRROR_END
  <2> QED
    BY <1>2, <2>1 DEF Top, Cell, sp
<1>6. pop_stack(b) = [value |-> read_mem(popped, STACK_START + sp), bus |-> popped]
  BY <1>2 DEF pop_stack, popped, sp
<1> QED
  BY <1>3, <1>4, <1>5, <1>6

-----------------------------------------------------------------------------
(* The instructions that push and pop.                                     *)

\* c is b after n pushes, and after n pops.
Pushed(b, c, n) ==
  /\ \A i \in n + 1 .. RingSize : Top(c, i) = Top(b, i - n)
  /\ \A i \in Int : Cell(c, i) = Cell(b, i - n)

Popped(b, c, n) ==
  \A i \in Int : Top(c, i) = Top(b, i + n) /\ Cell(c, i) = Cell(b, i + n)

\* Only the stack of the buses matters for both.
LEMMA KeptTop ==
  ASSUME NEW b, NEW c, Kept(b, c)
  PROVE  \A i : Top(c, i) = Top(b, i) /\ Cell(c, i) = Cell(b, i)
  BY DEF Kept, Top, Cell

LEMMA PushedKept ==
  ASSUME NEW b, NEW c, NEW d, NEW n, Kept(c, d)
  PROVE  /\ Pushed(b, c, n) => Pushed(b, d, n)
         /\ Popped(b, c, n) => Popped(b, d, n)
         /\ Pushed(d, b, n) => Pushed(c, b, n)
         /\ Popped(d, b, n) => Popped(c, b, n)
  BY KeptTop DEF Pushed, Popped

LEMMA PushOne ==
  ASSUME NEW b \in BusState, NEW v \in u8
  PROVE  Pushed(b, push_stack(b, v), 1) /\ Top(push_stack(b, v), 1) = v
  BY PushTop DEF Pushed

LEMMA PushWordTop ==
  ASSUME NEW b \in BusState, NEW w \in u16
  PROVE  /\ push_stack_u16(b, w) \in BusState
         /\ push_stack_u16(b, w).status = b.status
         /\ Top(push_stack_u16(b, w), 1) = LowByte(w)
         /\ Top(push_stack_u16(b, w), 2) = HighByte(w)
         /\ Pushed(b, push_stack_u16(b, w), 2)
<1> DEFINE hi == push_stack(b, HighByte(w))
           lo == push_stack(hi, LowByte(w))
<1>1. HighByte(w) \in u8 /\ LowByte(w) \in u8
  BY Widths, U16
<1>2. hi \in BusState /\ hi.status = b.status
  BY <1>1, PushShape
<1>3. /\ Top(hi, 1) = HighByte(w)
      /\ \A i \in 2 .. RingSize : Top(hi, i) = Top(b, i - 1)
      /\ \A i \in Int : Cell(hi, i) = Cell(b, i - 1)
  BY <1>1, PushTop
<1> HIDE DEF hi
<1>4. lo \in BusState /\ lo.status = b.status
  BY <1>1, <1>2, PushShape
<1>5. /\ Top(lo, 1) = LowByte(w)
      /\ \A i \in 2 .. RingSize : Top(lo, i) = Top(hi, i - 1)
      /\ \A i \in Int : Cell(lo, i) = Cell(hi, i - 1)
  BY <1>1, <1>2, PushTop
<1>6. lo = push_stack_u16(b, w)
  BY DEF push_stack_u16, hi
<1> HIDE DEF lo
<1>7. Top(lo, 2) = HighByte(w)
  BY <1>3, <1>5 DEF RingSize
<1>8. ASSUME NEW i \in 3 .. RingSize PROVE Top(lo, i) = Top(b, i - 2)
  <2>1. i \in 2 .. RingSize /\ i - 1 \in 2 .. RingSize /\ (i - 1) - 1 = i - 2
    BY DEF RingSize
  <2> QED
    BY <1>3, <1>5, <2>1
<1>9. ASSUME NEW i \in Int PROVE Cell(lo, i) = Cell(b, i - 2)
  <2>1. i - 1 \in Int /\ (i - 1) - 1 = i - 2
    OBVIOUS
  <2> QED
    BY <1>3, <1>5, <2>1
<1>10. Pushed(b, lo, 2)
  BY <1>8, <1>9 DEF Pushed
<1> QED
  BY <1>4, <1>5, <1>6, <1>7, <1>10

LEMMA PhaPhpPush ==
  ASSUME NEW b \in ProgramState, NEW a \in u16
  PROVE  /\ Pushed(b, pha_fn(b, a), 1) /\ Top(pha_fn(b, a), 1) = b.accumulator
         /\ Pushed(b, php_fn(b, a), 1)
         /\ Top(php_fn(b, a), 1) = Byte(b.status \cup {BreakCommand, UnusedFlag})
<1>1. b \in BusState /\ b.accumulator \in u8
  BY ProgramFields DEF ProgramState
<1>2. b.status \cup {UnusedFlag, BreakCommand} = b.status \cup {BreakCommand, UnusedFlag}
  OBVIOUS
<1> QED
  BY <1>1, <1>2, PushOne, ByteType DEF pha_fn, php_fn

LEMMA JsrPush ==
  ASSUME NEW b \in ProgramState, NEW a \in u16
  PROVE  /\ Pushed(b, jsr_fn(b, a), 2)
         /\ Top(jsr_fn(b, a), 1) = LowByte(ToU16(b.program_counter - 1))
         /\ Top(jsr_fn(b, a), 2) = HighByte(ToU16(b.program_counter - 1))
<1> DEFINE w    == ToU16(b.program_counter - 1)
           deep == push_stack_u16(b, w)
<1>1. b \in BusState /\ w \in u16
  BY ProgramFields, Wraps DEF ProgramState
<1> HIDE DEF w
<1>2. /\ deep \in BusState /\ Pushed(b, deep, 2)
      /\ Top(deep, 1) = LowByte(w) /\ Top(deep, 2) = HighByte(w)
  BY <1>1, PushWordTop
<1> HIDE DEF deep
<1>3. Kept(deep, [deep EXCEPT !.program_counter = a])
  BY <1>2, UpdatesKeep
<1>4. jsr_fn(b, a) = [deep EXCEPT !.program_counter = a]
  BY DEF jsr_fn, deep, w
<1> QED
  BY <1>2, <1>3, <1>4, KeptTop, PushedKept DEF w

LEMMA BrkPush ==
  ASSUME NEW b \in ProgramState, NEW a \in u16
  PROVE  /\ Pushed(b, brk_fn(b, a), 3)
         /\ Top(brk_fn(b, a), 1) = Byte(b.status \cup {BreakCommand})
         /\ Top(brk_fn(b, a), 2) = LowByte(ToU16(b.program_counter + 1))
         /\ Top(brk_fn(b, a), 3) = HighByte(ToU16(b.program_counter + 1))
<1> DEFINE w         == ToU16(b.program_counter + 1)
           returning == push_stack_u16(b, w)
           flagged   == set_flag(returning, BreakCommand, TRUE)
           status    == Byte(flagged.status)
           deep      == push_stack(flagged, status)
           jumped    == [deep EXCEPT !.program_counter = read_mem_u16(deep, IRQ_VECTOR)]
<1>1. b \in BusState /\ w \in u16
  BY ProgramFields, Wraps DEF ProgramState
<1>2. brk_fn(b, a) = jumped
  BY DEF brk_fn
<1> HIDE DEF w
<1>3. /\ returning \in BusState /\ returning.status = b.status /\ Pushed(b, returning, 2)
      /\ Top(returning, 1) = LowByte(w) /\ Top(returning, 2) = HighByte(w)
  BY <1>1, PushWordTop
<1> HIDE DEF returning
<1>4. /\ flagged \in BusState /\ flagged.status = b.status \cup {BreakCommand}
      /\ Kept(returning, flagged)
  BY <1>3, FlagValues DEF set_flag, BusState, Kept
<1> HIDE DEF flagged
<1>5. /\ Pushed(b, flagged, 2)
      /\ Top(flagged, 1) = LowByte(w) /\ Top(flagged, 2) = HighByte(w)
  BY <1>3, <1>4, KeptTop, PushedKept
<1>6. status = Byte(b.status \cup {BreakCommand}) /\ status \in u8
  BY <1>4, ByteType
<1> HIDE DEF status
<1>7. deep \in BusState /\ Pushed(flagged, deep, 1) /\ Top(deep, 1) = status
  BY <1>4, <1>6, PushShape, PushOne
<1> HIDE DEF deep
<1>8. Top(deep, 2) = LowByte(w) /\ Top(deep, 3) = HighByte(w)
  BY <1>5, <1>7 DEF Pushed, RingSize
<1>9. ASSUME NEW i \in 4 .. RingSize PROVE Top(deep, i) = Top(b, i - 3)
  <2>1. i \in 1 + 1 .. RingSize /\ i - 1 \in 2 + 1 .. RingSize /\ (i - 1) - 2 = i - 3
    BY DEF RingSize
  <2> QED
    BY <1>5, <1>7, <2>1 DEF Pushed
<1>10. ASSUME NEW i \in Int PROVE Cell(deep, i) = Cell(b, i - 3)
  <2>1. i - 1 \in Int /\ (i - 1) - 2 = i - 3
    OBVIOUS
  <2> QED
    BY <1>5, <1>7, <2>1 DEF Pushed
<1>11. Pushed(b, deep, 3)
  BY <1>9, <1>10 DEF Pushed
<1>12. Kept(deep, jumped)
  BY <1>7, UpdatesKeep
<1> HIDE DEF jumped
<1> QED
  BY <1>2, <1>6, <1>7, <1>8, <1>11, <1>12, KeptTop, PushedKept DEF w

LEMMA PlaPop ==
  ASSUME NEW b \in ProgramState, NEW a \in u16
  PROVE  Popped(b, pla_fn(b, a), 1) /\ pla_fn(b, a).accumulator = Top(b, 1)
<1> DEFINE c == pop_stack(b).bus
           v == pop_stack(b).value
           loaded == [c EXCEPT !.accumulator = v]
<1>1. c \in ProgramState /\ v \in u8
  BY PopType
<1>2. Popped(b, c, 1) /\ v = Top(b, 1)
  BY PopTop DEF Popped, ProgramState
<1>3. pla_fn(b, a) = SetA(c, v)
  BY DEF pla_fn
<1> HIDE DEF c, v
<1>4. Kept(c, SetA(c, v))
  BY <1>1, SetRegisterKeeps
<1>5. loaded \in ProgramState /\ loaded.accumulator = v
  BY <1>1, RegisterUpdates DEF ProgramState, BusState
<1> HIDE DEF loaded
<1>6. update_zero_and_negative_flags(loaded, v).accumulator = loaded.accumulator
  <2>1. ASSUME NEW d \in ProgramState, NEW f, NEW w
        PROVE  set_flag(d, f, w).accumulator = d.accumulator
    BY DEF set_flag, ProgramState, BusState
  <2>2. set_flag(loaded, ZeroFlag, v = 0) \in ProgramState
    BY <1>5, FlagValues, FlagUpdates
  <2> QED
    BY <1>5, <2>1, <2>2 DEF update_zero_and_negative_flags
<1> QED
  BY <1>2, <1>3, <1>4, <1>5, <1>6, PushedKept DEF SetA, loaded

LEMMA PlpPop ==
  ASSUME NEW b \in ProgramState, NEW a \in u16
  PROVE  /\ Popped(b, plp_fn(b, a), 1)
         /\ plp_fn(b, a).status
              = (Bits(Top(b, 1)) \ {BreakCommand}) \cup {UnusedFlag}
<1> DEFINE c == pop_stack(b).bus
           status == (Bits(Top(b, 1)) \ {BreakCommand}) \cup {UnusedFlag}
           restored == [c EXCEPT !.status = status]
<1>1. c \in BusState /\ Popped(b, c, 1)
  BY PopType, PopTop DEF Popped, ProgramState
<1>2. plp_fn(b, a) = restored
  BY PopTop DEF plp_fn, ProgramState
<1> HIDE DEF c, status
<1>3. Kept(c, restored) /\ restored.status = status
  BY <1>1, UpdatesKeep DEF BusState
<1> HIDE DEF restored
<1> QED
  BY <1>1, <1>2, <1>3, PushedKept DEF status

LEMMA PopWordTop ==
  ASSUME NEW b \in ProgramState
  PROVE  /\ Popped(b, pop_stack_u16(b).bus, 2)
         /\ PopsLowByteFirst => pop_stack_u16(b).value = Word(Top(b, 2), Top(b, 1))
<1> DEFINE first == pop_stack(b)
           second == pop_stack(first.bus)
<1>1. b \in BusState /\ first.bus \in BusState
  BY PopType DEF ProgramState
<1>2. first.value = Top(b, 1) /\ Popped(b, first.bus, 1)
  BY <1>1, PopTop DEF Popped
<1> HIDE DEF first
<1>3. second.value = Top(first.bus, 1) /\ Popped(first.bus, second.bus, 1)
  BY <1>1, PopTop DEF Popped
<1>4. pop_stack_u16(b).bus = second.bus
      /\ (PopsLowByteFirst => pop_stack_u16(b).value = Word(second.value, first.value))
  BY DEF pop_stack_u16, first
<1> HIDE DEF second
<1>5. second.value = Top(b, 2)
  BY <1>2, <1>3 DEF Popped
<1>6. ASSUME NEW i \in Int
      PROVE  Top(second.bus, i) = Top(b, i + 2) /\ Cell(second.bus, i) = Cell(b, i + 2)
  <2>1. i + 1 \in Int /\ (i + 1) + 1 = i + 2
    OBVIOUS
  <2> QED
    BY <1>2, <1>3, <2>1 DEF Popped
<1> QED
  BY <1>2, <1>4, <1>5, <1>6 DEF Popped

LEMMA RtsPop ==
  ASSUME NEW b \in ProgramState, NEW a \in u16
  PROVE  /\ Popped(b, rts_fn(b, a), 2)
         /\ PopsLowByteFirst =>
              rts_fn(b, a).program_counter = ToU16(Word(Top(b, 2), Top(b, 1)) + 1)
<1> DEFINE c == pop_stack_u16(b).bus
           v == pop_stack_u16(b).value
           pc == ToU16(v + 1)
           returned == [c EXCEPT !.program_counter = pc]
<1>1. c \in BusState /\ Popped(b, c, 2)
  BY PopWordType, PopWordTop DEF ProgramState
<1>2. PopsLowByteFirst => v = Word(Top(b, 2), Top(b, 1))
  BY PopWordTop
<1>3. rts_fn(b, a) = returned
  BY DEF rts_fn
<1> HIDE DEF c, v, pc
<1>4. Kept(c, returned) /\ returned.program_counter = pc
  BY <1>1, UpdatesKeep DEF BusState
<1> HIDE DEF returned
<1> QED
  BY <1>1, <1>2, <1>3, <1>4, PushedKept DEF pc

LEMMA RtiPop ==
  ASSUME NEW b \in ProgramState, NEW a \in u16
  PROVE  /\ Popped(b, rti_fn(b, a), 3)
         /\ rti_fn(b, a).status
              = (Bits(Top(b, 1)) \ {BreakCommand}) \cup {UnusedFlag}
         /\ PopsLowByteFirst =>
              rti_fn(b, a).program_counter = Word(Top(b, 3), Top(b, 2))
<1> DEFINE p == plp_fn(b, a)
           c == pop_stack_u16(p).bus
           v == pop_stack_u16(p).value
           returned == [c EXCEPT !.program_counter = v]
<1>1. p \in ProgramState /\ Popped(b, p, 1)
      /\ p.status = (Bits(Top(b, 1)) \ {BreakCommand}) \cup {UnusedFlag}
  BY PlpType, PlpPop
<1>2. rti_fn(b, a) = returned
  BY DEF rti_fn
<1> HIDE DEF p
<1>3. c \in BusState /\ Popped(p, c, 2) /\ c.status = p.status
  <2>1. ASSUME NEW d \in BusState PROVE pop_stack(d).bus.status = d.status
    BY DEF pop_stack, BusState
  <2>2. pop_stack(p).bus \in BusState /\ p \in BusState
    BY <1>1, PopType DEF ProgramState
  <2>3. c = pop_stack(pop_stack(p).bus).bus
    BY DEF pop_stack_u16
  <2> HIDE DEF c
  <2> QED
    BY <1>1, <2>1, <2>2, <2>3, PopWordType, PopWordTop DEF ProgramState, c
<1>4. PopsLowByteFirst => v = Word(Top(p, 2), Top(p, 1))
  BY <1>1, PopWordTop
<1> HIDE DEF c, v
<1>5. /\ Kept(c, returned) /\ returned.program_counter = v
      /\ returned.status = c.status
  BY <1>3, UpdatesKeep DEF BusState
<1> HIDE DEF returned
<1>6. Top(p, 1) = Top(b, 2) /\ Top(p, 2) = Top(b, 3)
  BY <1>1 DEF Popped
<1>7. ASSUME NEW i \in Int
      PROVE  Top(c, i) = Top(b, i + 3) /\ Cell(c, i) = Cell(b, i + 3)
  <2>1. i + 2 \in Int /\ (i + 2) + 1 = i + 3
    OBVIOUS
  <2> QED
    BY <1>1, <1>3, <2>1 DEF Popped
<1>8. Popped(b, c, 3)
  BY <1>7 DEF Popped
<1> QED
  BY <1>1, <1>2, <1>3, <1>4, <1>5, <1>6, <1>8, PushedKept

-----------------------------------------------------------------------------
(* The history.                                                            *)

Entry == [value : u8, fn : Fns, at : u16, sp : u8]

\* The cell and the value of the two halves of a return address.
InPlace(e, cell) ==
  \/ cell = ToU8(e.sp - 1) /\ e.value = LowByte(ToU16(e.at + 2))
  \/ cell = e.sp /\ e.value = HighByte(ToU16(e.at + 2))

\* The entries s are what is on the stack of b, and those of JSR are where
\* it has pushed them.
Describes(s, b) ==
  \A i \in 1 .. Len(s) :
    /\ Top(b, i) = s[i].value
    /\ s[i].fn = "jsr" => InPlace(s[i], Cell(b, i))

LEMMA NewestShape ==
  ASSUME NEW s \in Seq(Entry), NEW n \in Nat
  PROVE  /\ Newest(n, s) \in Seq(Entry)
         /\ Len(Newest(n, s)) = IF n < Len(s) THEN n ELSE Len(s)
         /\ \A i \in 1 .. Len(Newest(n, s)) : i \in 1 .. Len(s) /\ Newest(n, s)[i] = s[i]
<1> DEFINE m == IF n < Len(s) THEN n ELSE Len(s)
<1>1. Len(s) \in Nat /\ m \in Nat /\ m <= Len(s)
  BY LenProperties
<1>2. \A i \in 1 .. m : s[i] \in Entry
  BY <1>1, ElementOfSeq
<1> HIDE DEF m
<1>3. /\ SubSeq(s, 1, m) \in Seq(Entry)
      /\ Len(SubSeq(s, 1, m)) = m
      /\ \A i \in 1 .. m : SubSeq(s, 1, m)[i] = s[i]
  BY <1>1, <1>2, SubSeqProperties
<1>4. Newest(n, s) = SubSeq(s, 1, m)
  BY DEF Newest, m
<1> QED
  BY <1>1, <1>3, <1>4 DEF m

LEMMA NewestAll ==
  ASSUME NEW s \in Seq(Entry), Len(s) <= RingSize
  PROVE  Newest(RingSize, s) = s
<1>1. Len(s) \in Nat /\ ~(RingSize < Len(s))
  BY LenProperties DEF RingSize
<1> QED
  BY <1>1, SubSeqFull DEF Newest

LEMMA KeptDescribes ==
  ASSUME NEW s, NEW b, NEW c, Kept(b, c), Describes(s, b)
  PROVE  Describes(s, c)
  BY KeptTop DEF Describes

\* No index up to that of the newest byte above a cell leads to the cell.
LEMMA BelowCell ==
  ASSUME NEW sp \in u8, NEW cell \in Int, NEW i \in 1 .. 256,
         i <= IF cell \in STACK_START .. STACK_START + RingSize - 1
                THEN ToU8(cell - STACK_START - sp - 1) ELSE RingSize
  PROVE  STACK_START + ToU8(sp + i) # cell
<1>1. sp \in Int /\ 0 <= sp /\ sp <= 255
  BY U8
<1>2. 0 <= ToU8(sp + i) /\ ToU8(sp + i) <= 255 /\ ToU8(sp + i) \in Int
  BY <1>1 DEF ToU8
<1>3. CASE cell \in 256 .. 511
  <2>1. i <= ToU8(cell - 256 - sp - 1)
    BY <1>3 DEF STACK_START, RingSize
  <2>2. ToU8(sp + i) = IF sp + i < 256 THEN sp + i ELSE sp + i - 256
    BY <1>1 DEF ToU8
  <2>3. ToU8(cell - 256 - sp - 1)
          = IF cell - 256 - sp - 1 < 0 THEN cell - sp - 1 ELSE cell - 256 - sp - 1
    BY <1>1, <1>3 DEF ToU8
  <2> QED
    BY <1>1, <1>3, <2>1, <2>2, <2>3 DEF STACK_START
<1>4. CASE cell \notin 256 .. 511
  BY <1>2, <1>4 DEF STACK_START
<1> QED
  BY <1>3, <1>4

\* What is left of the history after a store is on the part of the stack
\* that the store has not reached.
LEMMA WriteDescribes ==
  ASSUME NEW s \in Seq(Entry), Len(s) <= RingSize, NEW b \in BusState, NEW c,
         NEW a \in u16, KeptBut(a, b, c), Describes(s, b), NEW n \in Nat,
         n = IF a < RAM_MIRROR_END
                  /\ RamCell(a) \in STACK_START .. STACK_START + RingSize - 1
               THEN ToU8(RamCell(a) - STACK_START - b.stack_pointer - 1)
               ELSE RingSize
  PROVE  Describes(Newest(n, s), c)
<1> DEFINE t == Newest(n, s)
           cell == RamCell(a)
           sp == b.stack_pointer
<1>1. sp \in u8 /\ cell \in Int
  BY FieldTypes, RamCellType
<1>2. Len(s) \in Nat /\ t \in Seq(Entry) /\ Len(t) \in Nat /\ Len(t) <= n
      /\ Len(t) <= RingSize
      /\ \A i \in 1 .. Len(t) : i \in 1 .. Len(s) /\ t[i] = s[i]
  BY NewestShape, LenProperties DEF RingSize
<1> HIDE DEF t, cell, sp
<1>3. ASSUME NEW i \in 1 .. Len(t)
      PROVE  Top(c, i) = Top(b, i) /\ Cell(c, i) = Cell(b, i)
  <2>1. Cell(c, i) = Cell(b, i)
    BY DEF Cell, KeptBut
  <2>2. i \in Int /\ i \in 1 .. 256 /\ i <= n
    BY <1>2 DEF RingSize
  <2>3. a < RAM_MIRROR_END => STACK_START + Cell(b, i) # cell
    BY <1>1, <2>2, BelowCell DEF Cell, cell, sp
  <2>4. STACK_START + Cell(b, i) \in 0 .. RAM_SIZE - 1
    <3>1. Cell(b, i) \in u8
      BY <1>1, <2>2, Ring DEF Cell, sp
    <3> QED
      BY <3>1, StackCells
  <2>5. c.cpu_ram[STACK_START + Cell(b, i)] = b.cpu_ram[STACK_START + Cell(b, i)]
    BY <2>3, <2>4 DEF KeptBut, cell
  <2> QED
    BY <2>1, <2>5 DEF Top
<1> QED
  BY <1>2, <1>3 DEF Describes, t

LEMMA PoppedDescribes ==
  ASSUME NEW s \in Seq(Entry), NEW b, NEW c, NEW n \in Nat, Popped(b, c, n), Describes(s, b)
  PROVE  /\ SubSeq(s, n + 1, Len(s)) \in Seq(Entry)
         /\ Len(SubSeq(s, n + 1, Len(s))) <= Len(s)
         /\ Describes(SubSeq(s, n + 1, Len(s)), c)
<1> DEFINE t == SubSeq(s, n + 1, Len(s))
<1>1. Len(s) \in Nat /\ n + 1 \in Int
  BY LenProperties
<1>2. \A i \in n + 1 .. Len(s) : s[i] \in Entry
  BY <1>1, ElementOfSeq
<1>3. /\ t \in Seq(Entry)
      /\ Len(t) = IF n + 1 <= Len(s) THEN Len(s) - (n + 1) + 1 ELSE 0
      /\ \A i \in 1 .. Len(s) - (n + 1) + 1 : t[i] = s[(n + 1) + i - 1]
  BY <1>1, <1>2, SubSeqProperties
<1> HIDE DEF t
<1>4. ASSUME NEW i \in 1 .. Len(t)
      PROVE  Top(c, i) = t[i].value /\ (t[i].fn = "jsr" => InPlace(t[i], Cell(c, i)))
  <2>1. i \in Int /\ i + n \in 1 .. Len(s) /\ t[i] = s[i + n]
    <3>1. /\ i \in Int /\ i \in 1 .. Len(s) - (n + 1) + 1
          /\ (n + 1) + i - 1 = i + n /\ i + n \in 1 .. Len(s)
      BY <1>1, <1>3
    <3>2. t[i] = s[(n + 1) + i - 1]
      BY <1>3, <3>1
    <3> QED
      BY <3>1, <3>2
  <2>2. Top(c, i) = Top(b, i + n) /\ Cell(c, i) = Cell(b, i + n)
    BY <2>1 DEF Popped
  <2> QED
    BY <2>1, <2>2 DEF Describes
<1>5. Len(t) <= Len(s)
  BY <1>1, <1>3
<1> QED
  BY <1>3, <1>4, <1>5 DEF Describes, t

LEMMA PushedDescribes ==
  ASSUME NEW s \in Seq(Entry), NEW e \in Seq(Entry), NEW b, NEW c,
         Pushed(b, c, Len(e)), Describes(e, c), Describes(s, b)
  PROVE  /\ Newest(RingSize, e \o s) \in Seq(Entry)
         /\ Len(Newest(RingSize, e \o s)) <= RingSize
         /\ Describes(Newest(RingSize, e \o s), c)
<1> DEFINE n == Len(e)
           whole == e \o s
           t == Newest(RingSize, whole)
<1>1. n \in Nat /\ Len(s) \in Nat
  BY LenProperties
<1>2. /\ whole \in Seq(Entry) /\ Len(whole) = n + Len(s)
      /\ \A i \in 1 .. n + Len(s) : whole[i] = IF i <= n THEN e[i] ELSE s[i - n]
  BY ConcatProperties
<1> HIDE DEF whole
<1>3. /\ t \in Seq(Entry) /\ Len(t) \in Nat /\ Len(t) <= RingSize /\ Len(t) <= n + Len(s)
      /\ \A i \in 1 .. Len(t) : t[i] = whole[i]
  <2>1. RingSize \in Nat
    BY DEF RingSize
  <2>2. /\ t \in Seq(Entry) /\ Len(t) = IF RingSize < Len(whole) THEN RingSize ELSE Len(whole)
        /\ \A i \in 1 .. Len(t) : t[i] = whole[i]
    BY <1>2, <2>1, NewestShape
  <2> QED
    BY <1>1, <1>2, <2>1, <2>2
<1> HIDE DEF t, n
<1>4. ASSUME NEW i \in 1 .. Len(t)
      PROVE  Top(c, i) = t[i].value /\ (t[i].fn = "jsr" => InPlace(t[i], Cell(c, i)))
  <2>1. i \in Int /\ i \in 1 .. n + Len(s) /\ i <= RingSize
    BY <1>1, <1>3 DEF RingSize
  <2>2. CASE i <= n
    <3>1. t[i] = e[i] /\ i \in 1 .. n
      BY <1>1, <1>2, <1>3, <2>1, <2>2
    <3> QED
      BY <3>1 DEF Describes, n
  <2>3. CASE ~(i <= n)
    <3>1. t[i] = s[i - n] /\ i - n \in 1 .. Len(s) /\ i \in n + 1 .. RingSize
      BY <1>1, <1>2, <1>3, <2>1, <2>3 DEF RingSize
    <3>2. Top(c, i) = Top(b, i - n) /\ Cell(c, i) = Cell(b, i - n)
      BY <2>1, <3>1 DEF Pushed, n
    <3> QED
      BY <3>1, <3>2 DEF Describes
  <2> QED
    BY <2>2, <2>3
<1> QED
  BY <1>3, <1>4 DEF Describes, t, whole

-----------------------------------------------------------------------------
(* One iteration of the loop of run_cpu.                                   *)

\* An iteration pushes and pops what its instruction function does.
LEMMA IterationTops ==
  ASSUME bus \in ProgramState, NEW after \in BusState,
         Retires(Fetched, Operand, after)
  PROVE  /\ \A n : /\ Pushed(Operand.bus, after, n) => Pushed(bus, bus', n)
                   /\ Popped(Operand.bus, after, n) => Popped(bus, bus', n)
         /\ \A i : /\ Top(bus', i) = Top(after, i)
                   /\ Top(Operand.bus, i) = Top(bus, i)
<1>1. Kept(bus, Operand.bus) /\ Kept(after, bus')
  BY OperandKeeps, RetiresKeeps
<1>2. ASSUME NEW n
      PROVE  /\ Pushed(Operand.bus, after, n) => Pushed(bus, bus', n)
             /\ Popped(Operand.bus, after, n) => Popped(bus, bus', n)
  BY <1>1, PushedKept
<1>3. \A i : Top(bus', i) = Top(after, i) /\ Top(Operand.bus, i) = Top(bus, i)
  BY <1>1, KeptTop
<1> QED
  BY <1>2, <1>3

\* The function of an instruction of the stack, around which the step is.
LEMMA StackFunctions ==
  ASSUME Step
  PROVE  LET retires(after) == Retires(Fetched, Operand, after)
             b == Operand.bus
             a == Operand.address
         IN  /\ Fetched.fn = "pha" => retires(pha_fn(b, a))
             /\ Fetched.fn = "php" => retires(php_fn(b, a))
             /\ Fetched.fn = "pla" => retires(pla_fn(b, a))
             /\ Fetched.fn = "plp" => retires(plp_fn(b, a))
             /\ Fetched.fn = "jsr" => retires(jsr_fn(b, a))
             /\ Fetched.fn = "rts" => retires(rts_fn(b, a))
             /\ Fetched.fn = "rti" => retires(rti_fn(b, a))
             /\ Fetched.fn = "brk" => retires(brk_fn(b, a))
<1>1. Fetched.fn \in {"pha", "php", "pla", "plp"} => Stack
  BY Families DEF LoadFns, StoreFns, TransferFns, AluFns, IncDecFns, AccShiftFns, RmwFns,
                  BranchFns, JumpFns, FlagFns, EmptyFns
<1>2. Fetched.fn \in {"jsr", "rts", "rti", "brk"} => Jump
  BY Families DEF LoadFns, StoreFns, TransferFns, AluFns, IncDecFns, AccShiftFns, RmwFns,
                  BranchFns, StackFns, FlagFns, EmptyFns
<1> QED
  BY <1>1, <1>2 DEF Stack, Jump, Execute, Dispatches, Operand

-----------------------------------------------------------------------------
(* What an iteration does to the history.                                  *)

\* JSR and BRK push the address of their last byte or of the one after
\* their opcode, which the program counter has passed by then.
LEMMA CallAddress ==
  ASSUME bus \in ProgramState
  PROVE  /\ Fetched.fn = "jsr" =>
              ToU16(Operand.bus.program_counter - 1) = ToU16(bus.program_counter + 2)
         /\ Fetched.fn = "brk" =>
              ToU16(Operand.bus.program_counter + 1) = ToU16(bus.program_counter + 2)
<1> DEFINE pc == bus.program_counter
           mode == Fetched.addressing_mode
<1>1. pc \in u16 /\ bus \in BusState
  BY ProgramFields DEF ProgramState
<1>2. /\ Fetched.fn = "jsr" => mode = "Absolute"
      /\ Fetched.fn = "brk" => mode = "Implied"
  BY <1>1, ReadType, CallRowsAssumption DEF Fetched, get_next_opcode
<1>3. Operand.bus.program_counter = ToU16(ToU16(pc + 1) + OperandBytes(mode))
  BY OperandKeeps
<1> HIDE DEF mode, pc
<1>4. ToU16(ToU16(ToU16(pc + 1) + 2) - 1) = ToU16(pc + 2)
  BY <1>1, U16 DEF ToU16
<1>5. ToU16(ToU16(ToU16(pc + 1) + 0) + 1) = ToU16(pc + 2)
  BY <1>1, U16 DEF ToU16
<1>6. OperandBytes("Absolute") = 2 /\ OperandBytes("Implied") = 0
  BY DEF OperandBytes
<1> QED
  BY <1>2, <1>3, <1>4, <1>5, <1>6 DEF pc

LEMMA ValuesShape ==
  ASSUME bus \in ProgramState, NEW fn
  PROVE  /\ PushedValues(fn) \in Seq(u8)
         /\ Len(PushedValues(fn)) = CASE fn \in {"pha", "php"} -> 1 [] fn = "jsr" -> 2
                                      [] fn = "brk" -> 3 [] OTHER -> 0
<1> DEFINE last == ToU16(bus.program_counter + 2)
           lo == LowByte(last)
           hi == HighByte(last)
<1>1. lo \in u8 /\ hi \in u8
  <2>1. last \in u16 /\ last \in Int
    BY ProgramFields, U16 DEF ToU16
  <2> QED
    BY <2>1, Widths
<1> HIDE DEF lo, hi
<1>2. /\ bus.accumulator \in u8
      /\ Byte(bus.status \cup {BreakCommand, UnusedFlag}) \in u8
      /\ Byte(bus.status \cup {BreakCommand}) \in u8
  BY ProgramFields, ByteType
<1>3. PushedValues(fn)
        = CASE fn = "pha" -> << bus.accumulator >>
            [] fn = "php" -> << Byte(bus.status \cup {BreakCommand, UnusedFlag}) >>
            [] fn = "jsr" -> << lo, hi >>
            [] fn = "brk" -> << Byte(bus.status \cup {BreakCommand}), lo, hi >>
            [] OTHER -> << >>
  BY DEF PushedValues, lo, hi
<1> QED
  BY <1>1, <1>2, <1>3

LEMMA EntriesShape ==
  ASSUME bus \in ProgramState, NEW fn \in Fns
  PROVE  /\ Entries(fn) \in Seq(Entry)
         /\ Len(Entries(fn)) = Len(PushedValues(fn))
         /\ \A i \in 1 .. Len(Entries(fn)) :
              /\ Entries(fn)[i].value = PushedValues(fn)[i]
              /\ Entries(fn)[i].fn = fn
              /\ Entries(fn)[i].at = bus.program_counter
              /\ Entries(fn)[i].sp = bus.stack_pointer
<1> DEFINE values == PushedValues(fn)
           n == Len(values)
           entry(i) == [value |-> values[i], fn |-> fn,
                        at |-> bus.program_counter, sp |-> bus.stack_pointer]
<1>1. n \in Nat /\ DOMAIN values = 1 .. n /\ \A i \in 1 .. n : values[i] \in u8
  BY ValuesShape, LenProperties, ElementOfSeq
<1>2. Entries(fn) = [i \in 1 .. n |-> entry(i)]
  BY <1>1 DEF Entries
<1> HIDE DEF values, n
<1>3. \A i \in 1 .. n : entry(i) \in Entry
  BY <1>1, ProgramFields DEF Entry
<1> HIDE DEF entry
<1>4. [i \in 1 .. n |-> entry(i)] \in [1 .. n -> Entry]
  BY <1>3
<1>5. [i \in 1 .. n |-> entry(i)] \in Seq(Entry)
  BY <1>1, <1>4, SeqDef
<1>6. Len([i \in 1 .. n |-> entry(i)]) = n
  BY <1>1, <1>5, LenProperties
<1>7. \A i \in 1 .. n : /\ entry(i).value = values[i] /\ entry(i).fn = fn
                       /\ entry(i).at = bus.program_counter
                       /\ entry(i).sp = bus.stack_pointer
  BY DEF entry
<1> QED
  BY <1>2, <1>5, <1>6, <1>7 DEF values, n

\* The values that the history records are those on the stack.
LEMMA PushStep ==
  ASSUME bus \in ProgramState, Step, Fetched.fn \in {"pha", "php", "jsr", "brk"}
  PROVE  /\ Pushed(bus, bus', Len(PushedValues(Fetched.fn)))
         /\ \A i \in 1 .. Len(PushedValues(Fetched.fn)) :
              Top(bus', i) = PushedValues(Fetched.fn)[i]
<1> DEFINE b == Operand.bus
           a == Operand.address
           values == PushedValues(Fetched.fn)
<1>1. b \in ProgramState /\ a \in u16
  BY OperandType
<1>2. b.accumulator = bus.accumulator /\ b.status = bus.status
  BY OperandKeeps
<1> HIDE DEF b, a
<1>3. ASSUME NEW after \in BusState, Retires(Fetched, Operand, after)
      PROVE  /\ \A n : Pushed(b, after, n) => Pushed(bus, bus', n)
             /\ \A i : Top(bus', i) = Top(after, i)
  BY <1>3, IterationTops DEF b
<1>4. CASE Fetched.fn = "pha"
  <2>1. Retires(Fetched, Operand, pha_fn(b, a)) /\ pha_fn(b, a) \in BusState
    BY <1>1, <1>4, StackFunctions, StackFnsType DEF b, a, ProgramState
  <2>2. Pushed(bus, bus', 1) /\ Top(bus', 1) = bus.accumulator
    BY <1>1, <1>2, <1>3, <2>1, PhaPhpPush
  <2>3. values = << bus.accumulator >>
    BY <1>4 DEF PushedValues
  <2> QED
    BY <2>2, <2>3
<1>5. CASE Fetched.fn = "php"
  <2>1. Retires(Fetched, Operand, php_fn(b, a)) /\ php_fn(b, a) \in BusState
    BY <1>1, <1>5, StackFunctions, StackFnsType DEF b, a, ProgramState
  <2>2. Pushed(bus, bus', 1)
        /\ Top(bus', 1) = Byte(bus.status \cup {BreakCommand, UnusedFlag})
    BY <1>1, <1>2, <1>3, <2>1, PhaPhpPush
  <2>3. values = << Byte(bus.status \cup {BreakCommand, UnusedFlag}) >>
    BY <1>5 DEF PushedValues
  <2> QED
    BY <2>2, <2>3
<1>6. CASE Fetched.fn = "jsr"
  <2> DEFINE last == ToU16(bus.program_counter + 2)
  <2>1. Retires(Fetched, Operand, jsr_fn(b, a)) /\ jsr_fn(b, a) \in BusState
    BY <1>1, <1>6, StackFunctions, JumpType DEF b, a, ProgramState
  <2>2. ToU16(b.program_counter - 1) = last
    BY <1>6, CallAddress DEF b
  <2>3. values = << LowByte(last), HighByte(last) >>
    BY <1>6 DEF PushedValues
  <2> HIDE DEF last
  <2>4. /\ Pushed(bus, bus', 2)
        /\ Top(bus', 1) = LowByte(last) /\ Top(bus', 2) = HighByte(last)
    BY <1>1, <1>3, <2>1, <2>2, JsrPush
  <2> QED
    BY <2>3, <2>4
<1>7. CASE Fetched.fn = "brk"
  <2> DEFINE last == ToU16(bus.program_counter + 2)
             status == Byte(bus.status \cup {BreakCommand})
  <2>1. Retires(Fetched, Operand, brk_fn(b, a)) /\ brk_fn(b, a) \in BusState
    BY <1>1, <1>7, StackFunctions, BrkType DEF b, a
  <2>2. ToU16(b.program_counter + 1) = last
    BY <1>7, CallAddress DEF b
  <2>3. values = << status, LowByte(last), HighByte(last) >>
    BY <1>7 DEF PushedValues
  <2> HIDE DEF last, status
  <2>4. /\ Pushed(bus, bus', 3) /\ Top(bus', 1) = status
        /\ Top(bus', 2) = LowByte(last) /\ Top(bus', 3) = HighByte(last)
    BY <1>1, <1>2, <1>3, <2>1, <2>2, BrkPush DEF status
  <2> QED
    BY <2>3, <2>4
<1> QED
  BY <1>4, <1>5, <1>6, <1>7

\* An instruction that pops finds the values on the stack.
LEMMA PopStep ==
  ASSUME bus \in ProgramState, Step, PoppedCount(Fetched.fn) > 0
  PROVE  LET fn == Fetched.fn
             status == (Bits(Top(bus, 1)) \ {BreakCommand}) \cup {UnusedFlag}
         IN  /\ Popped(bus, bus', PoppedCount(fn))
             /\ fn = "pla" => bus'.accumulator = Top(bus, 1)
             /\ fn \in {"plp", "rti"} => bus'.status = status
             /\ PopsLowByteFirst /\ fn = "rts" =>
                  bus'.program_counter = ToU16(Word(Top(bus, 2), Top(bus, 1)) + 1)
             /\ PopsLowByteFirst /\ fn = "rti" =>
                  bus'.program_counter = Word(Top(bus, 3), Top(bus, 2))
<1> DEFINE b == Operand.bus
           a == Operand.address
<1>1. b \in ProgramState /\ a \in u16 /\ (\A i : Top(b, i) = Top(bus, i))
  BY OperandType, OperandKeeps, KeptTop
<1> HIDE DEF b, a
<1>2. ASSUME NEW after \in BusState, Retires(Fetched, Operand, after)
      PROVE  /\ \A n : Popped(b, after, n) => Popped(bus, bus', n)
             /\ bus'.accumulator = after.accumulator /\ bus'.status = after.status
             /\ bus'.program_counter = after.program_counter
  BY <1>2, IterationTops, RetiresKeeps DEF b
<1>3. CASE Fetched.fn = "pla"
  <2>1. Retires(Fetched, Operand, pla_fn(b, a)) /\ pla_fn(b, a) \in BusState
    BY <1>1, <1>3, StackFunctions, StackFnsType DEF b, a, ProgramState
  <2> QED
    BY <1>1, <1>2, <1>3, <2>1, PlaPop DEF PoppedCount
<1>4. CASE Fetched.fn = "plp"
  <2>1. Retires(Fetched, Operand, plp_fn(b, a)) /\ plp_fn(b, a) \in BusState
    BY <1>1, <1>4, StackFunctions, PlpType DEF b, a, ProgramState
  <2> QED
    BY <1>1, <1>2, <1>4, <2>1, PlpPop DEF PoppedCount
<1>5. CASE Fetched.fn = "rts"
  <2>1. Retires(Fetched, Operand, rts_fn(b, a)) /\ rts_fn(b, a) \in BusState
    BY <1>1, <1>5, StackFunctions, JumpType DEF b, a, ProgramState
  <2> QED
    BY <1>1, <1>2, <1>5, <2>1, RtsPop DEF PoppedCount
<1>6. CASE Fetched.fn = "rti"
  <2>1. Retires(Fetched, Operand, rti_fn(b, a)) /\ rti_fn(b, a) \in BusState
    BY <1>1, <1>6, StackFunctions, JumpType DEF b, a, ProgramState
  <2> QED
    BY <1>1, <1>2, <1>6, <2>1, RtiPop DEF PoppedCount
<1> QED
  BY <1>3, <1>4, <1>5, <1>6 DEF PoppedCount

-----------------------------------------------------------------------------
(* The invariant.                                                          *)

\* The history describes the stack from the reset on; before, the stack
\* pointer is still to be set and the history is empty.
StackInv ==
  /\ IInv
  /\ pushed \in Seq(Entry)
  /\ Len(pushed) <= RingSize
  /\ Describes(pushed, bus)
  /\ phase \in {"loaded", "reset"} => pushed = << >>

\* After an iteration the history describes the stack.
Remembered ==
  pushed' \in Seq(Entry) /\ Len(pushed') <= RingSize /\ Describes(pushed', bus')

LEMMA QuietRemembers ==
  ASSUME StackInv, bus \in ProgramState, Step, Remember, Fetched.fn \in QuietFns
  PROVE  Remembered
<1>1. /\ Fetched.fn # "txs" /\ ~Overwrites(Fetched.fn) /\ PoppedCount(Fetched.fn) = 0
      /\ Fetched.fn \notin {"pha", "php", "jsr", "brk"}
  BY DEF QuietFns, Overwrites, PoppedCount, StackFns
<1>2. Len(Entries(Fetched.fn)) = 0 /\ Entries(Fetched.fn) \in Seq(Entry)
  BY <1>1, ValuesShape, EntriesShape DEF QuietFns
<1>3. Entries(Fetched.fn) \o pushed = pushed
  BY <1>2, EmptySeq, ConcatEmptySeq DEF StackInv
<1>4. pushed' = pushed
  BY <1>1, <1>3, NewestAll DEF Remember, StackInv
<1>5. Describes(pushed, bus')
  BY QuietStep, KeptDescribes DEF StackInv
<1> QED
  BY <1>4, <1>5 DEF Remembered, StackInv

LEMMA TxsRemembers ==
  ASSUME Remember, Fetched.fn = "txs"
  PROVE  Remembered
<1>1. ~Overwrites("txs") /\ ~(PoppedCount("txs") > 0)
  BY DEF Overwrites, PoppedCount, StoreFns, RmwFns
<1>2. pushed' = << >>
  BY <1>1 DEF Remember
<1>3. << >> \in Seq(Entry) /\ Len(<< >>) = 0
  BY EmptySeq
<1>4. Describes(<< >>, bus')
  BY <1>3 DEF Describes
<1> QED
  BY <1>2, <1>3, <1>4 DEF Remembered, RingSize

LEMMA WriteRemembers ==
  ASSUME StackInv, bus \in ProgramState, Step, Remember,
         Fetched.fn \in StoreFns \cup RmwFns
  PROVE  Remembered
<1> DEFINE a == Operand.address
           n == IF a < RAM_MIRROR_END
                     /\ RamCell(a) \in STACK_START .. STACK_START + RingSize - 1
                  THEN ToU8(RamCell(a) - STACK_START - bus.stack_pointer - 1)
                  ELSE RingSize
<1>1. /\ Fetched.fn # "txs" /\ PoppedCount(Fetched.fn) = 0
      /\ Fetched.fn \notin {"pha", "php", "jsr", "brk"}
  BY DEF PoppedCount, StoreFns, RmwFns
<1>2. KeptBut(a, bus, bus') /\ a \in u16
  BY WriteStep, OperandType
<1>3. n \in Nat
  <2>1. RamCell(a) \in Int /\ bus.stack_pointer \in Int
    BY <1>2, RamCellType, ProgramFields, U8
  <2>2. RamCell(a) - STACK_START - bus.stack_pointer - 1 \in Int
    BY <2>1 DEF STACK_START
  <2>3. ToU8(RamCell(a) - STACK_START - bus.stack_pointer - 1) \in Nat
    BY <2>2, Widths, U8
  <2> QED
    BY <2>3 DEF RingSize
<1>4. pushed' = Newest(n, pushed)
  <2>1. CASE a < RAM_MIRROR_END
    BY <1>1, <2>1 DEF Remember, Overwrites, Intact
  <2>2. CASE ~(a < RAM_MIRROR_END)
    <3>1. ~Overwrites(Fetched.fn)
      BY <2>2 DEF Overwrites
    <3>2. Len(Entries(Fetched.fn)) = 0 /\ Entries(Fetched.fn) \in Seq(Entry)
      BY <1>1, ValuesShape, EntriesShape, OperandType
    <3>3. Entries(Fetched.fn) \o pushed = pushed
      BY <3>2, EmptySeq, ConcatEmptySeq DEF StackInv
    <3> QED
      BY <1>1, <2>2, <3>1, <3>3 DEF Remember
  <2> QED
    BY <2>1, <2>2
<1>5. Describes(Newest(n, pushed), bus')
  BY <1>2, <1>3, WriteDescribes DEF StackInv, ProgramState
<1> HIDE DEF n
<1>6. /\ Newest(n, pushed) \in Seq(Entry)
      /\ Len(Newest(n, pushed)) = IF n < Len(pushed) THEN n ELSE Len(pushed)
  BY <1>3, NewestShape DEF StackInv
<1>7. Len(Newest(n, pushed)) <= RingSize
  BY <1>3, <1>6, LenProperties DEF StackInv, RingSize
<1> QED
  BY <1>4, <1>5, <1>6, <1>7 DEF Remembered

LEMMA PopRemembers ==
  ASSUME StackInv, bus \in ProgramState, Step, Remember, PoppedCount(Fetched.fn) > 0
  PROVE  Remembered
<1> DEFINE n == PoppedCount(Fetched.fn)
<1>1. /\ Fetched.fn # "txs" /\ ~Overwrites(Fetched.fn)
      /\ n \in Nat
  BY DEF PoppedCount, Overwrites, StoreFns, RmwFns
<1>2. pushed' = SubSeq(pushed, n + 1, Len(pushed))
  BY <1>1 DEF Remember
<1>3. Popped(bus, bus', n)
  BY PopStep
<1> HIDE DEF n
<1>4. /\ SubSeq(pushed, n + 1, Len(pushed)) \in Seq(Entry)
      /\ Len(SubSeq(pushed, n + 1, Len(pushed))) <= Len(pushed)
      /\ Describes(SubSeq(pushed, n + 1, Len(pushed)), bus')
  BY <1>1, <1>3, PoppedDescribes DEF StackInv
<1>5. Len(SubSeq(pushed, n + 1, Len(pushed))) <= RingSize
  BY <1>4, LenProperties DEF StackInv, RingSize
<1> QED
  BY <1>2, <1>4, <1>5 DEF Remembered

LEMMA PushRemembers ==
  ASSUME StackInv, bus \in ProgramState, Step, Remember,
         Fetched.fn \in {"pha", "php", "jsr", "brk"}
  PROVE  Remembered
<1> DEFINE fn == Fetched.fn
           e  == Entries(fn)
           n  == Len(e)
           pc == bus.program_counter
           sp == bus.stack_pointer
<1>1. /\ fn # "txs" /\ ~Overwrites(fn) /\ ~(PoppedCount(fn) > 0) /\ fn \in Fns
  BY OperandType DEF PoppedCount, Overwrites, StoreFns, RmwFns
<1>2. pushed' = Newest(RingSize, e \o pushed)
  BY <1>1 DEF Remember
<1>3. /\ e \in Seq(Entry) /\ n = Len(PushedValues(fn))
      /\ \A i \in 1 .. n : /\ e[i].value = PushedValues(fn)[i] /\ e[i].fn = fn
                          /\ e[i].at = pc /\ e[i].sp = sp
  BY <1>1, EntriesShape
<1>4. Pushed(bus, bus', n) /\ (\A i \in 1 .. n : Top(bus', i) = PushedValues(fn)[i])
  BY <1>3, PushStep
<1>5. sp \in u8
  BY ProgramFields
<1>6. fn = "jsr" => n = 2 /\ PushedValues(fn) = << LowByte(ToU16(pc + 2)),
                                                   HighByte(ToU16(pc + 2)) >>
  BY <1>3, ValuesShape DEF PushedValues
<1>7. \A i \in Int : Cell(bus', i) = ToU8(sp + (i - n))
  BY <1>4 DEF Pushed, Cell
<1> HIDE DEF e, n, pc, sp
<1>8. ASSUME fn = "jsr", NEW i \in 1 .. n
      PROVE  InPlace(e[i], Cell(bus', i))
  <2> DEFINE last == ToU16(pc + 2)
  <2>1. e[i].at = pc /\ e[i].sp = sp /\ e[i].value = PushedValues(fn)[i]
    BY <1>3
  <2>2. Cell(bus', 1) = ToU8(sp - 1) /\ Cell(bus', 2) = sp
    <3>1. Cell(bus', 1) = ToU8(sp + (1 - 2)) /\ Cell(bus', 2) = ToU8(sp + (2 - 2))
      BY <1>6, <1>7, <1>8
    <3>2. sp + (1 - 2) = sp - 1 /\ ToU8(sp + (2 - 2)) = sp
      BY <1>5, U8 DEF ToU8
    <3> QED
      BY <3>1, <3>2
  <2>3. PushedValues(fn) = << LowByte(last), HighByte(last) >> /\ i \in 1 .. 2
    BY <1>6, <1>8
  <2> HIDE DEF fn
  <2>4. CASE i = 1
    BY <2>1, <2>2, <2>3, <2>4 DEF InPlace
  <2>5. CASE i = 2
    BY <2>1, <2>2, <2>3, <2>5 DEF InPlace
  <2> QED
    BY <2>3, <2>4, <2>5
<1>9. Describes(e, bus')
  <2>1. ASSUME NEW i \in 1 .. n
        PROVE  Top(bus', i) = e[i].value /\ e[i].fn = fn
    BY <1>3, <1>4
  <2> QED
    BY <1>8, <2>1 DEF Describes, n
<1> QED
  BY <1>2, <1>3, <1>4, <1>9, PushedDescribes DEF Remembered, StackInv, n, e

LEMMA StepRemembers ==
  ASSUME StackInv, bus \in ProgramState, Step, Remember
  PROVE  Remembered
<1>1. Fetched.fn \in Fns
  BY OperandType
<1>2. Fetched.fn \in StackFns \cup {"jsr", "rts", "rti", "brk"} =>
        PoppedCount(Fetched.fn) > 0 \/ Fetched.fn \in {"pha", "php", "jsr", "brk"}
  BY DEF StackFns, PoppedCount
<1> QED
  BY <1>1, <1>2, QuietRemembers, TxsRemembers, WriteRemembers, PopRemembers, PushRemembers
     DEF QuietFns

-----------------------------------------------------------------------------

LEMMA InitStackInv == StackInit => StackInv
<1> SUFFICES ASSUME StackInit PROVE StackInv
  OBVIOUS
<1>1. IInv
  BY InitIInv DEF StackInit
<1>2. << >> \in Seq(Entry) /\ Len(<< >>) = 0
  BY EmptySeq
<1>3. Describes(<< >>, bus)
  BY <1>2 DEF Describes
<1> QED
  BY <1>1, <1>2, <1>3 DEF StackInit, StackInv, RingSize

LEMMA StepWhileRunning ==
  ASSUME IInv, Step
  PROVE  phase = "running" /\ bus \in ProgramState
         /\ phase' \in {"running", "returned"}
<1>1. phase = "running"
  BY DEF Step, Load, Store, Transfer, Alu, IncDec, Shift, ReadModifyWrite, Branch, Jump,
         Stack, Flag, Empty, Execute, Dispatches
<1>2. phase' = phase \/ phase' = "returned"
  BY DEF Step, Load, Store, Transfer, Alu, IncDec, Shift, ReadModifyWrite, Branch, Jump,
         Stack, Flag, Empty, Execute, Retires
<1> QED
  BY <1>1, <1>2, RunningType

LEMMA NextStackInv == StackInv /\ [StackNext]_stackVars => StackInv'
<1> SUFFICES ASSUME StackInv, [StackNext]_stackVars PROVE StackInv'
  OBVIOUS
<1>1. IInv'
  <2>1. [Next]_vars
    BY DEF StackNext, stackVars, Next, vars, Stopped
  <2> QED
    BY <2>1, NextIInv DEF StackInv
<1>2. CASE (BusReset \/ Start) /\ UNCHANGED pushed
  <2>1. pushed' = << >>
    BY <1>2 DEF BusReset, Start, StackInv
  <2>2. << >> \in Seq(Entry) /\ Len(<< >>) = 0
    BY EmptySeq
  <2>3. Describes(<< >>, bus')
    BY <2>2 DEF Describes
  <2> QED
    BY <1>1, <2>1, <2>2, <2>3 DEF StackInv, RingSize
<1>3. CASE Step /\ Remember
  <2>1. bus \in ProgramState /\ phase' \notin {"loaded", "reset"}
    BY <1>3, StepWhileRunning DEF StackInv
  <2>2. Remembered
    BY <1>3, <2>1, StepRemembers
  <2> QED
    BY <1>1, <2>1, <2>2 DEF StackInv, Remembered
<1>4. CASE UNCHANGED stackVars
  BY <1>1, <1>4 DEF stackVars, StackInv, Describes, Top, Cell
<1> QED
  BY <1>2, <1>3, <1>4 DEF StackNext, Stopped, stackVars, vars

LEMMA StackInvariance == StackSpec => []StackInv
  BY InitStackInv, NextStackInv, PTL DEF StackSpec

\* What a program has pushed and neither popped nor overwritten is in page
\* one, newest first from the stack pointer on: the newest 256 bytes of it.
THEOREM PageOneHoldsPushed == StackSpec => []StackHoldsPushed
<1>1. StackInv => StackHoldsPushed
  <2> SUFFICES ASSUME StackInv, NEW i \in DOMAIN pushed
               PROVE  bus.cpu_ram[STACK_START + ToU8(bus.stack_pointer + i)]
                        = pushed[i].value
    BY DEF StackHoldsPushed
  <2>1. i \in 1 .. Len(pushed)
    BY LenProperties DEF StackInv
  <2> QED
    BY <2>1 DEF StackInv, Describes, Top, Cell
<1> QED
  BY <1>1, StackInvariance, PTL

\* With the order of reads that the emulator needs, PLA, PLP, RTS and RTI
\* get what was pushed last.
THEOREM PopsUndoPushes ==
  ASSUME PopsLowByteFirst
  PROVE  StackSpec => Lifo
<1>1. StackInv /\ [StackNext]_stackVars => [phase = "running" => PopsNewest]_stackVars
  <2> SUFFICES ASSUME StackInv, StackNext, phase = "running", stackVars' # stackVars
               PROVE  PopsNewest
    OBVIOUS
  <2>1. Step
    BY DEF StackNext, BusReset, Start, Stopped, stackVars, vars
  <2>2. bus \in ProgramState
    BY <2>1, StepWhileRunning DEF StackInv
  <2>3. ASSUME NEW n \in 1 .. 3, Len(pushed) >= n
        PROVE  \A i \in 1 .. n : Top(bus, i) = pushed[i].value
    BY <2>3, LenProperties DEF StackInv, Describes
  <2>4. CASE Fetched.fn = "pla"
    BY <2>1, <2>2, <2>3, <2>4, PopStep DEF PopsNewest, PoppedCount
  <2>5. CASE Fetched.fn = "plp"
    BY <2>1, <2>2, <2>3, <2>5, PopStep DEF PopsNewest, PoppedCount
  <2>6. CASE Fetched.fn = "rts"
    BY <2>1, <2>2, <2>3, <2>6, PopStep DEF PopsNewest, PoppedCount
  <2>7. CASE Fetched.fn = "rti"
    BY <2>1, <2>2, <2>3, <2>7, PopStep DEF PopsNewest, PoppedCount
  <2> QED
    BY <2>4, <2>5, <2>6, <2>7 DEF PopsNewest
<1> QED
  BY <1>1, StackInvariance, PTL DEF StackSpec, Lifo

\* A subroutine that has popped what it pushed returns behind the JSR that
\* called it, with the stack pointer of before the call.
THEOREM SubroutinesReturn ==
  ASSUME PopsLowByteFirst
  PROVE  StackSpec => ReturnsToCaller
<1> DEFINE Returns == /\ bus'.program_counter = ToU16(pushed[1].at + 3)
                      /\ bus'.stack_pointer = pushed[1].sp
<1>1. StackInv /\ [StackNext]_stackVars
        => [phase = "running" /\ AtReturn => Returns]_stackVars
  <2> SUFFICES ASSUME StackInv, StackNext, phase = "running", AtReturn,
                      stackVars' # stackVars
               PROVE  Returns
    OBVIOUS
  <2> DEFINE e  == pushed[1]
             f  == pushed[2]
             sp == bus.stack_pointer
             last == ToU16(e.at + 2)
  <2>1. Step
    BY DEF StackNext, BusReset, Start, Stopped, stackVars, vars
  <2>2. bus \in ProgramState
    BY <2>1, StepWhileRunning DEF StackInv
  <2>3. 1 \in 1 .. Len(pushed) /\ 2 \in 1 .. Len(pushed)
    <3>1. Len(pushed) \in Nat
      BY LenProperties DEF StackInv
    <3> QED
      BY <3>1 DEF AtReturn
  <2>4. e \in Entry /\ f \in Entry /\ e.fn = "jsr" /\ f.fn = "jsr"
        /\ f.at = e.at /\ f.sp = e.sp
    BY <2>3, ElementOfSeq DEF AtReturn, StackInv
  <2>5. /\ Top(bus, 1) = e.value /\ InPlace(e, Cell(bus, 1))
        /\ Top(bus, 2) = f.value /\ InPlace(f, Cell(bus, 2))
    BY <2>3, <2>4 DEF StackInv, Describes
  <2>6. /\ bus'.program_counter = ToU16(Word(f.value, e.value) + 1)
        /\ Cell(bus', 0) = Cell(bus, 2)
    BY <2>1, <2>2, <2>5, PopStep DEF AtReturn, PoppedCount, Popped
  <2> HIDE DEF e, f
  <2>7. sp \in u8 /\ e.sp \in u8 /\ e.at \in u16 /\ bus'.stack_pointer \in u8
    BY <2>1, <2>2, <2>4, NextStackInv, ProgramFields, FieldTypes
       DEF Entry, StackInv, IInv, TypeOK
  <2>8. Cell(bus, 2) = e.sp /\ e.value = LowByte(last) /\ f.value = HighByte(last)
    <3>1. Cell(bus, 1) = ToU8(sp + 1) /\ Cell(bus, 2) = ToU8(sp + 2)
      BY DEF Cell
    <3>2. ~(ToU8(sp + 1) = e.sp /\ ToU8(sp + 2) = ToU8(e.sp - 1))
      BY <2>7, U8 DEF ToU8
    <3>3. ~(ToU8(sp + 1) = e.sp /\ ToU8(sp + 2) = e.sp)
      BY <2>7, U8 DEF ToU8
    <3>4. ~(ToU8(sp + 1) = ToU8(e.sp - 1) /\ ToU8(sp + 2) = ToU8(e.sp - 1))
      BY <2>7, U8 DEF ToU8
    <3> QED
      BY <2>4, <2>5, <3>1, <3>2, <3>3, <3>4 DEF InPlace
  <2>9. bus'.stack_pointer = e.sp
    <3>1. Cell(bus', 0) = bus'.stack_pointer
      BY <2>7, U8 DEF Cell, ToU8
    <3> QED
      BY <2>6, <2>8, <3>1
  <2>10. bus'.program_counter = ToU16(e.at + 3)
    <3>1. last \in u16 /\ Word(HighByte(last), LowByte(last)) = last
      BY <2>7, U16 DEF ToU16, Word, HighByte, LowByte
    <3>2. ToU16(last + 1) = ToU16(e.at + 3)
      BY <2>7, U16 DEF ToU16
    <3> QED
      BY <2>6, <2>8, <3>1, <3>2
  <2> QED
    BY <2>9, <2>10 DEF e
<1> QED
  BY <1>1, StackInvariance, PTL DEF StackSpec, ReturnsToCaller
=============================================================================
