# TLA+ specifications of nes_emulator

`nes_emulator` is a NES emulator in progress: a loader for iNES cartridges, a
6502 CPU that runs a cartridge's program over a bus with 2 KiB of RAM, and a
disassembler that lists and traces it.  It is one sequential, deterministic
program.  There is no thread, no message, no timer and nothing persisted; what
makes it hard is the *data* flow: 256 opcodes whose length, addressing mode,
function and timing are written down in different places and must agree, 8- and
16-bit wrap-around at every turn, flags that one instruction leaves for another
one many steps later, a stack without bounds in a ring of 256 bytes, a second
copy of the operand decoder for the trace, and a loader with five ways to fail
whose callers do not all look.  An error in any of these does not fail where it
is made: the program goes on with a wrong byte.

Paths below are relative to `src/src/`.

## 1. Inventory

| component | code | state | operations |
|---|---|---|---|
| integers, status bits | `lib/common.h`, `lib/cpu.h` | none | conversions to `u8`, `u16`; the status byte as bits |
| bus | `lib/bus.cpp`, `lib/bus.h` | `cpu_ram[0x800]`, `cartridge`, the CPU | `read_mem`, `write_mem`, `bus_load_cartridge`, `bus_reset` |
| opcode table, decoder | `lib/opcode.cpp`, `lib/opcode.h` | none (a constant table) | `get_next_opcode`, `instruction_has_additional_cycle_on_page_crossing` |
| CPU | `lib/cpu.cpp` | `program_counter`, `stack_pointer`, `accumulator`, `x`, `y`, `status`, `cycles` | `cpu_reset`, `get_operand_address`, an `_fn` for each instruction, `run_cpu` |
| cartridge loader | `lib/cartridge.cpp` | the open file, two heap buffers, the `Cartridge` | `load_cartridge`, `release_cartridge` |
| disassembler | `lib/disassembler.cpp` | the listing's `pc` | `disassemble_code`, `disassemble_cpu` |
| entry points | `emu/main.cpp`, `tests/test.cpp` | the cartridge and the bus | load, check (the test), list (`main`), reset, set the program counter to 0xC000, run, release |
| PPU registers | `lib/bus.cpp` | none yet | empty branches of `read_mem` and `write_mem` |
| SDL/ImGui front end | `emu/main.cpp` after line 68 | - | unreachable: `main` returns before it |

Everything is a direct call.  `main` loads a cartridge, hands its address to the
bus, makes a listing of the whole address space, resets the bus (which resets
the CPU through the reset vector in the ROM), overwrites the program counter,
calls `run_cpu` and releases the cartridge.  The test does the same, with four
`REQUIRE` on the cartridge instead of the listing.  The loop of `run_cpu` asks
the decoder for the instruction at the program counter, prints a trace line (no
effect on the state), moves past the opcode byte, lets `get_operand_address`
find the operand and move past the operand bytes, calls the instruction's
function through the table's pointer, adds the cycles, and leaves the loop after
BRK.  All memory accesses go through the bus, which decides between cartridge,
RAM and nothing; it reaches the ROM through two pointers, to the `Cartridge` of
the caller and to the loader's buffer.

What is hard, and the properties that make each component correct:

- *bus*: overlapping and neighbouring address ranges, mirrors.  A read yields
  what was last written to any mirror of the cell, nothing else changes, ROM
  does not change (`ImplementsMemory`).
- *decoder and table*: a row's length and its addressing mode move the program
  counter independently (`ControlFlow`); the function must be the one for the
  mode (`Frame`); cycles come from the table, a list and `branch`
  (`CycleTiming`, `BranchTiming`).
- *CPU*: an instruction changes only what it is about (`Frame`); arithmetic
  agrees with the integers (`SignedArithmetic`); the undocumented instructions
  pass memory, accumulator and carry from their first half to their second
  (`CombinedComputes`); the B and unused bits exist only where they should
  (`StatusDiscipline`); instructions work together over many steps
  (`ProgramsCompute`); a program ends when it should (`Terminates`).
- *stack*: what was pushed is what is popped, wherever the pointer wraps, and
  subroutines return to their caller (`StackHoldsPushed`, `Lifo`,
  `ReturnsToCaller`).
- *loader*: five early returns and two buffers.  The caller gets a whole
  cartridge or none (`LoadsAtomically`), the file and the buffers are given back
  (`ReleasesAll`), the ROM starts behind the trainer (`TrainerIsIgnored`).
- *disassembler*: the second `get_operand_address` agrees with the CPU's
  (`CopiesAgree`), a trace line shows what the instruction then does
  (`TraceShowsOperand`, `TraceShowsValue`) and marks the undocumented opcodes
  (`TraceMarks`); a line of the listing is what is in memory (`LineIsExact`),
  no line joins bytes of the ROM to what is in front of it (`RomIsListedApart`),
  and the walk over 64 KiB with its pc of 32 bits moves on (`ListingAscends`).
- *entry points*: the CPU only runs while the ROM is there (`BusHasRom`), a load
  that fails or is skipped gives no other behaviour to the CPU (`ImplementsCpu`),
  both programs end (`RunEnds`).

`PROJECT.json` lists the hazards one by one with the line where each bites.

## 2. Modules

```
Common                  integers of common.h, bits of a byte
  Bus                   read_mem, write_mem, cartridges, struct Bus
    Memory              abstract: the address space the bus promises
    BusClient           the bus with an arbitrary client; implements Memory
    BusProofs           lemmas about Common and Bus
      BusClientProofs   the refinement
    Cartridge           load_cartridge statement by statement, release_cartridge
      CartridgeProperties   implements Slot (abstract: a load is one step)
    Opcode              table rows, get_next_opcode   (the table is a CONSTANT)
      Disassembler      the walk of disassemble_code and its lines
        DisassemblerProofs
      CPU               the instruction functions and the loop
        CPUProperties   Frame, ControlFlow, timing, arithmetic
          CPUProofs
          Trace         disassemble_cpu: the line against the step that follows
            InstructionProofs   (also on CPUProofs) effects, results, cycles, trace
        Programs        six programs and what each must have computed (on TestCarts)
          ProgramProofs     (on InstructionProofs) for all their inputs
        StackDiscipline CPU with a history of what was pushed
          StackProofs
        Emulator        main and the test: CPU + CartridgeProperties; implements CPU
          EmulatorProofs    (also on CPUProofs) the loader and the two programs
OpcodeTable             the 256 rows
TestCarts               16 KiB cartridges from a list of bytes
MC*                     the instances TLC checks
```

**CPU.**  `bus` is the struct `Bus` with the CPU's registers in it, a record
updated with `EXCEPT`.  `status` is the set of the weights of the flags that are
1, so that the C++ bit fields and the byte of the same union are one value.
`phase` is how far the caller has got: `loaded`, `reset`, `running` in
`run_cpu`, or `returned` from it.  `BusReset` and `Start` are the two statements
before the call; `Execute(fn, instruction_fn)` is one whole iteration of the
loop, for the opcodes whose table row points to that function: fetch, operand
address, function, cycles, and the exit at BRK.  There is one disjunct for each
instruction function.  An iteration is atomic because nothing can run between
its statements.  Each `_fn` of the C++ is an operator from bus to bus of the
same name, so a function that calls two others (`slo_fn`, `rti_fn`) is their
composition, and its line in the source is easy to find.

**Trace** adds no state: `Line` is the line that `disassemble_cpu` prints of the
state in front of an instruction, computed by its own `TraceAddress`, and the
properties compare it with the step of the CPU that follows.

**Programs** adds no state either.  A program is a list of bytes, put into a ROM
by `CartOf`; its inputs are some of these bytes, so that one definition is a
program for each input, and what it has computed is stated of the RAM when BRK
has ended it, with the inputs read back from the ROM (`Input`).

**Loader.**  `file` is what is on disk, its header's fields and its size, `at`
the statement of `load_cartridge`, `stream` whether the `FILE` is open, `error`
the message printed.  `heap` maps an allocated buffer to the file offset it was
filled from (-1 before), so that a buffer with the wrong bytes, one that was
never filled and one that was freed are three different things.  One action per
statement that can fail, each with its early return.  The header's flags are C++
bit fields, whose order in the byte the ABI chooses (`BitFieldsFromLsb`); `fread`
may fail on a good file (`ReadsCanFail`), and returns 0 for an item of 0 bytes.

**Listing.**  `cart`, the 32-bit `pc`, and `line`, the digits of the last line;
`ListLine` is one iteration.  `dec_to_hex` is modelled digit by digit because
`LineIsExact` is about its widths.

**Emulator** adds `program`, `main` or the test, and the phases `loading`,
`inserted` (between insertion and the end of the listing), `failed` (a `REQUIRE`
has thrown) and `crashed`.  The bus' cartridge is the ROM read through the two
pointers.  Its steps are those of `Cartridge` and `CPU`, in the order in which
the two programs call them.  A listing through a null `prg_rom` ends the program.

**What is abstracted.**  A ROM is a function on the offsets a program uses, 0
(BRK) elsewhere.  The enumerator of an instruction is named like its function
(`Instruction` joins the accumulator forms with the memory forms).  Mnemonics,
spaces and punctuation of the lines are left out.  `cycles` is not wrapped at
2^64.  What a build may choose is a constant: `PopsLowByteFirst` is the order in
which the two calls of `pop_stack` in `pop_stack_u16` (`lib/cpu.cpp:62`) are
evaluated, which C++ leaves open.

**Bounds.**  `MaxCycles` stops a run at an instruction boundary: no instruction
starts at or after that cycle.  `Stopped` is the only step then, and after BRK.

## 3. What TLC checks

| run | instance | properties | expected |
|---|---|---|---|
| `opcodes` | 256 opcodes x 8 situations, the programs running on to cycle 66 | `TypeOK`, `StatusDiscipline`, `ControlFlow`, `Frame`, `CycleTiming`, `TraceMarks`, `CopiesAgree`, `TraceShowsOperand`, `TraceShowsValue` | hold |
| `stack` | 11^3 programs of stack operations, 70 cycles | `StackHoldsPushed`, `Lifo`, `ReturnsToCaller` | hold |
| `alu` | 256 register values x 6 operands x both carries | `SignedArithmetic`, `CombinedComputes` | hold |
| `programs` | 6 programs, 139 cartridges, run to their end | `ProgramsCompute`, `StackHoldsPushed`, `ReturnsToCaller`, `Terminates` | hold |
| `bus` | 18 addresses at the borders of all regions, both ROM sizes, 3 values | `BusTypeOK`, `ImplementsMemory` | hold |
| `listing` | 3 ROMs, the whole address space | `LineIsExact`, `RomIsListedApart`, `ListingAscends` | hold |
| `cartridge_load` | files of every kind and of every size next to a border | `LoaderTypeOK`, `ReleasesAll`, `LoadsAtomically` | hold |
| `emulator` | both programs, 22 files, good, short and of another format | `BusHasRom`, `ImplementsCpu`, `RunEnds` | hold |
| `bus_ppu_border` | as `bus`, with 0x2000 | `RamEndsBefore2000` | violated |
| `bus_rom_border` | as `bus`, with 0x8000 and 0xFFFF | `RomIsMirrored` | violated |
| `branch_timing` | as `opcodes` | `BranchTiming` | violated |
| `cartridge_trainer` | as `cartridge_load`, reads do not fail | `TrainerIsIgnored` | violated |

- **`opcodes`.**  A short prologue sets A, X, Y, S, the carry and the pointers at
  0xFE and 0xFF and pushes a status byte, in which B is 1; then comes the opcode
  with two operand bytes.  The situations are chosen for the borders: a page
  crossing in each indexed mode, zero-page indexes and pointers that wrap, a
  stack pointer of 0x00 and of 0xFF, the operand in ROM or in the stack, branches
  forwards and backwards over a page border, and absolute addresses that wrap to
  RAM.  `Frame`, `ControlFlow` and `CycleTiming` are stated against references
  independent of the code: the comments above the functions ("A,Z,N = A&M"), the
  length in the row, and the 6502's rule of one cycle for each byte fetched and
  each access, from which the 256 cycle counts of the table follow.  The one
  exception of `CycleTiming`, `BranchAtPageEnd`, is finding 1.  The trace is
  checked in the same states: its line is printed before the instruction, with
  the program counter still at the opcode, and must show the address, the target
  and the byte that the step then uses.  The module also has TLC evaluate
  `RowsAgree`, `WritersHaveOperands`, `RowsTimed` and `JumpsHaveAddresses`, the
  conditions on the table that several proofs need (section 4).
- **`stack`.**  `StackDiscipline` adds a history variable, `pushed`: the bytes a
  program has pushed and neither popped nor overwritten, with the instruction
  that pushed each.  It is independent of the stack pointer; `StackHoldsPushed`
  ties it to page one of RAM.  The programs include returns that were never
  called, PLP of a byte PHA pushed, RTI after JSR, a call of the program itself,
  TXS and a store into the stack; three operations suffice for every pair to be
  nested in a third.
- **`alu`.**  The operands are the two ends and the middle of both ranges, with
  every accumulator: each of the eight rows of the truth table of
  `lib/cpu.cpp:285-293` is met, and each border from both sides.  The combined
  instructions get their operand in RAM, and are compared with integers and bit
  sets for both halves at once.
- **`programs`.**  The repository's own program "10 times 3" (`tests/test.cpp:89`)
  with other factors, shift-and-add multiplication, shift-and-subtract division
  with the 8 borders as inputs, a copy of the program's own bytes through a
  pointer that wraps in the zero page, over a page border and to a mirror of
  RAM, a jump through a vector at a page end, and a recursion.  A result is right
  only if every flag and address on the way was.  The recursion goes to the limit:
  128 frames fit in page one, 129 do not.  A deeper one promises no result, but
  `StackHoldsPushed` still says which bytes survive, and `ReturnsToCaller` which
  returns are right.  Fairness is `WF_stackVars(StackNext)`: the loop is plain
  sequential code, so it keeps taking steps while it can.  Each program reaches
  BRK well within `MaxCycles`, so the bound does not help `Terminates`.  The module has TLC evaluate
  `ProgramRows`, which the proof of `ProgramsCompute` for all inputs needs.
- **`bus`.**  `BusSpec` implements `Memory!MemorySpec` with
  `[a \in Addresses |-> read_mem(bus, a)]` as the memory.  Reading and writing
  only compare an address with the borders and reduce it modulo the RAM or ROM
  size, so the addresses on both sides of each border, and some mirrors of the
  same cell, stand for all.
- **`listing`.**  One ROM holds every opcode; the others make the last
  instruction end at 0x10000 and go over it.  When a line ends exactly at
  0x10000, the loop, whose condition is `pc <= 0x10000`, lists address 0 once
  more: `ListingAscends` allows that one line.  `RomIsListedApart` says that the
  walk, which knows no entry point, is at the start of an instruction when it
  comes to the first byte that `cart_read` maps, 0x8001, so that the ROM's
  instructions are not taken for operands of the 0xFF in front of them.  It is not
  about the byte at 0x8000, which the bus never reads from the ROM (finding 3) and
  the listing shows as the last 0xFF of the line at 0x7FFE.  The module has TLC evaluate
  `LengthsFitModes`, which the proof of `LineIsExact` needs of the table.  The walk has no liveness
  property of its own: its addresses ascend, deadlock is checked, and the only
  step besides a line is `Listed`, behind the top, so it ends.
- **`cartridge_load`.**  Files that are missing, of another format, and iNES files
  with 0, 1, 2 or 255 pages of PRG and 0 to 2 of CHR ROM, cut one byte before and
  at each place where a read ends, with flags for either bit order, and reads that
  fail although they need not.  `LoadsAtomically` is the refinement of `Slot`: a
  load is one step that yields both ROMs whole, from the right offsets, or
  nothing.  What the loader takes for a cartridge is `HoldsCartridge`, which
  leaves out those without CHR ROM, and `ReleasesAll` leaves out the two errors
  after which the buffers are lost: both follow the code here (see "Observations").
- **`emulator`.**  Both programs with cartridges of the size the test requires and
  others, one with a trainer, and files of each kind the loader rejects; the
  program in them pushes and loops to BRK.  `ImplementsCpu` is the refinement of
  `CPU`: outside the run, the abstract bus is the one with the file's ROM.
  `RunEnds` has one exception: `main` does not look at what `load_cartridge` has
  returned, and the listing reads through the null pointer.  Fairness is
  `WF_emulatorVars(EmulatorNext)`, for the same reason as above; the bound of
  1000 cycles is far behind the program's BRK.

### Findings

1. `branch` (`lib/cpu.cpp:345`) compares the page of `program_counter + 1` with
   that of the target.  The program counter already is that of the next
   instruction, so when that one starts at the last byte of a page the extra
   cycle is charged when the branch stays in the page and is not when it leaves
   it for the next (`branch_timing`).  The rule the code states and follows for
   the indexed modes is "Crossing boundaries means 1 additional cycle"
   (`lib/cpu.cpp:119`).
2. `read_mem` (`lib/bus.cpp:42`) takes 0x2000 for RAM although
   `RAM_MIRROR_END` is commented "Excluded" (`lib/bus.cpp:9`) and `write_mem`
   excludes it (`bus_ppu_border`).
3. `cart_read` (`lib/bus.cpp:20`) excludes both ends of the ROM window, so the
   mirror of `lib/bus.cpp:25` is not one at its first byte, nor is the byte at
   0xFFFF, the high byte of the IRQ vector, ever read from the ROM
   (`bus_rom_border`).  The listing does not show either of these bytes.
4. The bit fields of flags 6 are declared from the high bits down
   (`lib/cartridge.cpp:7`), but the status register's from the low bits up
   (`lib/cpu.h:19-45`).  With the ABI that the second one needs, `trainer` is
   bit 5, a bit of the mapper's number, and the mapper and the mirroring are
   misread too; so the PRG ROM of a file with a trainer is read 512 bytes too
   early, against "Ignore 512 bytes of trainer data" (`lib/cartridge.cpp:81`,
   `cartridge_trainer`).
### Observations

Four more places where the code does less than one would expect.  The model has
them as they are; no run is about them, and each marks the limit of a property.

- `pop_stack_u16` (`lib/cpu.cpp:62`) calls `pop_stack` in both operands of one
  `|`, and C++ does not say which comes first.  In a build that takes the right
  one first no RTS returns to its caller: TLC finds `ReturnsToCaller` violated in
  `stack` with `PopsLowByteFirst = FALSE`.  All runs have `TRUE`.
- When one of the last two reads fails, `load_cartridge` returns `Cartridge{}` and
  nobody can free the two buffers any more (`lib/cartridge.cpp:109-118`).
- `fread` of an item of 0 bytes returns 0, so that a whole cartridge without CHR
  ROM (one with CHR RAM) is refused with "Could not read required amount of data
  for CHR ROM" (`lib/cartridge.cpp:115-118`).
- `main` gives the bus whatever `load_cartridge` has returned
  (`emu/main.cpp:57`) and crashes in the listing after an error, where the test
  has `REQUIRE(cartridge.prg_rom != nullptr)` (`tests/test.cpp:112`).

## 4. What is proved

All theorems are checked by TLAPS for every value of the constants.  They rest on
the named assumptions and on nothing else:

- `OpcodesAssumption`: the table maps every byte to a row of the type of `OpCode`;
- `CartridgesAssumption`: a PRG ROM is one or more whole pages of bytes, and
  `RomsAssumption`: the ROMs of the files that can be loaded are such ROMs;
- `FilesAssumption`: the header's fields are bytes and the size is a number;
- `PopsLowByteFirstAssumption`, `BitFieldsFromLsbAssumption`,
  `ReadsCanFailAssumption`: either choice of the build or of the environment, and
  `MaxCyclesAssumption`: any bound;
- `AddressesAssumption`, `ValuesAssumption` for the client of the bus;
- `CallRowsAssumption`: the rows of JSR and BRK have their addressing modes
  (`StackDiscipline` only), and `PaddingAssumption`: 0x00 is listed as one byte
  and 0xFF as three (`Disassembler` only).

Apart from the last two, which are about single rows, each theorem holds for every
opcode table of that type, also for one with wrong rows, unless a condition on the
rows is its hypothesis.  There are six such conditions, defined beside the
properties, and TLC evaluates each on the program's table:

| condition | on a row | needed by |
|---|---|---|
| `RowsAgree` | its length is that of its mode, and branches are relative (not of a jump) | `ControlFlow`, `CycleTiming`, `TraceShowsOperand`, `ProgramsCompute` |
| `WritersHaveOperands` | a function that writes memory has an operand there | `Frame` |
| `RowsTimed` | its cycles are those without a page crossing, and its name is on the list of `instruction_has_additional_cycle_on_page_crossing` when it reads through an index | `CycleTiming` |
| `JumpsHaveAddresses` | a jump is neither immediate nor relative | `TraceShowsOperand` |
| `LengthsFitModes` | its length is that of its mode | `LineIsExact` |
| `ProgramRows` | the rows of the 38 instructions in the programs have the documented function, length and mode | `ProgramsCompute` |

| theorem | says |
|---|---|
| `CPUProofs!TypeCorrectness` | `Spec => []TypeOK`: no instruction takes a register, a RAM cell or a flag out of its width |
| `CPUProofs!StatusIsDisciplined` | `Spec => []StatusDiscipline`: while a program runs, bit 5 of the status is 1 and B is 0 |
| `CPUProofs!ControlFollowsRows` | `Spec => ControlFlow`, for every table with `RowsAgree` |
| `InstructionProofs!InstructionsKeepTheRest` | `Spec => Frame`, for every table with `WritersHaveOperands` |
| `InstructionProofs!ArithmeticIsSigned` | `Spec => SignedArithmetic`: ADC, SBC and the comparisons, for all operands and carries |
| `InstructionProofs!CombinedInstructionsCompute` | `Spec => CombinedComputes`: SLO to SAX, for all operands in RAM |
| `InstructionProofs!InstructionsTakeTheirCycles` | `Spec => CycleTiming`, for every table with `RowsAgree` and `RowsTimed` |
| `BusClientProofs!BusTypeCorrectness` | `BusSpec => []BusTypeOK`: whatever a client reads and writes, the bus keeps 2 KiB of bytes |
| `BusClientProofs!BusImplementsMemory` | `BusSpec => ImplementsMemory`, for a client that stays off 0x2000, 0x8000 and 0xFFFF |
| `StackProofs!PageOneHoldsPushed` | `StackSpec => []StackHoldsPushed` |
| `StackProofs!PopsUndoPushes` | `StackSpec => Lifo`, when the low byte is popped first |
| `StackProofs!SubroutinesReturn` | `StackSpec => ReturnsToCaller`, when the low byte is popped first |
| `InstructionProofs!TraceAgreesWithCpu` | `Spec => []CopiesAgree`: the two `get_operand_address` agree |
| `InstructionProofs!TraceShowsTheValueUsed` | `Spec => TraceShowsValue` |
| `InstructionProofs!TraceShowsTheOperandUsed` | `Spec => TraceShowsOperand`, for every table with `RowsAgree` and `JumpsHaveAddresses` |
| `DisassemblerProofs!RomListedApart` | `WalkSpec => []RomIsListedApart` |
| `DisassemblerProofs!ListingIsExact` | `WalkSpec => []LineIsExact`, for every table with `LengthsFitModes` |
| `DisassemblerProofs!ListingGoesOn` | `WalkSpec => ListingAscends` |
| `EmulatorProofs!LoaderTypeCorrectness` | `LoaderSpec => []LoaderTypeOK` |
| `EmulatorProofs!LoaderReleasesAll` | `LoaderSpec => []ReleasesAll` |
| `EmulatorProofs!LoaderIsAtomic` | `LoaderSpec => LoadsAtomically`: the loader implements `Slot` |
| `EmulatorProofs!BusAlwaysHasRom` | `EmulatorSpec => []BusHasRom` |
| `EmulatorProofs!RunsTheCpu` | `EmulatorSpec => ImplementsCpu`: both programs implement `CPU`, when there is a cartridge at all |
| `ProgramProofs!ProgramsComputeTheirResults` | `Spec => []ProgramsCompute`, for every table with `RowsAgree` and `ProgramRows`, when the low byte is popped first: the conjunction of the next six |
| `ProgramProofs!RepeatedAdditionMultiplies` | `Spec => []AdditionComputes`: the test's program, for all factors whose product is a byte |
| `ProgramProofs!ShiftsMultiply` | `Spec => []ProductComputes`, for all pairs of bytes |
| `ProgramProofs!SubtractionsDivide` | `Spec => []QuotientComputes`, for all bytes and all divisors but 0 |
| `ProgramProofs!ProgramsCopyThemselves` | `Spec => []CopyComputes`, for 1 to 20 bytes |
| `ProgramProofs!VectorsStayInTheirPage` | `Spec => []JumpArrives`, for every byte as the low one of the vector's address: it arrives whenever it ends |
| `ProgramProofs!FittingRecursionsUnwind` | `Spec => []RecursionUnwinds`, for every depth from 1 to 128, when the low byte is popped first |

**The CPU.**  The inductive invariant is `IInv == TypeOK /\ StatusDiscipline`.
The status discipline of a later state rests on the type of this one, and both
need the same case split over the instruction functions, so `CPUProofs` makes it
once: `ProgramState` is the set of the buses of the right type whose status is
disciplined, and one lemma for each family of functions (`LoadType`, `AluType`,
`StackFnsType`, ...) shows that these functions map it to itself.
`OperandType` shows that the fetch hands them an address in 16 bits in every
addressing mode, `IterationType` joins the fetch, any such function and the
cycles to one iteration.  `brk_fn` is the only function that leaves
`ProgramState` and has a step of its own (`BrkStep`): it sets B, but the loop
ends with it.  PLP and RTI are where a popped byte could break the status
(`PlpType`): it may be anything a program has pushed.

`ControlFlow` needs what the functions do *not* do: the lemmas on `Stays` show,
family by family, that all but jumps and branches leave the program counter where
the addressing mode has put it, `OperandMoves` where that is, and `RowsAgree`
that the row says the same.  `SignedArithmetic` rests on two facts about
integers, `AddWithCarryAdds` (the eight cases of the truth table over bits 7
against a sum in Z) and `ComplementSubtracts` (255 - M as the operand); for the
comparisons `CompareOrders` adds that C and Z order unsigned numbers while N is
only the sign of their difference.

**The stack.**  `StackInv` says that the i-th cell from the stack pointer up
holds the i-th entry of `pushed`, and that entries a JSR has made come with their
return address.  Cells are counted from the stack pointer, so that a push and the
movement of the pointer cancel, wherever it wraps (`Ring`); a push drops at most
the oldest entry, a store into page one the entries from its cell on.  The
instructions that neither push nor pop keep both (`Kept`), those that store keep
all but one cell (`KeptBut`).

**What an instruction leaves alone.**  `Only` describes a function by the
registers and flags it may change; two such descriptions compose
(`OnlyTransitive`), so those of the combined instructions and of RTI follow from
their halves (`ComposedOnly`).  `RamBut` does the same for the cells of RAM
(`StepWrites`), with the cells counted from the stack pointer as for the stack.
`WritersHaveOperands` is a real condition: a store in the implied mode would write
through the address 0 that `run_cpu` starts with.

**What the combined instructions compute.**  The first half writes a byte to
memory and sets the carry, the second half reads both (`ShiftThenLogic`,
`StoreThenAdd`): what was written has to be what is read, so the theorem is about
operands in RAM, as the property is.

**Cycles.**  The code compares the pages of two addresses; the property asks
whether adding the index carries out of the low byte.  `CrossingIsCarry` shows
that the two are the same for every base and index, also where the sum wraps at
0xFFFF, of which TLC sees a few.  For a branch both sides compare pages, but of
addresses that are one apart (`BranchPays`): the theorem is about the branches
for which that makes no difference, and finding 1 about the others.

**The trace.**  `SameAddress` compares the two functions mode by mode;
`MovedBus` shows that a read does not see the moved program counter.  The
immediate mode is the only one in which they differ, by design of the line.
`StepShowsValue` joins that with what each function computes from the byte at its
operand, `BranchTarget` and `JumpTarget` with where the program goes.

**The programs in ROM.**  The theorems above say what one instruction does;
`ProgramsCompute` needs a few hundred of them in a row, flags and addresses
included, and nothing but its value at the end says that they were right.  The
inductive invariant of a program is an assertion for each of its instructions
(`AdditionPoint`, `ProductPoint`, `QuotientPoint`, `CopyPoint`, `JumpPoint`,
`RecursionPoint`): the program counter is at one of them and what holds there
holds.  Three layers of lemmas serve all six.  The `...Runs` lemmas (`LoadRuns`,
`ArithmeticRuns`, `ShiftRuns`, `BranchRuns`, `RtsRuns`, ...) put the results of
`InstructionProofs` and the frame together to all that a step leaves.
`Decoding` and `Operands` derive from the bytes in ROM and from `ProgramRows`
which instruction a step executes, and with which operand; the lemma
`...Listing` of a program is its disassembly.  `Lifetime` says that outside its
instructions a program is either at its first one or has not started.

In the loops, the counter tells how far the work has got.  `PartialProduct` is
the shift register of A, $00 and the carry after k of eight rounds: what is
left of one factor is in its low bits, the other one times what has been
shifted out is above.  `PartialQuotient` says that the bits of the dividend
taken so far are the quotient so far times the divisor plus the remainder so
far; a round keeps the remainder below the divisor (`QuotientSubtracts`), for
which the carries of ROL, CMP and SBC all have to be right.  The copy goes
through two addresses in RAM that must not meet (`CopyAddresses`); that is why
it is limited to 20 bytes.  In the recursion `Calls` holds the return address of
each call that is open, in a frame counted from the first one; `FramesApart` and
`CallWraps` show that 128 frames are in different cells of page one and that the
pointer is around the ring after the last.  This invariant needs that
`cpu_reset` leaves S at 0xFD (`ResetLeaves`).  The results survive BRK because it
writes nothing outside page one (`BrkRuns`).  `PopsLowByteFirst` is a hypothesis
for the sake of the recursion only: with the other order no RTS comes back.

TLC runs the programs for a few inputs, the theorem is about all of them.  It
says nothing about whether a program ends; that is `Terminates`.

**The listing.**  `WalkInv`: in front of the ROM the walk is in RAM, where every
line is one byte, or at a multiple of three behind 0x2001.  There are 8193
one-byte lines and 8192 three-byte ones in front of 0x8001, the first address that
the bus maps to the ROM.  `RomListedApart` holds because of *both* off-by-one
borders of findings 2 and 3: with only one of them repaired, a line would take the
ROM's first instructions for its operand.  It does not follow that the listing is
right there, as the byte at 0x8000 is not read at all; it says that what is read
is listed as instructions of its own.  `LineFits` adds what is needed of lines
around 0x10000, whose addresses wrap.  The digits of
`dec_to_hex` are a recursive function on the `int`s that are not negative.  Its
equation holds because a function that satisfies it exists, and that one is
written down, for the eight digits an `int` can have (`HexDigitsDef`); no
induction is needed.  The same is done for the inverse of a column of two or
four digits (`HexValueOfTwo`, `HexValueOfFour`), and `WordShowsBytes` shows that
a word's digits are those of its bytes, high byte first.  `ListingGoesOn` needs of
the line before only that its address and its length fit the pc (`LineBefore`).

**The loader.**  `LoaderInv` ties the statement reached to what is on the heap
and in the cartridge, and ends in `Succeeded \/ Failed`.  `Offsets` and
`ReadableFile` relate the loader's arithmetic to the file layout; under
`slot <- LoadedSlot` each step is one of `Slot` or stutters (`StepOfSlot`).

**The programs.**  `EmulatorInv` joins `LoaderInv` and `IInv` with the order of
the calls: from the insertion until the run has ended the load has succeeded, or
`main` has crashed in the listing.  `StepKeepsCartridge` shows that no instruction
changes the pointer to the cartridge, `PointerMeansRom` that a pointer that is
not null leads to a whole ROM.  For the refinement of `CPU`, the operators of the
instance are shown to be those of the module, family by family (`SameAlu`, ...),
so that `RunCpu` is a step of the instance; every other step leaves its bus
alone, and the insertion puts in the ROM it has had (`EnterRun`).

**The bus.**  `OffsetIsMirrored` shows that the mirroring code of `cart_read` is
a remainder by the size of the ROM, `ReadByRange` that `read_mem` is decided by
three disjoint ranges away from their ends, `ReadAfterWrite` that a write shows at
the mirrors of its cell and nowhere else.  The refinement mapping is
`mem <- [a \in Addresses |-> read_mem(bus, a)]`.  The hypothesis
`Addresses \cap Ends = {}` is needed: at the three addresses the code reads
another cell than its comments say (findings 2 and 3), and the runs
`bus_ppu_border` and `bus_rom_border` show what a client sees there.

**Only model-checked.**  `TraceMarks`, which says that two lists of opcodes in
the code are the same: it is a statement about the 256 rows of one table, and a
theorem could only assume it.  `Terminates` and `RunEnds`, since liveness is out of the prover's reach.  Every
other property of a run that is expected to hold is a theorem.

## 5. What is not modelled, and the plan

Not modelled:

- the front end (unreachable), the build files and the vendored code;
- failures of `malloc` and `fseek`, which the loader does not look at;
- what a read through a null pointer does beyond ending the program;
- the text of the lines: mnemonics, spaces, the register columns, and
  `dump_cpu`, which only prints;
- the `REQUIRE`s at the end of the test on result bytes and registers, which
  depend on the data of the `nestest` ROM;
- instruction functions that are still empty (`jam`, `anc`, `alr`, `arr`, `ane`,
  `sha`, `tas`, `shy`, `shx`, `lxa`, `las`, `sbx`): they do nothing in the code and
  in the model, and what they should do is not stated anywhere in the repository;
- the PPU, of which there are only two empty branches.

The order of the work, most important first:

1. `Common`, `Bus`, `Opcode`, `CPU`: one whole iteration of the loop, all
   opcodes, with their runs: done.
2. `StackDiscipline`: the stack as programs see it: done.
3. `Memory`, `BusClient`: the abstract address space and its refinement: done.
4. `BusProofs`, `CPUProofs`, `BusClientProofs`: type correctness, the status
   register and the refinement: done.
5. `Cartridge`, `Slot`: the loader and its atomicity, proved in `EmulatorProofs`:
   done.
6. `Emulator`, `EmulatorProofs`: the two programs around loader and CPU: done.
7. `Disassembler`, `Trace` and their proofs: done.
8. The undocumented combined instructions, and JMP (ind): done.
9. Proofs of the stack, of `ControlFlow` and of `SignedArithmetic`: done.
10. Proofs of `Frame`, `CycleTiming`, `CombinedComputes` and of what the trace
    shows, under conditions on the rows where the property depends on them: done.
11. Proofs that the listing is exact and ascends: done.
12. Proofs that the programs compute their results, for all their inputs: done.
