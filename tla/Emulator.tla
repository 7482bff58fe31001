------------------------------ MODULE Emulator ------------------------------
(***************************************************************************)
(* The two programs around the emulator: the live part of main and the     *)
(* test case NES TEST.  Both load a cartridge, insert it into a bus, reset *)
(* the bus, run the CPU and release the cartridge; main lists the code     *)
(* first, the test checks the cartridge first.  The loader's steps, the    *)
(* CPU's and the release are those of Cartridge and CPU.                   *)
(***************************************************************************)
EXTENDS CPU, CartridgeProperties

\* The PRG ROM of a file that holds a cartridge.
WholeRom(f) == PrgRomAt(f, Layout(f).prg.from, Layout(f).prg.size)

\* The CPU is one for every ROM that can be loaded.
ASSUME RomsAssumption == \A f \in Files : HoldsCartridge(f) => WholeRom(f) \in Cartridges

VARIABLE program        \* which of the two runs

emulatorVars == <<program, bus, phase, loaderVars>>

\* What the bus sees of a Cartridge{}: prg_rom is a null pointer.
EmptyRom == [prg_rom_size |-> 0, prg_rom |-> [i \in {} |-> 0]]

\* The PRG ROM behind the pointer of the cartridge.
LoadedRom ==
  IF cartridge.prg_rom = Null THEN EmptyRom
    ELSE PrgRomAt(file, heap[cartridge.prg_rom], cartridge.prg_rom_size)

EmulatorInit ==
  /\ LoaderInit
  /\ program \in {"main", "test"}
  /\ bus = bus_load_cartridge(EmptyRom)      \* Bus bus = {}
  /\ phase = "loading"

load_cartridge ==
  /\ phase = "loading"
  /\ LoadStep
  /\ UNCHANGED <<program, bus, phase>>

\* The four REQUIRE of the test; one that fails throws, and the deferred
\* release_cartridge is all that is left to do.
Required ==
  /\ cartridge.prg_rom_size = \h4000 /\ cartridge.prg_rom # Null
  /\ cartridge.chr_rom_size = \h2000 /\ cartridge.chr_rom # Null

\* Mutant: the test does not look at the cartridge either.
Checks_Nothing == TRUE

\* main goes on whatever load_cartridge has returned.
Checks == program = "test" => Required

RequireFails ==
  /\ phase = "loading" /\ at = "returned"
  /\ ~Checks
  /\ phase' = "failed"
  /\ UNCHANGED <<program, bus, loaderVars>>

InsertCartridge ==
  /\ phase = "loading" /\ at = "returned"
  /\ Checks
  /\ bus' = bus_load_cartridge(LoadedRom)
  /\ phase' = IF program = "main" THEN "inserted" ELSE "loaded"
  /\ UNCHANGED <<program, loaderVars>>

\* Mutant: the bus is not reset.
Disassemble_Resets ==
  /\ phase = "inserted"
  /\ phase' = IF cartridge.prg_rom = Null THEN "crashed" ELSE "reset"
  /\ UNCHANGED <<program, bus, loaderVars>>

\* The listing reads every address: the first one in the ROM window goes
\* through the pointer, which ends the program when it is null.
Disassemble ==
  /\ phase = "inserted"
  /\ phase' = IF cartridge.prg_rom = Null THEN "crashed" ELSE "loaded"
  /\ UNCHANGED <<program, bus, loaderVars>>

RunCpu ==
  /\ BusReset \/ Start \/ Step
  /\ UNCHANGED <<program, loaderVars>>

\* Mutant: the cartridge is released when the CPU has been started.
ReleaseCartridge_Early ==
  /\ phase \in {"running", "failed"}
  /\ release_cartridge
  /\ UNCHANGED <<program, bus, phase>>

\* After run_cpu, or by the deferred call when a REQUIRE has thrown.
ReleaseCartridge ==
  /\ phase \in {"returned", "failed"}
  /\ release_cartridge
  /\ UNCHANGED <<program, bus, phase>>

Ended ==
  /\ \/ at = "released" \/ phase = "crashed"
     \/ phase = "running" /\ bus.cycles >= MaxCycles
  /\ UNCHANGED emulatorVars

EmulatorNext ==
  \/ load_cartridge \/ RequireFails \/ InsertCartridge \/ Disassemble
  \/ RunCpu \/ ReleaseCartridge \/ Ended

\* Both programs are plain sequential code, which keeps taking steps.
EmulatorSpec ==
  EmulatorInit /\ [][EmulatorNext]_emulatorVars /\ WF_emulatorVars(EmulatorNext)

-----------------------------------------------------------------------------
(* Properties.                                                             *)

\* As long as the CPU can read it, the PRG ROM is the whole one of the file
\* and its buffer has not been freed: run_cpu only ever sees the cartridge
\* through the two pointers bus.cartridge and cartridge.prg_rom.
BusHasRom ==
  phase \in Phases \ {"returned"} =>
    /\ HoldsCartridge(file)
    /\ Contents = Layout(file)
    /\ bus.cartridge = WholeRom(file)

\* The CPU behind the loader is a CPU with one of the ROMs of the files that
\* hold a cartridge in it, and starts only when that has been loaded.
CpuBus ==
  IF phase \in Phases THEN bus
    ELSE bus_load_cartridge(
           IF HoldsCartridge(file) THEN WholeRom(file) ELSE CHOOSE c \in Cartridges : TRUE)
CpuPhase == IF phase \in Phases THEN phase ELSE "loaded"

Cpu == INSTANCE CPU WITH bus <- CpuBus, phase <- CpuPhase

ImplementsCpu == Cpu!Spec

\* Either program comes to its end, whatever the file, and only the one that
\* does not look at what it has loaded can crash: with a program in the
\* cartridge that reaches BRK, the cartridge is released in the end.
RunEnds ==
  <>(at = "released" \/ (phase = "crashed" /\ program = "main" /\ error # "none"))
=============================================================================
