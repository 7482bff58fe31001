--------------------------- MODULE EmulatorProofs ---------------------------
(***************************************************************************)
(* The two programs around the emulator, for every set of files and every  *)
(* program in a ROM: whenever the CPU may read the ROM, it is the whole    *)
(* ROM of the file, in a buffer that is still allocated.  For the loader   *)
(* alone, for both orders of bit-fields and reads that may fail: its state *)
(* has the declared types, it closes its file and frees what it can, and   *)
(* it implements the load in one step.                                     *)
(*                                                                         *)
(* The argument joins the three invariants: the loader's, by which a       *)
(* pointer that is not null leads to a whole ROM; the CPU's, by which no   *)
(* instruction touches the pointer to the cartridge; and the order in      *)
(* which the two programs call them.  From the same invariant, the two     *)
(* programs implement CPU.                                                 *)
(***************************************************************************)
EXTENDS Emulator, CPUProofs, CartridgeProperties

-----------------------------------------------------------------------------
(* The loader.                                                             *)

Before == {"open", "header", "magic", "allocate"}

\* What Allocate stores.
Allocated(f) ==
  [prg_rom_size |-> prg_rom_size(f), prg_rom |-> "prg",
   chr_rom_size |-> chr_rom_size(f), chr_rom |-> "chr",
   mirroring |-> mirroring(f), mapper |-> mapper(f)]

\* A load that has come to its end: both buffers are those of the file, or
\* there is a message and the cartridge is empty.
Succeeded ==
  /\ HoldsCartridge(file)
  /\ error = "none"
  /\ cartridge = Allocated(file)
  /\ DOMAIN heap = Buffers
  /\ heap["prg"] = start_prg_rom(file) /\ heap["chr"] = start_chr_rom(file)

Failed ==
  /\ HoldsCartridge(file) => ReadsCanFail
  /\ error \in Messages \ {"none"}
  /\ cartridge = EmptyCartridge
  /\ error \notin ReadErrors => DOMAIN heap = {}

\* The inductive invariant.
LoaderInv ==
  /\ LoaderTypeOK
  /\ at \in {"returned", "released"} => ~stream
  /\ at \in Before =>
       DOMAIN heap = {} /\ error = "none" /\ cartridge = EmptyCartridge
  /\ at \in {"header", "magic", "allocate", "prg", "chr"} => file # NoFile
  /\ at \in {"allocate", "prg", "chr"} => file.magic
  /\ at \in {"prg", "chr"} =>
       DOMAIN heap = Buffers /\ error = "none" /\ cartridge = Allocated(file)
  /\ at = "chr" =>
       /\ heap["prg"] = start_prg_rom(file)
       /\ CanRead(start_prg_rom(file), prg_rom_size(file))
  /\ at = "returned" => Succeeded \/ Failed
  /\ at = "released" /\ error \notin ReadErrors => DOMAIN heap = {}

-----------------------------------------------------------------------------
(* The header.                                                             *)

LEMMA FieldsOfHeader ==
  ASSUME NEW f \in Files, f # NoFile
  PROVE  /\ f.size \in Nat
         /\ f.len_prg_rom \in Nat /\ f.len_chr_rom \in Nat
         /\ f.flags6 \in u8 /\ f.flags7 \in u8
  BY FilesAssumption, U8 DEF IsFile

\* The loader's offsets and sizes are those of the format.
LEMMA Offsets ==
  ASSUME NEW f \in Files, f # NoFile
  PROVE  /\ Layout(f) = [prg |-> [from |-> start_prg_rom(f), size |-> prg_rom_size(f)],
                         chr |-> [from |-> start_chr_rom(f), size |-> chr_rom_size(f)]]
         /\ start_prg_rom(f) \in {16, 528}
         /\ prg_rom_size(f) = 16384 * f.len_prg_rom
         /\ chr_rom_size(f) = 8192 * f.len_chr_rom
         /\ start_chr_rom(f) = start_prg_rom(f) + prg_rom_size(f)
<1>1. f.len_prg_rom \in Nat /\ f.len_chr_rom \in Nat
  BY FieldsOfHeader
<1>2. /\ prg_rom_size(f) = 16384 * f.len_prg_rom
      /\ chr_rom_size(f) = 8192 * f.len_chr_rom
  BY <1>1 DEF prg_rom_size, chr_rom_size, PRG_ROM_PAGE, CHR_ROM_PAGE_SIZE
<1>3. start_prg_rom(f) = IF has_trainer(f) THEN 528 ELSE 16
  BY DEF start_prg_rom, HEADER_SIZE, TRAINER_SIZE
<1>4. start_chr_rom(f) = start_prg_rom(f) + prg_rom_size(f)
  BY DEF start_chr_rom
<1> QED
  BY <1>2, <1>3, <1>4 DEF Layout

\* A file holds a cartridge exactly when each of the loader's reads finds
\* the bytes it asks for.
LEMMA ReadableFile ==
  ASSUME file \in Files, file # NoFile
  PROVE  HoldsCartridge(file) <=>
           /\ file.magic
           /\ CanRead(0, HEADER_SIZE)
           /\ CanRead(start_prg_rom(file), prg_rom_size(file))
           /\ CanRead(start_chr_rom(file), chr_rom_size(file))
<1>1. file.size \in Nat /\ file.len_prg_rom \in Nat /\ file.len_chr_rom \in Nat
  BY FieldsOfHeader
<1> QED
  BY <1>1, Offsets DEF HoldsCartridge, CanRead, HEADER_SIZE

LEMMA AllocatedType ==
  ASSUME NEW f \in Files, f # NoFile
  PROVE  /\ Allocated(f).prg_rom_size \in Nat /\ Allocated(f).chr_rom_size \in Nat
         /\ Allocated(f).prg_rom = "prg" /\ Allocated(f).chr_rom = "chr"
         /\ Allocated(f).mirroring \in {"Vertical", "Horizontal", "FourScreen"}
         /\ Allocated(f).mapper \in u8
<1>1. prg_rom_size(f) \in Nat /\ chr_rom_size(f) \in Nat
  BY Offsets, FieldsOfHeader
<1>2. \A v \in u8 : FirstNibble(v) \in 0 .. 15
  BY U8 DEF FirstNibble
<1>3. FirstNibble(f.flags6) \in 0 .. 15 /\ FirstNibble(f.flags7) \in 0 .. 15
  BY <1>2, FieldsOfHeader
<1>4. mapper(f) \in u8
  <2>1. \A a, b \in 0 .. 15 : a + 16 * b \in u8
    BY U8
  <2> QED
    BY <1>3, <2>1 DEF mapper
<1>5. mirroring(f) \in {"Vertical", "Horizontal", "FourScreen"}
  BY DEF mirroring
<1> QED
  BY <1>1, <1>4, <1>5 DEF Allocated

LEMMA EmptyType ==
  /\ {EmptyCartridge.prg_rom_size, EmptyCartridge.chr_rom_size} \subseteq Nat
  /\ EmptyCartridge.prg_rom \in {Null, "prg"} /\ EmptyCartridge.chr_rom \in {Null, "chr"}
  /\ EmptyCartridge.mirroring \in {"Vertical", "Horizontal", "FourScreen"}
  /\ EmptyCartridge.mapper \in u8
<1>1. 0 \in u8
  BY U8
<1>2. EmptyCartridge.mapper \in u8
  BY <1>1 DEF EmptyCartridge
<1> QED
  BY <1>2 DEF EmptyCartridge

-----------------------------------------------------------------------------
(* The invariant.                                                          *)

LEMMA InitLoaderInv == LoaderInit => LoaderInv
<1> SUFFICES ASSUME LoaderInit PROVE LoaderInv
  OBVIOUS
<1>1. LoaderTypeOK
  <2>1. DOMAIN heap = {}
    BY DEF LoaderInit
  <2>2. at \in LoaderSteps /\ error \in Messages /\ stream \in BOOLEAN /\ file \in Files
    BY DEF LoaderInit, LoaderSteps, Messages
  <2>3. cartridge = EmptyCartridge
    BY DEF LoaderInit
  <2> QED
    BY <2>1, <2>2, <2>3, EmptyType DEF LoaderTypeOK
<1> QED
  BY <1>1 DEF LoaderInit, LoaderInv, Before

\* An early return, at any step: the file is closed, the message says which.
LEMMA FailLoaderInv ==
  ASSUME LoaderInv, NEW message \in Messages \ {"none"}, Fail(message),
         HoldsCartridge(file) => ReadsCanFail,
         message \notin ReadErrors => DOMAIN heap = {}
  PROVE  LoaderInv'
<1>1. /\ at' = "returned" /\ error' = message /\ cartridge' = EmptyCartridge
      /\ stream' = FALSE /\ file' = file /\ heap' = heap
  BY DEF Fail
<1>2. LoaderTypeOK'
  <2>1. at' \in LoaderSteps /\ error' \in Messages /\ stream' \in BOOLEAN
    BY <1>1 DEF LoaderSteps
  <2>2. file \in Files /\ DOMAIN heap \subseteq Buffers
        /\ \A b \in DOMAIN heap : heap[b] \in Nat \cup {Unread}
    BY DEF LoaderInv, LoaderTypeOK
  <2> QED
    BY <1>1, <2>1, <2>2, EmptyType DEF LoaderTypeOK
<1>3. Failed'
  BY <1>1 DEF Failed, HoldsCartridge
<1> QED
  BY <1>1, <1>2, <1>3 DEF LoaderInv, Before

LEMMA OpenLoaderInv == ASSUME LoaderInv, Open PROVE LoaderInv'
<1>1. CASE file = NoFile
  <2>1. Fail("file") /\ DOMAIN heap = {} /\ ~HoldsCartridge(file)
    BY <1>1 DEF Open, LoaderInv, Before, HoldsCartridge
  <2> QED
    BY <2>1, FailLoaderInv DEF Messages
<1>2. CASE file # NoFile
  <2>1. /\ at = "open" /\ at' = "header" /\ stream' = TRUE /\ file' = file
        /\ heap' = heap /\ cartridge' = cartridge /\ error' = error
    BY <1>2 DEF Open
  <2>2. LoaderTypeOK'
    BY <2>1 DEF LoaderInv, LoaderTypeOK, LoaderSteps
  <2> QED
    BY <1>2, <2>1, <2>2 DEF LoaderInv, Before
<1> QED
  BY <1>1, <1>2

LEMMA ReadHeaderLoaderInv == ASSUME LoaderInv, ReadHeader PROVE LoaderInv'
<1>1. file \in Files /\ file # NoFile /\ at = "header" /\ DOMAIN heap = {}
  BY DEF LoaderInv, LoaderTypeOK, ReadHeader, Before
<1>2. CASE ReadFails(0, HEADER_SIZE) /\ Fail("header")
  <2>1. HoldsCartridge(file) => ReadsCanFail
    BY <1>1, <1>2, ReadableFile DEF ReadFails
  <2> QED
    BY <1>1, <1>2, <2>1, FailLoaderInv DEF Messages
<1>3. CASE at' = "magic" /\ UNCHANGED <<file, stream, heap, cartridge, error>>
  <2>1. LoaderTypeOK'
    BY <1>3 DEF LoaderInv, LoaderTypeOK, LoaderSteps
  <2> QED
    BY <1>1, <1>3, <2>1 DEF LoaderInv, Before
<1> QED
  BY <1>2, <1>3 DEF ReadHeader

LEMMA CheckMagicLoaderInv == ASSUME LoaderInv, CheckMagic PROVE LoaderInv'
<1>1. file \in Files /\ file # NoFile /\ at = "magic" /\ DOMAIN heap = {}
  BY DEF LoaderInv, LoaderTypeOK, CheckMagic, Before
<1>2. CASE ~file.magic /\ Fail("format")
  <2>1. ~HoldsCartridge(file)
    BY <1>2 DEF HoldsCartridge
  <2> QED
    BY <1>1, <1>2, <2>1, FailLoaderInv DEF Messages
<1>3. CASE file.magic /\ at' = "allocate" /\ UNCHANGED <<file, stream, heap, cartridge, error>>
  <2>1. LoaderTypeOK'
    BY <1>3 DEF LoaderInv, LoaderTypeOK, LoaderSteps
  <2> QED
    BY <1>1, <1>3, <2>1 DEF LoaderInv, Before
<1> QED
  BY <1>2, <1>3 DEF CheckMagic

LEMMA AllocateLoaderInv == ASSUME LoaderInv, Allocate PROVE LoaderInv'
<1>1. file \in Files /\ file # NoFile /\ at = "allocate" /\ file.magic /\ error = "none"
  BY DEF LoaderInv, LoaderTypeOK, Allocate, Before
<1>2. /\ at' = "prg" /\ file' = file /\ stream' = stream /\ error' = error
      /\ heap' = [b \in Buffers |-> Unread] /\ cartridge' = Allocated(file)
  BY DEF Allocate, Allocated
<1>3. LoaderTypeOK'
  BY <1>1, <1>2, AllocatedType DEF LoaderInv, LoaderTypeOK, LoaderSteps
<1>4. cartridge' = Allocated(file')
  BY <1>2
<1> QED
  BY <1>1, <1>2, <1>3, <1>4 DEF LoaderInv, Before

LEMMA ReadPrgRomLoaderInv == ASSUME LoaderInv, ReadPrgRom PROVE LoaderInv'
<1>1. /\ file \in Files /\ file # NoFile /\ at = "prg" /\ file.magic /\ error = "none"
      /\ DOMAIN heap = Buffers /\ cartridge = Allocated(file)
  BY DEF LoaderInv, LoaderTypeOK, ReadPrgRom
<1>2. CASE ReadFails(start_prg_rom(file), prg_rom_size(file)) /\ Fail("prg")
  <2>1. HoldsCartridge(file) => ReadsCanFail
    BY <1>1, <1>2, ReadableFile DEF ReadFails
  <2> QED
    BY <1>2, <2>1, FailLoaderInv DEF Messages, ReadErrors
<1>3. CASE /\ CanRead(start_prg_rom(file), prg_rom_size(file))
           /\ heap' = [heap EXCEPT !["prg"] = start_prg_rom(file)]
           /\ at' = "chr"
           /\ UNCHANGED <<file, stream, cartridge, error>>
  <2>1. DOMAIN heap' = Buffers /\ heap'["prg"] = start_prg_rom(file)
    BY <1>1, <1>3 DEF Buffers
  <2>2. \A b \in DOMAIN heap' : heap'[b] \in Nat \cup {Unread}
    BY <1>1, <1>3, <2>1, Offsets DEF LoaderInv, LoaderTypeOK, Buffers
  <2>3. LoaderTypeOK'
    BY <1>3, <2>1, <2>2 DEF LoaderInv, LoaderTypeOK, LoaderSteps
  <2>4. CanRead(start_prg_rom(file), prg_rom_size(file))'
    BY <1>3 DEF CanRead
  <2>5. cartridge' = Allocated(file')
    BY <1>1, <1>3
  <2> QED
    BY <1>1, <1>3, <2>1, <2>3, <2>4, <2>5 DEF LoaderInv, Before
<1> QED
  BY <1>2, <1>3 DEF ReadPrgRom

LEMMA ReadChrRomLoaderInv == ASSUME LoaderInv, ReadChrRom PROVE LoaderInv'
<1>1. /\ file \in Files /\ file # NoFile /\ at = "chr" /\ file.magic /\ error = "none"
      /\ DOMAIN heap = Buffers /\ cartridge = Allocated(file)
      /\ heap["prg"] = start_prg_rom(file)
      /\ CanRead(start_prg_rom(file), prg_rom_size(file))
  BY DEF LoaderInv, LoaderTypeOK, ReadChrRom
<1>2. CASE ReadFails(start_chr_rom(file), chr_rom_size(file)) /\ Fail("chr")
  <2>1. HoldsCartridge(file) => ReadsCanFail
    BY <1>1, <1>2, ReadableFile DEF ReadFails
  <2> QED
    BY <1>2, <2>1, FailLoaderInv DEF Messages, ReadErrors
<1>3. CASE /\ CanRead(start_chr_rom(file), chr_rom_size(file))
           /\ heap' = [heap EXCEPT !["chr"] = start_chr_rom(file)]
           /\ at' = "returned"
           /\ stream' = FALSE
           /\ UNCHANGED <<file, cartridge, error>>
  <2>1. /\ DOMAIN heap' = Buffers
        /\ heap'["prg"] = start_prg_rom(file) /\ heap'["chr"] = start_chr_rom(file)
    BY <1>1, <1>3 DEF Buffers
  <2>2. start_chr_rom(file) \in Nat /\ start_prg_rom(file) \in Nat
    BY <1>1, Offsets, FieldsOfHeader
  <2>3. \A b \in DOMAIN heap' : heap'[b] \in Nat \cup {Unread}
    BY <2>1, <2>2 DEF Buffers
  <2>4. LoaderTypeOK'
    BY <1>3, <2>1, <2>3 DEF LoaderInv, LoaderTypeOK, LoaderSteps
  <2>5. HoldsCartridge(file)
    <3>1. CanRead(0, HEADER_SIZE)
      BY <1>1, Offsets, FieldsOfHeader DEF CanRead, HEADER_SIZE
    <3> QED
      BY <1>1, <1>3, <3>1, ReadableFile
  <2>6. Succeeded'
    BY <1>1, <1>3, <2>1, <2>5 DEF Succeeded
  <2> QED
    BY <1>3, <2>4, <2>6 DEF LoaderInv, Before
<1> QED
  BY <1>2, <1>3 DEF ReadChrRom

LEMMA ReleaseLoaderInv == ASSUME LoaderInv, release_cartridge PROVE LoaderInv'
<1>1. /\ at = "returned" /\ at' = "released"
      /\ file' = file /\ stream' = stream /\ cartridge' = cartridge /\ error' = error
      /\ DOMAIN heap' = DOMAIN heap \ {cartridge.prg_rom, cartridge.chr_rom}
      /\ \A b \in DOMAIN heap' : heap'[b] = heap[b]
  BY DEF release_cartridge
<1>2. LoaderTypeOK'
  BY <1>1 DEF LoaderInv, LoaderTypeOK, LoaderSteps
<1>3. error \notin ReadErrors => DOMAIN heap' = {}
  <2>1. CASE Succeeded
    <3>1. cartridge.prg_rom = "prg" /\ cartridge.chr_rom = "chr"
      BY <2>1 DEF Succeeded, Allocated
    <3> QED
      BY <1>1, <2>1, <3>1 DEF Succeeded, Buffers
  <2>2. CASE Failed
    BY <1>1, <2>2 DEF Failed
  <2> QED
    BY <1>1, <2>1, <2>2 DEF LoaderInv
<1> QED
  BY <1>1, <1>2, <1>3 DEF LoaderInv, Before

LEMMA NextLoaderInv == LoaderInv /\ [LoaderNext]_loaderVars => LoaderInv'
<1> SUFFICES ASSUME LoaderInv, [LoaderNext]_loaderVars PROVE LoaderInv'
  OBVIOUS
<1>1. CASE LoadStep
  BY <1>1, OpenLoaderInv, ReadHeaderLoaderInv, CheckMagicLoaderInv, AllocateLoaderInv,
     ReadPrgRomLoaderInv, ReadChrRomLoaderInv DEF LoadStep
<1>2. CASE release_cartridge
  BY <1>2, ReleaseLoaderInv
<1>3. CASE UNCHANGED loaderVars
  BY <1>3 DEF loaderVars, LoaderInv, LoaderTypeOK, Succeeded, Failed, CanRead
<1> QED
  BY <1>1, <1>2, <1>3 DEF LoaderNext, Released

LEMMA LoaderInvariant == LoaderSpec => []LoaderInv
  BY InitLoaderInv, NextLoaderInv, PTL DEF LoaderSpec

\* Whatever the files and wherever a read fails, the cartridge, the heap and
\* the mapper's number hold what their declarations allow.
THEOREM LoaderTypeCorrectness == LoaderSpec => []LoaderTypeOK
<1>1. LoaderInv => LoaderTypeOK
  BY DEF LoaderInv
<1> QED
  BY <1>1, LoaderInvariant, PTL

\* Every return of load_cartridge has closed its file, and every cartridge
\* that has been released has left nothing allocated, except after the two
\* errors at which the buffers are lost.
THEOREM LoaderReleasesAll == LoaderSpec => []ReleasesAll
<1>1. LoaderInv => ReleasesAll
  BY DEF LoaderInv, ReleasesAll
<1> QED
  BY <1>1, LoaderInvariant, PTL

-----------------------------------------------------------------------------
(* The load as one step.                                                   *)

LEMMA WholeContents ==
  ASSUME file \in Files, Succeeded
  PROVE  Contents = Layout(file)
<1>1. file # NoFile
  BY DEF Succeeded, HoldsCartridge
<1>2. /\ cartridge.prg_rom = "prg" /\ cartridge.prg_rom_size = prg_rom_size(file)
      /\ cartridge.chr_rom = "chr" /\ cartridge.chr_rom_size = chr_rom_size(file)
  BY DEF Succeeded, Allocated
<1>3. "prg" \in DOMAIN heap /\ "chr" \in DOMAIN heap
  BY DEF Succeeded, Buffers
<1> QED
  BY <1>1, <1>2, <1>3, Offsets DEF Contents, Succeeded

LEMMA EmptyContents ==
  ASSUME LoaderTypeOK, Failed
  PROVE  Contents = NoContents
<1>1. Null \notin DOMAIN heap
  BY DEF LoaderTypeOK, Buffers, Null
<1>2. /\ cartridge.prg_rom = Null /\ cartridge.prg_rom_size = 0
      /\ cartridge.chr_rom = Null /\ cartridge.chr_rom_size = 0
  BY DEF Failed, EmptyCartridge
<1> QED
  BY <1>1, <1>2 DEF Contents, NoContents

\* A load that has returned, as the abstract specification sees it.
Loaded ==
  \/ HoldsCartridge(file) /\ Contents = Layout(file)
  \/ (HoldsCartridge(file) => ReadsCanFail) /\ Contents = NoContents

LEMMA ReturnedIsLoaded == LoaderInv /\ at = "returned" => Loaded
<1> SUFFICES ASSUME LoaderInv, at = "returned" PROVE Loaded
  OBVIOUS
<1>1. file \in Files /\ LoaderTypeOK /\ (Succeeded \/ Failed)
  BY DEF LoaderInv, LoaderTypeOK
<1>2. CASE Succeeded
  BY <1>1, <1>2, WholeContents DEF Loaded, Succeeded
<1>3. CASE Failed
  BY <1>1, <1>3, EmptyContents DEF Loaded, Failed
<1> QED
  BY <1>1, <1>2, <1>3

\* Each step of the loader is a step of Slot or leaves the slot alone.
LEMMA StepOfSlot ==
  LoaderInv /\ LoaderInv' /\ [LoaderNext]_loaderVars => [Promise!SlotNext]_(Promise!slotVars)
<1> SUFFICES ASSUME LoaderInv, LoaderInv', [LoaderNext]_loaderVars
             PROVE  [Promise!SlotNext]_(Promise!slotVars)
  OBVIOUS
<1>1. CASE LoadStep
  <2>1. /\ at \in {"open", "header", "magic", "allocate", "prg", "chr"}
        /\ at' \in {"header", "magic", "allocate", "prg", "chr", "returned"}
        /\ file' = file
    BY <1>1 DEF LoadStep, Open, ReadHeader, CheckMagic, Allocate, ReadPrgRom, ReadChrRom, Fail
  <2>2. LoadedSlot = [state |-> "pending"]
    BY <2>1 DEF LoadedSlot
  <2>3. CASE at' = "returned"
    <3>1. LoadedSlot' = [state |-> "loaded", cartridge |-> Contents']
      BY <2>3 DEF LoadedSlot
    <3>2. Loaded'
      <4>1. (LoaderInv /\ at = "returned" => Loaded)'
        BY ReturnedIsLoaded, PTL
      <4> QED
        BY <2>3, <4>1
    <3>3. /\ HoldsCartridge(file)' = HoldsCartridge(file)
          /\ Layout(file)' = Layout(file) /\ NoContents' = NoContents
      BY <2>1 DEF HoldsCartridge
    <3>4. \/ HoldsCartridge(file) /\ Contents' = Layout(file)
          \/ (HoldsCartridge(file) => ReadsCanFail) /\ Contents' = NoContents
      BY <3>2, <3>3 DEF Loaded
    <3> QED
      BY <2>1, <2>2, <3>1, <3>4 DEF Promise!SlotNext, Promise!LoadWhole, Promise!LoadNothing
  <2>4. CASE at' # "returned"
    <3>1. LoadedSlot' = [state |-> "pending"]
      BY <2>1, <2>4 DEF LoadedSlot
    <3> QED
      BY <2>1, <2>2, <3>1 DEF Promise!slotVars
  <2> QED
    BY <2>3, <2>4
<1>2. CASE release_cartridge
  <2>1. at = "returned" /\ at' = "released" /\ file' = file
    BY <1>2 DEF release_cartridge
  <2>2. /\ LoadedSlot = [state |-> "loaded", cartridge |-> Contents]
        /\ LoadedSlot' = [state |-> "released"]
    BY <2>1 DEF LoadedSlot
  <2> QED
    BY <2>1, <2>2 DEF Promise!SlotNext, Promise!ReleaseSlot
<1>3. CASE UNCHANGED loaderVars
  <2>1. file' = file /\ Contents' = Contents /\ at' = at
    BY <1>3 DEF loaderVars, Contents
  <2>2. LoadedSlot' = LoadedSlot
    BY <2>1 DEF LoadedSlot
  <2> QED
    BY <2>1, <2>2 DEF Promise!slotVars
<1> QED
  BY <1>1, <1>2, <1>3 DEF LoaderNext, Released

\* For every set of files, with reads that may fail or not, the steps
\* of a load together are one: the caller gets both ROMs of the file, each
\* whole and from its place, or an empty cartridge.
THEOREM LoaderIsAtomic == LoaderSpec => LoadsAtomically
<1>1. LoaderInit => Promise!SlotInit
  BY DEF LoaderInit, Promise!SlotInit, LoadedSlot
<1> QED
  BY <1>1, LoaderInvariant, StepOfSlot, PTL DEF LoaderSpec, LoadsAtomically, Promise!SlotSpec

-----------------------------------------------------------------------------

\* The phases in which the cartridge is in the bus and has not been released.
Inserted == {"inserted", "loaded", "reset", "running"}

\* The inductive invariant.
EmulatorInv ==
  /\ LoaderInv
  /\ program \in {"main", "test"}
  /\ phase \in Phases \cup {"loading", "inserted", "failed", "crashed"}
  /\ phase \in Phases => IInv
  /\ phase \in Inserted => at = "returned"
  /\ phase \in Inserted => bus.cartridge = LoadedRom
  /\ phase = "inserted" => bus = bus_load_cartridge(LoadedRom)
  /\ phase \in Inserted \ {"inserted"} => cartridge.prg_rom # Null

\* A cartridge with a PRG ROM is the one of a load that has succeeded.
LEMMA PointerMeansRom ==
  ASSUME LoaderInv, at = "returned", cartridge.prg_rom # Null
  PROVE  /\ HoldsCartridge(file) /\ Contents = Layout(file)
         /\ LoadedRom = WholeRom(file)
         /\ LoadedRom \in Cartridges
<1>1. Succeeded
  BY DEF LoaderInv, Failed, EmptyCartridge
<1>2. file \in Files /\ file # NoFile /\ HoldsCartridge(file)
  BY <1>1 DEF LoaderInv, LoaderTypeOK, Succeeded, HoldsCartridge
<1>3. Contents = Layout(file)
  BY <1>1, <1>2, WholeContents
<1>4. /\ heap[cartridge.prg_rom] = Layout(file).prg.from
      /\ cartridge.prg_rom_size = Layout(file).prg.size
  BY <1>1, <1>2, Offsets DEF Succeeded, Allocated
<1>5. LoadedRom = WholeRom(file)
  BY <1>4 DEF LoadedRom, WholeRom
<1> QED
  BY <1>2, <1>3, <1>5, RomsAssumption

\* A step that leaves the loader's variables alone.
LEMMA LoaderKept ==
  LoaderInv /\ UNCHANGED loaderVars => LoaderInv' /\ LoadedRom' = LoadedRom
<1> SUFFICES ASSUME LoaderInv, UNCHANGED loaderVars
             PROVE  LoaderInv' /\ LoadedRom' = LoadedRom
  OBVIOUS
<1>1. LoaderInv'
  BY NextLoaderInv
<1> QED
  BY <1>1 DEF LoadedRom, loaderVars

-----------------------------------------------------------------------------

LEMMA InitEmulatorInv == EmulatorInit => EmulatorInv
  BY InitLoaderInv DEF EmulatorInit, EmulatorInv, Inserted, Phases

LEMMA LoadEmulatorInv == ASSUME EmulatorInv, load_cartridge PROVE EmulatorInv'
<1>1. LoaderInv'
  BY NextLoaderInv DEF EmulatorInv, load_cartridge, LoaderNext
<1> QED
  BY <1>1 DEF EmulatorInv, load_cartridge, Inserted, Phases

LEMMA InsertEmulatorInv == ASSUME EmulatorInv, InsertCartridge PROVE EmulatorInv'
<1>1. LoaderInv' /\ LoadedRom' = LoadedRom /\ at' = at /\ cartridge' = cartridge
  BY LoaderKept DEF EmulatorInv, InsertCartridge, loaderVars
<1>2. bus' = bus_load_cartridge(LoadedRom) /\ at = "returned" /\ program' = program
  BY DEF InsertCartridge
<1>3. bus'.cartridge = LoadedRom
  BY <1>2 DEF bus_load_cartridge
<1>4. CASE program = "main"
  <2>1. phase' = "inserted"
    BY <1>4 DEF InsertCartridge
  <2> QED
    BY <1>1, <1>2, <1>3, <2>1 DEF EmulatorInv, Inserted, Phases
<1>5. CASE program # "main" /\ cartridge.prg_rom # Null
  <2>1. phase' = "loaded"
    BY <1>5 DEF InsertCartridge
  <2>2. bus' \in BusState
    BY <1>2, <1>5, PointerMeansRom, PowerUpType DEF EmulatorInv
  <2>3. IInv'
    BY <2>1, <2>2 DEF IInv, TypeOK, StatusDiscipline, Phases
  <2> QED
    BY <1>1, <1>2, <1>3, <1>5, <2>1, <2>3 DEF EmulatorInv, Inserted, Phases
<1>6. ASSUME program # "main" PROVE cartridge.prg_rom # Null
  BY <1>6 DEF EmulatorInv, InsertCartridge, Checks, Required
<1> QED
  BY <1>4, <1>5, <1>6

\* The listing reads the ROM: without one it ends the program.
LEMMA DisassembleEmulatorInv == ASSUME EmulatorInv, Disassemble PROVE EmulatorInv'
<1>1. LoaderInv' /\ LoadedRom' = LoadedRom /\ at' = at /\ cartridge' = cartridge
  BY LoaderKept DEF EmulatorInv, Disassemble, loaderVars
<1>2. bus' = bus /\ program' = program /\ phase = "inserted"
  BY DEF Disassemble
<1>3. at = "returned" /\ bus = bus_load_cartridge(LoadedRom) /\ bus.cartridge = LoadedRom
  BY <1>2 DEF EmulatorInv, Inserted
<1>4. CASE cartridge.prg_rom = Null
  <2>1. phase' = "crashed"
    BY <1>4 DEF Disassemble
  <2> QED
    BY <1>1, <1>2, <2>1 DEF EmulatorInv, Inserted, Phases
<1>5. CASE cartridge.prg_rom # Null
  <2>1. phase' = "loaded"
    BY <1>5 DEF Disassemble
  <2>2. bus' \in BusState
    BY <1>2, <1>3, <1>5, PointerMeansRom, PowerUpType DEF EmulatorInv
  <2>3. IInv'
    BY <2>1, <2>2 DEF IInv, TypeOK, StatusDiscipline, Phases
  <2> QED
    BY <1>1, <1>2, <1>3, <1>5, <2>1, <2>3 DEF EmulatorInv, Inserted, Phases
<1> QED
  BY <1>4, <1>5

LEMMA RunEmulatorInv == ASSUME EmulatorInv, RunCpu PROVE EmulatorInv'
<1>1. LoaderInv' /\ LoadedRom' = LoadedRom /\ at' = at /\ cartridge' = cartridge
  BY LoaderKept DEF EmulatorInv, RunCpu, loaderVars
<1>2. phase \in {"loaded", "reset", "running"}
  BY DEF RunCpu, BusReset, Start, Step, Load, Store, Transfer, Alu, IncDec, Shift,
         ReadModifyWrite, Branch, Jump, Stack, Flag, Empty, Execute, Dispatches
<1>3. IInv /\ at = "returned" /\ bus.cartridge = LoadedRom /\ cartridge.prg_rom # Null
  BY <1>2 DEF EmulatorInv, Inserted, Phases
<1>4. IInv'
  BY <1>3, NextIInv DEF RunCpu, Next
<1>5. phase' \in Phases
  BY <1>4 DEF IInv, TypeOK
<1>6. bus'.cartridge = bus.cartridge
  <2>1. CASE BusReset
    BY <1>3, <2>1, ResetKeepsCartridge DEF BusReset, SameCartridge, IInv, TypeOK
  <2>2. CASE Start
    <3>1. bus \in BusState
      BY <1>3 DEF IInv, TypeOK
    <3> QED
      BY <2>2, <3>1, UpdatesStay DEF Start, SameCartridge
  <2>3. CASE Step
    <3>1. phase = "running"
      BY <2>3 DEF Step, Load, Store, Transfer, Alu, IncDec, Shift, ReadModifyWrite,
                  Branch, Jump, Stack, Flag, Empty, Execute, Dispatches
    <3> QED
      BY <1>3, <2>3, <3>1, RunningType, StepKeepsCartridge DEF SameCartridge
  <2> QED
    BY <2>1, <2>2, <2>3 DEF RunCpu
<1>7. program' = program
  BY DEF RunCpu
<1> QED
  BY <1>1, <1>3, <1>4, <1>5, <1>6, <1>7 DEF EmulatorInv, Inserted, Phases

LEMMA ReleaseEmulatorInv == ASSUME EmulatorInv, ReleaseCartridge PROVE EmulatorInv'
<1>1. LoaderInv'
  BY NextLoaderInv DEF EmulatorInv, ReleaseCartridge, LoaderNext
<1>2. phase \in {"returned", "failed"} /\ UNCHANGED <<program, bus, phase>>
  BY DEF ReleaseCartridge
<1>3. phase \in Phases => IInv'
  BY <1>2 DEF EmulatorInv, IInv, TypeOK, StatusDiscipline
<1> QED
  BY <1>1, <1>2, <1>3 DEF EmulatorInv, Inserted

LEMMA NextEmulatorInv == EmulatorInv /\ [EmulatorNext]_emulatorVars => EmulatorInv'
<1> SUFFICES ASSUME EmulatorInv, [EmulatorNext]_emulatorVars PROVE EmulatorInv'
  OBVIOUS
<1>1. CASE RequireFails
  <2>1. LoaderInv' /\ phase' = "failed" /\ program' = program
    BY <1>1, LoaderKept DEF RequireFails, EmulatorInv
  <2> QED
    BY <2>1 DEF EmulatorInv, Inserted, Phases
<1>2. CASE UNCHANGED emulatorVars
  <2>1. LoaderInv' /\ LoadedRom' = LoadedRom
    BY <1>2, LoaderKept DEF EmulatorInv, emulatorVars
  <2>2. UNCHANGED <<program, bus, phase, at, cartridge>>
    BY <1>2 DEF emulatorVars, loaderVars
  <2> QED
    BY <2>1, <2>2 DEF EmulatorInv, IInv, TypeOK, StatusDiscipline
<1> QED
  BY <1>1, <1>2, LoadEmulatorInv, InsertEmulatorInv, DisassembleEmulatorInv,
     RunEmulatorInv, ReleaseEmulatorInv DEF EmulatorNext, Ended

\* In main and in the test, from the end of the listing until run_cpu returns
\* the bus holds the whole PRG ROM of a file that holds a cartridge, and the
\* buffers behind its pointers have not been freed.
THEOREM BusAlwaysHasRom == EmulatorSpec => []BusHasRom
<1>1. EmulatorInv => BusHasRom
  <2> SUFFICES ASSUME EmulatorInv, phase \in Phases \ {"returned"} PROVE BusHasRom
    BY DEF BusHasRom
  <2>1. LoaderInv /\ at = "returned" /\ bus.cartridge = LoadedRom /\ cartridge.prg_rom # Null
    BY DEF EmulatorInv, Inserted, Phases
  <2> QED
    BY <2>1, PointerMeansRom DEF BusHasRom
<1> QED
  BY InitEmulatorInv, NextEmulatorInv, <1>1, PTL DEF EmulatorSpec

-----------------------------------------------------------------------------
(* The instance of CPU behind the refinement mapping: an operator without  *)
(* variables is the operator of the same name, one lemma for each family.  *)

\* Words and their halves.
LEMMA SameNumbers ==
  /\ \A n : Cpu!ToU8(n) = ToU8(n) /\ Cpu!ToU16(n) = ToU16(n)
  /\ \A n : Cpu!LowByte(n) = LowByte(n) /\ Cpu!HighByte(n) = HighByte(n)
  /\ \A hi, lo : Cpu!Word(hi, lo) = Word(hi, lo)
  /\ Cpu!Weights = Weights
<1>1. /\ \A n : Cpu!ToU8(n) = ToU8(n) /\ Cpu!ToU16(n) = ToU16(n)
      /\ \A n : Cpu!LowByte(n) = LowByte(n) /\ Cpu!HighByte(n) = HighByte(n)
      /\ \A hi, lo : Cpu!Word(hi, lo) = Word(hi, lo)
  BY DEF Cpu!ToU8, ToU8, Cpu!ToU16, ToU16, Cpu!LowByte, LowByte, Cpu!HighByte, HighByte,
         Cpu!Word, Word
<1>2. Cpu!Weights = Weights
  BY DEF Cpu!Weights, Weights
<1> QED
  BY <1>1, <1>2

\* Bytes as sets of bits.
LEMMA SameBits ==
  /\ \A v : Cpu!Bits(v) = Bits(v)
  /\ \A S : Cpu!Byte(S) = Byte(S)
  /\ \A u, v : /\ Cpu!BitAnd(u, v) = BitAnd(u, v) /\ Cpu!BitOr(u, v) = BitOr(u, v)
               /\ Cpu!BitXor(u, v) = BitXor(u, v)
  /\ \A v : Cpu!Bit7(v) <=> Bit7(v)
<1>1. \A v : Cpu!Bits(v) = Bits(v)
  BY SameNumbers DEF Cpu!Bits, Bits
<1>2. \A S : Cpu!Byte(S) = Byte(S)
  BY DEF Cpu!Byte, Byte
<1>3. \A u, v : /\ Cpu!BitAnd(u, v) = BitAnd(u, v) /\ Cpu!BitOr(u, v) = BitOr(u, v)
                /\ Cpu!BitXor(u, v) = BitXor(u, v)
  BY <1>1, <1>2 DEF Cpu!BitAnd, BitAnd, Cpu!BitOr, BitOr, Cpu!BitXor, BitXor
<1>4. \A v : Cpu!Bit7(v) <=> Bit7(v)
  BY DEF Cpu!Bit7, Bit7
<1> QED
  BY <1>1, <1>2, <1>3, <1>4

\* The accesses of the bus.
LEMMA SameAccesses ==
  /\ \A b, a : Cpu!read_mem(b, a) = read_mem(b, a)
  /\ \A b, a, v : Cpu!write_mem(b, a, v) = write_mem(b, a, v)
  /\ \A c : Cpu!bus_load_cartridge(c) = bus_load_cartridge(c)
<1>1. /\ \A a : Cpu!CartMaps(a) <=> CartMaps(a)
      /\ \A c, a : Cpu!CartOffset(c, a) = CartOffset(c, a)
      /\ \A a : Cpu!RamCell(a) = RamCell(a)
      /\ Cpu!RAM_MIRROR_END = RAM_MIRROR_END /\ Cpu!OPEN_BUS = OPEN_BUS
      /\ Cpu!RAM_SIZE = RAM_SIZE
  BY DEF Cpu!CartMaps, CartMaps, Cpu!CartOffset, CartOffset, Cpu!RamCell, RamCell,
         Cpu!RAM_MIRROR_END, RAM_MIRROR_END, Cpu!OPEN_BUS, OPEN_BUS,
         Cpu!RAM_SIZE, RAM_SIZE, Cpu!PRG_ROM_START, PRG_ROM_START,
         Cpu!PRG_ROM_END, PRG_ROM_END, Cpu!PRG_ROM_PAGE, PRG_ROM_PAGE
<1>2. \A c, i : Cpu!PrgRom(c, i) = PrgRom(c, i)
  BY DEF Cpu!PrgRom, PrgRom
<1>3. \A b, a : Cpu!read_mem(b, a) = read_mem(b, a)
  BY <1>1, <1>2, Zenon DEF Cpu!read_mem, read_mem
<1>4. \A b, a, v : Cpu!write_mem(b, a, v) = write_mem(b, a, v)
  BY <1>1 DEF Cpu!write_mem, write_mem
<1>5. \A c : Cpu!bus_load_cartridge(c) = bus_load_cartridge(c)
  BY <1>1 DEF Cpu!bus_load_cartridge, bus_load_cartridge
<1> QED
  BY <1>3, <1>4, <1>5

\* The constants of the CPU.
LEMMA SameFlags ==
  /\ Cpu!CarryFlag = CarryFlag /\ Cpu!ZeroFlag = ZeroFlag
  /\ Cpu!InterruptDisable = InterruptDisable /\ Cpu!DecimalModeFlag = DecimalModeFlag
  /\ Cpu!BreakCommand = BreakCommand /\ Cpu!UnusedFlag = UnusedFlag
  /\ Cpu!OverflowFlag = OverflowFlag /\ Cpu!NegativeFlag = NegativeFlag
  /\ Cpu!STACK_START = STACK_START /\ Cpu!RESET_VECTOR = RESET_VECTOR
  /\ Cpu!IRQ_VECTOR = IRQ_VECTOR /\ Cpu!AUTOMATION_ENTRY = AUTOMATION_ENTRY
  BY DEF Cpu!CarryFlag, CarryFlag, Cpu!ZeroFlag, ZeroFlag, Cpu!InterruptDisable,
         InterruptDisable, Cpu!DecimalModeFlag, DecimalModeFlag, Cpu!BreakCommand,
         BreakCommand, Cpu!UnusedFlag, UnusedFlag, Cpu!OverflowFlag, OverflowFlag,
         Cpu!NegativeFlag, NegativeFlag, Cpu!STACK_START, STACK_START,
         Cpu!RESET_VECTOR, RESET_VECTOR, Cpu!IRQ_VECTOR, IRQ_VECTOR,
         Cpu!AUTOMATION_ENTRY, AUTOMATION_ENTRY

\* Flags, words in memory and the stack.
LEMMA SameHelpers ==
  /\ \A b, n : Cpu!tick(b, n) = tick(b, n)
  /\ \A b, f, v : Cpu!set_flag(b, f, v) = set_flag(b, f, v)
  /\ \A b, v : Cpu!update_zero_and_negative_flags(b, v)
                 = update_zero_and_negative_flags(b, v)
  /\ \A b, a : Cpu!read_mem_u16(b, a) = read_mem_u16(b, a)
  /\ \A b, v : Cpu!push_stack(b, v) = push_stack(b, v)
  /\ \A b, w : Cpu!push_stack_u16(b, w) = push_stack_u16(b, w)
  /\ \A b : Cpu!pop_stack(b) = pop_stack(b)
  /\ \A b : Cpu!pop_stack_u16(b) = pop_stack_u16(b)
  /\ \A b : Cpu!cpu_reset(b) = cpu_reset(b)
<1> USE SameNumbers, SameBits, SameAccesses, SameFlags
<1>1. \A b, n : Cpu!tick(b, n) = tick(b, n)
  BY DEF Cpu!tick, tick
<1>2. \A b, f, v : Cpu!set_flag(b, f, v) = set_flag(b, f, v)
  BY DEF Cpu!set_flag, set_flag
<1>3. \A b, v : Cpu!update_zero_and_negative_flags(b, v)
                  = update_zero_and_negative_flags(b, v)
  BY <1>2 DEF Cpu!update_zero_and_negative_flags, update_zero_and_negative_flags
<1>4. \A b, a : Cpu!read_mem_u16(b, a) = read_mem_u16(b, a)
  BY DEF Cpu!read_mem_u16, read_mem_u16
<1>5. \A b, v : Cpu!push_stack(b, v) = push_stack(b, v)
  BY DEF Cpu!push_stack, push_stack
<1>6. \A b, w : Cpu!push_stack_u16(b, w) = push_stack_u16(b, w)
  BY <1>5 DEF Cpu!push_stack_u16, push_stack_u16
<1>7. \A b : Cpu!pop_stack(b) = pop_stack(b)
  BY DEF Cpu!pop_stack, pop_stack
<1>8. \A b : Cpu!pop_stack_u16(b) = pop_stack_u16(b)
  BY <1>7 DEF Cpu!pop_stack_u16, pop_stack_u16
<1>9. \A b : Cpu!cpu_reset(b) = cpu_reset(b)
  BY <1>1, <1>4 DEF Cpu!cpu_reset, cpu_reset
<1> QED
  BY <1>1, <1>2, <1>3, <1>4, <1>5, <1>6, <1>7, <1>8, <1>9

\* Loads, stores, transfers and the counting of X and Y.
LEMMA SameLoadsAndStores ==
  /\ \A b, v : Cpu!SetA(b, v) = SetA(b, v)
  /\ \A b, v : Cpu!SetX(b, v) = SetX(b, v)
  /\ \A b, v : Cpu!SetY(b, v) = SetY(b, v)
  /\ \A b, a :
       /\ Cpu!lda_fn(b, a) = lda_fn(b, a) /\ Cpu!ldx_fn(b, a) = ldx_fn(b, a)
       /\ Cpu!ldy_fn(b, a) = ldy_fn(b, a) /\ Cpu!sta_fn(b, a) = sta_fn(b, a)
       /\ Cpu!stx_fn(b, a) = stx_fn(b, a) /\ Cpu!sty_fn(b, a) = sty_fn(b, a)
       /\ Cpu!sax_fn(b, a) = sax_fn(b, a) /\ Cpu!tax_fn(b, a) = tax_fn(b, a)
       /\ Cpu!tay_fn(b, a) = tay_fn(b, a) /\ Cpu!tsx_fn(b, a) = tsx_fn(b, a)
       /\ Cpu!txa_fn(b, a) = txa_fn(b, a) /\ Cpu!tya_fn(b, a) = tya_fn(b, a)
       /\ Cpu!txs_fn(b, a) = txs_fn(b, a) /\ Cpu!inx_fn(b, a) = inx_fn(b, a)
       /\ Cpu!iny_fn(b, a) = iny_fn(b, a) /\ Cpu!dex_fn(b, a) = dex_fn(b, a)
       /\ Cpu!dey_fn(b, a) = dey_fn(b, a) /\ Cpu!lax_fn(b, a) = lax_fn(b, a)
<1> USE SameNumbers, SameBits, SameAccesses, SameFlags, SameHelpers
<1>1. \A b, v : Cpu!SetA(b, v) = SetA(b, v)
  BY DEF Cpu!SetA, SetA
<1>2. \A b, v : Cpu!SetX(b, v) = SetX(b, v)
  BY <1>1 DEF Cpu!SetX, SetX
<1>3. \A b, v : Cpu!SetY(b, v) = SetY(b, v)
  BY <1>1, <1>2 DEF Cpu!SetY, SetY
<1>4. \A b, a :
        /\ Cpu!lda_fn(b, a) = lda_fn(b, a) /\ Cpu!ldx_fn(b, a) = ldx_fn(b, a)
        /\ Cpu!ldy_fn(b, a) = ldy_fn(b, a) /\ Cpu!sta_fn(b, a) = sta_fn(b, a)
        /\ Cpu!stx_fn(b, a) = stx_fn(b, a) /\ Cpu!sty_fn(b, a) = sty_fn(b, a)
        /\ Cpu!sax_fn(b, a) = sax_fn(b, a) /\ Cpu!tax_fn(b, a) = tax_fn(b, a)
        /\ Cpu!tay_fn(b, a) = tay_fn(b, a) /\ Cpu!tsx_fn(b, a) = tsx_fn(b, a)
        /\ Cpu!txa_fn(b, a) = txa_fn(b, a) /\ Cpu!tya_fn(b, a) = tya_fn(b, a)
        /\ Cpu!txs_fn(b, a) = txs_fn(b, a) /\ Cpu!inx_fn(b, a) = inx_fn(b, a)
        /\ Cpu!iny_fn(b, a) = iny_fn(b, a) /\ Cpu!dex_fn(b, a) = dex_fn(b, a)
        /\ Cpu!dey_fn(b, a) = dey_fn(b, a)
  BY <1>1, <1>2, <1>3 DEF Cpu!lda_fn, lda_fn, Cpu!ldx_fn, ldx_fn,
         Cpu!ldy_fn, ldy_fn, Cpu!sta_fn, sta_fn, Cpu!stx_fn, stx_fn,
         Cpu!sty_fn, sty_fn, Cpu!sax_fn, sax_fn, Cpu!tax_fn, tax_fn,
         Cpu!tay_fn, tay_fn, Cpu!tsx_fn, tsx_fn, Cpu!txa_fn, txa_fn,
         Cpu!tya_fn, tya_fn, Cpu!txs_fn, txs_fn, Cpu!inx_fn, inx_fn,
         Cpu!iny_fn, iny_fn, Cpu!dex_fn, dex_fn, Cpu!dey_fn, dey_fn
<1>5. \A b, a :
        /\ Cpu!lax_fn(b, a) = lax_fn(b, a)
  BY <1>1, <1>2, <1>3, <1>4 DEF Cpu!lax_fn, lax_fn
<1> QED
  BY <1>1, <1>2, <1>3, <1>4, <1>5

\* Arithmetic, logic and comparisons.
LEMMA SameAlu ==
  /\ \A b, v : Cpu!AddWithCarry(b, v) = AddWithCarry(b, v)
  /\ \A b, u, v : Cpu!Compare(b, u, v) = Compare(b, u, v)
  /\ \A b, a :
       /\ Cpu!adc_fn(b, a) = adc_fn(b, a) /\ Cpu!sbc_fn(b, a) = sbc_fn(b, a)
       /\ Cpu!and_fn(b, a) = and_fn(b, a) /\ Cpu!ora_fn(b, a) = ora_fn(b, a)
       /\ Cpu!eor_fn(b, a) = eor_fn(b, a) /\ Cpu!bit_fn(b, a) = bit_fn(b, a)
       /\ Cpu!cmp_fn(b, a) = cmp_fn(b, a) /\ Cpu!cpx_fn(b, a) = cpx_fn(b, a)
       /\ Cpu!cpy_fn(b, a) = cpy_fn(b, a)
<1> USE SameNumbers, SameBits, SameAccesses, SameFlags, SameHelpers, SameLoadsAndStores
<1>1. \A b, v : Cpu!AddWithCarry(b, v) = AddWithCarry(b, v)
  BY DEF Cpu!AddWithCarry, AddWithCarry
<1>2. \A b, u, v : Cpu!Compare(b, u, v) = Compare(b, u, v)
  BY <1>1 DEF Cpu!Compare, Compare
<1>3. \A b, a :
        /\ Cpu!adc_fn(b, a) = adc_fn(b, a) /\ Cpu!sbc_fn(b, a) = sbc_fn(b, a)
        /\ Cpu!and_fn(b, a) = and_fn(b, a) /\ Cpu!ora_fn(b, a) = ora_fn(b, a)
        /\ Cpu!eor_fn(b, a) = eor_fn(b, a) /\ Cpu!bit_fn(b, a) = bit_fn(b, a)
        /\ Cpu!cmp_fn(b, a) = cmp_fn(b, a) /\ Cpu!cpx_fn(b, a) = cpx_fn(b, a)
        /\ Cpu!cpy_fn(b, a) = cpy_fn(b, a)
  BY <1>1, <1>2 DEF Cpu!adc_fn, adc_fn, Cpu!sbc_fn, sbc_fn, Cpu!and_fn,
         and_fn, Cpu!ora_fn, ora_fn, Cpu!eor_fn, eor_fn, Cpu!bit_fn, bit_fn,
         Cpu!cmp_fn, cmp_fn, Cpu!cpx_fn, cpx_fn, Cpu!cpy_fn, cpy_fn
<1> QED
  BY <1>1, <1>2, <1>3

\* Shifts, INC and DEC, and the combined instructions.
LEMMA SameShifts ==
  /\ \A b : Cpu!Carry(b) = Carry(b)
  /\ \A v : Cpu!ShiftLeft(v) = ShiftLeft(v)
  /\ \A v : Cpu!ShiftRight(v) = ShiftRight(v)
  /\ \A v, u : Cpu!RotateLeft(v, u) = RotateLeft(v, u)
  /\ \A v, u : Cpu!RotateRight(v, u) = RotateRight(v, u)
  /\ \A b, a, s : Cpu!StoreShifted(b, a, s) = StoreShifted(b, a, s)
  /\ \A b, s : Cpu!SetShifted(b, s) = SetShifted(b, s)
  /\ \A b, a, v : Cpu!StoreCounted(b, a, v) = StoreCounted(b, a, v)
  /\ \A b, a :
       /\ Cpu!asl_fn(b, a) = asl_fn(b, a) /\ Cpu!lsr_fn(b, a) = lsr_fn(b, a)
       /\ Cpu!rol_fn(b, a) = rol_fn(b, a) /\ Cpu!ror_fn(b, a) = ror_fn(b, a)
       /\ Cpu!asl_acc_fn(b, a) = asl_acc_fn(b, a) /\ Cpu!lsr_acc_fn(b, a) = lsr_acc_fn(b, a)
       /\ Cpu!rol_acc_fn(b, a) = rol_acc_fn(b, a) /\ Cpu!ror_acc_fn(b, a) = ror_acc_fn(b, a)
       /\ Cpu!inc_fn(b, a) = inc_fn(b, a) /\ Cpu!dec_fn(b, a) = dec_fn(b, a)
       /\ Cpu!slo_fn(b, a) = slo_fn(b, a) /\ Cpu!rla_fn(b, a) = rla_fn(b, a)
       /\ Cpu!sre_fn(b, a) = sre_fn(b, a) /\ Cpu!rra_fn(b, a) = rra_fn(b, a)
       /\ Cpu!dcp_fn(b, a) = dcp_fn(b, a) /\ Cpu!isb_fn(b, a) = isb_fn(b, a)
<1> USE SameNumbers, SameBits, SameAccesses, SameFlags, SameHelpers, SameLoadsAndStores, SameAlu
<1>1. \A b : Cpu!Carry(b) = Carry(b)
  BY DEF Cpu!Carry, Carry
<1>2. \A v : Cpu!ShiftLeft(v) = ShiftLeft(v)
  BY <1>1 DEF Cpu!ShiftLeft, ShiftLeft
<1>3. \A v : Cpu!ShiftRight(v) = ShiftRight(v)
  BY <1>1, <1>2 DEF Cpu!ShiftRight, ShiftRight
<1>4. \A v, u : Cpu!RotateLeft(v, u) = RotateLeft(v, u)
  BY <1>1, <1>2, <1>3 DEF Cpu!RotateLeft, RotateLeft
<1>5. \A v, u : Cpu!RotateRight(v, u) = RotateRight(v, u)
  BY <1>1, <1>2, <1>3, <1>4 DEF Cpu!RotateRight, RotateRight
<1>6. \A b, a, s : Cpu!StoreShifted(b, a, s) = StoreShifted(b, a, s)
  BY <1>1, <1>2, <1>3, <1>4, <1>5 DEF Cpu!StoreShifted, StoreShifted
<1>7. \A b, s : Cpu!SetShifted(b, s) = SetShifted(b, s)
  BY <1>1, <1>2, <1>3, <1>4, <1>5, <1>6 DEF Cpu!SetShifted, SetShifted
<1>8. \A b, a, v : Cpu!StoreCounted(b, a, v) = StoreCounted(b, a, v)
  BY <1>1, <1>2, <1>3, <1>4, <1>5, <1>6, <1>7 DEF Cpu!StoreCounted, StoreCounted
<1>9. \A b, a :
        /\ Cpu!asl_fn(b, a) = asl_fn(b, a) /\ Cpu!lsr_fn(b, a) = lsr_fn(b, a)
        /\ Cpu!rol_fn(b, a) = rol_fn(b, a) /\ Cpu!ror_fn(b, a) = ror_fn(b, a)
        /\ Cpu!asl_acc_fn(b, a) = asl_acc_fn(b, a) /\ Cpu!lsr_acc_fn(b, a) = lsr_acc_fn(b, a)
        /\ Cpu!rol_acc_fn(b, a) = rol_acc_fn(b, a) /\ Cpu!ror_acc_fn(b, a) = ror_acc_fn(b, a)
        /\ Cpu!inc_fn(b, a) = inc_fn(b, a) /\ Cpu!dec_fn(b, a) = dec_fn(b, a)
  BY <1>1, <1>2, <1>3, <1>4, <1>5, <1>6, <1>7, <1>8 DEF Cpu!asl_fn, asl_fn,
         Cpu!lsr_fn, lsr_fn, Cpu!rol_fn, rol_fn, Cpu!ror_fn, ror_fn,
         Cpu!asl_acc_fn, asl_acc_fn, Cpu!lsr_acc_fn, lsr_acc_fn,
         Cpu!rol_acc_fn, rol_acc_fn, Cpu!ror_acc_fn, ror_acc_fn, Cpu!inc_fn,
         inc_fn, Cpu!dec_fn, dec_fn
<1>10. \A b, a :
        /\ Cpu!slo_fn(b, a) = slo_fn(b, a) /\ Cpu!rla_fn(b, a) = rla_fn(b, a)
        /\ Cpu!sre_fn(b, a) = sre_fn(b, a) /\ Cpu!rra_fn(b, a) = rra_fn(b, a)
        /\ Cpu!dcp_fn(b, a) = dcp_fn(b, a) /\ Cpu!isb_fn(b, a) = isb_fn(b, a)
  BY <1>1, <1>2, <1>3, <1>4, <1>5, <1>6, <1>7, <1>8, <1>9 DEF Cpu!slo_fn,
         slo_fn, Cpu!rla_fn, rla_fn, Cpu!sre_fn, sre_fn, Cpu!rra_fn, rra_fn,
         Cpu!dcp_fn, dcp_fn, Cpu!isb_fn, isb_fn
<1> QED
  BY <1>1, <1>2, <1>3, <1>4, <1>5, <1>6, <1>7, <1>8, <1>9, <1>10

\* Branches, jumps, and the instructions of the stack.
LEMMA SameJumps ==
  /\ \A b, a : Cpu!branch(b, a) = branch(b, a)
  /\ \A c, b, a : Cpu!BranchIf(c, b, a) = BranchIf(c, b, a)
  /\ \A b, a :
       /\ Cpu!bcc_fn(b, a) = bcc_fn(b, a) /\ Cpu!bcs_fn(b, a) = bcs_fn(b, a)
       /\ Cpu!bne_fn(b, a) = bne_fn(b, a) /\ Cpu!beq_fn(b, a) = beq_fn(b, a)
       /\ Cpu!bpl_fn(b, a) = bpl_fn(b, a) /\ Cpu!bmi_fn(b, a) = bmi_fn(b, a)
       /\ Cpu!bvc_fn(b, a) = bvc_fn(b, a) /\ Cpu!bvs_fn(b, a) = bvs_fn(b, a)
       /\ Cpu!jmp_fn(b, a) = jmp_fn(b, a) /\ Cpu!jsr_fn(b, a) = jsr_fn(b, a)
       /\ Cpu!rts_fn(b, a) = rts_fn(b, a) /\ Cpu!pha_fn(b, a) = pha_fn(b, a)
       /\ Cpu!php_fn(b, a) = php_fn(b, a) /\ Cpu!pla_fn(b, a) = pla_fn(b, a)
       /\ Cpu!plp_fn(b, a) = plp_fn(b, a) /\ Cpu!brk_fn(b, a) = brk_fn(b, a)
       /\ Cpu!rti_fn(b, a) = rti_fn(b, a)
<1> USE SameNumbers, SameBits, SameAccesses, SameFlags, SameHelpers, SameLoadsAndStores
<1>1. \A b, a : Cpu!branch(b, a) = branch(b, a)
  BY DEF Cpu!branch, branch
<1>2. \A c, b, a : Cpu!BranchIf(c, b, a) = BranchIf(c, b, a)
  BY <1>1 DEF Cpu!BranchIf, BranchIf
<1>3. \A b, a :
        /\ Cpu!bcc_fn(b, a) = bcc_fn(b, a) /\ Cpu!bcs_fn(b, a) = bcs_fn(b, a)
        /\ Cpu!bne_fn(b, a) = bne_fn(b, a) /\ Cpu!beq_fn(b, a) = beq_fn(b, a)
        /\ Cpu!bpl_fn(b, a) = bpl_fn(b, a) /\ Cpu!bmi_fn(b, a) = bmi_fn(b, a)
        /\ Cpu!bvc_fn(b, a) = bvc_fn(b, a) /\ Cpu!bvs_fn(b, a) = bvs_fn(b, a)
        /\ Cpu!jmp_fn(b, a) = jmp_fn(b, a) /\ Cpu!jsr_fn(b, a) = jsr_fn(b, a)
        /\ Cpu!rts_fn(b, a) = rts_fn(b, a) /\ Cpu!pha_fn(b, a) = pha_fn(b, a)
        /\ Cpu!php_fn(b, a) = php_fn(b, a) /\ Cpu!pla_fn(b, a) = pla_fn(b, a)
        /\ Cpu!plp_fn(b, a) = plp_fn(b, a) /\ Cpu!brk_fn(b, a) = brk_fn(b, a)
  BY <1>1, <1>2 DEF Cpu!bcc_fn, bcc_fn, Cpu!bcs_fn, bcs_fn, Cpu!bne_fn,
         bne_fn, Cpu!beq_fn, beq_fn, Cpu!bpl_fn, bpl_fn, Cpu!bmi_fn, bmi_fn,
         Cpu!bvc_fn, bvc_fn, Cpu!bvs_fn, bvs_fn, Cpu!jmp_fn, jmp_fn,
         Cpu!jsr_fn, jsr_fn, Cpu!rts_fn, rts_fn, Cpu!pha_fn, pha_fn,
         Cpu!php_fn, php_fn, Cpu!pla_fn, pla_fn, Cpu!plp_fn, plp_fn,
         Cpu!brk_fn, brk_fn
<1>4. \A b, a :
        /\ Cpu!rti_fn(b, a) = rti_fn(b, a)
  BY <1>1, <1>2, <1>3 DEF Cpu!rti_fn, rti_fn
<1> QED
  BY <1>1, <1>2, <1>3, <1>4

\* The flag instructions, and the empty functions.
LEMMA SameFlagFns ==
  /\ \A b, a :
       /\ Cpu!clc_fn(b, a) = clc_fn(b, a) /\ Cpu!cld_fn(b, a) = cld_fn(b, a)
       /\ Cpu!cli_fn(b, a) = cli_fn(b, a) /\ Cpu!clv_fn(b, a) = clv_fn(b, a)
       /\ Cpu!sec_fn(b, a) = sec_fn(b, a) /\ Cpu!sed_fn(b, a) = sed_fn(b, a)
       /\ Cpu!sei_fn(b, a) = sei_fn(b, a) /\ Cpu!nop_fn(b, a) = nop_fn(b, a)
<1> USE SameFlags, SameHelpers
<1>1. \A b, a :
        /\ Cpu!clc_fn(b, a) = clc_fn(b, a) /\ Cpu!cld_fn(b, a) = cld_fn(b, a)
        /\ Cpu!cli_fn(b, a) = cli_fn(b, a) /\ Cpu!clv_fn(b, a) = clv_fn(b, a)
        /\ Cpu!sec_fn(b, a) = sec_fn(b, a) /\ Cpu!sed_fn(b, a) = sed_fn(b, a)
        /\ Cpu!sei_fn(b, a) = sei_fn(b, a) /\ Cpu!nop_fn(b, a) = nop_fn(b, a)
  BY DEF Cpu!clc_fn, clc_fn, Cpu!cld_fn, cld_fn, Cpu!cli_fn, cli_fn,
         Cpu!clv_fn, clv_fn, Cpu!sec_fn, sec_fn, Cpu!sed_fn, sed_fn,
         Cpu!sei_fn, sei_fn, Cpu!nop_fn, nop_fn
<1> QED
  BY <1>1

\* The decoder.
LEMMA SameDecoding ==
  /\ \A fn : Cpu!Instruction(fn) = Instruction(fn)
  /\ \A i : Cpu!instruction_has_additional_cycle_on_page_crossing(i)
             <=> instruction_has_additional_cycle_on_page_crossing(i)
  /\ \A b, pc : Cpu!get_next_opcode(b, pc) = get_next_opcode(b, pc)
  /\ Cpu!EmptyFns = EmptyFns
<1>1. \A fn : Cpu!Instruction(fn) = Instruction(fn)
  BY DEF Cpu!Instruction, Instruction
<1>2. \A i : Cpu!instruction_has_additional_cycle_on_page_crossing(i)
             <=> instruction_has_additional_cycle_on_page_crossing(i)
  BY DEF Cpu!instruction_has_additional_cycle_on_page_crossing,
         instruction_has_additional_cycle_on_page_crossing
<1>3. \A b, pc : Cpu!get_next_opcode(b, pc) = get_next_opcode(b, pc)
  BY SameNumbers, SameAccesses DEF Cpu!get_next_opcode, get_next_opcode
<1>4. Cpu!EmptyFns = EmptyFns
  BY DEF Cpu!EmptyFns, EmptyFns
<1> QED
  BY <1>1, <1>2, <1>3, <1>4

\* The operand address, mode by mode.
LEMMA SameOperands ==
  \A b, o : Cpu!get_operand_address(b, o) = get_operand_address(b, o)
<1> USE SameNumbers, SameBits, SameAccesses
<1>1. \A m : Cpu!OperandBytes(m) = OperandBytes(m)
  BY DEF Cpu!OperandBytes, OperandBytes
<1>2. \A b, p : Cpu!ZeroPageWord(b, p) = ZeroPageWord(b, p)
  BY DEF Cpu!ZeroPageWord, ZeroPageWord
<1>3. \A b, v : Cpu!IndirectTarget(b, v) = IndirectTarget(b, v)
  BY DEF Cpu!IndirectTarget, IndirectTarget
<1>4. \A v : Cpu!SignExtend(v) = SignExtend(v)
  BY DEF Cpu!SignExtend, SignExtend
<1>5. \A b, o : Cpu!BaseAddress(b, o) = BaseAddress(b, o)
  BY <1>2 DEF Cpu!BaseAddress, BaseAddress
<1>6. \A b, o : Cpu!OperandAddress(b, o) = OperandAddress(b, o)
  BY <1>2, <1>3, <1>4, <1>5 DEF Cpu!OperandAddress, OperandAddress
<1>7. \A b, o : Cpu!PageCrossed(b, o) <=> PageCrossed(b, o)
  BY <1>5, <1>6 DEF Cpu!PageCrossed, PageCrossed
<1> QED
  BY <1>1, <1>6, <1>7 DEF Cpu!get_operand_address, get_operand_address

\* While the CPU runs, the refinement mapping is the identity.
SameState == CpuBus = bus /\ CpuPhase = phase

\* What an iteration of run_cpu consists of.
LEMMA SameIteration ==
  ASSUME SameState, SameState'
  PROVE  /\ Cpu!Fetched = Fetched
         /\ \A o : Cpu!OperandOf(o) = OperandOf(o)
         /\ \A fn : Dispatches(fn) => Cpu!Dispatches(fn)
         /\ \A o, p, after : Retires(o, p, after) => Cpu!Retires(o, p, after)
<1>1. Cpu!Fetched = Fetched
  BY SameDecoding DEF Cpu!Fetched, Fetched, SameState
<1>2. \A o : Cpu!OperandOf(o) = OperandOf(o)
  BY SameOperands, SameNumbers DEF Cpu!OperandOf, OperandOf, SameState
<1>3. \A fn : Dispatches(fn) => Cpu!Dispatches(fn)
  BY <1>1 DEF Cpu!Dispatches, Dispatches, SameState
<1>4. \A o, p : Cpu!Cycles(o, p) = Cycles(o, p)
  BY SameDecoding DEF Cpu!Cycles, Cycles
<1>5. \A o, p, after : Retires(o, p, after) => Cpu!Retires(o, p, after)
  BY <1>4, SameDecoding, SameHelpers DEF Cpu!Retires, Retires, SameState
<1> QED
  BY <1>1, <1>2, <1>3, <1>5

\* An instruction of the program is that instruction of the CPU.
LEMMA StepOfCpu ==
  ASSUME SameState, SameState', Step
  PROVE  Cpu!Step
<1> USE SameIteration
<1>1. Load => Cpu!Load
  BY SameLoadsAndStores DEF Load, Cpu!Load, Execute, Cpu!Execute
<1>2. Store => Cpu!Store
  BY SameLoadsAndStores DEF Store, Cpu!Store, Execute, Cpu!Execute
<1>3. Transfer => Cpu!Transfer
  BY SameLoadsAndStores DEF Transfer, Cpu!Transfer, Execute, Cpu!Execute
<1>4. Alu => Cpu!Alu
  BY SameAlu DEF Alu, Cpu!Alu, Execute, Cpu!Execute
<1>5. IncDec => Cpu!IncDec
  BY SameLoadsAndStores DEF IncDec, Cpu!IncDec, Execute, Cpu!Execute
<1>6. Shift => Cpu!Shift
  BY SameShifts DEF Shift, Cpu!Shift, Execute, Cpu!Execute
<1>7. ReadModifyWrite => Cpu!ReadModifyWrite
  BY SameShifts DEF ReadModifyWrite, Cpu!ReadModifyWrite, Execute, Cpu!Execute
<1>8. Branch => Cpu!Branch
  BY SameJumps DEF Branch, Cpu!Branch, Execute, Cpu!Execute
<1>9. Jump => Cpu!Jump
  BY SameJumps DEF Jump, Cpu!Jump, Execute, Cpu!Execute
<1>10. Stack => Cpu!Stack
  BY SameJumps DEF Stack, Cpu!Stack, Execute, Cpu!Execute
<1>11. Flag => Cpu!Flag
  BY SameFlagFns DEF Flag, Cpu!Flag, Execute, Cpu!Execute
<1>12. Empty => Cpu!Empty
  BY SameFlagFns, SameDecoding DEF Empty, Cpu!Empty, Execute, Cpu!Execute
<1> QED
  BY <1>1, <1>2, <1>3, <1>4, <1>5, <1>6, <1>7, <1>8, <1>9, <1>10, <1>11, <1>12
     DEF Step, Cpu!Step

\* The CPU behind the loader depends on the bus, the phase and the file.
LEMMA SameRunPhase == phase \in Phases => SameState
  BY DEF SameState, CpuBus, CpuPhase

LEMMA OutsideRun ==
  ASSUME phase \notin Phases, phase' \notin Phases, file' = file
  PROVE  UNCHANGED Cpu!vars
<1>1. /\ CpuBus = bus_load_cartridge(IF HoldsCartridge(file) THEN WholeRom(file)
                                       ELSE CHOOSE c \in Cartridges : TRUE)
      /\ CpuBus' = bus_load_cartridge(IF HoldsCartridge(file) THEN WholeRom(file)
                                       ELSE CHOOSE c \in Cartridges : TRUE)
  BY DEF CpuBus
<1>2. CpuPhase = "loaded" /\ CpuPhase' = "loaded"
  BY DEF CpuPhase
<1> QED
  BY <1>1, <1>2 DEF Cpu!vars

\* The bus into which the program has put the ROM is the one the CPU has had.
LEMMA EnterRun ==
  ASSUME EmulatorInv, phase \notin Phases, phase' = "loaded", file' = file,
         at = "returned", cartridge.prg_rom # Null, bus' = bus_load_cartridge(LoadedRom)
  PROVE  UNCHANGED Cpu!vars
<1>1. HoldsCartridge(file) /\ LoadedRom = WholeRom(file)
  BY PointerMeansRom DEF EmulatorInv
<1>2. CpuBus = bus_load_cartridge(LoadedRom) /\ CpuPhase = "loaded"
  BY <1>1 DEF CpuBus, CpuPhase
<1>3. CpuBus' = bus' /\ CpuPhase' = "loaded"
  BY DEF CpuBus, CpuPhase, Phases
<1> QED
  BY <1>2, <1>3 DEF Cpu!vars

\* The CPU starts with the ROM that is going to be loaded, or with any.
LEMMA InitOfCpu == ASSUME Cartridges # {}, EmulatorInit PROVE Cpu!Init
<1> DEFINE rom == IF HoldsCartridge(file) THEN WholeRom(file)
                  ELSE CHOOSE c \in Cartridges : TRUE
<1>1. phase \notin Phases
  BY DEF EmulatorInit, Phases
<1>2. rom \in Cartridges
  <2>1. CASE HoldsCartridge(file)
    <3>1. file \in Files
      BY DEF EmulatorInit, LoaderInit
    <3> QED
      BY <2>1, <3>1, RomsAssumption
  <2>2. CASE ~HoldsCartridge(file)
    BY <2>2
  <2> QED
    BY <2>1, <2>2
<1>3. CpuBus = bus_load_cartridge(rom) /\ CpuPhase = "loaded"
  BY <1>1 DEF CpuBus, CpuPhase
<1> QED
  BY <1>2, <1>3, SameAccesses DEF Cpu!Init

\* The reset, the start and every instruction.
LEMMA RunOfCpu == ASSUME EmulatorInv, EmulatorInv', RunCpu PROVE Cpu!Next
<1>1. phase \in {"loaded", "reset", "running"}
  BY DEF RunCpu, BusReset, Start, Step, Load, Store, Transfer, Alu, IncDec, Shift,
         ReadModifyWrite, Branch, Jump, Stack, Flag, Empty, Execute, Dispatches
<1>2. phase \in Phases /\ IInv
  BY <1>1 DEF EmulatorInv, Phases
<1>3. phase' \in Phases
  BY <1>2, NextIInv DEF RunCpu, Next, IInv, TypeOK
<1>4. SameState
  BY <1>2, SameRunPhase
<1>5. SameState'
  BY <1>3 DEF SameState, CpuBus, CpuPhase
<1>6. BusReset => Cpu!BusReset
  BY <1>4, <1>5, SameHelpers DEF SameState, BusReset, Cpu!BusReset
<1>7. Start => Cpu!Start
  BY <1>4, <1>5, SameFlags DEF SameState, Start, Cpu!Start
<1>8. Step => Cpu!Step
  BY <1>4, <1>5, StepOfCpu
<1> QED
  BY <1>6, <1>7, <1>8 DEF RunCpu, Cpu!Next

\* Every step of the two programs is one of the CPU, or leaves it alone.
LEMMA NextOfCpu ==
  ASSUME EmulatorInv, EmulatorInv', [EmulatorNext]_emulatorVars
  PROVE  [Cpu!Next]_(Cpu!vars)
<1>1. CASE load_cartridge
  <2>1. phase = "loading" /\ phase' = phase /\ file' = file
    BY <1>1 DEF load_cartridge, LoadStep, Open, ReadHeader, CheckMagic, Allocate,
                ReadPrgRom, ReadChrRom, Fail
  <2> QED
    BY <2>1, OutsideRun DEF Phases
<1>2. CASE RequireFails
  <2>1. phase = "loading" /\ phase' = "failed" /\ file' = file
    BY <1>2 DEF RequireFails, loaderVars
  <2> QED
    BY <2>1, OutsideRun DEF Phases
<1>3. CASE InsertCartridge
  <2>1. /\ phase = "loading" /\ at = "returned" /\ Checks /\ file' = file
        /\ bus' = bus_load_cartridge(LoadedRom)
        /\ phase' = IF program = "main" THEN "inserted" ELSE "loaded"
    BY <1>3 DEF InsertCartridge, loaderVars
  <2>2. CASE program = "main"
    BY <2>1, <2>2, OutsideRun DEF Phases
  <2>3. CASE program # "main"
    <3>1. cartridge.prg_rom # Null
      BY <2>1, <2>3 DEF EmulatorInv, Checks, Required
    <3> QED
      BY <2>1, <2>3, <3>1, EnterRun DEF Phases
  <2> QED
    BY <2>2, <2>3
<1>4. CASE Disassemble
  <2>1. /\ phase = "inserted" /\ bus' = bus /\ file' = file
        /\ phase' = IF cartridge.prg_rom = Null THEN "crashed" ELSE "loaded"
    BY <1>4 DEF Disassemble, loaderVars
  <2>2. at = "returned" /\ bus = bus_load_cartridge(LoadedRom)
    BY <2>1 DEF EmulatorInv, Inserted
  <2>3. CASE cartridge.prg_rom = Null
    BY <2>1, <2>3, OutsideRun DEF Phases
  <2>4. CASE cartridge.prg_rom # Null
    BY <2>1, <2>2, <2>4, EnterRun DEF Phases
  <2> QED
    BY <2>3, <2>4
<1>5. CASE RunCpu
  BY <1>5, RunOfCpu
<1>6. CASE ReleaseCartridge
  <2>1. bus' = bus /\ phase' = phase /\ file' = file
    BY <1>6 DEF ReleaseCartridge, release_cartridge
  <2>2. CASE phase \in Phases
    BY <2>1, <2>2 DEF CpuBus, CpuPhase, Cpu!vars
  <2>3. CASE phase \notin Phases
    BY <2>1, <2>3, OutsideRun
  <2> QED
    BY <2>2, <2>3
<1>7. CASE Ended \/ UNCHANGED emulatorVars
  <2>1. bus' = bus /\ phase' = phase /\ file' = file
    BY <1>7 DEF Ended, emulatorVars, loaderVars
  <2>2. CASE phase \in Phases
    BY <2>1, <2>2 DEF CpuBus, CpuPhase, Cpu!vars
  <2>3. CASE phase \notin Phases
    BY <2>1, <2>3, OutsideRun
  <2> QED
    BY <2>2, <2>3
<1> QED
  BY <1>1, <1>2, <1>3, <1>4, <1>5, <1>6, <1>7 DEF EmulatorNext

\* Behind load_cartridge, run_cpu sees a CPU with one of the ROMs of the files:
\* every step of main and of the test is a step of CPU or leaves it alone.
THEOREM RunsTheCpu == ASSUME Cartridges # {} PROVE EmulatorSpec => ImplementsCpu
<1>1. EmulatorInit => Cpu!Init
  BY InitOfCpu
<1>2. EmulatorInv /\ EmulatorInv' /\ [EmulatorNext]_emulatorVars => [Cpu!Next]_(Cpu!vars)
  BY NextOfCpu
<1> QED
  BY <1>1, <1>2, InitEmulatorInv, NextEmulatorInv, PTL DEF EmulatorSpec, ImplementsCpu, Cpu!Spec
=============================================================================
