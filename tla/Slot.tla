-------------------------------- MODULE Slot --------------------------------
(***************************************************************************)
(* What load_cartridge and release_cartridge promise their callers: a load *)
(* is one step, which yields the whole cartridge of the file or nothing,   *)
(* and what has been released holds nothing any more.                      *)
(***************************************************************************)
CONSTANTS
  Files,           \* the files that can be loaded
  Loadable(_),     \* the ones that hold a cartridge
  Whole(_),        \* the cartridge such a file holds
  Nothing,         \* what a failing load yields
  ReadsCanFail     \* whether reading a file may fail although it is fine

VARIABLES
  file,            \* the file to load
  slot             \* what the caller has got

slotVars == <<file, slot>>

SlotInit == file \in Files /\ slot = [state |-> "pending"]

LoadWhole ==
  /\ slot.state = "pending"
  /\ Loadable(file)
  /\ slot' = [state |-> "loaded", cartridge |-> Whole(file)]
  /\ UNCHANGED file

LoadNothing ==
  /\ slot.state = "pending"
  /\ Loadable(file) => ReadsCanFail
  /\ slot' = [state |-> "loaded", cartridge |-> Nothing]
  /\ UNCHANGED file

ReleaseSlot ==
  /\ slot.state = "loaded"
  /\ slot' = [state |-> "released"]
  /\ UNCHANGED file

SlotNext == LoadWhole \/ LoadNothing \/ ReleaseSlot

SlotSpec == SlotInit /\ [][SlotNext]_slotVars
=============================================================================
