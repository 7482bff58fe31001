------------------------------- MODULE MCBus -------------------------------
(***************************************************************************)
(* A client of the bus that uses the first and last addresses of RAM, of   *)
(* its mirrors and of the regions above, with a 16 KiB cartridge and a     *)
(* 32 KiB one whose bytes of interest all differ.                          *)
(***************************************************************************)
EXTENDS BusClient, TLC

Carts ==
  { [prg_rom_size |-> \h4000,
     prg_rom |-> \h0000 :> 16 @@ \h0001 :> 17 @@ \h3FFE :> 18 @@ \h3FFF :> 19],
    [prg_rom_size |-> \h8000,
     prg_rom |-> \h0000 :> 16 @@ \h0001 :> 17 @@ \h3FFF :> 18 @@ \h4000 :> 19
                   @@ \h4001 :> 20 @@ \h7FFE :> 21 @@ \h7FFF :> 22] }

\* The borders inside RAM, the PPU registers, the gap and the ROM.
Borders ==
  { \h0000, \h03FF, \h07FF, \h0800, \h0FFF, \h1000, \h1800, \h1FFF, \h2001, \h3FFF,
    \h4000, \h7FFF, \h8001, \hBFFE, \hBFFF, \hC000, \hC001, \hFFFE }

\* With the three addresses where the code and its comments differ.
AllBorders == Borders \cup { \h2000, \h8000, \hFFFF }
=============================================================================
