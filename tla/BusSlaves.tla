----------------------------- MODULE BusSlaves -----------------------------
(***************************************************************************)
(* The slaves of the bus, one clock edge at a time: decoder and            *)
(* multiplexer (AHBDCD.v, AHBMUX.v), the memory slave (AHB2MEM.v) with the *)
(* interface (bram_interface.v) to a block RAM, which the block design     *)
(* gives an output register, and peripherals, which answer at once.        *)
(*                                                                         *)
(* A register whose contents nobody may look at any more is None here, so  *)
(* that a look at it would be seen.                                        *)
(***************************************************************************)
EXTENDS Naturals

CONSTANTS
  LATENCY_IN_CYCLES, (* 1 in the block design *)
  Uncached,          (* addresses of peripherals *)
  Initial,           (* contents of memory and peripherals *)
  None

VARIABLES
  aphase,          (* address and direction of a transfer, as sampled *)
  APHASE_MUX_SEL,  (* who answers: "memory" or "peripheral" *)
  mem,             (* registers of AHB2MEM *)
  ram,             (* registers of bram_interface *)
  douta,           (* what the block RAM has read, and what it shows *)
  bram             (* contents of memory and peripherals *)

slaveVars == <<aphase, APHASE_MUX_SEL, mem, ram, douta, bram>>

NoAccess == [state |-> "IDLE", counter |-> 0, valid |-> FALSE,
             enable |-> FALSE, we |-> FALSE, addr |-> None, wdata |-> None]

SlavesInit ==
  /\ aphase = None /\ APHASE_MUX_SEL = "memory"
  /\ mem = [HREADYOUT |-> TRUE, cache_req |-> FALSE, DataPhase |-> FALSE]
  /\ ram = NoAccess
  /\ douta = [latch |-> None, register |-> None]
  /\ bram = Initial

-----------------------------------------------------------------------------
HREADY == APHASE_MUX_SEL = "memory" => mem.HREADYOUT

HRDATA == IF APHASE_MUX_SEL = "memory" THEN douta.register
          ELSE IF aphase = None THEN None ELSE bram[aphase.addr]

MUX_SEL(addr) == IF addr \in Uncached THEN "peripheral" ELSE "memory"

\* The master drives bus: whether a transfer starts (HTRANS), its address and
\* direction, and the word of the transfer before (HWDATA).
AddressPhase(bus) ==
  IF HREADY
  THEN /\ aphase' = IF bus.start THEN [addr |-> bus.addr, we |-> bus.we] ELSE None
       /\ APHASE_MUX_SEL' = MUX_SEL(bus.addr)
  ELSE UNCHANGED <<aphase, APHASE_MUX_SEL>>

\* HREADYOUT falls with the address phase and rises a clock after the answer.
AHB2MEM(bus) ==
  LET selected == bus.start /\ MUX_SEL(bus.addr) = "memory"
  IN mem' = [HREADYOUT |-> ram.valid \/ (mem.HREADYOUT /\ ~selected),
             cache_req |-> selected /\ ~ram.valid,
             DataPhase |-> selected]

\* The word comes in the data phase.  The register for one that comes later
\* is not modelled: a request is always made in the data phase.
cache_din(bus) == IF mem.DataPhase THEN bus.wdata ELSE None

bram_interface(bus) ==
  ram' = CASE ram.state = "IDLE" ->
                IF ~mem.cache_req THEN ram
                ELSE [state |-> "ACTIVE", counter |-> ram.counter + 1,
                      valid |-> FALSE, enable |-> TRUE, we |-> aphase.we,
                      addr |-> aphase.addr, wdata |-> cache_din(bus)]
           [] ram.state = "ACTIVE" ->
                IF ram.counter >= LATENCY_IN_CYCLES - 1
                THEN [ram EXCEPT !.state = "DONE", !.counter = @ + 1, !.valid = TRUE]
                ELSE [ram EXCEPT !.counter = @ + 1]
           [] OTHER -> NoAccess

\* A word read is in the latch after one clock with enable, and in the output
\* register after two.
BlockRam ==
  douta' = IF ram.enable
           THEN [latch |-> IF ram.we THEN None ELSE bram[ram.addr],
                 register |-> douta.latch]
           ELSE [douta EXCEPT !.latch = None,
                              !.register = IF HREADY THEN None ELSE @]

\* The block RAM is written while it is enabled, a peripheral in its data phase.
Contents(bus) ==
  bram' = IF ram.enable /\ ram.we THEN [bram EXCEPT ![ram.addr] = ram.wdata]
          ELSE IF APHASE_MUX_SEL = "peripheral" /\ aphase # None /\ aphase.we
          THEN [bram EXCEPT ![aphase.addr] = bus.wdata]
          ELSE bram

SlavesClock(bus) ==
  /\ AddressPhase(bus) /\ AHB2MEM(bus) /\ bram_interface(bus)
  /\ BlockRam /\ Contents(bus)
=============================================================================
