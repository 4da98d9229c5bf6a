---------------------------- MODULE CacheAhbMux ----------------------------
(***************************************************************************)
(* The way from the two caches and the core to the one bus                 *)
(* (CACHE_AHB_MUX.v), with its bus master (core2ahb3lite_bram.sv), one     *)
(* clock edge at a time, in front of the slaves.                           *)
(*                                                                         *)
(* lsu_rvalid_o_Wrong is not used: it is lsu_rvalid_o with a mistake.      *)
(***************************************************************************)
EXTENDS BusSlaves

VARIABLES
  state,
  icache_outstanding, dcache_outstanding,
  mmperiph_req_outstanding, mmperiph,       (* the captured request *)
  ahb_state, last_was_op, addr_q, wdata_q   (* of the bus master *)

muxVars == <<state, icache_outstanding, dcache_outstanding,
             mmperiph_req_outstanding, mmperiph, ahb_state, last_was_op,
             addr_q, wdata_q, slaveVars>>

MuxInit ==
  /\ state = "IDLE"
  /\ icache_outstanding = FALSE /\ dcache_outstanding = FALSE
  /\ mmperiph_req_outstanding = FALSE /\ mmperiph = None
  /\ ahb_state = "IDLE" /\ last_was_op = FALSE
  /\ addr_q = None /\ wdata_q = None
  /\ SlavesInit

-----------------------------------------------------------------------------
(* The bus master.                                                         *)

ahb_req == state # "IDLE"

ahb_rvalid == (ahb_state # "IDLE" \/ last_was_op) /\ HREADY
ahb_rdata == HRDATA

\* What the mux puts on the bus, given what the caches ask.
Selected(icache, dcache) ==
  CASE state = "ICACHE_TRANSACTION" -> [addr |-> icache.addr, we |-> FALSE,
                                        wdata |-> None]
    [] state = "DCACHE_TRANSACTION" -> [addr |-> dcache.addr, we |-> dcache.we,
                                        wdata |-> dcache.wdata]
    [] state = "MMPERIPH_TRANSACTION" -> [addr |-> mmperiph.addr,
                                          we |-> mmperiph.we,
                                          wdata |-> mmperiph.data]
    [] OTHER -> [addr |-> None, we |-> FALSE, wdata |-> None]

StartOrIdle(we) ==
  IF ~ahb_req THEN "IDLE" ELSE IF we THEN "WRITE_WAIT" ELSE "READ_WAIT"

MasterClock(selected) ==
  /\ ahb_state' =
       CASE ahb_state = "IDLE" -> StartOrIdle(selected.we)
         [] ahb_state = "END" /\ HREADY -> StartOrIdle(selected.we)
         [] ahb_state \in {"READ_WAIT", "WRITE_WAIT"} /\ HREADY ->
              IF ahb_req THEN "END" ELSE "IDLE"
         [] OTHER -> ahb_state
  /\ last_was_op' = (ahb_req /\ ahb_state = "END")
  /\ addr_q' = selected.addr
  /\ wdata_q' = selected.wdata

\* What the master puts on the bus: an address with HTRANS, and in the wait
\* for a write the word.
Bus(selected) ==
  LET start == ahb_req /\ ahb_state \in {"IDLE", "END"}
  IN [start |-> start, we |-> start /\ selected.we,
      addr |-> IF start THEN selected.addr ELSE addr_q,
      wdata |-> IF ahb_state \in {"END", "WRITE_WAIT"} THEN wdata_q ELSE None]

-----------------------------------------------------------------------------
(* The arbiter: the instruction cache first, then the data cache, then an  *)
(* uncached access.  The caches ask with a pulse of one clock.             *)

Arbitrate(ireq, dreq) ==
  /\ icache_outstanding' =
       (state # "ICACHE_TRANSACTION" /\
         (icache_outstanding \/ (ireq /\ state # "IDLE")))
  /\ dcache_outstanding' =
       (state # "DCACHE_TRANSACTION" /\
         (dcache_outstanding \/
           (dreq /\ (state = "ICACHE_TRANSACTION" \/
                     (state = "IDLE" /\ (ireq \/ icache_outstanding))))))
  /\ state' =
       IF state # "IDLE" THEN IF ahb_rvalid THEN "IDLE" ELSE state
       ELSE IF ireq \/ icache_outstanding THEN "ICACHE_TRANSACTION"
       ELSE IF dreq \/ dcache_outstanding THEN "DCACHE_TRANSACTION"
       ELSE IF mmperiph_req_outstanding THEN "MMPERIPH_TRANSACTION"
       ELSE "IDLE"

\* An access outside the memory range is kept until its turn comes; the
\* register is emptied here when it is answered, as nobody reads it again.
Capture(access) ==
  IF access # None
    THEN mmperiph_req_outstanding' = TRUE /\ mmperiph' = access
    ELSE /\ mmperiph_req_outstanding' =
              (mmperiph_req_outstanding /\ state # "MMPERIPH_TRANSACTION")
         /\ mmperiph' = IF state = "MMPERIPH_TRANSACTION" /\ ahb_rvalid
                          THEN None ELSE mmperiph

\* A clock edge: the pulses and addresses of the caches, and an uncached
\* access of the core or None.
MuxClock(icache, dcache, access) ==
  /\ Arbitrate(icache.req, dcache.req)
  /\ Capture(access)
  /\ LET selected == Selected(icache, dcache)
     IN MasterClock(selected) /\ SlavesClock(Bus(selected))

-----------------------------------------------------------------------------
(* What the core and the caches are told.                                  *)

cache_instr_bram_rvalid_o == state = "ICACHE_TRANSACTION" /\ ahb_rvalid
cache_data_bram_rvalid_o == state = "DCACHE_TRANSACTION" /\ ahb_rvalid

lsu_rvalid_o_Wrong(bram_rvalid) ==     \* whoever the bus answers
  bram_rvalid \/ ahb_rvalid

lsu_rvalid_o(bram_rvalid) ==
  IF state = "MMPERIPH_TRANSACTION" THEN ahb_rvalid ELSE bram_rvalid
=============================================================================
