----------------------------- MODULE MemoryPath -----------------------------
(***************************************************************************)
(* The memory system of the core as the block design wires it: a write-    *)
(* back data cache and a read-only instruction cache (cache_16_way.v),     *)
(* each with a line bridge (mem_32_to_128.v), on one bus                   *)
(* (CACHE_AHB_MUX.v) with its slaves.  One step is one clock.  The core is *)
(* its two ports: the load-store unit and the prefetcher keep at most one  *)
(* access under way each, and raise their request for one clock.           *)
(***************************************************************************)
EXTENDS Naturals

CONSTANTS
  DWays, IWays, Sets, Words,
  Accesses,     (* what the program may load and store *)
  Fetches,      (* and fetch, as accesses *)
  Uncached,     (* addresses outside the memory range *)
  Initial, LATENCY_IN_CYCLES, NoTag, NoLine, None

ASSUME SizesAssumption ==
  {DWays, IWays, Words, LATENCY_IN_CYCLES} \subseteq Nat \ {0}

\* The addresses behind the caches, whole lines, and word n of a line.
Memory == DOMAIN Initial \ Uncached
WordOf(line, n) == [tag |-> line.tag, set |-> line.set, word |-> n]

ASSUME MemoryMap ==
  /\ Initial = [a \in DOMAIN Initial |-> Initial[a]]
  /\ \A a \in Memory :
       /\ a.set \in Sets /\ a.word \in 0 .. Words - 1 /\ a = WordOf(a, a.word)
       /\ \A n \in 0 .. Words - 1 : WordOf(a, n) \in Memory

\* An uncached store is one of a whole word, which is how the slaves take it.
ASSUME PortsAssumption ==
  /\ None \notin Accesses \union Fetches
  /\ None \notin [addr : DOMAIN Initial, we : BOOLEAN]
  /\ \A a \in Accesses :
       /\ a.addr \in DOMAIN Initial /\ a.we \in BOOLEAN
       /\ a.we /\ a.addr \in Uncached =>
            /\ a.be = DOMAIN Initial[a.addr]
            /\ a.data = [l \in a.be |-> a.data[l]]
  /\ \A f \in Fetches : f.addr \in Memory /\ f.we = FALSE

\* A program does not write the lines it executes: the caches are not
\* coherent, and fence.i empties neither.
ASSUME CodeIsNotWritten ==
  \A f \in Fetches, a \in Accesses :
    a.we => <<a.addr.tag, a.addr.set>> # <<f.addr.tag, f.addr.set>>

VARIABLES
  d_state, d_request, d_cache_set, d_next_evict_line, d_write_back,
  i_state, i_request, i_cache_set, i_next_evict_line, i_write_back,
  db_state, db_req_counter, db_recv_counter, db_bram_req_o,
  db_bram_address_o, db_we_o, db_wdata_o, db_rdata, db_rvalid_o,
  ib_state, ib_req_counter, ib_recv_counter, ib_bram_req_o,
  ib_bram_address_o, ib_we_o, ib_wdata_o, ib_rdata, ib_rvalid_o,
  state, icache_outstanding, dcache_outstanding,
  mmperiph_req_outstanding, mmperiph, ahb_state, last_was_op, addr_q,
  wdata_q, aphase, APHASE_MUX_SEL, mem, ram, douta, bram,
  lsu, fetch,               (* the access of each port under way, or None *)
  lsu_rdata, instr_rdata    (* what a port was answered in the last clock *)

D == INSTANCE Cache WITH
       Ways <- DWays, state <- d_state, request <- d_request,
       cache_set <- d_cache_set, next_evict_line <- d_next_evict_line,
       write_back <- d_write_back

I == INSTANCE Cache WITH
       Ways <- IWays, state <- i_state, request <- i_request,
       cache_set <- i_cache_set, next_evict_line <- i_next_evict_line,
       write_back <- i_write_back

DB == INSTANCE LineBridge WITH
        state <- db_state, req_counter <- db_req_counter,
        recv_counter <- db_recv_counter, bram_req_o <- db_bram_req_o,
        bram_address_o <- db_bram_address_o, cache_line_we_o <- db_we_o,
        cache_line_wdata_o <- db_wdata_o, cache_line_rdata <- db_rdata,
        cache_line_rvalid_o <- db_rvalid_o

IB == INSTANCE LineBridge WITH
        state <- ib_state, req_counter <- ib_req_counter,
        recv_counter <- ib_recv_counter, bram_req_o <- ib_bram_req_o,
        bram_address_o <- ib_bram_address_o, cache_line_we_o <- ib_we_o,
        cache_line_wdata_o <- ib_wdata_o, cache_line_rdata <- ib_rdata,
        cache_line_rvalid_o <- ib_rvalid_o

Mux == INSTANCE CacheAhbMux

vars == <<D!cacheVars, I!cacheVars, DB!bridgeVars, IB!bridgeVars,
          Mux!muxVars, lsu, fetch, lsu_rdata, instr_rdata>>

Init ==
  /\ D!CacheInit /\ I!CacheInit /\ DB!BridgeInit /\ IB!BridgeInit
  /\ Mux!MuxInit
  /\ lsu = None /\ fetch = None
  /\ lsu_rdata = None /\ instr_rdata = None

-----------------------------------------------------------------------------

lsu_rvalid == Mux!lsu_rvalid_o(D!cache_hit_o)

\* The load-store unit: counts to DEPTH, which is 1.
LsuClock(access) ==
  /\ access \in IF lsu = None THEN Accesses \union {None} ELSE {None}
  /\ lsu' = IF access # None THEN access
            ELSE IF lsu_rvalid THEN None ELSE lsu
  /\ lsu_rdata' =
       IF lsu_rvalid /\ lsu # None /\ ~lsu.we
         THEN IF state = "MMPERIPH_TRANSACTION" THEN Mux!ahb_rdata
              ELSE D!cpu_dout
         ELSE None

\* The prefetcher: counts to MAX_OUTSTANDING, which is 1.
FetchClock(access) ==
  /\ access \in IF fetch = None THEN Fetches \union {None} ELSE {None}
  /\ fetch' = IF access # None THEN access
              ELSE IF I!cache_hit_o THEN None ELSE fetch
  /\ instr_rdata' =
       IF I!cache_hit_o /\ fetch # None THEN I!cpu_dout ELSE None

ToCache(access) ==
  IF access # None /\ access.addr \notin Uncached THEN access ELSE None
ToBus(access) ==
  IF access # None /\ access.addr \in Uncached THEN access ELSE None

\* A clock edge of the whole: every component reads the others' outputs.
Clock(access, instr) ==
  /\ LsuClock(access)
  /\ FetchClock(instr)
  /\ D!CacheClock(ToCache(access), db_rvalid_o, db_rdata)
  /\ I!CacheClock(instr, ib_rvalid_o, ib_rdata)
  /\ DB!BridgeClock(D!mem_req, D!mem_address, D!mem_rw_enable, D!mem_dout,
                    Mux!cache_data_bram_rvalid_o, Mux!ahb_rdata)
  /\ IB!BridgeClock(I!mem_req, I!mem_address, FALSE, I!mem_dout,
                    Mux!cache_instr_bram_rvalid_o, Mux!ahb_rdata)
  /\ Mux!MuxClock([req |-> ib_bram_req_o, addr |-> ib_bram_address_o],
                  [req |-> db_bram_req_o, addr |-> db_bram_address_o,
                   we |-> db_we_o, wdata |-> db_wdata_o],
                  ToBus(access))

Next == \E access \in Accesses \union {None}, instr \in Fetches \union {None} :
          Clock(access, instr)

\* The clock runs.  An access takes several clocks at either port, so that
\* clocks without a new request never cease to come.
Spec == Init /\ [][Next]_vars /\ WF_vars(Clock(None, None))

-----------------------------------------------------------------------------

\* The core is answered only when it waits: its counters of accesses under
\* way would underflow otherwise (protocol_err_mpu of the load-store unit).
\* The bus master also signals an answer in the clock after each transfer.
NoUnexpectedAnswer ==
  /\ lsu_rvalid => lsu # None
  /\ I!cache_hit_o => fetch # None

\* Every access is answered, however the two caches and the uncached
\* accesses compete for the bus: no pulse is lost and nobody starves.
EveryAccessAnswered ==
  /\ []<>(lsu = None)
  /\ []<>(fetch = None)

\* The word at address a: in the data cache if its line is there.
Cached(a) == {w \in D!Line : /\ d_cache_set[a.set][w].valid
                             /\ d_cache_set[a.set][w].tag = a.tag}
Held(a) == IF a \in Uncached \/ Cached(a) = {}
             THEN bram[a]
             ELSE d_cache_set[a.set][CHOOSE w \in Cached(a) : TRUE].data[a.word]

\* A word with the store that is under way.
Merged(word) ==
  [l \in DOMAIN word |-> IF l \in lsu.be THEN lsu.data[l] ELSE word[l]]
Stored(a) == lsu # None /\ lsu.we /\ lsu.addr = a

SeenMemory ==
  [a \in DOMAIN bram |-> IF Stored(a) THEN Merged(Held(a)) ELSE Held(a)]

Linear == INSTANCE LinearMemory WITH memory <- SeenMemory

\* Caches, write-backs, bridges and arbitration are invisible: every load
\* returns the last store to its address, and every fetch what memory holds.
ImplementsMemory == Linear!Spec
=============================================================================
