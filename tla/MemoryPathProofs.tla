------------------------- MODULE MemoryPathProofs -------------------------
(***************************************************************************)
(* The memory path, for caches of any size, any latency of the memory, any *)
(* program and any contents: the core is answered only when it waits, and  *)
(* what it is answered is what LinearMemory would answer.                  *)
(***************************************************************************)
EXTENDS MemoryPath, TLAPS

(***************************************************************************)
(* The inductive invariant.  Each cache holds the request its port waits   *)
(* for, and works only while it holds one; the arbiter keeps, or serves,   *)
(* an uncached access only while the load-store unit waits for it.  So the *)
(* two sources of an answer never have one for the same access.            *)
(***************************************************************************)
UncachedPending == mmperiph_req_outstanding \/ state = "MMPERIPH_TRANSACTION"

PortsInv ==
  /\ d_request = ToCache(lsu)
  /\ d_state # "IDLE" => d_request # None
  /\ UncachedPending => lsu # None /\ lsu.addr \in Uncached
  /\ i_request = fetch
  /\ i_state # "IDLE" => i_request # None

(***************************************************************************)
(* The bus.  A transfer is what its master asks for: Txn is the request of *)
(* whoever has been chosen, which stays the same until it is answered.     *)
(***************************************************************************)
Txn == Mux!Selected([req |-> ib_bram_req_o, addr |-> ib_bram_address_o],
                    [req |-> db_bram_req_o, addr |-> db_bram_address_o,
                     we |-> db_we_o, wdata |-> db_wdata_o])

Quiet == /\ mem = [HREADYOUT |-> TRUE, cache_req |-> FALSE, DataPhase |-> FALSE]
         /\ ram = Mux!NoAccess

Waiting == mem = [HREADYOUT |-> FALSE, cache_req |-> FALSE, DataPhase |-> FALSE]

Requested ==
  /\ mem = [HREADYOUT |-> FALSE, cache_req |-> TRUE, DataPhase |-> TRUE]
  /\ ram = Mux!NoAccess

\* The block RAM works on the transfer.
Enabled(ramState) ==
  /\ DOMAIN ram = {"state", "counter", "valid", "enable", "we", "addr", "wdata"}
  /\ ram.state = ramState /\ ram.enable = TRUE
  /\ ram.we = Txn.we /\ ram.addr = Txn.addr /\ (Txn.we => ram.wdata = Txn.wdata)
  /\ ram.counter \in Nat \ {0}

\* It has been enabled for a clock.
Reached == IF Txn.we THEN bram[Txn.addr] = Txn.wdata
                     ELSE douta.latch = bram[Txn.addr]

Phase ==
  \/ APHASE_MUX_SEL = "peripheral" /\ Quiet
  \/ /\ APHASE_MUX_SEL = "memory"
     /\ \/ Requested
        \/ /\ Waiting /\ Enabled("ACTIVE") /\ ram.valid = FALSE
           /\ ram.counter > 1 => Reached
        \/ Waiting /\ Enabled("DONE") /\ ram.valid = TRUE /\ Reached
        \/ /\ Quiet
           /\ IF Txn.we THEN bram[Txn.addr] = Txn.wdata
                        ELSE douta.register = bram[Txn.addr]

BusStates == {"IDLE", "ICACHE_TRANSACTION", "DCACHE_TRANSACTION",
              "MMPERIPH_TRANSACTION"}

BusInv ==
  /\ state \in BusStates /\ last_was_op = FALSE
  /\ state = "IDLE" => ahb_state \in {"IDLE", "END"}
  /\ state # "IDLE" =>
       ahb_state \in {"IDLE", IF Txn.we THEN "WRITE_WAIT" ELSE "READ_WAIT"}
  /\ ahb_state \in {"IDLE", "END"} => Quiet /\ aphase = None
  /\ ahb_state \in {"READ_WAIT", "WRITE_WAIT"} =>
       /\ aphase = [addr |-> Txn.addr, we |-> Txn.we]
       /\ APHASE_MUX_SEL = Mux!MUX_SEL(Txn.addr)
       /\ wdata_q = Txn.wdata
       /\ Phase

(***************************************************************************)
(* The uncached access the arbiter keeps is that of the load-store unit.   *)
(***************************************************************************)
LsuInv ==
  /\ lsu # None => lsu \in Accesses
  /\ fetch # None => fetch \in Fetches
  /\ UncachedPending => mmperiph = lsu

(***************************************************************************)
(* The line bridges.  A bridge moves word number k of the line the cache   *)
(* is asking for, and the words before it are moved.                       *)
(***************************************************************************)
Offsets == 0 .. Words - 1

DMoved(k) ==
  \A n \in 0 .. k - 1 :
    LET a == WordOf(D!mem_address, n)
    IN bram[a] = IF db_we_o THEN D!mem_dout[n] ELSE db_rdata[n]

DBridgeInv ==
  /\ db_state \in {"IDLE", "READ_WAIT", "WRITE_WAIT", "READ_RESPONSE",
                   "WRITE_RESPONSE", "DONE"}
  /\ db_rvalid_o = (db_state = "DONE")
  /\ db_we_o \in BOOLEAN
  /\ DOMAIN db_rdata = Offsets
  /\ db_bram_req_o \/ dcache_outstanding \/ state = "DCACHE_TRANSACTION" =>
       db_state \in {"READ_WAIT", "WRITE_WAIT"}
  /\ db_state = "IDLE" => db_req_counter = 0 /\ db_recv_counter = 0
  /\ db_state # "IDLE" => d_state = IF db_we_o THEN "WBACK" ELSE "MISS"
  /\ db_state \in {"READ_WAIT", "READ_RESPONSE"} => ~db_we_o
  /\ db_state \in {"WRITE_WAIT", "WRITE_RESPONSE"} => db_we_o
  /\ db_state \in {"READ_WAIT", "WRITE_WAIT"} =>
       LET k == db_bram_address_o.word
       IN /\ k \in Offsets
          /\ db_bram_address_o = WordOf(D!mem_address, k)
          /\ db_req_counter = (k + 1) % Words
          /\ IF db_we_o THEN db_wdata_o = D!mem_dout[k] ELSE db_recv_counter = k
          /\ db_recv_counter \in Offsets
          /\ DMoved(k)
  /\ db_state \in {"READ_RESPONSE", "WRITE_RESPONSE", "DONE"} => DMoved(Words)

IMoved(k) ==
  \A n \in 0 .. k - 1 : ib_rdata[n] = bram[WordOf(i_request.addr, n)]

IBridgeInv ==
  /\ ib_state \in {"IDLE", "READ_WAIT", "READ_RESPONSE", "DONE"}
  /\ ib_rvalid_o = (ib_state = "DONE")
  /\ DOMAIN ib_rdata = Offsets
  /\ ib_bram_req_o \/ icache_outstanding \/ state = "ICACHE_TRANSACTION" =>
       ib_state = "READ_WAIT"
  /\ ib_state = "IDLE" => ib_req_counter = 0 /\ ib_recv_counter = 0
  /\ ib_state # "IDLE" => i_state = "MISS"
  /\ ib_state = "READ_WAIT" =>
       LET k == ib_recv_counter
       IN /\ k \in Offsets
          /\ ib_bram_address_o = WordOf(i_request.addr, k)
          /\ ib_req_counter = (k + 1) % Words
          /\ IMoved(k)
  /\ ib_state \in {"READ_RESPONSE", "DONE"} => IMoved(Words)

(***************************************************************************)
(* The caches.  A line is in one way at most, and memory has what a clean  *)
(* line has.                                                               *)
(***************************************************************************)
Cell(t, s, n) == [tag |-> t, set |-> s, word |-> n]
Backed(c, s) == \A n \in Offsets : c.data[n] = bram[Cell(c.tag, s, n)]

CacheStates == {"IDLE", "WBACK", "MISS", "HIT"}

DLineInv(c, s) ==
  /\ c.valid \in BOOLEAN /\ c.dirty \in BOOLEAN
  /\ c.dirty => c.valid
  /\ c.valid =>
       /\ DOMAIN c.data = Offsets
       /\ \A n \in Offsets : Cell(c.tag, s, n) \in Memory
       /\ ~c.dirty => Backed(c, s)
  /\ c.dirty => \E a \in Accesses : a.we /\ a.addr.tag = c.tag /\ a.addr.set = s

OneWay(ways) == \A v, w \in DOMAIN ways :
  ways[v].valid /\ ways[w].valid /\ ways[v].tag = ways[w].tag => v = w

DLinesInv ==
  /\ DOMAIN d_cache_set = Sets /\ DOMAIN d_next_evict_line = Sets
  /\ \A s \in Sets :
       /\ DOMAIN d_cache_set[s] = D!Line
       /\ d_next_evict_line[s] \in D!Line
       /\ OneWay(d_cache_set[s])
       /\ \A w \in D!Line : DLineInv(d_cache_set[s][w], s)

DWorkInv ==
  /\ d_state \in CacheStates
  /\ d_state \in {"WBACK", "MISS"} => D!hits = {}
  /\ d_state = "HIT" => D!hits # {}
  /\ d_state = "WBACK" =>
       LET s == d_request.addr.set
       IN /\ D!set[D!victim].dirty
          /\ d_write_back[s].tag = D!set[D!victim].tag
          /\ d_write_back[s].data = D!set[D!victim].data
  /\ d_state = "MISS" /\ D!set[D!victim].valid =>
       Backed(D!set[D!victim], d_request.addr.set)

ILineInv(c, s) ==
  /\ c.valid \in BOOLEAN /\ c.dirty = FALSE
  /\ c.valid =>
       /\ DOMAIN c.data = Offsets
       /\ \A n \in Offsets : c.data[n] = Initial[Cell(c.tag, s, n)]

ILinesInv ==
  /\ DOMAIN i_cache_set = Sets /\ DOMAIN i_next_evict_line = Sets
  /\ \A s \in Sets :
       /\ DOMAIN i_cache_set[s] = I!Line
       /\ i_next_evict_line[s] \in I!Line
       /\ OneWay(i_cache_set[s])
       /\ \A w \in I!Line : ILineInv(i_cache_set[s][w], s)

IWorkInv ==
  /\ i_state \in CacheStates \ {"WBACK"}
  /\ i_state = "MISS" => I!hits = {}
  /\ i_state = "HIT" => I!hits # {}

(***************************************************************************)
(* What memory keeps: its addresses, and the code.                         *)
(***************************************************************************)
MemoryInv ==
  /\ bram = [a \in DOMAIN Initial |-> bram[a]]
  /\ \A f \in Fetches, n \in Offsets :
       bram[WordOf(f.addr, n)] = Initial[WordOf(f.addr, n)]
  /\ \A a \in Accesses : a.addr \in Uncached => DOMAIN bram[a.addr] = DOMAIN Initial[a.addr]

PathInv ==
  /\ PortsInv /\ LsuInv /\ BusInv /\ MemoryInv
  /\ DBridgeInv /\ DLinesInv /\ DWorkInv
  /\ IBridgeInv /\ ILinesInv /\ IWorkInv

-----------------------------------------------------------------------------
(* The ports.                                                              *)

LEMMA PortsInit == Init => PortsInv
BY DEF Init, D!CacheInit, I!CacheInit, Mux!MuxInit, PortsInv, ToCache,
       UncachedPending

LEMMA AnswerIsAwaited == PortsInv => NoUnexpectedAnswer
BY DEF PortsInv, NoUnexpectedAnswer, lsu_rvalid, Mux!lsu_rvalid_o,
       D!cache_hit_o, I!cache_hit_o, ToCache, UncachedPending

LEMMA PortsStep ==
  ASSUME PortsInv, NEW access \in Accesses \cup {None},
         NEW instr \in Fetches \cup {None}, Clock(access, instr)
  PROVE  PortsInv'
<1>1. /\ access # None => lsu = None
      /\ lsu' = IF access # None THEN access ELSE IF lsu_rvalid THEN None ELSE lsu
      /\ fetch' = IF instr # None THEN instr
                  ELSE IF i_state = "HIT" THEN None ELSE fetch
  BY DEF Clock, LsuClock, FetchClock, I!cache_hit_o
<1>2. /\ d_request' = IF ToCache(access) # None THEN ToCache(access)
                      ELSE IF d_state = "HIT" THEN None ELSE d_request
      /\ i_request' = IF instr # None THEN instr
                      ELSE IF i_state = "HIT" THEN None ELSE i_request
  BY DEF Clock, D!CacheClock, I!CacheClock, D!Hold, I!Hold, D!cache_hit_o,
         I!cache_hit_o
<1>3. /\ d_state = "IDLE" /\ d_state' # "IDLE" => d_request # None
      /\ d_state = "HIT" => d_state' = "IDLE"
      /\ i_state = "IDLE" /\ i_state' # "IDLE" => i_request # None
      /\ i_state = "HIT" => i_state' = "IDLE"
  BY DEF Clock, D!CacheClock, I!CacheClock, D!Transition, I!Transition,
         D!hit, D!miss, D!req, I!hit, I!miss, I!req
<1>4. lsu_rvalid <=> IF state = "MMPERIPH_TRANSACTION" THEN Mux!ahb_rvalid
                     ELSE d_state = "HIT"
  BY DEF lsu_rvalid, Mux!lsu_rvalid_o, D!cache_hit_o
<1>5. /\ mmperiph_req_outstanding' =>
           \/ ToBus(access) # None
           \/ mmperiph_req_outstanding /\ state # "MMPERIPH_TRANSACTION"
      /\ state' = "MMPERIPH_TRANSACTION" =>
           \/ mmperiph_req_outstanding /\ state = "IDLE"
           \/ state = "MMPERIPH_TRANSACTION" /\ ~Mux!ahb_rvalid
  BY DEF Clock, Mux!MuxClock, Mux!Arbitrate, Mux!Capture
<1>6. i_request' = fetch' /\ (i_state' # "IDLE" => i_request' # None)
  BY <1>1, <1>2, <1>3 DEF PortsInv
<1>7. CASE access # None
  <2>1. lsu = None /\ lsu' = access /\ d_request = None /\ d_state = "IDLE"
        /\ ~UncachedPending
    BY <1>1, <1>7 DEF PortsInv, ToCache
  <2>2. d_request' = ToCache(lsu')
    BY <1>2, <2>1
  <2>3. d_state' = "IDLE"
    BY <1>3, <2>1
  <2>4. UncachedPending' => lsu' # None /\ lsu'.addr \in Uncached
    BY <1>5, <1>7, <2>1 DEF UncachedPending, ToBus
  <2> QED
    BY <1>6, <2>2, <2>3, <2>4 DEF PortsInv
<1>8. CASE access = None
  <2>1. ToCache(access) = None /\ ToBus(access) = None
    BY <1>8 DEF ToCache, ToBus
  <2>2. UncachedPending' => UncachedPending /\ lsu' = lsu
    BY <1>1, <1>4, <1>5, <1>8, <2>1 DEF UncachedPending, PortsInv, ToCache
  <2>3. d_request' = ToCache(lsu')
    BY <1>1, <1>2, <1>4, <1>8, <2>1 DEF UncachedPending, PortsInv, ToCache
  <2>4. d_state' # "IDLE" => d_request' # None
    BY <1>2, <1>3, <2>1 DEF PortsInv
  <2> QED
    BY <1>6, <2>2, <2>3, <2>4 DEF PortsInv, UncachedPending
<1> QED
  BY <1>7, <1>8

LEMMA PortsStutter == PortsInv /\ UNCHANGED vars => PortsInv'
BY DEF vars, D!cacheVars, I!cacheVars, Mux!muxVars, PortsInv, UncachedPending,
       ToCache

THEOREM PortsInvHolds == Spec => []PortsInv
<1>1. PortsInv /\ [Next]_vars => PortsInv'
  BY PortsStep, PortsStutter DEF Next
<1> QED
  BY <1>1, PortsInit, PTL DEF Spec

(***************************************************************************)
(* The counters of accesses under way never underflow.                     *)
(***************************************************************************)
THEOREM AnswersAreAwaited == Spec => []NoUnexpectedAnswer
BY PortsInvHolds, AnswerIsAwaited, PTL

-----------------------------------------------------------------------------
(* What is asked of the bus.                                               *)

LEMMA BusClocks ==
  ASSUME NEW access, NEW instr, Clock(access, instr)
  PROVE  /\ Mux!Arbitrate(ib_bram_req_o, db_bram_req_o)
         /\ Mux!Capture(ToBus(access))
         /\ Mux!MasterClock(Txn) /\ Mux!SlavesClock(Mux!Bus(Txn))
BY DEF Clock, Mux!MuxClock, Txn

LEMMA Lines ==
  ASSUME NEW a \in Memory
  PROVE  /\ a.set \in Sets /\ a.word \in Offsets /\ a = WordOf(a, a.word)
         /\ a \in DOMAIN Initial /\ a \notin Uncached
         /\ \A n \in Offsets : WordOf(a, n) \in Memory
BY MemoryMap DEF Memory, Offsets

\* The access a cache works on is one to memory.
LEMMA CachedAccess ==
  ASSUME PortsInv, LsuInv
  PROVE  /\ d_request # None => /\ d_request = lsu /\ lsu \in Accesses
                                /\ lsu.we \in BOOLEAN /\ lsu.addr \in Memory
                                /\ ~UncachedPending
         /\ i_request # None => /\ i_request = fetch /\ fetch \in Fetches
                                /\ fetch.we = FALSE /\ fetch.addr \in Memory
BY PortsAssumption DEF PortsInv, LsuInv, ToCache, Memory

LEMMA DLineInMemory ==
  ASSUME PortsInv, LsuInv, DLinesInv, DWorkInv, d_state \in {"MISS", "WBACK"}
  PROVE  \A n \in Offsets : WordOf(D!mem_address, n) \in Memory
<1>1. /\ d_request = lsu /\ lsu.addr \in Memory
      /\ lsu.addr.set \in Sets
  BY CachedAccess, Lines DEF PortsInv
<1>2. CASE d_state = "MISS"
  BY <1>1, <1>2, Lines DEF D!mem_address, WordOf
<1>3. CASE d_state = "WBACK"
  <2> DEFINE s == d_request.addr.set
             c == d_cache_set[s][d_next_evict_line[s]]
  <2>1. /\ d_next_evict_line[s] \in D!Line
        /\ DLineInv(c, s)
    BY <1>1 DEF DLinesInv
  <2>2. c.dirty /\ d_write_back[s].tag = c.tag
    BY <1>3 DEF DWorkInv, D!set, D!victim
  <2>3. \A n \in Offsets : Cell(c.tag, s, n) \in Memory
    BY <2>1, <2>2 DEF DLineInv
  <2> QED
    BY <1>3, <2>2, <2>3 DEF D!mem_address, WordOf, Cell
<1> QED
  BY <1>2, <1>3

LEMMA TxnIs ==
  /\ state = "ICACHE_TRANSACTION" =>
       Txn.addr = ib_bram_address_o /\ Txn.we = FALSE
  /\ state = "DCACHE_TRANSACTION" =>
       /\ Txn.addr = db_bram_address_o /\ Txn.we = db_we_o
       /\ Txn.wdata = db_wdata_o
  /\ state = "MMPERIPH_TRANSACTION" =>
       /\ Txn.addr = mmperiph.addr /\ Txn.we = mmperiph.we
       /\ Txn.wdata = mmperiph.data
  /\ state = "IDLE" => Txn.we = FALSE
BY DEF Txn, Mux!Selected

LEMMA TxnFields ==
  ASSUME PathInv
  PROVE  /\ Txn.we \in BOOLEAN
         /\ state # "IDLE" => Txn.addr \in DOMAIN Initial
         /\ state \in {"ICACHE_TRANSACTION", "DCACHE_TRANSACTION"} => Txn.addr \in Memory
<1>1. CASE state = "ICACHE_TRANSACTION"
  <2>1. ib_state = "READ_WAIT"
    BY <1>1 DEF PathInv, IBridgeInv
  <2>2. i_state = "MISS" /\ \E k \in Offsets : ib_bram_address_o = WordOf(i_request.addr, k)
    BY <2>1 DEF PathInv, IBridgeInv
  <2>3. i_request.addr \in Memory
    BY <2>2, CachedAccess DEF PathInv, PortsInv
  <2>4. ib_bram_address_o \in Memory /\ ib_bram_address_o \in DOMAIN Initial
    BY <2>2, <2>3, Lines
  <2> QED
    BY <1>1, <2>4, TxnIs
<1>2. CASE state = "DCACHE_TRANSACTION"
  <2>1. db_state \in {"READ_WAIT", "WRITE_WAIT"} /\ db_we_o \in BOOLEAN
    BY <1>2 DEF PathInv, DBridgeInv
  <2>2. /\ d_state \in {"MISS", "WBACK"}
        /\ \E k \in Offsets : db_bram_address_o = WordOf(D!mem_address, k)
    BY <2>1 DEF PathInv, DBridgeInv
  <2>3. db_bram_address_o \in Memory /\ db_bram_address_o \in DOMAIN Initial
    BY <2>2, DLineInMemory, Lines DEF PathInv
  <2> QED
    BY <1>2, <2>1, <2>3, TxnIs
<1>3. CASE state = "MMPERIPH_TRANSACTION"
  <2>1. mmperiph = lsu /\ lsu \in Accesses
    BY <1>3 DEF PathInv, LsuInv, PortsInv, UncachedPending
  <2> QED
    BY <1>3, <2>1, TxnIs, PortsAssumption
<1>4. CASE state = "IDLE"
  BY <1>4, TxnIs
<1> QED
  BY <1>1, <1>2, <1>3, <1>4 DEF PathInv, BusInv, BusStates

\* A transfer is answered in the last clock of its data phase.
LEMMA AnswerIs ==
  ASSUME BusInv, state # "IDLE"
  PROVE  Mux!ahb_rvalid <=> ahb_state \in {"READ_WAIT", "WRITE_WAIT"} /\ Mux!HREADY
<1>1. ahb_state = "IDLE" \/ ahb_state \in {"READ_WAIT", "WRITE_WAIT"}
  BY DEF BusInv
<1> QED
  BY <1>1 DEF BusInv, Mux!ahb_rvalid

\* Until then, what is asked stays the same.
LEMMA TxnKept ==
  ASSUME PathInv, NEW access, NEW instr, Clock(access, instr),
         state # "IDLE", ~Mux!ahb_rvalid
  PROVE  state' = state /\ Txn' = Txn
<1>1. state' = state
  BY BusClocks DEF Mux!Arbitrate
<1>2. CASE state = "ICACHE_TRANSACTION"
  <2>1. ib_state = "READ_WAIT" /\ ~Mux!cache_instr_bram_rvalid_o
    BY <1>2 DEF PathInv, IBridgeInv, Mux!cache_instr_bram_rvalid_o
  <2>2. ib_bram_address_o' = ib_bram_address_o
    BY <2>1 DEF Clock, IB!BridgeClock, IB!AwaitWord
  <2> QED
    BY <1>1, <1>2, <2>2 DEF Txn, Mux!Selected
<1>3. CASE state = "DCACHE_TRANSACTION"
  <2>1. db_state \in {"READ_WAIT", "WRITE_WAIT"} /\ ~Mux!cache_data_bram_rvalid_o
    BY <1>3 DEF PathInv, DBridgeInv, Mux!cache_data_bram_rvalid_o
  <2>2. db_bram_address_o' = db_bram_address_o /\ db_we_o' = db_we_o
        /\ db_wdata_o' = db_wdata_o
    BY <2>1 DEF Clock, DB!BridgeClock, DB!AwaitWord
  <2> QED
    BY <1>1, <1>3, <2>2 DEF Txn, Mux!Selected
<1>4. CASE state = "MMPERIPH_TRANSACTION"
  <2>1. lsu # None
    BY <1>4 DEF PathInv, PortsInv, UncachedPending
  <2>2. ToBus(access) = None
    BY <2>1 DEF Clock, LsuClock, ToBus
  <2>3. mmperiph' = mmperiph
    BY <2>2, BusClocks DEF Mux!Capture
  <2> QED
    BY <1>1, <1>4, <2>3 DEF Txn, Mux!Selected
<1> QED
  BY <1>2, <1>3, <1>4 DEF PathInv, BusInv, BusStates

\* Between transfers nothing happens on the bus.
LEMMA BusIdle ==
  ASSUME PathInv, NEW access, NEW instr, Clock(access, instr), state = "IDLE"
  PROVE  BusInv' /\ bram' = bram
<1> DEFINE bus == Mux!Bus(Txn)
<1>1. /\ ahb_state \in {"IDLE", "END"} /\ Quiet /\ aphase = None /\ Mux!HREADY
  BY DEF PathInv, BusInv, Quiet, Mux!HREADY
<1>2. bus.start = FALSE /\ ahb_state' = "IDLE" /\ last_was_op' = FALSE
  BY <1>1, BusClocks DEF Mux!Bus, Mux!ahb_req, Mux!MasterClock, Mux!StartOrIdle
<1> HIDE DEF bus
<1>3. Mux!SlavesClock(bus)
  BY BusClocks DEF bus
<1>4. aphase' = None /\ bram' = bram /\ ram' = ram
  BY <1>1, <1>2, <1>3 DEF Mux!SlavesClock, Mux!AddressPhase, Mux!Contents,
       Mux!bram_interface, Quiet, Mux!NoAccess
<1>5. mem' = [HREADYOUT |-> TRUE, cache_req |-> FALSE, DataPhase |-> FALSE]
  BY <1>1, <1>2, <1>3 DEF Mux!SlavesClock, Mux!AHB2MEM, Quiet, Mux!NoAccess
<1>6. state' \in BusStates
  BY BusClocks DEF Mux!Arbitrate, BusStates
<1> QED
  BY <1>1, <1>2, <1>4, <1>5, <1>6 DEF BusInv, Quiet, Mux!NoAccess

\* The address phase lasts a clock.
LEMMA BusAddress ==
  ASSUME PathInv, NEW access, NEW instr, Clock(access, instr),
         state # "IDLE", ahb_state = "IDLE"
  PROVE  BusInv' /\ bram' = bram
<1> DEFINE bus == Mux!Bus(Txn)
<1>1. /\ Quiet /\ aphase = None /\ Mux!HREADY /\ ~Mux!ahb_rvalid
      /\ last_was_op = FALSE /\ state \in BusStates
  <2>1. Quiet /\ aphase = None /\ last_was_op = FALSE /\ state \in BusStates
    BY DEF PathInv, BusInv
  <2>2. ~Mux!ahb_rvalid
    BY AnswerIs DEF PathInv
  <2> QED
    BY <2>1, <2>2 DEF Quiet, Mux!HREADY
<1>2. state' = state /\ Txn' = Txn /\ Txn.we \in BOOLEAN
  BY <1>1, TxnKept, TxnFields
<1>3. /\ bus.start = TRUE /\ bus.addr = Txn.addr /\ bus.we = Txn.we
      /\ ahb_state' = IF Txn.we THEN "WRITE_WAIT" ELSE "READ_WAIT"
      /\ last_was_op' = FALSE /\ wdata_q' = Txn.wdata
  BY <1>1, <1>2, BusClocks DEF Mux!Bus, Mux!ahb_req, Mux!MasterClock, Mux!StartOrIdle
<1> HIDE DEF bus
<1>4. Mux!SlavesClock(bus)
  BY BusClocks DEF bus
<1>5. /\ aphase' = [addr |-> Txn.addr, we |-> Txn.we] /\ bram' = bram /\ ram' = ram
      /\ APHASE_MUX_SEL' = Mux!MUX_SEL(Txn.addr)
  BY <1>1, <1>3, <1>4 DEF Mux!SlavesClock, Mux!AddressPhase, Mux!Contents,
       Mux!bram_interface, Quiet, Mux!NoAccess
<1>6. mem' = IF Mux!MUX_SEL(Txn.addr) = "memory"
             THEN [HREADYOUT |-> FALSE, cache_req |-> TRUE, DataPhase |-> TRUE]
             ELSE [HREADYOUT |-> TRUE, cache_req |-> FALSE, DataPhase |-> FALSE]
  BY <1>1, <1>3, <1>4 DEF Mux!SlavesClock, Mux!AHB2MEM, Quiet, Mux!NoAccess
<1>7. APHASE_MUX_SEL' \in {"memory", "peripheral"}
  BY <1>5 DEF Mux!MUX_SEL
<1>8. Phase'
  BY <1>1, <1>5, <1>6, <1>7 DEF Phase, Quiet, Requested, Mux!NoAccess
<1> QED
  BY <1>1, <1>2, <1>3, <1>5, <1>8 DEF BusInv, Mux!MUX_SEL

\* The data phase: for a peripheral, and for the block RAM clock by clock.
LEMMA BusData ==
  ASSUME PathInv, NEW access, NEW instr, Clock(access, instr),
         state # "IDLE", ahb_state # "IDLE"
  PROVE  /\ BusInv'
         /\ bram' = bram \/ (Txn.we /\ bram' = [bram EXCEPT ![Txn.addr] = Txn.wdata])
         /\ Mux!ahb_rvalid =>
              IF Txn.we THEN bram'[Txn.addr] = Txn.wdata
                        ELSE Mux!ahb_rdata = bram[Txn.addr]
<1> DEFINE bus == Mux!Bus(Txn)
<1>1. /\ ahb_state = IF Txn.we THEN "WRITE_WAIT" ELSE "READ_WAIT"
      /\ aphase = [addr |-> Txn.addr, we |-> Txn.we]
      /\ APHASE_MUX_SEL = Mux!MUX_SEL(Txn.addr)
      /\ wdata_q = Txn.wdata /\ Phase
      /\ last_was_op = FALSE /\ state \in BusStates
      /\ Txn.we \in BOOLEAN
      /\ Mux!ahb_rvalid <=> Mux!HREADY
  BY AnswerIs, TxnFields DEF PathInv, BusInv
<1>2. ~Mux!HREADY => state' = state /\ Txn' = Txn
  BY <1>1, TxnKept
<1>3. /\ bus.start = FALSE
      /\ Txn.we => bus.wdata = Txn.wdata
      /\ ahb_state' = IF Mux!HREADY THEN "END" ELSE ahb_state
      /\ last_was_op' = FALSE /\ wdata_q' = Txn.wdata
  BY <1>1, BusClocks DEF Mux!Bus, Mux!ahb_req, Mux!MasterClock, Mux!StartOrIdle
<1> HIDE DEF bus
<1>4. Mux!SlavesClock(bus)
  BY BusClocks DEF bus
<1>5. Mux!HREADY => state' = "IDLE" /\ aphase' = None
  <2>1. Mux!HREADY => state' = "IDLE"
    BY <1>1, BusClocks DEF Mux!Arbitrate
  <2> QED
    BY <1>3, <1>4, <2>1 DEF Mux!SlavesClock, Mux!AddressPhase
<1>6. ~Mux!HREADY => aphase' = aphase /\ APHASE_MUX_SEL' = APHASE_MUX_SEL
  BY <1>4 DEF Mux!SlavesClock, Mux!AddressPhase
<1>7. mem' = [HREADYOUT |-> ram.valid \/ mem.HREADYOUT, cache_req |-> FALSE,
              DataPhase |-> FALSE]
  BY <1>3, <1>4 DEF Mux!SlavesClock, Mux!AHB2MEM
<1>8. state' \in BusStates
  BY <1>1, <1>2, <1>5 DEF BusStates

<1>9. ~Mux!HREADY /\ Phase' => BusInv'
  BY <1>1, <1>2, <1>3, <1>6, <1>8 DEF BusInv, Mux!MUX_SEL
<1>10. Mux!HREADY /\ Quiet' => BusInv'
  BY <1>3, <1>5, <1>8 DEF BusInv
<1>11. Txn.addr \in DOMAIN bram
  BY TxnFields DEF PathInv, MemoryInv
<1>18. aphase.we = Txn.we /\ aphase.addr = Txn.addr /\ aphase # None
  BY <1>1, TxnFields, PortsAssumption
<1>12. CASE APHASE_MUX_SEL = "peripheral"
  <2>1. Quiet /\ Mux!HREADY
    BY <1>1, <1>12 DEF Phase, Mux!HREADY
  <2>2. ram' = ram /\ bram' = IF Txn.we THEN [bram EXCEPT ![Txn.addr] = Txn.wdata]
                                       ELSE bram
    <3>1. ram.enable = FALSE /\ ram' = ram
      BY <1>4, <2>1 DEF Mux!SlavesClock, Mux!bram_interface, Quiet, Mux!NoAccess
    <3> QED
      BY <1>1, <1>3, <1>4, <1>12, <1>18, <3>1 DEF Mux!SlavesClock, Mux!Contents
  <2>3. Quiet'
    BY <1>7, <2>1, <2>2 DEF Quiet, Mux!NoAccess
  <2>4. Mux!ahb_rdata = bram[Txn.addr]
    BY <1>12, <1>18 DEF Mux!ahb_rdata, Mux!HRDATA
  <2> QED
    BY <1>1, <1>10, <1>11, <2>1, <2>2, <2>3, <2>4
<1>13. CASE APHASE_MUX_SEL = "memory" /\ Requested
  <2>1. ~Mux!HREADY
    BY <1>13 DEF Requested, Mux!HREADY
  <2>2. /\ ram' = [state |-> "ACTIVE", counter |-> 1, valid |-> FALSE,
                   enable |-> TRUE, we |-> aphase.we, addr |-> aphase.addr,
                   wdata |-> bus.wdata]
        /\ bram' = bram
    BY <1>4, <1>13 DEF Mux!SlavesClock, Mux!bram_interface, Mux!Contents,
         Mux!cache_din, Requested, Mux!NoAccess
  <2>3. Waiting'
    BY <1>7, <1>13 DEF Waiting, Requested, Mux!NoAccess
  <2>4. Enabled("ACTIVE")' /\ ram'.valid = FALSE /\ ram'.counter = 1
    <3>1. /\ ram'.enable = TRUE /\ ram'.valid = FALSE /\ ram'.we = Txn.we
          /\ ram'.wdata = bus.wdata /\ ram'.counter = 1
          /\ ram'.state = "ACTIVE" /\ ram'.addr = Txn.addr
      BY <1>18, <2>2
    <3>2. DOMAIN ram' = {"state", "counter", "valid", "enable", "we", "addr", "wdata"}
      BY <2>2
    <3> QED
      BY <1>2, <1>3, <2>1, <3>1, <3>2 DEF Enabled
  <2>5. Phase'
    BY <1>6, <1>13, <2>1, <2>3, <2>4 DEF Phase
  <2> QED
    BY <1>1, <1>9, <2>1, <2>2, <2>5
<1>14. ASSUME APHASE_MUX_SEL = "memory", Waiting, NEW st, Enabled(st)
       PROVE  /\ ~Mux!HREADY /\ Reached'
              /\ bram' = bram \/ (Txn.we /\ bram' = [bram EXCEPT ![Txn.addr] = Txn.wdata])
  <2>1. ~Mux!HREADY
    BY <1>14 DEF Waiting, Mux!HREADY
  <2>2. bram' = IF Txn.we THEN [bram EXCEPT ![Txn.addr] = Txn.wdata] ELSE bram
    <3>1. ram.enable = TRUE /\ ram.we = Txn.we /\ ram.addr = Txn.addr
          /\ (Txn.we => ram.wdata = Txn.wdata) /\ APHASE_MUX_SEL # "peripheral"
      BY <1>14 DEF Enabled
    <3> QED
      BY <1>4, <3>1 DEF Mux!SlavesClock, Mux!Contents
  <2>3. ~Txn.we => douta'.latch = bram[Txn.addr]
    BY <1>4, <1>14 DEF Mux!SlavesClock, Mux!BlockRam, Enabled
  <2> QED
    BY <1>1, <1>2, <1>11, <2>1, <2>2, <2>3 DEF Reached
<1>15. CASE /\ APHASE_MUX_SEL = "memory" /\ Waiting /\ Enabled("ACTIVE")
            /\ ram.valid = FALSE
  <2>1. ~Mux!HREADY /\ Reached'
        /\ (bram' = bram \/ (Txn.we /\ bram' = [bram EXCEPT ![Txn.addr] = Txn.wdata]))
    BY <1>14, <1>15
  <2>2. Waiting'
    BY <1>7, <1>15 DEF Waiting, Enabled
  <2>3. \/ ram' = [ram EXCEPT !.state = "DONE", !.counter = @ + 1, !.valid = TRUE]
        \/ ram' = [ram EXCEPT !.counter = @ + 1]
    BY <1>4, <1>15 DEF Mux!SlavesClock, Mux!bram_interface, Enabled
  <2>4. \/ Enabled("DONE")' /\ ram'.valid = TRUE
        \/ Enabled("ACTIVE")' /\ ram'.valid = FALSE
    <3>1. Enabled("ACTIVE") /\ ram.valid = FALSE
      BY <1>15
    <3>2. CASE ram' = [ram EXCEPT !.state = "DONE", !.counter = @ + 1, !.valid = TRUE]
      BY <1>2, <2>1, <3>1, <3>2 DEF Enabled
    <3>3. CASE ram' = [ram EXCEPT !.counter = @ + 1]
      BY <1>2, <2>1, <3>1, <3>3 DEF Enabled
    <3> QED
      BY <2>3, <3>2, <3>3
  <2>5. Phase'
    BY <1>6, <1>15, <2>1, <2>2, <2>4 DEF Phase
  <2> QED
    BY <1>1, <1>9, <2>1, <2>5
<1>16. CASE /\ APHASE_MUX_SEL = "memory" /\ Waiting /\ Enabled("DONE")
            /\ ram.valid = TRUE /\ Reached
  <2>1. ~Mux!HREADY /\ Reached'
        /\ (bram' = bram \/ (Txn.we /\ bram' = [bram EXCEPT ![Txn.addr] = Txn.wdata]))
    BY <1>14, <1>16
  <2>2. Quiet'
    <3>1. ram.state = "DONE" /\ ram.valid = TRUE
      BY <1>16 DEF Enabled
    <3>2. ram' = Mux!NoAccess
      BY <1>4, <3>1 DEF Mux!SlavesClock, Mux!bram_interface
    <3> QED
      BY <1>7, <3>1, <3>2 DEF Quiet
  <2>3. ~Txn.we => douta'.register = bram[Txn.addr] /\ bram' = bram
    BY <1>4, <1>16, <2>1 DEF Mux!SlavesClock, Mux!BlockRam, Enabled, Reached
  <2>4. Phase'
    BY <1>2, <1>6, <1>16, <2>1, <2>2, <2>3 DEF Phase, Reached
  <2> QED
    BY <1>1, <1>9, <2>1, <2>4
<1>17. CASE /\ APHASE_MUX_SEL = "memory" /\ Quiet
            /\ IF Txn.we THEN bram[Txn.addr] = Txn.wdata
                         ELSE douta.register = bram[Txn.addr]
  <2>1. Mux!HREADY
    BY <1>17 DEF Quiet, Mux!HREADY
  <2>2. ram' = ram /\ bram' = bram
    BY <1>4, <1>17 DEF Mux!SlavesClock, Mux!bram_interface, Mux!Contents, Quiet,
         Mux!NoAccess
  <2>3. Quiet'
    BY <1>7, <1>17, <2>2 DEF Quiet, Mux!NoAccess
  <2> QED
    BY <1>10, <1>17, <2>1, <2>2, <2>3 DEF Mux!ahb_rdata, Mux!HRDATA
<1> QED
  BY <1>1, <1>12, <1>13, <1>15, <1>16, <1>17 DEF Phase

LEMMA BusStep ==
  ASSUME PathInv, NEW access, NEW instr, Clock(access, instr)
  PROVE  /\ BusInv'
         /\ \/ bram' = bram
            \/ /\ state # "IDLE" /\ Txn.we
               /\ bram' = [bram EXCEPT ![Txn.addr] = Txn.wdata]
         /\ state # "IDLE" /\ Mux!ahb_rvalid =>
              IF Txn.we THEN bram'[Txn.addr] = Txn.wdata
                        ELSE Mux!ahb_rdata = bram[Txn.addr]
<1>1. CASE state = "IDLE"
  BY <1>1, BusIdle
<1>2. CASE state # "IDLE" /\ ahb_state = "IDLE"
  BY <1>2, BusAddress, AnswerIs DEF PathInv
<1>3. CASE state # "IDLE" /\ ahb_state # "IDLE"
  BY <1>3, BusData
<1> QED
  BY <1>1, <1>2, <1>3

-----------------------------------------------------------------------------
(* Who writes to memory.                                                   *)

\* The data cache writes a word of its dirty victim, the load-store unit to
\* a peripheral.
LEMMA Writers ==
  ASSUME PathInv, NEW access, NEW instr, Clock(access, instr)
  PROVE  \/ bram' = bram
         \/ /\ state = "DCACHE_TRANSACTION" /\ d_state = "WBACK"
            /\ db_state = "WRITE_WAIT"
            /\ \E k \in Offsets :
                 bram' = [bram EXCEPT ![WordOf(D!mem_address, k)] = D!mem_dout[k]]
         \/ /\ state = "MMPERIPH_TRANSACTION" /\ lsu \in Accesses /\ lsu.we
            /\ lsu.addr \in Uncached
            /\ bram' = [bram EXCEPT ![lsu.addr] = lsu.data]
<1> SUFFICES ASSUME state # "IDLE", Txn.we,
                    bram' = [bram EXCEPT ![Txn.addr] = Txn.wdata]
             PROVE  \/ /\ state = "DCACHE_TRANSACTION" /\ d_state = "WBACK"
                       /\ db_state = "WRITE_WAIT"
                       /\ \E k \in Offsets :
                            bram' = [bram EXCEPT ![WordOf(D!mem_address, k)] =
                                       D!mem_dout[k]]
                    \/ /\ state = "MMPERIPH_TRANSACTION" /\ lsu \in Accesses /\ lsu.we
                       /\ lsu.addr \in Uncached
                       /\ bram' = [bram EXCEPT ![lsu.addr] = lsu.data]
  BY BusStep
<1>1. state # "ICACHE_TRANSACTION"
  BY TxnIs
<1>2. CASE state = "DCACHE_TRANSACTION"
  <2>1. db_state \in {"READ_WAIT", "WRITE_WAIT"} /\ db_we_o
    BY <1>2, TxnIs DEF PathInv, DBridgeInv
  <2>2. /\ db_state = "WRITE_WAIT" /\ d_state = "WBACK"
        /\ \E k \in Offsets : /\ db_bram_address_o = WordOf(D!mem_address, k)
                              /\ db_wdata_o = D!mem_dout[k]
    BY <2>1 DEF PathInv, DBridgeInv
  <2> QED
    BY <1>2, <2>2, TxnIs
<1>3. CASE state = "MMPERIPH_TRANSACTION"
  <2>1. mmperiph = lsu /\ lsu \in Accesses /\ lsu.addr \in Uncached
    BY <1>3 DEF PathInv, LsuInv, PortsInv, UncachedPending
  <2> QED
    BY <1>3, <2>1, TxnIs
<1> QED
  BY <1>1, <1>2, <1>3 DEF PathInv, BusInv, BusStates

\* The line the data cache writes back.
LEMMA VictimLine ==
  ASSUME PathInv, d_state = "WBACK"
  PROVE  LET s == d_request.addr.set
             v == d_next_evict_line[s]
             c == d_cache_set[s][v]
         IN /\ s \in Sets /\ v \in D!Line /\ c.valid /\ c.dirty
            /\ DLineInv(c, s)
            /\ \A n : WordOf(D!mem_address, n) = Cell(c.tag, s, n)
            /\ D!mem_dout = c.data
<1>1. d_request = lsu /\ lsu.addr \in Memory /\ lsu.addr.set \in Sets
  BY CachedAccess, Lines DEF PathInv, PortsInv
<1> QED
  BY <1>1 DEF PathInv, DLinesInv, DLineInv, DWorkInv, D!set, D!victim,
       D!mem_address, D!mem_dout, WordOf, Cell

\* A clean line is not written in memory, and neither is code.
LEMMA CleanKept ==
  ASSUME PathInv, NEW access, NEW instr, Clock(access, instr),
         NEW s \in Sets, NEW w \in D!Line,
         d_cache_set[s][w].valid, ~d_cache_set[s][w].dirty, NEW n \in Offsets
  PROVE  bram'[Cell(d_cache_set[s][w].tag, s, n)] = bram[Cell(d_cache_set[s][w].tag, s, n)]
<1> DEFINE x == Cell(d_cache_set[s][w].tag, s, n)
<1>1. x \in Memory /\ x \in DOMAIN bram /\ x \notin Uncached
  BY DEF PathInv, DLinesInv, DLineInv, MemoryInv, Memory
<1>2. ASSUME d_state = "WBACK", NEW k \in Offsets
      PROVE  x # WordOf(D!mem_address, k)
  <2> DEFINE s1 == d_request.addr.set
             v == d_next_evict_line[s1]
  <2>1. /\ s1 \in Sets /\ v \in D!Line /\ d_cache_set[s1][v].valid
        /\ d_cache_set[s1][v].dirty
        /\ WordOf(D!mem_address, k) = Cell(d_cache_set[s1][v].tag, s1, k)
    BY <1>2, VictimLine
  <2>2. s = s1 /\ d_cache_set[s][w].tag = d_cache_set[s1][v].tag => w = v
    BY <2>1 DEF PathInv, DLinesInv, OneWay
  <2> QED
    BY <2>1, <2>2 DEF Cell
<1> QED
  BY <1>1, <1>2, Writers

LEMMA CodeKept ==
  ASSUME PathInv, NEW access, NEW instr, Clock(access, instr),
         NEW f \in Fetches, NEW n \in Offsets
  PROVE  bram'[WordOf(f.addr, n)] = bram[WordOf(f.addr, n)]
<1> DEFINE x == WordOf(f.addr, n)
<1>1. x \in Memory /\ x \in DOMAIN bram /\ x \notin Uncached
  BY PortsAssumption, Lines DEF PathInv, MemoryInv, Memory
<1>2. ASSUME d_state = "WBACK", NEW k \in Offsets
      PROVE  x # WordOf(D!mem_address, k)
  <2> DEFINE s1 == d_request.addr.set
             v == d_next_evict_line[s1]
  <2>1. /\ DLineInv(d_cache_set[s1][v], s1) /\ d_cache_set[s1][v].dirty
        /\ WordOf(D!mem_address, k) = Cell(d_cache_set[s1][v].tag, s1, k)
    BY <1>2, VictimLine
  <2>2. \E a \in Accesses : a.we /\ a.addr.tag = d_cache_set[s1][v].tag /\ a.addr.set = s1
    BY <2>1 DEF DLineInv
  <2> QED
    BY <2>1, <2>2, CodeIsNotWritten DEF Cell, WordOf
<1> QED
  BY <1>1, <1>2, Writers

LEMMA MemoryStep ==
  ASSUME PathInv, NEW access, NEW instr, Clock(access, instr)
  PROVE  MemoryInv'
<1>1. bram' = [a \in DOMAIN Initial |-> bram'[a]]
  BY Writers DEF PathInv, MemoryInv
<1>2. ASSUME NEW f \in Fetches, NEW n \in Offsets
      PROVE  bram'[WordOf(f.addr, n)] = Initial[WordOf(f.addr, n)]
  BY CodeKept, <1>2 DEF PathInv, MemoryInv
<1>3. ASSUME NEW a \in Accesses, a.addr \in Uncached
      PROVE  DOMAIN bram'[a.addr] = DOMAIN Initial[a.addr]
  <2>1. a.addr \in DOMAIN Initial /\ a.addr \notin Memory
        /\ DOMAIN bram[a.addr] = DOMAIN Initial[a.addr]
    BY <1>3, PortsAssumption DEF PathInv, MemoryInv, Memory
  <2>2. CASE bram' = bram
    BY <2>1, <2>2
  <2>3. ASSUME d_state = "WBACK", NEW k \in Offsets,
               bram' = [bram EXCEPT ![WordOf(D!mem_address, k)] = D!mem_dout[k]]
        PROVE  bram'[a.addr] = bram[a.addr]
    <3>1. WordOf(D!mem_address, k) \in Memory
      BY <2>3, DLineInMemory DEF PathInv
    <3> QED
      BY <2>1, <2>3, <3>1 DEF PathInv, MemoryInv
  <2>4. CASE /\ lsu \in Accesses /\ lsu.we /\ lsu.addr \in Uncached
             /\ bram' = [bram EXCEPT ![lsu.addr] = lsu.data]
    <3>1. lsu.be = DOMAIN Initial[lsu.addr] /\ lsu.data = [l \in lsu.be |-> lsu.data[l]]
      BY <2>4, PortsAssumption
    <3> QED
      BY <2>1, <2>4, <3>1 DEF PathInv, MemoryInv
  <2> QED
    BY <2>1, <2>2, <2>3, <2>4, Writers
<1> QED
  BY <1>1, <1>2, <1>3 DEF MemoryInv

-----------------------------------------------------------------------------
(* The data cache.                                                         *)

LEMMA DCurrent ==
  ASSUME PathInv, d_request # None
  PROVE  LET s == d_request.addr.set
         IN /\ s \in Sets
            /\ D!hits = {w \in D!Line : /\ d_cache_set[s][w].valid
                                        /\ d_cache_set[s][w].tag = d_request.addr.tag}
            /\ D!hit <=> D!hits # {}
            /\ D!miss <=> D!hits = {}
            /\ \A w \in D!hits : D!current_line = w
<1> DEFINE s == d_request.addr.set
<1>1. s \in Sets
  BY CachedAccess, Lines DEF PathInv
<1>2. D!hits = {w \in D!Line : /\ d_cache_set[s][w].valid
                               /\ d_cache_set[s][w].tag = d_request.addr.tag}
  BY DEF D!hits, D!set
<1>3. \A v, w \in D!hits : v = w
  BY <1>1, <1>2 DEF PathInv, DLinesInv, OneWay
<1>4. /\ D!hits = {} => D!current_line \notin D!hits
      /\ \A w \in D!hits : D!current_line = w
  BY <1>3 DEF D!current_line
<1> QED
  BY <1>1, <1>2, <1>4 DEF D!hit, D!miss, D!req

\* No new request while there is one.
LEMMA DHold ==
  ASSUME PathInv, NEW access, NEW instr, Clock(access, instr), d_request # None
  PROVE  /\ access = None
         /\ d_request' = IF d_state = "HIT" THEN None ELSE d_request
         /\ lsu' = IF d_state = "HIT" THEN None ELSE lsu
<1>1. lsu # None /\ access = None /\ d_request = lsu /\ ~UncachedPending
  BY CachedAccess DEF PathInv, PortsInv, ToCache, Clock, LsuClock
<1>2. ToCache(access) = None
  BY <1>1 DEF ToCache
<1>3. d_request' = IF d_state = "HIT" THEN None ELSE d_request
  BY <1>2 DEF Clock, D!CacheClock, D!Hold, D!cache_hit_o
<1>4. lsu_rvalid <=> d_state = "HIT"
  BY <1>1 DEF lsu_rvalid, Mux!lsu_rvalid_o, D!cache_hit_o, UncachedPending
<1> QED
  BY <1>1, <1>3, <1>4 DEF Clock, LsuClock

\* A cached access is served without a write to memory but for the victim.
LEMMA NoWrite ==
  ASSUME PathInv, NEW access, NEW instr, Clock(access, instr),
         d_request # None, d_state # "WBACK" \/ db_state # "WRITE_WAIT"
  PROVE  bram' = bram
BY Writers, CachedAccess DEF PathInv, UncachedPending

LEMMA DIdleClock ==
  ASSUME PathInv, NEW access, NEW instr, Clock(access, instr), d_request = None
  PROVE  /\ d_state = "IDLE" /\ d_state' = "IDLE"
         /\ d_cache_set' = d_cache_set /\ d_next_evict_line' = d_next_evict_line
BY DEF PathInv, PortsInv, Clock, D!CacheClock, D!Transition, D!Store, D!Turn,
       D!hit, D!miss, D!req

LEMMA DHitClock ==
  ASSUME PathInv, NEW access, NEW instr, Clock(access, instr),
         d_request # None, NEW w \in D!hits
  PROVE  LET s == d_request.addr.set
         IN /\ d_state \in {"IDLE", "HIT"}
            /\ d_state' = IF d_state = "IDLE" THEN "HIT" ELSE "IDLE"
            /\ d_next_evict_line' = d_next_evict_line
            /\ d_cache_set' =
                 IF d_request.we
                 THEN [d_cache_set EXCEPT ![s][w] =
                        [tag |-> d_request.addr.tag, valid |-> TRUE, dirty |-> TRUE,
                         data |-> [d_cache_set[s][w].data EXCEPT
                                     ![d_request.addr.word] = D!Written(@)]]]
                 ELSE d_cache_set
            /\ bram' = bram
<1> DEFINE s == d_request.addr.set
<1>1. D!hit /\ ~D!miss /\ D!current_line = w /\ D!req
  BY DCurrent DEF D!req
<1>2. d_state \in {"IDLE", "HIT"}
  BY DEF PathInv, DWorkInv, CacheStates
<1>3. D!Transition(db_rvalid_o) /\ D!Store(db_rvalid_o, db_rdata) /\ D!Turn(db_rvalid_o)
  BY DEF Clock, D!CacheClock
<1>4. d_state' = IF d_state = "IDLE" THEN "HIT" ELSE "IDLE"
  BY <1>1, <1>2, <1>3 DEF D!Transition
<1>5. d_next_evict_line' = d_next_evict_line
  BY <1>1, <1>3 DEF D!Turn
<1>6. d_cache_set' =
        IF d_request.we
        THEN [d_cache_set EXCEPT ![s][w] =
               [tag |-> d_request.addr.tag, valid |-> TRUE, dirty |-> TRUE,
                data |-> [d_cache_set[s][w].data EXCEPT
                            ![d_request.addr.word] = D!Written(@)]]]
        ELSE d_cache_set
  BY <1>1, <1>3 DEF D!Store, D!WriteLine, D!set
<1>7. bram' = bram
  BY <1>2, NoWrite
<1> QED
  BY <1>2, <1>4, <1>5, <1>6, <1>7

LEMMA DMissClock ==
  ASSUME PathInv, NEW access, NEW instr, Clock(access, instr),
         d_request # None, D!hits = {}
  PROVE  LET s == d_request.addr.set
             v == d_next_evict_line[s]
         IN /\ d_state \in {"IDLE", "WBACK", "MISS"}
            /\ d_state # "MISS" \/ ~db_rvalid_o =>
                 /\ d_cache_set' = d_cache_set
                 /\ d_next_evict_line' = d_next_evict_line
            /\ d_state = "IDLE" =>
                 d_state' = IF d_cache_set[s][v].dirty THEN "WBACK" ELSE "MISS"
            /\ d_state = "WBACK" =>
                 d_state' = IF db_rvalid_o THEN "MISS" ELSE "WBACK"
            /\ d_state = "MISS" => d_state' = IF db_rvalid_o THEN "HIT" ELSE "MISS"
            /\ d_state = "MISS" /\ db_rvalid_o =>
                 /\ d_cache_set' = [d_cache_set EXCEPT ![s][v] =
                      [tag |-> d_request.addr.tag, valid |-> TRUE, dirty |-> FALSE,
                       data |-> db_rdata]]
                 /\ d_next_evict_line' = d_next_evict_line
                    \/ d_next_evict_line' =
                         [d_next_evict_line EXCEPT ![s] = (@ + 1) % DWays]
            /\ d_write_back'[s].tag = d_cache_set[s][v].tag
            /\ d_write_back'[s].data = d_cache_set[s][v].data
<1> DEFINE s == d_request.addr.set
           v == d_next_evict_line[s]
<1>1. ~D!hit /\ D!miss /\ D!req /\ s \in Sets
  BY DCurrent DEF D!req
<1>2. d_state \in {"IDLE", "WBACK", "MISS"}
  BY DEF PathInv, DWorkInv, CacheStates
<1>3. d_state = "IDLE" => ~db_rvalid_o
  BY DEF PathInv, DBridgeInv
<1>4. d_state = "WBACK" => D!dirty
  BY <1>1 DEF PathInv, DWorkInv, D!dirty
<1>5. /\ D!Transition(db_rvalid_o) /\ D!Store(db_rvalid_o, db_rdata)
      /\ D!Turn(db_rvalid_o) /\ D!Buffer
  BY DEF Clock, D!CacheClock
<1>6. D!dirty = d_cache_set[s][v].dirty
  <2>1. D!dirty <=> d_cache_set[s][v].dirty
    BY <1>1 DEF D!dirty, D!set, D!victim
  <2>2. v \in D!Line /\ DLineInv(d_cache_set[s][v], s)
    BY <1>1 DEF PathInv, DLinesInv
  <2>3. d_cache_set[s][v].dirty \in BOOLEAN
    BY <2>2 DEF DLineInv
  <2>4. D!dirty \in BOOLEAN
    BY DEF D!dirty
  <2> QED
    BY <2>1, <2>3, <2>4
<1>7. /\ d_state = "IDLE" =>
           d_state' = IF d_cache_set[s][v].dirty THEN "WBACK" ELSE "MISS"
      /\ d_state = "WBACK" => d_state' = IF db_rvalid_o THEN "MISS" ELSE "WBACK"
      /\ d_state = "MISS" => d_state' = IF db_rvalid_o THEN "HIT" ELSE "MISS"
  BY <1>1, <1>2, <1>5, <1>6 DEF D!Transition
<1>8. d_state # "MISS" \/ ~db_rvalid_o =>
        d_cache_set' = d_cache_set /\ d_next_evict_line' = d_next_evict_line
  BY <1>1, <1>2, <1>3, <1>4, <1>5 DEF D!Store, D!Turn
<1>9. d_state = "MISS" /\ db_rvalid_o =>
        /\ d_cache_set' = [d_cache_set EXCEPT ![s][v] =
             [tag |-> d_request.addr.tag, valid |-> TRUE, dirty |-> FALSE,
              data |-> db_rdata]]
        /\ d_next_evict_line' = d_next_evict_line
           \/ d_next_evict_line' = [d_next_evict_line EXCEPT ![s] = (@ + 1) % DWays]
  BY <1>1, <1>5 DEF D!Store, D!Turn, D!WriteLine, D!victim
<1>10. /\ d_write_back'[s].tag = d_cache_set[s][v].tag
       /\ d_write_back'[s].data = d_cache_set[s][v].data
  BY <1>1, <1>5 DEF D!Buffer
<1> QED
  BY <1>2, <1>7, <1>8, <1>9, <1>10

-----------------------------------------------------------------------------
(* The bridge of the data cache.                                           *)

LEMMA NextWord ==
  ASSUME NEW k \in Offsets
  PROVE  /\ k \in Nat /\ k + 1 \in Nat /\ Words \in Nat /\ 0 \in Offsets
         /\ (k + 1) % Words = IF k = Words - 1 THEN 0 ELSE k + 1
         /\ k # Words - 1 => k + 1 \in Offsets
         /\ 0 .. (k + 1) - 1 = (0 .. k - 1) \union {k}
         /\ k = Words - 1 => 0 .. Words - 1 = (0 .. k - 1) \union {k}
<1>1. Words \in Nat \ {0} /\ k \in 0 .. Words - 1
  BY SizesAssumption DEF Offsets
<1>2. k < Words - 1 => (k + 1) % Words = k + 1
  BY <1>1
<1>3. Words % Words = 0
  BY <1>1
<1> QED
  BY <1>1, <1>2, <1>3 DEF Offsets

LEMMA DLineKept ==
  ASSUME PathInv, NEW access, NEW instr, Clock(access, instr),
         d_state \in {"WBACK", "MISS"}, d_state' = d_state
  PROVE  /\ D!mem_address' = D!mem_address
         /\ d_state = "WBACK" => D!mem_dout' = D!mem_dout
<1>1. d_request # None /\ D!hits = {}
  BY DEF PathInv, PortsInv, DWorkInv
<1>2. d_request' = d_request
  BY <1>1, DHold
<1>3. CASE d_state = "MISS"
  BY <1>2, <1>3 DEF D!mem_address
<1>4. CASE d_state = "WBACK"
  <2> DEFINE s == d_request.addr.set
  <2>1. d_write_back'[s].tag = d_write_back[s].tag
        /\ d_write_back'[s].data = d_write_back[s].data
    BY <1>1, <1>4, DMissClock DEF PathInv, DWorkInv, D!set, D!victim
  <2> QED
    BY <1>2, <1>4, <2>1 DEF D!mem_address, D!mem_dout
<1> QED
  BY <1>3, <1>4

\* What the arbiter remembers of the requests of the bridge.
LEMMA DAsks ==
  ASSUME PathInv, NEW access, NEW instr, Clock(access, instr),
         db_state \notin {"READ_WAIT", "WRITE_WAIT"} \/ Mux!cache_data_bram_rvalid_o
  PROVE  ~dcache_outstanding' /\ state' # "DCACHE_TRANSACTION"
<1>1. Mux!Arbitrate(ib_bram_req_o, db_bram_req_o)
  BY BusClocks
<1>2. CASE Mux!cache_data_bram_rvalid_o
  BY <1>1, <1>2 DEF Mux!cache_data_bram_rvalid_o, Mux!Arbitrate
<1>3. CASE db_state \notin {"READ_WAIT", "WRITE_WAIT"}
  <2>1. ~db_bram_req_o /\ ~dcache_outstanding /\ state # "DCACHE_TRANSACTION"
    BY <1>3 DEF PathInv, DBridgeInv
  <2> QED
    BY <1>1, <2>1 DEF Mux!Arbitrate
<1> QED
  BY <1>2, <1>3

\* The cache works on while the bridge does, and does not start it otherwise.
LEMMA DStates ==
  ASSUME PathInv, NEW access, NEW instr, Clock(access, instr)
  PROVE  /\ D!mem_req <=> d_state \in {"WBACK", "MISS"}
         /\ D!mem_rw_enable <=> d_state = "WBACK"
         /\ d_state \in {"WBACK", "MISS"} /\ db_state # "DONE" => d_state' = d_state
<1>1. d_state \in {"WBACK", "MISS"} => d_request # None /\ D!hits = {}
  BY DEF PathInv, PortsInv, DWorkInv
<1>2. db_state # "DONE" => ~db_rvalid_o
  BY DEF PathInv, DBridgeInv
<1> QED
  BY <1>1, <1>2, DMissClock DEF D!mem_req, D!mem_rw_enable

LEMMA DBridgeStart ==
  ASSUME PathInv, NEW access, NEW instr, Clock(access, instr), db_state = "IDLE"
  PROVE  DBridgeInv'
<1> DEFINE bridge == DB!BridgeClock(D!mem_req, D!mem_address, D!mem_rw_enable, D!mem_dout,
                      Mux!cache_data_bram_rvalid_o, Mux!ahb_rdata)
<1>1. ~dcache_outstanding' /\ state' # "DCACHE_TRANSACTION"
  BY DAsks
<1>2. /\ ~db_bram_req_o /\ db_rvalid_o = FALSE /\ db_we_o \in BOOLEAN
      /\ DOMAIN db_rdata = Offsets /\ db_req_counter = 0 /\ db_recv_counter = 0
  BY DEF PathInv, DBridgeInv
<1>3. bridge
  BY DEF Clock
<1>4. CASE ~D!mem_req
  <2>1. /\ db_state' = "IDLE" /\ db_bram_req_o' = db_bram_req_o
        /\ db_rvalid_o' = db_rvalid_o /\ db_we_o' = db_we_o /\ db_rdata' = db_rdata
        /\ db_req_counter' = 0 /\ db_recv_counter' = 0
    BY <1>2, <1>3, <1>4 DEF DB!BridgeClock, DB!bridgeVars
  <2> QED
    BY <1>1, <1>2, <2>1 DEF DBridgeInv
<1>5. CASE D!mem_req
  <2>1. DB!Start(D!mem_address, D!mem_rw_enable, D!mem_dout)
    BY <1>3, <1>5 DEF DB!BridgeClock
  <2>2. /\ d_state \in {"WBACK", "MISS"} /\ d_state' = d_state
        /\ D!mem_address' = D!mem_address
        /\ d_state = "WBACK" => D!mem_dout' = D!mem_dout
    BY <1>5, DStates, DLineKept
  <2>3. /\ db_state' = IF d_state = "WBACK" THEN "WRITE_WAIT" ELSE "READ_WAIT"
        /\ db_we_o' = (d_state = "WBACK")
        /\ d_state = "WBACK" => db_wdata_o' = D!mem_dout[0]
    BY <2>1 DEF DB!Start, D!mem_rw_enable
  <2>4. /\ db_bram_address_o' = WordOf(D!mem_address, 0)
        /\ db_req_counter' = (0 + 1) % Words /\ db_recv_counter' = 0
        /\ db_rdata' = db_rdata /\ db_rvalid_o' = db_rvalid_o
    BY <1>2, <2>1 DEF DB!Start, DB!Request, WordOf
  <2>5. 0 \in Offsets
    BY SizesAssumption DEF Offsets
  <2>6. db_bram_address_o'.word = 0
    BY <2>4 DEF WordOf
  <2>7. DMoved(0)'
    BY DEF DMoved
  <2> QED
    BY <1>1, <1>2, <2>2, <2>3, <2>4, <2>5, <2>6, <2>7 DEF DBridgeInv
<1> QED
  BY <1>4, <1>5

\* What is true of a bridge that moves a word.
LEMMA DWord ==
  ASSUME PathInv, db_state \in {"READ_WAIT", "WRITE_WAIT"}
  PROVE  LET k == db_bram_address_o.word
         IN /\ k \in Offsets /\ db_bram_address_o = WordOf(D!mem_address, k)
            /\ db_req_counter = (k + 1) % Words
            /\ db_recv_counter \in Offsets /\ DMoved(k) /\ DOMAIN db_rdata = Offsets
            /\ db_rvalid_o = FALSE
            /\ db_state = "WRITE_WAIT" =>
                 d_state = "WBACK" /\ db_we_o = TRUE /\ db_wdata_o = D!mem_dout[k]
            /\ db_state = "READ_WAIT" =>
                 d_state = "MISS" /\ db_we_o = FALSE /\ db_recv_counter = k
BY DEF PathInv, DBridgeInv

\* Memory is not written elsewhere in the line.
LEMMA DMovedKept ==
  ASSUME PathInv, NEW access, NEW instr, Clock(access, instr),
         db_state # "IDLE", d_state' = d_state, db_we_o' = db_we_o,
         NEW k \in Nat, k <= Words, DMoved(k),
         \A n \in 0 .. k - 1 : db_rdata'[n] = db_rdata[n]
  PROVE  DMoved(k)'
<1>1. /\ d_state = IF db_we_o THEN "WBACK" ELSE "MISS"
      /\ db_we_o \in BOOLEAN /\ d_request # None
  BY DEF PathInv, DBridgeInv, PortsInv
<1>2. /\ D!mem_address' = D!mem_address
      /\ db_we_o => D!mem_dout' = D!mem_dout
  BY <1>1, DLineKept
<1> SUFFICES ASSUME NEW n \in 0 .. k - 1
             PROVE  bram'[WordOf(D!mem_address, n)] =
                      IF db_we_o THEN D!mem_dout[n] ELSE db_rdata[n]
  BY <1>1, <1>2 DEF DMoved, WordOf
<1>3. bram[WordOf(D!mem_address, n)] = IF db_we_o THEN D!mem_dout[n] ELSE db_rdata[n]
  BY DEF DMoved
<1>4. n \in Offsets
  BY SizesAssumption DEF Offsets
<1>5. WordOf(D!mem_address, n) \in DOMAIN bram /\ WordOf(D!mem_address, n) \in Memory
  BY <1>1, <1>4, DLineInMemory, Lines DEF PathInv, MemoryInv
<1>6. ASSUME NEW m \in Offsets, db_we_o,
             bram' = [bram EXCEPT ![WordOf(D!mem_address, m)] = D!mem_dout[m]]
      PROVE  bram'[WordOf(D!mem_address, n)] = D!mem_dout[n]
  BY <1>3, <1>5, <1>6 DEF WordOf
<1> QED
  BY <1>1, <1>3, <1>6, NoWrite, Writers, CachedAccess DEF PathInv, UncachedPending

LEMMA DBridgeAwait ==
  ASSUME PathInv, NEW access, NEW instr, Clock(access, instr),
         db_state \in {"READ_WAIT", "WRITE_WAIT"}, ~Mux!cache_data_bram_rvalid_o
  PROVE  DBridgeInv'
<1> DEFINE k == db_bram_address_o.word
<1>1. DB!AwaitWord
  BY DEF Clock, DB!BridgeClock
<1>2. /\ db_state' = db_state /\ db_req_counter' = db_req_counter
      /\ db_recv_counter' = db_recv_counter /\ db_rdata' = db_rdata
      /\ db_bram_address_o' = db_bram_address_o /\ db_we_o' = db_we_o
      /\ db_wdata_o' = db_wdata_o /\ db_rvalid_o' = db_rvalid_o
  BY <1>1 DEF DB!AwaitWord
<1>3. d_state \in {"MISS", "WBACK"} /\ d_state' = d_state
  BY DWord, DStates
<1>4. D!mem_address' = D!mem_address /\ (d_state = "WBACK" => D!mem_dout' = D!mem_dout)
  BY <1>3, DLineKept
<1>5. DMoved(k)'
  <2>1. k \in Nat /\ k <= Words /\ DMoved(k)
    <3>1. k \in Offsets /\ DMoved(k)
      BY DWord
    <3> HIDE DEF k
    <3> QED
      BY <3>1, NextWord DEF Offsets
  <2> HIDE DEF k
  <2>2. k' = k
    BY <1>2 DEF k
  <2> QED
    BY <1>2, <1>3, <2>1, <2>2, DMovedKept DEF DMoved
<1> QED
  BY <1>2, <1>3, <1>4, <1>5, DWord DEF DBridgeInv, PathInv

LEMMA DWordWritten ==
  ASSUME PathInv, NEW access, NEW instr, Clock(access, instr),
         db_state = "WRITE_WAIT", Mux!cache_data_bram_rvalid_o
  PROVE  DBridgeInv'
<1>1. DB!WordWritten(D!mem_address, D!mem_dout)
  BY DEF Clock, DB!BridgeClock
<1>2. ~dcache_outstanding' /\ state' # "DCACHE_TRANSACTION"
  BY DAsks
<1>3. d_state = "WBACK" /\ d_state' = "WBACK"
  BY DWord, DStates
<1>4. D!mem_address' = D!mem_address /\ D!mem_dout' = D!mem_dout
  BY <1>3, DLineKept
<1>5. PICK k \in Offsets :
        /\ db_bram_address_o = WordOf(D!mem_address, k)
        /\ db_req_counter = (k + 1) % Words /\ db_recv_counter \in Offsets
        /\ DMoved(k) /\ DOMAIN db_rdata = Offsets /\ db_rvalid_o = FALSE
        /\ db_we_o = TRUE /\ db_wdata_o = D!mem_dout[k]
  BY DWord
<1>6. /\ db_we_o' = TRUE /\ db_rdata' = db_rdata /\ db_rvalid_o' = FALSE
      /\ db_recv_counter' = db_recv_counter
  BY <1>1, <1>5 DEF DB!WordWritten
<1>7. k \in Nat /\ k <= Words
  BY <1>5, NextWord DEF Offsets
<1>8. bram'[WordOf(D!mem_address, k)] = D!mem_dout[k]
  <2>1. state = "DCACHE_TRANSACTION" /\ Mux!ahb_rvalid
    BY DEF Mux!cache_data_bram_rvalid_o
  <2> QED
    BY <1>5, <2>1, BusStep, TxnIs
<1>9. DMoved(k)'
  BY <1>3, <1>5, <1>6, <1>7, DMovedKept
<1>10. \A n \in (0 .. k - 1) \union {k} :
         bram'[WordOf(D!mem_address', n)] = D!mem_dout'[n]
  BY <1>4, <1>6, <1>8, <1>9 DEF DMoved
<1>11. CASE k = Words - 1
  <2>1. DMoved(Words)'
    BY <1>6, <1>10, <1>11, NextWord DEF DMoved
  <2>2. db_state' = "WRITE_RESPONSE" /\ db_bram_req_o' = FALSE
    BY <1>1, <1>5, <1>11, NextWord DEF DB!WordWritten
  <2> QED
    BY <1>2, <1>3, <1>5, <1>6, <2>1, <2>2 DEF DBridgeInv
<1>12. CASE k # Words - 1
  <2>1. DMoved(k + 1)'
    BY <1>6, <1>10, NextWord DEF DMoved
  <2>2. /\ db_req_counter = k + 1 /\ k + 1 \in Offsets /\ db_req_counter # 0
    BY <1>5, <1>7, <1>12, NextWord
  <2>3. /\ DB!Request(D!mem_address, k + 1) /\ db_state' = db_state
        /\ db_wdata_o' = D!mem_dout[k + 1]
    BY <1>1, <2>2 DEF DB!WordWritten
  <2>4. /\ db_bram_address_o' = WordOf(D!mem_address, k + 1)
        /\ db_req_counter' = ((k + 1) + 1) % Words
    BY <2>2, <2>3 DEF DB!Request, WordOf
  <2>5. db_bram_address_o'.word = k + 1
    BY <2>4 DEF WordOf
  <2> QED
    BY <1>2, <1>3, <1>4, <1>5, <1>6, <2>1, <2>2, <2>3, <2>4, <2>5 DEF DBridgeInv
<1> QED
  BY <1>11, <1>12

LEMMA DWordRead ==
  ASSUME PathInv, NEW access, NEW instr, Clock(access, instr),
         db_state = "READ_WAIT", Mux!cache_data_bram_rvalid_o
  PROVE  DBridgeInv'
<1>1. DB!WordRead(D!mem_address, Mux!ahb_rdata)
  BY DEF Clock, DB!BridgeClock
<1>2. ~dcache_outstanding' /\ state' # "DCACHE_TRANSACTION"
  BY DAsks
<1>3. d_state = "MISS" /\ d_state' = "MISS"
  BY DWord, DStates
<1>4. D!mem_address' = D!mem_address
  BY <1>3, DLineKept
<1>5. PICK k \in Offsets :
        /\ db_bram_address_o = WordOf(D!mem_address, k)
        /\ db_req_counter = (k + 1) % Words /\ db_recv_counter = k
        /\ DMoved(k) /\ DOMAIN db_rdata = Offsets /\ db_rvalid_o = FALSE
        /\ db_we_o = FALSE
  BY DWord
<1>6. /\ db_we_o' = FALSE /\ db_rdata' = [db_rdata EXCEPT ![k] = Mux!ahb_rdata]
      /\ db_rvalid_o' = FALSE /\ db_recv_counter' = (k + 1) % Words
  BY <1>1, <1>5 DEF DB!WordRead
<1>7. k \in Nat /\ k <= Words
  BY <1>5, NextWord DEF Offsets
<1>8. bram'[WordOf(D!mem_address, k)] = Mux!ahb_rdata
  <2>1. state = "DCACHE_TRANSACTION" /\ Mux!ahb_rvalid
    BY DEF Mux!cache_data_bram_rvalid_o
  <2>2. Txn.addr = WordOf(D!mem_address, k) /\ Txn.we = FALSE
    BY <1>5, <2>1, TxnIs
  <2>3. Mux!ahb_rdata = bram[WordOf(D!mem_address, k)]
    BY <2>1, <2>2, BusStep
  <2> QED
    BY <1>3, <2>3, NoWrite DEF PathInv, PortsInv
<1>9. DMoved(k)'
  <2>1. \A n \in 0 .. k - 1 : db_rdata'[n] = db_rdata[n]
    BY <1>5, <1>6, <1>7, NextWord DEF Offsets
  <2> QED
    BY <1>3, <1>5, <1>6, <1>7, <2>1, DMovedKept
<1>10. \A n \in (0 .. k - 1) \union {k} :
         bram'[WordOf(D!mem_address', n)] = db_rdata'[n]
  BY <1>4, <1>5, <1>6, <1>8, <1>9 DEF DMoved
<1>11. CASE k = Words - 1
  <2>1. DMoved(Words)'
    BY <1>6, <1>10, <1>11, NextWord DEF DMoved
  <2>2. db_state' = "READ_RESPONSE" /\ db_bram_req_o' = FALSE
    BY <1>1, <1>5, <1>11 DEF DB!WordRead
  <2> QED
    BY <1>2, <1>3, <1>5, <1>6, <2>1, <2>2 DEF DBridgeInv
<1>12. CASE k # Words - 1
  <2>1. DMoved(k + 1)'
    BY <1>6, <1>10, NextWord DEF DMoved
  <2>2. /\ db_req_counter = k + 1 /\ k + 1 \in Offsets /\ db_recv_counter' = k + 1
    BY <1>5, <1>6, <1>7, <1>12, NextWord
  <2>3. DB!Request(D!mem_address, k + 1) /\ db_state' = db_state
    BY <1>1, <1>5, <1>12, <2>2 DEF DB!WordRead
  <2>4. /\ db_bram_address_o' = WordOf(D!mem_address, k + 1)
        /\ db_req_counter' = ((k + 1) + 1) % Words
    BY <2>2, <2>3 DEF DB!Request, WordOf
  <2>5. db_bram_address_o'.word = k + 1
    BY <2>4 DEF WordOf
  <2> QED
    BY <1>2, <1>3, <1>4, <1>5, <1>6, <2>1, <2>2, <2>3, <2>4, <2>5 DEF DBridgeInv
<1> QED
  BY <1>11, <1>12

LEMMA DBridgeEnd ==
  ASSUME PathInv, NEW access, NEW instr, Clock(access, instr),
         db_state \in {"READ_RESPONSE", "WRITE_RESPONSE", "DONE"}
  PROVE  DBridgeInv'
<1>1. ~dcache_outstanding' /\ state' # "DCACHE_TRANSACTION"
  BY DAsks
<1>2. /\ ~db_bram_req_o /\ db_we_o \in BOOLEAN /\ DOMAIN db_rdata = Offsets
      /\ DMoved(Words) /\ d_state = IF db_we_o THEN "WBACK" ELSE "MISS"
  BY DEF PathInv, DBridgeInv
<1>3. CASE db_state = "DONE"
  <2>1. DB!Done
    BY <1>3 DEF Clock, DB!BridgeClock
  <2>2. /\ db_state' = "IDLE" /\ ~db_bram_req_o' /\ db_we_o' = FALSE
        /\ DOMAIN db_rdata' = Offsets /\ db_rvalid_o' = FALSE
        /\ db_req_counter' = 0 /\ db_recv_counter' = 0
    BY <2>1 DEF DB!Done, DB!NoWords, Offsets
  <2> QED
    BY <1>1, <2>2 DEF DBridgeInv
<1>4. CASE db_state # "DONE"
  <2>1. DB!Respond
    BY <1>4 DEF Clock, DB!BridgeClock
  <2>2. /\ db_state' = "DONE" /\ db_bram_req_o' = db_bram_req_o /\ db_we_o' = db_we_o
        /\ db_rdata' = db_rdata /\ db_rvalid_o' = TRUE
    BY <2>1 DEF DB!Respond
  <2>3. d_state' = d_state
    BY <1>2, <1>4, DStates
  <2>4. DMoved(Words)'
    BY <1>2, <2>2, <2>3, DMovedKept, SizesAssumption
  <2> QED
    BY <1>1, <1>2, <2>2, <2>3, <2>4 DEF DBridgeInv
<1> QED
  BY <1>3, <1>4

LEMMA DBridgeStep ==
  ASSUME PathInv, NEW access, NEW instr, Clock(access, instr)
  PROVE  DBridgeInv'
BY DBridgeStart, DBridgeAwait, DWordWritten, DWordRead, DBridgeEnd
   DEF PathInv, DBridgeInv

-----------------------------------------------------------------------------
(* The lines of the data cache.                                            *)

LEMMA DLinesKept ==
  ASSUME PathInv, NEW access, NEW instr, Clock(access, instr),
         d_cache_set' = d_cache_set, d_next_evict_line' = d_next_evict_line
  PROVE  DLinesInv'
<1>1. ASSUME NEW s \in Sets, NEW w \in D!Line
      PROVE  DLineInv(d_cache_set[s][w], s)'
  <2>1. DLineInv(d_cache_set[s][w], s)
    BY DEF PathInv, DLinesInv
  <2>2. d_cache_set[s][w].valid /\ ~d_cache_set[s][w].dirty => Backed(d_cache_set[s][w], s)'
    BY <2>1, CleanKept DEF DLineInv, Backed
  <2> QED
    BY <2>1, <2>2 DEF DLineInv
<1> QED
  BY <1>1 DEF PathInv, DLinesInv

LEMMA DStored ==
  ASSUME PathInv, NEW access, NEW instr, Clock(access, instr),
         d_request # None, NEW w \in D!hits, d_request.we
  PROVE  DLinesInv'
<1> DEFINE s == d_request.addr.set
           c == d_cache_set[s][w]
           line == [tag |-> d_request.addr.tag, valid |-> TRUE, dirty |-> TRUE,
                    data |-> [c.data EXCEPT ![d_request.addr.word] = D!Written(@)]]
<1>1. s \in Sets /\ w \in D!Line /\ c.valid /\ c.tag = d_request.addr.tag
  BY DCurrent
<1>2. /\ d_cache_set' = [d_cache_set EXCEPT ![s][w] = line]
      /\ d_next_evict_line' = d_next_evict_line /\ bram' = bram
  BY DHitClock
<1>3. DLineInv(c, s)
  BY <1>1 DEF PathInv, DLinesInv
<1>4. d_request \in Accesses
  BY CachedAccess DEF PathInv
<1>5. line.valid = TRUE /\ line.dirty = TRUE /\ line.tag = c.tag
      /\ DOMAIN line.data = DOMAIN c.data
  BY <1>1
<1>6. line.dirty => \E a \in Accesses : a.we /\ a.addr.tag = line.tag /\ a.addr.set = s
  BY <1>1, <1>4
<1> HIDE DEF line
<1>7. DLineInv(line, s)
  BY <1>1, <1>3, <1>5, <1>6 DEF DLineInv
<1>8. DOMAIN d_cache_set = Sets /\ DOMAIN d_cache_set[s] = D!Line
  BY <1>1 DEF PathInv, DLinesInv
<1>9. ASSUME NEW t \in Sets, NEW v \in D!Line
      PROVE  d_cache_set'[t][v] = IF t = s /\ v = w THEN line ELSE d_cache_set[t][v]
  BY <1>1, <1>2, <1>8 DEF PathInv, DLinesInv
<1>10. DOMAIN d_cache_set' = Sets /\ \A t \in Sets : DOMAIN d_cache_set'[t] = D!Line
  BY <1>1, <1>2, <1>8 DEF PathInv, DLinesInv
<1>11. ASSUME NEW t \in Sets, NEW v \in D!Line
       PROVE  DLineInv(d_cache_set[t][v], t)'
  <2>1. DLineInv(d_cache_set'[t][v], t)
    BY <1>7, <1>9 DEF PathInv, DLinesInv
  <2> QED
    BY <1>2, <2>1 DEF DLineInv, Backed
<1>12. ASSUME NEW t \in Sets PROVE OneWay(d_cache_set[t])'
  <2>1. OneWay(d_cache_set[t]) /\ DOMAIN d_cache_set[t] = D!Line
    BY DEF PathInv, DLinesInv
  <2>2. \A v \in D!Line : /\ d_cache_set'[t][v].tag = d_cache_set[t][v].tag
                          /\ d_cache_set'[t][v].valid => d_cache_set[t][v].valid
    BY <1>1, <1>5, <1>9
  <2> QED
    BY <1>10, <2>1, <2>2 DEF OneWay
<1> QED
  BY <1>2, <1>10, <1>11, <1>12 DEF PathInv, DLinesInv

LEMMA DFilled ==
  ASSUME PathInv, NEW access, NEW instr, Clock(access, instr),
         d_state = "MISS", db_rvalid_o
  PROVE  DLinesInv'
<1> DEFINE s == d_request.addr.set
           w == d_next_evict_line[s]
           line == [tag |-> d_request.addr.tag, valid |-> TRUE, dirty |-> FALSE,
                    data |-> db_rdata]
<1>1. /\ d_request # None /\ D!hits = {} /\ db_state = "DONE" /\ ~db_we_o
      /\ DMoved(Words) /\ DOMAIN db_rdata = Offsets
  BY DEF PathInv, PortsInv, DWorkInv, DBridgeInv
<1>2. /\ s \in Sets /\ w \in D!Line
      /\ \A v \in D!Line : ~(/\ d_cache_set[s][v].valid
                             /\ d_cache_set[s][v].tag = d_request.addr.tag)
  BY <1>1, DCurrent DEF PathInv, DLinesInv
<1>3. /\ d_cache_set' = [d_cache_set EXCEPT ![s][w] = line]
      /\ \/ d_next_evict_line' = d_next_evict_line
         \/ d_next_evict_line' = [d_next_evict_line EXCEPT ![s] = (@ + 1) % DWays]
      /\ bram' = bram
  BY <1>1, DMissClock, NoWrite
<1>4. /\ line.valid = TRUE /\ line.dirty = FALSE /\ line.tag = d_request.addr.tag
      /\ line.data = db_rdata
  OBVIOUS
<1>5. \A n \in Offsets : /\ Cell(line.tag, s, n) = WordOf(D!mem_address, n)
                         /\ Cell(line.tag, s, n) \in Memory
  BY DLineInMemory DEF PathInv, D!mem_address, WordOf, Cell
<1> HIDE DEF line
<1>6. Backed(line, s)
  BY <1>1, <1>4, <1>5 DEF Backed, DMoved, Offsets
<1>7. DLineInv(line, s)
  BY <1>1, <1>4, <1>5, <1>6 DEF DLineInv
<1>8. DOMAIN d_cache_set = Sets /\ DOMAIN d_cache_set[s] = D!Line
  BY <1>2 DEF PathInv, DLinesInv
<1>9. ASSUME NEW t \in Sets, NEW v \in D!Line
      PROVE  d_cache_set'[t][v] = IF t = s /\ v = w THEN line ELSE d_cache_set[t][v]
  BY <1>2, <1>3, <1>8 DEF PathInv, DLinesInv
<1>10. DOMAIN d_cache_set' = Sets /\ \A t \in Sets : DOMAIN d_cache_set'[t] = D!Line
  BY <1>2, <1>3, <1>8 DEF PathInv, DLinesInv
<1>11. ASSUME NEW t \in Sets, NEW v \in D!Line
       PROVE  DLineInv(d_cache_set[t][v], t)'
  <2>1. DLineInv(d_cache_set'[t][v], t)
    BY <1>7, <1>9 DEF PathInv, DLinesInv
  <2> QED
    BY <1>3, <2>1 DEF DLineInv, Backed
<1>12. ASSUME NEW t \in Sets PROVE OneWay(d_cache_set[t])'
  <2>1. OneWay(d_cache_set[t]) /\ DOMAIN d_cache_set[t] = D!Line
    BY DEF PathInv, DLinesInv
  <2> QED
    BY <1>2, <1>4, <1>9, <1>10, <2>1 DEF OneWay
<1>13. DOMAIN d_next_evict_line' = Sets
       /\ \A t \in Sets : d_next_evict_line'[t] \in D!Line
  <2>1. /\ DOMAIN d_next_evict_line = Sets
        /\ \A t \in Sets : d_next_evict_line[t] \in D!Line
    BY DEF PathInv, DLinesInv
  <2>2. (w + 1) % DWays \in D!Line
    BY <1>2, SizesAssumption DEF D!Line
  <2> QED
    BY <1>2, <1>3, <2>1, <2>2
<1> QED
  BY <1>10, <1>11, <1>12, <1>13 DEF DLinesInv

LEMMA DLinesStep ==
  ASSUME PathInv, NEW access, NEW instr, Clock(access, instr)
  PROVE  DLinesInv'
<1>1. CASE d_request = None
  BY <1>1, DIdleClock, DLinesKept
<1>2. CASE d_request # None /\ D!hits # {} /\ d_request.we
  BY <1>2, DStored
<1>3. CASE d_request # None /\ D!hits # {} /\ ~d_request.we
  <2>1. PICK w \in D!hits : TRUE
    BY <1>3
  <2>2. d_cache_set' = d_cache_set /\ d_next_evict_line' = d_next_evict_line
    BY <1>3, <2>1, DHitClock
  <2> QED
    BY <2>2, DLinesKept
<1>4. CASE d_request # None /\ D!hits = {} /\ d_state = "MISS" /\ db_rvalid_o
  BY <1>4, DFilled
<1>5. CASE d_request # None /\ D!hits = {} /\ ~(d_state = "MISS" /\ db_rvalid_o)
  <2>1. d_cache_set' = d_cache_set /\ d_next_evict_line' = d_next_evict_line
    BY <1>5, DMissClock
  <2> QED
    BY <2>1, DLinesKept
<1> QED
  BY <1>1, <1>2, <1>3, <1>4, <1>5

LEMMA DWorkStep ==
  ASSUME PathInv, NEW access, NEW instr, Clock(access, instr)
  PROVE  DWorkInv'
<1> DEFINE s == d_request.addr.set
           v == d_next_evict_line[s]
<1>1. CASE d_request = None
  BY <1>1, DIdleClock DEF DWorkInv, CacheStates
<1>2. ASSUME d_request # None, NEW w \in D!hits
      PROVE  DWorkInv'
  <2>1. /\ d_state \in {"IDLE", "HIT"}
        /\ d_state' = IF d_state = "IDLE" THEN "HIT" ELSE "IDLE"
    BY <1>2, DHitClock
  <2>2. CASE d_state = "HIT"
    BY <2>1, <2>2 DEF DWorkInv, CacheStates
  <2>3. CASE d_state = "IDLE"
    <3>1. d_request' = d_request /\ d_state' = "HIT"
      BY <1>2, <2>1, <2>3, DHold
    <3>2. s \in Sets /\ w \in D!Line /\ d_cache_set[s][w].valid
          /\ d_cache_set[s][w].tag = d_request.addr.tag
      BY <1>2, DCurrent
    <3>3. DOMAIN d_cache_set = Sets /\ DOMAIN d_cache_set[s] = D!Line
      BY <3>2 DEF PathInv, DLinesInv
    <3>4. d_cache_set'[s][w].valid /\ d_cache_set'[s][w].tag = d_request.addr.tag
      <4>1. CASE ~d_request.we
        BY <1>2, <3>2, <4>1, DHitClock
      <4>2. CASE d_request.we
        <5> DEFINE data == [d_cache_set[s][w].data EXCEPT
                              ![d_request.addr.word] = D!Written(@)]
        <5>1. d_cache_set' = [d_cache_set EXCEPT ![s][w] =
                [tag |-> d_request.addr.tag, valid |-> TRUE, dirty |-> TRUE,
                 data |-> data]]
          BY <1>2, <4>2, DHitClock
        <5> HIDE DEF data
        <5> QED
          BY <3>2, <3>3, <5>1
      <4> QED
        BY <4>1, <4>2
    <3>5. w \in D!hits'
      BY <3>1, <3>2, <3>4 DEF D!hits, D!set
    <3> QED
      BY <3>1, <3>5 DEF DWorkInv, CacheStates
  <2> QED
    BY <2>1, <2>2, <2>3
<1>3. ASSUME d_request # None, D!hits = {}
      PROVE  DWorkInv'
  <2>1. /\ d_state \in {"IDLE", "WBACK", "MISS"} /\ s \in Sets /\ v \in D!Line
        /\ DLineInv(d_cache_set[s][v], s)
    BY <1>3, DMissClock, DCurrent DEF PathInv, DLinesInv
  <2>2. d_request' = d_request
    BY <1>3, <2>1, DHold
  <2>3. CASE d_state = "MISS" /\ db_rvalid_o
    <3>1. /\ d_state' = "HIT"
          /\ d_cache_set' = [d_cache_set EXCEPT ![s][v] =
               [tag |-> d_request.addr.tag, valid |-> TRUE, dirty |-> FALSE,
                data |-> db_rdata]]
      BY <1>3, <2>3, DMissClock
    <3>2. DOMAIN d_cache_set = Sets /\ DOMAIN d_cache_set[s] = D!Line
      BY <2>1 DEF PathInv, DLinesInv
    <3>3. d_cache_set'[s][v].valid /\ d_cache_set'[s][v].tag = d_request.addr.tag
      BY <2>1, <3>1, <3>2
    <3>4. v \in D!hits'
      BY <2>1, <2>2, <3>3 DEF D!hits, D!set
    <3> QED
      BY <3>1, <3>4 DEF DWorkInv, CacheStates
  <2>4. CASE ~(d_state = "MISS" /\ db_rvalid_o)
    <3>1. /\ d_cache_set' = d_cache_set /\ d_next_evict_line' = d_next_evict_line
          /\ d_state' \in {"WBACK", "MISS"}
          /\ d_write_back'[s].tag = d_cache_set[s][v].tag
          /\ d_write_back'[s].data = d_cache_set[s][v].data
      BY <1>3, <2>1, <2>4, DMissClock
    <3>2. D!hits' = {}
      BY <1>3, <2>2, <3>1 DEF D!hits, D!set
    <3>3. d_state' = "WBACK" => d_cache_set[s][v].dirty
      BY <1>3, <2>1, DMissClock DEF PathInv, DWorkInv, D!set, D!victim
    <3>4. ASSUME d_state' = "MISS", d_cache_set[s][v].valid
          PROVE  \A n \in Offsets : d_cache_set[s][v].data[n] =
                                      bram'[Cell(d_cache_set[s][v].tag, s, n)]
      <4>1. d_state # "WBACK" \/ db_state # "WRITE_WAIT"
        BY <1>3, <3>4, DMissClock DEF PathInv, DBridgeInv
      <4>2. bram' = bram
        BY <1>3, <4>1, NoWrite
      <4>3. CASE d_state = "IDLE"
        <5>1. ~d_cache_set[s][v].dirty
          BY <1>3, <3>4, <4>3, DMissClock
        <5> QED
          BY <2>1, <3>4, <4>2, <5>1 DEF DLineInv, Backed
      <4>4. CASE d_state = "MISS"
        BY <3>4, <4>2, <4>4 DEF PathInv, DWorkInv, D!set, D!victim, Backed
      <4>5. CASE d_state = "WBACK"
        <5>1. db_state = "DONE" /\ db_we_o /\ DMoved(Words)
          BY <1>3, <3>4, <4>5, DMissClock DEF PathInv, DBridgeInv
        <5>2. /\ \A n : WordOf(D!mem_address, n) = Cell(d_cache_set[s][v].tag, s, n)
              /\ D!mem_dout = d_cache_set[s][v].data
          BY <4>5, VictimLine
        <5> QED
          BY <4>2, <5>1, <5>2 DEF DMoved, Offsets
      <4> QED
        BY <2>1, <4>3, <4>4, <4>5
    <3> QED
      BY <2>2, <3>1, <3>2, <3>3, <3>4 DEF DWorkInv, CacheStates, D!set, D!victim, Backed
  <2> QED
    BY <2>3, <2>4
<1> QED
  BY <1>1, <1>2, <1>3

-----------------------------------------------------------------------------
(* The instruction cache: it has no dirty lines, and what it reads is code *)
(* that nobody writes.                                                     *)

LEMMA ICurrent ==
  ASSUME PathInv, i_request # None
  PROVE  LET s == i_request.addr.set
         IN /\ s \in Sets /\ fetch = i_request /\ i_request \in Fetches
            /\ i_request.we = FALSE /\ i_request.addr \in Memory
            /\ I!hits = {w \in I!Line : /\ i_cache_set[s][w].valid
                                        /\ i_cache_set[s][w].tag = i_request.addr.tag}
            /\ I!hit <=> I!hits # {}
            /\ I!miss <=> I!hits = {}
            /\ \A w \in I!hits : I!current_line = w
<1> DEFINE s == i_request.addr.set
<1>1. /\ s \in Sets /\ fetch = i_request /\ i_request \in Fetches
      /\ i_request.we = FALSE /\ i_request.addr \in Memory
  BY CachedAccess, Lines DEF PathInv
<1>2. I!hits = {w \in I!Line : /\ i_cache_set[s][w].valid
                               /\ i_cache_set[s][w].tag = i_request.addr.tag}
  BY DEF I!hits, I!set
<1>3. \A v, w \in I!hits : v = w
  BY <1>1, <1>2 DEF PathInv, ILinesInv, OneWay
<1>4. /\ I!hits = {} => I!current_line \notin I!hits
      /\ \A w \in I!hits : I!current_line = w
  BY <1>3 DEF I!current_line
<1> QED
  BY <1>1, <1>2, <1>4 DEF I!hit, I!miss, I!req

LEMMA IHold ==
  ASSUME PathInv, NEW access, NEW instr, Clock(access, instr), i_request # None
  PROVE  /\ instr = None
         /\ i_request' = IF i_state = "HIT" THEN None ELSE i_request
<1>1. instr = None
  BY DEF PathInv, PortsInv, Clock, FetchClock
<1> QED
  BY <1>1 DEF Clock, I!CacheClock, I!Hold, I!cache_hit_o

\* Without a request, and with a hit, the lines stay as they are.
LEMMA IKeepClock ==
  ASSUME PathInv, NEW access, NEW instr, Clock(access, instr),
         i_request = None \/ I!hits # {}
  PROVE  /\ i_cache_set' = i_cache_set /\ i_next_evict_line' = i_next_evict_line
         /\ i_request = None => i_state' = "IDLE"
         /\ i_request # None => /\ i_state \in {"IDLE", "HIT"}
                                /\ i_state' = IF i_state = "IDLE" THEN "HIT" ELSE "IDLE"
<1>1. /\ I!Transition(ib_rvalid_o) /\ I!Store(ib_rvalid_o, ib_rdata)
      /\ I!Turn(ib_rvalid_o)
  BY DEF Clock, I!CacheClock
<1>2. CASE i_request = None
  BY <1>1, <1>2 DEF PathInv, PortsInv, I!Transition, I!Store, I!Turn, I!hit,
       I!miss, I!req
<1>3. CASE i_request # None
  <2>1. I!hit /\ ~I!miss /\ i_request.we = FALSE /\ I!req
    BY <1>3, ICurrent DEF I!req
  <2>2. i_state \in {"IDLE", "HIT"}
    BY <1>3 DEF PathInv, IWorkInv, CacheStates
  <2> QED
    BY <1>1, <1>3, <2>1, <2>2 DEF I!Transition, I!Store, I!Turn
<1> QED
  BY <1>2, <1>3

LEMMA IMissClock ==
  ASSUME PathInv, NEW access, NEW instr, Clock(access, instr),
         i_request # None, I!hits = {}
  PROVE  LET s == i_request.addr.set
             v == i_next_evict_line[s]
         IN /\ i_state \in {"IDLE", "MISS"}
            /\ i_state # "MISS" \/ ~ib_rvalid_o =>
                 /\ i_cache_set' = i_cache_set
                 /\ i_next_evict_line' = i_next_evict_line
                 /\ i_state' = "MISS"
            /\ i_state = "MISS" /\ ib_rvalid_o =>
                 /\ i_state' = "HIT"
                 /\ i_cache_set' = [i_cache_set EXCEPT ![s][v] =
                      [tag |-> i_request.addr.tag, valid |-> TRUE, dirty |-> FALSE,
                       data |-> ib_rdata]]
                 /\ i_next_evict_line' =
                      [i_next_evict_line EXCEPT ![s] = (@ + 1) % IWays]
<1> DEFINE s == i_request.addr.set
           v == i_next_evict_line[s]
<1>1. ~I!hit /\ I!miss /\ I!req /\ s \in Sets
  BY ICurrent DEF I!req
<1>2. i_state \in {"IDLE", "MISS"}
  BY DEF PathInv, IWorkInv, CacheStates
<1>3. i_state = "IDLE" => ~ib_rvalid_o
  BY DEF PathInv, IBridgeInv
<1>4. ~I!dirty
  <2>1. v \in I!Line /\ ILineInv(i_cache_set[s][v], s)
    BY <1>1 DEF PathInv, ILinesInv
  <2> QED
    BY <2>1 DEF ILineInv, I!dirty, I!set, I!victim
<1>5. /\ I!Transition(ib_rvalid_o) /\ I!Store(ib_rvalid_o, ib_rdata)
      /\ I!Turn(ib_rvalid_o)
  BY DEF Clock, I!CacheClock
<1>6. i_state # "MISS" \/ ~ib_rvalid_o =>
        /\ i_cache_set' = i_cache_set /\ i_next_evict_line' = i_next_evict_line
        /\ i_state' = "MISS"
  BY <1>1, <1>2, <1>3, <1>4, <1>5 DEF I!Transition, I!Store, I!Turn
<1>7. i_state = "MISS" /\ ib_rvalid_o =>
        /\ i_state' = "HIT"
        /\ i_cache_set' = [i_cache_set EXCEPT ![s][v] =
             [tag |-> i_request.addr.tag, valid |-> TRUE, dirty |-> FALSE,
              data |-> ib_rdata]]
        /\ i_next_evict_line' = [i_next_evict_line EXCEPT ![s] = (@ + 1) % IWays]
  BY <1>1, <1>4, <1>5 DEF I!Transition, I!Store, I!Turn, I!WriteLine, I!victim
<1> QED
  BY <1>2, <1>6, <1>7

LEMMA ILinesStep ==
  ASSUME PathInv, NEW access, NEW instr, Clock(access, instr)
  PROVE  ILinesInv' /\ IWorkInv'
<1> DEFINE s == i_request.addr.set
           v == i_next_evict_line[s]
<1>1. ASSUME i_cache_set' = i_cache_set, i_next_evict_line' = i_next_evict_line
      PROVE  ILinesInv'
  BY <1>1 DEF PathInv, ILinesInv, ILineInv, OneWay
<1>2. CASE i_request = None
  BY <1>1, <1>2, IKeepClock DEF IWorkInv, CacheStates
<1>3. CASE i_request # None /\ I!hits # {}
  <2>1. /\ i_cache_set' = i_cache_set /\ i_next_evict_line' = i_next_evict_line
        /\ i_state \in {"IDLE", "HIT"}
        /\ i_state' = IF i_state = "IDLE" THEN "HIT" ELSE "IDLE"
    BY <1>3, IKeepClock
  <2>2. i_state' = "HIT" => I!hits' # {}
    BY <1>3, <2>1, IHold DEF I!hits, I!set
  <2> QED
    BY <1>1, <2>1, <2>2 DEF IWorkInv, CacheStates
<1>4. CASE i_request # None /\ I!hits = {} /\ ~(i_state = "MISS" /\ ib_rvalid_o)
  <2>1. /\ i_cache_set' = i_cache_set /\ i_next_evict_line' = i_next_evict_line
        /\ i_state' = "MISS" /\ i_request' = i_request
    BY <1>4, IMissClock, IHold
  <2>2. I!hits' = {}
    BY <1>4, <2>1 DEF I!hits, I!set
  <2> QED
    BY <1>1, <2>1, <2>2 DEF IWorkInv, CacheStates
<1>5. CASE i_request # None /\ I!hits = {} /\ i_state = "MISS" /\ ib_rvalid_o
  <2> DEFINE line == [tag |-> i_request.addr.tag, valid |-> TRUE, dirty |-> FALSE,
                      data |-> ib_rdata]
  <2>1. /\ i_state' = "HIT" /\ i_cache_set' = [i_cache_set EXCEPT ![s][v] = line]
        /\ i_next_evict_line' = [i_next_evict_line EXCEPT ![s] = (@ + 1) % IWays]
        /\ i_request' = i_request
    BY <1>5, IMissClock, IHold
  <2>2. /\ s \in Sets /\ v \in I!Line /\ i_request \in Fetches
        /\ \A w \in I!Line : ~(/\ i_cache_set[s][w].valid
                               /\ i_cache_set[s][w].tag = i_request.addr.tag)
    BY <1>5, ICurrent DEF PathInv, ILinesInv
  <2>3. DOMAIN ib_rdata = Offsets /\ IMoved(Words)
    BY <1>5 DEF PathInv, IBridgeInv
  <2>4. /\ line.valid = TRUE /\ line.dirty = FALSE /\ line.tag = i_request.addr.tag
        /\ line.data = ib_rdata
    OBVIOUS
  <2> HIDE DEF line
  <2>5. \A n \in Offsets : line.data[n] = Initial[Cell(line.tag, s, n)]
    BY <2>2, <2>3, <2>4 DEF IMoved, Offsets, PathInv, MemoryInv, WordOf, Cell
  <2>6. ILineInv(line, s)
    BY <2>3, <2>4, <2>5 DEF ILineInv
  <2>7. DOMAIN i_cache_set = Sets /\ DOMAIN i_cache_set[s] = I!Line
    BY <2>2 DEF PathInv, ILinesInv
  <2>8. ASSUME NEW t \in Sets, NEW w \in I!Line
        PROVE  i_cache_set'[t][w] = IF t = s /\ w = v THEN line ELSE i_cache_set[t][w]
    BY <2>1, <2>2, <2>7 DEF PathInv, ILinesInv
  <2>9. DOMAIN i_cache_set' = Sets /\ \A t \in Sets : DOMAIN i_cache_set'[t] = I!Line
    BY <2>1, <2>2, <2>7 DEF PathInv, ILinesInv
  <2>10. ASSUME NEW t \in Sets, NEW w \in I!Line
         PROVE  ILineInv(i_cache_set[t][w], t)'
    <3>1. ILineInv(i_cache_set'[t][w], t)
      BY <2>6, <2>8 DEF PathInv, ILinesInv
    <3> QED
      BY <3>1 DEF ILineInv
  <2>11. ASSUME NEW t \in Sets PROVE OneWay(i_cache_set[t])'
    <3>1. OneWay(i_cache_set[t]) /\ DOMAIN i_cache_set[t] = I!Line
      BY DEF PathInv, ILinesInv
    <3> QED
      BY <2>2, <2>4, <2>8, <2>9, <3>1 DEF OneWay
  <2>12. /\ DOMAIN i_next_evict_line' = Sets
         /\ \A t \in Sets : i_next_evict_line'[t] \in I!Line
    <3>1. /\ DOMAIN i_next_evict_line = Sets
          /\ \A t \in Sets : i_next_evict_line[t] \in I!Line
      BY DEF PathInv, ILinesInv
    <3>2. (v + 1) % IWays \in I!Line
      BY <2>2, SizesAssumption DEF I!Line
    <3> QED
      BY <2>1, <2>2, <3>1, <3>2
  <2>13. v \in I!hits'
    BY <2>1, <2>2, <2>4, <2>8 DEF I!hits, I!set
  <2> QED
    BY <2>1, <2>9, <2>10, <2>11, <2>12, <2>13 DEF ILinesInv, IWorkInv, CacheStates
<1> QED
  BY <1>2, <1>3, <1>4, <1>5

-----------------------------------------------------------------------------
(* The bridge of the instruction cache.                                    *)

LEMMA IAsks ==
  ASSUME PathInv, NEW access, NEW instr, Clock(access, instr),
         ib_state # "READ_WAIT" \/ Mux!cache_instr_bram_rvalid_o
  PROVE  ~icache_outstanding' /\ state' # "ICACHE_TRANSACTION"
<1>1. Mux!Arbitrate(ib_bram_req_o, db_bram_req_o)
  BY BusClocks
<1>2. CASE Mux!cache_instr_bram_rvalid_o
  BY <1>1, <1>2 DEF Mux!cache_instr_bram_rvalid_o, Mux!Arbitrate
<1>3. CASE ib_state # "READ_WAIT"
  <2>1. ~ib_bram_req_o /\ ~icache_outstanding /\ state # "ICACHE_TRANSACTION"
    BY <1>3 DEF PathInv, IBridgeInv
  <2> QED
    BY <1>1, <2>1 DEF Mux!Arbitrate
<1> QED
  BY <1>2, <1>3

LEMMA IStates ==
  ASSUME PathInv, NEW access, NEW instr, Clock(access, instr)
  PROVE  /\ I!mem_req <=> i_state = "MISS"
         /\ i_state = "MISS" =>
              /\ i_request # None /\ i_request \in Fetches /\ i_request' = i_request
              /\ ib_state # "DONE" => i_state' = "MISS"
<1>1. i_state = "MISS" => i_request # None /\ I!hits = {}
  BY DEF PathInv, PortsInv, IWorkInv
<1>2. ib_state # "DONE" => ~ib_rvalid_o
  BY DEF PathInv, IBridgeInv
<1> QED
  BY <1>1, <1>2, IMissClock, IHold, ICurrent
     DEF I!mem_req, PathInv, IWorkInv, CacheStates

LEMMA IMovedKept ==
  ASSUME PathInv, NEW access, NEW instr, Clock(access, instr), i_state = "MISS",
         NEW k \in Nat, k <= Words, IMoved(k),
         \A n \in 0 .. k - 1 : ib_rdata'[n] = ib_rdata[n]
  PROVE  IMoved(k)'
<1>1. i_request \in Fetches /\ i_request' = i_request
  BY IStates
<1> SUFFICES ASSUME NEW n \in 0 .. k - 1
             PROVE  ib_rdata'[n] = bram'[WordOf(i_request.addr, n)]
  BY <1>1 DEF IMoved, WordOf
<1>2. n \in Offsets
  BY SizesAssumption DEF Offsets
<1> QED
  BY <1>1, <1>2, CodeKept DEF IMoved

LEMMA IBridgeStart ==
  ASSUME PathInv, NEW access, NEW instr, Clock(access, instr), ib_state = "IDLE"
  PROVE  IBridgeInv'
<1> DEFINE bridge == IB!BridgeClock(I!mem_req, I!mem_address, FALSE, I!mem_dout,
                      Mux!cache_instr_bram_rvalid_o, Mux!ahb_rdata)
<1>1. ~icache_outstanding' /\ state' # "ICACHE_TRANSACTION"
  BY IAsks
<1>2. /\ ~ib_bram_req_o /\ ib_rvalid_o = FALSE /\ DOMAIN ib_rdata = Offsets
      /\ ib_req_counter = 0 /\ ib_recv_counter = 0
  BY DEF PathInv, IBridgeInv
<1>3. bridge
  BY DEF Clock
<1>4. CASE ~I!mem_req
  <2>1. /\ ib_state' = "IDLE" /\ ib_bram_req_o' = ib_bram_req_o
        /\ ib_rvalid_o' = ib_rvalid_o /\ ib_rdata' = ib_rdata
        /\ ib_req_counter' = 0 /\ ib_recv_counter' = 0
    BY <1>2, <1>3, <1>4 DEF IB!BridgeClock, IB!bridgeVars
  <2> QED
    BY <1>1, <1>2, <2>1 DEF IBridgeInv
<1>5. CASE I!mem_req
  <2>1. IB!Start(I!mem_address, FALSE, I!mem_dout)
    BY <1>3, <1>5 DEF IB!BridgeClock
  <2>2. i_state = "MISS" /\ i_state' = "MISS" /\ i_request' = i_request
    BY <1>5, IStates
  <2>3. /\ ib_state' = "READ_WAIT"
        /\ ib_bram_address_o' = WordOf(i_request.addr, 0)
        /\ ib_req_counter' = (0 + 1) % Words /\ ib_recv_counter' = 0
        /\ ib_rdata' = ib_rdata /\ ib_rvalid_o' = ib_rvalid_o
    BY <1>2, <2>1, <2>2 DEF IB!Start, IB!Request, WordOf, I!mem_address
  <2>4. 0 \in Offsets
    BY SizesAssumption DEF Offsets
  <2>5. IMoved(0)'
    BY DEF IMoved
  <2> QED
    BY <1>1, <1>2, <2>2, <2>3, <2>4, <2>5 DEF IBridgeInv
<1> QED
  BY <1>4, <1>5

\* What is true of a bridge that reads a word, whose number is a constant
\* of the step.
LEMMA IWord ==
  ASSUME PathInv, ib_state = "READ_WAIT"
  PROVE  \E k \in Offsets :
           /\ ib_recv_counter = k /\ ib_bram_address_o = WordOf(i_request.addr, k)
           /\ ib_req_counter = (k + 1) % Words /\ IMoved(k)
           /\ DOMAIN ib_rdata = Offsets /\ ib_rvalid_o = FALSE /\ i_state = "MISS"
BY DEF PathInv, IBridgeInv

LEMMA IBridgeAwait ==
  ASSUME PathInv, NEW access, NEW instr, Clock(access, instr),
         ib_state = "READ_WAIT", ~Mux!cache_instr_bram_rvalid_o
  PROVE  IBridgeInv'
<1>1. PICK k \in Offsets :
        /\ ib_recv_counter = k /\ ib_bram_address_o = WordOf(i_request.addr, k)
        /\ ib_req_counter = (k + 1) % Words /\ IMoved(k)
        /\ DOMAIN ib_rdata = Offsets /\ ib_rvalid_o = FALSE /\ i_state = "MISS"
  BY IWord
<1>2. IB!AwaitWord
  BY DEF Clock, IB!BridgeClock
<1>3. /\ ib_state' = ib_state /\ ib_req_counter' = ib_req_counter
      /\ ib_recv_counter' = ib_recv_counter /\ ib_rdata' = ib_rdata
      /\ ib_bram_address_o' = ib_bram_address_o /\ ib_rvalid_o' = ib_rvalid_o
  BY <1>2 DEF IB!AwaitWord
<1>4. i_state' = "MISS" /\ i_request' = i_request
  BY <1>1, IStates
<1>5. IMoved(k)'
  BY <1>1, <1>3, IMovedKept, NextWord DEF Offsets
<1> QED
  BY <1>1, <1>3, <1>4, <1>5 DEF IBridgeInv

LEMMA IWordRead ==
  ASSUME PathInv, NEW access, NEW instr, Clock(access, instr),
         ib_state = "READ_WAIT", Mux!cache_instr_bram_rvalid_o
  PROVE  IBridgeInv'
<1>1. PICK k \in Offsets :
        /\ ib_recv_counter = k /\ ib_bram_address_o = WordOf(i_request.addr, k)
        /\ ib_req_counter = (k + 1) % Words /\ IMoved(k)
        /\ DOMAIN ib_rdata = Offsets /\ ib_rvalid_o = FALSE /\ i_state = "MISS"
  BY IWord
<1>2. IB!WordRead(I!mem_address, Mux!ahb_rdata)
  BY DEF Clock, IB!BridgeClock
<1>3. ~icache_outstanding' /\ state' # "ICACHE_TRANSACTION"
  BY IAsks
<1>4. i_state' = "MISS" /\ i_request' = i_request /\ i_request \in Fetches
  BY <1>1, IStates
<1>5. /\ ib_rdata' = [ib_rdata EXCEPT ![k] = Mux!ahb_rdata]
      /\ ib_rvalid_o' = FALSE /\ ib_recv_counter' = (k + 1) % Words
  BY <1>1, <1>2 DEF IB!WordRead
<1>6. k \in Nat /\ k <= Words
  BY <1>1, NextWord DEF Offsets
<1>7. bram'[WordOf(i_request.addr, k)] = Mux!ahb_rdata
  <2>1. state = "ICACHE_TRANSACTION" /\ Mux!ahb_rvalid
    BY DEF Mux!cache_instr_bram_rvalid_o
  <2>2. Txn.addr = WordOf(i_request.addr, k) /\ Txn.we = FALSE
    BY <1>1, <2>1, TxnIs
  <2> QED
    BY <1>4, <2>1, <2>2, BusStep, CodeKept
<1>8. IMoved(k)'
  <2>1. \A n \in 0 .. k - 1 : ib_rdata'[n] = ib_rdata[n]
    BY <1>1, <1>5, <1>6, NextWord DEF Offsets
  <2> QED
    BY <1>1, <1>6, <2>1, IMovedKept
<1>9. \A n \in (0 .. k - 1) \union {k} :
        ib_rdata'[n] = bram'[WordOf(i_request'.addr, n)]
  BY <1>1, <1>4, <1>5, <1>7, <1>8 DEF IMoved
<1>10. CASE k = Words - 1
  <2>1. IMoved(Words)'
    BY <1>9, <1>10, NextWord DEF IMoved
  <2>2. ib_state' = "READ_RESPONSE" /\ ib_bram_req_o' = FALSE
    BY <1>1, <1>2, <1>10 DEF IB!WordRead
  <2> QED
    BY <1>1, <1>3, <1>4, <1>5, <2>1, <2>2 DEF IBridgeInv
<1>11. CASE k # Words - 1
  <2>1. IMoved(k + 1)'
    BY <1>9, NextWord DEF IMoved
  <2>2. /\ ib_req_counter = k + 1 /\ k + 1 \in Offsets /\ ib_recv_counter' = k + 1
    BY <1>1, <1>5, <1>6, <1>11, NextWord
  <2>3. IB!Request(I!mem_address, k + 1) /\ ib_state' = ib_state
    BY <1>1, <1>2, <1>11, <2>2 DEF IB!WordRead
  <2>4. /\ ib_bram_address_o' = WordOf(i_request.addr, k + 1)
        /\ ib_req_counter' = ((k + 1) + 1) % Words
    BY <1>1, <2>2, <2>3 DEF IB!Request, WordOf, I!mem_address
  <2> QED
    BY <1>1, <1>3, <1>4, <1>5, <2>1, <2>2, <2>3, <2>4 DEF IBridgeInv
<1> QED
  BY <1>10, <1>11

LEMMA IBridgeEnd ==
  ASSUME PathInv, NEW access, NEW instr, Clock(access, instr),
         ib_state \in {"READ_RESPONSE", "DONE"}
  PROVE  IBridgeInv'
<1>1. ~icache_outstanding' /\ state' # "ICACHE_TRANSACTION"
  BY IAsks
<1>2. /\ ~ib_bram_req_o /\ DOMAIN ib_rdata = Offsets /\ IMoved(Words)
      /\ i_state = "MISS"
  BY DEF PathInv, IBridgeInv
<1>3. CASE ib_state = "DONE"
  <2>1. IB!Done
    BY <1>3 DEF Clock, IB!BridgeClock
  <2>2. /\ ib_state' = "IDLE" /\ ~ib_bram_req_o' /\ DOMAIN ib_rdata' = Offsets
        /\ ib_rvalid_o' = FALSE /\ ib_req_counter' = 0 /\ ib_recv_counter' = 0
    BY <2>1 DEF IB!Done, IB!NoWords, Offsets
  <2> QED
    BY <1>1, <2>2 DEF IBridgeInv
<1>4. CASE ib_state # "DONE"
  <2>1. IB!Respond
    BY <1>4 DEF Clock, IB!BridgeClock
  <2>2. /\ ib_state' = "DONE" /\ ib_bram_req_o' = ib_bram_req_o
        /\ ib_rdata' = ib_rdata /\ ib_rvalid_o' = TRUE
    BY <2>1 DEF IB!Respond
  <2>3. i_state' = "MISS"
    BY <1>2, <1>4, IStates
  <2>4. IMoved(Words)'
    BY <1>2, <2>2, IMovedKept, SizesAssumption
  <2> QED
    BY <1>1, <1>2, <2>2, <2>3, <2>4 DEF IBridgeInv
<1> QED
  BY <1>3, <1>4

LEMMA IBridgeStep ==
  ASSUME PathInv, NEW access, NEW instr, Clock(access, instr)
  PROVE  IBridgeInv'
BY IBridgeStart, IBridgeAwait, IWordRead, IBridgeEnd DEF PathInv, IBridgeInv

-----------------------------------------------------------------------------
(* The invariant of the whole.                                             *)

LEMMA LsuStep ==
  ASSUME PathInv, NEW access \in Accesses \cup {None},
         NEW instr \in Fetches \cup {None}, Clock(access, instr)
  PROVE  LsuInv'
<1>1. /\ access # None => lsu = None
      /\ lsu' = IF access # None THEN access ELSE IF lsu_rvalid THEN None ELSE lsu
      /\ fetch' = IF instr # None THEN instr
                  ELSE IF i_state = "HIT" THEN None ELSE fetch
  BY DEF Clock, LsuClock, FetchClock, I!cache_hit_o
<1>2. (lsu' # None => lsu' \in Accesses) /\ (fetch' # None => fetch' \in Fetches)
  BY <1>1 DEF PathInv, LsuInv
<1>3. UncachedPending' => mmperiph' = lsu'
  <2>1. Mux!Capture(ToBus(access)) /\ Mux!Arbitrate(ib_bram_req_o, db_bram_req_o)
    BY BusClocks
  <2>2. CASE ToBus(access) # None
    BY <1>1, <2>1, <2>2 DEF Mux!Capture, ToBus
  <2>3. CASE ToBus(access) = None /\ access # None
    <3>1. ~UncachedPending
      BY <1>1, <2>3 DEF PathInv, PortsInv
    <3> QED
      BY <2>1, <2>3, <3>1 DEF Mux!Capture, Mux!Arbitrate, UncachedPending
  <2>4. CASE access = None
    <3>1. ToBus(access) = None
      BY <2>4 DEF ToBus
    <3>2. UncachedPending' =>
            UncachedPending /\ ~(state = "MMPERIPH_TRANSACTION" /\ Mux!ahb_rvalid)
      BY <2>1, <3>1 DEF Mux!Capture, Mux!Arbitrate, UncachedPending
    <3>3. UncachedPending' => ~lsu_rvalid
      <4>1. UncachedPending => d_state # "HIT"
        BY DEF PathInv, PortsInv, ToCache
      <4> QED
        BY <3>2, <4>1 DEF lsu_rvalid, Mux!lsu_rvalid_o, D!cache_hit_o
    <3> QED
      BY <1>1, <2>1, <2>4, <3>1, <3>2, <3>3 DEF Mux!Capture, PathInv, LsuInv
  <2> QED
    BY <2>2, <2>3, <2>4
<1> QED
  BY <1>2, <1>3 DEF LsuInv

LEMMA PathInit == Init => PathInv
<1> SUFFICES ASSUME Init PROVE PathInv
  OBVIOUS
<1>1. PortsInv
  BY PortsInit
<1>2. LsuInv
  BY DEF Init, Mux!MuxInit, LsuInv, UncachedPending
<1>3. BusInv
  BY TxnIs DEF Init, Mux!MuxInit, Mux!SlavesInit, BusInv, BusStates, Quiet
<1>4. MemoryInv
  BY MemoryMap DEF Init, Mux!MuxInit, Mux!SlavesInit, MemoryInv
<1>5. DBridgeInv
  BY DEF Init, DB!BridgeInit, DB!NoWords, Mux!MuxInit, DBridgeInv, Offsets
<1>6. IBridgeInv
  BY DEF Init, IB!BridgeInit, IB!NoWords, Mux!MuxInit, IBridgeInv, Offsets
<1>7. DLinesInv
  <2>1. 0 \in D!Line
    BY SizesAssumption DEF D!Line
  <2> QED
    BY <2>1 DEF Init, D!CacheInit, D!Empty, DLinesInv, DLineInv, OneWay
<1>8. ILinesInv
  <2>1. 0 \in I!Line
    BY SizesAssumption DEF I!Line
  <2> QED
    BY <2>1 DEF Init, I!CacheInit, I!Empty, ILinesInv, ILineInv, OneWay
<1>9. DWorkInv /\ IWorkInv
  BY DEF Init, D!CacheInit, I!CacheInit, DWorkInv, IWorkInv, CacheStates
<1> QED
  BY <1>1, <1>2, <1>3, <1>4, <1>5, <1>6, <1>7, <1>8, <1>9 DEF PathInv

LEMMA PathStep ==
  ASSUME PathInv, NEW access \in Accesses \cup {None},
         NEW instr \in Fetches \cup {None}, Clock(access, instr)
  PROVE  PathInv'
<1>1. PortsInv'
  BY PortsStep DEF PathInv
<1> QED
  BY <1>1, LsuStep, BusStep, MemoryStep, DBridgeStep, DLinesStep, DWorkStep,
     IBridgeStep, ILinesStep DEF PathInv

LEMMA PathStutter == PathInv /\ UNCHANGED vars => PathInv'
<1> SUFFICES ASSUME PathInv, UNCHANGED vars PROVE PathInv'
  OBVIOUS
<1> USE DEF vars, D!cacheVars, I!cacheVars, DB!bridgeVars, IB!bridgeVars,
            Mux!muxVars, Mux!slaveVars
<1>1. PortsInv' /\ LsuInv' /\ MemoryInv'
  BY PortsStutter DEF PathInv, LsuInv, MemoryInv, UncachedPending
<1>2. BusInv'
  BY DEF PathInv, BusInv, Txn, Mux!Selected, Quiet, Phase, Requested, Waiting,
         Enabled, Reached
<1>3. DBridgeInv'
  BY DEF PathInv, DBridgeInv, DMoved, D!mem_address, D!mem_dout
<1>4. IBridgeInv'
  BY DEF PathInv, IBridgeInv, IMoved
<1>5. DLinesInv' /\ ILinesInv'
  BY DEF PathInv, DLinesInv, DLineInv, Backed, OneWay, ILinesInv, ILineInv
<1>6. DWorkInv' /\ IWorkInv'
  BY DEF PathInv, DWorkInv, D!hits, D!set, D!victim, Backed, IWorkInv, I!hits, I!set
<1> QED
  BY <1>1, <1>2, <1>3, <1>4, <1>5, <1>6 DEF PathInv

\* The inductive invariant of the memory path: a line is in at most one way,
\* a clean line is what memory holds, a bridge has moved the words before the
\* one it is at, and the bus serves one transfer in its phases.
THEOREM PathInvHolds == Spec => []PathInv
<1>1. PathInv /\ [Next]_vars => PathInv'
  BY PathStep, PathStutter DEF Next
<1> QED
  BY <1>1, PathInit, PTL DEF Spec

-----------------------------------------------------------------------------
(* The memory the core sees does not change behind its back.               *)

LEMMA CachedIs ==
  ASSUME PathInv, NEW a \in Memory
  PROVE  /\ a.set \in Sets /\ a.word \in Offsets
         /\ Cached(a) \subseteq D!Line
         /\ \A w \in Cached(a) : Cached(a) = {w}
         /\ \A w \in Cached(a) : Held(a) = d_cache_set[a.set][w].data[a.word]
         /\ Cached(a) = {} => Held(a) = bram[a]
<1>1. a.set \in Sets /\ a.word \in Offsets /\ a \notin Uncached
  BY Lines
<1>2. ASSUME NEW w \in Cached(a) PROVE Cached(a) = {w}
  <2>1. OneWay(d_cache_set[a.set]) /\ DOMAIN d_cache_set[a.set] = D!Line
    BY <1>1 DEF PathInv, DLinesInv
  <2> QED
    BY <2>1 DEF Cached, OneWay
<1>3. ASSUME NEW w \in Cached(a)
      PROVE  Held(a) = d_cache_set[a.set][w].data[a.word]
  BY <1>1, <1>2 DEF Held
<1> QED
  BY <1>1, <1>2, <1>3 DEF Cached, Held

\* Lines that stay and memory that stays.
LEMMA HeldKept ==
  ASSUME PathInv, NEW a \in Memory, PathInv',
         Cached(a)' = Cached(a),
         \A w \in Cached(a) :
           d_cache_set'[a.set][w].data[a.word] = d_cache_set[a.set][w].data[a.word],
         Cached(a) = {} => bram'[a] = bram[a]
  PROVE  Held(a)' = Held(a)
<1>1. a \notin Uncached
  BY Lines
<1>2. CASE Cached(a) = {}
  BY <1>1, <1>2 DEF Held
<1>3. ASSUME NEW w \in Cached(a) PROVE Held(a)' = Held(a)
  <2>1. Cached(a) = {w}
    BY CachedIs
  <2> QED
    BY <1>1, <2>1 DEF Held
<1> QED
  BY <1>2, <1>3

-----------------------------------------------------------------------------
(* A clock changes a word only if it is being stored.                      *)

LEMMA HeldAt ==
  ASSUME NEW a \in Memory
  PROVE  /\ \A w : Cached(a)' = {w} => Held(a)' = d_cache_set'[a.set][w].data[a.word]
         /\ Cached(a)' = {} => Held(a)' = bram'[a]
<1>1. a \notin Uncached
  BY Lines
<1> QED
  BY <1>1 DEF Held

LEMMA HeldIdle ==
  ASSUME PathInv, PathInv', NEW access, NEW instr, Clock(access, instr),
         d_request = None, NEW a \in Memory
  PROVE  Held(a)' = Held(a)
<1>1. d_state = "IDLE" /\ d_cache_set' = d_cache_set
  BY DIdleClock
<1>2. Cached(a)' = Cached(a)
  BY <1>1 DEF Cached
<1>3. bram'[a] = bram[a]
  <2>1. a \notin Uncached /\ a \in DOMAIN bram
    BY Lines DEF PathInv, MemoryInv
  <2> QED
    BY <1>1, <2>1, Writers
<1> QED
  BY <1>1, <1>2, <1>3, HeldKept

LEMMA HeldHit ==
  ASSUME PathInv, PathInv', NEW access, NEW instr, Clock(access, instr),
         d_request # None, NEW w \in D!hits, NEW a \in Memory
  PROVE  Held(a)' = IF Stored(a) THEN Merged(Held(a)) ELSE Held(a)
<1> DEFINE s == d_request.addr.set
           c == d_cache_set[s][w]
<1>1. /\ d_request = lsu /\ lsu.addr \in Memory /\ lsu # None /\ lsu.we \in BOOLEAN
  BY CachedAccess DEF PathInv, PortsInv
<1>2. /\ s \in Sets /\ w \in D!Line /\ c.valid /\ c.tag = lsu.addr.tag
      /\ DOMAIN d_cache_set = Sets /\ DOMAIN d_cache_set[s] = D!Line
      /\ DOMAIN c.data = Offsets
  <2>1. s \in Sets /\ w \in D!Line /\ c.valid /\ c.tag = lsu.addr.tag
    BY <1>1, DCurrent
  <2> QED
    BY <2>1 DEF PathInv, DLinesInv, DLineInv
<1>3. /\ bram' = bram
      /\ d_cache_set' =
           IF lsu.we
           THEN [d_cache_set EXCEPT ![s][w] =
                  [tag |-> lsu.addr.tag, valid |-> TRUE, dirty |-> TRUE,
                   data |-> [c.data EXCEPT ![lsu.addr.word] = D!Written(@)]]]
           ELSE d_cache_set
  BY <1>1, DHitClock
<1> HIDE DEF s, c
<1>4. CASE ~lsu.we
  <2>1. Cached(a)' = Cached(a)
    BY <1>3, <1>4 DEF Cached
  <2> QED
    BY <1>3, <1>4, <2>1, HeldKept DEF Stored
<1>5. CASE lsu.we
  <2> DEFINE line == [tag |-> lsu.addr.tag, valid |-> TRUE, dirty |-> TRUE,
                      data |-> [c.data EXCEPT ![lsu.addr.word] = D!Written(@)]]
  <2>1. /\ line.valid = TRUE /\ line.tag = lsu.addr.tag
        /\ line.data = [c.data EXCEPT ![lsu.addr.word] = D!Written(c.data[lsu.addr.word])]
    OBVIOUS
  <2> HIDE DEF line
  <2>2. d_cache_set' = [d_cache_set EXCEPT ![s][w] = line]
    BY <1>3, <1>5 DEF line
  <2>3. /\ d_cache_set'[s][w] = line
        /\ \A t \in Sets, v \in D!Line :
             t # s \/ v # w => d_cache_set'[t][v] = d_cache_set[t][v]
    BY <1>2, <2>2
  <2>4. /\ a.set \in Sets /\ a.word \in Offsets /\ a = WordOf(a, a.word)
        /\ lsu.addr = WordOf(lsu.addr, lsu.addr.word) /\ lsu.addr.word \in Offsets
        /\ s = lsu.addr.set
    BY <1>1, Lines DEF s
  <2>5. Cached(a)' = Cached(a)
    <3>1. \A v \in D!Line : /\ d_cache_set'[a.set][v].valid <=> d_cache_set[a.set][v].valid
                            /\ d_cache_set'[a.set][v].tag = d_cache_set[a.set][v].tag
      BY <1>2, <2>1, <2>3, <2>4 DEF c
    <3> QED
      BY <3>1 DEF Cached
  <2>6. CASE a = lsu.addr
    <3>1. w \in Cached(a)
      BY <1>2, <2>4, <2>6 DEF Cached, c
    <3>2. Cached(a) = {w} /\ Held(a) = d_cache_set[a.set][w].data[a.word]
      BY <3>1, CachedIs
    <3>3. Held(a)' = d_cache_set'[a.set][w].data[a.word]
      BY <2>5, <3>2, HeldAt
    <3>4. Held(a)' = D!Written(c.data[lsu.addr.word]) /\ Held(a) = c.data[lsu.addr.word]
      BY <1>2, <2>1, <2>3, <2>4, <2>6, <3>2, <3>3 DEF c
    <3> QED
      BY <1>1, <1>5, <2>6, <3>4 DEF Stored, Merged, D!Written
  <2>7. CASE a # lsu.addr
    <3>1. ASSUME NEW v \in Cached(a)
          PROVE  d_cache_set'[a.set][v].data[a.word] = d_cache_set[a.set][v].data[a.word]
      <4>1. v \in D!Line /\ d_cache_set[a.set][v].tag = a.tag
        BY DEF Cached
      <4>2. CASE a.set # s \/ v # w
        BY <2>3, <2>4, <4>1, <4>2
      <4>3. CASE a.set = s /\ v = w
        <5>1. a.tag = lsu.addr.tag /\ a.set = lsu.addr.set
          BY <1>2, <2>4, <4>1, <4>3 DEF c
        <5>2. a.word # lsu.addr.word
          BY <2>4, <2>7, <5>1 DEF WordOf
        <5> QED
          BY <1>2, <2>1, <2>3, <2>4, <4>3, <5>2 DEF c
      <4> QED
        BY <4>2, <4>3
    <3> QED
      BY <1>3, <2>5, <2>7, <3>1, HeldKept DEF Stored
  <2> QED
    BY <2>6, <2>7
<1> QED
  BY <1>1, <1>4, <1>5

\* A word of the victim is in the cache while memory is written.
LEMMA HeldWait ==
  ASSUME PathInv, PathInv', NEW access, NEW instr, Clock(access, instr),
         d_request # None, D!hits = {}, d_state # "MISS" \/ ~db_rvalid_o,
         NEW a \in Memory
  PROVE  Held(a)' = Held(a)
<1>1. d_cache_set' = d_cache_set
  BY DMissClock
<1>2. Cached(a)' = Cached(a)
  BY <1>1 DEF Cached
<1>3. ASSUME Cached(a) = {} PROVE bram'[a] = bram[a]
  <2>1. CASE d_state # "WBACK"
    BY <2>1, NoWrite
  <2>2. CASE d_state = "WBACK"
    <3> DEFINE s == d_request.addr.set
               v == d_next_evict_line[s]
    <3>1. /\ s \in Sets /\ v \in D!Line /\ d_cache_set[s][v].valid
          /\ \A n : WordOf(D!mem_address, n) = Cell(d_cache_set[s][v].tag, s, n)
      BY <2>2, VictimLine
    <3> HIDE DEF s, v
    <3>2. \A k \in Offsets : a # WordOf(D!mem_address, k)
      BY <1>3, <3>1 DEF Cached, Cell
    <3>3. a \in DOMAIN bram /\ a \notin Uncached
      BY Lines DEF PathInv, MemoryInv
    <3> QED
      BY <3>2, <3>3, Writers
  <2> QED
    BY <2>1, <2>2
<1> QED
  BY <1>1, <1>2, <1>3, HeldKept

LEMMA HeldFill ==
  ASSUME PathInv, PathInv', NEW access, NEW instr, Clock(access, instr),
         d_request # None, D!hits = {}, d_state = "MISS", db_rvalid_o,
         NEW a \in Memory
  PROVE  Held(a)' = Held(a)
<1> DEFINE s == d_request.addr.set
           v == d_next_evict_line[s]
           c == d_cache_set[s][v]
           line == [tag |-> d_request.addr.tag, valid |-> TRUE, dirty |-> FALSE,
                    data |-> db_rdata]
<1>1. /\ bram' = bram /\ d_cache_set' = [d_cache_set EXCEPT ![s][v] = line]
  BY DMissClock, NoWrite
<1>2. /\ s \in Sets /\ v \in D!Line
      /\ DOMAIN d_cache_set = Sets /\ DOMAIN d_cache_set[s] = D!Line
      /\ c.valid => Backed(c, s)
  <2>1. s \in Sets
    BY DCurrent
  <2> QED
    BY <2>1 DEF PathInv, DLinesInv, DWorkInv, D!set, D!victim
<1>3. \A n \in Offsets : db_rdata[n] = bram[Cell(d_request.addr.tag, s, n)]
  <2>1. db_state = "DONE" /\ ~db_we_o /\ DMoved(Words)
    BY DEF PathInv, DBridgeInv
  <2> QED
    BY <2>1 DEF DMoved, Offsets, D!mem_address, WordOf, Cell
<1>4. line.valid = TRUE /\ line.tag = d_request.addr.tag /\ line.data = db_rdata
  OBVIOUS
<1>5. /\ a.set \in Sets /\ a.word \in Offsets /\ a = Cell(a.tag, a.set, a.word)
  BY Lines DEF WordOf, Cell
<1>6. s = a.set => (d_request.addr.tag = a.tag <=> Cached(a) = {} /\ d_request.addr.tag = a.tag)
  BY DCurrent DEF Cached
<1> HIDE DEF s, v, c, line
<1>7. /\ d_cache_set'[s][v] = line
      /\ \A t \in Sets, w \in D!Line :
           t # s \/ w # v => d_cache_set'[t][w] = d_cache_set[t][w]
  BY <1>1, <1>2
<1>8. CASE a.set = s /\ a.tag = d_request.addr.tag
  <2>1. Cached(a) = {}
    BY <1>6, <1>8
  <2>2. Cached(a)' = {v}
    BY <1>2, <1>4, <1>7, <1>8, <2>1 DEF Cached
  <2>3. Held(a)' = db_rdata[a.word] /\ Held(a) = bram[a]
    BY <1>4, <1>7, <1>8, <2>1, <2>2, HeldAt, CachedIs
  <2> QED
    BY <1>3, <1>5, <1>8, <2>3
<1>9. CASE a.set = s /\ a.tag # d_request.addr.tag /\ v \in Cached(a)
  <2>1. Cached(a) = {v} /\ Held(a) = c.data[a.word]
    BY <1>9, CachedIs DEF c
  <2>2. Cached(a)' = {}
    BY <1>4, <1>7, <1>9, <1>2, <2>1 DEF Cached
  <2>3. c.valid /\ c.tag = a.tag
    BY <1>9 DEF Cached, c
  <2>4. Held(a) = bram[a]
    BY <1>2, <1>5, <1>9, <2>1, <2>3 DEF Backed
  <2> QED
    BY <1>1, <2>2, <2>4, HeldAt
<1>10. CASE a.set # s \/ (a.tag # d_request.addr.tag /\ v \notin Cached(a))
  <2>1. Cached(a)' = Cached(a)
    BY <1>2, <1>4, <1>5, <1>7, <1>10 DEF Cached
  <2>2. \A w \in Cached(a) : d_cache_set'[a.set][w] = d_cache_set[a.set][w]
    BY <1>2, <1>5, <1>7, <1>10 DEF Cached
  <2> QED
    BY <1>1, <2>1, <2>2, HeldKept
<1> QED
  BY <1>8, <1>9, <1>10

\* A word of a peripheral is written by the store to it alone, in its data
\* phase, and the store is answered when it is there.
LEMMA HeldUncached ==
  ASSUME PathInv, NEW access, NEW instr, Clock(access, instr),
         NEW a \in DOMAIN Initial, a \in Uncached
  PROVE  /\ ~Stored(a) => Held(a)' = Held(a)
         /\ Stored(a) => Held(a)' = Held(a) \/ Held(a)' = Merged(Held(a))
         /\ Stored(a) /\ lsu' = None => Held(a)' = Merged(Held(a))
<1>1. Held(a) = bram[a] /\ Held(a)' = bram'[a] /\ a \in DOMAIN bram /\ a \notin Memory
  BY DEF Held, PathInv, MemoryInv, Memory
<1>2. ASSUME Stored(a)
      PROVE  /\ Merged(bram[a]) = lsu.data
             /\ lsu # None /\ lsu.we /\ lsu.addr = a /\ d_request = None
  <2>1. lsu \in Accesses /\ lsu # None /\ lsu.we /\ lsu.addr = a
    BY <1>2 DEF Stored, PathInv, LsuInv
  <2>2. /\ lsu.be = DOMAIN Initial[a] /\ lsu.data = [l \in lsu.be |-> lsu.data[l]]
        /\ DOMAIN bram[a] = DOMAIN Initial[a]
    BY <2>1, PortsAssumption DEF PathInv, MemoryInv
  <2>3. Merged(bram[a]) = [l \in lsu.be |-> lsu.data[l]]
    BY <2>2 DEF Merged
  <2> QED
    BY <2>1, <2>2, <2>3 DEF PathInv, PortsInv, ToCache
<1>3. ASSUME d_state = "WBACK", NEW k \in Offsets
      PROVE  a # WordOf(D!mem_address, k)
  BY <1>1, <1>3, DLineInMemory DEF PathInv
<1>4. ~Stored(a) => bram'[a] = bram[a]
  <2>1. CASE lsu.we /\ lsu.addr = a /\ state = "MMPERIPH_TRANSACTION"
    BY <2>1 DEF Stored, PathInv, PortsInv, UncachedPending
  <2>2. CASE ~(lsu.we /\ lsu.addr = a /\ state = "MMPERIPH_TRANSACTION")
    BY <1>1, <1>3, <2>2, Writers
  <2> QED
    BY <2>1, <2>2
<1>5. Stored(a) => bram'[a] = bram[a] \/ bram'[a] = lsu.data
  BY <1>1, <1>2, <1>3, Writers
<1>6. Stored(a) /\ lsu' = None => bram'[a] = lsu.data
  <2> SUFFICES ASSUME Stored(a), lsu' = None PROVE bram'[a] = lsu.data
    OBVIOUS
  <2>1. lsu_rvalid
    BY <1>2 DEF Clock, LsuClock
  <2>2. d_state = "IDLE"
    BY <1>2 DEF PathInv, PortsInv
  <2>3. state = "MMPERIPH_TRANSACTION" /\ Mux!ahb_rvalid
    BY <2>1, <2>2 DEF lsu_rvalid, Mux!lsu_rvalid_o, D!cache_hit_o
  <2>4. mmperiph = lsu
    BY <2>3 DEF PathInv, LsuInv, UncachedPending
  <2> QED
    BY <1>2, <2>3, <2>4, TxnIs, BusStep
<1> QED
  BY <1>1, <1>2, <1>4, <1>5, <1>6

LEMMA HeldStep ==
  ASSUME PathInv, PathInv', NEW access, NEW instr, Clock(access, instr),
         NEW a \in DOMAIN Initial
  PROVE  /\ ~Stored(a) => Held(a)' = Held(a)
         /\ Stored(a) => Held(a)' = Held(a) \/ Held(a)' = Merged(Held(a))
         /\ Stored(a) /\ lsu' = None => Held(a)' = Merged(Held(a))
<1>1. CASE a \in Uncached
  BY <1>1, HeldUncached
<1>2. CASE a \notin Uncached
  <2>1. a \in Memory
    BY <1>2 DEF Memory
  <2>2. CASE d_request = None
    <3>1. ~Stored(a)
      BY <1>2, <2>2 DEF PathInv, PortsInv, ToCache, Stored
    <3> QED
      BY <2>1, <2>2, <3>1, HeldIdle
  <2>3. ASSUME d_request # None, NEW w \in D!hits
        PROVE  Held(a)' = IF Stored(a) THEN Merged(Held(a)) ELSE Held(a)
    BY <2>1, <2>3, HeldHit
  <2>4. CASE d_request # None /\ D!hits = {}
    <3>1. Held(a)' = Held(a)
      BY <2>1, <2>4, HeldWait, HeldFill
    <3>2. lsu' = lsu /\ lsu # None
      <4>1. d_state # "HIT"
        BY <2>4 DEF PathInv, DWorkInv
      <4> QED
        BY <2>4, <4>1, DHold, CachedAccess DEF PathInv
    <3> QED
      BY <3>1, <3>2
  <2> QED
    BY <2>2, <2>3, <2>4
<1> QED
  BY <1>1, <1>2

\* Storing a word twice is storing it once.
LEMMA MergedTwice ==
  ASSUME NEW word
  PROVE  Merged(Merged(word)) = Merged(word)
BY DEF Merged

LEMMA Seen ==
  ASSUME PathInv
  PROVE  /\ DOMAIN SeenMemory = DOMAIN Initial
         /\ \A a \in DOMAIN Initial :
              SeenMemory[a] = IF Stored(a) THEN Merged(Held(a)) ELSE Held(a)
<1>1. DOMAIN bram = DOMAIN Initial
  BY DEF PathInv, MemoryInv
<1> QED
  BY <1>1 DEF SeenMemory

\* An access under way, answered or not, changes nothing.
LEMMA SeenKept ==
  ASSUME PathInv, PathInv', NEW access, NEW instr, Clock(access, instr),
         lsu' = lsu \/ lsu' = None
  PROVE  SeenMemory' = SeenMemory
<1>1. DOMAIN bram = DOMAIN Initial /\ DOMAIN bram' = DOMAIN Initial
  BY DEF PathInv, MemoryInv
<1>2. ASSUME NEW a \in DOMAIN Initial
      PROVE  (IF Stored(a) THEN Merged(Held(a)) ELSE Held(a))' =
               IF Stored(a) THEN Merged(Held(a)) ELSE Held(a)
  <2>1. CASE lsu' = None
    <3>1. ~Stored(a)'
      BY <2>1 DEF Stored
    <3> QED
      BY <2>1, <3>1, HeldStep
  <2>2. CASE lsu' = lsu
    <3>1. Stored(a)' <=> Stored(a)
      BY <2>2 DEF Stored
    <3>2. Merged(Held(a))' = [l \in DOMAIN Held(a)' |->
                                IF l \in lsu.be THEN lsu.data[l] ELSE Held(a)'[l]]
      BY <2>2 DEF Merged
    <3>3. Held(a)' = Held(a) => Merged(Held(a))' = Merged(Held(a))
      BY <3>2 DEF Merged
    <3>4. Held(a)' = Merged(Held(a)) => Merged(Held(a))' = Merged(Held(a))
      BY <3>2, MergedTwice DEF Merged
    <3> QED
      BY <3>1, <3>3, <3>4, HeldStep
  <2> QED
    BY <2>1, <2>2
<1> QED
  BY <1>1, <1>2 DEF SeenMemory

\* A store takes effect where it is issued.
LEMMA SeenIssue ==
  ASSUME PathInv, PathInv', NEW access \in Accesses, NEW instr,
         Clock(access, instr), lsu = None, lsu' = access
  PROVE  SeenMemory' = IF access.we
                         THEN [SeenMemory EXCEPT
                                 ![access.addr] = Linear!Merge(@, access)]
                         ELSE SeenMemory
<1>1. /\ DOMAIN bram = DOMAIN Initial /\ DOMAIN bram' = DOMAIN Initial
      /\ access # None /\ access.we \in BOOLEAN
  BY PortsAssumption DEF PathInv, MemoryInv
<1>2. ASSUME NEW a \in DOMAIN Initial
      PROVE  /\ ~Stored(a) /\ Held(a)' = Held(a)
             /\ Stored(a)' <=> access.we /\ access.addr = a
             /\ Merged(Held(a))' = Linear!Merge(Held(a), access)
  <2>1. ~Stored(a) /\ Held(a)' = Held(a)
    BY HeldStep DEF Stored
  <2>2. Stored(a)' <=> access.we /\ access.addr = a
    BY <1>1 DEF Stored
  <2>3. Merged(Held(a))' = Linear!Merge(Held(a), access)
    BY <2>1 DEF Merged, Linear!Merge
  <2> QED
    BY <2>1, <2>2, <2>3
<1>3. SeenMemory = [a \in DOMAIN Initial |-> Held(a)]
  BY <1>1, <1>2 DEF SeenMemory
<1>4. SeenMemory' = [a \in DOMAIN Initial |->
                       IF access.we /\ access.addr = a
                       THEN Linear!Merge(Held(a), access) ELSE Held(a)]
  BY <1>1, <1>2 DEF SeenMemory
<1> QED
  BY <1>1, <1>3, <1>4

-----------------------------------------------------------------------------
(* What the ports are answered.                                            *)

LEMMA LoadAnswer ==
  ASSUME PathInv, NEW access, NEW instr, Clock(access, instr),
         lsu_rvalid, lsu # None, ~lsu.we
  PROVE  lsu_rdata' = SeenMemory[lsu.addr]
<1>1. lsu \in Accesses /\ lsu.addr \in DOMAIN Initial
  BY PortsAssumption DEF PathInv, LsuInv
<1>2. SeenMemory[lsu.addr] = Held(lsu.addr)
  BY <1>1, Seen DEF Stored
<1>3. lsu_rdata' = IF state = "MMPERIPH_TRANSACTION" THEN Mux!ahb_rdata ELSE D!cpu_dout
  BY DEF Clock, LsuClock
<1>4. CASE state = "MMPERIPH_TRANSACTION"
  <2>1. mmperiph = lsu /\ lsu.addr \in Uncached
    BY <1>4 DEF PathInv, PortsInv, LsuInv, UncachedPending
  <2>2. Mux!ahb_rvalid
    BY <1>4 DEF lsu_rvalid, Mux!lsu_rvalid_o
  <2>3. Mux!ahb_rdata = bram[lsu.addr]
    BY <1>4, <2>1, <2>2, TxnIs, BusStep
  <2> QED
    BY <1>2, <1>3, <1>4, <2>1, <2>3 DEF Held
<1>5. CASE state # "MMPERIPH_TRANSACTION"
  <2>1. d_state = "HIT" /\ d_request = lsu /\ lsu.addr \in Memory
    <3>1. d_state = "HIT" /\ d_request # None
      BY <1>5 DEF lsu_rvalid, Mux!lsu_rvalid_o, D!cache_hit_o, PathInv, PortsInv
    <3> QED
      BY <3>1, CachedAccess DEF PathInv
  <2>2. PICK w \in D!hits : D!current_line = w
    BY <2>1, DCurrent DEF PathInv, DWorkInv
  <2>3. w \in Cached(lsu.addr)
    BY <2>1, <2>2, DCurrent DEF Cached
  <2> QED
    BY <1>2, <1>3, <1>5, <2>1, <2>2, <2>3, CachedIs DEF D!cpu_dout, D!set
<1> QED
  BY <1>4, <1>5

\* A line of code is clean, and no store to it is under way.
LEMMA CodeIsSeen ==
  ASSUME PathInv, NEW f \in Fetches
  PROVE  SeenMemory[f.addr] = Initial[f.addr]
<1> DEFINE a == f.addr
<1>1. /\ a \in Memory /\ a \in DOMAIN Initial /\ a.set \in Sets /\ a.word \in Offsets
      /\ a = WordOf(a, a.word) /\ a = Cell(a.tag, a.set, a.word)
  <2>1. a \in Memory
    BY PortsAssumption
  <2> QED
    BY <2>1, Lines DEF WordOf, Cell
<1>2. ~Stored(a)
  BY CodeIsNotWritten DEF Stored, PathInv, LsuInv
<1>3. bram[a] = Initial[a]
  BY <1>1 DEF PathInv, MemoryInv
<1>4. ASSUME NEW w \in Cached(a) PROVE Held(a) = bram[a]
  <2> DEFINE c == d_cache_set[a.set][w]
  <2>1. /\ w \in D!Line /\ c.valid /\ c.tag = a.tag
        /\ Held(a) = c.data[a.word]
    BY <1>1, CachedIs DEF Cached
  <2>2. DLineInv(c, a.set)
    BY <1>1, <2>1 DEF PathInv, DLinesInv
  <2>3. ~c.dirty
    <3>1. c.dirty => \E x \in Accesses : x.we /\ x.addr.tag = c.tag /\ x.addr.set = a.set
      BY <2>2 DEF DLineInv
    <3> QED
      BY <2>1, <3>1, CodeIsNotWritten
  <2>4. Backed(c, a.set)
    BY <2>1, <2>2, <2>3 DEF DLineInv
  <2> QED
    BY <1>1, <2>1, <2>4 DEF Backed
<1>5. Held(a) = bram[a]
  BY <1>1, <1>4, CachedIs
<1> QED
  BY <1>1, <1>2, <1>3, <1>5, Seen

LEMMA FetchAnswer ==
  ASSUME PathInv, NEW access, NEW instr, Clock(access, instr),
         i_state = "HIT", fetch # None
  PROVE  instr_rdata' = SeenMemory[fetch.addr]
<1>1. i_request = fetch /\ fetch \in Fetches /\ i_request # None /\ I!hits # {}
  BY DEF PathInv, PortsInv, LsuInv, IWorkInv
<1>2. instr_rdata' = I!cpu_dout
  BY <1>1 DEF Clock, FetchClock, I!cache_hit_o
<1>3. /\ fetch.addr.set \in Sets /\ fetch.addr.word \in Offsets
      /\ fetch.addr = Cell(fetch.addr.tag, fetch.addr.set, fetch.addr.word)
  <2>1. fetch.addr \in Memory
    BY <1>1, PortsAssumption
  <2> QED
    BY <2>1, Lines DEF WordOf, Cell
<1>4. PICK w \in I!hits : I!current_line = w
  BY <1>1, ICurrent
<1> DEFINE c == i_cache_set[fetch.addr.set][w]
<1>5. w \in I!Line /\ c.valid /\ c.tag = fetch.addr.tag
  BY <1>1, <1>4 DEF I!hits, I!set
<1>6. ILineInv(c, fetch.addr.set)
  BY <1>3, <1>5 DEF PathInv, ILinesInv
<1>7. c.data[fetch.addr.word] = Initial[fetch.addr]
  BY <1>3, <1>5, <1>6 DEF ILineInv
<1> QED
  BY <1>1, <1>2, <1>4, <1>7, CodeIsSeen DEF I!cpu_dout, I!set

-----------------------------------------------------------------------------
(* The refinement.                                                         *)

LEMMA LinearInit == Init => Linear!Init
<1> SUFFICES ASSUME Init PROVE Linear!Init
  OBVIOUS
<1>1. bram = Initial /\ lsu = None
  BY DEF Init, Mux!MuxInit, Mux!SlavesInit
<1>2. ASSUME NEW a \in DOMAIN Initial PROVE ~Stored(a) /\ Held(a) = Initial[a]
  <2>1. a \notin Uncached => Cached(a) = {}
    <3>1. a \notin Uncached => a.set \in Sets
      BY Lines DEF Memory
    <3> QED
      BY <3>1 DEF Init, D!CacheInit, D!Empty, Cached
  <2> QED
    BY <1>1, <2>1 DEF Held, Stored
<1>3. SeenMemory = Initial
  <2>1. SeenMemory = [a \in DOMAIN Initial |-> Initial[a]]
    BY <1>1, <1>2 DEF SeenMemory
  <2> QED
    BY <2>1, MemoryMap
<1> QED
  BY <1>3 DEF Init, Linear!Init

LEMMA LinearData ==
  ASSUME PathInv, PathInv', NEW access \in Accesses \cup {None},
         NEW instr \in Fetches \cup {None}, Clock(access, instr)
  PROVE  \/ Linear!IssueAccess \/ Linear!AnswerAccess
         \/ SeenMemory' = SeenMemory /\ lsu' = lsu /\ lsu_rdata' = None
<1>1. /\ access # None => lsu = None
      /\ lsu' = IF access # None THEN access ELSE IF lsu_rvalid THEN None ELSE lsu
      /\ ~(lsu_rvalid /\ lsu # None /\ ~lsu.we) => lsu_rdata' = None
  BY DEF Clock, LsuClock
<1>2. lsu # None => lsu.we \in BOOLEAN
  BY PortsAssumption DEF PathInv, LsuInv
<1>3. CASE access # None
  <2>1. access \in Accesses /\ lsu = None /\ lsu' = access /\ lsu_rdata' = None
    BY <1>1, <1>3
  <2>2. Linear!IssueAccess
    BY <2>1, SeenIssue DEF Linear!IssueAccess
  <2> QED
    BY <2>2
<1>4. CASE access = None /\ lsu_rvalid /\ lsu # None
  <2>1. lsu' = None /\ SeenMemory' = SeenMemory
    BY <1>1, <1>4, SeenKept
  <2>2. lsu_rdata' = IF lsu.we THEN None ELSE SeenMemory[lsu.addr]
    BY <1>1, <1>2, <1>4, LoadAnswer
  <2>3. Linear!AnswerAccess
    BY <1>4, <2>1, <2>2 DEF Linear!AnswerAccess
  <2> QED
    BY <2>3
<1>5. CASE access = None /\ ~(lsu_rvalid /\ lsu # None)
  <2>1. lsu' = lsu /\ lsu_rdata' = None
    BY <1>1, <1>5
  <2> QED
    BY <2>1, SeenKept
<1> QED
  BY <1>3, <1>4, <1>5

LEMMA LinearCode ==
  ASSUME PathInv, NEW access, NEW instr \in Fetches \cup {None}, Clock(access, instr)
  PROVE  \/ Linear!IssueFetch \/ Linear!AnswerFetch
         \/ fetch' = fetch /\ instr_rdata' = None
<1>1. /\ instr # None => fetch = None
      /\ fetch' = IF instr # None THEN instr
                  ELSE IF i_state = "HIT" THEN None ELSE fetch
      /\ ~(i_state = "HIT" /\ fetch # None) => instr_rdata' = None
  BY DEF Clock, FetchClock, I!cache_hit_o
<1>2. CASE instr # None
  BY <1>1, <1>2 DEF Linear!IssueFetch
<1>3. CASE instr = None /\ i_state = "HIT" /\ fetch # None
  BY <1>1, <1>3, FetchAnswer DEF Linear!AnswerFetch
<1>4. CASE instr = None /\ ~(i_state = "HIT" /\ fetch # None)
  BY <1>1, <1>4
<1> QED
  BY <1>2, <1>3, <1>4

LEMMA LinearStep ==
  ASSUME PathInv, PathInv', [Next]_vars
  PROVE  [Linear!Next]_Linear!vars
<1>1. CASE UNCHANGED vars
  <2>1. /\ bram' = bram /\ d_cache_set' = d_cache_set /\ lsu' = lsu /\ fetch' = fetch
        /\ lsu_rdata' = lsu_rdata /\ instr_rdata' = instr_rdata
    BY <1>1 DEF vars, D!cacheVars, Mux!muxVars, Mux!slaveVars
  <2>2. SeenMemory' = SeenMemory
    BY <2>1 DEF SeenMemory, Stored, Merged, Held, Cached
  <2> QED
    BY <2>1, <2>2 DEF Linear!vars
<1>2. ASSUME NEW access \in Accesses \cup {None}, NEW instr \in Fetches \cup {None},
             Clock(access, instr)
      PROVE  Linear!Next
  <2>1. \/ Linear!IssueAccess \/ Linear!AnswerAccess
        \/ SeenMemory' = SeenMemory /\ lsu' = lsu /\ lsu_rdata' = None
    BY <1>2, LinearData
  <2>2. \/ Linear!IssueFetch \/ Linear!AnswerFetch
        \/ fetch' = fetch /\ instr_rdata' = None
    BY <1>2, LinearCode
  <2> QED
    BY <2>1, <2>2 DEF Linear!Next
<1> QED
  BY <1>1, <1>2 DEF Next

\* Caches, write-backs, bridges and arbitration are invisible to the core,
\* whatever the caches' sizes, the latency, the program and the contents:
\* every load returns the last store to its address, and every fetch what
\* memory holds.
THEOREM MemoryRefinement == Spec => ImplementsMemory
<1>1. PathInv /\ PathInv' /\ [Next]_vars => [Linear!Next]_Linear!vars
  BY LinearStep
<1> QED
  BY <1>1, LinearInit, PathInvHolds, PTL DEF Spec, ImplementsMemory, Linear!Spec
=============================================================================
