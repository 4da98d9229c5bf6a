-------------------------------- MODULE Cache --------------------------------
(***************************************************************************)
(* The write-back cache (cache_16_way.v and the sets of set.v), one clock  *)
(* edge at a time.  The core raises its request for one clock: the cache   *)
(* holds it until the line is there and answers in the state HIT.  A miss  *)
(* writes the victim back first, if it is dirty, and then reads the line;  *)
(* the victims of a set are taken in turn.                                 *)
(*                                                                         *)
(* An address is a record of tag, set and word.                            *)
(*                                                                         *)
(* mem_address_Wrong is not used: it is mem_address with a mistake.        *)
(***************************************************************************)
EXTENDS Naturals

CONSTANTS
  Ways,        (* WAYS, lines in a set *)
  Sets,        (* set indices *)
  NoTag,       (* tag of a line that was never filled *)
  NoLine,      (* contents of such a line *)
  None         (* no request *)

VARIABLES
  state,             (* of the FSM *)
  request,           (* the cpu_..._reg registers *)
  cache_set,         (* [tag, valid, dirty, data] of each way of each set *)
  next_evict_line,   (* of each set *)
  write_back         (* write_back_tag and write_back_buffer of each set *)

cacheVars == <<state, request, cache_set, next_evict_line, write_back>>

Line == 0 .. Ways - 1
Empty == [tag |-> NoTag, valid |-> FALSE, dirty |-> FALSE, data |-> NoLine]

CacheInit ==
  /\ state = "IDLE"
  /\ request = None
  /\ cache_set = [s \in Sets |-> [w \in Line |-> Empty]]
  /\ next_evict_line = [s \in Sets |-> 0]
  /\ write_back = [s \in Sets |-> [tag |-> NoTag, data |-> NoLine]]

-----------------------------------------------------------------------------
(* The set the request selects.                                            *)

req == request # None
set == cache_set[request.addr.set]
victim == next_evict_line[request.addr.set]

hits == {w \in Line : set[w].valid /\ set[w].tag = request.addr.tag}

\* No hit, or more than one, selects line 0.
current_line == IF \E w \in hits : hits = {w} THEN CHOOSE w \in hits : TRUE ELSE 0

hit == req /\ current_line \in hits
miss == req /\ current_line \notin hits
dirty == req /\ set[victim].dirty

-----------------------------------------------------------------------------
(* Outputs.                                                                *)

cache_hit_o == state = "HIT"
cpu_dout == set[current_line].data[request.addr.word]

mem_req == state \in {"WBACK", "MISS"}
mem_rw_enable == state = "WBACK"

mem_address_Wrong ==         \* a victim goes to the address of the new line
  [tag |-> request.addr.tag, set |-> request.addr.set]
mem_address ==
  [tag |-> IF state = "WBACK" THEN write_back[request.addr.set].tag
                              ELSE request.addr.tag,
   set |-> request.addr.set]

mem_dout == write_back[request.addr.set].data

-----------------------------------------------------------------------------
(* A clock edge, with a request of the core or None, and the answer of the *)
(* memory.                                                                 *)

Transition(mem_ready) ==
  \/ state = "IDLE" /\ hit /\ state' = "HIT"
  \/ state = "IDLE" /\ miss /\ state' = IF dirty THEN "WBACK" ELSE "MISS"
  \/ state = "IDLE" /\ ~req /\ UNCHANGED state
  \/ state = "WBACK" /\ state' = IF mem_ready THEN "MISS" ELSE "WBACK"
  \/ state = "MISS" /\ state' = IF mem_ready THEN "HIT" ELSE "MISS"
  \/ state = "HIT" /\ state' = "IDLE"

Written(word) ==
  [l \in DOMAIN word |-> IF l \in request.be THEN request.data[l] ELSE word[l]]

\* cache_set_in and cache_set_addr.
WriteLine(w, isDirty, data) ==
  cache_set' = [cache_set EXCEPT ![request.addr.set][w] =
    [tag |-> request.addr.tag, valid |-> TRUE, dirty |-> isDirty, data |-> data]]

Store(mem_ready, mem_din) ==
  \/ /\ hit /\ request.we
     /\ WriteLine(current_line, TRUE,
          [set[current_line].data EXCEPT ![request.addr.word] = Written(@)])
  \/ miss /\ mem_ready /\ state # "WBACK" /\ WriteLine(victim, FALSE, mem_din)
  \/ /\ ~(hit /\ request.we) /\ ~(miss /\ mem_ready /\ state # "WBACK")
     /\ UNCHANGED cache_set

\* After a dirty victim the turn does not move: its dirty bit is still set.
Turn(mem_ready) ==
  next_evict_line' =
    IF miss /\ mem_ready /\ ~dirty
      THEN [next_evict_line EXCEPT ![request.addr.set] = (@ + 1) % Ways]
      ELSE next_evict_line

\* Always the victim of a clock ago.
Buffer ==
  write_back' = [s \in Sets |->
    [tag |-> cache_set[s][next_evict_line[s]].tag,
     data |-> cache_set[s][next_evict_line[s]].data]]

Hold(trigger) ==
  request' = IF trigger # None THEN trigger
             ELSE IF cache_hit_o THEN None ELSE request

CacheClock(trigger, mem_ready, mem_din) ==
  /\ Transition(mem_ready)
  /\ Store(mem_ready, mem_din)
  /\ Turn(mem_ready)
  /\ Buffer
  /\ Hold(trigger)
==============================================================================
