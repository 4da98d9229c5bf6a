---------------------------- MODULE LinearMemory ----------------------------
(***************************************************************************)
(* What the core may expect of its memory system: a memory with a data     *)
(* port and an instruction port, each with at most one access under way.   *)
(* A load returns what was last stored at its address; a fetch returns     *)
(* what memory holds.  Caches, bridges and buses are invisible.            *)
(***************************************************************************)
CONSTANTS
  Accesses,    (* loads and stores: [addr, we, be, data] *)
  Fetches,     (* the same for fetches *)
  Initial,     (* the contents of the memory, a word at each address *)
  None         (* no access, and no answer *)

VARIABLES
  memory,
  lsu, fetch,               (* the access under way at each port *)
  lsu_rdata, instr_rdata    (* what a port returned in the last step *)

vars == <<memory, lsu, fetch, lsu_rdata, instr_rdata>>

\* A word after a store: the lanes that are enabled take the data.
Merge(word, access) ==
  [l \in DOMAIN word |-> IF l \in access.be THEN access.data[l] ELSE word[l]]

Init ==
  /\ memory = Initial
  /\ lsu = None /\ fetch = None
  /\ lsu_rdata = None /\ instr_rdata = None

\* A store takes effect when it is issued: nobody looks before it is answered.
IssueAccess ==
  /\ lsu = None
  /\ lsu' \in Accesses
  /\ memory' = IF lsu'.we
                 THEN [memory EXCEPT ![lsu'.addr] = Merge(@, lsu')]
                 ELSE memory
  /\ lsu_rdata' = None

AnswerAccess ==
  /\ lsu # None
  /\ lsu' = None
  /\ lsu_rdata' = IF lsu.we THEN None ELSE memory[lsu.addr]
  /\ UNCHANGED memory

IssueFetch ==
  /\ fetch = None
  /\ fetch' \in Fetches
  /\ instr_rdata' = None

AnswerFetch ==
  /\ fetch # None
  /\ fetch' = None
  /\ instr_rdata' = memory[fetch.addr]

\* Both ports may do something in the same step, or nothing.
Next ==
  /\ \/ IssueAccess \/ AnswerAccess
     \/ UNCHANGED <<memory, lsu>> /\ lsu_rdata' = None
  /\ \/ IssueFetch \/ AnswerFetch
     \/ UNCHANGED fetch /\ instr_rdata' = None

Spec == Init /\ [][Next]_vars
=============================================================================
