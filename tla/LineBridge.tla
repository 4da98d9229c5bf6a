------------------------------ MODULE LineBridge ------------------------------
(***************************************************************************)
(* From cache lines to bus words (mem_32_to_128.v), one clock edge at a    *)
(* time: a line is read or written word by word, and the request for the   *)
(* next word is a pulse of one clock, sent when the last one is answered.  *)
(*                                                                         *)
(* Registers that are not read again before they are written are emptied   *)
(* when a line is done, to keep the state space small.                     *)
(*                                                                         *)
(* WordRead_Wrong is not used: it is WordRead with a plausible mistake.    *)
(***************************************************************************)
EXTENDS Naturals

CONSTANTS
  Words,       (* words of a line, 4 *)
  None         (* an empty register *)

VARIABLES
  state,
  req_counter, recv_counter,
  bram_req_o, bram_address_o,
  cache_line_we_o, cache_line_wdata_o,
  cache_line_rdata,          (* cache_line_rdata_reg, then ..._o *)
  cache_line_rvalid_o

bridgeVars == <<state, req_counter, recv_counter, bram_req_o, bram_address_o,
                cache_line_we_o, cache_line_wdata_o, cache_line_rdata,
                cache_line_rvalid_o>>

NoWords == [n \in 0 .. Words - 1 |-> None]

BridgeInit ==
  /\ state = "IDLE"
  /\ req_counter = 0 /\ recv_counter = 0
  /\ bram_req_o = FALSE /\ bram_address_o = None
  /\ cache_line_we_o = FALSE /\ cache_line_wdata_o = None
  /\ cache_line_rdata = NoWords
  /\ cache_line_rvalid_o = FALSE

\* Ask for a word of the line.
Request(line, n) ==
  /\ bram_req_o' = TRUE
  /\ bram_address_o' = [tag |-> line.tag, set |-> line.set, word |-> n]
  /\ req_counter' = (req_counter + 1) % Words

Start(line, we, wdata) ==
  /\ state' = IF we THEN "WRITE_WAIT" ELSE "READ_WAIT"
  /\ cache_line_we_o' = we
  /\ cache_line_wdata_o' = IF we THEN wdata[0] ELSE None
  /\ Request(line, 0)
  /\ UNCHANGED <<recv_counter, cache_line_rdata, cache_line_rvalid_o>>

AwaitWord ==
  /\ bram_req_o' = FALSE
  /\ UNCHANGED <<state, req_counter, recv_counter, bram_address_o,
                 cache_line_we_o, cache_line_wdata_o, cache_line_rdata,
                 cache_line_rvalid_o>>

\* The two-bit counter has wrapped when all words have been sent.
WordWritten(line, wdata) ==
  /\ cache_line_wdata_o' = wdata[req_counter]
  /\ IF req_counter = 0
       THEN /\ state' = "WRITE_RESPONSE"
            /\ bram_req_o' = FALSE
            /\ req_counter' = 1 % Words
            /\ UNCHANGED bram_address_o
       ELSE Request(line, req_counter) /\ UNCHANGED state
  /\ UNCHANGED <<recv_counter, cache_line_we_o, cache_line_rdata,
                 cache_line_rvalid_o>>

WordRead_Wrong(line, rdata) ==       \* no new pulse for the next word
  /\ cache_line_rdata' = [cache_line_rdata EXCEPT ![recv_counter] = rdata]
  /\ recv_counter' = (recv_counter + 1) % Words
  /\ req_counter' = (req_counter + 1) % Words
  /\ bram_req_o' = FALSE
  /\ state' = IF recv_counter = Words - 1 THEN "READ_RESPONSE" ELSE state
  /\ UNCHANGED <<bram_address_o, cache_line_we_o, cache_line_wdata_o,
                 cache_line_rvalid_o>>

WordRead(line, rdata) ==
  /\ cache_line_rdata' = [cache_line_rdata EXCEPT ![recv_counter] = rdata]
  /\ recv_counter' = (recv_counter + 1) % Words
  /\ IF recv_counter = Words - 1
       THEN /\ state' = "READ_RESPONSE"
            /\ bram_req_o' = FALSE
            /\ req_counter' = (req_counter + 1) % Words
            /\ UNCHANGED bram_address_o
       ELSE Request(line, req_counter) /\ UNCHANGED state
  /\ UNCHANGED <<cache_line_we_o, cache_line_wdata_o, cache_line_rvalid_o>>

Respond ==
  /\ cache_line_rvalid_o' = TRUE
  /\ state' = "DONE"
  /\ UNCHANGED <<req_counter, recv_counter, bram_req_o, bram_address_o,
                 cache_line_we_o, cache_line_wdata_o, cache_line_rdata>>

Done ==
  /\ state' = "IDLE"
  /\ req_counter' = 0 /\ recv_counter' = 0
  /\ bram_req_o' = FALSE /\ bram_address_o' = None
  /\ cache_line_we_o' = FALSE /\ cache_line_wdata_o' = None
  /\ cache_line_rdata' = NoWords
  /\ cache_line_rvalid_o' = FALSE

\* A clock edge, with the outputs of the cache and the answer of the bus.
BridgeClock(line_req, line, we, wdata, bram_rvalid, rdata) ==
  \/ state = "IDLE" /\ line_req /\ Start(line, we, wdata)
  \/ state = "IDLE" /\ ~line_req /\ UNCHANGED bridgeVars
  \/ state \in {"READ_WAIT", "WRITE_WAIT"} /\ ~bram_rvalid /\ AwaitWord
  \/ state = "WRITE_WAIT" /\ bram_rvalid /\ WordWritten(line, wdata)
  \/ state = "READ_WAIT" /\ bram_rvalid /\ WordRead(line, rdata)
  \/ state \in {"READ_RESPONSE", "WRITE_RESPONSE"} /\ Respond
  \/ state = "DONE" /\ Done
==============================================================================
