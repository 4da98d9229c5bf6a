----------------------------- MODULE MCDevices -----------------------------
(***************************************************************************)
(* Instance of Devices: messages longer than the FIFO, words of four bits  *)
(* counted modulo four, so that a length may be cut, two pins.             *)
(***************************************************************************)
EXTENDS Devices

Bytes(numbers) == [i \in DOMAIN numbers |-> <<numbers[i] % 2, numbers[i] \div 2>>]
MCMessage == [task1 |-> Bytes(<<3, 0, 2>>), task2 |-> Bytes(<<2>>),
              boot |-> Bytes(<<1, 2, 3, 0, 1, 3>>), switch |-> Bytes(<<1>>),
              woken |-> Bytes(<<0, 1>>), fault |-> Bytes(<<2, 1>>)]
MCCommands == {<<>>, <<1, 1>>, <<1, 0, 0, 1>>}
MCLengths == {0, 1, 4, 5, 12, 13, 16, 18}
=============================================================================
