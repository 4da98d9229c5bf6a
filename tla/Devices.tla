------------------------------ MODULE Devices ------------------------------
(***************************************************************************)
(* The devices of the firmware, each on its own: a behaviour is one of     *)
(* the serial line, the SPI master, the I2C master or the pins.  They have *)
(* nothing in common but the bus, which Memory path describes, so nothing  *)
(* is lost by not interleaving them.                                       *)
(***************************************************************************)
EXTENDS Uart, Drivers

VARIABLE device   (* the one this behaviour is about *)

vars == <<device, uartVars, spiVars, i2cVars, gpioVars>>

Init ==
  /\ device \in {"uart", "spi", "i2c", "gpio"}
  /\ UartInit /\ SpiInit /\ I2cInit /\ GpioInit

Next ==
  /\ UNCHANGED device
  /\ \/ device = "uart" /\ UartNext /\ UNCHANGED <<spiVars, i2cVars, gpioVars>>
     \/ device = "spi" /\ SpiNext /\ UNCHANGED <<uartVars, i2cVars, gpioVars>>
     \/ device = "i2c" /\ I2cNext /\ UNCHANGED <<uartVars, spiVars, gpioVars>>
     \/ device = "gpio" /\ GpioNext /\ UNCHANGED <<uartVars, spiVars, i2cVars>>

\* The core executes, the baud generator runs, and the blocks finish what
\* they were told to do.
Fairness ==
  /\ WF_uartVars(device = "uart" /\ \E bitEnd \in BOOLEAN : Program(bitEnd))
  /\ WF_uartVars(device = "uart" /\ (Program(TRUE) \/ Elsewhere(TRUE)))
  /\ WF_spiVars(device = "spi" /\ SpiProgress)
  /\ WF_i2cVars(device = "i2c" /\ I2cProgress)

Spec == Init /\ [][Next]_vars /\ Fairness

-----------------------------------------------------------------------------
(***************************************************************************)
(* The loops that poll a device end: in write_uart, in spi_write_fifo and  *)
(* spi_read_fifo and up to the end of their transfer, and in i2c_get_ack   *)
(* unless the whole transfer fell between two of its polls.                *)
(***************************************************************************)
CallsReturn == (device = "uart" => WriteReturns) /\ SpiReturns /\ AckReturns
=============================================================================
