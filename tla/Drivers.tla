------------------------------ MODULE Drivers ------------------------------
(***************************************************************************)
(* The drivers of the SPI master, the I2C master and the GPIO block        *)
(* (drivers/src): the registers as the drivers address them, and every     *)
(* call of a driver, poll by poll.  The blocks themselves are not in the   *)
(* repository; they do here what the drivers take for granted, and no more.*)
(* A word is named by its place in the transfer, a command is the sequence *)
(* of its bits, a register of pins a function of the pin.  The scheduler   *)
(* takes the core from a task only in rtos_delay, so a call that does not  *)
(* poll is one step.                                                       *)
(***************************************************************************)
EXTENDS Integers, Sequences, FiniteSets

CONSTANTS
  WordBits,   (* bits of a word of the SPI FIFOs: 32 in the code *)
  Counts,     (* words of a transfer are counted modulo this: 2048 there *)
  TxLimit,    (* words the driver lets stand in the transmit FIFO: 8 there *)
  RxDepth,    (* words the receive FIFO holds *)
  Lengths,    (* the data lengths, in bits, callers ask for *)
  Commands,   (* commands of the SPI slave: their bits, in order *)
  Pins,       (* the pins of the GPIO block in use *)
  EocPin      (* the pin that shows the end of computation: 8 in the code *)

ASSUME DriversAssumption ==
  /\ {WordBits, Counts, TxLimit, RxDepth} \subseteq Nat \ {0}
  /\ Lengths \subseteq Nat
  /\ Commands \subseteq Seq({0, 1}) /\ \A c \in Commands : Len(c) <= WordBits
  /\ Pins \subseteq Nat /\ {0, EocPin} \subseteq Pins

VARIABLES
  spi,      (* registers and FIFOs of the SPI master, and what it has left *)
  spiCall,  (* the transfer under way in the driver *)
  slave,    (* the words that have arrived: at the slave, or at the caller *)
  i2c,      (* registers of the I2C master *)
  i2cCall,  (* where the caller of the I2C driver is *)
  answers,  (* what the slave answered last, and whether a poll missed it *)
  gpio,     (* registers of the GPIO block and of the pad control *)
  asked     (* for every pin, what the calls last asked of it *)

spiVars == <<spi, spiCall, slave>>
i2cVars == <<i2c, i2cCall, answers>>
gpioVars == <<gpio, asked>>

-----------------------------------------------------------------------------
(* SPI.                                                                    *)

\* A register as the block shifts it out, the highest bit first.
SpiReg == [1 .. WordBits -> {0, 1}]
Zero == [b \in 1 .. WordBits |-> 0]

SpiInit ==
  /\ spi = [cmd |-> Zero, cmdlen |-> 0, datalen |-> 0, dummy |-> 0,
            tx |-> <<>>, rx |-> <<>>, mode |-> "idle", left |-> 0]
  /\ spiCall = [pc |-> "setup", cmd |-> <<>>,
                datalen |-> 0, i |-> 0]
  /\ slave = <<>>

\* The command is left-aligned in its register: its first bit goes out first.
\* A command of no bits is shifted by the width, which C leaves open.
Aligned(c) ==
  IF c = <<>> THEN SpiReg
  ELSE {[b \in 1 .. WordBits |-> IF b <= Len(c) THEN c[b] ELSE 0]}

\* Overwrites the whole length register, the data length in it included.
spi_setup_cmd_addr ==
  /\ spiCall.pc = "setup"
  /\ \E c \in Commands : \E reg \in Aligned(c) :
       /\ spi' = [spi EXCEPT !.cmd = reg, !.cmdlen = Len(c), !.datalen = 0]
       /\ spiCall' = [spiCall EXCEPT !.pc = "length", !.cmd = c]
  /\ UNCHANGED slave

\* The register has as many bits for it as the words of the driver cover.
DatalenSize == WordBits * Counts

spi_set_datalen ==
  /\ spiCall.pc = "length"
  /\ \E n \in Lengths :
       /\ spi' = [spi EXCEPT !.datalen = n % DatalenSize]
       /\ spiCall' = [spiCall EXCEPT !.pc = "start", !.datalen = n]
  /\ UNCHANGED slave

spi_setup_dummy ==
  /\ spiCall.pc = "start"
  /\ \E cycles \in 0 .. 1 : spi' = [spi EXCEPT !.dummy = cycles]
  /\ UNCHANGED <<spiCall, slave>>

\* Words of a transfer of n bits: the last one need not be full.
num_words_Wrong(n) == (n \div WordBits) % Counts
num_words(n) == ((n \div WordBits) % Counts)
                + (IF n % WordBits # 0 THEN 1 ELSE 0)

\* What the block makes of the length in its register.
WordsOnWire(n) == (n + WordBits - 1) \div WordBits

spi_start_transaction ==
  /\ spiCall.pc = "start" /\ spi.mode = "idle"
  /\ \E mode \in {"read", "write"} :
       /\ spi' = [spi EXCEPT !.mode = mode, !.left = WordsOnWire(spi.datalen)]
       /\ spiCall' = [spiCall EXCEPT !.pc = "poll", !.i = 0]
  /\ slave' = <<>>

\* spi_write_fifo and spi_read_fifo: poll, move a word, and so on.
SpiPoll ==
  /\ spiCall.pc = "poll" /\ spiCall.i < num_words(spiCall.datalen)
  /\ spiCall' = [spiCall EXCEPT !.pc =
                   IF IF spi.mode = "write" THEN Len(spi.tx) < TxLimit
                                            ELSE spi.rx # <<>>
                   THEN "move" ELSE "poll"]
  /\ UNCHANGED <<spi, slave>>

spi_write_fifo ==
  /\ spiCall.pc = "move" /\ spi.mode = "write"
  /\ spi' = [spi EXCEPT !.tx = Append(@, spiCall.i)]
  /\ spiCall' = [spiCall EXCEPT !.pc = "poll", !.i = @ + 1]
  /\ UNCHANGED slave

spi_read_fifo ==
  /\ spiCall.pc = "move" /\ spi.mode = "read"
  /\ spi' = [spi EXCEPT !.rx = Tail(@)]
  /\ slave' = Append(slave, Head(spi.rx))
  /\ spiCall' = [spiCall EXCEPT !.pc = "poll", !.i = @ + 1]

\* The call has returned; the status shows when the block is idle again.
spi_get_status ==
  /\ spiCall.pc = "poll" /\ spiCall.i = num_words(spiCall.datalen)
  /\ IF spi.left = 0
     THEN /\ spi' = [spi EXCEPT !.mode = "idle"]
          /\ spiCall' = [spiCall EXCEPT !.pc = "setup"]
     ELSE UNCHANGED <<spi, spiCall>>
  /\ UNCHANGED slave

\* The block moves one word over the wire.
SpiWire ==
  /\ spi.left > 0
  /\ \/ /\ spi.mode = "write" /\ spi.tx # <<>>
        /\ slave' = Append(slave, Head(spi.tx))
        /\ spi' = [spi EXCEPT !.tx = Tail(@), !.left = @ - 1]
     \/ /\ spi.mode = "read" /\ Len(spi.rx) < RxDepth
        /\ spi' = [spi EXCEPT !.left = @ - 1, !.rx =
                     Append(@, WordsOnWire(spi.datalen) - spi.left)]
        /\ UNCHANGED slave
  /\ UNCHANGED spiCall

SpiProgress == \/ SpiPoll \/ spi_write_fifo \/ spi_read_fifo
               \/ spi_get_status \/ SpiWire

SpiNext == \/ spi_setup_cmd_addr \/ spi_set_datalen \/ spi_setup_dummy
           \/ spi_start_transaction \/ SpiProgress

(***************************************************************************)
(* The slave is sent the command that was asked for, and every word of a   *)
(* transfer arrives, in order and once: the driver and the block count the *)
(* same words for every length, whole or broken, and where the length      *)
(* itself is cut to sixteen bits; no word is put into a full FIFO.         *)
(***************************************************************************)
SpiWordsInOrder ==
  /\ \A k \in DOMAIN slave : slave[k] = k - 1
  /\ Len(spi.tx) <= TxLimit
  /\ spi.mode # "idle" => /\ spi.cmdlen = Len(spiCall.cmd)
                          /\ \A b \in 1 .. spi.cmdlen : spi.cmd[b] = spiCall.cmd[b]
  /\ spi.mode = "idle" => spi.tx = <<>> /\ spi.rx = <<>>

\* Every transfer that is started comes to its end.
SpiReturns == spi.mode # "idle" ~> spi.mode = "idle"

-----------------------------------------------------------------------------
(* I2C.                                                                    *)

I2cCommands ==
  {"I2C_START_WRITE", "I2C_WRITE", "I2C_STOP_WRITE", "I2C_STOP_READ"}

I2cInit ==
  /\ i2c = [enabled |-> FALSE, tx |-> 0, cmd |-> "none",
            tip |-> FALSE, rxack |-> FALSE, busy |-> FALSE]
  /\ i2cCall = [pc |-> "setup", ack |-> FALSE]
  /\ answers = [last |-> FALSE, missed |-> FALSE]

i2c_setup ==
  /\ i2cCall.pc = "setup"
  /\ i2c' = [i2c EXCEPT !.enabled = TRUE]
  /\ i2cCall' = [i2cCall EXCEPT !.pc = "ready"]
  /\ UNCHANGED answers

i2c_busy == i2c.busy

i2c_send_data ==
  /\ i2cCall.pc = "ready"
  /\ \E value \in 0 .. 1 : i2c' = [i2c EXCEPT !.tx = value]
  /\ UNCHANGED <<i2cCall, answers>>

\* The caller opens the bus when it is free and then keeps to its transfer.
i2c_send_command ==
  /\ i2cCall.pc = "ready"
  /\ \E c \in I2cCommands :
       /\ i2c_busy <=> c # "I2C_START_WRITE"
       /\ i2c' = [i2c EXCEPT !.cmd = c]
  /\ i2cCall' = [i2cCall EXCEPT !.pc = "commanded"]
  /\ UNCHANGED answers

\* i2c_get_ack: wait until the transfer is seen, then until it is over.
i2c_get_ack_Wrong ==
  /\ i2cCall.pc = "commanded"
  /\ i2cCall' = [i2cCall EXCEPT !.pc = "fall"]     \* the first wait is left out
  /\ UNCHANGED <<i2c, answers>>
i2c_get_ack ==
  /\ i2cCall.pc = "commanded"
  /\ i2cCall' = [i2cCall EXCEPT !.pc = "rise"]
  /\ UNCHANGED <<i2c, answers>>

AwaitRise ==
  /\ i2cCall.pc = "rise"
  /\ i2cCall' = [i2cCall EXCEPT !.pc = IF i2c.tip THEN "fall" ELSE "rise"]
  /\ UNCHANGED <<i2c, answers>>

AwaitFall ==
  /\ i2cCall.pc = "fall"
  /\ i2cCall' = [i2cCall EXCEPT !.pc = IF i2c.tip THEN "fall" ELSE "answer"]
  /\ UNCHANGED <<i2c, answers>>

\* The acknowledge bit is active low.
GetAckReturns ==
  /\ i2cCall.pc = "answer"
  /\ i2cCall' = [pc |-> "ready", ack |-> ~i2c.rxack]
  /\ UNCHANGED <<i2c, answers>>

I2cBegin ==
  /\ i2c.enabled /\ i2c.cmd # "none" /\ ~i2c.tip
  /\ i2c' = [i2c EXCEPT !.tip = TRUE, !.busy = TRUE]
  /\ UNCHANGED <<i2cCall, answers>>

\* A transfer that is over before the driver has seen it begin is missed.
I2cEnd ==
  /\ i2c.tip
  /\ \E acked \in BOOLEAN :
       /\ i2c' = [i2c EXCEPT !.tip = FALSE, !.cmd = "none", !.rxack = ~acked,
                    !.busy = i2c.cmd \notin {"I2C_STOP_WRITE", "I2C_STOP_READ"}]
       /\ answers' = [last |-> acked,
                      missed |-> i2cCall.pc \in {"commanded", "rise"}]
  /\ UNCHANGED i2cCall

I2cProgress == \/ i2c_get_ack \/ AwaitRise \/ AwaitFall \/ GetAckReturns
               \/ I2cBegin \/ I2cEnd

I2cNext == i2c_setup \/ i2c_send_data \/ i2c_send_command \/ I2cProgress

(***************************************************************************)
(* What i2c_get_ack returns is the slave's answer to the transfer commanded *)
(* before the call, not the answer to an earlier one that still stands in  *)
(* the status register when the call begins to poll.                       *)
(***************************************************************************)
AckIsFresh ==
  [][i2cCall.pc = "answer" /\ i2cCall'.pc = "ready"
       => i2c.cmd = "none" /\ i2cCall'.ack = answers.last]_i2cVars

\* The call returns unless the whole transfer falls between two polls: then
\* it waits for a second one, and nobody commands that.
AckReturns ==
  i2cCall.pc \in {"rise", "fall", "answer"} ~>
    (i2cCall.pc = "ready" \/ (i2cCall.pc = "rise" /\ answers.missed))

-----------------------------------------------------------------------------
(* GPIO.                                                                   *)

\* The registers by their addresses: those from GPIO_BASE_ADDR on, the pad
\* control and the status of the computation in blocks of their own.
GPIO_REG == [PADDIR |-> 0, PADIN |-> 4, PADOUT |-> 8, INTEN |-> 12,
             INTTYPE0 |-> 16, INTTYPE1 |-> 20,
             PADFUN |-> 4096, RES_STATUS |-> 8192]
Register(name) == gpio[GPIO_REG[name]]

GpioInit ==
  /\ gpio = [a \in {GPIO_REG[r] : r \in DOMAIN GPIO_REG} |->
               [p \in Pins |-> 0]]
  /\ asked = [r \in DOMAIN GPIO_REG \ {"PADIN"} |-> [p \in Pins |-> 0]]

\* The pads: an output shows what is driven.
Pads(file) ==
  [file EXCEPT ![GPIO_REG["PADIN"]] = [p \in Pins |->
     IF file[GPIO_REG["PADDIR"]][p] = 1 THEN file[GPIO_REG["PADOUT"]][p]
                                        ELSE @[p]]]

\* Read a register, replace the bit of the pin, write it back.
SetPin(file, name, pin, bit) == Pads([file EXCEPT ![GPIO_REG[name]][pin] = bit])

Set(pin, name, bit) ==
  /\ gpio' = SetPin(gpio, name, pin, bit)
  /\ asked' = [asked EXCEPT ![name][pin] = bit]

set_pin_function(pin) == \E function \in 0 .. 1 : Set(pin, "PADFUN", function)
set_gpio_pin_direction(pin) == \E bit \in 0 .. 1 : Set(pin, "PADDIR", bit)
set_gpio_pin_value(pin) == \E bit \in 0 .. 1 : Set(pin, "PADOUT", bit)
set_gpio_pin_irq_en(pin) == \E bit \in 0 .. 1 : Set(pin, "INTEN", bit)

\* The type is two bits, and each has a register.
IrqType_Wrong(pin, type) ==    \* both bits go where the first belongs
  SetPin(SetPin(gpio, "INTTYPE0", pin, type % 2), "INTTYPE0", pin, type \div 2)
IrqType(pin, type) ==
  SetPin(SetPin(gpio, "INTTYPE0", pin, type % 2), "INTTYPE1", pin, type \div 2)

set_gpio_pin_irq_type(pin) ==
  \E type \in 0 .. 3 :
    /\ gpio' = IrqType(pin, type)
    /\ asked' = [asked EXCEPT !["INTTYPE0"][pin] = type % 2,
                              !["INTTYPE1"][pin] = type \div 2]

\* The end of computation is shown in a status register and on a pin.
eoc ==
  \E failed \in 0 .. 1 :
    LET status == [p \in Pins |-> IF p = 0 THEN failed ELSE 0]
        file == [gpio EXCEPT ![GPIO_REG["RES_STATUS"]] = status]
    IN /\ gpio' = SetPin(SetPin(SetPin(file, "PADFUN", EocPin, 1),
                                "PADDIR", EocPin, 1), "PADOUT", EocPin, 1)
       /\ asked' = [asked EXCEPT !["RES_STATUS"] = status,
                      !["PADFUN"][EocPin] = 1, !["PADDIR"][EocPin] = 1,
                      !["PADOUT"][EocPin] = 1]

GpioNext ==
  \/ eoc
  \/ \E pin \in Pins :
       \/ set_pin_function(pin) \/ set_gpio_pin_direction(pin)
       \/ set_gpio_pin_value(pin) \/ set_gpio_pin_irq_en(pin)
       \/ set_gpio_pin_irq_type(pin)

get_pin_function(pin) == Register("PADFUN")[pin]

\* The bit at twice the number of the pin, though the direction is written
\* to the bit at the number of the pin.
get_gpio_pin_direction(pin) ==
  IF 2 * pin \in Pins THEN Register("PADDIR")[2 * pin] ELSE 0

get_gpio_pin_value(pin) == Register("PADIN")[pin]

(***************************************************************************)
(* After any calls, each pin has what was last asked of it and of no other *)
(* pin: its function reads back, an output shows its value on the pad, the *)
(* type of its interrupt has both its bits, the end of computation its pin. *)
(***************************************************************************)
PinsReadBack ==
  \A p \in Pins :
    /\ get_pin_function(p) = asked["PADFUN"][p]
    /\ asked["PADDIR"][p] = 1 => get_gpio_pin_value(p) = asked["PADOUT"][p]
    /\ \A r \in {"INTEN", "INTTYPE0", "INTTYPE1", "RES_STATUS"} :
         Register(r)[p] = asked[r][p]
=============================================================================
