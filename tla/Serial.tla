------------------------------- MODULE Serial -------------------------------
(***************************************************************************)
(* The serial port (devices/serial/serial.c) and the log messages that go  *)
(* to it (libs/libk/log/log.c, libs/libk/debug/debug.c): one port write or  *)
(* one character at a time, against a model of the 16550 UART.  The UART   *)
(* sends on its own; what it has sent stands on the line.                  *)
(***************************************************************************)
EXTENDS Integers, Sequences

CONSTANTS
  FifoBytes,     \* the characters the UART keeps with its FIFO enabled
  UartStates     \* how the firmware may have left the registers

Byte == 0 .. 255
Registers == {"ier", "lcr", "mcr", "fcr", "divisor_low", "divisor_high"}

ASSUME SerialAssumption ==
  /\ FifoBytes \in Nat \ {0}
  /\ UartStates \subseteq [Registers -> Byte]

VARIABLES
  uart,      \* the registers: ier, lcr, mcr, fcr and the divisor
  fifo,      \* the characters in the UART
  line,      \* what the other side has received
  written,   \* how many of serial_init's port writes are done
  str,       \* what is left of the strings that are being sent
  said       \* all characters sent so far; only the properties look at it

serialVars == <<uart, fifo, line, written, str, said>>
----------------------------------------------------------------------------
(* The UART.                                                               *)

\* The divisor latch is in the place of the data and of the interrupt enable
\* register.
DLAB == uart.lcr \div 128 = 1
FifoEnabled == (uart.fcr % 2) = 1
Capacity == IF FifoEnabled THEN FifoBytes ELSE 1

\* Which of the UART's registers a write changes.
RegisterAt(offset) ==
  CASE offset = 0 -> "divisor_low"
    [] offset = 1 -> IF DLAB THEN "divisor_high" ELSE "ier"
    [] offset = 2 -> "fcr"
    [] offset = 3 -> "lcr"
    [] offset = 4 -> "mcr"

\* A write to a register; setting bit 2 of fcr empties the FIFO, and so does
\* enabling it.
WriteRegister(offset, value) ==
  /\ uart' = [uart EXCEPT ![RegisterAt(offset)] = value]
  /\ fifo' = IF offset = 2 /\ (~FifoEnabled \/ ((value \div 4) % 2) = 1) THEN <<>> ELSE fifo

\* A character that finds the UART full is lost.
WriteCharacter(c) ==
  /\ fifo' = IF Len(fifo) < Capacity THEN Append(fifo, c) ELSE fifo
  /\ UNCHANGED uart

\* The other side expects 38400 baud, eight bits and no parity.
Understood == uart.divisor_low = 3 /\ uart.divisor_high = 0 /\ (uart.lcr % 64) = 3

UartSend ==
  /\ fifo # <<>>
  /\ line' = Append(line, IF Understood THEN Head(fifo) ELSE "garbled")
  /\ fifo' = Tail(fifo)
  /\ UNCHANGED <<uart, written, str, said>>
----------------------------------------------------------------------------
(* The driver.                                                             *)

\* Mutant: the divisor latch is not switched off again.
InitWrites_latched == << <<1, 0>>, <<3, 128>>, <<0, 3>>, <<1, 0>>, <<2, 199>>, <<4, 11>> >>

\* The offset from COM1 and the value of each io_outb.
InitWrites ==
  << <<1, 0>>, <<3, 128>>, <<0, 3>>, <<1, 0>>, <<3, 3>>, <<2, 199>>, <<4, 11>> >>

SerialReady == written = Len(InitWrites)

\* One io_outb of serial_init.
serial_init ==
  /\ ~SerialReady
  /\ LET write == InitWrites[written + 1]
     IN IF write[1] = 0 /\ ~DLAB THEN WriteCharacter("divisor")
        ELSE WriteRegister(write[1], write[2])
  /\ written' = written + 1
  /\ UNCHANGED <<line, str, said>>

\* Mutants: nobody waits; the bit is tested the wrong way.
is_transmit_empty_unpolled == TRUE
is_transmit_empty_inverted == fifo # <<>>

\* Bit 5 of the line status: with the FIFO enabled, nothing is left in it.
is_transmit_empty == fifo = <<>>

\* A character of serial_send_string; serial_send_char waits until it may
\* write.  With the latch on, the character would become the divisor.
serial_send_char ==
  /\ str # <<>>
  /\ is_transmit_empty
  /\ IF DLAB THEN WriteRegister(0, Head(str)) ELSE WriteCharacter(Head(str))
  /\ str' = Tail(str) /\ said' = Append(said, Head(str))
  /\ UNCHANGED <<line, written>>
----------------------------------------------------------------------------
(* Log messages.  A string is a sequence of parts; a colour's code, which   *)
(* begins with an escape, is one of them.                                  *)

Colours == {"cyan", "yellow", "red", "blue", "reset"}

\* Only what begins like a colour's code is sent.
serial_set_color(color_code) == IF color_code \in Colours THEN <<color_code>> ELSE <<>>

StatusColour(status) ==
  CASE status = "INFO" -> "cyan" [] status = "WARNING" -> "yellow" [] status = "ERROR" -> "red"

\* All that a call of serial_log sends.
serial_log_impl(status, text) ==
  serial_set_color(StatusColour(status)) \o <<status, "caller:line", text>> \o serial_set_color("reset")

\* The strings are sent before the next statement.
SerialIdle == SerialReady /\ str = <<>>
Say(string) == SerialIdle /\ str' = string /\ UNCHANGED <<uart, fifo, line, written, said>>

SerialInit ==
  /\ uart \in UartStates
  /\ fifo = <<>> /\ line = <<>> /\ written = 0 /\ str = <<>> /\ said = <<>>
----------------------------------------------------------------------------
\* Each variable has its type.
SerialTypeOK ==
  /\ written \in 0 .. Len(InitWrites)
  /\ Len(fifo) <= FifoBytes
  /\ DOMAIN uart = Registers

\* From the first message on, what has arrived and what the UART still has
\* are all the characters the kernel ever sent, once each and in their
\* order, and nobody misread one (serial.c:27-74).
NoCharacterLost == said # <<>> => line \o fifo = said
=============================================================================
