---------------------------- MODULE MCInterrupts ----------------------------
(* Instances of Interrupts for TLC: the keyboard (line 1), a serial port   *)
(* (line 3) and the first device of the slave (line 8).  The timer would   *)
(* starve the keyboard whenever it is faster than the handlers.            *)
EXTENDS Interrupts

MCDevices == {1, 3, 8}
MCKeyboard == {1}
MCNone == {}

\* One exception without and one with an error code.
MCFaults == {6, 17}

\* Everything masked, or the devices left unmasked as a BIOS leaves them.
MCAllMasked == {[p \in PICs |-> Lines]}
MCMasks == MCAllMasked \cup {[p \in PICs |-> IF p = "master" THEN Lines \ {0, 1, 2} ELSE {}]}

MCCalls == {[name |-> "keyboard"], [name |-> "set_mask", line |-> 1],
             [name |-> "set_mask", line |-> 8]}
             \cup [name : {"clear_mask"}, line : {2, 3, 8}]
=============================================================================
