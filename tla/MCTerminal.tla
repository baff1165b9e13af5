----------------------------- MODULE MCTerminal -----------------------------
(* Instances of Terminal for TLC: a screen of two lines of four glyphs,    *)
(* each two pixels high.                                                   *)
EXTENDS Terminal

Plain(code) == [code |-> code, extended |-> FALSE]
A         == Plain(30)
Enter     == Plain(28)
Erase1    == Plain(14)
LeftShift == Plain(42)
RightShift == Plain(54)
RightCtrl == [code |-> 29, extended |-> TRUE]

MCKeys == {A, Enter, Erase1, LeftShift, RightShift, RightCtrl}
MCTabKeys == {A, Plain(15), Erase1}
MCHead == <<"h", "h">>
MCTail == <<"p", "s">>
=============================================================================
