------------------------------ MODULE Terminal ------------------------------
(***************************************************************************)
(* The keyboard driver with the shell's screen as its final_handler, and a *)
(* user at the keys.  A key is [code, extended]: an extended one sends the *)
(* byte 0xE0 before its scancode, which the driver takes for a breakcode   *)
(* of its own.  A key that is held repeats its makecode.                   *)
(***************************************************************************)
EXTENDS Keyboard, Shell

CONSTANTS
  Keys,     \* the keys the user presses
  MaxTyped  \* bound: characters typed on a line

VARIABLES
  down,   \* the modifier keys the user holds
  bytes   \* what the keyboard has yet to send of the last event

vars == <<is_keyboard_active, modifiers, display, barrier, typed, down, bytes>>

Prefix == 224   \* 0xE0
Erasing == 14   \* the scancode of backspace
HoldKeys == {k \in Keys : KeyOf(k.code) \subseteq Modifiers}
----------------------------------------------------------------------------
\* keyboard_irq_handler: a driver that is not active only reads the byte.
keyboard_irq_handler(scancode) ==
  \/ /\ ~is_keyboard_active
     /\ UNCHANGED <<modifiers, shellVars>>
  \/ /\ is_keyboard_active /\ scancode >= 128
     /\ \E key \in KeyOf(scancode - 128) : Break(key)
     /\ shell_print_char(NoCharacter)
  \/ /\ is_keyboard_active /\ scancode < 128
     /\ \E key \in KeyOf(scancode) :
          Make(key) /\ shell_print_char(CharacterOf(key))

KeyboardIRQ ==
  /\ bytes # <<>>
  /\ keyboard_irq_handler(Head(bytes))
  /\ bytes' = Tail(bytes)
  /\ UNCHANGED <<is_keyboard_active, down>>

\* shell_screen_init: the screen first, then activate_keyboard_processing.
StartShell ==
  /\ ~is_keyboard_active
  /\ shell_screen_init
  /\ is_keyboard_active' = TRUE
  /\ UNCHANGED <<modifiers, down, bytes>>
----------------------------------------------------------------------------
\* The user.  Other keys than modifiers are released without an effect.
Send(key, code) ==
  bytes' = (IF key.extended THEN <<Prefix>> ELSE <<>>) \o <<code>>

Press(key) ==
  /\ bytes = <<>>
  /\ Len(typed) < MaxTyped \/ key \in HoldKeys \/ key.code = Erasing
  /\ Send(key, key.code)
  /\ down' = IF key \in HoldKeys THEN down \cup {key} ELSE down
  /\ UNCHANGED <<keyboardVars, shellVars>>

Release(key) ==
  /\ bytes = <<>> /\ key \in down
  /\ Send(key, key.code + 128)
  /\ down' = down \ {key}
  /\ UNCHANGED <<keyboardVars, shellVars>>

Init ==
  /\ KeyboardInit /\ ShellInit
  /\ down = {} /\ bytes = <<>>

Next ==
  \/ KeyboardIRQ \/ StartShell
  \/ \E key \in Keys : Press(key) \/ Release(key)

Spec == Init /\ [][Next]_vars
----------------------------------------------------------------------------
(* Properties.                                                             *)

\* What the screen may show: blanks, the prompt, and what keys stand for.
Characters ==
  {Blank} \cup Range(PromptHead) \cup Range(PromptTail)
    \cup Range(standard_keycodes) \cup Range(Letters) \cup Range(Symbols)

\* Each variable has its type; the cursor is on the screen or behind the end
\* of one of its lines.
TypeOK ==
  /\ KeyboardTypeOK /\ ShellTypeOK(Characters)
  /\ down \subseteq HoldKeys /\ Len(bytes) <= 2

\* The screen shows, up to the cursor, the prompt's line and what was typed
\* on it and not taken back, as far as it was not scrolled out: through
\* wrapping, scrolling and backspaces over line ends (framebuffer.c:242-290).
\* The barrier must "move ... if screen scrolls" (shell_screen.c:78) for it.
ScreenShowsLine ==
  LET line == PromptTail \o typed
  IN is_keyboard_active =>
       \A n \in 1 .. Len(line) : ShowsBefore(n, line[Len(line) + 1 - n])

\* "if backspace is pressed check for barrier (prompt)" (shell_screen.c:68):
\* a backspace takes back what was typed and is still on the screen, and
\* nothing of the prompt.
BackspaceTakesBackTyped ==
  [][(is_keyboard_active /\ bytes = <<Erasing>> /\ bytes' = <<>>) =>
       (UNCHANGED <<display>> <=> (typed = <<>> \/ (display.x = 0 /\ display.y = 0)))]_vars

\* When all keys are up, no modifier is stuck, whatever order they were
\* pressed and released in and whatever a prefix byte was taken for
\* (keyboard.c:176-181).
NoModifierStuck ==
  down = {} /\ bytes = <<>> =>
    ~modifiers.ctrl /\ ~modifiers.alt /\ ~modifiers.shift
=============================================================================
