------------------------------ MODULE Keyboard ------------------------------
(***************************************************************************)
(* The keyboard driver of keyboard.c: from scancodes to key_info.  A key   *)
(* is named by the character or the KEY_ constant of its entry in          *)
(* standard_keycodes.  The handler runs with interrupts disabled, one      *)
(* scancode after the other.                                               *)
(***************************************************************************)
EXTENDS Integers, Sequences, Functions

VARIABLES
  is_keyboard_active,  \* the driver processes what it reads
  modifiers            \* the driver's view of the modifier and lock keys

keyboardVars == <<is_keyboard_active, modifiers>>

\* The table, index 0 first.
standard_keycodes ==
  << "UNKNOWN", "ESCAPE", "1", "2", "3", "4", "5", "6", "7", "8", "9", "0", "-", "=",
     "backspace", "\t", "q", "w", "e", "r", "t", "y", "u", "i", "o", "p", "[", "]", "\r",
     "LCTRL", "a", "s", "d", "f", "g", "h", "j", "k", "l", ";", "quote", "grave", "LSHIFT",
     "backslash", "z", "x", "c", "v", "b", "n", "m", ",", ".", "/", "RSHIFT", "*", "RALT",
     "space", "CAPSLOCK", "F1", "F2", "F3", "F4", "F5", "F6", "F7", "F8", "F9", "F10",
     "NUMLOCK", "SCROLLLOCK", "HOME", "8", "PAGEUP", "2", "3", "0", ".", "UNKNOWN",
     "UNKNOWN", "UNKNOWN", "F11", "F12" >>

FunctionKeys == {"UNKNOWN", "ESCAPE", "HOME", "PAGEUP", "F1", "F2", "F3", "F4", "F5", "F6",
              "F7", "F8", "F9", "F10", "F11", "F12"}
Locks == {"CAPSLOCK", "NUMLOCK", "SCROLLLOCK"}
Modifiers == {"LCTRL", "RCTRL", "LALT", "RALT", "LSHIFT", "RSHIFT"}

\* Behind the table lies other data, which may look like any key.
KeyOf(scancode) ==
  IF scancode + 1 \in DOMAIN standard_keycodes THEN {standard_keycodes[scancode + 1]}
  ELSE Modifiers \cup Range(standard_keycodes)

NoCharacter == "NUL"
\* What the characters of one list become: those at the same places of another.
Translation(from, to) ==
  [k \in Range(from) |-> to[CHOOSE i \in DOMAIN from : from[i] = k]]
Letters == Translation(
  <<"a", "b", "c", "d", "e", "f", "g", "h", "i", "j", "k", "l", "m", "n", "o", "p", "q", "r",
    "s", "t", "u", "v", "w", "x", "y", "z">>,
  <<"A", "B", "C", "D", "E", "F", "G", "H", "I", "J", "K", "L", "M", "N", "O", "P", "Q", "R",
    "S", "T", "U", "V", "W", "X", "Y", "Z">>)
Symbols == Translation(
  <<"0", "1", "2", "3", "4", "5", "6", "7", "8", "9", ",", ".", "/", ";", "quote", "[", "]",
    "grave", "-", "=", "backslash">>,
  <<")", "!", "@", "#", "$", "%", "^", "&", "*", "(", "<", ">", "?", ":", "quotedouble", "{", "}",
    "tilde", "_", "+", "|">>)

\* Shift turns digits and punctuation, and shift or capslock, but not both,
\* turns letters.
keycode_to_ascii(key) ==
  IF key \in DOMAIN Letters /\ modifiers.shift # modifiers.capslock THEN Letters[key]
  ELSE IF key \in DOMAIN Symbols /\ modifiers.shift THEN Symbols[key]
  ELSE key
----------------------------------------------------------------------------
\* What a modifier key is to the driver.
RoleOf(key) ==
  CASE key \in {"LCTRL", "RCTRL"} -> "ctrl"
    [] key \in {"LALT", "RALT"} -> "alt"
    [] key \in {"LSHIFT", "RSHIFT"} -> "shift"
LockOf(key) ==
  CASE key = "CAPSLOCK" -> "capslock" [] key = "NUMLOCK" -> "numlock"
    [] key = "SCROLLLOCK" -> "scrolllock"

\* Mutant: the right shift key is not released.
BreakRightHeld(key) ==
  modifiers' = IF key \in Modifiers \ {"RSHIFT"} THEN [modifiers EXCEPT ![RoleOf(key)] = FALSE]
               ELSE modifiers

\* A breakcode; final_handler gets no character.
Break(key) ==
  modifiers' = IF key \in Modifiers THEN [modifiers EXCEPT ![RoleOf(key)] = FALSE]
               ELSE modifiers

\* Any other scancode, and the character that final_handler gets with it.
Make(key) ==
  modifiers' = CASE key \in Modifiers -> [modifiers EXCEPT ![RoleOf(key)] = TRUE]
                 [] key \in Locks -> [modifiers EXCEPT ![LockOf(key)] = ~@]
                 [] OTHER -> modifiers
CharacterOf(key) ==
  IF key \in Modifiers \cup Locks \cup FunctionKeys THEN NoCharacter
  ELSE keycode_to_ascii(key)

KeyboardInit ==
  /\ is_keyboard_active = FALSE
  /\ modifiers = [m \in {"ctrl", "alt", "shift", "capslock", "numlock", "scrolllock"} |-> FALSE]

KeyboardTypeOK ==
  /\ is_keyboard_active \in BOOLEAN
  /\ modifiers \in [{"ctrl", "alt", "shift", "capslock", "numlock", "scrolllock"} -> BOOLEAN]
=============================================================================
