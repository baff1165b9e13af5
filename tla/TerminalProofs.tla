--------------------------- MODULE TerminalProofs ---------------------------
(***************************************************************************)
(* For every set of keys that standard_keycodes has an entry for, and      *)
(* every order of pressing and releasing them: no modifier key is stuck    *)
(* once all keys are up.  On every screen made of whole glyphs besides:    *)
(* the cursor and the pixels have their types and, if no key is the tab,   *)
(* the screen shows the prompt's line and what was typed on it, of which   *)
(* backspace takes back nothing but what was typed.                        *)
(***************************************************************************)
EXTENDS Terminal, ArithmeticProofs, SequenceTheorems, TLAPS

\* The keys the user presses have an entry in standard_keycodes.  Behind the
\* table (the right "windows" key, for example) the handler reads other data,
\* which may be a modifier that no release of that key clears.
KeysInTable ==
  \A key \in Keys : /\ key.code \in Nat /\ key.code + 1 \in DOMAIN standard_keycodes
                    /\ key.extended \in BOOLEAN

Roles == {"ctrl", "alt", "shift"}
EntryOf(code) == standard_keycodes[code + 1]

\* The key k is a modifier of role r.
HasRole(k, r) == RoleOf(EntryOf(k.code)) = r
----------------------------------------------------------------------------
(* The inductive invariant.                                                *)

\* What the keyboard may have yet to send: the makecode of a key, which is
\* down if it is a modifier, or the breakcode of a modifier.
CodeOK(code) ==
  \/ \E k \in Keys : code = k.code /\ (k \in HoldKeys => k \in down)
  \/ \E k \in HoldKeys : code = k.code + 128
BytesOK ==
  \/ bytes = <<>>
  \/ \E code \in Nat : CodeOK(code) /\ bytes \in {<<code>>, <<Prefix, code>>}

\* The release of a key of role r is on its way.
ReleaseComes(r) ==
  \E k \in HoldKeys : HasRole(k, r) /\ bytes \in {<<k.code + 128>>, <<Prefix, k.code + 128>>}

\* A modifier that the driver takes for held is held, or its release is
\* still to be read (a driver that is not active would drop it, but then it
\* has not taken any key for held).
Owed(r) == modifiers[r] = TRUE => (\E k \in down : HasRole(k, r)) \/ ReleaseComes(r)

ModifierInv ==
  /\ KeyboardTypeOK /\ down \subseteq HoldKeys /\ BytesOK
  /\ \A r \in Roles : Owed(r)
  /\ ~is_keyboard_active => \A r \in Roles : modifiers[r] = FALSE
----------------------------------------------------------------------------
(* The table and the two operations on the modifiers.                      *)

\* Every scancode with an entry is a makecode, below the breakcodes.
LEMMA TableIsShort ==
  ASSUME NEW code \in Nat, code + 1 \in DOMAIN standard_keycodes
  PROVE  code < 128
BY DEF standard_keycodes

LEMMA KeyOfEntry ==
  ASSUME NEW code \in Nat, code + 1 \in DOMAIN standard_keycodes
  PROVE  KeyOf(code) = {EntryOf(code)}
BY DEF KeyOf, EntryOf

LEMMA RoleTypes ==
  ASSUME NEW key \in Modifiers
  PROVE  RoleOf(key) \in Roles
BY DEF RoleOf, Roles, Modifiers

\* The entry of a key that can be held names a modifier, of one role.
LEMMA HoldKeyRole ==
  ASSUME KeysInTable, NEW k \in HoldKeys
  PROVE  /\ k \in Keys /\ k.code \in Nat /\ k.code < 128
         /\ KeyOf(k.code) = {EntryOf(k.code)} /\ EntryOf(k.code) \in Modifiers
         /\ RoleOf(EntryOf(k.code)) \in Roles
<1>1. k \in Keys /\ KeyOf(k.code) \subseteq Modifiers
  BY DEF HoldKeys
<1>2. k.code \in Nat /\ k.code + 1 \in DOMAIN standard_keycodes
  BY <1>1 DEF KeysInTable
<1>3. k.code < 128 /\ KeyOf(k.code) = {EntryOf(k.code)}
  BY <1>2, TableIsShort, KeyOfEntry
<1>4. EntryOf(k.code) \in Modifiers
  BY <1>1, <1>3
<1>5. QED
  BY <1>1, <1>2, <1>3, <1>4, RoleTypes

\* A breakcode sets nothing, and clears the role of its key.
LEMMA BreakClears ==
  ASSUME KeyboardTypeOK, NEW key, Break(key)
  PROVE  /\ modifiers' \in [{"ctrl", "alt", "shift", "capslock", "numlock", "scrolllock"} -> BOOLEAN]
         /\ \A r \in Roles : modifiers'[r] = TRUE => modifiers[r] = TRUE
         /\ key \in Modifiers => modifiers'[RoleOf(key)] = FALSE
<1>1. CASE key \in Modifiers
  <2>1. modifiers' = [modifiers EXCEPT ![RoleOf(key)] = FALSE]
    BY <1>1 DEF Break
  <2>2. RoleOf(key) \in Roles
    BY <1>1, RoleTypes
  <2>3. QED
    BY <2>1, <2>2 DEF KeyboardTypeOK, Roles
<1>2. CASE key \notin Modifiers
  BY <1>2 DEF Break, KeyboardTypeOK
<1>3. QED
  BY <1>1, <1>2

\* A makecode clears nothing, and sets the role of its key or a lock.
LEMMA MakeSets ==
  ASSUME KeyboardTypeOK, NEW key, Make(key)
  PROVE  /\ modifiers' \in [{"ctrl", "alt", "shift", "capslock", "numlock", "scrolllock"} -> BOOLEAN]
         /\ \A r \in Roles : modifiers'[r] = TRUE =>
              modifiers[r] = TRUE \/ (key \in Modifiers /\ RoleOf(key) = r)
<1>1. CASE key \in Modifiers
  <2>1. modifiers' = [modifiers EXCEPT ![RoleOf(key)] = TRUE]
    <3>1. key \notin Locks
      BY <1>1 DEF Modifiers, Locks
    <3>2. QED
      BY <1>1, <3>1, Zenon DEF Make
  <2>2. RoleOf(key) \in Roles
    BY <1>1, RoleTypes
  <2>3. QED
    BY <1>1, <2>1, <2>2 DEF KeyboardTypeOK, Roles
<1>2. CASE key \in Locks /\ key \notin Modifiers
  <2>1. modifiers' = [modifiers EXCEPT ![LockOf(key)] = ~@]
    BY <1>2, Zenon DEF Make
  <2>2. LockOf(key) \in {"capslock", "numlock", "scrolllock"}
    BY <1>2 DEF LockOf, Locks
  <2>3. QED
    BY <2>1, <2>2 DEF KeyboardTypeOK, Roles
<1>3. CASE key \notin Locks /\ key \notin Modifiers
  BY <1>3 DEF Make, KeyboardTypeOK
<1>4. QED
  BY <1>1, <1>2, <1>3
----------------------------------------------------------------------------
(* The handler.                                                            *)

\* The driver, which is not active, drops a byte.
LEMMA DroppedKeepsInv ==
  ASSUME KeysInTable, ModifierInv, KeyboardIRQ, ~is_keyboard_active
  PROVE  ModifierInv'
<1>1. /\ UNCHANGED <<modifiers, is_keyboard_active, down>> /\ bytes # <<>>
      /\ bytes' = Tail(bytes)
  BY DEF KeyboardIRQ, keyboard_irq_handler
<1>2. BytesOK'
  <2>1. PICK code \in Nat : CodeOK(code) /\ bytes \in {<<code>>, <<Prefix, code>>}
    BY <1>1 DEF ModifierInv, BytesOK
  <2>2. bytes' = <<>> \/ bytes' = <<code>>
    <3>1. CASE bytes = <<code>>
      BY <1>1, <3>1
    <3>2. CASE bytes = <<Prefix, code>>
      BY <1>1, <3>2
    <3>3. QED
      BY <2>1, <3>1, <3>2
  <2>3. CodeOK(code)'
    BY <1>1, <2>1 DEF CodeOK, HoldKeys
  <2>4. QED
    BY <2>2, <2>3 DEF BytesOK
<1>3. \A r \in Roles : modifiers'[r] = FALSE
  BY <1>1 DEF ModifierInv
<1>4. QED
  BY <1>1, <1>2, <1>3 DEF ModifierInv, KeyboardTypeOK, Owed, HoldKeys

\* The makecode of a key with an entry is read.
LEMMA MakecodeKeepsInv ==
  ASSUME KeysInTable, ModifierInv, KeyboardIRQ, is_keyboard_active,
         NEW k \in Keys, bytes = <<k.code>>, k \in HoldKeys => k \in down
  PROVE  ModifierInv'
<1>1. /\ k.code \in Nat /\ k.code < 128 /\ KeyOf(k.code) = {EntryOf(k.code)}
  BY TableIsShort, KeyOfEntry DEF KeysInTable
<1>2. /\ UNCHANGED <<is_keyboard_active, down>> /\ bytes' = <<>>
      /\ Make(EntryOf(k.code))
  BY <1>1 DEF KeyboardIRQ, keyboard_irq_handler
<1>3. KeyboardTypeOK'
  BY <1>2, MakeSets DEF ModifierInv, KeyboardTypeOK
<1>4. ASSUME NEW r \in Roles, modifiers'[r] = TRUE
      PROVE  \E h \in down : HasRole(h, r)
  <2>1. modifiers[r] = TRUE \/ (EntryOf(k.code) \in Modifiers /\ RoleOf(EntryOf(k.code)) = r)
    BY <1>2, <1>4, MakeSets DEF ModifierInv
  <2>2. CASE EntryOf(k.code) \in Modifiers /\ RoleOf(EntryOf(k.code)) = r
    <3>1. k \in HoldKeys
      BY <1>1, <2>2 DEF HoldKeys
    <3>2. QED
      BY <3>1, <2>2 DEF HasRole
  <2>3. CASE modifiers[r] = TRUE
    <3>1. ~ReleaseComes(r)
      <4>1. ASSUME NEW h \in HoldKeys
            PROVE  bytes \notin {<<h.code + 128>>, <<Prefix, h.code + 128>>}
        BY <1>1, HoldKeyRole
      <4>2. QED
        BY <4>1 DEF ReleaseComes
    <3>2. QED
      BY <2>3, <3>1 DEF ModifierInv, Owed
  <2>4. QED
    BY <2>1, <2>2, <2>3
<1>5. QED
  BY <1>2, <1>3, <1>4 DEF ModifierInv, BytesOK, Owed, HoldKeys, HasRole

\* The breakcode of a modifier is read: no other modifier loses a release.
LEMMA BreakcodeKeepsInv ==
  ASSUME KeysInTable, ModifierInv, KeyboardIRQ, is_keyboard_active,
         NEW k \in HoldKeys, bytes = <<k.code + 128>>
  PROVE  ModifierInv'
<1>1. /\ k.code \in Nat /\ KeyOf(k.code) = {EntryOf(k.code)}
      /\ EntryOf(k.code) \in Modifiers
  BY HoldKeyRole
<1>2. /\ UNCHANGED <<is_keyboard_active, down>> /\ bytes' = <<>>
      /\ Break(EntryOf(k.code))
  <2>1. k.code + 128 >= 128 /\ (k.code + 128) - 128 = k.code
    BY <1>1
  <2>2. Head(bytes) = k.code + 128 /\ Tail(bytes) = <<>>
    OBVIOUS
  <2>3. QED
    BY <1>1, <2>1, <2>2 DEF KeyboardIRQ, keyboard_irq_handler
<1>3. KeyboardTypeOK'
  BY <1>2, BreakClears DEF ModifierInv, KeyboardTypeOK
<1>4. ASSUME NEW r \in Roles, modifiers'[r] = TRUE
      PROVE  \E h \in down : HasRole(h, r)
  <2>1. modifiers[r] = TRUE /\ r # RoleOf(EntryOf(k.code))
    BY <1>1, <1>2, <1>4, BreakClears DEF ModifierInv
  <2>2. ~ReleaseComes(r)
    <3>1. ASSUME NEW h \in HoldKeys, bytes \in {<<h.code + 128>>, <<Prefix, h.code + 128>>}
          PROVE  ~HasRole(h, r)
      <4>1. h.code = k.code
        BY <1>1, <3>1, HoldKeyRole
      <4>2. QED
        BY <2>1, <4>1 DEF HasRole
    <3>2. QED
      BY <3>1 DEF ReleaseComes
  <2>3. QED
    BY <2>1, <2>2 DEF ModifierInv, Owed
<1>5. QED
  BY <1>2, <1>3, <1>4 DEF ModifierInv, BytesOK, Owed, HoldKeys, HasRole

\* The prefix is read, as the breakcode of a key that lies behind the table:
\* it may clear any one modifier, and the code it announces is still to come.
LEMMA PrefixKeepsInv ==
  ASSUME KeysInTable, ModifierInv, KeyboardIRQ, is_keyboard_active,
         NEW code \in Nat, CodeOK(code), bytes = <<Prefix, code>>
  PROVE  ModifierInv'
<1>1. PICK key : Break(key)
  BY DEF KeyboardIRQ, keyboard_irq_handler, Prefix
<1>2. UNCHANGED <<is_keyboard_active, down>> /\ bytes' = <<code>>
  BY DEF KeyboardIRQ
<1>3. KeyboardTypeOK'
  BY <1>1, <1>2, BreakClears DEF ModifierInv, KeyboardTypeOK
<1>4. BytesOK'
  <2>1. CodeOK(code)'
    BY <1>2 DEF CodeOK, HoldKeys
  <2>2. QED
    BY <1>2, <2>1 DEF BytesOK
<1>5. ASSUME NEW r \in Roles PROVE Owed(r)'
  <2>1. SUFFICES ASSUME modifiers'[r] = TRUE
                 PROVE  (\E h \in down' : HasRole(h, r)) \/ ReleaseComes(r)'
    BY DEF Owed, HasRole
  <2>2. (\E h \in down : HasRole(h, r)) \/ ReleaseComes(r)
    BY <1>1, <2>1, BreakClears DEF ModifierInv, Owed
  <2>3. CASE \E h \in down : HasRole(h, r)
    BY <1>2, <2>3
  <2>4. CASE ReleaseComes(r)
    <3>1. PICK h \in HoldKeys :
            HasRole(h, r) /\ bytes \in {<<h.code + 128>>, <<Prefix, h.code + 128>>}
      BY <2>4 DEF ReleaseComes
    <3>2. h.code + 128 = code
      BY <3>1
    <3>3. bytes' \in {<<h.code + 128>>, <<Prefix, h.code + 128>>}
      BY <1>2, <3>2
    <3>4. QED
      BY <3>1, <3>3 DEF ReleaseComes, HasRole, HoldKeys
  <2>5. QED
    BY <2>2, <2>3, <2>4
<1>6. QED
  BY <1>2, <1>3, <1>4, <1>5 DEF ModifierInv, HoldKeys

LEMMA KeyboardIRQKeepsInv ==
  ASSUME KeysInTable, ModifierInv, KeyboardIRQ
  PROVE  ModifierInv'
<1>1. CASE ~is_keyboard_active
  BY <1>1, DroppedKeepsInv
<1>2. CASE is_keyboard_active
  <2>1. PICK code \in Nat : CodeOK(code) /\ bytes \in {<<code>>, <<Prefix, code>>}
    BY DEF ModifierInv, BytesOK, KeyboardIRQ
  <2>2. CASE bytes = <<Prefix, code>>
    BY <1>2, <2>1, <2>2, PrefixKeepsInv
  <2>3. CASE bytes = <<code>>
    BY <1>2, <2>1, <2>3, MakecodeKeepsInv, BreakcodeKeepsInv DEF CodeOK
  <2>4. QED
    BY <2>1, <2>2, <2>3
<1>3. QED
  BY <1>1, <1>2
----------------------------------------------------------------------------
(* The shell and the user.                                                 *)

LEMMA StartShellKeepsInv ==
  ASSUME ModifierInv, StartShell
  PROVE  ModifierInv'
<1>1. is_keyboard_active' = TRUE /\ UNCHANGED <<modifiers, down, bytes>>
  BY DEF StartShell
<1>2. BytesOK'
  BY <1>1 DEF ModifierInv, BytesOK, CodeOK, HoldKeys
<1>3. ASSUME NEW r \in Roles PROVE Owed(r)'
  BY <1>1 DEF ModifierInv, Owed, ReleaseComes, HoldKeys, HasRole
<1>4. QED
  BY <1>1, <1>2, <1>3 DEF ModifierInv, KeyboardTypeOK, HoldKeys

LEMMA TwoBytes ==
  ASSUME NEW a \in Nat, NEW b \in Nat
  PROVE  <<a>> \o <<b>> = <<a, b>>
<1> DEFINE s == <<a>> \o <<b>>
           t == <<a, b>>
<1>1. s \in Seq(Nat) /\ t \in Seq(Nat) /\ Len(s) = 2 /\ Len(t) = 2
  OBVIOUS
<1>2. s[1] = t[1] /\ s[2] = t[2]
  OBVIOUS
<1>3. \A i \in 1 .. Len(s) : s[i] = t[i]
  BY <1>1, <1>2
<1> HIDE DEF s, t
<1>4. s = t
  BY <1>1, <1>3, SeqEqual
<1>5. QED
  BY <1>4 DEF s, t

\* What Send leaves for the driver to read.
LEMMA SentBytes ==
  ASSUME NEW key, key.extended \in BOOLEAN, NEW code \in Nat, Send(key, code)
  PROVE  bytes' \in {<<code>>, <<Prefix, code>>}
<1>1. CASE key.extended
  <2>1. bytes' = <<Prefix>> \o <<code>>
    BY <1>1 DEF Send
  <2>2. Prefix \in Nat
    BY DEF Prefix
  <2>3. <<Prefix>> \o <<code>> = <<Prefix, code>>
    BY <2>2, TwoBytes
  <2>4. QED
    BY <2>1, <2>3
<1>2. CASE ~key.extended
  <2>1. bytes' = <<>> \o <<code>>
    BY <1>2 DEF Send
  <2>2. QED
    BY <2>1
<1>3. QED
  BY <1>1, <1>2

LEMMA PressKeepsInv ==
  ASSUME KeysInTable, ModifierInv, NEW key \in Keys, Press(key)
  PROVE  ModifierInv'
<1>1. /\ UNCHANGED <<is_keyboard_active, modifiers>> /\ bytes = <<>>
      /\ down' = IF key \in HoldKeys THEN down \cup {key} ELSE down
  BY DEF Press, keyboardVars
<1>2. bytes' \in {<<key.code>>, <<Prefix, key.code>>} /\ key.code \in Nat
  BY SentBytes DEF Press, KeysInTable
<1>3. BytesOK'
  <2>1. CodeOK(key.code)'
    BY <1>1 DEF CodeOK, HoldKeys
  <2>2. QED
    BY <1>2, <2>1 DEF BytesOK
<1>4. ASSUME NEW r \in Roles PROVE Owed(r)'
  <2>1. ~ReleaseComes(r)
    BY <1>1 DEF ReleaseComes
  <2>2. QED
    BY <1>1, <2>1 DEF ModifierInv, Owed, HasRole
<1>5. QED
  BY <1>1, <1>3, <1>4 DEF ModifierInv, KeyboardTypeOK, HoldKeys

\* A key that goes up leaves its release to be read.
LEMMA ReleaseKeepsInv ==
  ASSUME KeysInTable, ModifierInv, NEW key \in Keys, Release(key)
  PROVE  ModifierInv'
<1>1. /\ UNCHANGED <<is_keyboard_active, modifiers>> /\ bytes = <<>>
      /\ key \in down /\ down' = down \ {key}
  BY DEF Release, keyboardVars
<1>2. key \in HoldKeys
  BY <1>1 DEF ModifierInv
<1>3. bytes' \in {<<key.code + 128>>, <<Prefix, key.code + 128>>} /\ key.code + 128 \in Nat
  BY SentBytes DEF Release, KeysInTable
<1>4. BytesOK'
  <2>1. CodeOK(key.code + 128)'
    BY <1>2 DEF CodeOK, HoldKeys
  <2>2. QED
    BY <1>3, <2>1 DEF BytesOK
<1>5. ASSUME NEW r \in Roles PROVE Owed(r)'
  <2>1. SUFFICES ASSUME modifiers[r] = TRUE
                 PROVE  (\E h \in down' : HasRole(h, r)) \/ ReleaseComes(r)'
    BY <1>1 DEF Owed, HasRole
  <2>2. ~ReleaseComes(r)
    BY <1>1 DEF ReleaseComes
  <2>3. PICK h \in down : HasRole(h, r)
    BY <2>1, <2>2 DEF ModifierInv, Owed
  <2>4. CASE h = key
    BY <1>2, <1>3, <2>3, <2>4 DEF ReleaseComes, HoldKeys, HasRole
  <2>5. CASE h # key
    BY <1>1, <2>3, <2>5
  <2>6. QED
    BY <2>4, <2>5
<1>6. QED
  BY <1>1, <1>4, <1>5 DEF ModifierInv, KeyboardTypeOK, HoldKeys
----------------------------------------------------------------------------
(* The invariance, and what follows.                                       *)

LEMMA InitInv ==
  ASSUME Init
  PROVE  ModifierInv
BY DEF Init, KeyboardInit, ModifierInv, KeyboardTypeOK, BytesOK, Owed, Roles

LEMMA NextKeepsInv ==
  ASSUME KeysInTable, ModifierInv, [Next]_vars
  PROVE  ModifierInv'
<1>1. CASE KeyboardIRQ
  BY <1>1, KeyboardIRQKeepsInv
<1>2. CASE StartShell
  BY <1>2, StartShellKeepsInv
<1>3. ASSUME NEW key \in Keys, Press(key) PROVE ModifierInv'
  BY <1>3, PressKeepsInv
<1>4. ASSUME NEW key \in Keys, Release(key) PROVE ModifierInv'
  BY <1>4, ReleaseKeepsInv
<1>5. CASE UNCHANGED vars
  BY <1>5 DEF vars, ModifierInv, KeyboardTypeOK, BytesOK, CodeOK, Owed, ReleaseComes,
              HoldKeys, HasRole
<1>6. QED
  BY <1>1, <1>2, <1>3, <1>4, <1>5 DEF Next

\* The property NoModifierStuck: when all keys are up and the driver has read
\* what the keyboard sent (keyboard_irq_handler, keyboard.c:165-199), it takes
\* no modifier for held: not after left and right keys were held together,
\* not when a prefix byte was taken for another key's release, and not when
\* keys went down before the shell activated the driver.
THEOREM ModifiersAreReleased ==
  ASSUME KeysInTable
  PROVE  Spec => []NoModifierStuck
<1>1. ModifierInv => NoModifierStuck
  BY DEF ModifierInv, NoModifierStuck, Owed, ReleaseComes, Roles
<1>2. QED
  BY <1>1, InitInv, NextKeepsInv, PTL DEF Spec
----------------------------------------------------------------------------
(* The screen as a row of places for glyphs.                               *)

\* The screen is made of whole glyphs.
ScreenOfGlyphs == FbWidth % GlyphWidth = 0 /\ FbHeight % GlyphHeight = 0

Lines == FbHeight \div GlyphHeight
Size  == Lines * RowLength

RowOf(d)   == d.y \div GlyphHeight
ColOf(d)   == d.x \div GlyphWidth
PlaceOf(d) == RowOf(d) * RowLength + ColOf(d)

\* The displays that printing makes: the cursor is in front of a glyph, or
\* behind the last one of a line, or below the screen at its left.
Displays ==
  {d \in [fb : [Rows -> [Columns -> Characters]], x : 0 .. FbWidth, y : 0 .. FbHeight] :
     \E row \in 0 .. Lines, col \in 0 .. RowLength :
       d.x = col * GlyphWidth /\ d.y = row * GlyphHeight /\ (row = Lines => col = 0)}

\* The glyph at a place shows the character.
ShownIn(fb, row, col, char) ==
  \A r \in (row * GlyphHeight) .. (row * GlyphHeight + GlyphHeight - 1),
     c \in (col * GlyphWidth) .. (col * GlyphWidth + GlyphWidth - 1) : fb[r][c] = char
Shown(fb, place, char) == ShownIn(fb, place \div RowLength, place % RowLength, char)

\* The display shows the line in front of its cursor, up to the screen's top.
Shows(d, line) ==
  \A n \in 1 .. Len(line) :
    PlaceOf(d) - n < 0 \/ Shown(d.fb, PlaceOf(d) - n, line[Len(line) + 1 - n])

\* What framebuffer_print_char makes of a display before it looks at the character.
Settled(d) == Scroll(Wrap(d))
InFront(d) == ColOf(d) < RowLength /\ RowOf(d) < Lines

LEMMA Screen ==
  ASSUME ScreenOfGlyphs
  PROVE  /\ RowLength \in Nat \ {0} /\ Lines \in Nat /\ Lines >= 2 /\ Size \in Nat
         /\ GlyphWidth \in Nat \ {0} /\ GlyphHeight \in Nat \ {0}
         /\ FbWidth \in Nat /\ FbHeight \in Nat
         /\ FbWidth = RowLength * GlyphWidth /\ FbHeight = Lines * GlyphHeight
  <1>1. /\ FbWidth \in Nat /\ FbHeight \in Nat /\ FbWidth >= GlyphWidth
        /\ FbHeight >= 2 * GlyphHeight
        /\ GlyphWidth \in Nat \ {0} /\ GlyphHeight \in Nat \ {0}
    BY ConsoleAssumption
  <1>2. /\ RowLength \in Int /\ FbWidth = GlyphWidth * RowLength
        /\ Lines \in Int /\ FbHeight = GlyphHeight * Lines
    BY <1>1, DivisionWithRemainder DEF ScreenOfGlyphs, RowLength, Lines
  <1>3. RowLength >= 1
    <2>1. 1 * GlyphWidth <= RowLength * GlyphWidth
      BY <1>1, <1>2
    <2>2. 1 <= RowLength
      BY <1>1, <1>2, <2>1, CancelFactor
    <2>. QED  BY <1>2, <2>2
  <1>4. Lines >= 2
    <2>1. 2 * GlyphHeight <= Lines * GlyphHeight
      BY <1>1, <1>2
    <2>2. 2 <= Lines
      BY <1>1, <1>2, <2>1, CancelFactor
    <2>. QED  BY <1>2, <2>2
  <1>5. Size \in Nat
    BY <1>2, <1>3, <1>4 DEF Size
  <1>. QED  BY <1>1, <1>2, <1>3, <1>4, <1>5

\* A cursor at a row and a column of glyphs.
LEMMA CursorAt ==
  ASSUME ScreenOfGlyphs, NEW d, NEW row \in Int, NEW col \in Int,
         d.x = col * GlyphWidth, d.y = row * GlyphHeight
  PROVE  RowOf(d) = row /\ ColOf(d) = col /\ PlaceOf(d) = row * RowLength + col
  <1>1. GlyphWidth \in Nat \ {0} /\ GlyphHeight \in Nat \ {0}
    BY Screen
  <1>2. /\ col * GlyphWidth \in Int /\ col * GlyphWidth = GlyphWidth * col + 0
        /\ row * GlyphHeight \in Int /\ row * GlyphHeight = GlyphHeight * row + 0
    BY <1>1
  <1>3. (col * GlyphWidth) \div GlyphWidth = col
    BY <1>1, <1>2, QuotientUnique
  <1>4. (row * GlyphHeight) \div GlyphHeight = row
    BY <1>1, <1>2, QuotientUnique
  <1>. QED  BY <1>3, <1>4 DEF RowOf, ColOf, PlaceOf

LEMMA Cursor ==
  ASSUME ScreenOfGlyphs, NEW d \in Displays
  PROVE  /\ d.fb \in [Rows -> [Columns -> Characters]]
         /\ RowOf(d) \in 0 .. Lines /\ ColOf(d) \in 0 .. RowLength
         /\ d.x = ColOf(d) * GlyphWidth /\ d.y = RowOf(d) * GlyphHeight
         /\ RowOf(d) = Lines => ColOf(d) = 0
         /\ PlaceOf(d) = RowOf(d) * RowLength + ColOf(d)
         /\ d = [fb |-> d.fb, x |-> d.x, y |-> d.y]
  <1>1. PICK row \in 0 .. Lines, col \in 0 .. RowLength :
          d.x = col * GlyphWidth /\ d.y = row * GlyphHeight /\ (row = Lines => col = 0)
    BY DEF Displays
  <1>2. Lines \in Nat /\ RowLength \in Nat
    BY Screen
  <1>3. RowOf(d) = row /\ ColOf(d) = col
    BY <1>1, <1>2, CursorAt
  <1>4. d \in [fb : [Rows -> [Columns -> Characters]], x : 0 .. FbWidth, y : 0 .. FbHeight]
    BY DEF Displays
  <1>5. d.fb \in [Rows -> [Columns -> Characters]] /\ d = [fb |-> d.fb, x |-> d.x, y |-> d.y]
    BY <1>4
  <1>. QED  BY <1>1, <1>2, <1>3, <1>5 DEF PlaceOf

\* A display with its cursor in front of the glyph at a row and a column, or
\* behind the line.
LEMMA IsDisplay ==
  ASSUME ScreenOfGlyphs, NEW fb \in [Rows -> [Columns -> Characters]], NEW x, NEW y,
         NEW row \in 0 .. Lines, NEW col \in 0 .. RowLength, row = Lines => col = 0,
         x = col * GlyphWidth, y = row * GlyphHeight
  PROVE  LET d == [fb |-> fb, x |-> x, y |-> y]
         IN /\ d \in Displays /\ RowOf(d) = row /\ ColOf(d) = col
            /\ PlaceOf(d) = row * RowLength + col
  <1>. DEFINE d == [fb |-> fb, x |-> x, y |-> y]
  <1>1. /\ Lines \in Nat /\ RowLength \in Nat /\ GlyphWidth \in Nat /\ GlyphHeight \in Nat
        /\ FbWidth \in Nat /\ FbHeight \in Nat
        /\ FbWidth = RowLength * GlyphWidth /\ FbHeight = Lines * GlyphHeight
    BY Screen
  <1>2. col * GlyphWidth \in 0 .. FbWidth
    BY <1>1
  <1>3. row * GlyphHeight \in 0 .. FbHeight
    BY <1>1
  <1>4. d.x = col * GlyphWidth /\ d.y = row * GlyphHeight /\ d.fb = fb
    OBVIOUS
  <1>5. d \in [fb : [Rows -> [Columns -> Characters]], x : 0 .. FbWidth, y : 0 .. FbHeight]
    BY <1>2, <1>3
  <1>. HIDE DEF d
  <1>6. d \in Displays
    BY <1>4, <1>5 DEF Displays
  <1>7. RowOf(d) = row /\ ColOf(d) = col /\ PlaceOf(d) = row * RowLength + col
    <2>1. row \in Int /\ col \in Int
      BY <1>1
    <2>. QED  BY <1>4, <2>1, CursorAt
  <1>. QED  BY <1>6, <1>7 DEF d
----------------------------------------------------------------------------
(* What drawing and scrolling do to the places.                            *)

\* The places of the screen, and the glyphs at them.
LEMMA PlaceOnScreen ==
  ASSUME ScreenOfGlyphs, NEW p \in 0 .. (Size - 1)
  PROVE  /\ p \div RowLength \in 0 .. (Lines - 1) /\ p % RowLength \in 0 .. (RowLength - 1)
         /\ p = RowLength * (p \div RowLength) + (p % RowLength)
  <1>1. RowLength \in Nat \ {0} /\ Lines \in Nat /\ Size = RowLength * Lines /\ Size \in Nat
    BY Screen DEF Size
  <1>2. p \in Nat /\ p < RowLength * Lines
    BY <1>1
  <1>. QED  BY <1>1, <1>2, QuotientBelow

LEMMA PlaceOfGlyph ==
  ASSUME ScreenOfGlyphs, NEW row \in Int, NEW col \in 0 .. (RowLength - 1)
  PROVE  /\ (row * RowLength + col) \div RowLength = row
         /\ (row * RowLength + col) % RowLength = col
  <1>. DEFINE p == row * RowLength + col
  <1>1. RowLength \in Nat \ {0}
    BY Screen
  <1>2. p \in Int /\ p = RowLength * row + col /\ col \in Int
    BY <1>1
  <1>3. p \div RowLength \in Int /\ p % RowLength \in 0 .. (RowLength - 1)
        /\ p = RowLength * (p \div RowLength) + (p % RowLength)
    BY <1>1, <1>2, DivisionWithRemainder
  <1>. HIDE DEF p
  <1>4. p \div RowLength = row
    BY <1>1, <1>2, QuotientUnique
  <1>5. p % RowLength = col
    <2>1. p % RowLength \in Int
      BY <1>1, <1>3
    <2>. QED  BY <1>1, <1>2, <1>3, <1>4, <2>1
  <1>. QED  BY <1>4, <1>5 DEF p

\* The pixels of a glyph.
LEMMA GlyphOnScreen ==
  ASSUME ScreenOfGlyphs, NEW row \in 0 .. (Lines - 1), NEW col \in 0 .. (RowLength - 1),
         NEW r \in (row * GlyphHeight) .. (row * GlyphHeight + GlyphHeight - 1),
         NEW c \in (col * GlyphWidth) .. (col * GlyphWidth + GlyphWidth - 1)
  PROVE  r \in Rows /\ c \in Columns
  <1>1. /\ Lines \in Nat /\ RowLength \in Nat /\ GlyphWidth \in Nat /\ GlyphHeight \in Nat
        /\ FbWidth \in Nat /\ FbHeight \in Nat
        /\ FbWidth = RowLength * GlyphWidth /\ FbHeight = Lines * GlyphHeight
    BY Screen
  <1>2. /\ row * GlyphHeight \in Nat /\ col * GlyphWidth \in Nat
        /\ row * GlyphHeight + GlyphHeight <= FbHeight
        /\ col * GlyphWidth + GlyphWidth <= FbWidth
    <2>1. row < Lines /\ col < RowLength /\ row \in Nat /\ col \in Nat
      BY <1>1
    <2>. QED  BY <1>1, <2>1, ProductGap
  <1>. HIDE DEF Lines, RowLength
  <1>. DEFINE top == row * GlyphHeight
              left == col * GlyphWidth
  <1>3. r \in top .. (top + GlyphHeight - 1) /\ c \in left .. (left + GlyphWidth - 1)
    OBVIOUS
  <1>4. top \in Nat /\ left \in Nat /\ top + GlyphHeight <= FbHeight /\ left + GlyphWidth <= FbWidth
    BY <1>2
  <1>. HIDE DEF top, left
  <1>. QED  BY <1>1, <1>3, <1>4 DEF Rows, Columns

\* A pixel of two glyphs is of the same row and column.
LEMMA OneGlyph ==
  ASSUME ScreenOfGlyphs, NEW size \in Nat \ {0}, NEW k \in Int, NEW l \in Int,
         NEW z \in (k * size) .. (k * size + size - 1),
         z \in (l * size) .. (l * size + size - 1)
  PROVE  k = l
  <1>. DEFINE a == k * size
              b == l * size
  <1>1. a \in Int /\ b \in Int
    OBVIOUS
  <1>2. k < l => a + size <= b
    BY ProductGap
  <1>3. l < k => b + size <= a
    BY ProductGap
  <1>4. z \in a .. (a + size - 1) /\ z \in b .. (b + size - 1)
    OBVIOUS
  <1>. HIDE DEF a, b
  <1>5. ~(k < l) /\ ~(l < k)
    BY <1>1, <1>2, <1>3, <1>4
  <1>. QED  BY <1>5

\* ssfn_putc of a character with a glyph.
LEMMA PutGlyph ==
  ASSUME ScreenOfGlyphs, NEW d \in Displays, InFront(d), NEW char \in Characters, char # "\n"
  PROVE  /\ ssfn_putc(d, char) \in Displays
         /\ RowOf(ssfn_putc(d, char)) = RowOf(d) /\ ColOf(ssfn_putc(d, char)) = ColOf(d) + 1
         /\ PlaceOf(ssfn_putc(d, char)) = PlaceOf(d) + 1
         /\ Shown(ssfn_putc(d, char).fb, PlaceOf(d), char)
         /\ \A p \in 0 .. (Size - 1) : \A v :
              p # PlaceOf(d) /\ Shown(d.fb, p, v) => Shown(ssfn_putc(d, char).fb, p, v)
  <1>. DEFINE row == RowOf(d)
              col == ColOf(d)
              fb == [r \in Rows |-> [c \in Columns |-> IF Covers(d, r, c) THEN char ELSE d.fb[r][c]]]
              e == ssfn_putc(d, char)
  <1>1. /\ RowLength \in Nat \ {0} /\ Lines \in Nat /\ Size \in Nat
        /\ GlyphWidth \in Nat \ {0} /\ GlyphHeight \in Nat \ {0}
    BY Screen
  <1>2. /\ d.fb \in [Rows -> [Columns -> Characters]]
        /\ row \in 0 .. (Lines - 1) /\ col \in 0 .. (RowLength - 1)
        /\ d.x = col * GlyphWidth /\ d.y = row * GlyphHeight
        /\ PlaceOf(d) = row * RowLength + col
    BY <1>1, Cursor DEF InFront
  <1>3. e = [fb |-> fb, x |-> d.x + GlyphWidth, y |-> d.y]
    BY DEF ssfn_putc
  <1>4. fb \in [Rows -> [Columns -> Characters]]
    BY <1>2
  <1>5. \A r, c : Covers(d, r, c) <=>
          /\ r \in (row * GlyphHeight) .. (row * GlyphHeight + GlyphHeight - 1)
          /\ c \in (col * GlyphWidth) .. (col * GlyphWidth + GlyphWidth - 1)
    BY <1>2, Zenon DEF Covers
  <1>6. \A r \in Rows, c \in Columns : fb[r][c] = IF Covers(d, r, c) THEN char ELSE d.fb[r][c]
    OBVIOUS
  <1>. HIDE DEF fb, row, col
  <1>7. e.fb = fb
    BY <1>3
  <1>8. /\ e \in Displays /\ RowOf(e) = row /\ ColOf(e) = col + 1
        /\ PlaceOf(e) = row * RowLength + (col + 1)
    <2>1. row \in 0 .. Lines /\ row # Lines /\ col + 1 \in 0 .. RowLength
      BY <1>1, <1>2
    <2>2. d.x + GlyphWidth = (col + 1) * GlyphWidth /\ d.y = row * GlyphHeight
      BY <1>1, <1>2
    <2>. QED  BY <1>3, <1>4, <2>1, <2>2, IsDisplay
  <1>9. Shown(fb, PlaceOf(d), char)
    <2>1. PlaceOf(d) \div RowLength = row /\ PlaceOf(d) % RowLength = col
      BY <1>1, <1>2, PlaceOfGlyph
    <2>2. ShownIn(fb, row, col, char)
      BY <1>1, <1>2, <1>5, <1>6, GlyphOnScreen DEF ShownIn
    <2>. QED  BY <2>1, <2>2 DEF Shown
  <1>10. ASSUME NEW p \in 0 .. (Size - 1), NEW v, p # PlaceOf(d), Shown(d.fb, p, v)
         PROVE  Shown(fb, p, v)
    <2>. DEFINE prow == p \div RowLength
                pcol == p % RowLength
    <2>1. /\ prow \in 0 .. (Lines - 1) /\ pcol \in 0 .. (RowLength - 1)
          /\ p = RowLength * prow + pcol
      BY PlaceOnScreen
    <2>2. ShownIn(d.fb, prow, pcol, v)
      BY <1>10 DEF Shown
    <2>. HIDE DEF prow, pcol
    <2>3. ~(prow = row /\ pcol = col)
      <3>1. SUFFICES ASSUME prow = row, pcol = col PROVE FALSE
        OBVIOUS
      <3>2. p = row * RowLength + col
        BY <1>1, <1>2, <2>1, <3>1
      <3>. QED  BY <1>2, <1>10, <3>2
    <2>4. ASSUME NEW r \in (prow * GlyphHeight) .. (prow * GlyphHeight + GlyphHeight - 1),
                 NEW c \in (pcol * GlyphWidth) .. (pcol * GlyphWidth + GlyphWidth - 1)
          PROVE  fb[r][c] = v
      <3>1. r \in Rows /\ c \in Columns
        BY <2>1, GlyphOnScreen
      <3>2. ~Covers(d, r, c)
        <4>1. SUFFICES ASSUME Covers(d, r, c) PROVE FALSE
          OBVIOUS
        <4>2. /\ r \in (row * GlyphHeight) .. (row * GlyphHeight + GlyphHeight - 1)
              /\ c \in (col * GlyphWidth) .. (col * GlyphWidth + GlyphWidth - 1)
          BY <1>5, <4>1, Zenon
        <4>3. row \in Int /\ col \in Int /\ prow \in Int /\ pcol \in Int
          BY <1>1, <1>2, <2>1
        <4>4. prow = row
          BY <1>1, <4>2, <4>3, OneGlyph
        <4>5. pcol = col
          BY <1>1, <4>2, <4>3, OneGlyph
        <4>. QED  BY <2>3, <4>4, <4>5
      <3>3. d.fb[r][c] = v
        BY <2>2 DEF ShownIn
      <3>. QED  BY <1>6, <3>1, <3>2, <3>3
    <2>5. ShownIn(fb, prow, pcol, v)
      BY <2>4 DEF ShownIn
    <2>. QED  BY <2>5 DEF Shown, prow, pcol
  <1>11. PlaceOf(e) = PlaceOf(d) + 1
    <2>1. row * RowLength \in Int /\ col \in Int
      BY <1>1, <1>2
    <2>. QED  BY <1>2, <1>8, <2>1
  <1>. HIDE DEF e
  <1>12. /\ e \in Displays /\ RowOf(e) = RowOf(d) /\ ColOf(e) = ColOf(d) + 1
         /\ PlaceOf(e) = PlaceOf(d) + 1 /\ Shown(e.fb, PlaceOf(d), char)
    BY <1>7, <1>8, <1>9, <1>11 DEF row, col
  <1>13. \A p \in 0 .. (Size - 1) : \A v :
           p # PlaceOf(d) /\ Shown(d.fb, p, v) => Shown(e.fb, p, v)
    BY <1>7, <1>10
  <1>. QED  BY <1>12, <1>13 DEF e

\* "here too problematic": the cursor behind the end of a line goes to the next.
LEMMA Wrapping ==
  ASSUME ScreenOfGlyphs, NEW d \in Displays
  PROVE  /\ ColOf(d) < RowLength => Wrap(d) = d
         /\ ColOf(d) = RowLength =>
              /\ Wrap(d) = [fb |-> d.fb, x |-> 0, y |-> (RowOf(d) + 1) * GlyphHeight]
              /\ Wrap(d) \in Displays /\ RowOf(Wrap(d)) = RowOf(d) + 1 /\ ColOf(Wrap(d)) = 0
  <1>1. /\ RowLength \in Nat \ {0} /\ Lines \in Nat /\ FbWidth \in Nat
        /\ GlyphWidth \in Nat \ {0} /\ GlyphHeight \in Nat \ {0}
        /\ FbWidth = RowLength * GlyphWidth
    BY Screen
  <1>2. /\ d.fb \in [Rows -> [Columns -> Characters]]
        /\ RowOf(d) \in 0 .. Lines /\ ColOf(d) \in 0 .. RowLength
        /\ d.x = ColOf(d) * GlyphWidth /\ d.y = RowOf(d) * GlyphHeight
        /\ RowOf(d) = Lines => ColOf(d) = 0
        /\ d = [fb |-> d.fb, x |-> d.x, y |-> d.y]
    BY Cursor
  <1>3. ASSUME ColOf(d) < RowLength PROVE Wrap(d) = d
    <2>1. d.x + GlyphWidth <= FbWidth
      BY <1>1, <1>2, <1>3, ProductGap
    <2>2. d.x \in Int
      BY <1>1, <1>2
    <2>3. ~(d.x + GlyphWidth > FbWidth)
      BY <1>1, <2>1, <2>2
    <2>. QED  BY <2>3 DEF Wrap
  <1>4. ASSUME ColOf(d) = RowLength
        PROVE  /\ Wrap(d) = [fb |-> d.fb, x |-> 0, y |-> (RowOf(d) + 1) * GlyphHeight]
               /\ Wrap(d) \in Displays /\ RowOf(Wrap(d)) = RowOf(d) + 1 /\ ColOf(Wrap(d)) = 0
    <2>1. d.x + GlyphWidth > FbWidth
      BY <1>1, <1>2, <1>4
    <2>2. Wrap(d) = [d EXCEPT !.x = 0, !.y = @ + GlyphHeight]
      BY <2>1 DEF Wrap
    <2>3. d.y + GlyphHeight = (RowOf(d) + 1) * GlyphHeight
      BY <1>1, <1>2
    <2>4. Wrap(d) = [fb |-> d.fb, x |-> 0, y |-> (RowOf(d) + 1) * GlyphHeight]
      BY <1>2, <2>2, <2>3
    <2>5. RowOf(d) + 1 \in 0 .. Lines /\ 0 \in 0 .. RowLength /\ 0 = 0 * GlyphWidth
      BY <1>1, <1>2, <1>4
    <2>6. (RowOf(d) + 1) * GlyphHeight = (RowOf(d) + 1) * GlyphHeight
      OBVIOUS
    <2>. QED  BY <1>2, <2>4, <2>5, <2>6, IsDisplay
  <1>. QED  BY <1>3, <1>4

\* "this is problematic": a cursor below the screen goes up with all lines.
LEMMA Scrolling ==
  ASSUME ScreenOfGlyphs, NEW d \in Displays
  PROVE  /\ RowOf(d) < Lines => Scroll(d) = d
         /\ RowOf(d) = Lines =>
              /\ Scroll(d) \in Displays /\ RowOf(Scroll(d)) = Lines - 1 /\ ColOf(Scroll(d)) = 0
              /\ \A p \in RowLength .. (Size - 1) : \A v :
                   Shown(d.fb, p, v) => Shown(Scroll(d).fb, p - RowLength, v)
  <1>1. /\ RowLength \in Nat \ {0} /\ Lines \in Nat /\ Lines >= 2
        /\ FbWidth \in Nat /\ FbHeight \in Nat /\ Size \in Nat
        /\ GlyphWidth \in Nat \ {0} /\ GlyphHeight \in Nat \ {0}
        /\ FbHeight = Lines * GlyphHeight
    BY Screen
  <1>2. /\ d.fb \in [Rows -> [Columns -> Characters]]
        /\ RowOf(d) \in 0 .. Lines /\ ColOf(d) \in 0 .. RowLength
        /\ d.x = ColOf(d) * GlyphWidth /\ d.y = RowOf(d) * GlyphHeight
        /\ d = [fb |-> d.fb, x |-> d.x, y |-> d.y]
    BY Cursor
  <1>3. ASSUME RowOf(d) < Lines PROVE Scroll(d) = d
    <2>1. d.y + GlyphHeight <= FbHeight
      BY <1>1, <1>2, <1>3, ProductGap
    <2>2. d.y \in Int
      BY <1>1, <1>2
    <2>3. ~(d.y >= FbHeight)
      BY <1>1, <2>1, <2>2
    <2>. QED  BY <2>3 DEF Scroll
  <1>4. ASSUME RowOf(d) = Lines
        PROVE  /\ Scroll(d) \in Displays /\ RowOf(Scroll(d)) = Lines - 1 /\ ColOf(Scroll(d)) = 0
               /\ \A p \in RowLength .. (Size - 1) : \A v :
                    Shown(d.fb, p, v) => Shown(Scroll(d).fb, p - RowLength, v)
    <2>. DEFINE e == [d EXCEPT !.x = 0, !.y = FbHeight - GlyphHeight]
                fb == [r \in Rows |-> IF r + GlyphHeight \in Rows THEN d.fb[r + GlyphHeight]
                                      ELSE [c \in Columns |-> Blank]]
    <2>1. d.y >= FbHeight
      BY <1>1, <1>2, <1>4
    <2>2. Scroll(d) = framebuffer_move_one_row_up(e)
      BY <2>1 DEF Scroll
    <2>3. e = [fb |-> d.fb, x |-> 0, y |-> FbHeight - GlyphHeight]
      <3>1. e = [d EXCEPT !.x = 0, !.y = FbHeight - GlyphHeight]
        OBVIOUS
      <3>2. d = [fb |-> d.fb, x |-> d.x, y |-> d.y]
        BY <1>2
      <3>. HIDE DEF e
      <3>. QED  BY <3>1, <3>2
    <2>. HIDE DEF e
    <2>4. framebuffer_move_one_row_up(e) = [fb |-> fb, x |-> 0, y |-> FbHeight - GlyphHeight]
      BY <2>3 DEF framebuffer_move_one_row_up
    <2>5. fb \in [Rows -> [Columns -> Characters]]
      <3>1. d.fb \in [Rows -> [Columns -> Characters]]
        BY <1>2
      <3>2. Blank \in Characters
        BY DEF Characters
      <3>. HIDE DEF e
      <3>. QED  BY <3>1, <3>2
    <2>6. \A r \in Rows : r + GlyphHeight \in Rows => fb[r] = d.fb[r + GlyphHeight]
      OBVIOUS
    <2>. HIDE DEF fb
    <2>7. /\ Lines - 1 \in 0 .. Lines /\ 0 \in 0 .. RowLength /\ 0 = 0 * GlyphWidth
          /\ FbHeight - GlyphHeight = (Lines - 1) * GlyphHeight
      BY <1>1
    <2>8. Scroll(d) \in Displays /\ RowOf(Scroll(d)) = Lines - 1 /\ ColOf(Scroll(d)) = 0
      BY <2>2, <2>4, <2>5, <2>7, IsDisplay
    <2>9. Scroll(d).fb = fb
      BY <2>2, <2>4
    <2>10. ASSUME NEW p \in RowLength .. (Size - 1), NEW v, Shown(d.fb, p, v)
           PROVE  Shown(fb, p - RowLength, v)
      <3>. DEFINE row == p \div RowLength
                  col == p % RowLength
      <3>1. /\ row \in 0 .. (Lines - 1) /\ col \in 0 .. (RowLength - 1)
            /\ p = RowLength * row + col
        <4>1. p \in 0 .. (Size - 1)
          BY <1>1
        <4>. QED  BY <4>1, PlaceOnScreen
      <3>2. ShownIn(d.fb, row, col, v)
        BY <2>10 DEF Shown
      <3>. HIDE DEF row, col
      <3>3. p - RowLength = (row - 1) * RowLength + col /\ row - 1 \in Int
        BY <1>1, <3>1
      <3>4. (p - RowLength) \div RowLength = row - 1 /\ (p - RowLength) % RowLength = col
        BY <3>1, <3>3, PlaceOfGlyph
      <3>5. row # 0
        BY <1>1, <3>1
      <3>6. ShownIn(fb, row - 1, col, v)
        <4>1. ASSUME NEW r \in ((row - 1) * GlyphHeight) .. ((row - 1) * GlyphHeight + GlyphHeight - 1),
                     NEW c \in (col * GlyphWidth) .. (col * GlyphWidth + GlyphWidth - 1)
              PROVE  fb[r][c] = v
          <5>1. row - 1 \in 0 .. (Lines - 1)
            BY <1>1, <3>1, <3>5
          <5>2. r \in Rows /\ c \in Columns
            BY <3>1, <5>1, GlyphOnScreen
          <5>3. r + GlyphHeight \in (row * GlyphHeight) .. (row * GlyphHeight + GlyphHeight - 1)
            <6>. DEFINE top == row * GlyphHeight
                        up == (row - 1) * GlyphHeight
            <6>1. top \in Int /\ up \in Int /\ top = up + GlyphHeight
              BY <1>1, <3>1
            <6>2. r \in up .. (up + GlyphHeight - 1)
              OBVIOUS
            <6>. HIDE DEF top, up
            <6>3. r + GlyphHeight \in top .. (top + GlyphHeight - 1)
              BY <1>1, <6>1, <6>2
            <6>. QED  BY <6>3 DEF top
          <5>4. r + GlyphHeight \in Rows
            BY <3>1, <5>3, GlyphOnScreen
          <5>5. d.fb[r + GlyphHeight][c] = v
            BY <3>2, <5>3 DEF ShownIn
          <5>. QED  BY <2>6, <5>2, <5>4, <5>5
        <4>. QED  BY <4>1 DEF ShownIn
      <3>. QED  BY <3>4, <3>6 DEF Shown
    <2>. QED  BY <2>8, <2>9, <2>10
  <1>. QED  BY <1>3, <1>4

\* Behind the last place the screen scrolls; otherwise nothing moves but the
\* cursor, from the end of a line to the start of the next.
LEMMA Settling ==
  ASSUME ScreenOfGlyphs, NEW d \in Displays
  PROVE  /\ Settled(d) \in Displays /\ InFront(Settled(d))
         /\ ColOf(d) < RowLength => ColOf(Settled(d)) = ColOf(d)
         /\ Settled(d) = d \/ (ColOf(Settled(d)) = 0 /\ RowOf(Settled(d)) >= 1)
         /\ InFront(d) => Settled(d) = d
         /\ PlaceOf(d) \in 0 .. Size /\ PlaceOf(Settled(d)) \in 0 .. (Size - 1)
         /\ PlaceOf(d) # Size => PlaceOf(Settled(d)) = PlaceOf(d) /\ Settled(d).fb = d.fb
         /\ PlaceOf(d) = Size =>
              /\ PlaceOf(Settled(d)) = Size - RowLength
              /\ \A p \in RowLength .. (Size - 1) : \A v :
                   Shown(d.fb, p, v) => Shown(Settled(d).fb, p - RowLength, v)
  <1>. DEFINE W == RowLength
              row == RowOf(d)
              col == ColOf(d)
              w == Wrap(d)
              s == Settled(d)
  <1>1. W \in Nat \ {0} /\ Lines \in Nat /\ Lines >= 2 /\ Size \in Nat /\ Size = Lines * W
    BY Screen DEF Size
  <1>2. row \in 0 .. Lines /\ col \in 0 .. W /\ (row = Lines => col = 0) /\ PlaceOf(d) = row * W + col
    BY Cursor
  <1>3. s = Scroll(w)
    BY DEF Settled
  <1>4. ASSUME NEW r \in Int, r < Lines PROVE r * W + W <= Size /\ r * W \in Int
    BY <1>1, <1>4, ProductGap
  <1>5. (Lines - 1) * W = Size - W
    BY <1>1
  <1>6. CASE col < W /\ row < Lines
    <2>1. w = d
      BY <1>6, Wrapping
    <2>2. s = d
      BY <1>3, <1>6, <2>1, Scrolling
    <2>3. InFront(d)
      BY <1>6 DEF InFront
    <2>4. PlaceOf(d) \in 0 .. (Size - 1)
      <3>1. row * W + W <= Size /\ row * W \in Nat
        BY <1>1, <1>2, <1>4, <1>6
      <3>. HIDE DEF row, col, W
      <3>. QED  BY <1>1, <1>2, <1>6, <3>1
    <2>5. PlaceOf(d) # Size /\ PlaceOf(d) \in 0 .. Size
      BY <1>1, <2>4
    <2>. QED  BY <2>2, <2>3, <2>4, <2>5
  <1>7. CASE row = Lines
    <2>1. col = 0 /\ col < W
      BY <1>1, <1>2, <1>7
    <2>2. w = d
      BY <2>1, Wrapping
    <2>3. /\ s \in Displays /\ RowOf(s) = Lines - 1 /\ ColOf(s) = 0
          /\ \A p \in W .. (Size - 1) : \A v : Shown(d.fb, p, v) => Shown(s.fb, p - W, v)
      BY <1>3, <1>7, <2>2, Scrolling
    <2>4. PlaceOf(d) = Size
      BY <1>1, <1>2, <1>7, <2>1
    <2>5. PlaceOf(s) = Size - W
      BY <1>1, <1>5, <2>3 DEF PlaceOf
    <2>6. Size - W \in 0 .. (Size - 1) /\ Size \in 0 .. Size
      <3>1. 0 * W + W <= Size
        BY <1>1, <1>4
      <3>. QED  BY <1>1, <3>1
    <2>7. InFront(s) /\ RowOf(s) >= 1
      BY <1>1, <2>3 DEF InFront
    <2>8. ~InFront(d)
      BY <1>1, <1>7 DEF InFront
    <2>. HIDE DEF s, row, col
    <2>. QED  BY <2>1, <2>3, <2>4, <2>5, <2>6, <2>7, <2>8 DEF row, col, s
  <1>8. CASE col = W /\ row # Lines
    <2>1. /\ w = [fb |-> d.fb, x |-> 0, y |-> (row + 1) * GlyphHeight]
          /\ w \in Displays /\ RowOf(w) = row + 1 /\ ColOf(w) = 0
      BY <1>8, Wrapping
    <2>2. w.fb = d.fb
      BY <2>1
    <2>3. PlaceOf(d) = (row + 1) * W
      BY <1>1, <1>2, <1>8
    <2>4. ~InFront(d) /\ ~(col < W)
      BY <1>1, <1>8 DEF InFront
    <2>5. CASE row + 1 = Lines
      <3>1. /\ s \in Displays /\ RowOf(s) = Lines - 1 /\ ColOf(s) = 0
            /\ \A p \in W .. (Size - 1) : \A v : Shown(d.fb, p, v) => Shown(s.fb, p - W, v)
        BY <1>3, <2>1, <2>2, <2>5, Scrolling
      <3>2. PlaceOf(d) = Size
        BY <1>1, <2>3, <2>5
      <3>3. PlaceOf(s) = Size - W
        BY <1>1, <1>5, <3>1 DEF PlaceOf
      <3>4. Size - W \in 0 .. (Size - 1) /\ Size \in 0 .. Size
        <4>1. 0 * W + W <= Size
          BY <1>1, <1>4
        <4>. QED  BY <1>1, <4>1
      <3>5. InFront(s) /\ RowOf(s) >= 1
        BY <1>1, <3>1 DEF InFront
      <3>. HIDE DEF s, row, col
      <3>. QED  BY <2>4, <3>1, <3>2, <3>3, <3>4, <3>5 DEF row, col, s
    <2>6. CASE row + 1 # Lines
      <3>1. row + 1 < Lines /\ row \in Nat
        <4>1. row \in 0 .. Lines /\ row # Lines /\ row + 1 # Lines /\ Lines \in Nat
          BY <1>1, <1>2, <1>8, <2>6
        <4>. HIDE DEF row
        <4>. QED  BY <4>1
      <3>2. s = w
        BY <1>3, <2>1, <3>1, Scrolling
      <3>3. PlaceOf(s) = (row + 1) * W
        BY <1>1, <2>1, <3>1, <3>2 DEF PlaceOf
      <3>4. (row + 1) * W \in 0 .. (Size - 1)
        <4>1. (row + 1) * W + W <= Size /\ (row + 1) * W \in Nat
          BY <1>1, <1>4, <3>1
        <4>. QED  BY <1>1, <4>1
      <3>5. InFront(s) /\ RowOf(s) >= 1 /\ ColOf(s) = 0 /\ s \in Displays /\ s.fb = d.fb
        <4>1. RowOf(s) = row + 1 /\ ColOf(s) = 0 /\ s \in Displays /\ s.fb = d.fb
          BY <2>1, <2>2, <3>2
        <4>2. row + 1 < Lines /\ row + 1 >= 1 /\ 0 < W
          BY <1>1, <3>1
        <4>. HIDE DEF row, s
        <4>. QED  BY <4>1, <4>2 DEF InFront
      <3>6. PlaceOf(d) # Size /\ PlaceOf(d) \in 0 .. Size /\ PlaceOf(s) = PlaceOf(d)
        BY <1>1, <2>3, <3>3, <3>4
      <3>. HIDE DEF s, row, col
      <3>. QED  BY <2>4, <3>3, <3>4, <3>5, <3>6 DEF row, col, s
    <2>. QED  BY <2>5, <2>6
  <1>9. (col < W /\ row < Lines) \/ row = Lines \/ (col = W /\ row # Lines)
    BY <1>1, <1>2
  <1>. HIDE DEF s, row, col, W
  <1>. QED  BY <1>6, <1>7, <1>8, <1>9
----------------------------------------------------------------------------
(* The line in front of the cursor.                                        *)

\* Nothing of the line is lost on the screen when it scrolls or wraps.
LEMMA SettlingShows ==
  ASSUME ScreenOfGlyphs, NEW d \in Displays, NEW line \in Seq(Characters), Shows(d, line)
  PROVE  Shows(Settled(d), line)
  <1>. DEFINE s == Settled(d)
              p == PlaceOf(d)
              q == PlaceOf(s)
  <1>1. /\ p \in 0 .. Size /\ q \in 0 .. (Size - 1)
        /\ p # Size => q = p /\ s.fb = d.fb
        /\ p = Size => /\ q = Size - RowLength
                       /\ \A l \in RowLength .. (Size - 1) : \A v :
                            Shown(d.fb, l, v) => Shown(s.fb, l - RowLength, v)
    BY Settling
  <1>2. RowLength \in Nat \ {0} /\ Size \in Nat
    BY Screen
  <1>3. ASSUME NEW n \in 1 .. Len(line)
        PROVE  q - n < 0 \/ Shown(s.fb, q - n, line[Len(line) + 1 - n])
    <2>1. p - n < 0 \/ Shown(d.fb, p - n, line[Len(line) + 1 - n])
      BY DEF Shows
    <2>2. n \in Int /\ n >= 1
      OBVIOUS
    <2>. HIDE DEF s, p, q
    <2>3. CASE p # Size
      BY <1>1, <2>1, <2>3
    <2>4. CASE p = Size /\ q - n >= 0
      <3>1. p - n \in RowLength .. (Size - 1) /\ (p - n) - RowLength = q - n /\ ~(p - n < 0)
        BY <1>1, <1>2, <2>2, <2>4
      <3>. QED  BY <1>1, <2>1, <2>4, <3>1
    <2>5. CASE q - n < 0
      BY <2>5
    <2>. QED  BY <1>1, <2>2, <2>3, <2>4, <2>5
  <1>. HIDE DEF s, p, q
  <1>. QED  BY <1>3 DEF Shows, s, q

\* A character that is put becomes the end of the line.
LEMMA PuttingShows ==
  ASSUME ScreenOfGlyphs, NEW d \in Displays, InFront(d), NEW char \in Characters, char # "\n",
         NEW line \in Seq(Characters), Shows(d, line), NEW longer \in Seq(Characters),
         Len(longer) = Len(line) + 1, longer[Len(line) + 1] = char,
         \A i \in 1 .. Len(line) : longer[i] = line[i]
  PROVE  Shows(ssfn_putc(d, char), longer)
  <1>. DEFINE e == ssfn_putc(d, char)
              p == PlaceOf(d)
              len == Len(line)
  <1>1. /\ PlaceOf(e) = p + 1 /\ Shown(e.fb, p, char)
        /\ \A l \in 0 .. (Size - 1) : \A v : l # p /\ Shown(d.fb, l, v) => Shown(e.fb, l, v)
    BY PutGlyph
  <1>2. p \in 0 .. (Size - 1) /\ Size \in Nat
    BY Settling, Screen
  <1>3. len \in Nat /\ Len(longer) = len + 1 /\ longer[len + 1] = char
        /\ \A i \in 1 .. len : longer[i] = line[i]
    OBVIOUS
  <1>4. \A n \in 1 .. len : p - n < 0 \/ Shown(d.fb, p - n, line[len + 1 - n])
    BY DEF Shows
  <1>. HIDE DEF e, p, len
  <1>5. ASSUME NEW n \in 1 .. (len + 1)
        PROVE  (p + 1) - n < 0 \/ Shown(e.fb, (p + 1) - n, longer[(len + 1) + 1 - n])
    <2>1. CASE n = 1
      <3>1. (p + 1) - n = p /\ (len + 1) + 1 - n = len + 1
        BY <1>2, <1>3, <2>1
      <3>. QED  BY <1>1, <1>3, <3>1
    <2>2. CASE n # 1 /\ (p + 1) - n >= 0
      <3>1. n - 1 \in 1 .. len /\ (p + 1) - n = p - (n - 1) /\ p - (n - 1) \in 0 .. (Size - 1)
            /\ p - (n - 1) # p /\ (len + 1) + 1 - n = len + 1 - (n - 1)
            /\ len + 1 - (n - 1) \in 1 .. len
        BY <1>2, <1>3, <2>2
      <3>2. Shown(d.fb, p - (n - 1), line[len + 1 - (n - 1)])
        BY <1>4, <3>1
      <3>3. Shown(e.fb, p - (n - 1), line[len + 1 - (n - 1)])
        BY <1>1, <3>1, <3>2
      <3>4. longer[(len + 1) + 1 - n] = line[len + 1 - (n - 1)]
        BY <1>3, <3>1
      <3>. QED  BY <3>1, <3>3, <3>4
    <2>3. CASE (p + 1) - n < 0
      BY <2>3
    <2>. QED  BY <1>2, <1>3, <2>1, <2>2, <2>3
  <1>. QED  BY <1>1, <1>3, <1>5 DEF Shows, e, len

\* At the top left a backspace does nothing; elsewhere it goes back one place,
\* over the end of a line too, and clears only that place.
LEMMA Backspacing ==
  ASSUME ScreenOfGlyphs, NEW d \in Displays, InFront(d)
  PROVE  /\ PlaceOf(d) = 0 => Backspace(d) = d /\ RowOf(d) = 0 /\ ColOf(d) = 0
         /\ PlaceOf(d) # 0 =>
              /\ Backspace(d) \in Displays /\ PlaceOf(Backspace(d)) = PlaceOf(d) - 1
              /\ InFront(Backspace(d))
              /\ \A p \in 0 .. (Size - 1) : \A v :
                   p # PlaceOf(d) - 1 /\ Shown(d.fb, p, v) => Shown(Backspace(d).fb, p, v)
  <1>. DEFINE row == RowOf(d)
              col == ColOf(d)
  <1>1. /\ RowLength \in Nat \ {0} /\ Lines \in Nat /\ Size \in Nat
        /\ GlyphWidth \in Nat \ {0} /\ GlyphHeight \in Nat \ {0}
        /\ FbWidth = RowLength * GlyphWidth
    BY Screen
  <1>2. /\ d.fb \in [Rows -> [Columns -> Characters]]
        /\ row \in 0 .. (Lines - 1) /\ col \in 0 .. (RowLength - 1)
        /\ d.x = col * GlyphWidth /\ d.y = row * GlyphHeight
        /\ PlaceOf(d) = row * RowLength + col
        /\ d = [fb |-> d.fb, x |-> d.x, y |-> d.y]
    BY <1>1, Cursor DEF InFront
  <1>3. (d.x = 0 <=> col = 0) /\ (d.y = 0 <=> row = 0)
    <2>1. col > 0 => d.x > 0
      <3>1. col > 0 => 0 * GlyphWidth + GlyphWidth <= col * GlyphWidth
        BY <1>1, <1>2, ProductGap
      <3>. QED  BY <1>1, <1>2, <3>1
    <2>2. row > 0 => d.y > 0
      <3>1. row > 0 => 0 * GlyphHeight + GlyphHeight <= row * GlyphHeight
        BY <1>1, <1>2, ProductGap
      <3>. QED  BY <1>1, <1>2, <3>1
    <2>3. (col = 0 => d.x = 0) /\ (row = 0 => d.y = 0)
      BY <1>1, <1>2
    <2>4. (col = 0 \/ col > 0) /\ (row = 0 \/ row > 0)
      BY <1>1, <1>2
    <2>. QED  BY <2>1, <2>2, <2>3, <2>4
  <1>4. PlaceOf(d) = 0 <=> row = 0 /\ col = 0
    <2>1. row * RowLength \in Nat /\ col \in Nat
      BY <1>1, <1>2
    <2>2. row > 0 => 0 * RowLength + RowLength <= row * RowLength
      BY <1>1, <1>2, ProductGap
    <2>3. row = 0 => row * RowLength = 0
      BY <1>1
    <2>4. row = 0 \/ row > 0
      BY <1>1, <1>2
    <2>5. row = 0 /\ col = 0 => PlaceOf(d) = 0
      BY <1>2, <2>3
    <2>6. row > 0 => row * RowLength > 0
      BY <1>1, <2>1, <2>2
    <2>7. ASSUME PlaceOf(d) = 0 PROVE row = 0 /\ col = 0
      <3>1. PlaceOf(d) = row * RowLength + col
        BY <1>2
      <3>. HIDE DEF row, col
      <3>2. row * RowLength = 0 /\ col = 0
        BY <2>1, <2>7, <3>1
      <3>. QED  BY <2>4, <2>6, <3>2
    <2>. QED  BY <2>5, <2>7
  <1>5. ASSUME PlaceOf(d) = 0 PROVE Backspace(d) = d
    BY <1>3, <1>4, <1>5, Zenon DEF Backspace
  <1>6. \A e \in Displays : InFront(e) /\ PlaceOf(e) = PlaceOf(d) - 1 /\ e.fb = d.fb =>
          LET b == Left(ssfn_putc(e, Blank))
          IN /\ b \in Displays /\ PlaceOf(b) = PlaceOf(d) - 1 /\ InFront(b)
             /\ \A p \in 0 .. (Size - 1) : \A v :
                  p # PlaceOf(d) - 1 /\ Shown(d.fb, p, v) => Shown(b.fb, p, v)
    <2>. SUFFICES ASSUME NEW e \in Displays, InFront(e), PlaceOf(e) = PlaceOf(d) - 1, e.fb = d.fb
                  PROVE  LET b == Left(ssfn_putc(e, Blank))
                         IN /\ b \in Displays /\ PlaceOf(b) = PlaceOf(d) - 1 /\ InFront(b)
                            /\ \A p \in 0 .. (Size - 1) : \A v :
                                 p # PlaceOf(d) - 1 /\ Shown(d.fb, p, v) => Shown(b.fb, p, v)
      OBVIOUS
    <2>. DEFINE g == ssfn_putc(e, Blank)
                b == Left(g)
    <2>1. Blank \in Characters /\ Blank # "\n"
      BY DEF Characters, Blank
    <2>2. /\ g \in Displays /\ RowOf(g) = RowOf(e) /\ ColOf(g) = ColOf(e) + 1
          /\ \A p \in 0 .. (Size - 1) : \A v :
               p # PlaceOf(e) /\ Shown(e.fb, p, v) => Shown(g.fb, p, v)
      BY <2>1, PutGlyph
    <2>. HIDE DEF g
    <2>3. /\ g.fb \in [Rows -> [Columns -> Characters]]
          /\ g.x = (ColOf(e) + 1) * GlyphWidth /\ g.y = RowOf(e) * GlyphHeight
          /\ g = [fb |-> g.fb, x |-> g.x, y |-> g.y]
      BY <2>2, Cursor
    <2>4. /\ RowOf(e) \in 0 .. (Lines - 1) /\ ColOf(e) \in 0 .. (RowLength - 1)
          /\ PlaceOf(e) = RowOf(e) * RowLength + ColOf(e)
      BY <1>1, Cursor DEF InFront
    <2>5. g.x - GlyphWidth = ColOf(e) * GlyphWidth
      BY <1>1, <2>3, <2>4
    <2>6. b = [g EXCEPT !.x = g.x - GlyphWidth]
      BY DEF Left
    <2>7. b = [fb |-> g.fb, x |-> g.x - GlyphWidth, y |-> g.y]
      <3>. HIDE DEF b
      <3>. QED  BY <2>3, <2>6
    <2>8. RowOf(e) \in 0 .. Lines /\ ColOf(e) \in 0 .. RowLength /\ RowOf(e) # Lines
      BY <1>1, <2>4
    <2>9. /\ b \in Displays /\ RowOf(b) = RowOf(e) /\ ColOf(b) = ColOf(e)
          /\ PlaceOf(b) = PlaceOf(e)
      BY <2>3, <2>4, <2>5, <2>7, <2>8, IsDisplay
    <2>10. b.fb = g.fb
      BY <2>7
    <2>. HIDE DEF b
    <2>11. InFront(b)
      BY <2>9 DEF InFront
    <2>12. \A p \in 0 .. (Size - 1) : \A v :
             p # PlaceOf(d) - 1 /\ Shown(d.fb, p, v) => Shown(b.fb, p, v)
      BY <2>2, <2>10
    <2>. QED  BY <2>9, <2>11, <2>12 DEF b, g
  <1>7. ASSUME NEW r \in 0 .. (Lines - 1), NEW c \in 0 .. (RowLength - 1),
               r * RowLength + c = PlaceOf(d) - 1, NEW e,
               e = [fb |-> d.fb, x |-> c * GlyphWidth, y |-> r * GlyphHeight]
        PROVE  e \in Displays /\ InFront(e) /\ PlaceOf(e) = PlaceOf(d) - 1 /\ e.fb = d.fb
    <2>1. r \in 0 .. Lines /\ c \in 0 .. RowLength /\ r # Lines /\ r < Lines /\ c < RowLength
      BY <1>1
    <2>. DEFINE x == c * GlyphWidth
                y == r * GlyphHeight
    <2>2. x = c * GlyphWidth /\ y = r * GlyphHeight /\ e = [fb |-> d.fb, x |-> x, y |-> y]
      BY <1>7
    <2>. HIDE DEF x, y
    <2>3. e \in Displays /\ RowOf(e) = r /\ ColOf(e) = c /\ PlaceOf(e) = r * RowLength + c
      BY <1>2, <2>1, <2>2, IsDisplay
    <2>. QED  BY <1>7, <2>1, <2>2, <2>3 DEF InFront
  <1>8. ASSUME col # 0
        PROVE  \E e \in Displays : /\ InFront(e) /\ PlaceOf(e) = PlaceOf(d) - 1 /\ e.fb = d.fb
                                   /\ Backspace(d) = Left(ssfn_putc(e, Blank))
    <2>. DEFINE e == Left(d)
    <2>1. d.x # 0
      BY <1>3, <1>8
    <2>2. Backspace(d) = Left(ssfn_putc(e, Blank))
      BY <2>1, Zenon DEF Backspace
    <2>3. e = [d EXCEPT !.x = d.x - GlyphWidth]
      BY DEF Left
    <2>4. d.x - GlyphWidth = (col - 1) * GlyphWidth
      BY <1>1, <1>2
    <2>. HIDE DEF e
    <2>5. e = [fb |-> d.fb, x |-> (col - 1) * GlyphWidth, y |-> row * GlyphHeight]
      <3>1. d = [fb |-> d.fb, x |-> d.x, y |-> d.y] /\ d.y = row * GlyphHeight
        BY <1>2
      <3>. QED  BY <2>3, <2>4, <3>1
    <2>6. col - 1 \in 0 .. (RowLength - 1) /\ row * RowLength + (col - 1) = PlaceOf(d) - 1
      BY <1>1, <1>2, <1>8
    <2>7. e \in Displays /\ InFront(e) /\ PlaceOf(e) = PlaceOf(d) - 1 /\ e.fb = d.fb
      BY <1>2, <1>7, <2>5, <2>6
    <2>. QED  BY <2>2, <2>7
  <1>9. ASSUME col = 0, row # 0
        PROVE  \E e \in Displays : /\ InFront(e) /\ PlaceOf(e) = PlaceOf(d) - 1 /\ e.fb = d.fb
                                   /\ Backspace(d) = Left(ssfn_putc(e, Blank))
    <2>. DEFINE e == [d EXCEPT !.x = FbWidth - GlyphWidth, !.y = @ - GlyphHeight]
    <2>1. d.x = 0 /\ d.y # 0
      BY <1>3, <1>9
    <2>2. Backspace(d) = Left(ssfn_putc(e, Blank))
      BY <2>1, Zenon DEF Backspace
    <2>3. /\ FbWidth - GlyphWidth = (RowLength - 1) * GlyphWidth
          /\ d.y - GlyphHeight = (row - 1) * GlyphHeight
      BY <1>1, <1>2
    <2>4. e = [d EXCEPT !.x = FbWidth - GlyphWidth, !.y = @ - GlyphHeight]
      OBVIOUS
    <2>. HIDE DEF e
    <2>5. e = [fb |-> d.fb, x |-> (RowLength - 1) * GlyphWidth, y |-> (row - 1) * GlyphHeight]
      <3>1. d = [fb |-> d.fb, x |-> d.x, y |-> d.y]
        BY <1>2
      <3>2. e = [fb |-> d.fb, x |-> FbWidth - GlyphWidth, y |-> d.y - GlyphHeight]
        BY <2>4, <3>1
      <3>. QED  BY <2>3, <3>2
    <2>6. /\ row - 1 \in 0 .. (Lines - 1) /\ RowLength - 1 \in 0 .. (RowLength - 1)
          /\ (row - 1) * RowLength + (RowLength - 1) = PlaceOf(d) - 1
      BY <1>1, <1>2, <1>9
    <2>7. e \in Displays /\ InFront(e) /\ PlaceOf(e) = PlaceOf(d) - 1 /\ e.fb = d.fb
      BY <1>7, <2>5, <2>6
    <2>. QED  BY <2>2, <2>7
  <1>10. ASSUME PlaceOf(d) # 0
         PROVE  \E e \in Displays : /\ InFront(e) /\ PlaceOf(e) = PlaceOf(d) - 1 /\ e.fb = d.fb
                                    /\ Backspace(d) = Left(ssfn_putc(e, Blank))
    BY <1>4, <1>8, <1>9, <1>10
  <1>11. ASSUME PlaceOf(d) # 0
         PROVE  /\ Backspace(d) \in Displays /\ PlaceOf(Backspace(d)) = PlaceOf(d) - 1
                /\ InFront(Backspace(d))
                /\ \A p \in 0 .. (Size - 1) : \A v :
                     p # PlaceOf(d) - 1 /\ Shown(d.fb, p, v) => Shown(Backspace(d).fb, p, v)
    BY <1>6, <1>10, <1>11, Zenon
  <1>. QED  BY <1>4, <1>5, <1>11

\* A backspace takes the last character of the line.
LEMMA BackspacingShows ==
  ASSUME ScreenOfGlyphs, NEW d \in Displays, InFront(d), PlaceOf(d) # 0,
         NEW line \in Seq(Characters), Shows(d, line), NEW shorter \in Seq(Characters),
         Len(line) = Len(shorter) + 1, \A i \in 1 .. Len(shorter) : shorter[i] = line[i]
  PROVE  Shows(Backspace(d), shorter)
  <1>. DEFINE e == Backspace(d)
              p == PlaceOf(d)
              len == Len(shorter)
  <1>1. /\ PlaceOf(e) = p - 1
        /\ \A l \in 0 .. (Size - 1) : \A v : l # p - 1 /\ Shown(d.fb, l, v) => Shown(e.fb, l, v)
    BY Backspacing
  <1>2. p \in 0 .. (Size - 1) /\ Size \in Nat
    <2>1. Settled(d) = d /\ PlaceOf(Settled(d)) \in 0 .. (Size - 1)
      BY Settling
    <2>. QED  BY <2>1, Screen
  <1>3. len \in Nat /\ Len(line) = len + 1 /\ \A i \in 1 .. len : shorter[i] = line[i]
    OBVIOUS
  <1>4. \A n \in 1 .. (len + 1) : p - n < 0 \/ Shown(d.fb, p - n, line[(len + 1) + 1 - n])
    BY <1>3 DEF Shows
  <1>. HIDE DEF e, p, len
  <1>5. ASSUME NEW n \in 1 .. len
        PROVE  (p - 1) - n < 0 \/ Shown(e.fb, (p - 1) - n, shorter[len + 1 - n])
    <2>1. CASE (p - 1) - n >= 0
      <3>1. n + 1 \in 1 .. (len + 1) /\ (p - 1) - n = p - (n + 1) /\ p - (n + 1) \in 0 .. (Size - 1)
            /\ p - (n + 1) # p - 1 /\ (len + 1) + 1 - (n + 1) = len + 1 - n
            /\ len + 1 - n \in 1 .. len /\ ~(p - (n + 1) < 0)
        BY <1>2, <1>3, <2>1
      <3>2. Shown(d.fb, p - (n + 1), line[(len + 1) + 1 - (n + 1)])
        BY <1>4, <3>1
      <3>3. Shown(e.fb, p - (n + 1), line[(len + 1) + 1 - (n + 1)])
        BY <1>1, <3>1, <3>2
      <3>4. shorter[len + 1 - n] = line[(len + 1) + 1 - (n + 1)]
        BY <1>3, <3>1
      <3>. QED  BY <3>1, <3>3, <3>4
    <2>2. CASE (p - 1) - n < 0
      BY <2>2
    <2>3. (p - 1) - n >= 0 \/ (p - 1) - n < 0
      BY <1>2, <1>3
    <2>. QED  BY <2>1, <2>2, <2>3
  <1>. QED  BY <1>1, <1>5 DEF Shows, e, len
----------------------------------------------------------------------------
(* Printing a character and a string.                                      *)

\* What is printed: the characters with a glyph, and the newline.
Printable == Characters \cup {"\n"}

\* A newline puts the cursor at the left, perhaps below the screen.
LEMMA NewLine ==
  ASSUME ScreenOfGlyphs, NEW d \in Displays, InFront(d)
  PROVE  ssfn_putc(d, "\n") \in Displays /\ ColOf(ssfn_putc(d, "\n")) = 0
  <1>. DEFINE e == ssfn_putc(d, "\n")
  <1>1. /\ RowLength \in Nat \ {0} /\ Lines \in Nat
        /\ GlyphWidth \in Nat \ {0} /\ GlyphHeight \in Nat \ {0}
    BY Screen
  <1>2. /\ d.fb \in [Rows -> [Columns -> Characters]] /\ RowOf(d) \in 0 .. (Lines - 1)
        /\ d.y = RowOf(d) * GlyphHeight /\ d = [fb |-> d.fb, x |-> d.x, y |-> d.y]
    BY <1>1, Cursor DEF InFront
  <1>3. e = [d EXCEPT !.x = 0, !.y = d.y + GlyphHeight]
    BY DEF ssfn_putc
  <1>. HIDE DEF e
  <1>4. e = [fb |-> d.fb, x |-> 0, y |-> d.y + GlyphHeight]
    <2>1. d = [fb |-> d.fb, x |-> d.x, y |-> d.y]
      BY <1>2
    <2>. QED  BY <1>3, <2>1
  <1>5. /\ RowOf(d) + 1 \in 0 .. Lines /\ 0 \in 0 .. RowLength /\ 0 = 0 * GlyphWidth
        /\ d.y + GlyphHeight = (RowOf(d) + 1) * GlyphHeight
    BY <1>1, <1>2
  <1>6. e \in Displays /\ ColOf(e) = 0
    BY <1>2, <1>4, <1>5, IsDisplay
  <1>. QED  BY <1>6 DEF e

LEMMA PlainKeepsDisplay ==
  ASSUME ScreenOfGlyphs, NEW d \in Displays, NEW char \in Printable
  PROVE  PrintPlain(d, char) \in Displays
  <1>1. Settled(d) \in Displays /\ InFront(Settled(d))
    BY Settling
  <1>2. CASE char = "backspace"
    <2>1. PrintPlain(d, char) = Backspace(Settled(d))
      BY <1>2 DEF PrintPlain, Settled
    <2>. QED  BY <1>1, <2>1, Backspacing
  <1>3. CASE char # "backspace"
    <2>1. PrintPlain(d, char) = ssfn_putc(Settled(d), char)
      BY <1>3 DEF PrintPlain, Settled
    <2>. QED  BY <1>1, <2>1, PutGlyph, NewLine DEF Printable
  <1>. QED  BY <1>2, <1>3

LEMMA CharacterKeepsDisplay ==
  ASSUME ScreenOfGlyphs, NEW d \in Displays, NEW char \in Printable
  PROVE  framebuffer_print_char(d, char) \in Displays
  <1>1. Blank \in Printable
    BY DEF Characters, Printable
  <1>2. CASE char = "\t"
    <2>1. framebuffer_print_char(d, char) =
            PrintPlain(PrintPlain(PrintPlain(PrintPlain(Settled(d), Blank), Blank), Blank), Blank)
      BY <1>2 DEF framebuffer_print_char, Settled
    <2>. QED  BY <1>1, <2>1, Settling, PlainKeepsDisplay
  <1>3. CASE char # "\t"
    <2>1. framebuffer_print_char(d, char) = PrintPlain(d, char)
      BY <1>3 DEF framebuffer_print_char
    <2>. QED  BY <2>1, PlainKeepsDisplay
  <1>. QED  BY <1>2, <1>3

\* What is on the display after each character of a string.
Printed(f, d, string) ==
  /\ f[0] = d
  /\ \A n \in 0 .. (Len(string) - 1) : f[n + 1] = framebuffer_print_char(f[n], string[n + 1])

LEMMA StringIsPrinted ==
  ASSUME ScreenOfGlyphs, NEW d \in Displays, NEW string \in Seq(Printable)
  PROVE  \E f \in [0 .. Len(string) -> Displays] :
           Printed(f, d, string) /\ framebuffer_print_string(d, string) = f[Len(string)]
  <1>. DEFINE len == Len(string)
              Char(n) == IF n \in 1 .. len THEN string[n] ELSE Blank
              step == [n \in Nat |-> [e \in Displays |-> framebuffer_print_char(e, Char(n + 1))]]
              Eq(g) == g = [n \in 0 .. len |->
                              IF n = 0 THEN d ELSE framebuffer_print_char(g[n - 1], string[n])]
  <1>1. len \in Nat /\ Blank \in Printable
    BY DEF Characters, Printable
  <1>2. \A n \in Nat : Char(n) \in Printable
    BY <1>1
  <1>3. \A n \in 1 .. len : Char(n) = string[n]
    OBVIOUS
  <1>. HIDE DEF Char, len
  <1>4. step \in [Nat -> [Displays -> Displays]]
    <2>1. \A n \in Nat, e \in Displays : framebuffer_print_char(e, Char(n + 1)) \in Displays
      BY <1>2, CharacterKeepsDisplay
    <2>. QED  BY <2>1
  <1>5. PICK f : Iterates(f, Displays, d, step)
    <2>. HIDE DEF step
    <2>. QED  BY <1>4, Iteration
  <1>. DEFINE h == [n \in 0 .. len |-> f[n]]
  <1>6. /\ f \in [Nat -> Displays] /\ f[0] = d
        /\ \A n \in Nat : f[n + 1] = framebuffer_print_char(f[n], Char(n + 1))
    BY <1>5 DEF Iterates
  <1>7. Eq(h)
    <2>1. ASSUME NEW n \in 0 .. len
          PROVE  f[n] = IF n = 0 THEN d ELSE framebuffer_print_char(h[n - 1], string[n])
      <3>1. CASE n = 0
        BY <1>6, <3>1
      <3>2. CASE n # 0
        <4>1. n - 1 \in Nat /\ n - 1 \in 0 .. len /\ n \in 1 .. len /\ (n - 1) + 1 = n
          BY <1>1, <3>2
        <4>2. f[n] = framebuffer_print_char(f[n - 1], Char(n))
          BY <1>6, <4>1
        <4>. HIDE DEF step
        <4>3. h[n - 1] = f[n - 1] /\ Char(n) = string[n]
          BY <1>3, <4>1
        <4>. QED  BY <3>2, <4>2, <4>3
      <3>. QED  BY <3>1, <3>2
    <2>. QED  BY <2>1
  <1>. HIDE DEF h, step
  <1>. DEFINE g == CHOOSE k : Eq(k)
  <1>8. Eq(g)
    <2>. HIDE DEF Eq
    <2>. QED  BY <1>7
  <1>9. framebuffer_print_string(d, string) = g[len]
    BY Zenon DEF framebuffer_print_string, len
  <1>. HIDE DEF g
  <1>10. /\ DOMAIN g = 0 .. len /\ g = [n \in 0 .. len |-> g[n]] /\ g[0] = d
         /\ \A n \in 0 .. (len - 1) : g[n + 1] = framebuffer_print_char(g[n], string[n + 1])
    <2>1. DOMAIN g = 0 .. len /\ g = [n \in 0 .. len |-> g[n]] /\ g[0] = d
      BY <1>1, <1>8
    <2>2. ASSUME NEW n \in 0 .. (len - 1)
          PROVE  g[n + 1] = framebuffer_print_char(g[n], string[n + 1])
      <3>1. n + 1 \in 0 .. len /\ n + 1 # 0 /\ (n + 1) - 1 = n
        BY <1>1
      <3>. QED  BY <1>8, <3>1
    <2>. QED  BY <2>1, <2>2
  <1>. HIDE DEF Eq
  <1>11. \A n \in Nat : n \in 0 .. len => g[n] \in Displays
    <2>. DEFINE T == {n \in Nat : n \in 0 .. len => g[n] \in Displays}
    <2>1. 0 \in T
      BY <1>10
    <2>2. ASSUME NEW n \in Nat, n \in T PROVE n + 1 \in T
      <3>1. CASE n + 1 \in 0 .. len
        <4>1. n \in 0 .. (len - 1) /\ n \in 0 .. len /\ n + 1 \in 1 .. len
          BY <1>1, <3>1
        <4>2. string[n + 1] \in Printable /\ g[n] \in Displays
          BY <2>2, <4>1 DEF len
        <4>3. g[n + 1] \in Displays
          BY <1>10, <4>1, <4>2, CharacterKeepsDisplay
        <4>. QED  BY <4>3
      <3>2. CASE n + 1 \notin 0 .. len
        BY <3>2
      <3>. QED  BY <3>1, <3>2
    <2>. HIDE DEF T
    <2>3. Nat \subseteq T
      BY <2>1, <2>2, NaturalsByStep
    <2>. QED  BY <2>3 DEF T
  <1>12. g \in [0 .. len -> Displays]
    BY <1>1, <1>10, <1>11
  <1>. QED  BY <1>9, <1>10, <1>12 DEF Printed, len
----------------------------------------------------------------------------
(* What the keys stand for.                                                *)

\* The entries of standard_keycodes.
KeyNames ==
  {"UNKNOWN", "ESCAPE", "1", "2", "3", "4", "5", "6", "7", "8", "9", "0", "-", "=",
   "backspace", "\t", "q", "w", "e", "r", "t", "y", "u", "i", "o", "p", "[", "]", "\r",
   "LCTRL", "a", "s", "d", "f", "g", "h", "j", "k", "l", ";", "quote", "grave",
   "LSHIFT", "backslash", "z", "x", "c", "v", "b", "n", "m", ",", ".", "/", "RSHIFT",
   "*", "RALT", "space", "CAPSLOCK", "F1", "F2", "F3", "F4", "F5", "F6", "F7", "F8",
   "F9", "F10", "NUMLOCK", "SCROLLLOCK", "HOME", "PAGEUP", "F11", "F12"}
Capitals ==
  {"A", "B", "C", "D", "E", "F", "G", "H", "I", "J", "K", "L", "M", "N", "O", "P", "Q", "R",
   "S", "T", "U", "V", "W", "X", "Y", "Z"}
ShiftedSymbols ==
  {")", "!", "@", "#", "$", "%", "^", "&", "*", "(", "<", ">", "?", ":", "quotedouble", "{", "}",
   "tilde", "_", "+", "|"}

LEMMA TableEntries ==
  ASSUME NEW code \in Nat, code + 1 \in DOMAIN standard_keycodes
  PROVE  EntryOf(code) \in KeyNames /\ EntryOf(code) \in Range(standard_keycodes)
  <1>1. standard_keycodes \in Seq(KeyNames)
    BY DEF standard_keycodes, KeyNames
  <1>2. standard_keycodes[code + 1] \in KeyNames
    BY <1>1
  <1>3. standard_keycodes[code + 1] \in Range(standard_keycodes)
    BY DEF Range
  <1>. QED  BY <1>2, <1>3 DEF EntryOf

LEMMA TranslationType ==
  ASSUME NEW S, NEW T, NEW from \in Seq(S), NEW to \in Seq(T), Len(from) = Len(to)
  PROVE  /\ Translation(from, to) \in [Range(from) -> T] /\ Range(from) \subseteq S
         /\ Range(Translation(from, to)) \subseteq T
  <1>1. ASSUME NEW k \in Range(from)
        PROVE  to[CHOOSE i \in DOMAIN from : from[i] = k] \in T /\ k \in S
    <2>1. \E i \in DOMAIN from : from[i] = k
      BY DEF Range
    <2>2. (CHOOSE i \in DOMAIN from : from[i] = k) \in DOMAIN from
      BY <2>1
    <2>3. DOMAIN from = DOMAIN to
      OBVIOUS
    <2>4. k \in S
      BY <2>1
    <2>. QED  BY <2>2, <2>3, <2>4
  <1>2. Translation(from, to) \in [Range(from) -> T]
    BY <1>1 DEF Translation
  <1>3. Range(Translation(from, to)) \subseteq T
    BY <1>2 DEF Range
  <1>. QED  BY <1>1, <1>2, <1>3

LEMMA ShiftedCharacters ==
  /\ DOMAIN Letters \subseteq KeyNames \ {"backspace"} /\ DOMAIN Symbols \subseteq KeyNames \ {"backspace"}
  /\ Range(Letters) \subseteq Capitals /\ Range(Symbols) \subseteq ShiftedSymbols
  /\ \A k \in DOMAIN Letters : Letters[k] \in Range(Letters)
  /\ \A k \in DOMAIN Symbols : Symbols[k] \in Range(Symbols)
  <1>. DEFINE lower == <<"a", "b", "c", "d", "e", "f", "g", "h", "i", "j", "k", "l", "m", "n",
                         "o", "p", "q", "r", "s", "t", "u", "v", "w", "x", "y", "z">>
              upper == <<"A", "B", "C", "D", "E", "F", "G", "H", "I", "J", "K", "L", "M", "N",
                         "O", "P", "Q", "R", "S", "T", "U", "V", "W", "X", "Y", "Z">>
              plain == <<"0", "1", "2", "3", "4", "5", "6", "7", "8", "9", ",", ".", "/", ";",
                         "quote", "[", "]", "grave", "-", "=", "backslash">>
              shifted == <<")", "!", "@", "#", "$", "%", "^", "&", "*", "(", "<", ">", "?", ":",
                           "quotedouble", "{", "}", "tilde", "_", "+", "|">>
              Others == KeyNames \ {"backspace"}
  <1>1. lower \in Seq(Others) /\ Len(lower) = 26
    BY DEF KeyNames
  <1>2. upper \in Seq(Capitals) /\ Len(upper) = 26
    BY DEF Capitals
  <1>3. plain \in Seq(Others) /\ Len(plain) = 21
    BY DEF KeyNames
  <1>4. shifted \in Seq(ShiftedSymbols) /\ Len(shifted) = 21
    BY DEF ShiftedSymbols
  <1>5. Letters = Translation(lower, upper) /\ Symbols = Translation(plain, shifted)
    BY Zenon DEF Letters, Symbols
  <1>. HIDE DEF lower, upper, plain, shifted, Others
  <1>6. /\ Letters \in [Range(lower) -> Capitals] /\ Range(lower) \subseteq Others
        /\ Range(Letters) \subseteq Capitals
    BY <1>1, <1>2, <1>5, TranslationType
  <1>7. /\ Symbols \in [Range(plain) -> ShiftedSymbols] /\ Range(plain) \subseteq Others
        /\ Range(Symbols) \subseteq ShiftedSymbols
    BY <1>3, <1>4, <1>5, TranslationType
  <1>8. DOMAIN Letters \subseteq Others /\ DOMAIN Symbols \subseteq Others
    BY <1>6, <1>7
  <1>9. /\ \A k \in DOMAIN Letters : Letters[k] \in Range(Letters)
        /\ \A k \in DOMAIN Symbols : Symbols[k] \in Range(Symbols)
    BY DEF Range
  <1>. QED  BY <1>6, <1>7, <1>8, <1>9 DEF Others

\* No key is the tab: its four blanks may scroll the screen at another place
\* than the one where the barrier is moved.
NoTabKey == \A key \in Keys : EntryOf(key.code) # "\t"

\* What is echoed, and what of it is one glyph.
Echoed == Characters \ {"\n", "\r", "backspace", NoCharacter}
Glyphs == Echoed \ {"\t"}

\* The handler gives the shell no character, a return, a backspace or what is
\* echoed, which is a tab only if a key is.
LEMMA KeyCharacters ==
  ASSUME KeysInTable, NEW k \in Keys
  PROVE  LET c == CharacterOf(EntryOf(k.code))
         IN c \in {NoCharacter, "\r", "backspace"} \cup Echoed /\ (NoTabKey => c # "\t")
  <1>. DEFINE key == EntryOf(k.code)
              a == keycode_to_ascii(key)
  <1>1. key \in KeyNames /\ key \in Range(standard_keycodes)
    BY TableEntries DEF KeysInTable
  <1>2. \/ key \in DOMAIN Letters /\ a = Letters[key]
        \/ key \in DOMAIN Symbols /\ a = Symbols[key]
        \/ a = key
    BY DEF keycode_to_ascii
  <1>3. a = key \/ a \in Range(Letters) \/ a \in Range(Symbols)
    BY <1>2, ShiftedCharacters
  <1>. HIDE DEF key, a
  <1>4. a \in Characters
    BY <1>1, <1>3 DEF Characters
  <1>5. a # "\n" /\ (key # "\t" => a # "\t")
    <2>1. "\n" \notin KeyNames
      BY DEF KeyNames
    <2>2. "\n" \notin Capitals /\ "\t" \notin Capitals
      BY DEF Capitals
    <2>3. "\n" \notin ShiftedSymbols /\ "\t" \notin ShiftedSymbols
      BY DEF ShiftedSymbols
    <2>. QED  BY <1>1, <1>3, <2>1, <2>2, <2>3, ShiftedCharacters
  <1>6. CharacterOf(key) = NoCharacter \/ CharacterOf(key) = a
    BY DEF CharacterOf, a
  <1>7. CharacterOf(key) \in {NoCharacter, "\r", "backspace"} \cup Echoed
    BY <1>4, <1>5, <1>6 DEF Echoed
  <1>8. NoTabKey => CharacterOf(key) # "\t"
    <2>1. NoCharacter # "\t"
      BY DEF NoCharacter
    <2>2. NoTabKey => key # "\t"
      BY DEF NoTabKey, key
    <2>. QED  BY <1>5, <1>6, <2>1, <2>2
  <1>. QED  BY <1>7, <1>8 DEF key

\* The scancode of backspace gives a backspace.
LEMMA ErasingCharacter ==
  /\ KeyOf(Erasing) = {"backspace"} /\ CharacterOf("backspace") = "backspace" /\ Erasing < 128
  <1>1. standard_keycodes[15] = "backspace" /\ 15 \in DOMAIN standard_keycodes
    BY DEF standard_keycodes
  <1>2. KeyOf(Erasing) = {"backspace"}
    BY <1>1 DEF KeyOf, Erasing
  <1>3. "backspace" \notin Modifiers \cup Locks \cup FunctionKeys
    BY DEF Modifiers, Locks, FunctionKeys
  <1>4. "backspace" \notin DOMAIN Letters /\ "backspace" \notin DOMAIN Symbols
    BY ShiftedCharacters
  <1>5. keycode_to_ascii("backspace") = "backspace"
    BY <1>4 DEF keycode_to_ascii
  <1>6. CharacterOf("backspace") = "backspace"
    BY <1>3, <1>5 DEF CharacterOf
  <1>7. Erasing < 128
    BY DEF Erasing
  <1>. QED  BY <1>2, <1>6, <1>7

LEMMA ShellOperations ==
  /\ shell_print_char(NoCharacter) <=> UNCHANGED shellVars
  /\ shell_print_char("\r") <=> Return
  /\ shell_print_char("backspace") <=> Erase
  /\ \A c \in Echoed : shell_print_char(c) <=> Echo(c)
  <1>1. shell_print_char(NoCharacter) <=> UNCHANGED shellVars
    BY Zenon DEF shell_print_char, NoCharacter
  <1>2. shell_print_char("\r") <=> Return
    <2>1. "\r" # "NUL"
      OBVIOUS
    <2>. QED  BY <2>1, Zenon DEF shell_print_char
  <1>3. shell_print_char("backspace") <=> Erase
    <2>1. "backspace" # "NUL" /\ "backspace" # "\r"
      OBVIOUS
    <2>. QED  BY <2>1, Zenon DEF shell_print_char
  <1>4. ASSUME NEW c \in Echoed PROVE shell_print_char(c) <=> Echo(c)
    <2>1. c # "NUL" /\ c # "\r" /\ c # "backspace"
      BY DEF Echoed, NoCharacter
    <2>. QED  BY <2>1, Zenon DEF shell_print_char
  <1>. QED  BY <1>1, <1>2, <1>3, <1>4

\* What an interrupt of the keyboard does to the shell.
LEMMA InterruptOnShell ==
  ASSUME KeysInTable, ModifierInv, KeyboardIRQ
  PROVE  \/ UNCHANGED shellVars
         \/ is_keyboard_active /\ Return
         \/ is_keyboard_active /\ Erase
         \/ is_keyboard_active /\ \E c \in Echoed : Echo(c) /\ (NoTabKey => c \in Glyphs)
  <1>1. CASE ~is_keyboard_active
    BY <1>1 DEF KeyboardIRQ, keyboard_irq_handler
  <1>2. CASE is_keyboard_active /\ Head(bytes) >= 128
    <2>1. CASE shell_print_char(NoCharacter)
      BY <2>1, ShellOperations
    <2>2. PICK code \in Nat : bytes \in {<<code>>, <<Prefix, code>>}
      BY DEF ModifierInv, BytesOK, KeyboardIRQ
    <2>3. Head(bytes) \in Nat
      BY <2>2 DEF Prefix
    <2>4. ~(Head(bytes) < 128)
      BY <1>2, <2>3
    <2>. QED  BY <1>2, <2>1, <2>4 DEF KeyboardIRQ, keyboard_irq_handler
  <1>3. CASE is_keyboard_active /\ ~(Head(bytes) >= 128)
    <2>1. PICK code \in Nat : CodeOK(code) /\ bytes \in {<<code>>, <<Prefix, code>>}
      BY DEF ModifierInv, BytesOK, KeyboardIRQ
    <2>2. bytes = <<code>>
      <3>1. bytes # <<Prefix, code>>
        <4>1. SUFFICES ASSUME bytes = <<Prefix, code>> PROVE FALSE
          OBVIOUS
        <4>2. Head(bytes) = Prefix
          BY <4>1
        <4>. QED  BY <1>3, <4>2 DEF Prefix
      <3>. QED  BY <2>1, <3>1
    <2>3. Head(bytes) = code
      BY <2>2
    <2>4. PICK k \in Keys : code = k.code
      <3>1. \A k \in HoldKeys : code # k.code + 128
        <4>1. SUFFICES ASSUME NEW k \in HoldKeys, code = k.code + 128 PROVE FALSE
          OBVIOUS
        <4>2. k.code \in Nat
          BY HoldKeyRole
        <4>. QED  BY <1>3, <2>3, <4>1, <4>2
      <3>. QED  BY <2>1, <3>1 DEF CodeOK
    <2>5. k.code \in Nat /\ KeyOf(k.code) = {EntryOf(k.code)}
      BY KeyOfEntry DEF KeysInTable
    <2>. DEFINE c == CharacterOf(EntryOf(k.code))
    <2>6. shell_print_char(c)
      BY <1>3, <2>3, <2>4, <2>5 DEF KeyboardIRQ, keyboard_irq_handler
    <2>7. c \in {NoCharacter, "\r", "backspace"} \cup Echoed /\ (NoTabKey => c # "\t")
      BY KeyCharacters
    <2>. HIDE DEF c
    <2>8. CASE c \in Echoed
      <3>1. Echo(c) /\ (NoTabKey => c \in Glyphs)
        BY <2>6, <2>7, <2>8, ShellOperations DEF Glyphs
      <3>. QED  BY <1>3, <2>8, <3>1
    <2>. QED  BY <1>3, <2>6, <2>7, <2>8, ShellOperations
  <1>. QED  BY <1>1, <1>2, <1>3

\* The byte of a backspace.
LEMMA ErasingOnShell ==
  ASSUME KeyboardIRQ, is_keyboard_active, bytes = <<Erasing>>
  PROVE  Erase
  <1>1. Head(bytes) = Erasing /\ ~(Erasing >= 128)
    BY DEF Erasing
  <1>2. \E key \in KeyOf(Erasing) : shell_print_char(CharacterOf(key))
    BY <1>1 DEF KeyboardIRQ, keyboard_irq_handler
  <1>3. shell_print_char("backspace")
    BY <1>2, ErasingCharacter
  <1>. QED  BY <1>3, ShellOperations
----------------------------------------------------------------------------
(* The prompt.                                                             *)

\* The prompt is two lines of characters, and the last one is shorter than a
\* line of the screen, each of its characters a glyph.
PromptIsText == PromptHead \in Seq(STRING) /\ PromptTail \in Seq(STRING)
PromptFits ==
  /\ PromptIsText
  /\ Len(PromptTail) \in 1 .. (RowLength - 1)
  /\ \A i \in 1 .. Len(PromptTail) : PromptTail[i] \notin {"\n", "\t", "backspace"}

LEMMA Concatenated ==
  ASSUME NEW S, NEW a \in Seq(S), NEW b \in Seq(S)
  PROVE  /\ a \o b \in Seq(S) /\ Len(a \o b) = Len(a) + Len(b)
         /\ \A i \in 1 .. Len(a) : (a \o b)[i] = a[i]
         /\ \A i \in 1 .. Len(b) : (a \o b)[Len(a) + i] = b[i]
  <1>1. a \o b \in Seq(S) /\ Len(a \o b) = Len(a) + Len(b)
    BY ConcatProperties
  <1>2. \A i \in 1 .. (Len(a) + Len(b)) : (a \o b)[i] = IF i <= Len(a) THEN a[i] ELSE b[i - Len(a)]
    BY ConcatProperties
  <1>3. ASSUME NEW i \in 1 .. Len(a) PROVE (a \o b)[i] = a[i]
    <2>1. i \in 1 .. (Len(a) + Len(b)) /\ i <= Len(a)
      OBVIOUS
    <2>. QED  BY <1>2, <2>1
  <1>4. ASSUME NEW i \in 1 .. Len(b) PROVE (a \o b)[Len(a) + i] = b[i]
    <2>1. Len(a) + i \in 1 .. (Len(a) + Len(b)) /\ ~(Len(a) + i <= Len(a)) /\ (Len(a) + i) - Len(a) = i
      OBVIOUS
    <2>. QED  BY <1>2, <2>1
  <1>. QED  BY <1>1, <1>3, <1>4

LEMMA SequenceOfRange ==
  ASSUME NEW S, NEW s \in Seq(S), NEW T, Range(s) \subseteq T
  PROVE  s \in Seq(T)
  <1>1. s \in [1 .. Len(s) -> S] /\ Len(s) \in Nat
    OBVIOUS
  <1>2. \A i \in 1 .. Len(s) : s[i] \in T
    BY <1>1 DEF Range
  <1>3. s \in [1 .. Len(s) -> T]
    BY <1>1, <1>2
  <1>. QED  BY <1>1, <1>3, SeqDef

LEMMA PromptString ==
  ASSUME PromptIsText
  PROVE  /\ Prompt \in Seq(Printable) /\ PromptTail \in Seq(Characters)
         /\ Len(PromptHead) \in Nat /\ Len(PromptTail) \in Nat
         /\ Len(Prompt) = Len(PromptHead) + 2 + Len(PromptTail)
         /\ Prompt[Len(PromptHead) + 2] = "\n"
         /\ \A i \in 1 .. Len(PromptTail) : Prompt[Len(PromptHead) + 2 + i] = PromptTail[i]
  <1>. DEFINE nl == <<"\n">>
              a == nl \o PromptHead
              b == a \o nl
              h == Len(PromptHead)
              t == Len(PromptTail)
  <1>1. /\ Range(PromptHead) \subseteq Printable /\ Range(PromptTail) \subseteq Printable
        /\ Range(PromptTail) \subseteq Characters
    BY DEF Characters, Printable
  <1>2. /\ PromptHead \in Seq(Printable) /\ PromptTail \in Seq(Printable)
        /\ PromptTail \in Seq(Characters) /\ h \in Nat /\ t \in Nat
    <2>1. PromptHead \in Seq(STRING) /\ PromptTail \in Seq(STRING)
      BY DEF PromptIsText
    <2>. QED  BY <1>1, <2>1, SequenceOfRange
  <1>3. nl \in Seq(Printable) /\ Len(nl) = 1 /\ nl[1] = "\n"
    BY DEF Printable
  <1>. HIDE DEF nl, h, t
  <1>4. a \in Seq(Printable) /\ Len(a) = 1 + h
    <2>1. a \in Seq(Printable) /\ Len(a) = Len(nl) + Len(PromptHead)
      <3>1. nl \in Seq(Printable) /\ PromptHead \in Seq(Printable)
        BY <1>2, <1>3
      <3>. QED  BY ONLY <3>1, Concatenated
    <2>. HIDE DEF a
    <2>. QED  BY <1>3, <2>1 DEF h
  <1>. HIDE DEF a
  <1>5. b \in Seq(Printable) /\ Len(b) = (1 + h) + 1 /\ b[(1 + h) + 1] = "\n"
    <2>1. /\ b \in Seq(Printable) /\ Len(b) = Len(a) + Len(nl)
          /\ \A i \in 1 .. Len(nl) : b[Len(a) + i] = nl[i]
      <3>1. a \in Seq(Printable) /\ nl \in Seq(Printable)
        BY <1>3, <1>4
      <3>. QED  BY ONLY <3>1, Concatenated
    <2>. HIDE DEF b
    <2>2. 1 \in 1 .. Len(nl)
      BY <1>3
    <2>3. b[Len(a) + 1] = nl[1]
      BY <2>1, <2>2
    <2>. QED  BY <1>3, <1>4, <2>1, <2>3
  <1>6. Prompt = b \o PromptTail
    BY DEF Prompt, a, b, nl
  <1>. HIDE DEF b
  <1>7. (1 + h) + 1 = h + 2
    BY <1>2
  <1>8. Len(b) = h + 2 /\ b[h + 2] = "\n"
    BY <1>5, <1>7
  <1>9. /\ Prompt \in Seq(Printable) /\ Len(Prompt) = Len(b) + t
        /\ \A i \in 1 .. Len(b) : Prompt[i] = b[i]
        /\ \A i \in 1 .. t : Prompt[Len(b) + i] = PromptTail[i]
    <2>1. b \in Seq(Printable) /\ PromptTail \in Seq(Printable)
      BY <1>2, <1>5
    <2>2. /\ b \o PromptTail \in Seq(Printable) /\ Len(b \o PromptTail) = Len(b) + Len(PromptTail)
          /\ \A i \in 1 .. Len(b) : (b \o PromptTail)[i] = b[i]
          /\ \A i \in 1 .. Len(PromptTail) : (b \o PromptTail)[Len(b) + i] = PromptTail[i]
      BY ONLY <2>1, Concatenated
    <2>. QED  BY <1>6, <2>2 DEF t
  <1>10. h + 2 \in 1 .. Len(b)
    BY <1>2, <1>8
  <1>11. /\ Prompt[h + 2] = "\n" /\ Len(Prompt) = h + 2 + t
         /\ \A i \in 1 .. t : Prompt[h + 2 + i] = PromptTail[i]
    BY <1>8, <1>9, <1>10
  <1>. QED  BY <1>2, <1>9, <1>11 DEF h, t

\* A glyph that is printed becomes the end of the line.
LEMMA GlyphShows ==
  ASSUME ScreenOfGlyphs, NEW d \in Displays, NEW char \in Characters,
         char \notin {"\n", "\t", "backspace"},
         NEW line \in Seq(Characters), Shows(d, line), NEW longer \in Seq(Characters),
         Len(longer) = Len(line) + 1, longer[Len(line) + 1] = char,
         \A i \in 1 .. Len(line) : longer[i] = line[i]
  PROVE  LET e == framebuffer_print_char(d, char)
         IN /\ e \in Displays /\ Shows(e, longer)
            /\ RowOf(e) = RowOf(Settled(d)) /\ ColOf(e) = ColOf(Settled(d)) + 1
            /\ PlaceOf(e) = PlaceOf(Settled(d)) + 1
  <1>. DEFINE s == Settled(d)
  <1>1. s \in Displays /\ InFront(s) /\ Shows(s, line)
    BY Settling, SettlingShows
  <1>2. framebuffer_print_char(d, char) = ssfn_putc(s, char)
    BY DEF framebuffer_print_char, PrintPlain, Settled
  <1>. HIDE DEF s
  <1>3. char # "\n"
    OBVIOUS
  <1>4. Shows(ssfn_putc(s, char), longer)
    BY <1>1, <1>3, PuttingShows
  <1>5. /\ ssfn_putc(s, char) \in Displays
        /\ RowOf(ssfn_putc(s, char)) = RowOf(s) /\ ColOf(ssfn_putc(s, char)) = ColOf(s) + 1
        /\ PlaceOf(ssfn_putc(s, char)) = PlaceOf(s) + 1
    BY <1>1, <1>3, PutGlyph
  <1>. QED  BY <1>2, <1>4, <1>5 DEF s

\* After the prompt the cursor is behind its last line, which is shown.
LEMMA PromptShown ==
  ASSUME ScreenOfGlyphs, PromptFits, NEW d \in Displays
  PROVE  LET e == framebuffer_print_string(d, Prompt)
         IN /\ e \in Displays /\ InFront(e) /\ ColOf(e) = Len(PromptTail)
            /\ Shows(e, PromptTail)
  <1>. DEFINE h == Len(PromptHead)
              t == Len(PromptTail)
              b == h + 2
              Part(i) == [j \in 1 .. i |-> PromptTail[j]]
  <1>1. PICK f \in [0 .. Len(Prompt) -> Displays] :
          Printed(f, d, Prompt) /\ framebuffer_print_string(d, Prompt) = f[Len(Prompt)]
    BY PromptString, StringIsPrinted DEF PromptFits
  <1>2. /\ PromptTail \in Seq(Characters) /\ h \in Nat /\ t \in Nat /\ Len(Prompt) = b + t
        /\ Prompt[b] = "\n" /\ \A i \in 1 .. t : Prompt[b + i] = PromptTail[i]
    BY PromptString DEF PromptFits
  <1>3. t \in 1 .. (RowLength - 1) /\ RowLength \in Nat
        /\ \A i \in 1 .. t : PromptTail[i] \notin {"\n", "\t", "backspace"}
    BY Screen DEF PromptFits
  <1>. DEFINE T == {i \in Nat : i \in 0 .. t =>
                      /\ f[b + i] \in Displays /\ ColOf(f[b + i]) = i
                      /\ i # 0 => RowOf(f[b + i]) < Lines
                      /\ Shows(f[b + i], Part(i))}
  <1>4. 0 \in T
    <2>1. /\ b - 1 \in 0 .. (Len(Prompt) - 1) /\ (b - 1) + 1 = b /\ b + 0 = b
          /\ b - 1 \in 0 .. Len(Prompt)
      BY <1>2
    <2>2. f[b] = framebuffer_print_char(f[b - 1], "\n") /\ f[b - 1] \in Displays
      BY <1>1, <1>2, <2>1 DEF Printed
    <2>3. f[b] = ssfn_putc(Settled(f[b - 1]), "\n")
      BY <2>2 DEF framebuffer_print_char, PrintPlain, Settled
    <2>4. f[b] \in Displays /\ ColOf(f[b]) = 0
      BY <2>2, <2>3, Settling, NewLine
    <2>5. Part(0) = << >> /\ Len(Part(0)) = 0
      OBVIOUS
    <2>6. Shows(f[b], Part(0))
      BY <2>5 DEF Shows
    <2>. HIDE DEF b, Part
    <2>. QED  BY <2>1, <2>4, <2>6
  <1>5. ASSUME NEW i \in Nat, i \in T PROVE i + 1 \in T
    <2>1. CASE i + 1 \in 0 .. t
      <3>. DEFINE g == f[b + i]
      <3>1. i \in 0 .. t /\ i + 1 \in 1 .. t /\ i < RowLength
        BY <1>2, <1>3, <2>1
      <3>2. g \in Displays /\ ColOf(g) = i /\ Shows(g, Part(i))
        BY <1>5, <3>1
      <3>3. /\ b + i \in 0 .. (Len(Prompt) - 1) /\ (b + i) + 1 = b + (i + 1)
        BY <1>2, <3>1
      <3>4. f[b + (i + 1)] = framebuffer_print_char(g, PromptTail[i + 1])
        BY <1>1, <1>2, <3>1, <3>3 DEF Printed
      <3>5. /\ Part(i) \in Seq(Characters) /\ Part(i + 1) \in Seq(Characters)
            /\ Len(Part(i)) = i /\ Len(Part(i + 1)) = i + 1
            /\ Part(i + 1)[i + 1] = PromptTail[i + 1]
            /\ \A j \in 1 .. i : Part(i + 1)[j] = Part(i)[j]
        <4>1. /\ \A j \in 1 .. i : PromptTail[j] \in Characters
              /\ \A j \in 1 .. (i + 1) : PromptTail[j] \in Characters
          BY <1>2, <3>1
        <4>2. /\ Part(i) \in [1 .. i -> Characters] /\ Part(i + 1) \in [1 .. (i + 1) -> Characters]
          BY <4>1
        <4>3. Part(i) \in Seq(Characters) /\ Part(i + 1) \in Seq(Characters)
          <5>1. i \in Nat /\ i + 1 \in Nat
            OBVIOUS
          <5>. HIDE DEF Part
          <5>. QED  BY <4>2, <5>1, SeqDef
        <4>4. Len(Part(i)) = i /\ Len(Part(i + 1)) = i + 1
          BY <4>2, <4>3
        <4>5. /\ Part(i + 1)[i + 1] = PromptTail[i + 1]
              /\ \A j \in 1 .. i : Part(i + 1)[j] = Part(i)[j]
          OBVIOUS
        <4>. QED  BY <4>3, <4>4, <4>5
      <3>6. /\ PromptTail[i + 1] \in Characters
            /\ PromptTail[i + 1] \notin {"\n", "\t", "backspace"}
        BY <1>2, <1>3, <3>1
      <3>. HIDE DEF g, b, Part
      <3>7. /\ ColOf(Settled(g)) = i /\ RowOf(Settled(g)) < Lines
        BY <3>1, <3>2, Settling DEF InFront
      <3>. DEFINE e == framebuffer_print_char(g, PromptTail[i + 1])
      <3>8. /\ e \in Displays /\ Shows(e, Part(i + 1))
            /\ RowOf(e) = RowOf(Settled(g)) /\ ColOf(e) = ColOf(Settled(g)) + 1
        BY <3>2, <3>5, <3>6, GlyphShows
      <3>. HIDE DEF e
      <3>9. /\ f[b + (i + 1)] \in Displays /\ ColOf(f[b + (i + 1)]) = i + 1
            /\ RowOf(f[b + (i + 1)]) < Lines /\ Shows(f[b + (i + 1)], Part(i + 1))
        BY <3>4, <3>7, <3>8 DEF e
      <3>. QED  BY <3>9
    <2>2. CASE i + 1 \notin 0 .. t
      <3>. HIDE DEF b, Part
      <3>. QED  BY <2>2
    <2>. QED  BY <2>1, <2>2
  <1>6. t \in T /\ t \in 0 .. t /\ t # 0 /\ t < RowLength
    <2>. HIDE DEF T
    <2>1. Nat \subseteq T
      BY <1>4, <1>5, NaturalsByStep
    <2>. QED  BY <1>2, <1>3, <2>1
  <1>7. Part(t) = PromptTail
    BY <1>2
  <1>. HIDE DEF b, Part
  <1>8. /\ f[b + t] \in Displays /\ ColOf(f[b + t]) = t /\ RowOf(f[b + t]) < Lines
        /\ Shows(f[b + t], Part(t))
    BY <1>6
  <1>. HIDE DEF t
  <1>9. framebuffer_print_string(d, Prompt) = f[b + t]
    BY <1>1, <1>2
  <1>. QED  BY <1>6, <1>7, <1>8, <1>9 DEF InFront, t
----------------------------------------------------------------------------
(* The types of the shell's variables, whatever key is pressed.            *)

ShellTyped ==
  display \in Displays /\ barrier \in [x : Int, y : Int] /\ typed \in Seq(Characters)

LEMMA EmptyDisplay ==
  ASSUME ScreenOfGlyphs
  PROVE  Empty \in Displays
  <1>. DEFINE fb == [r \in Rows |-> [c \in Columns |-> Blank]]
  <1>1. fb \in [Rows -> [Columns -> Characters]]
    <2>1. Blank \in Characters
      BY DEF Characters
    <2>. QED  BY <2>1
  <1>2. Empty = [fb |-> fb, x |-> 0, y |-> 0]
    BY DEF Empty
  <1>. HIDE DEF fb
  <1>3. /\ 0 \in 0 .. Lines /\ 0 \in 0 .. RowLength /\ 0 = 0 * GlyphWidth /\ 0 = 0 * GlyphHeight
    BY Screen
  <1>. QED  BY <1>1, <1>2, <1>3, IsDisplay

LEMMA FrontOfSequence ==
  ASSUME NEW S, NEW s \in Seq(S), s # << >>
  PROVE  /\ Front(s) \in Seq(S) /\ Len(s) = Len(Front(s)) + 1
         /\ \A i \in 1 .. Len(Front(s)) : Front(s)[i] = s[i]
  <1>1. Front(s) = SubSeq(s, 1, Len(s) - 1)
    BY DEF Front
  <1>2. Len(s) \in Nat /\ Len(s) # 0
    OBVIOUS
  <1>. DEFINE n == Len(s) - 1
  <1>3. n \in Nat /\ n <= Len(s) /\ Len(s) = n + 1
    BY <1>2
  <1>4. \A i \in 1 .. n : s[i] \in S
    BY <1>3
  <1>. HIDE DEF n
  <1>5. SubSeq(s, 1, n) = [i \in 1 .. n |-> s[i]]
    BY <1>3
  <1>6. SubSeq(s, 1, n) \in [1 .. n -> S]
    BY <1>4, <1>5
  <1>7. SubSeq(s, 1, n) \in Seq(S)
    BY <1>3, <1>6, SeqDef
  <1>8. Len(SubSeq(s, 1, n)) = n
    BY <1>3, <1>6, <1>7
  <1>. QED  BY <1>1, <1>3, <1>5, <1>7, <1>8 DEF n

LEMMA PromptKeepsTypes ==
  ASSUME ScreenOfGlyphs, PromptIsText, NEW d \in Displays, shell_prompt(d)
  PROVE  ShellTyped'
  <1>. DEFINE e == framebuffer_print_string(d, Prompt)
  <1>1. e \in Displays
    <2>1. Prompt \in Seq(Printable) /\ Len(Prompt) \in Nat
      BY PromptString
    <2>2. PICK f \in [0 .. Len(Prompt) -> Displays] : e = f[Len(Prompt)]
      BY <2>1, StringIsPrinted
    <2>. QED  BY <2>1, <2>2
  <1>2. display' = e /\ barrier' = [x |-> e.x, y |-> e.y] /\ typed' = << >>
    BY DEF shell_prompt
  <1>. HIDE DEF e
  <1>3. e.x \in Int /\ e.y \in Int
    <2>1. e.x \in 0 .. FbWidth /\ e.y \in 0 .. FbHeight
      BY <1>1 DEF Displays
    <2>. QED  BY <2>1
  <1>. QED  BY <1>1, <1>2, <1>3 DEF ShellTyped

LEMMA EraseKeepsTypes ==
  ASSUME ScreenOfGlyphs, ShellTyped, Erase
  PROVE  ShellTyped'
  <1>1. display' \in Displays
    <2>1. "backspace" \in Characters
      <3>1. standard_keycodes[15] = "backspace" /\ 15 \in DOMAIN standard_keycodes
        BY DEF standard_keycodes
      <3>. QED  BY <3>1 DEF Characters, Range
    <2>2. framebuffer_print_char(display, "backspace") \in Displays
      BY <2>1, CharacterKeepsDisplay DEF ShellTyped, Printable
    <2>. QED  BY <2>2 DEF Erase, ShellTyped
  <1>2. typed' \in Seq(Characters)
    BY FrontOfSequence DEF Erase, ShellTyped
  <1>. QED  BY <1>1, <1>2 DEF Erase, ShellTyped

LEMMA EchoKeepsTypes ==
  ASSUME ScreenOfGlyphs, ShellTyped, NEW c \in Echoed, Echo(c)
  PROVE  ShellTyped'
  <1>1. c \in Characters /\ Blank \in Characters
    BY DEF Echoed, Characters
  <1>2. display' \in Displays
    BY <1>1, CharacterKeepsDisplay DEF Echo, ShellTyped, Printable
  <1>3. typed' \in Seq(Characters)
    <2>1. <<Blank, Blank, Blank, Blank>> \in Seq(Characters) /\ <<c>> \in Seq(Characters)
      BY <1>1
    <2>2. (IF c = "\t" THEN <<Blank, Blank, Blank, Blank>> ELSE <<c>>) \in Seq(Characters)
      BY <2>1, Zenon
    <2>. QED  BY <2>2 DEF Echo, ShellTyped
  <1>4. barrier' \in [x : Int, y : Int]
    <2>1. barrier.y - GlyphHeight \in Int
      BY Screen DEF ShellTyped
    <2>. QED  BY <2>1 DEF Echo, MovedBarrier, ShellTyped
  <1>. QED  BY <1>2, <1>3, <1>4 DEF ShellTyped

LEMMA ShellTypedNext ==
  ASSUME ScreenOfGlyphs, PromptIsText, KeysInTable, ModifierInv, ShellTyped, [Next]_vars
  PROVE  ShellTyped'
  <1>1. CASE UNCHANGED shellVars
    BY <1>1 DEF shellVars, ShellTyped
  <1>2. CASE KeyboardIRQ
    <2>1. CASE Return
      <3>1. framebuffer_print_char(display, "\n") \in Displays
        BY CharacterKeepsDisplay DEF Printable, ShellTyped
      <3>. QED  BY <2>1, <3>1, PromptKeepsTypes DEF Return
    <2>. QED  BY <1>1, <1>2, <2>1, EraseKeepsTypes, EchoKeepsTypes, InterruptOnShell
  <1>3. CASE StartShell
    <2>1. shell_prompt(Empty)
      BY <1>3 DEF StartShell, shell_screen_init
    <2>. QED  BY <2>1, EmptyDisplay, PromptKeepsTypes
  <1>4. ASSUME NEW key \in Keys, Press(key) \/ Release(key) PROVE ShellTyped'
    BY <1>1, <1>4 DEF Press, Release
  <1>5. CASE UNCHANGED vars
    BY <1>1, <1>5 DEF vars, shellVars
  <1>. QED  BY <1>2, <1>3, <1>4, <1>5 DEF Next

\* The property TypeOK: framebuffer_print_char (framebuffer.c:237-295) keeps
\* the cursor on the screen, behind a line, or below it, in front of a glyph,
\* whatever is typed and however often the screen scrolls.
THEOREM TypeCorrect ==
  ASSUME ScreenOfGlyphs, PromptIsText, KeysInTable
  PROVE  Spec => []TypeOK
  <1>. DEFINE Inv == ModifierInv /\ ShellTyped
  <1>1. Init => Inv
    <2>. SUFFICES ASSUME Init PROVE ShellTyped
      BY InitInv
    <2>1. display = Empty /\ barrier = [x |-> 0, y |-> 0] /\ typed = << >>
      BY DEF Init, ShellInit
    <2>. QED  BY <2>1, EmptyDisplay DEF ShellTyped
  <1>2. Inv /\ [Next]_vars => Inv'
    BY NextKeepsInv, ShellTypedNext
  <1>3. Inv => TypeOK
    <2>. SUFFICES ASSUME ModifierInv, ShellTyped PROVE TypeOK
      OBVIOUS
    <2>1. ShellTypeOK(Characters)
      <3>1. display \in [fb : [Rows -> [Columns -> Characters]], x : 0 .. FbWidth, y : 0 .. FbHeight]
        BY DEF ShellTyped, Displays
      <3>. QED  BY <3>1 DEF ShellTypeOK, ShellTyped
    <2>2. Len(bytes) <= 2
      <3>1. CASE bytes = << >>
        BY <3>1
      <3>2. ASSUME NEW code, bytes = <<code>> PROVE Len(bytes) <= 2
        <4>1. Len(<<code>>) = 1
          OBVIOUS
        <4>. QED  BY <3>2, <4>1
      <3>3. ASSUME NEW code, bytes = <<Prefix, code>> PROVE Len(bytes) <= 2
        <4>1. Len(<<Prefix, code>>) = 2
          OBVIOUS
        <4>. QED  BY <3>3, <4>1
      <3>4. bytes = << >> \/ \E code \in Nat : bytes = <<code>> \/ bytes = <<Prefix, code>>
        BY DEF ModifierInv, BytesOK
      <3>. QED  BY <3>1, <3>2, <3>3, <3>4, Zenon
    <2>. QED  BY <2>1, <2>2 DEF TypeOK, ModifierInv
  <1>. QED  BY <1>1, <1>2, <1>3, PTL DEF Spec
----------------------------------------------------------------------------
(* The invariant of the shell.                                             *)

\* The barrier is at the end of the prompt, in a row of glyphs that may be
\* above the screen, and behind it is what was typed.  The barrier is moved
\* when a glyph is put at the last place, and the screen scrolls only when the
\* next one is printed: until then the barrier belongs to the settled display.
BarrierInv ==
  \E row \in Int :
    /\ barrier.x = Len(PromptTail) * GlyphWidth /\ barrier.y = row * GlyphHeight
    /\ PlaceOf(Settled(display)) = row * RowLength + Len(PromptTail) + Len(typed)

LineInv == BarrierInv /\ Shows(display, PromptTail \o typed)

ShellInv ==
  /\ display \in Displays /\ barrier \in [x : Int, y : Int] /\ typed \in Seq(Characters)
  /\ is_keyboard_active => LineInv

\* The prompt's line, and a longer or shorter one.
LEMMA LineLengths ==
  ASSUME PromptFits, NEW s \in Seq(Characters)
  PROVE  /\ PromptTail \o s \in Seq(Characters)
         /\ Len(PromptTail) \in Nat /\ Len(s) \in Nat
         /\ Len(PromptTail \o s) = Len(PromptTail) + Len(s)
         /\ \A i \in 1 .. Len(PromptTail) : (PromptTail \o s)[i] = PromptTail[i]
         /\ \A i \in 1 .. Len(s) : (PromptTail \o s)[Len(PromptTail) + i] = s[i]
  <1>1. PromptTail \in Seq(Characters)
    BY PromptString DEF PromptFits
  <1>2. Len(PromptTail) \in Nat /\ Len(s) \in Nat
    BY <1>1
  <1>. QED  BY <1>1, <1>2, Concatenated

LEMMA LongerLine ==
  ASSUME PromptFits, NEW s \in Seq(Characters), NEW r \in Seq(Characters),
         Len(r) = Len(s) + 1, \A i \in 1 .. Len(s) : r[i] = s[i]
  PROVE  LET line == PromptTail \o s
             longer == PromptTail \o r
         IN /\ Len(longer) = Len(line) + 1 /\ longer[Len(line) + 1] = r[Len(r)]
            /\ \A i \in 1 .. Len(line) : longer[i] = line[i]
  <1>. DEFINE t == Len(PromptTail)
              line == PromptTail \o s
              longer == PromptTail \o r
  <1>1. /\ t \in Nat /\ Len(s) \in Nat /\ Len(line) = t + Len(s)
        /\ \A i \in 1 .. t : line[i] = PromptTail[i]
        /\ \A i \in 1 .. Len(s) : line[t + i] = s[i]
    BY LineLengths
  <1>2. /\ Len(longer) = t + Len(r)
        /\ \A i \in 1 .. t : longer[i] = PromptTail[i]
        /\ \A i \in 1 .. Len(r) : longer[t + i] = r[i]
    BY LineLengths
  <1>. HIDE DEF line, longer, t
  <1>3. Len(longer) = Len(line) + 1 /\ Len(line) + 1 = t + Len(r) /\ Len(r) \in 1 .. Len(r)
    BY <1>1, <1>2
  <1>4. longer[Len(line) + 1] = r[Len(r)]
    BY <1>2, <1>3
  <1>5. ASSUME NEW i \in 1 .. Len(line) PROVE longer[i] = line[i]
    <2>1. CASE i <= t
      <3>1. i \in 1 .. t
        BY <1>1, <2>1
      <3>. QED  BY <1>1, <1>2, <3>1
    <2>2. CASE i > t
      <3>1. i - t \in 1 .. Len(s) /\ i - t \in 1 .. Len(r) /\ t + (i - t) = i
        BY <1>1, <2>2
      <3>2. longer[i] = r[i - t] /\ line[i] = s[i - t]
        BY <1>1, <1>2, <3>1
      <3>. QED  BY <3>1, <3>2
    <2>. QED  BY <1>1, <2>1, <2>2
  <1>. QED  BY <1>3, <1>4, <1>5 DEF line, longer

\* A new prompt has nothing behind it.
LEMMA PromptEstablishes ==
  ASSUME ScreenOfGlyphs, PromptFits, NEW d \in Displays, shell_prompt(d)
  PROVE  /\ display' \in Displays /\ barrier' \in [x : Int, y : Int]
         /\ typed' \in Seq(Characters) /\ LineInv'
  <1>. DEFINE e == framebuffer_print_string(d, Prompt)
  <1>1. e \in Displays /\ InFront(e) /\ ColOf(e) = Len(PromptTail) /\ Shows(e, PromptTail)
    BY PromptShown
  <1>2. display' = e /\ barrier' = [x |-> e.x, y |-> e.y] /\ typed' = << >>
    BY DEF shell_prompt
  <1>. HIDE DEF e
  <1>3. /\ e.x = Len(PromptTail) * GlyphWidth /\ e.y = RowOf(e) * GlyphHeight
        /\ PlaceOf(e) = RowOf(e) * RowLength + Len(PromptTail)
        /\ RowOf(e) \in 0 .. Lines
    BY <1>1, Cursor
  <1>4. /\ Lines \in Nat /\ RowLength \in Nat /\ GlyphWidth \in Nat /\ GlyphHeight \in Nat
        /\ Len(PromptTail) \in Nat /\ PromptTail \in Seq(Characters)
    BY Screen, PromptString DEF PromptFits
  <1>5. e.x \in Int /\ e.y \in Int
    BY <1>3, <1>4
  <1>6. Settled(e) = e
    BY <1>1, Settling
  <1>7. BarrierInv'
    <2>1. RowOf(e) \in Int /\ barrier'.x = e.x /\ barrier'.y = e.y /\ Len(typed') = 0
      BY <1>2, <1>3, <1>4
    <2>2. RowOf(e) * RowLength \in Int
      BY <1>4, <2>1
    <2>3. PlaceOf(Settled(e)) = RowOf(e) * RowLength + Len(PromptTail) + Len(typed')
      BY <1>3, <1>4, <1>6, <2>1, <2>2
    <2>. QED  BY <1>2, <1>3, <2>1, <2>3 DEF BarrierInv
  <1>8. PromptTail \o typed' = PromptTail
    BY <1>2, <1>4
  <1>9. Shows(display', PromptTail \o typed')
    BY <1>1, <1>2, <1>8
  <1>10. barrier' \in [x : Int, y : Int] /\ typed' \in Seq(Characters)
    BY <1>2, <1>5
  <1>. QED  BY <1>1, <1>2, <1>7, <1>9, <1>10 DEF LineInv

\* The comparison of the cursor with the barrier tells whether anything typed
\* is left.
LEMMA BarrierTells ==
  ASSUME ScreenOfGlyphs, PromptFits, ShellInv, is_keyboard_active
  PROVE  AtBarrier <=> typed = << >>
  <1>. DEFINE s == Settled(display)
              t == Len(PromptTail)
  <1>1. display \in Displays /\ typed \in Seq(Characters) /\ LineInv
    BY DEF ShellInv
  <1>2. PICK row \in Int :
          /\ barrier.x = t * GlyphWidth /\ barrier.y = row * GlyphHeight
          /\ PlaceOf(s) = row * RowLength + t + Len(typed)
    BY <1>1 DEF LineInv, BarrierInv
  <1>3. /\ RowLength \in Nat \ {0} /\ GlyphWidth \in Nat \ {0} /\ GlyphHeight \in Nat \ {0}
        /\ t \in Nat /\ t \in 0 .. (RowLength - 1) /\ t # 0 /\ Len(typed) \in Nat
        /\ t < RowLength /\ Lines \in Nat
    <2>1. t \in 1 .. (RowLength - 1) /\ RowLength \in Nat \ {0}
      BY Screen DEF PromptFits
    <2>2. t \in Nat /\ t \in 0 .. (RowLength - 1) /\ t # 0 /\ t < RowLength
      <3>. HIDE DEF t
      <3>. QED  BY <2>1
    <2>. QED  BY <1>1, <2>2, Screen
  <1>4. /\ s \in Displays /\ InFront(s) /\ (s = display \/ ColOf(s) = 0)
        /\ (InFront(display) => s = display)
    BY <1>1, Settling
  <1>5. /\ PlaceOf(s) = RowOf(s) * RowLength + ColOf(s)
        /\ RowOf(s) \in 0 .. (Lines - 1) /\ ColOf(s) \in 0 .. (RowLength - 1)
        /\ s.x = ColOf(s) * GlyphWidth /\ s.y = RowOf(s) * GlyphHeight
    <2>1. /\ PlaceOf(s) = RowOf(s) * RowLength + ColOf(s)
          /\ RowOf(s) \in 0 .. Lines /\ ColOf(s) \in 0 .. RowLength
          /\ s.x = ColOf(s) * GlyphWidth /\ s.y = RowOf(s) * GlyphHeight
      BY <1>4, Cursor
    <2>2. RowOf(s) < Lines /\ ColOf(s) < RowLength
      BY <1>4 DEF InFront
    <2>. HIDE DEF s
    <2>3. Lines \in Nat /\ RowLength \in Nat
      BY <1>3
    <2>4. RowOf(s) \in 0 .. (Lines - 1) /\ ColOf(s) \in 0 .. (RowLength - 1)
      BY <2>1, <2>2, <2>3
    <2>. QED  BY <2>1, <2>4
  <1>. HIDE DEF s, t
  <1>6. ASSUME typed = << >> PROVE AtBarrier
    <2>1. PlaceOf(s) = row * RowLength + t
      <3>1. row * RowLength \in Int /\ Len(typed) = 0
        BY <1>3, <1>6
      <3>. HIDE DEF RowLength
      <3>. QED  BY <1>2, <1>3, <3>1
    <2>2. PlaceOf(s) \div RowLength = row /\ PlaceOf(s) % RowLength = t
      BY <1>3, <2>1, PlaceOfGlyph
    <2>3. PlaceOf(s) \div RowLength = RowOf(s) /\ PlaceOf(s) % RowLength = ColOf(s)
      <3>1. RowOf(s) \in Int
        BY <1>3, <1>5
      <3>. QED  BY <1>5, <3>1, PlaceOfGlyph
    <2>4. RowOf(s) = row /\ ColOf(s) = t
      BY <2>2, <2>3
    <2>5. s = display
      BY <1>3, <1>4, <2>4
    <2>. QED  BY <1>2, <1>5, <2>4, <2>5 DEF AtBarrier
  <1>7. ASSUME AtBarrier PROVE typed = << >>
    <2>1. display.x = t * GlyphWidth /\ display.y = row * GlyphHeight
      BY <1>2, <1>7 DEF AtBarrier
    <2>2. RowOf(display) = row /\ ColOf(display) = t /\ PlaceOf(display) = row * RowLength + t
      <3>1. row \in Int /\ t \in Int
        BY <1>3
      <3>. QED  BY <2>1, <3>1, CursorAt
    <2>3. /\ RowOf(display) \in 0 .. Lines
          /\ (RowOf(display) = Lines => ColOf(display) = 0)
      BY <1>1, Cursor
    <2>4. InFront(display)
      BY <1>3, <2>2, <2>3 DEF InFront
    <2>5. row * RowLength + t = row * RowLength + t + Len(typed)
      BY <1>2, <1>4, <2>2, <2>4
    <2>6. Len(typed) = 0
      <3>1. row * RowLength \in Int
        BY <1>3
      <3>. HIDE DEF RowLength
      <3>. QED  BY <1>3, <2>5, <3>1
    <2>. QED  BY <1>1, <2>6
  <1>. QED  BY <1>6, <1>7

\* What a backspace does to the display.
LEMMA Erased ==
  ASSUME ScreenOfGlyphs, PromptFits, ShellInv, is_keyboard_active, Erase
  PROVE  LET s == Settled(display)
         IN /\ UNCHANGED barrier
            /\ typed = << >> => UNCHANGED <<display, typed>>
            /\ typed # << >> /\ PlaceOf(s) = 0 =>
                 UNCHANGED <<display, typed>> /\ display.x = 0 /\ display.y = 0
            /\ typed # << >> /\ PlaceOf(s) # 0 =>
                 /\ display' = Backspace(s) /\ display' # display /\ typed' = Front(typed)
                 /\ ~(display.x = 0 /\ display.y = 0)
  <1>. DEFINE s == Settled(display)
  <1>1. display \in Displays /\ typed \in Seq(Characters)
    BY DEF ShellInv
  <1>2. /\ s \in Displays /\ InFront(s) /\ (s = display \/ (ColOf(s) = 0 /\ RowOf(s) >= 1))
        /\ PlaceOf(display) \in 0 .. Size /\ PlaceOf(s) \in 0 .. (Size - 1)
        /\ PlaceOf(display) # Size => PlaceOf(s) = PlaceOf(display)
        /\ PlaceOf(display) = Size => PlaceOf(s) = Size - RowLength
    BY <1>1, Settling
  <1>3. /\ RowLength \in Nat \ {0} /\ Size \in Nat
        /\ GlyphWidth \in Nat \ {0} /\ GlyphHeight \in Nat \ {0}
    BY Screen
  <1>4. /\ UNCHANGED barrier
        /\ display' = IF AtBarrier THEN display ELSE framebuffer_print_char(display, "backspace")
        /\ typed' = IF typed = << >> \/ UNCHANGED display THEN typed ELSE Front(typed)
    BY DEF Erase
  <1>5. framebuffer_print_char(display, "backspace") = Backspace(s)
    BY DEF framebuffer_print_char, PrintPlain, Settled
  <1>6. AtBarrier <=> typed = << >>
    BY BarrierTells
  <1>. HIDE DEF s
  <1>7. ASSUME typed = << >> PROVE UNCHANGED <<display, typed>>
    BY <1>4, <1>6, <1>7
  <1>8. ASSUME typed # << >>, PlaceOf(s) = 0
        PROVE  UNCHANGED <<display, typed>> /\ display.x = 0 /\ display.y = 0
    <2>1. Backspace(s) = s /\ RowOf(s) = 0 /\ ColOf(s) = 0
      BY <1>2, <1>8, Backspacing
    <2>2. s = display
      BY <1>2, <2>1
    <2>3. display' = display
      BY <1>4, <1>5, <1>6, <1>8, <2>1, <2>2
    <2>4. typed' = typed
      BY <1>4, <2>3
    <2>5. display.x = 0 * GlyphWidth /\ display.y = 0 * GlyphHeight
      BY <1>1, <2>1, <2>2, Cursor
    <2>. QED  BY <1>3, <2>3, <2>4, <2>5
  <1>9. ASSUME typed # << >>, PlaceOf(s) # 0
        PROVE  /\ display' = Backspace(s) /\ display' # display /\ typed' = Front(typed)
               /\ ~(display.x = 0 /\ display.y = 0)
    <2>1. display' = Backspace(s)
      BY <1>4, <1>5, <1>6, <1>9
    <2>2. PlaceOf(Backspace(s)) = PlaceOf(s) - 1
      BY <1>2, <1>9, Backspacing
    <2>3. display' # display
      <3>1. PlaceOf(s) <= PlaceOf(display)
        BY <1>2, <1>3
      <3>2. PlaceOf(Backspace(s)) # PlaceOf(display)
        BY <1>2, <1>3, <2>2, <3>1
      <3>. QED  BY <2>1, <3>2
    <2>4. typed' = Front(typed)
      BY <1>4, <1>9, <2>3
    <2>5. ASSUME display.x = 0, display.y = 0 PROVE FALSE
      <3>1. display.x = 0 * GlyphWidth /\ display.y = 0 * GlyphHeight
        BY <1>3, <2>5
      <3>2. PlaceOf(display) = 0 * RowLength + 0
        BY <3>1, CursorAt
      <3>3. PlaceOf(display) = 0
        BY <1>3, <3>2
      <3>4. Size # 0
        BY <1>2, <1>3
      <3>. QED  BY <1>2, <1>9, <3>3, <3>4
    <2>. QED  BY <2>1, <2>3, <2>4, <2>5
  <1>. QED  BY <1>4, <1>7, <1>8, <1>9 DEF s

LEMMA EraseKeepsInv ==
  ASSUME ScreenOfGlyphs, PromptFits, ShellInv, is_keyboard_active, Erase
  PROVE  /\ display' \in Displays /\ barrier' \in [x : Int, y : Int]
         /\ typed' \in Seq(Characters) /\ LineInv'
  <1>. DEFINE s == Settled(display)
  <1>1. /\ display \in Displays /\ barrier \in [x : Int, y : Int] /\ typed \in Seq(Characters)
        /\ BarrierInv /\ Shows(display, PromptTail \o typed)
    BY DEF ShellInv, LineInv
  <1>2. barrier' = barrier
    BY Erased
  <1>3. CASE UNCHANGED <<display, typed>>
    <2>1. BarrierInv' /\ Shows(display', PromptTail \o typed')
      BY <1>1, <1>2, <1>3 DEF BarrierInv
    <2>. QED  BY <1>1, <1>2, <1>3, <2>1 DEF LineInv
  <1>4. CASE typed # << >> /\ PlaceOf(s) # 0
    <2>1. display' = Backspace(s) /\ typed' = Front(typed)
      BY <1>4, Erased
    <2>2. /\ typed' \in Seq(Characters) /\ Len(typed) = Len(typed') + 1
          /\ \A i \in 1 .. Len(typed') : typed'[i] = typed[i]
      BY <1>1, <1>4, <2>1, FrontOfSequence
    <2>3. /\ s \in Displays /\ InFront(s) /\ Shows(s, PromptTail \o typed)
          /\ PlaceOf(s) \in 0 .. (Size - 1)
      BY <1>1, LineLengths, Settling, SettlingShows
    <2>4. /\ display' \in Displays /\ PlaceOf(display') = PlaceOf(s) - 1 /\ InFront(display')
      BY <1>4, <2>1, <2>3, Backspacing
    <2>. DEFINE line == PromptTail \o typed
                shorter == PromptTail \o typed'
    <2>5. /\ line \in Seq(Characters) /\ shorter \in Seq(Characters)
          /\ Len(line) = Len(shorter) + 1
          /\ \A i \in 1 .. Len(shorter) : shorter[i] = line[i]
      <3>1. \A i \in 1 .. Len(typed') : typed[i] = typed'[i]
        BY <2>2
      <3>2. /\ Len(line) = Len(shorter) + 1
            /\ \A i \in 1 .. Len(shorter) : line[i] = shorter[i]
        BY <1>1, <2>2, <3>1, LongerLine
      <3>3. line \in Seq(Characters) /\ shorter \in Seq(Characters)
        BY <1>1, <2>2, LineLengths
      <3>. HIDE DEF line, shorter
      <3>. QED  BY <3>2, <3>3
    <2>6. Shows(display', shorter)
      <3>1. Shows(s, line)
        BY <2>3
      <3>. HIDE DEF line, shorter, s
      <3>2. Shows(Backspace(s), shorter)
        BY <1>4, <2>3, <2>5, <3>1, BackspacingShows
      <3>. QED  BY <2>1, <3>2
    <2>7. BarrierInv'
      <3>1. PICK row \in Int :
              /\ barrier.x = Len(PromptTail) * GlyphWidth /\ barrier.y = row * GlyphHeight
              /\ PlaceOf(s) = row * RowLength + Len(PromptTail) + Len(typed)
        BY <1>1 DEF BarrierInv
      <3>2. Settled(display') = display'
        BY <2>4, Settling
      <3>3. PlaceOf(display') = row * RowLength + Len(PromptTail) + Len(typed')
        <4>1. /\ row * RowLength \in Int /\ Len(PromptTail) \in Nat
              /\ Len(typed) \in Nat /\ Len(typed') \in Nat
          <5>1. RowLength \in Nat
            BY Screen
          <5>. QED  BY <1>1, <2>2, <5>1, PromptString
        <4>. DEFINE a == row * RowLength
        <4>. HIDE DEF s, a
        <4>2. PlaceOf(s) = a + Len(PromptTail) + Len(typed) /\ a \in Int
          BY <3>1, <4>1 DEF a
        <4>3. PlaceOf(display') = a + Len(PromptTail) + Len(typed')
          BY <2>2, <2>4, <4>1, <4>2
        <4>. QED  BY <4>3 DEF a
      <3>. QED  BY <1>2, <3>1, <3>2, <3>3 DEF BarrierInv
    <2>. QED  BY <1>1, <1>2, <2>2, <2>4, <2>6, <2>7 DEF LineInv
  <1>5. UNCHANGED <<display, typed>> \/ (typed # << >> /\ PlaceOf(s) # 0)
    BY Erased
  <1>. QED  BY <1>3, <1>4, <1>5

LEMMA MovedY ==
  ASSUME NEW b \in [x : Int, y : Int], NEW k \in Int, NEW e, e = [b EXCEPT !.y = k]
  PROVE  e \in [x : Int, y : Int] /\ e.x = b.x /\ e.y = k
OBVIOUS

\* "move barrier if screen scrolls": the glyph at the last place is what makes
\* the screen scroll, with the next character.
LEMMA EchoKeepsInv ==
  ASSUME ScreenOfGlyphs, PromptFits, ShellInv, is_keyboard_active, NEW c \in Glyphs, Echo(c)
  PROVE  /\ display' \in Displays /\ barrier' \in [x : Int, y : Int]
         /\ typed' \in Seq(Characters) /\ LineInv'
  <1>. DEFINE s == Settled(display)
              line == PromptTail \o typed
              longer == PromptTail \o typed'
              t == Len(PromptTail)
              atEnd == display.y + GlyphHeight = FbHeight /\ display.x + GlyphWidth = FbWidth
  <1>1. /\ display \in Displays /\ barrier \in [x : Int, y : Int] /\ typed \in Seq(Characters)
        /\ BarrierInv /\ Shows(display, line)
    BY DEF ShellInv, LineInv
  <1>2. /\ c \in Characters /\ c \notin {"\n", "\t", "backspace"}
    BY DEF Glyphs, Echoed
  <1>3. /\ display' = framebuffer_print_char(display, c)
        /\ typed' = typed \o <<c>>
        /\ barrier' = IF atEnd THEN [barrier EXCEPT !.y = barrier.y - GlyphHeight] ELSE barrier
    BY <1>2 DEF Echo, MovedBarrier
  <1>4. /\ typed' \in Seq(Characters) /\ Len(typed') = Len(typed) + 1
        /\ typed'[Len(typed')] = c /\ Len(typed) \in Nat
        /\ \A i \in 1 .. Len(typed) : typed'[i] = typed[i]
    <2>1. <<c>> \in Seq(Characters) /\ Len(<<c>>) = 1 /\ <<c>>[1] = c
      BY <1>2
    <2>2. /\ typed \o <<c>> \in Seq(Characters)
          /\ Len(typed \o <<c>>) = Len(typed) + Len(<<c>>)
          /\ \A i \in 1 .. Len(typed) : (typed \o <<c>>)[i] = typed[i]
          /\ \A i \in 1 .. Len(<<c>>) : (typed \o <<c>>)[Len(typed) + i] = <<c>>[i]
      BY <1>1, <2>1, Concatenated
    <2>3. (typed \o <<c>>)[Len(typed) + 1] = c
      BY <2>1, <2>2
    <2>4. Len(typed) \in Nat
      BY <1>1
    <2>. QED  BY <1>3, <2>1, <2>2, <2>3, <2>4
  <1>5. /\ line \in Seq(Characters) /\ longer \in Seq(Characters)
        /\ Len(longer) = Len(line) + 1 /\ longer[Len(line) + 1] = c
        /\ \A i \in 1 .. Len(line) : longer[i] = line[i]
    <2>1. /\ Len(longer) = Len(line) + 1 /\ longer[Len(line) + 1] = typed'[Len(typed')]
          /\ \A i \in 1 .. Len(line) : longer[i] = line[i]
      BY <1>1, <1>4, LongerLine
    <2>2. line \in Seq(Characters) /\ longer \in Seq(Characters)
      BY <1>1, <1>4, LineLengths
    <2>. HIDE DEF line, longer
    <2>. QED  BY <1>4, <2>1, <2>2
  <1>. HIDE DEF line, longer, s, t, atEnd
  <1>6. /\ display' \in Displays /\ Shows(display', longer)
        /\ RowOf(display') = RowOf(s) /\ ColOf(display') = ColOf(s) + 1
        /\ PlaceOf(display') = PlaceOf(s) + 1
    BY <1>1, <1>2, <1>3, <1>5, GlyphShows DEF s
  <1>7. /\ RowLength \in Nat \ {0} /\ Lines \in Nat /\ Size \in Nat /\ Size = Lines * RowLength
        /\ GlyphWidth \in Nat \ {0} /\ GlyphHeight \in Nat \ {0}
        /\ FbWidth = RowLength * GlyphWidth /\ FbHeight = Lines * GlyphHeight
        /\ t \in 1 .. (RowLength - 1) /\ t \in Nat
    BY Screen, PromptString DEF PromptFits, Size, t
  <1>8. /\ s \in Displays /\ InFront(s) /\ PlaceOf(s) \in 0 .. (Size - 1)
        /\ s = display \/ ColOf(s) = 0
        /\ InFront(display) => s = display
    BY <1>1, Settling DEF s
  <1>9. /\ RowOf(s) \in 0 .. (Lines - 1) /\ ColOf(s) \in 0 .. (RowLength - 1)
        /\ PlaceOf(s) = RowOf(s) * RowLength + ColOf(s)
    <2>1. /\ RowOf(s) \in 0 .. Lines /\ ColOf(s) \in 0 .. RowLength
          /\ PlaceOf(s) = RowOf(s) * RowLength + ColOf(s)
      BY <1>8, Cursor
    <2>2. RowOf(s) < Lines /\ ColOf(s) < RowLength
      BY <1>8 DEF InFront
    <2>. QED  BY <1>7, <2>1, <2>2
  <1>10. PlaceOf(s) + 1 = Size <=> RowOf(s) = Lines - 1 /\ ColOf(s) = RowLength - 1
    <2>. DEFINE a == RowOf(s) * RowLength
    <2>1. Size = (Lines - 1) * RowLength + (RowLength - 1) + 1
      BY <1>7
    <2>2. ASSUME RowOf(s) = Lines - 1, ColOf(s) = RowLength - 1 PROVE PlaceOf(s) + 1 = Size
      BY <1>7, <1>9, <2>1, <2>2
    <2>3. ASSUME PlaceOf(s) + 1 = Size PROVE RowOf(s) = Lines - 1 /\ ColOf(s) = RowLength - 1
      <3>. DEFINE q == (Lines - 1) * RowLength + (RowLength - 1)
      <3>1. PlaceOf(s) = q
        <4>1. q \in Int /\ Size = q + 1 /\ PlaceOf(s) \in Int
          BY <1>7, <1>8, <2>1
        <4>. HIDE DEF q
        <4>. QED  BY <2>3, <4>1
      <3>2. Lines - 1 \in Int /\ RowLength - 1 \in 0 .. (RowLength - 1) /\ RowOf(s) \in Int
        BY <1>7, <1>9
      <3>3. q \div RowLength = Lines - 1 /\ q % RowLength = RowLength - 1
        BY <3>2, PlaceOfGlyph
      <3>4. PlaceOf(s) \div RowLength = RowOf(s) /\ PlaceOf(s) % RowLength = ColOf(s)
        BY <1>9, <3>2, PlaceOfGlyph
      <3>. HIDE DEF q
      <3>. QED  BY <3>1, <3>3, <3>4
    <2>. QED  BY <2>2, <2>3
  <1>11. atEnd <=> RowOf(s) = Lines - 1 /\ ColOf(s) = RowLength - 1
    <2>1. ASSUME RowOf(s) = Lines - 1, ColOf(s) = RowLength - 1 PROVE atEnd
      <3>1. s = display
        BY <1>7, <1>8, <2>1
      <3>2. /\ display.x = (RowLength - 1) * GlyphWidth /\ display.y = (Lines - 1) * GlyphHeight
        BY <1>1, <2>1, <3>1, Cursor
      <3>3. display.x + GlyphWidth = FbWidth /\ display.y + GlyphHeight = FbHeight
        BY <1>7, <3>2
      <3>. QED  BY <3>3 DEF atEnd
    <2>2. ASSUME atEnd PROVE RowOf(s) = Lines - 1 /\ ColOf(s) = RowLength - 1
      <3>1. display.x \in Int /\ display.y \in Int
        BY <1>1 DEF Displays
      <3>2. display.x = (RowLength - 1) * GlyphWidth /\ display.y = (Lines - 1) * GlyphHeight
        <4>1. display.x = RowLength * GlyphWidth - GlyphWidth
              /\ display.y = Lines * GlyphHeight - GlyphHeight
          BY <1>7, <2>2, <3>1 DEF atEnd
        <4>. QED  BY <1>7, <4>1
      <3>3. RowOf(display) = Lines - 1 /\ ColOf(display) = RowLength - 1
        <4>1. Lines - 1 \in Int /\ RowLength - 1 \in Int
          BY <1>7
        <4>. QED  BY <3>2, <4>1, CursorAt
      <3>4. InFront(display)
        BY <1>7, <3>3 DEF InFront
      <3>. QED  BY <1>8, <3>3, <3>4
    <2>. QED  BY <2>1, <2>2
  <1>12. PICK row \in Int :
           /\ barrier.x = t * GlyphWidth /\ barrier.y = row * GlyphHeight
           /\ PlaceOf(s) = row * RowLength + t + Len(typed)
    BY <1>1 DEF BarrierInv, s, t
  <1>13. /\ atEnd => PlaceOf(Settled(display')) = PlaceOf(s) + 1 - RowLength
         /\ ~atEnd => PlaceOf(Settled(display')) = PlaceOf(s) + 1
    <2>1. /\ PlaceOf(display') # Size => PlaceOf(Settled(display')) = PlaceOf(display')
          /\ PlaceOf(display') = Size => PlaceOf(Settled(display')) = Size - RowLength
      BY <1>6, Settling
    <2>2. atEnd <=> PlaceOf(s) + 1 = Size
      BY <1>10, <1>11
    <2>3. PlaceOf(display') = PlaceOf(s) + 1
      BY <1>6
    <2>4. ASSUME atEnd PROVE PlaceOf(Settled(display')) = PlaceOf(s) + 1 - RowLength
      <3>1. PlaceOf(s) + 1 = Size
        BY <2>2, <2>4
      <3>2. PlaceOf(s) \in Int /\ RowLength \in Int
        BY <1>7, <1>8
      <3>3. PlaceOf(Settled(display')) = Size - RowLength
        BY <2>1, <2>3, <3>1
      <3>. QED  BY <3>1, <3>2, <3>3
    <2>5. ASSUME ~atEnd PROVE PlaceOf(Settled(display')) = PlaceOf(s) + 1
      <3>1. PlaceOf(s) + 1 # Size
        BY <2>2, <2>5
      <3>. QED  BY <2>1, <2>3, <3>1
    <2>. QED  BY <2>4, <2>5
  <1>14. BarrierInv' /\ barrier' \in [x : Int, y : Int]
    <2>1. CASE atEnd
      <3>1. barrier' = [barrier EXCEPT !.y = barrier.y - GlyphHeight]
        BY <1>3, <2>1
      <3>2. barrier' \in [x : Int, y : Int] /\ barrier'.x = barrier.x
            /\ barrier'.y = barrier.y - GlyphHeight
        <4>1. barrier.y - GlyphHeight \in Int
          BY <1>1, <1>7
        <4>. QED  BY <1>1, <3>1, <4>1, MovedY
      <3>3. row - 1 \in Int /\ barrier'.y = (row - 1) * GlyphHeight
        BY <1>7, <1>12, <3>2
      <3>4. PlaceOf(Settled(display')) = (row - 1) * RowLength + t + Len(typed')
        <4>. DEFINE a == row * RowLength
        <4>1. (row - 1) * RowLength = a - RowLength /\ a \in Int
          BY <1>7
        <4>2. PlaceOf(s) = a + t + Len(typed)
          BY <1>12
        <4>. HIDE DEF a
        <4>3. PlaceOf(Settled(display')) = PlaceOf(s) + 1 - RowLength
          BY <1>13, <2>1
        <4>4. PlaceOf(s) + 1 - RowLength = (a - RowLength) + t + (Len(typed) + 1)
          BY <1>4, <1>7, <4>1, <4>2
        <4>. QED  BY <1>4, <4>1, <4>3, <4>4
      <3>. QED  BY <1>12, <3>2, <3>3, <3>4 DEF BarrierInv, t
    <2>2. CASE ~atEnd
      <3>1. barrier' = barrier
        BY <1>3, <2>2
      <3>2. PlaceOf(Settled(display')) = row * RowLength + t + Len(typed')
        <4>. DEFINE a == row * RowLength
        <4>1. a \in Int /\ PlaceOf(s) = a + t + Len(typed)
          BY <1>7, <1>12
        <4>. HIDE DEF a
        <4>2. PlaceOf(Settled(display')) = PlaceOf(s) + 1
          BY <1>13, <2>2
        <4>3. PlaceOf(s) + 1 = a + t + (Len(typed) + 1)
          BY <1>4, <1>7, <4>1
        <4>. QED  BY <1>4, <4>2, <4>3 DEF a
      <3>. QED  BY <1>1, <1>12, <3>1, <3>2 DEF BarrierInv, t
    <2>. QED  BY <2>1, <2>2
  <1>. QED  BY <1>4, <1>6, <1>14 DEF LineInv, longer
----------------------------------------------------------------------------
(* The invariance of both, and what follows.                               *)

TerminalInv == ModifierInv /\ ShellInv

LEMMA ShellInvInit ==
  ASSUME ScreenOfGlyphs, Init
  PROVE  ShellInv
  <1>1. display = Empty /\ barrier = [x |-> 0, y |-> 0] /\ typed = << >> /\ is_keyboard_active = FALSE
    BY DEF Init, ShellInit, KeyboardInit
  <1>. QED  BY <1>1, EmptyDisplay DEF ShellInv

LEMMA ShellInvNext ==
  ASSUME ScreenOfGlyphs, PromptFits, KeysInTable, NoTabKey, TerminalInv, [Next]_vars
  PROVE  ShellInv'
  <1>1. ModifierInv /\ ShellInv
    BY DEF TerminalInv
  <1>2. CASE UNCHANGED <<is_keyboard_active, shellVars>>
    BY <1>1, <1>2 DEF shellVars, ShellInv, LineInv, BarrierInv
  <1>3. CASE KeyboardIRQ
    <2>1. is_keyboard_active' = is_keyboard_active
      BY <1>3 DEF KeyboardIRQ
    <2>2. CASE UNCHANGED shellVars
      BY <1>2, <2>1, <2>2
    <2>3. CASE is_keyboard_active /\ Return
      <3>1. framebuffer_print_char(display, "\n") \in Displays
        <4>1. display \in Displays
          BY <1>1 DEF ShellInv
        <4>. QED  BY <4>1, CharacterKeepsDisplay DEF Printable
      <3>. QED  BY <2>3, <3>1, PromptEstablishes DEF Return, ShellInv
    <2>4. CASE is_keyboard_active /\ Erase
      BY <1>1, <2>4, EraseKeepsInv DEF ShellInv
    <2>5. ASSUME is_keyboard_active, NEW c \in Glyphs, Echo(c) PROVE ShellInv'
      BY <1>1, <2>5, EchoKeepsInv DEF ShellInv
    <2>. QED  BY <1>1, <1>3, <2>2, <2>3, <2>4, <2>5, InterruptOnShell
  <1>4. CASE StartShell
    <2>1. shell_prompt(Empty)
      BY <1>4 DEF StartShell, shell_screen_init
    <2>. QED  BY <2>1, EmptyDisplay, PromptEstablishes DEF ShellInv
  <1>5. ASSUME NEW key \in Keys, Press(key) PROVE ShellInv'
    BY <1>2, <1>5 DEF Press, keyboardVars
  <1>6. ASSUME NEW key \in Keys, Release(key) PROVE ShellInv'
    BY <1>2, <1>6 DEF Release, keyboardVars
  <1>7. CASE UNCHANGED vars
    BY <1>2, <1>7 DEF vars, shellVars
  <1>. QED  BY <1>3, <1>4, <1>5, <1>6, <1>7 DEF Next

LEMMA TerminalInvariance ==
  ASSUME ScreenOfGlyphs, PromptFits, KeysInTable, NoTabKey
  PROVE  Spec => []TerminalInv
  <1>1. Init => TerminalInv
    BY InitInv, ShellInvInit DEF TerminalInv
  <1>2. TerminalInv /\ [Next]_vars => TerminalInv'
    BY NextKeepsInv, ShellInvNext DEF TerminalInv
  <1>. QED  BY <1>1, <1>2, PTL DEF Spec

\* The property ScreenShowsLine: through wrapping, scrolling and backspaces
\* over the ends of lines (framebuffer.c:242-290) the screen shows the prompt's
\* line and what was typed on it, on every screen of whole glyphs.
THEOREM LineIsShown ==
  ASSUME ScreenOfGlyphs, PromptFits, KeysInTable, NoTabKey
  PROVE  Spec => []ScreenShowsLine
  <1>1. TerminalInv => ScreenShowsLine
    <2>. SUFFICES ASSUME TerminalInv, is_keyboard_active,
                         NEW n \in 1 .. Len(PromptTail \o typed)
                  PROVE  ShowsBefore(n, (PromptTail \o typed)[Len(PromptTail \o typed) + 1 - n])
      BY DEF ScreenShowsLine
    <2>. DEFINE line == PromptTail \o typed
                char == line[Len(line) + 1 - n]
    <2>1. Shows(display, line)
      BY DEF TerminalInv, ShellInv, LineInv
    <2>2. PlaceOf(display) - n < 0 \/ Shown(display.fb, PlaceOf(display) - n, char)
      BY <2>1 DEF Shows
    <2>3. PlaceBefore(n) = PlaceOf(display) - n
      <3>1. /\ RowOf(display) \in Int /\ ColOf(display) \in Int /\ RowLength \in Int /\ n \in Int
        BY Screen, Cursor DEF TerminalInv, ShellInv
      <3>2. PlaceBefore(n) = RowOf(display) * RowLength + (ColOf(display) - n)
        BY Zenon DEF PlaceBefore, RowOf, ColOf
      <3>. DEFINE a == RowOf(display) * RowLength
      <3>3. a \in Int
        BY <3>1
      <3>. HIDE DEF a
      <3>4. a + (ColOf(display) - n) = (a + ColOf(display)) - n
        BY <3>1, <3>3
      <3>. QED  BY <3>2, <3>4 DEF a, PlaceOf
    <2>. HIDE DEF line, char
    <2>4. ShowsBefore(n, char)
      BY <2>2, <2>3 DEF ShowsBefore, Shown, ShownIn
    <2>. QED  BY <2>4 DEF line, char
  <1>. QED  BY <1>1, TerminalInvariance, PTL

\* The property BackspaceTakesBackTyped: the comparison of the cursor with the
\* barrier (shell_screen.c:68-75) lets a backspace through exactly when there
\* is something typed to take back, through every scroll that moved the barrier
\* (shell_screen.c:78-80), and not when its end has scrolled out.
THEOREM PromptIsNotErased ==
  ASSUME ScreenOfGlyphs, PromptFits, KeysInTable, NoTabKey
  PROVE  Spec => BackspaceTakesBackTyped
  <1>. DEFINE Backspaced == is_keyboard_active /\ bytes = <<Erasing>> /\ bytes' = << >>
              TakesBack == UNCHANGED <<display>> <=>
                             (typed = << >> \/ (display.x = 0 /\ display.y = 0))
  <1>1. TerminalInv /\ [Next]_vars => [Backspaced => TakesBack]_vars
    <2>. SUFFICES ASSUME TerminalInv, [Next]_vars, Backspaced PROVE TakesBack
      OBVIOUS
    <2>1. KeyboardIRQ
      <3>1. bytes # << >> /\ bytes' # bytes
        OBVIOUS
      <3>. QED  BY <3>1 DEF Next, Press, Release, StartShell, vars
    <2>2. Erase
      BY <2>1, ErasingOnShell
    <2>3. ShellInv
      BY DEF TerminalInv
    <2>. QED  BY <2>2, <2>3, Erased
  <1>2. Spec => [][Backspaced => TakesBack]_vars
    BY <1>1, TerminalInvariance, PTL DEF Spec
  <1>. QED  BY <1>2 DEF BackspaceTakesBackTyped
=============================================================================
