------------------------------ MODULE Console ------------------------------
(***************************************************************************)
(* The text console of framebuffer.c: glyphs, the cursor, wrapping,        *)
(* scrolling, tab and backspace.  A pixel holds the character whose glyph  *)
(* covers it; a space, like the background, is Blank.  The glyphs come     *)
(* from ssfn_putc (ssfn.h), which clips them at the right and at the       *)
(* bottom and moves the cursor, but neither wraps nor scrolls.             *)
(***************************************************************************)
EXTENDS Integers, Sequences, SequencesExt

CONSTANTS
  FbWidth, FbHeight,       \* gfx.fb_width and gfx.fb_height in pixels
  GlyphWidth, GlyphHeight  \* 8 and 16

ASSUME ConsoleAssumption ==
  /\ GlyphWidth \in Nat \ {0} /\ GlyphHeight \in Nat \ {0}
  /\ FbWidth \in Nat /\ FbWidth >= GlyphWidth
  /\ FbHeight \in Nat /\ FbHeight >= 2 * GlyphHeight

Blank == "space"
Rows == 0 .. (FbHeight - 1)
Columns == 0 .. (FbWidth - 1)

VARIABLE display  \* the pixels, and the cursor ssfn_dst.x and ssfn_dst.y
----------------------------------------------------------------------------
\* framebuffer_reset_screen
Empty == [fb |-> [r \in Rows |-> [c \in Columns |-> Blank]], x |-> 0, y |-> 0]

Covers(d, r, c) ==
  /\ r \in d.y .. (d.y + GlyphHeight - 1)
  /\ c \in d.x .. (d.x + GlyphWidth - 1)

ssfn_putc(d, char) ==
  IF char = "\n" THEN [d EXCEPT !.x = 0, !.y = @ + GlyphHeight]
  ELSE [fb |-> [r \in Rows |-> [c \in Columns |->
                  IF Covers(d, r, c) THEN char ELSE d.fb[r][c]]],
        x |-> d.x + GlyphWidth, y |-> d.y]

\* Each row of pixels is copied up and blanked, the upper rows first.
framebuffer_move_one_row_up(d) ==
  [d EXCEPT !.fb =
     [r \in Rows |-> IF r + GlyphHeight \in Rows THEN d.fb[r + GlyphHeight]
                     ELSE [c \in Columns |-> Blank]]]

Wrap(d) ==
  IF d.x + GlyphWidth > FbWidth THEN [d EXCEPT !.x = 0, !.y = @ + GlyphHeight] ELSE d

\* Mutant: the cursor stays below the screen.
ScrollTextOnly(d) == IF d.y >= FbHeight THEN framebuffer_move_one_row_up(d) ELSE d

Scroll(d) ==
  IF d.y >= FbHeight
    THEN framebuffer_move_one_row_up([d EXCEPT !.x = 0, !.y = FbHeight - GlyphHeight])
  ELSE d

Left(d) == [d EXCEPT !.x = @ - GlyphWidth]

\* Mutant: at the left edge nothing is taken back.
BackspaceInRow(d) ==
  IF d.x = 0 THEN d ELSE Left(ssfn_putc(Left(d), Blank))

\* "replace the last character with space and put the cursor there"
Backspace(d) ==
  CASE d.x = 0 /\ d.y = 0 -> d
    [] d.x = 0 /\ d.y # 0 ->
         Left(ssfn_putc([d EXCEPT !.x = FbWidth - GlyphWidth, !.y = @ - GlyphHeight], Blank))
    [] d.x # 0 -> Left(ssfn_putc(Left(d), Blank))

\* framebuffer_print_char of anything but a tab.
PrintPlain(d, char) ==
  IF char = "backspace" THEN Backspace(Scroll(Wrap(d))) ELSE ssfn_putc(Scroll(Wrap(d)), char)

\* "if the unicode character is a tab we print four spaces"
framebuffer_print_char(d, char) ==
  LET Space(e) == PrintPlain(e, Blank)
  IN IF char = "\t" THEN Space(Space(Space(Space(Scroll(Wrap(d)))))) ELSE PrintPlain(d, char)

framebuffer_print_string(d, string) ==
  LET printed[n \in 0 .. Len(string)] ==
        IF n = 0 THEN d ELSE framebuffer_print_char(printed[n - 1], string[n])
  IN printed[Len(string)]
----------------------------------------------------------------------------
\* The column and row of the character n places before the cursor, if the
\* screen is made of whole glyphs.
RowLength == FbWidth \div GlyphWidth
PlaceBefore(n) == (display.y \div GlyphHeight) * RowLength + (display.x \div GlyphWidth) - n

\* That character is above the top of the screen, or it is shown.
ShowsBefore(n, char) ==
  LET place == PlaceBefore(n)
      top   == (place \div RowLength) * GlyphHeight
      left  == (place % RowLength) * GlyphWidth
  IN place < 0 \/ \A r \in top .. (top + GlyphHeight - 1),
                     c \in left .. (left + GlyphWidth - 1) : display.fb[r][c] = char
=============================================================================
