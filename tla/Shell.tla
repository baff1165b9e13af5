------------------------------- MODULE Shell -------------------------------
(***************************************************************************)
(* The shell's screen (shell_screen.c) on the console: the prompt, and     *)
(* the barrier that is to keep backspace from taking it back.  typed, what *)
(* the user has entered since the prompt and not taken back, is not stored *)
(* by the code: it is what the screen is compared with.                    *)
(***************************************************************************)
EXTENDS Console

CONSTANTS
  PromptHead, PromptTail  \* the two lines of the prompt

VARIABLES
  barrier,  \* shell_prompt_x_barrier and shell_prompt_y_barrier
  typed

shellVars == <<display, barrier, typed>>

Prompt == <<"\n">> \o PromptHead \o <<"\n">> \o PromptTail

\* shell_prompt on a display d: "set x, y barrier to last know cursor position"
shell_prompt(d) ==
  LET printed == framebuffer_print_string(d, Prompt)
  IN /\ display' = printed
     /\ barrier' = [x |-> printed.x, y |-> printed.y]
     /\ typed' = <<>>

AtBarrier == display.x = barrier.x /\ display.y = barrier.y

Return == shell_prompt(framebuffer_print_char(display, "\n"))

\* Mutant: only the column of the barrier is compared.
EraseInRow ==
  /\ display' = IF display.x = barrier.x THEN display
                ELSE framebuffer_print_char(display, "backspace")
  /\ typed' = IF typed = <<>> \/ UNCHANGED display THEN typed ELSE Front(typed)
  /\ UNCHANGED barrier

\* "if backspace is pressed check for barrier (prompt)"
Erase ==
  /\ display' = IF AtBarrier THEN display
                ELSE framebuffer_print_char(display, "backspace")
  /\ typed' = IF typed = <<>> \/ UNCHANGED display THEN typed ELSE Front(typed)
  /\ UNCHANGED barrier

\* Mutant: the barrier stays where it is when the screen scrolls.
BarrierFixed == barrier

\* "move barrier if screen scrolls"
MovedBarrier ==
  IF display.y + GlyphHeight = FbHeight /\ display.x + GlyphWidth = FbWidth
    THEN [barrier EXCEPT !.y = @ - GlyphHeight] ELSE barrier

Echo(char) ==
  /\ barrier' = MovedBarrier
  /\ display' = framebuffer_print_char(display, char)
  /\ typed' = typed \o (IF char = "\t" THEN <<Blank, Blank, Blank, Blank>> ELSE <<char>>)

\* "if it's nothing to print, return"
shell_print_char(char) ==
  CASE char = "NUL" -> UNCHANGED shellVars
    [] char = "\r" -> Return
    [] char = "backspace" -> Erase
    [] OTHER -> Echo(char)

shell_screen_init == shell_prompt(Empty)

ShellInit == display = Empty /\ barrier = [x |-> 0, y |-> 0] /\ typed = <<>>

ShellTypeOK(characters) ==
  /\ display.fb \in [Rows -> [Columns -> characters]] /\ typed \in Seq(characters)
  /\ display.x \in 0 .. FbWidth /\ display.y \in 0 .. FbHeight
  /\ barrier \in [x : Int, y : Int]
=============================================================================
