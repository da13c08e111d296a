------------------------------ MODULE Console ------------------------------
(***************************************************************************)
(* The framebuffer console, kernel/console.c.  The framebuffer is a        *)
(* sequence of pixel lines; a pixel line has one entry for each character  *)
(* column, the colour in which a glyph was drawn there, or the background. *)
(* Every glyph but the space is the same mark.                             *)
(*                                                                         *)
(* console_putchar is not locked: one step draws and moves the cursor, the *)
(* next wraps and scrolls, and another writer may come in between.         *)
(***************************************************************************)
EXTENDS Integers, Sequences

CONSTANTS
  Writers,
  cols, fb_height,     \* columns of text, pixel lines
  FONT_H, TAB,         \* 16 and 4
  Chars,               \* characters written
  MaxParam, MaxLines   \* bounds on ansi_param and on the lines of doc

VARIABLES
  fb, cursor_x, cursor_y, fg_color, ansi_state, ansi_param,
  pc,                  \* where each writer is
  outside,             \* has a glyph been drawn past the last column or row
  doc                  \* every line ever written

vars == <<fb, cursor_x, cursor_y, fg_color, ansi_state, ansi_param, pc, outside, doc>>

rows == fb_height \div FONT_H

COL_BG == "background"
Columns == 0 .. cols - 1
PixelLines == 0 .. fb_height - 1
Blank == [x \in Columns |-> COL_BG]

Digit == [c \in {"0", "1", "3"} |-> CASE c = "0" -> 0 [] c = "1" -> 1 [] c = "3" -> 3]

\* console_init with console_clear.
Init ==
  /\ fb = [y \in PixelLines |-> Blank]
  /\ cursor_x = 0 /\ cursor_y = 0 /\ fg_color = "white"
  /\ ansi_state = "normal" /\ ansi_param = 0
  /\ pc = [w \in Writers |-> "idle"] /\ outside = FALSE
  /\ doc = <<Blank>>

ansi_set_color(code) ==
  CASE code \in {0, 37} -> "white"
    [] code = 31 -> "red"
    [] code = 32 -> "green"
    [] code = 33 -> "yellow"
    [] code = 34 -> "blue"
    [] code = 35 -> "magenta"
    [] code = 36 -> "cyan"
    [] OTHER -> fg_color

\* Draw a glyph at the cursor, or a space.
draw_glyph(x, color) ==
  /\ fb' = [y \in PixelLines |->
       IF y \div FONT_H = cursor_y /\ x < cols THEN [fb[y] EXCEPT ![x] = color] ELSE fb[y]]
  /\ outside' = (outside \/ x >= cols \/ cursor_y >= rows)
  /\ doc' = IF x < cols THEN [doc EXCEPT ![Len(doc)][x] = color] ELSE doc

NoGlyph == UNCHANGED <<fb, outside, doc>>

\* A character outside a sequence: draw and move.
Draw(c) ==
  \/ c = "newline" /\ cursor_x' = 0 /\ cursor_y' = cursor_y + 1
     /\ doc' = Append(doc, Blank) /\ UNCHANGED <<fb, outside>>
  \/ c = "return" /\ cursor_x' = 0 /\ UNCHANGED cursor_y /\ NoGlyph
  \/ c = "backspace" /\ cursor_x > 0 /\ cursor_x' = cursor_x - 1 /\ UNCHANGED cursor_y
     /\ draw_glyph(cursor_x - 1, COL_BG)
  \/ c = "backspace" /\ cursor_x = 0 /\ UNCHANGED <<cursor_x, cursor_y>> /\ NoGlyph
  \/ c = "tab" /\ cursor_x' = ((cursor_x + TAB) \div TAB) * TAB /\ UNCHANGED cursor_y
     /\ NoGlyph
  \/ c \notin {"newline", "return", "backspace", "tab", "esc"} /\ cursor_x' = cursor_x + 1
     /\ UNCHANGED cursor_y /\ draw_glyph(cursor_x, IF c = " " THEN COL_BG ELSE fg_color)

\* Characters that belong to a sequence.
Ansi(c) ==
  /\ \/ /\ ansi_state = "esc" /\ c = "["
        /\ ansi_state' = "bracket" /\ ansi_param' = 0 /\ UNCHANGED fg_color
     \/ /\ ansi_state = "bracket" /\ c \in DOMAIN Digit
        /\ ansi_param * 10 + Digit[c] <= MaxParam
        /\ ansi_param' = ansi_param * 10 + Digit[c] /\ UNCHANGED <<ansi_state, fg_color>>
     \/ /\ ansi_state = "bracket" /\ c \notin DOMAIN Digit
        /\ ansi_state' = "normal" /\ UNCHANGED ansi_param
        /\ fg_color' = IF c = "m" THEN ansi_set_color(ansi_param) ELSE fg_color
     \/ /\ ansi_state \in {"normal", "esc"} /\ c = "esc"
        /\ ansi_state' = "esc" /\ UNCHANGED <<fg_color, ansi_param>>
  /\ UNCHANGED <<fb, cursor_x, cursor_y, pc, outside, doc>>

console_putchar(w, c) ==
  /\ pc[w] = "idle"
  /\ \/ Ansi(c)
     \/ /\ ansi_state = "normal" \/ (ansi_state = "esc" /\ c # "[")
        /\ c # "esc" /\ Draw(c)
        /\ ansi_state' = "normal" /\ pc' = [pc EXCEPT ![w] = "wrap"]
        /\ UNCHANGED <<fg_color, ansi_param>>

\* As if the last text line were not cleared.
scroll_up_NoClear ==
  fb' = [y \in PixelLines |-> IF y + FONT_H < fb_height THEN fb[y + FONT_H] ELSE fb[y]]

\* Move every pixel line up by one text line and clear the last ones.
scroll_up ==
  fb' = [y \in PixelLines |-> IF y + FONT_H < fb_height THEN fb[y + FONT_H] ELSE Blank]

Wraps == cursor_x >= cols

\* The end of console_putchar.
WrapAndScroll(w) ==
  /\ pc[w] = "wrap" /\ pc' = [pc EXCEPT ![w] = "idle"]
  /\ cursor_x' = IF Wraps THEN 0 ELSE cursor_x
  /\ doc' = IF Wraps THEN Append(doc, Blank) ELSE doc
  /\ LET y == IF Wraps THEN cursor_y + 1 ELSE cursor_y IN
       IF y >= rows THEN scroll_up /\ cursor_y' = rows - 1
       ELSE cursor_y' = y /\ UNCHANGED fb
  /\ UNCHANGED <<fg_color, ansi_state, ansi_param, outside>>

Next ==
  \/ \E w \in Writers : WrapAndScroll(w)
  \/ \E w \in Writers, c \in Chars : Len(doc) < MaxLines /\ console_putchar(w, c)

Spec == Init /\ [][Next]_vars

-----------------------------------------------------------------------------
\* With one writer, what is on the screen are the last lines written: the cursor is in
\* the last of them, every pixel line of a text line shows the same line, below the
\* cursor all is blank, and so are the pixel lines left over at the bottom.
ScreenIsTail ==
  (\A w \in Writers : pc[w] = "idle") =>
    /\ cursor_x < cols /\ cursor_y < rows /\ cursor_y < Len(doc)
    /\ \A y \in PixelLines :
         fb[y] = LET r == y \div FONT_H IN
                   IF r <= cursor_y THEN doc[Len(doc) - cursor_y + r] ELSE Blank

\* Glyphs are drawn inside the framebuffer.
DrawnInside == ~outside
=============================================================================
