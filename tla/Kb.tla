--------------------------------- MODULE Kb --------------------------------
(***************************************************************************)
(* The keyboard driver of kernel/kb.c, with the keys of the keyboard.  The *)
(* interrupt handler is one step; kb_getchar, in a thread, takes two: it   *)
(* finds and reads a character, and moves kb_tail.  One thread reads.      *)
(*                                                                         *)
(* A character is its key and its case.                                    *)
(***************************************************************************)
EXTENDS Integers, Sequences, FiniteSets

CONSTANTS
  Letters,        \* keys with a character
  Blanks,         \* keys without one
  KB_BUF_SIZE,
  MaxHeld         \* keys held down at a time

VARIABLES
  down,             \* keys held down
  shift_held, caps_on,
  kb_buffer, kb_head, kb_tail,
  reader,           \* the character kb_getchar has read and not yet taken off
  accepted          \* characters pushed and not yet taken off

vars == <<down, shift_held, caps_on, kb_buffer, kb_head, kb_tail, reader, accepted>>

Shifts == {"lshift", "rshift"}
Keys == Letters \cup Blanks \cup Shifts \cup {"caps"}
NoChar == [key |-> "none", upper |-> FALSE]
Positions == 0 .. KB_BUF_SIZE - 1

Init ==
  /\ down = {} /\ shift_held = 0 /\ caps_on = 0
  /\ kb_buffer = [i \in Positions |-> NoChar] /\ kb_head = 0 /\ kb_tail = 0
  /\ reader = NoChar /\ accepted = <<>>

Next1(i) == (i + 1) % KB_BUF_SIZE

\* A full buffer drops the character.
kb_buf_push(c) ==
  IF Next1(kb_head) = kb_tail THEN UNCHANGED <<kb_buffer, kb_head, accepted>>
  ELSE /\ kb_buffer' = [kb_buffer EXCEPT ![kb_head] = c]
       /\ kb_head' = Next1(kb_head)
       /\ accepted' = Append(accepted, c)

\* The scancode of a press or a release of key.
kb_irq_handler(key, press) ==
  /\ CASE key \in Shifts           -> shift_held' = (IF press THEN 1 ELSE 0) /\ UNCHANGED caps_on
       [] press /\ key = "caps"    -> caps_on' = 1 - caps_on /\ UNCHANGED shift_held
       [] OTHER -> UNCHANGED <<shift_held, caps_on>>
  /\ IF press /\ key \in Letters
     THEN kb_buf_push([key |-> key, upper |-> shift_held # caps_on])
     ELSE UNCHANGED <<kb_buffer, kb_head, accepted>>

\* A key held down repeats its scancode; a release raises an interrupt too.
Press(key) ==
  /\ key \in down \/ Cardinality(down) < MaxHeld
  /\ down' = down \cup {key}
  /\ kb_irq_handler(key, TRUE) /\ UNCHANGED <<kb_tail, reader>>

Release(key) ==
  /\ key \in down /\ down' = down \ {key}
  /\ kb_irq_handler(key, FALSE) /\ UNCHANGED <<kb_tail, reader>>

kb_has_input == kb_head # kb_tail

\* The first half of kb_getchar.
ReadChar ==
  /\ reader = NoChar /\ kb_has_input
  /\ reader' = kb_buffer[kb_tail]
  /\ UNCHANGED <<down, shift_held, caps_on, kb_buffer, kb_head, kb_tail, accepted>>

\* The second half.
TakeChar ==
  /\ reader # NoChar
  /\ kb_tail' = Next1(kb_tail) /\ reader' = NoChar
  /\ accepted' = Tail(accepted)
  /\ UNCHANGED <<down, shift_held, caps_on, kb_buffer, kb_head>>

Next == (\E key \in Keys : Press(key) \/ Release(key)) \/ ReadChar \/ TakeChar

Spec == Init /\ [][Next]_vars

-----------------------------------------------------------------------------
\* Every variable has its type.
TypeOK ==
  /\ down \subseteq Keys /\ shift_held \in {0, 1} /\ caps_on \in {0, 1}
  /\ kb_head \in Positions /\ kb_tail \in Positions
  /\ \A i \in Positions : kb_buffer[i] \in [key : Letters \cup {"none"}, upper : BOOLEAN]

\* What the thread reads is what was typed and accepted, in order, though the
\* interrupt may fall between its reading a character and its taking it off.
TypedInOrder ==
  /\ Len(accepted) = (kb_head - kb_tail) % KB_BUF_SIZE
  /\ \A i \in 1 .. Len(accepted) : accepted[i] = kb_buffer[(kb_tail + i - 1) % KB_BUF_SIZE]
  /\ reader # NoChar => accepted # <<>> /\ reader = Head(accepted)

\* A character is shifted only while a shift key is down.  (The converse fails: with
\* both down, the release of one ends the shift.)
ShiftIsDown == shift_held = 1 => down \cap Shifts # {}
=============================================================================
