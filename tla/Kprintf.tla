------------------------------ MODULE Kprintf ------------------------------
(***************************************************************************)
(* kprintf and kvsnprintf of kernel/kprintf.c: the scan of a format, the   *)
(* conversions, and the writing into a buffer that may be too small.  A    *)
(* format is a sequence of characters with at most one directive; its      *)
(* argument is a machine word.                                             *)
(***************************************************************************)
EXTENDS Integers, Sequences, FiniteSetsExt, SequencesExt

CONSTANTS
  INT, LONG,            \* 2^32 and 2^64: how many values an int and a long have
  Words,                \* arguments, below LONG
  Directives,           \* records: flag, width, length, spec
  Sizes, MaxSize        \* sizes of the buffer; its real end

VARIABLES
  to,                   \* "kprintf" or "kvsnprintf"
  dir, arg,             \* the directive in the format and its argument
  fmt,                  \* what is left of the format
  at,                   \* what the scan expects next
  left_align, pad, width, is_long,
  out,                  \* every character printed
  buf, size, pos        \* the context of kvsnprintf

scan == <<fmt, at, left_align, pad, width, is_long>>
vars == <<to, dir, arg, scan, out, buf, size, pos>>

DigitChar == <<"0", "1", "2", "3", "4", "5", "6", "7", "8", "9",
               "a", "b", "c", "d", "e", "f">>
Digit(c) == (CHOOSE i \in DOMAIN DigitChar : DigitChar[i] = c) - 1
IsDigit(c) == c \in {DigitChar[i] : i \in 1 .. 10}

\* The format of a directive, with a character before and after it.
Written(d) ==
  <<"n", "%">> \o d.flag \o d.width \o d.length \o <<d.spec, "n">>

Free == "free"
NUL == "nul"

Init ==
  /\ to \in {"kprintf", "kvsnprintf"}
  /\ dir \in Directives /\ arg \in Words
  /\ fmt = Written(dir) /\ at = "text"
  /\ left_align = FALSE /\ pad = " " /\ width = 0 /\ is_long = FALSE
  /\ out = <<>>
  /\ buf = [i \in 0 .. MaxSize - 1 |-> Free] /\ size \in Sizes /\ pos = 0

-----------------------------------------------------------------------------
(* Output: kprint_char, or snprint_char.                                   *)

Fits(p) == p + 1 < size

\* A run of characters, one call of kprint_char or snprint_char each.
Emit(s) ==
  /\ out' = out \o s
  /\ IF to = "kprintf" THEN UNCHANGED <<buf, pos>>
     ELSE /\ buf' = [i \in DOMAIN buf |->
                IF i >= pos /\ i < pos + Len(s) /\ Fits(i) THEN s[i - pos + 1] ELSE buf[i]]
          /\ pos' = pos + Len(s)

-----------------------------------------------------------------------------
(* Conversions, the same in kprint_unsigned and snprint_unsigned.          *)

\* tmp, least significant digit first: one iteration while val > 0.
tmp(val, base) ==
  LET len == CHOOSE n \in 1 .. LONG : val < base ^ n /\ \A m \in 1 .. n - 1 : val >= base ^ m
  IN  [i \in 1 .. len |-> DigitChar[((val \div base ^ (i - 1)) % base) + 1]]

Times(c, n) == [i \in 1 .. Max({n, 0}) |-> c]

kprint_unsigned(val, base, w, p) ==
  LET t == tmp(val, base) IN Times(p, w - Len(t)) \o Reverse(t)

\* As if the sign took no room.
kprint_signed_Wide(val, w, p) ==
  IF val < 0 THEN <<"-">> \o kprint_unsigned(-val % LONG, 10, w, p)
  ELSE kprint_unsigned(val, 10, w, p)

\* (uint64_t)(-val) is right for the smallest value too.
kprint_signed(val, w, p) ==
  IF val < 0 THEN <<"-">> \o kprint_unsigned(-val % LONG, 10, IF w > 0 THEN w - 1 ELSE w, p)
  ELSE kprint_unsigned(val, 10, w, p)

\* kprint_string_padded; snprint_string pads nothing.
String(s, w, left) ==
  LET fill == IF to = "kprintf" THEN Times(" ", w - Len(s)) ELSE <<>>
  IN  IF left THEN s \o fill ELSE fill \o s

\* The argument as the directive takes it: va_arg(args, unsigned int) or uint64_t.
Unsigned(long) == IF long THEN arg ELSE arg % INT

Signed(long) ==
  LET n == IF long THEN LONG ELSE INT IN
    IF arg % n < n \div 2 THEN arg % n ELSE (arg % n) - n

\* The digits of a pointer: 16 for 64 bits.
PTR_DIGITS == CHOOSE n \in 1 .. LONG : 16 ^ n >= LONG /\ 16 ^ (n - 1) < LONG

\* Upper and lower case digits are not told apart.
Converted(c) ==
  CASE c = "s" -> String(<<"s", "t">>, width, left_align)
    [] c = "d" -> kprint_signed(Signed(is_long), width, pad)
    [] c = "u" -> kprint_unsigned(Unsigned(is_long), 10, width, pad)
    [] c \in {"x", "X"} -> kprint_unsigned(Unsigned(is_long), 16, width, pad)
    [] c = "p" -> <<"0", "x">> \o kprint_unsigned(Unsigned(TRUE), 16, PTR_DIGITS, "0")
    [] c = "c" -> <<"c">>
    [] c = "%" -> <<"%">>
    [] OTHER -> <<"%", c>>

-----------------------------------------------------------------------------
(* The scan, one character at a time.                                      *)

Rest == fmt' = Tail(fmt)
Quiet == UNCHANGED <<to, dir, arg, out, buf, size, pos>>

Text ==
  /\ at = "text" /\ fmt # <<>> /\ Rest
  /\ IF Head(fmt) # "%"
     THEN Emit(<<Head(fmt)>>) /\ UNCHANGED <<at, left_align, pad, width, is_long>>
     ELSE /\ at' = "flag" /\ left_align' = FALSE /\ pad' = " " /\ width' = 0
          /\ is_long' = FALSE /\ UNCHANGED <<out, buf, pos>>
  /\ UNCHANGED <<to, dir, arg, size>>

\* kvsnprintf skips the minus sign.
Flag ==
  /\ at = "flag" /\ at' = "width"
  /\ left_align' = (Head(fmt) = "-" /\ to = "kprintf")
  /\ pad' = IF Head(fmt) = "0" THEN "0" ELSE pad
  /\ IF Head(fmt) \in {"-", "0"} THEN Rest ELSE UNCHANGED fmt
  /\ UNCHANGED <<width, is_long>> /\ Quiet

Width ==
  /\ at = "width"
  /\ IF IsDigit(Head(fmt))
     THEN width' = width * 10 + Digit(Head(fmt)) /\ Rest /\ UNCHANGED at
     ELSE at' = "length" /\ UNCHANGED <<fmt, width>>
  /\ UNCHANGED <<left_align, pad, is_long>> /\ Quiet

Length ==
  /\ at = "length" /\ at' = "spec"
  /\ is_long' = (Head(fmt) = "l")
  /\ fmt' = IF Head(fmt) # "l" THEN fmt
            ELSE IF fmt[2] = "l" THEN Tail(Tail(fmt)) ELSE Tail(fmt)
  /\ UNCHANGED <<left_align, pad, width>> /\ Quiet

Specifier ==
  /\ at = "spec" /\ at' = "text" /\ Rest
  /\ Emit(Converted(Head(fmt)))
  /\ UNCHANGED <<left_align, pad, width, is_long, to, dir, arg, size>>

\* NUL-terminate and return.
End ==
  /\ at = "text" /\ fmt = <<>> /\ at' = "end"
  /\ buf' = IF to = "kvsnprintf" /\ size > 0
            THEN [buf EXCEPT ![IF pos < size THEN pos ELSE size - 1] = NUL] ELSE buf
  /\ UNCHANGED <<fmt, left_align, pad, width, is_long, to, dir, arg, out, size, pos>>

Next == Text \/ Flag \/ Width \/ Length \/ Specifier \/ End

Spec == Init /\ [][Next]_vars

-----------------------------------------------------------------------------
Field == SubSeq(out, 2, Len(out) - 1)
FieldWidth == FoldLeft(LAMBDA n, c : 10 * n + Digit(c), 0, dir.width)
Long == dir.length # <<>>
Value(s, base) == FoldLeft(LAMBDA n, c : base * n + Digit(c), 0, s)

\* A number in the output reads back as the argument, signed or not and whatever its
\* size, the most negative one included; it fills its field and no more than that,
\* with the padding the flag asks for.  The rest of the format is printed as it is.
ReadsBack ==
  at = "end" /\ dir.spec \in {"d", "u", "x", "X"} =>
    LET base == IF dir.spec \in {"x", "X"} THEN 16 ELSE 10
        minus == Field[1] = "-"
        digits == SelectSeq(Field, LAMBDA c : c \notin {"-", " "})
        want == IF dir.spec = "d" THEN Signed(Long) ELSE Unsigned(Long)
    IN  /\ out[1] = "n" /\ out[Len(out)] = "n"
        /\ Value(digits, base) = IF minus THEN -want ELSE want
        /\ Len(Field) >= FieldWidth
        /\ Len(Field) > Max({FieldWidth, 1}) => digits[1] # "0"
        /\ dir.flag = <<"0">> => \A i \in DOMAIN Field : Field[i] # " "

\* kvsnprintf puts a prefix of the output into the buffer, as long as fits with a NUL,
\* ends it with the NUL, leaves the rest of memory alone, and returns the length of
\* the whole output.
Truncated ==
  at = "end" /\ to = "kvsnprintf" =>
    LET n == Min({Len(out), size - 1}) IN
      /\ pos = Len(out)
      /\ \A i \in DOMAIN buf :
           buf[i] = IF i < n THEN out[i + 1] ELSE IF i = n /\ size > 0 THEN NUL ELSE Free
=============================================================================
