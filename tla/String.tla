------------------------------- MODULE String ------------------------------
(***************************************************************************)
(* kernel/string.c: block and string functions on a memory of bytes.  The  *)
(* block functions move whole words and then, or before, the bytes that    *)
(* are left; Word is the 8 of rep movsq.  Each behaviour is one call, on   *)
(* any memory, whose result is compared with what the function is for.     *)
(***************************************************************************)
EXTENDS Integers, FiniteSetsExt, SequencesExt

CONSTANTS
  Size,         \* bytes of memory
  Word,
  Chars         \* values of bytes, 0 among them

VARIABLES
  mem,          \* the memory after the call
  call          \* the call made, with the memory it found and what it returned

vars == <<mem, call>>

Addrs == 0 .. Size - 1
NULL == -1
None == [fn |-> "none"]

\* Memories told apart by what the functions look at: the block functions move bytes
\* and never test them, so one memory of distinct bytes is as good as all.
Init ==
  /\ mem \in {[a \in Addrs |-> a]} \cup {m \in [Addrs -> Chars] : m[Size - 1] = 0}
  /\ call = None

-----------------------------------------------------------------------------
(* The block functions, as the instructions they execute.                  *)

\* One movs of n bytes from s to d: read, then written.
Move(m, d, s, n) == [a \in Addrs |-> IF a \in d .. d + n - 1 THEN m[s + a - d] ELSE m[a]]

\* rep movs: k times n bytes, upwards or, with the direction flag set, downwards.
Forward(m, d, s, n, k) ==
  FoldLeft(LAMBDA r, i : Move(r, d + i * n, s + i * n, n), m, [j \in 1 .. k |-> j - 1])

Backward(m, d, s, n, k) ==
  FoldLeft(LAMBDA r, i : Move(r, d - i * n, s - i * n, n), m, [j \in 1 .. k |-> j - 1])

memset(m, d, v, n) ==
  LET q == n \div Word
      fill(r, at, k) == [a \in Addrs |-> IF a \in at .. at + k - 1 THEN v ELSE r[a]]
  IN  fill(fill(m, d, q * Word), d + q * Word, n % Word)

memcpy(m, d, s, n) ==
  LET q == n \div Word IN
    Forward(Forward(m, d, s, Word, q), d + q * Word, s + q * Word, 1, n % Word)

\* As if the words were copied before the bytes behind them.
memmove_WordsFirst(m, d, s, n) ==
  IF d = s \/ n = 0 THEN m
  ELSE IF d < s \/ d >= s + n THEN memcpy(m, d, s, n)
  ELSE LET q == n \div Word
           r == n % Word
           top == q * Word
       IN  Backward(Backward(m, d + top - Word, s + top - Word, Word, q),
                    d + n - 1, s + n - 1, 1, r)

\* Overlapping upwards, the bytes at the end go first, then the words, downwards.
memmove(m, d, s, n) ==
  IF d = s \/ n = 0 THEN m
  ELSE IF d < s \/ d >= s + n THEN memcpy(m, d, s, n)
  ELSE LET q == n \div Word
           r == n % Word
           top == q * Word
       IN  Backward(Backward(m, d + n - 1, s + n - 1, 1, r),
                    d + top - Word, s + top - Word, Word, q)

memcmp(m, a, b, n) ==
  LET diff == {i \in 0 .. n - 1 : m[a + i] # m[b + i]} IN
    IF diff = {} THEN 0 ELSE m[a + Min(diff)] - m[b + Min(diff)]

memchr(m, s, c, n) ==
  LET hits == {i \in 0 .. n - 1 : m[s + i] = c} IN IF hits = {} THEN NULL ELSE s + Min(hits)

-----------------------------------------------------------------------------
(* The string functions: loops that stop at a test.                        *)

strlen(m, s) == Min({n \in 0 .. Size - 1 - s : m[s + n] = 0})

strcmp(m, a, b) ==
  LET n == Min({i \in Addrs : {a + i, b + i} \subseteq Addrs /\ (m[a + i] = 0 \/ m[a + i] # m[b + i])})
  IN  m[a + n] - m[b + n]

strncmp(m, a, b, n) ==
  LET stops == {i \in 0 .. n - 1 : {a + i, b + i} \subseteq Addrs /\ (m[a + i] = 0 \/ m[a + i] # m[b + i])}
  IN  IF stops = {} THEN 0 ELSE m[a + Min(stops)] - m[b + Min(stops)]

strncpy(m, d, s, n) ==
  LET k == Min({n, strlen(m, s)}) IN
    memset(Forward(m, d, s, 1, k), d + k, 0, n - k)

strcat(m, d, s) == Forward(m, d + strlen(m, d), s, 1, strlen(m, s) + 1)

strchr(m, s, c) ==
  LET hits == {a \in s .. s + strlen(m, s) - 1 : m[a] = c} IN
    IF hits # {} THEN Min(hits) ELSE IF c = 0 THEN s + strlen(m, s) ELSE NULL

strstr(m, h, n) ==
  LET hits == {a \in h .. h + strlen(m, h) - 1 :
                 \A i \in 0 .. strlen(m, n) - 1 : m[a + i] = m[n + i]}
  IN  IF m[n] = 0 THEN h ELSE IF hits = {} THEN NULL ELSE Min(hits)

-----------------------------------------------------------------------------
(* One call, with arguments the functions are defined for: blocks inside   *)
(* the memory, strings that end in it, and no overlap but memmove's.       *)

Blocks == {<<a, n>> \in Addrs \X (0 .. Size) : a + n <= Size}
Apart(a, n, b, k) == a + n <= b \/ b + k <= a
\* Is the memory one of characters.
Text == mem \in [Addrs -> Chars] /\ mem[Size - 1] = 0

Called(f, args, m, r) ==
  /\ mem' = m
  /\ call' = [fn |-> f, args |-> args, was |-> mem, ret |-> r]

BlockCall ==
  /\ call = None /\ ~Text
  /\ \E b \in Blocks : \E s \in 0 .. Size - b[2] :
       \/ Called("move", <<b[1], s, b[2]>>, memmove(mem, b[1], s, b[2]), b[1])
       \/ /\ Apart(b[1], b[2], s, b[2])
          /\ Called("move", <<b[1], s, b[2]>>, memcpy(mem, b[1], s, b[2]), b[1])
       \/ Called("memset", <<b[1], s, b[2]>>, memset(mem, b[1], s, b[2]), b[1])

StringCall ==
  /\ call = None /\ Text
  /\ \E a, b \in Addrs, c \in Chars, n \in 0 .. Size :
       \/ Called("strcmp", <<a, b, Size>>, mem, strcmp(mem, a, b))
       \/ Called("strcmp", <<a, b, n>>, mem, strncmp(mem, a, b, n))
       \/ /\ {<<a, n>>, <<b, n>>} \subseteq Blocks
          /\ Called("memcmp", <<a, b, n>>, mem, memcmp(mem, a, b, n))
       \/ /\ <<a, n>> \in Blocks /\ Apart(a, n, b, strlen(mem, b) + 1)
          /\ Called("strncpy", <<a, b, n>>, strncpy(mem, a, b, n), a)
       \/ /\ LET k == strlen(mem, a) + strlen(mem, b) + 1 IN
               a + k <= Size /\ Apart(a, k, b, strlen(mem, b) + 1)
          /\ Called("strcat", <<a, b>>, strcat(mem, a, b), a)
       \/ Called("strchr", <<a, c>>, mem, strchr(mem, a, c))
       \/ <<a, n>> \in Blocks /\ Called("memchr", <<a, c, n>>, mem, memchr(mem, a, c, n))
       \/ Called("strstr", <<a, b>>, mem, strstr(mem, a, b))

Next == BlockCall \/ StringCall

Spec == Init /\ [][Next]_vars

-----------------------------------------------------------------------------
(* What the functions are for.                                             *)

\* The string at s, without its terminator.
StringAt(m, s) == [i \in 1 .. strlen(m, s) |-> m[s + i - 1]]
First(s, n) == SubSeq(s, 1, Min({n, Len(s)}))
Arg(i) == call.args[i]

\* Does the sequence s come before t in the order of bytes.
Before(s, t) ==
  \E n \in 0 .. Len(s) : /\ n < Len(t) /\ First(s, n) = First(t, n)
                         /\ n = Len(s) \/ s[n + 1] < t[n + 1]

\* memset, memcpy and memmove leave at the destination what was asked for, however the
\* blocks overlap in memmove and whatever the length leaves over of words, and no
\* other byte is changed.
BlocksRight ==
  call.fn \in {"move", "memset"} =>
    mem = [a \in Addrs |-> IF a \notin Arg(1) .. Arg(1) + Arg(3) - 1 THEN call.was[a]
                           ELSE IF call.fn = "memset" THEN Arg(2)
                           ELSE call.was[Arg(2) + a - Arg(1)]]

\* The sign strcmp, strncmp and memcmp return is the order of the strings, cut at n.
ComparesRight ==
  call.fn \in {"strcmp", "memcmp"} =>
    LET n == Arg(3)
        cut(a) == IF call.fn = "memcmp" THEN [i \in 1 .. n |-> mem[a + i - 1]]
                  ELSE First(StringAt(mem, a), n)
        s == cut(Arg(1))
        t == cut(Arg(2))
    IN  (call.ret < 0 <=> Before(s, t)) /\ (call.ret > 0 <=> Before(t, s))

\* strncpy writes n bytes, the string and zeros; strcat leaves both strings one after
\* the other; neither writes elsewhere.
CopiesRight ==
  /\ call.fn = "strncpy" =>
       \A a \in Addrs :
         LET i == a - Arg(1)
             src == StringAt(call.was, Arg(2))
         IN  mem[a] = IF i \notin 0 .. Arg(3) - 1 THEN call.was[a]
                      ELSE IF i < Len(src) THEN src[i + 1] ELSE 0
  /\ call.fn = "strcat" =>
       LET s == StringAt(call.was, Arg(1)) \o StringAt(call.was, Arg(2)) IN
         /\ StringAt(mem, Arg(1)) = s
         /\ \A a \in Addrs \ (Arg(1) .. Arg(1) + Len(s)) : mem[a] = call.was[a]

\* strchr, memchr and strstr return the first place of what is searched for, the
\* terminator being part of a string for strchr, and NULL when there is none.
FindsRight ==
  call.fn \in {"strchr", "memchr", "strstr"} =>
    LET s == Arg(1)
        hay == StringAt(mem, s)
        at == CASE call.fn = "strchr" -> {a \in s .. s + Len(hay) : mem[a] = Arg(2)}
                [] call.fn = "memchr" -> {a \in s .. s + Arg(3) - 1 : mem[a] = Arg(2)}
                [] OTHER -> {a \in s .. s + Len(hay) :
                               IsPrefix(StringAt(mem, Arg(2)), StringAt(mem, a))}
    IN  call.ret = IF at = {} THEN NULL ELSE Min(at)
=============================================================================
