----------------------------- MODULE CharBuffer -----------------------------
(***************************************************************************)
(* The input buffer of the parsers, src/src/char_buffer.c, as operators on *)
(* a record: its memory (empty for a NULL begin), the used part of it      *)
(* between head and tail, and the input between in_head and in_tail, which *)
(* is in the array of the caller (shared) or in the memory.  Places are    *)
(* offsets from begin, or from the start of the caller's array.  Memory is *)
(* never refused.                                                          *)
(***************************************************************************)
EXTENDS Integers, Sequences

CONSTANTS
    MinLength,      \* MIN_LENGTH, 1024 in the code
    Garbage         \* the content of memory that nothing was written to

ASSUME MinLengthAssumption == MinLength \in Nat \ {0}

\* cb_new.
NewBuffer ==
    [mem |-> <<>>, head |-> 0, tail |-> 0,
     shared |-> FALSE, arg |-> <<>>, inHead |-> 0, inTail |-> 0]

Used(cb) == cb.tail - cb.head

\* cb_clear.
Clear(cb) == [cb EXCEPT !.head = 0, !.tail = 0]

\* memcpy of s to place at; what does not fit is lost.
Copy(mem, at, s) ==
    [i \in 1..Len(mem) |-> IF i \in (at + 1)..(at + Len(s)) THEN s[i - at] ELSE mem[i]]

Fits(cb, needed) == needed <= Len(cb.mem) - cb.tail

\* The used part moved to the front.
AtFront(cb) ==
    [cb EXCEPT !.mem = Copy(@, 0, SubSeq(@, cb.head + 1, cb.tail)),
               !.head = 0, !.tail = Used(cb)]

\* (slip) the used part is not counted.
GrownTooLittle(cb, needed) ==
    [cb EXCEPT !.mem = [i \in 1..(IF needed > Len(@) THEN needed ELSE Len(@)) |->
                            IF i <= Len(@) THEN @[i] ELSE Garbage],
               !.head = 0, !.tail = Used(cb)]

\* realloc to the larger of what is needed and one and a half times the length.
Grown(cb, needed) ==
    LET old == Len(cb.mem)
        new == IF 2 * (Used(cb) + needed) < 3 * old THEN (3 * old) \div 2 ELSE Used(cb) + needed IN
    [cb EXCEPT !.mem = [i \in 1..new |-> IF i <= old THEN @[i] ELSE Garbage],
               !.head = 0, !.tail = Used(cb)]

\* cb_ensure_capacity: room for needed more after the tail.
EnsureCapacity(cb, needed) ==
    IF cb.mem = <<>>
    THEN [Clear(cb) EXCEPT !.mem = [i \in 1..(IF needed > MinLength THEN needed ELSE MinLength) |-> Garbage]]
    ELSE LET reset == IF Used(cb) = 0 THEN Clear(cb) ELSE cb
             moved == AtFront(reset) IN
         IF Fits(reset, needed) THEN reset
         ELSE IF Fits(moved, needed) THEN moved
         ELSE Grown(moved, needed)

\* s appended after the tail.
Add(cb, s) ==
    LET c == EnsureCapacity(cb, Len(s)) IN
    [c EXCEPT !.mem = Copy(@, c.tail, s), !.tail = @ + Len(s)]

\* cb_begin_input: the array of the caller is used as it is when nothing is left
\* of the input before.
BeginInput(cb, buf) ==
    IF cb.mem = <<>> \/ Used(cb) = 0
    THEN [cb EXCEPT !.shared = TRUE, !.arg = buf, !.inHead = 0, !.inTail = Len(buf)]
    ELSE LET c == Add(cb, buf) IN
         [c EXCEPT !.shared = FALSE, !.inHead = c.head, !.inTail = c.tail]

\* The input that a parser reads.
Input(cb) == SubSeq(IF cb.shared THEN cb.arg ELSE cb.mem, cb.inHead + 1, cb.inTail)

\* A parser has read n of the input.
Advance(cb, n) == [cb EXCEPT !.inHead = @ + n]

\* (slip) the rest of a shared input is taken from its start.
EndInputFromStart(cb) ==
    LET ended == [cb EXCEPT !.shared = FALSE, !.arg = <<>>, !.inHead = 0, !.inTail = 0] IN
    IF cb.mem = <<>> \/ cb.shared \/ cb.inTail # cb.tail
    THEN IF cb.inTail > cb.inHead
         THEN Add(ended, SubSeq(cb.arg, 1, cb.inTail - cb.inHead)) ELSE ended
    ELSE [ended EXCEPT !.head = cb.inHead]

\* cb_end_input: the rest is saved, or the head follows in_head.
EndInput(cb) ==
    LET ended == [cb EXCEPT !.shared = FALSE, !.arg = <<>>, !.inHead = 0, !.inTail = 0] IN
    IF cb.mem = <<>> \/ cb.shared \/ cb.inTail # cb.tail
    THEN IF cb.inTail > cb.inHead THEN Add(ended, Input(cb)) ELSE ended
    ELSE [ended EXCEPT !.head = cb.inHead]

\* The input that is kept between two calls.
Kept(cb) == SubSeq(cb.mem, cb.head + 1, cb.tail)

\* The used part is in the memory.
InBounds(cb) == cb.head \in 0..cb.tail /\ cb.tail \in 0..Len(cb.mem)
=============================================================================
