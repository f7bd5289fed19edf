-------------------------- MODULE CharBufferProofs --------------------------
(***************************************************************************)
(* What the operators of CharBuffer do to the bytes of a buffer, for any   *)
(* bytes and any lengths: nothing of the input is lost, doubled or moved,  *)
(* from the call in which it arrives to the one in which it is read.       *)
(***************************************************************************)
EXTENDS CharBuffer, Spans, TLAPS

\* Buffers of the given bytes.
Buffers(T) ==
    [mem : Seq(T), head : Nat, tail : Nat,
     shared : BOOLEAN, arg : Seq(T), inHead : Nat, inTail : Nat]

\* Between cb_begin_input and cb_end_input: a shared input means that nothing is
\* kept in the memory; else the input is the end of the used part.
Reading(cb) ==
    /\ InBounds(cb)
    /\ cb.inHead <= cb.inTail
    /\ IF cb.shared THEN cb.inTail = Len(cb.arg) /\ cb.head = cb.tail
       ELSE cb.mem # <<>> /\ cb.inTail = cb.tail /\ cb.head <= cb.inHead

\* A buffer with another memory, head and tail.
Placed(cb, mem, head, tail) == [cb EXCEPT !.mem = mem, !.head = head, !.tail = tail]

\* A buffer with another input.
WithInput(cb, shared, arg, inHead, inTail) ==
    [cb EXCEPT !.shared = shared, !.arg = arg, !.inHead = inHead, !.inTail = inTail]

\* The fields of the input, which cb_ensure_capacity leaves alone.
SameInput(c, cb) ==
    /\ c.shared = cb.shared /\ c.arg = cb.arg
    /\ c.inHead = cb.inHead /\ c.inTail = cb.inTail

\* The types of the fields.
LEMMA BufferFields ==
    ASSUME NEW T, NEW cb \in Buffers(T)
    PROVE  /\ cb.mem \in Seq(T) /\ Len(cb.mem) \in Nat /\ cb.head \in Nat /\ cb.tail \in Nat
           /\ cb.shared \in BOOLEAN /\ cb.arg \in Seq(T) /\ Len(cb.arg) \in Nat
           /\ cb.inHead \in Nat /\ cb.inTail \in Nat
BY DEF Buffers

\* A new buffer is in bounds and keeps nothing.
LEMMA NewBufferKeeps ==
    ASSUME NEW T
    PROVE  NewBuffer \in Buffers(T) /\ InBounds(NewBuffer) /\ Kept(NewBuffer) = <<>>
BY DEF NewBuffer, Buffers, InBounds, Kept

\* The part of s from one place to another, by its elements.
LEMMA SubSeqFacts ==
    ASSUME NEW T, NEW s \in Seq(T), NEW m \in Nat, NEW n \in Nat, m <= n, n <= Len(s)
    PROVE  /\ SubSeq(s, m + 1, n) \in Seq(T)
           /\ Len(SubSeq(s, m + 1, n)) = n - m
           /\ \A i \in 1..(n - m) : SubSeq(s, m + 1, n)[i] = s[m + i]
OBVIOUS

\* Two sequences with the same elements are the same.
LEMMA SameSeq ==
    ASSUME NEW T, NEW s \in Seq(T), NEW t \in Seq(T), Len(s) = Len(t),
           \A i \in 1..Len(s) : s[i] = t[i]
    PROVE  s = t
OBVIOUS

\* A byte is kept in the place that it has in the memory.
LEMMA KeptFacts ==
    ASSUME NEW T, NEW cb \in Buffers(T), InBounds(cb)
    PROVE  /\ Kept(cb) \in Seq(T)
           /\ Len(Kept(cb)) = cb.tail - cb.head
           /\ \A i \in 1..(cb.tail - cb.head) : Kept(cb)[i] = cb.mem[cb.head + i]
BY SubSeqFacts DEF Kept, Buffers, InBounds

\* Buffers that have the same bytes in the used part keep the same.
LEMMA KeptSame ==
    ASSUME NEW T, NEW cb \in Buffers(T), NEW c \in Buffers(T), InBounds(cb), InBounds(c),
           c.tail - c.head = cb.tail - cb.head,
           \A i \in 1..(cb.tail - cb.head) : c.mem[c.head + i] = cb.mem[cb.head + i]
    PROVE  Kept(c) = Kept(cb)
<1>1. cb.tail - cb.head \in Nat
  BY DEF Buffers, InBounds
<1>2. \A i \in 1..Len(Kept(c)) : Kept(c)[i] = Kept(cb)[i]
  BY KeptFacts
<1>3. Len(Kept(c)) = Len(Kept(cb))
  BY KeptFacts
<1> QED
  BY <1>2, <1>3, KeptFacts, SameSeq

-----------------------------------------------------------------------------
(* cb_ensure_capacity.                                                       *)

\* memcpy writes s at its place and nothing else.
LEMMA CopyFacts ==
    ASSUME NEW T, NEW mem \in Seq(T), NEW at \in Nat, NEW s \in Seq(T)
    PROVE  /\ Copy(mem, at, s) \in Seq(T)
           /\ Len(Copy(mem, at, s)) = Len(mem)
           /\ \A i \in 1..Len(mem) : i \in (at + 1)..(at + Len(s)) => Copy(mem, at, s)[i] = s[i - at]
           /\ \A i \in 1..Len(mem) : i \notin (at + 1)..(at + Len(s)) => Copy(mem, at, s)[i] = mem[i]
<1>1. \A i \in (at + 1)..(at + Len(s)) : i - at \in 1..Len(s) /\ s[i - at] \in T
  OBVIOUS
<1>2. Copy(mem, at, s) \in [1..Len(mem) -> T]
  BY <1>1 DEF Copy
<1>3. Copy(mem, at, s) \in Seq(T) /\ Len(Copy(mem, at, s)) = Len(mem)
  BY <1>2
<1> QED
  BY <1>3 DEF Copy

\* The used part is the same after it was moved to the front.
LEMMA AtFrontKeeps ==
    ASSUME NEW T, NEW cb \in Buffers(T), InBounds(cb)
    PROVE  /\ AtFront(cb) \in Buffers(T) /\ InBounds(AtFront(cb))
           /\ AtFront(cb).head = 0 /\ Len(AtFront(cb).mem) = Len(cb.mem)
           /\ SameInput(AtFront(cb), cb)
           /\ Kept(AtFront(cb)) = Kept(cb)
<1> DEFINE mem == cb.mem
           h == cb.head
           t == cb.tail
           k == t - h
           part == SubSeq(mem, h + 1, t)
           copy == Copy(mem, 0, part)
           c == Placed(cb, copy, 0, k)
<1>0. AtFront(cb) = c
  BY DEF AtFront, Placed, Used
<1>1. /\ mem \in Seq(T) /\ Len(mem) \in Nat /\ h \in Nat /\ t \in Nat
      /\ k \in Nat /\ h <= t /\ t <= Len(mem)
  BY BufferFields DEF InBounds
<1> HIDE DEF mem, h, t
<1>2. part \in Seq(T) /\ Len(part) = k /\ \A i \in 1..k : part[i] = mem[h + i]
  BY <1>1, SubSeqFacts
<1> HIDE DEF part
<1>3. /\ copy \in Seq(T) /\ Len(copy) = Len(mem)
      /\ \A i \in 1..Len(mem) : i \in 1..k => copy[i] = part[i]
  <2>1. 0 + 1 = 1 /\ 0 + Len(part) = k /\ 0 \in Nat
    BY <1>1, <1>2
  <2>2. /\ copy \in Seq(T) /\ Len(copy) = Len(mem)
        /\ \A i \in 1..Len(mem) : i \in (0 + 1)..(0 + Len(part)) => copy[i] = part[i - 0]
    BY <1>1, <1>2, CopyFacts
  <2> QED
    BY <1>1, <2>1, <2>2
<1> HIDE DEF copy
<1>4. c \in Buffers(T) /\ c.mem = copy /\ c.head = 0 /\ c.tail = k /\ SameInput(c, cb)
  <2> HIDE DEF k
  <2> QED
    BY <1>1, <1>3 DEF Placed, Buffers, SameInput
<1> HIDE DEF c
<1>5. InBounds(c)
  BY <1>1, <1>3, <1>4 DEF InBounds
<1>6. ASSUME NEW i \in 1..k PROVE c.mem[c.head + i] = cb.mem[cb.head + i]
  BY <1>1, <1>2, <1>3, <1>4 DEF mem, h
<1>7. Kept(c) = Kept(cb)
  BY <1>1, <1>4, <1>5, <1>6, KeptSame DEF h, t
<1> QED
  BY <1>0, <1>3, <1>4, <1>5, <1>7 DEF mem, h, t

\* There is room in memory that has grown, and the used part is at its front still.
LEMMA GrownKeeps ==
    ASSUME NEW T, Garbage \in T, NEW cb \in Buffers(T), InBounds(cb), cb.head = 0,
           NEW needed \in Nat
    PROVE  /\ Grown(cb, needed) \in Buffers(T) /\ InBounds(Grown(cb, needed))
           /\ Grown(cb, needed).tail + needed <= Len(Grown(cb, needed).mem)
           /\ SameInput(Grown(cb, needed), cb)
           /\ Kept(Grown(cb, needed)) = Kept(cb)
<1> DEFINE old == Len(cb.mem)
           used == cb.tail - cb.head
           new == IF 2 * (used + needed) < 3 * old THEN (3 * old) \div 2 ELSE used + needed
           mem == [i \in 1..new |-> IF i <= old THEN cb.mem[i] ELSE Garbage]
           c == Placed(cb, mem, 0, used)
<1>0. Grown(cb, needed) = c
  BY DEF Grown, Placed, Used
<1>1. cb.mem \in Seq(T) /\ old \in Nat /\ used = cb.tail /\ cb.tail \in Nat /\ cb.tail <= old
  BY BufferFields DEF InBounds
<1>2. new \in Nat /\ used + needed <= new
  <2> HIDE DEF used, old
  <2>1. used \in Nat
    BY <1>1
  <2> QED
    BY <1>1, <2>1
<1> HIDE DEF new, used
<1>3. mem \in [1..new -> T]
  BY <1>1, <1>2
<1>4. mem \in Seq(T) /\ Len(mem) = new
  BY <1>2, <1>3
<1>5. \A i \in 1..used : mem[i] = cb.mem[i]
  BY <1>1, <1>2
<1> HIDE DEF mem
<1>6. c \in Buffers(T) /\ c.mem = mem /\ c.head = 0 /\ c.tail = used /\ SameInput(c, cb)
  BY <1>1, <1>4 DEF Placed, Buffers, SameInput
<1> HIDE DEF c
<1>7. InBounds(c) /\ c.tail + needed <= Len(c.mem)
  BY <1>1, <1>2, <1>4, <1>6 DEF InBounds
<1>8. ASSUME NEW i \in 1..(cb.tail - cb.head) PROVE c.mem[c.head + i] = cb.mem[cb.head + i]
  BY <1>1, <1>5, <1>6
<1>9. Kept(c) = Kept(cb)
  BY <1>1, <1>6, <1>7, <1>8, KeptSame
<1> QED
  BY <1>0, <1>6, <1>7, <1>9

\* cb_ensure_capacity makes the room that is asked for, whichever of its branches is
\* taken, and keeps the used part.
LEMMA EnsureCapacityKeeps ==
    ASSUME NEW T, Garbage \in T, NEW cb \in Buffers(T), InBounds(cb), NEW needed \in Nat
    PROVE  /\ EnsureCapacity(cb, needed) \in Buffers(T) /\ InBounds(EnsureCapacity(cb, needed))
           /\ EnsureCapacity(cb, needed).tail + needed <= Len(EnsureCapacity(cb, needed).mem)
           /\ SameInput(EnsureCapacity(cb, needed), cb)
           /\ Kept(EnsureCapacity(cb, needed)) = Kept(cb)
           /\ EnsureCapacity(cb, needed).mem # <<>>
<1> DEFINE e == EnsureCapacity(cb, needed)
           reset == IF Used(cb) = 0 THEN Clear(cb) ELSE cb
           moved == AtFront(reset)
<1>0. /\ cb.mem \in Seq(T) /\ Len(cb.mem) \in Nat /\ cb.head \in Nat /\ cb.tail \in Nat
      /\ cb.head <= cb.tail /\ cb.tail <= Len(cb.mem)
  BY BufferFields DEF InBounds
<1>1. CASE cb.mem = <<>>
  <2> DEFINE size == IF needed > MinLength THEN needed ELSE MinLength
             mem == [i \in 1..size |-> Garbage]
             c == Placed(cb, mem, 0, 0)
  <2>1. size \in Nat /\ needed <= size /\ size # 0
    BY MinLengthAssumption
  <2>2. cb.head = 0 /\ cb.tail = 0
    BY <1>0, <1>1
  <2>3. e = c
    BY <1>1, <2>2 DEF EnsureCapacity, Clear, Placed
  <2> HIDE DEF size
  <2>4. mem \in Seq(T) /\ Len(mem) = size /\ mem # <<>>
    BY <2>1
  <2> HIDE DEF mem
  <2>5. c \in Buffers(T) /\ c.mem = mem /\ c.head = 0 /\ c.tail = 0 /\ SameInput(c, cb)
    BY <2>4 DEF Placed, Buffers, SameInput
  <2> HIDE DEF c
  <2>6. InBounds(c) /\ c.tail + needed <= Len(c.mem)
    BY <2>1, <2>4, <2>5 DEF InBounds
  <2>7. Kept(c) = Kept(cb)
    BY <1>0, <2>2, <2>5, <2>6, KeptSame
  <2> QED
    BY <2>3, <2>4, <2>5, <2>6, <2>7
<1>2. CASE cb.mem # <<>>
  <2>1. /\ reset \in Buffers(T) /\ InBounds(reset) /\ SameInput(reset, cb)
        /\ reset.mem = cb.mem /\ Kept(reset) = Kept(cb)
    <3>1. CASE Used(cb) = 0
      <4> DEFINE c == Placed(cb, cb.mem, 0, 0)
      <4>1. Clear(cb) = c
        BY <1>0 DEF Clear, Placed, Buffers
      <4>2. c \in Buffers(T) /\ c.mem = cb.mem /\ c.head = 0 /\ c.tail = 0 /\ SameInput(c, cb)
        BY <1>0 DEF Placed, Buffers, SameInput
      <4> HIDE DEF c
      <4>3. InBounds(c)
        BY <1>0, <4>2 DEF InBounds
      <4>4. c.tail - c.head = cb.tail - cb.head /\ cb.tail - cb.head = 0
        BY <1>0, <3>1, <4>2 DEF Used
      <4>5. Kept(c) = Kept(cb)
        BY <4>2, <4>3, <4>4, KeptSame
      <4> QED
        BY <3>1, <4>1, <4>2, <4>3, <4>5
    <3>2. CASE Used(cb) # 0
      BY <3>2 DEF SameInput
    <3> QED
      BY <3>1, <3>2
  <2> HIDE DEF reset
  <2>2. /\ moved \in Buffers(T) /\ InBounds(moved) /\ moved.head = 0
        /\ Len(moved.mem) = Len(cb.mem)
        /\ SameInput(moved, cb) /\ Kept(moved) = Kept(cb)
    BY <2>1, AtFrontKeeps DEF SameInput
  <2>3. moved.tail \in Nat /\ reset.tail \in Nat /\ moved.mem \in Seq(T)
    BY <2>1, <2>2, BufferFields
  <2>4. Len(cb.mem) # 0 /\ moved.mem # <<>>
    BY <1>0, <1>2, <2>2, <2>3
  <2>5. CASE Fits(reset, needed)
    <3>1. e = reset
      BY <1>2, <2>5 DEF EnsureCapacity, reset
    <3>2. reset.tail + needed <= Len(reset.mem)
      BY <1>0, <2>1, <2>3, <2>5 DEF Fits
    <3> QED
      BY <1>2, <2>1, <3>1, <3>2
  <2>6. CASE ~Fits(reset, needed) /\ Fits(moved, needed)
    <3>1. e = moved
      BY <1>2, <2>6 DEF EnsureCapacity, reset
    <3> HIDE DEF moved
    <3>2. moved.tail + needed <= Len(moved.mem)
      BY <1>0, <2>2, <2>3, <2>6 DEF Fits
    <3> QED
      BY <2>2, <2>4, <3>1, <3>2
  <2>7. CASE ~Fits(reset, needed) /\ ~Fits(moved, needed)
    <3> DEFINE c == Grown(moved, needed)
    <3>1. e = c
      BY <1>2, <2>7 DEF EnsureCapacity, reset
    <3> HIDE DEF moved
    <3>2. /\ c \in Buffers(T) /\ InBounds(c) /\ c.tail + needed <= Len(c.mem)
          /\ SameInput(c, moved) /\ Kept(c) = Kept(moved)
      BY <2>2, GrownKeeps
    <3>3. c.mem = [i \in 1..Len(c.mem) |-> c.mem[i]] /\ Len(c.mem) \in Nat /\ c.tail \in Nat
      BY <3>2, BufferFields
    <3>4. c.mem # <<>>
      <4>1. needed > 0 \/ Len(moved.mem) - moved.tail < 0
        BY <2>2, <2>3, <2>7 DEF Fits, InBounds
      <4>2. needed > 0
        BY <2>2, <2>3, <4>1 DEF InBounds
      <4> QED
        BY <3>2, <3>3, <4>2
    <3> QED
      BY <2>2, <3>1, <3>2, <3>4 DEF SameInput
  <2> QED
    BY <2>5, <2>6, <2>7
<1> QED
  BY <1>1, <1>2

-----------------------------------------------------------------------------
(* The operations of a parser.                                               *)

\* What is appended is kept after what was kept.
LEMMA AddKeeps ==
    ASSUME NEW T, Garbage \in T, NEW cb \in Buffers(T), InBounds(cb), NEW s \in Seq(T)
    PROVE  /\ Add(cb, s) \in Buffers(T) /\ InBounds(Add(cb, s))
           /\ SameInput(Add(cb, s), cb)
           /\ Kept(Add(cb, s)) = Kept(cb) \o s
           /\ Add(cb, s).mem # <<>>
<1> DEFINE c == EnsureCapacity(cb, Len(s))
           k == c.tail - c.head
           end == c.tail + Len(s)
           copy == Copy(c.mem, c.tail, s)
           d == Placed(c, copy, c.head, end)
<1>1. /\ c \in Buffers(T) /\ InBounds(c) /\ c.tail + Len(s) <= Len(c.mem)
      /\ SameInput(c, cb) /\ Kept(c) = Kept(cb) /\ c.mem # <<>>
  BY EnsureCapacityKeeps
<1>2. Add(cb, s) = d
  BY <1>1 DEF Add, Placed, Buffers
<1> HIDE DEF c
<1>3. /\ c.mem \in Seq(T) /\ Len(c.mem) \in Nat /\ c.head \in Nat /\ c.tail \in Nat
      /\ k \in Nat /\ c.head <= c.tail /\ Len(s) \in Nat
  BY <1>1, BufferFields DEF InBounds
<1>4. /\ copy \in Seq(T) /\ Len(copy) = Len(c.mem)
      /\ \A i \in 1..Len(c.mem) : i \in (c.tail + 1)..(c.tail + Len(s)) => copy[i] = s[i - c.tail]
      /\ \A i \in 1..Len(c.mem) : i \notin (c.tail + 1)..(c.tail + Len(s)) => copy[i] = c.mem[i]
  BY <1>3, CopyFacts
<1> HIDE DEF copy
<1>5. d \in Buffers(T) /\ d.mem = copy /\ d.head = c.head /\ d.tail = end /\ SameInput(d, c)
  <2>1. end \in Nat
    BY <1>3
  <2> HIDE DEF end
  <2> QED
    BY <1>1, <1>3, <1>4, <2>1 DEF Placed, Buffers, SameInput
<1> HIDE DEF d
<1>6. InBounds(d)
  BY <1>1, <1>3, <1>4, <1>5 DEF InBounds
<1>7. d.tail - d.head = k + Len(s)
  BY <1>3, <1>5
<1>8. /\ Kept(c) \in Seq(T) /\ Len(Kept(c)) = k
      /\ \A i \in 1..k : Kept(c)[i] = c.mem[c.head + i]
  BY <1>1, KeptFacts
<1>9. /\ Kept(d) \in Seq(T) /\ Len(Kept(d)) = k + Len(s)
      /\ \A i \in 1..(k + Len(s)) : Kept(d)[i] = copy[c.head + i]
  BY <1>5, <1>6, <1>7, KeptFacts
<1>10. /\ Kept(c) \o s \in Seq(T) /\ Len(Kept(c) \o s) = k + Len(s)
       /\ \A i \in 1..(k + Len(s)) : (Kept(c) \o s)[i] = IF i <= k THEN Kept(c)[i] ELSE s[i - k]
  <2> DEFINE kept == Kept(c)
  <2> HIDE DEF k, kept
  <2>1. kept \in Seq(T) /\ Len(kept) = k /\ k \in Nat
    BY <1>3, <1>8 DEF kept
  <2>2. /\ kept \o s \in Seq(T) /\ Len(kept \o s) = k + Len(s)
        /\ \A i \in 1..(k + Len(s)) : (kept \o s)[i] = IF i <= k THEN kept[i] ELSE s[i - k]
    BY <2>1
  <2> QED
    BY <2>2 DEF kept
<1>11. ASSUME NEW i \in 1..(k + Len(s)) PROVE Kept(d)[i] = (Kept(c) \o s)[i]
  <2>0. i \in Nat /\ i >= 1 /\ i <= (c.tail - c.head) + Len(s)
    BY <1>3
  <2>1. c.head + i \in 1..Len(c.mem)
    BY <1>1, <1>3, <2>0
  <2>2. CASE i <= k
    <3>1. c.head + i \notin (c.tail + 1)..(c.tail + Len(s)) /\ i \in 1..k
      BY <1>3, <2>2
    <3> QED
      BY <1>4, <1>8, <1>9, <1>10, <2>1, <2>2, <3>1
  <2>3. CASE ~(i <= k)
    <3>1. c.head + i \in (c.tail + 1)..(c.tail + Len(s)) /\ c.head + i - c.tail = i - k
      BY <1>3, <2>3
    <3>2. copy[c.head + i] = s[i - k]
      <4> DEFINE j == c.head + i
      <4>1. j \in 1..Len(c.mem)
        BY <2>1
      <4>2. j \in (c.tail + 1)..(c.tail + Len(s))
        BY <3>1
      <4>3. j - c.tail = i - k
        BY <1>3, <2>0
      <4> HIDE DEF j
      <4>4. copy[j] = s[j - c.tail]
        BY <1>4, <4>1, <4>2
      <4> QED
        BY <4>3, <4>4 DEF j
    <3> QED
      BY <1>9, <1>10, <2>3, <3>2
  <2> QED
    BY <2>2, <2>3
<1>12. Kept(d) = Kept(c) \o s
  BY <1>9, <1>10, <1>11, SameSeq
<1>13. d.mem # <<>>
  BY <1>1, <1>3, <1>4, <1>5
<1> QED
  BY <1>1, <1>2, <1>5, <1>6, <1>12, <1>13 DEF SameInput

\* cb_begin_input: the parser reads what was kept and then what arrived, in the
\* array of the caller or in the memory.
THEOREM BeginInputReads ==
    ASSUME NEW T, Garbage \in T, NEW cb \in Buffers(T), InBounds(cb), NEW buf \in Seq(T)
    PROVE  /\ BeginInput(cb, buf) \in Buffers(T) /\ Reading(BeginInput(cb, buf))
           /\ Input(BeginInput(cb, buf)) = Kept(cb) \o buf
<1>0. /\ cb.head \in Nat /\ cb.tail \in Nat /\ cb.head <= cb.tail
      /\ cb.tail <= Len(cb.mem) /\ cb.mem \in Seq(T) /\ Len(cb.mem) \in Nat
  BY BufferFields DEF InBounds
<1>1. CASE cb.mem = <<>> \/ Used(cb) = 0
  <2> DEFINE len == Len(buf)
             c == WithInput(cb, TRUE, buf, 0, len)
  <2>1. cb.head = cb.tail
    BY <1>0, <1>1 DEF Used
  <2>2. Kept(cb) = <<>>
    BY <1>0, <2>1, KeptFacts
  <2>3. BeginInput(cb, buf) = c
    BY <1>1 DEF BeginInput, WithInput
  <2>4. /\ c \in Buffers(T) /\ c.mem = cb.mem /\ c.head = cb.head /\ c.tail = cb.tail
        /\ c.shared = TRUE /\ c.arg = buf /\ c.inHead = 0 /\ c.inTail = len
    <3>1. len \in Nat
      OBVIOUS
    <3> HIDE DEF len
    <3> QED
      BY <3>1 DEF WithInput, Buffers
  <2> HIDE DEF c
  <2>5. Reading(c)
    BY <1>0, <2>1, <2>4 DEF Reading, InBounds
  <2>6. Input(c) = SubSeq(buf, 1, Len(buf))
    BY <2>4 DEF Input
  <2>7. SubSeq(buf, 1, Len(buf)) = buf /\ <<>> \o buf = buf
    OBVIOUS
  <2> QED
    BY <2>2, <2>3, <2>4, <2>5, <2>6, <2>7
<1>2. CASE ~(cb.mem = <<>> \/ Used(cb) = 0)
  <2> DEFINE c == Add(cb, buf)
             d == WithInput(c, FALSE, c.arg, c.head, c.tail)
  <2>1. /\ c \in Buffers(T) /\ InBounds(c) /\ SameInput(c, cb) /\ c.mem # <<>>
        /\ Kept(c) = Kept(cb) \o buf
    BY AddKeeps
  <2>2. c.head \in Nat /\ c.tail \in Nat /\ c.arg \in Seq(T)
    BY <2>1, BufferFields
  <2>3. BeginInput(cb, buf) = [c EXCEPT !.shared = FALSE, !.inHead = c.head, !.inTail = c.tail]
    BY <1>2 DEF BeginInput
  <2> HIDE DEF c
  <2>4. [c EXCEPT !.shared = FALSE, !.inHead = c.head, !.inTail = c.tail] = d
    BY <2>1 DEF WithInput, Buffers
  <2>5. /\ d \in Buffers(T) /\ d.mem = c.mem /\ d.head = c.head /\ d.tail = c.tail
        /\ d.shared = FALSE /\ d.inHead = c.head /\ d.inTail = c.tail
    BY <2>1, <2>2 DEF WithInput, Buffers
  <2> HIDE DEF d
  <2>6. Reading(d)
    BY <2>1, <2>2, <2>5 DEF Reading, InBounds
  <2>7. Input(d) = Kept(c)
    BY <2>5 DEF Input, Kept
  <2> QED
    BY <2>1, <2>3, <2>4, <2>5, <2>6, <2>7
<1> QED
  BY <1>1, <1>2

\* What the parser reads is a sequence of bytes.
LEMMA InputFacts ==
    ASSUME NEW T, NEW cb \in Buffers(T), Reading(cb)
    PROVE  /\ Input(cb) \in Seq(T) /\ Len(Input(cb)) = cb.inTail - cb.inHead
           /\ cb.inHead \in Nat /\ cb.inTail \in Nat /\ cb.inHead <= cb.inTail
<1> DEFINE s == IF cb.shared THEN cb.arg ELSE cb.mem
<1>1. /\ s \in Seq(T) /\ cb.inHead \in Nat /\ cb.inTail \in Nat
      /\ cb.inHead <= cb.inTail /\ cb.inTail <= Len(s)
  BY BufferFields DEF Reading, InBounds
<1> HIDE DEF s
<1>2. Input(cb) = SubSeq(s, cb.inHead + 1, cb.inTail)
  BY DEF Input, s
<1> QED
  BY <1>1, <1>2, SubSeqFacts

\* A part of a part.
LEMMA SubSeqOfSubSeq ==
    ASSUME NEW T, NEW s \in Seq(T), NEW a \in Nat, NEW b \in Nat, a <= b, b <= Len(s),
           NEW n \in Nat, n <= b - a
    PROVE  SubSeq(SubSeq(s, a + 1, b), n + 1, b - a) = SubSeq(s, (a + n) + 1, b)
<1> DEFINE whole == SubSeq(s, a + 1, b)
           left == SubSeq(whole, n + 1, b - a)
           right == SubSeq(s, (a + n) + 1, b)
<1>1. /\ whole \in Seq(T) /\ Len(whole) = b - a /\ b - a \in Nat
      /\ \A i \in 1..(b - a) : whole[i] = s[a + i]
  BY SubSeqFacts
<1> HIDE DEF whole
<1>2. /\ left \in Seq(T) /\ Len(left) = (b - a) - n
      /\ \A i \in 1..((b - a) - n) : left[i] = whole[n + i]
  BY <1>1, SubSeqFacts
<1>3. a + n \in Nat /\ a + n <= b /\ b - (a + n) = (b - a) - n
  OBVIOUS
<1>4. /\ right \in Seq(T) /\ Len(right) = (b - a) - n
      /\ \A i \in 1..((b - a) - n) : right[i] = s[(a + n) + i]
  <2>1. /\ right \in Seq(T) /\ Len(right) = b - (a + n)
        /\ \A i \in 1..(b - (a + n)) : right[i] = s[(a + n) + i]
    BY <1>3, SubSeqFacts
  <2> QED
    BY <1>3, <2>1
<1> HIDE DEF left, right
<1>5. ASSUME NEW i \in 1..((b - a) - n) PROVE left[i] = right[i]
  <2>1. n + i \in 1..(b - a) /\ a + (n + i) = (a + n) + i
    OBVIOUS
  <2> QED
    BY <1>1, <1>2, <1>4, <2>1
<1>6. left = right
  BY <1>2, <1>4, <1>5, SameSeq
<1> QED
  BY <1>6 DEF left, right, whole

\* A parser that read n bytes goes on with the others.
THEOREM AdvanceReads ==
    ASSUME NEW T, NEW cb \in Buffers(T), Reading(cb), NEW n \in Nat, n <= Len(Input(cb))
    PROVE  /\ Advance(cb, n) \in Buffers(T) /\ Reading(Advance(cb, n))
           /\ Input(Advance(cb, n)) = SubSeq(Input(cb), n + 1, Len(Input(cb)))
<1> DEFINE s == IF cb.shared THEN cb.arg ELSE cb.mem
           next == cb.inHead + n
           c == WithInput(cb, cb.shared, cb.arg, next, cb.inTail)
<1>1. /\ s \in Seq(T) /\ cb.inHead \in Nat /\ cb.inTail \in Nat /\ cb.head \in Nat /\ cb.tail \in Nat
      /\ cb.shared \in BOOLEAN /\ cb.arg \in Seq(T)
      /\ cb.inHead <= cb.inTail /\ cb.inTail <= Len(s)
  BY BufferFields DEF Reading, InBounds
<1>2. Len(Input(cb)) = cb.inTail - cb.inHead
  BY InputFacts
<1>3. Advance(cb, n) = c
  BY DEF Advance, WithInput, Buffers
<1>4. /\ c \in Buffers(T) /\ c.mem = cb.mem /\ c.head = cb.head /\ c.tail = cb.tail
      /\ c.shared = cb.shared /\ c.arg = cb.arg /\ c.inHead = next /\ c.inTail = cb.inTail
  <2>1. next \in Nat
    BY <1>1
  <2> HIDE DEF next
  <2> QED
    BY <1>1, <2>1 DEF WithInput, Buffers
<1> HIDE DEF c
<1>5. Reading(c)
  BY <1>1, <1>2, <1>4 DEF Reading, InBounds
<1>6. Input(cb) = SubSeq(s, cb.inHead + 1, cb.inTail)
  BY DEF Input
<1>7. Input(c) = SubSeq(s, (cb.inHead + n) + 1, cb.inTail)
  BY <1>4 DEF Input
<1> HIDE DEF s
<1>8. SubSeq(SubSeq(s, cb.inHead + 1, cb.inTail), n + 1, cb.inTail - cb.inHead) =
        SubSeq(s, (cb.inHead + n) + 1, cb.inTail)
  <2> DEFINE a == cb.inHead
             b == cb.inTail
  <2>1. a \in Nat /\ b \in Nat /\ a <= b /\ b <= Len(s) /\ n <= b - a
    BY <1>1, <1>2
  <2> HIDE DEF a, b
  <2>2. SubSeq(SubSeq(s, a + 1, b), n + 1, b - a) = SubSeq(s, (a + n) + 1, b)
    BY <1>1, <2>1, SubSeqOfSubSeq
  <2> QED
    BY <2>2 DEF a, b
<1> QED
  BY <1>2, <1>3, <1>4, <1>5, <1>6, <1>7, <1>8

\* cb_end_input keeps just what was not read, whether the input was shared or not.
THEOREM EndInputKeeps ==
    ASSUME NEW T, Garbage \in T, NEW cb \in Buffers(T), Reading(cb)
    PROVE  /\ EndInput(cb) \in Buffers(T) /\ InBounds(EndInput(cb))
           /\ Kept(EndInput(cb)) = Input(cb)
<1> DEFINE ended == WithInput(cb, FALSE, <<>>, 0, 0)
<1>0. EndInput(cb) = IF cb.mem = <<>> \/ cb.shared \/ cb.inTail # cb.tail
                     THEN IF cb.inTail > cb.inHead THEN Add(ended, Input(cb)) ELSE ended
                     ELSE [ended EXCEPT !.head = cb.inHead]
  BY DEF EndInput, WithInput
<1>1. /\ ended \in Buffers(T) /\ ended.mem = cb.mem /\ ended.head = cb.head /\ ended.tail = cb.tail
  <2>1. <<>> \in Seq(T)
    OBVIOUS
  <2> QED
    BY <2>1 DEF WithInput, Buffers
<1> HIDE DEF ended
<1>2. /\ Input(cb) \in Seq(T) /\ Len(Input(cb)) = cb.inTail - cb.inHead
      /\ cb.inHead \in Nat /\ cb.inTail \in Nat /\ cb.inHead <= cb.inTail
      /\ cb.head \in Nat /\ cb.tail \in Nat /\ Len(cb.mem) \in Nat /\ cb.mem \in Seq(T)
  BY InputFacts, BufferFields
<1>3. CASE cb.shared
  <2>1. EndInput(cb) = IF cb.inTail > cb.inHead THEN Add(ended, Input(cb)) ELSE ended
    BY <1>0, <1>3
  <2>2. InBounds(ended) /\ ended.head = ended.tail /\ ended.tail \in Nat
    BY <1>1, <1>2, <1>3 DEF Reading, InBounds
  <2>3. Kept(ended) = <<>>
    BY <1>1, <2>2, KeptFacts
  <2>4. CASE cb.inTail > cb.inHead
    <3>1. EndInput(cb) = Add(ended, Input(cb))
      BY <2>1, <2>4
    <3>2. <<>> \o Input(cb) = Input(cb)
      BY <1>2
    <3> QED
      BY <1>1, <1>2, <2>2, <2>3, <3>1, <3>2, AddKeeps
  <2>5. CASE ~(cb.inTail > cb.inHead)
    <3>1. EndInput(cb) = ended /\ Input(cb) = <<>>
      BY <1>2, <2>1, <2>5
    <3> QED
      BY <1>1, <2>2, <2>3, <3>1
  <2> QED
    BY <2>4, <2>5
<1>4. CASE ~cb.shared
  <2> DEFINE c == Placed(ended, cb.mem, cb.inHead, cb.tail)
  <2>0. cb.mem # <<>> /\ cb.inTail = cb.tail /\ cb.head <= cb.inHead /\ cb.tail <= Len(cb.mem)
    BY <1>4 DEF Reading, InBounds
  <2>1. EndInput(cb) = [ended EXCEPT !.head = cb.inHead]
    BY <1>0, <1>4, <2>0
  <2>2. [ended EXCEPT !.head = cb.inHead] = c
    BY <1>1 DEF Placed, Buffers
  <2>3. c \in Buffers(T) /\ c.mem = cb.mem /\ c.head = cb.inHead /\ c.tail = cb.tail
    BY <1>1, <1>2 DEF Placed, Buffers
  <2> HIDE DEF c
  <2>4. InBounds(c)
    BY <1>2, <2>0, <2>3 DEF InBounds
  <2>5. Kept(c) = SubSeq(cb.mem, cb.inHead + 1, cb.inTail)
    BY <2>0, <2>3 DEF Kept
  <2> QED
    BY <1>4, <2>1, <2>2, <2>3, <2>4, <2>5 DEF Input
<1> QED
  BY <1>3, <1>4, BufferFields

-----------------------------------------------------------------------------
(* The bytes of a stream in a buffer.                                        *)

\* A byte is its place, or what was in memory that nothing was written to.
StreamBytes == Nat \cup {Garbage}

\* A span, by its bytes.
LEMMA SpanFacts ==
    ASSUME NEW m \in Nat, NEW n \in Nat, m <= n
    PROVE  /\ Span(m, n) \in Seq(StreamBytes) /\ Len(Span(m, n)) = n - m
           /\ \A i \in 1..(n - m) : Span(m, n)[i] = m + i
<1>1. n - m \in Nat /\ \A i \in 1..(n - m) : m + i \in Nat
  OBVIOUS
<1>2. \A i \in 1..(n - m) : m + i \in StreamBytes
  BY <1>1 DEF StreamBytes
<1>3. Span(m, n) \in [1..(n - m) -> StreamBytes]
  BY <1>2 DEF Span
<1> QED
  BY <1>1, <1>3 DEF Span

\* What arrives goes on where the span ends.
LEMMA SpanGoesOn ==
    ASSUME NEW m \in Nat, NEW n \in Nat, NEW p \in Nat, m <= n, n <= p
    PROVE  Span(m, n) \o Span(n, p) = Span(m, p)
<1> DEFINE a == Span(m, n)
           b == Span(n, p)
           c == Span(m, p)
<1>1. a \in Seq(StreamBytes) /\ Len(a) = n - m /\ \A i \in 1..(n - m) : a[i] = m + i
  BY SpanFacts
<1>2. b \in Seq(StreamBytes) /\ Len(b) = p - n /\ \A i \in 1..(p - n) : b[i] = n + i
  BY SpanFacts
<1>3. c \in Seq(StreamBytes) /\ Len(c) = p - m /\ \A i \in 1..(p - m) : c[i] = m + i
  <2>1. m <= p
    OBVIOUS
  <2> QED
    BY <2>1, SpanFacts
<1> HIDE DEF a, b, c
<1>4. a \o b \in Seq(StreamBytes) /\ Len(a \o b) = p - m
  <2>1. a \o b \in Seq(StreamBytes) /\ Len(a \o b) = Len(a) + Len(b)
    BY <1>1, <1>2
  <2> QED
    BY <1>1, <1>2, <2>1
<1>5. ASSUME NEW i \in 1..(p - m) PROVE (a \o b)[i] = m + i
  <2>1. CASE i <= n - m
    <3>1. (a \o b)[i] = a[i]
      BY <1>1, <1>2, <2>1
    <3> QED
      BY <1>1, <2>1, <3>1
  <2>2. CASE ~(i <= n - m)
    <3> DEFINE j == i - (n - m)
    <3>1. j \in 1..(p - n) /\ n + j = m + i
      BY <2>2
    <3>2. (a \o b)[i] = b[j]
      BY <1>1, <1>2, <2>2
    <3> HIDE DEF j
    <3> QED
      BY <1>2, <3>1, <3>2
  <2> QED
    BY <2>1, <2>2
<1>6. a \o b = c
  <2>1. Len(a \o b) = Len(c) /\ \A i \in 1..Len(a \o b) : (a \o b)[i] = c[i]
    BY <1>3, <1>4, <1>5
  <2>2. a \o b \in Seq(StreamBytes) /\ c \in Seq(StreamBytes)
    BY <1>3, <1>4
  <2> DEFINE s == a \o b
  <2> HIDE DEF s
  <2>3. s \in Seq(StreamBytes) /\ Len(s) = Len(c) /\ \A i \in 1..Len(s) : s[i] = c[i]
    BY <2>1, <2>2 DEF s
  <2>4. s = c
    BY <2>2, <2>3, SameSeq
  <2> QED
    BY <2>4 DEF s
<1> QED
  BY <1>6 DEF a, b, c

\* What is left of a span when its first n bytes were read.
LEMMA SpanRest ==
    ASSUME NEW m \in Nat, NEW p \in Nat, m <= p, NEW n \in Nat, m + n <= p
    PROVE  SubSeq(Span(m, p), n + 1, p - m) = Span(m + n, p)
<1> DEFINE a == Span(m, p)
           q == m + n
           b == Span(q, p)
           len == p - m
           rest == SubSeq(a, n + 1, len)
<1>1. a \in Seq(StreamBytes) /\ Len(a) = len /\ \A i \in 1..len : a[i] = m + i
  BY SpanFacts
<1>2. q \in Nat /\ q <= p
  OBVIOUS
<1>3. len \in Nat /\ n <= len
  OBVIOUS
<1> HIDE DEF a, q
<1>4. b \in Seq(StreamBytes) /\ Len(b) = p - q /\ \A i \in 1..(p - q) : b[i] = q + i
  BY <1>2, SpanFacts
<1> HIDE DEF len, b
<1>5. rest \in Seq(StreamBytes) /\ Len(rest) = len - n /\ \A i \in 1..(len - n) : rest[i] = a[n + i]
  BY <1>1, <1>3, SubSeqFacts
<1> HIDE DEF rest
<1>6. len - n = p - q
  BY DEF len, q
<1>7. ASSUME NEW i \in 1..(p - q) PROVE rest[i] = b[i]
  <2>1. rest[i] = a[n + i]
    BY <1>5, <1>6
  <2>2. n + i \in 1..len
    BY <1>3, <1>6
  <2>3. a[n + i] = m + (n + i)
    BY <1>1, <2>2
  <2>4. b[i] = q + i
    BY <1>4
  <2>5. m + (n + i) = q + i
    BY DEF q
  <2> QED
    BY <2>1, <2>3, <2>4, <2>5
<1>8. rest = b
  <2>1. Len(rest) = Len(b) /\ \A i \in 1..Len(rest) : rest[i] = b[i]
    BY <1>4, <1>5, <1>6, <1>7
  <2> QED
    BY <1>4, <1>5, <2>1, SameSeq
<1> QED
  BY <1>8 DEF rest, a, b, q, len
=============================================================================
