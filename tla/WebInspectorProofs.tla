------------------------- MODULE WebInspectorProofs -------------------------
(***************************************************************************)
(* Proofs about the connection to a device's web inspector.  First lists   *)
(* of packets and the bytes of a message in them, for either side; then    *)
(* the inductive invariant of WebInspector, and what follows from it.      *)
(***************************************************************************)
EXTENDS WebInspector, CharBufferProofs, FiniteSetTheorems

\* What packets are.
Kinds == {"whole", "partial", "final", "bad", "huge"}
PartBytes == (Nat \X Nat) \cup {Garbage}
PacketSet == [key : Kinds, body : Seq(Nat \X Nat)]

-----------------------------------------------------------------------------
(* Finite sets of numbers.                                                   *)

\* There is no last one only in the empty set.
LEMMA HasLast ==
    ASSUME NEW n \in Nat, NEW S, S \subseteq 1..n, S # {}
    PROVE  \E x \in S : \A y \in S : x >= y
<1> DEFINE Above(x) == {y \in S : y > x}
           T == {Above(x) : x \in S}
           R == StrictSubsetOrdering(S)
<1>1. IsFiniteSet(S)
  <2>1. 1 \in Int /\ n \in Int
    OBVIOUS
  <2>2. IsFiniteSet(1..n)
    BY <2>1, FS_Interval
  <2> QED
    BY <2>2, FS_Subset
<1>2. IsWellFoundedOn(R, FiniteSubsetsOf(S))
  BY FS_StrictSubsetOrderingWellFounded
<1>3. T \subseteq FiniteSubsetsOf(S) /\ T # {}
  <2>1. \A x \in S : Above(x) \in SUBSET S
    OBVIOUS
  <2>2. \A x \in S : IsFiniteSet(Above(x))
    BY <1>1, <2>1, FS_Subset
  <2> QED
    BY <2>1, <2>2 DEF FiniteSubsetsOf
<1> HIDE DEF T, R
<1>4. PICK A \in T : \A B \in T : ~(<<B, A>> \in R)
  BY <1>2, <1>3, WFMin
<1>5. PICK x \in S : A = Above(x)
  BY DEF T
<1>6. ASSUME NEW y \in S, ~(x >= y) PROVE FALSE
  <2>1. x \in Int /\ y \in Int /\ y > x
    BY <1>6
  <2>2. \A z \in S : z \in Int
    OBVIOUS
  <2>3. Above(y) \in T /\ Above(y) \subseteq Above(x)
    <3>1. \A z \in S : z > y => z > x
      BY <2>1, <2>2
    <3> QED
      BY <3>1 DEF T
  <2>4. y \in Above(x) /\ y \notin Above(y)
    BY <2>1
  <2>5. Above(y) \in SUBSET S /\ Above(x) \in SUBSET S
    OBVIOUS
  <2>6. <<Above(y), Above(x)>> \in R
    BY <2>3, <2>4, <2>5 DEF R, StrictSubsetOrdering
  <2> QED
    BY <1>4, <1>5, <2>3, <2>6
<1> QED
  BY <1>6

\* So Max is the last one.
LEMMA MaxFacts ==
    ASSUME NEW n \in Nat, NEW S, S \subseteq 1..n, S # {}
    PROVE  Max(S) \in S /\ \A y \in S : Max(S) >= y
<1>1. PICK z : z = Max(S)
  OBVIOUS
<1>2. \E x \in S : \A y \in S : x >= y
  BY HasLast
<1>3. z = CHOOSE x \in S : \A y \in S : x >= y
  BY <1>1 DEF Max
<1>4. z \in S /\ \A y \in S : z >= y
  BY <1>2, <1>3
<1> QED
  BY <1>1, <1>4

\* And one that none is beyond is Max.
LEMMA MaxIs ==
    ASSUME NEW n \in Nat, NEW S, S \subseteq 1..n, NEW x \in S, \A y \in S : x >= y
    PROVE  Max(S) = x
<1>1. PICK z \in S : z = Max(S) /\ \A y \in S : z >= y
  BY MaxFacts
<1>2. z \in Int /\ x \in Int /\ z >= x /\ x >= z
  BY <1>1
<1> QED
  BY <1>1, <1>2

-----------------------------------------------------------------------------
(* The bytes of a message in a list of packets.                              *)

\* Two lists one after the other, by their elements.
LEMMA ConcatFacts ==
    ASSUME NEW T, NEW s \in Seq(T), NEW t \in Seq(T)
    PROVE  /\ s \o t \in Seq(T) /\ Len(s \o t) = Len(s) + Len(t)
           /\ \A i \in 1..Len(s) : (s \o t)[i] = s[i]
           /\ \A i \in 1..Len(t) : (s \o t)[Len(s) + i] = t[i]
OBVIOUS

\* A function on the first n numbers is a list of n.
LEMMA FunctionIsList ==
    ASSUME NEW T, NEW n \in Nat, NEW s \in [1..n -> T]
    PROVE  s \in Seq(T) /\ Len(s) = n
OBVIOUS

\* Bytes of a message, by their numbers.
LEMMA BytesFacts ==
    ASSUME NEW m \in Nat, NEW a \in Nat, NEW b \in Nat, a <= b
    PROVE  /\ Bytes(m, a + 1, b) \in Seq(Nat \X Nat) /\ Bytes(m, a + 1, b) \in Seq(PartBytes)
           /\ Len(Bytes(m, a + 1, b)) = b - a
           /\ \A i \in 1..(b - a) : Bytes(m, a + 1, b)[i] = <<m, a + i>>
<1> DEFINE s == Bytes(m, a + 1, b)
<1>1. s = [i \in 1..(b - a) |-> <<m, a + i>>]
  <2>1. b - (a + 1) + 1 = b - a /\ \A i \in 1..(b - a) : (a + 1) + i - 1 = a + i
    OBVIOUS
  <2> QED
    BY <2>1 DEF Bytes
<1>2. b - a \in Nat /\ \A i \in 1..(b - a) : a + i \in Nat
  OBVIOUS
<1> HIDE DEF s
<1>3. s \in [1..(b - a) -> Nat \X Nat]
  BY <1>1, <1>2
<1>4. s \in [1..(b - a) -> PartBytes]
  BY <1>3 DEF PartBytes
<1>5. s \in Seq(Nat \X Nat) /\ s \in Seq(PartBytes) /\ Len(s) = b - a
  BY <1>2, <1>3, <1>4, FunctionIsList
<1> QED
  BY <1>1, <1>5 DEF s

\* The first and the last of them.
LEMMA SomeBytes ==
    ASSUME NEW m \in Nat, NEW a \in Nat, NEW n \in Nat, n >= 1,
           NEW list, list = Bytes(m, a + 1, a + n)
    PROVE  list # <<>> /\ Len(list) = n /\ list[1][1] = m /\ list[n][2] = a + n
<1> DEFINE b == a + n
           T == Nat \X Nat
<1>1. b \in Nat /\ a <= b
  OBVIOUS
<1>2. b - a = n
  OBVIOUS
<1> HIDE DEF b
<1>3. PICK s \in Seq(T) :
        /\ s = Bytes(m, a + 1, b) /\ Len(s) = b - a
        /\ \A i \in 1..(b - a) : s[i] = <<m, a + i>>
  BY <1>1, BytesFacts
<1> HIDE DEF T
<1>4. 1 \in 1..(b - a) /\ n \in 1..(b - a) /\ Len(s) = n
  BY <1>2, <1>3
<1>5. s[1] = <<m, a + 1>> /\ s[n] = <<m, a + n>>
  BY <1>3, <1>4
<1>6. s # <<>>
  BY <1>4
<1> QED
  BY <1>3, <1>4, <1>5, <1>6 DEF b

\* The bytes up to one.
LEMMA FirstBytes ==
    ASSUME NEW m \in Nat, NEW b \in Nat
    PROVE  /\ Bytes(m, 1, b) \in Seq(Nat \X Nat) /\ Bytes(m, 1, b) \in Seq(PartBytes)
           /\ Len(Bytes(m, 1, b)) = b
           /\ \A i \in 1..b : Bytes(m, 1, b)[i] = <<m, i>>
           /\ b = 0 => Bytes(m, 1, b) = <<>>
<1>1. PICK z \in Nat : z = 0
  OBVIOUS
<1>2. z <= b /\ b - z = b /\ z + 1 = 1 /\ \A i \in 1..b : z + i = i
  BY <1>1
<1>3. /\ Bytes(m, z + 1, b) \in Seq(Nat \X Nat) /\ Bytes(m, z + 1, b) \in Seq(PartBytes)
      /\ Len(Bytes(m, z + 1, b)) = b - z
      /\ \A i \in 1..(b - z) : Bytes(m, z + 1, b)[i] = <<m, z + i>>
  BY <1>2, BytesFacts
<1>4. PICK s \in Seq(PartBytes) : s = Bytes(m, 1, b) /\ Len(s) = b
  BY <1>2, <1>3
<1>5. b = 0 => s = <<>>
  BY <1>4
<1> QED
  BY <1>2, <1>3, <1>4, <1>5

\* The bytes after them go on where they end.
LEMMA BytesGoOn ==
    ASSUME NEW m \in Nat, NEW b \in Nat, NEW c \in Nat, b <= c
    PROVE  Bytes(m, 1, b) \o Bytes(m, b + 1, c) = Bytes(m, 1, c)
<1> DEFINE T == Nat \X Nat
<1>1. PICK s \in Seq(T) :
        s = Bytes(m, 1, b) /\ Len(s) = b /\ \A i \in 1..b : s[i] = <<m, i>>
  BY FirstBytes
<1>2. PICK t \in Seq(T) :
        /\ t = Bytes(m, b + 1, c) /\ Len(t) = c - b
        /\ \A i \in 1..(c - b) : t[i] = <<m, b + i>>
  BY BytesFacts
<1>3. PICK u \in Seq(T) :
        u = Bytes(m, 1, c) /\ Len(u) = c /\ \A i \in 1..c : u[i] = <<m, i>>
  BY FirstBytes
<1> HIDE DEF T
<1>4. PICK v : v = s \o t
  OBVIOUS
<1>5. /\ v \in Seq(T) /\ Len(v) = Len(s) + Len(t)
      /\ \A i \in 1..Len(s) : v[i] = s[i]
      /\ \A i \in 1..Len(t) : v[Len(s) + i] = t[i]
  BY <1>4, ConcatFacts
<1>6. Len(s) = b /\ Len(t) = c - b /\ Len(u) = c
  BY <1>1, <1>2, <1>3
<1>7. Len(v) = c
  BY <1>5, <1>6
<1>8. ASSUME NEW i \in 1..c PROVE v[i] = u[i]
  <2>1. CASE i <= b
    <3>1. i \in 1..b /\ i \in 1..Len(s)
      BY <1>6, <2>1
    <3> QED
      BY <1>1, <1>3, <1>5, <3>1
  <2>2. CASE ~(i <= b)
    <3> DEFINE j == i - b
    <3>1. j \in 1..(c - b) /\ Len(s) + j = i /\ b + j = i
      BY <1>6, <2>2
    <3> HIDE DEF j
    <3>2. v[i] = t[j]
      BY <1>5, <1>6, <3>1
    <3>3. t[j] = <<m, i>>
      BY <1>2, <3>1
    <3> QED
      BY <1>3, <3>2, <3>3
  <2> QED
    BY <2>1, <2>2
<1>9. v = u
  BY <1>5, <1>8, <1>6, <1>7, SameSeq
<1> QED
  BY <1>1, <1>2, <1>3, <1>4, <1>9

\* A packet in a list.
LEMMA ListFacts ==
    ASSUME NEW list \in Seq(PacketSet), NEW k \in 1..Len(list)
    PROVE  /\ list[k].key \in Kinds /\ list[k].body \in Seq(Nat \X Nat) /\ Len(list[k].body) \in Nat
           /\ list[k].body # <<>> =>
                /\ Len(list[k].body) >= 1
                /\ list[k].body[1][1] \in Nat /\ list[k].body[Len(list[k].body)][2] \in Nat
<1>1. list[k] \in PacketSet
  OBVIOUS
<1>2. PICK s \in Seq(Nat \X Nat) : s = list[k].body
  BY <1>1 DEF PacketSet
<1>3. s # <<>> => Len(s) >= 1 /\ s[1] \in Nat \X Nat /\ s[Len(s)] \in Nat \X Nat
  OBVIOUS
<1>4. \A x \in Nat \X Nat : x[1] \in Nat /\ x[2] \in Nat
  OBVIOUS
<1> QED
  BY <1>1, <1>2, <1>3, <1>4 DEF PacketSet

\* A packet without bytes of m adds none; one that has bytes of it is its last one.
LEMMA LengthGrows ==
    ASSUME NEW list, NEW n \in Nat, NEW m
    PROVE  IF list[n + 1].body # <<>> /\ list[n + 1].body[1][1] = m
           THEN LengthIn(list, n + 1, m) = list[n + 1].body[Len(list[n + 1].body)][2]
           ELSE LengthIn(list, n + 1, m) = LengthIn(list, n, m)
<1> DEFINE S == PartsIn(list, n, m)
           T == PartsIn(list, n + 1, m)
           has == list[n + 1].body # <<>> /\ list[n + 1].body[1][1] = m
<1>1. 1..(n + 1) = 1..n \cup {n + 1}
  OBVIOUS
<1>2. S \subseteq 1..n /\ T \subseteq 1..(n + 1)
  BY DEF PartsIn
<1>3. CASE has
  <2>1. n + 1 \in T
    BY <1>1, <1>3 DEF PartsIn
  <2>2. \A y \in T : n + 1 >= y
    BY <1>2
  <2>3. Max(T) = n + 1
    <3>1. n + 1 \in Nat
      OBVIOUS
    <3> HIDE DEF T
    <3> QED
      BY <1>2, <2>1, <2>2, <3>1, MaxIs
  <2>4. T # {}
    BY <2>1
  <2> QED
    BY <1>3, <2>3, <2>4 DEF LengthIn
<1>4. CASE ~has
  <2>1. T = S
    BY <1>1, <1>4 DEF PartsIn
  <2> QED
    BY <1>4, <2>1 DEF LengthIn
<1> QED
  BY <1>3, <1>4

\* Lists with the same first n packets have the same in them.
LEMMA SameLength ==
    ASSUME NEW list, NEW other, NEW n \in Nat, \A k \in 1..n : other[k] = list[k], NEW m
    PROVE  /\ PartsIn(other, n, m) = PartsIn(list, n, m)
           /\ LengthIn(other, n, m) = LengthIn(list, n, m)
<1>1. PartsIn(other, n, m) = PartsIn(list, n, m)
  BY DEF PartsIn
<1>2. ASSUME PartsIn(list, n, m) # {} PROVE LengthIn(other, n, m) = LengthIn(list, n, m)
  <2>1. PartsIn(list, n, m) \subseteq 1..n
    BY DEF PartsIn
  <2>2. Max(PartsIn(list, n, m)) \in 1..n
    BY <1>2, <2>1, MaxFacts
  <2> QED
    BY <1>1, <1>2, <2>2 DEF LengthIn
<1>3. ASSUME PartsIn(list, n, m) = {} PROVE LengthIn(other, n, m) = LengthIn(list, n, m)
  BY <1>1, <1>3 DEF LengthIn
<1> QED
  BY <1>1, <1>2, <1>3

\* Packets without bytes of m after the first n add none.
LEMMA NoneAfter ==
    ASSUME NEW list, NEW n \in Nat, NEW p \in Nat, n <= p, NEW m,
           \A k \in (n + 1)..p : list[k].body # <<>> => list[k].body[1][1] # m
    PROVE  /\ PartsIn(list, p, m) = PartsIn(list, n, m)
           /\ LengthIn(list, p, m) = LengthIn(list, n, m)
<1>1. 1..p = 1..n \cup (n + 1)..p
  OBVIOUS
<1>2. PartsIn(list, p, m) = PartsIn(list, n, m)
  BY <1>1 DEF PartsIn
<1> QED
  BY <1>2 DEF LengthIn

\* The bytes are a number of bytes.
LEMMA LengthType ==
    ASSUME NEW list \in Seq(PacketSet), NEW n \in Nat, n <= Len(list), NEW m
    PROVE  LengthIn(list, n, m) \in Nat
<1>1. ASSUME PartsIn(list, n, m) # {} PROVE LengthIn(list, n, m) \in Nat
  <2>1. PartsIn(list, n, m) \subseteq 1..n
    BY DEF PartsIn
  <2>2. PICK k \in PartsIn(list, n, m) : k = Max(PartsIn(list, n, m))
    BY <1>1, <2>1, MaxFacts
  <2>3. k \in 1..Len(list) /\ list[k].body # <<>>
    BY <2>1 DEF PartsIn
  <2>4. list[k].body[Len(list[k].body)][2] \in Nat
    BY <2>3, ListFacts
  <2> QED
    BY <1>1, <2>2, <2>4 DEF LengthIn
<1>2. ASSUME PartsIn(list, n, m) = {} PROVE LengthIn(list, n, m) \in Nat
  BY <1>2 DEF LengthIn
<1> QED
  BY <1>1, <1>2

-----------------------------------------------------------------------------
(* The inductive invariant.                                                  *)

\* The packets of the device lie one after the other.
StreamOK ==
    /\ packets \in Seq(PacketSet) /\ starts \in Seq(Nat)
    /\ Len(starts) = Len(packets) + 1 /\ starts[1] = 0
    /\ \A k \in 1..Len(packets) : starts[k + 1] = starts[k] + Size(packets[k])
    /\ \A i, j \in 1..Len(starts) : i < j => starts[i] < starts[j]
    /\ delivered \in Nat /\ delivered <= BytesSent
    /\ handled \in Nat /\ handled <= Len(packets)

\* What the parser has to read, now or in the next call.
Unread == IF ~alive THEN <<>> ELSE IF looping THEN Input(in) ELSE Kept(in)

\* The parser is in the middle of the next packet, with all of it that arrived, and
\* the length that it took is that packet's.
ParserOK ==
    /\ hasLength \in BOOLEAN /\ alive \in BOOLEAN /\ looping \in BOOLEAN
    /\ looping => alive
    /\ in \in Buffers(StreamBytes)
    /\ IF looping THEN Reading(in) ELSE InBounds(in)
    /\ IF hasLength
       THEN /\ handled < Len(packets) /\ packets[handled + 1].key # "huge"
            /\ bodyLength = Size(packets[handled + 1]) - LengthBytes
       ELSE bodyLength = 0
    /\ alive => /\ starts[handled + 1] <= delivered
                /\ Unread = Span(starts[handled + 1], delivered)

\* The k-th packet of the device is of a kind that it has in this mode, and goes on
\* in the message that does not end before it.
PacketOK(k) ==
    /\ packets[k].key \in {"bad", "huge"} \cup
            (IF mode = "partials" THEN {"partial", "final"} ELSE {"whole"})
    /\ IF packets[k].key \in {"bad", "huge"} THEN packets[k].body = <<>>
       ELSE LET m == Count(k - 1) + 1
                before == LengthIn(packets, k - 1, m) IN
            \E n \in Lengths : packets[k].body = Bytes(m, before + 1, before + n)

PacketsOK == mode \in Modes /\ \A k \in 1..Len(packets) : PacketOK(k)

\* my->partial has what was handled of the message that has not ended.
PartialOK ==
    /\ partial \in Buffers(PartBytes) /\ InBounds(partial)
    /\ LET m == Count(handled) + 1 IN
       Kept(partial) = Bytes(m, 1, LengthIn(packets, handled, m))

ReceivedOK == received \in Seq(Seq(PartBytes)) /\ ReceivedWhole

\* The packets to the device are of the messages that were to be sent.
SentOK ==
    /\ asked \in Seq([length : Lengths, ok : BOOLEAN]) /\ Len(asked) <= MaxMessages
    /\ out \in Seq(PacketSet) /\ broken \in BOOLEAN
    /\ \A k \in 1..Len(out) : out[k].body # <<>> => out[k].body[1][1] \in 1..Len(asked)
    /\ SentWhole

IInv == StreamOK /\ ParserOK /\ PacketsOK /\ PartialOK /\ ReceivedOK /\ SentOK

-----------------------------------------------------------------------------
(* The messages of the device.                                               *)

\* How many messages end: one more with the last packet of one, and no less with any.
LEMMA CountFacts ==
    ASSUME NEW n \in Nat
    PROVE  /\ Count(n) \in Nat /\ Count(n) <= n
           /\ Count(n + 1) = (IF Whole(packets[n + 1]) THEN Count(n) + 1 ELSE Count(n))
           /\ \A k \in 0..n : Count(k) \in Nat /\ Count(k) <= Count(n)
<1> DEFINE S(k) == {i \in 1..k : Whole(packets[i])}
<1>1. ASSUME NEW k \in Nat PROVE IsFiniteSet(S(k)) /\ Count(k) = Cardinality(S(k)) /\ Count(k) \in Nat /\ Count(k) <= k
  <2>1. IsFiniteSet(1..k) /\ Cardinality(1..k) = k
    <3>1. 1 \in Int /\ k \in Int
      OBVIOUS
    <3>2. IsFiniteSet(1..k) /\ Cardinality(1..k) = IF 1 > k THEN 0 ELSE k - 1 + 1
      BY <3>1, FS_Interval
    <3> QED
      BY <3>2
  <2>2. S(k) \in SUBSET (1..k)
    OBVIOUS
  <2>3. IsFiniteSet(S(k)) /\ Cardinality(S(k)) <= Cardinality(1..k)
    BY <2>1, <2>2, FS_Subset
  <2>4. Cardinality(S(k)) \in Nat
    BY <2>3, FS_CardinalityType
  <2> QED
    BY <2>1, <2>3, <2>4 DEF Count
<1>2. Count(n + 1) = IF Whole(packets[n + 1]) THEN Count(n) + 1 ELSE Count(n)
  <2>1. n + 1 \in Nat /\ 1..(n + 1) = 1..n \cup {n + 1} /\ n + 1 \notin 1..n
    OBVIOUS
  <2>2. CASE Whole(packets[n + 1])
    <3>1. S(n + 1) = S(n) \cup {n + 1} /\ n + 1 \notin S(n)
      BY <2>1, <2>2
    <3>2. Cardinality(S(n) \cup {n + 1}) = Cardinality(S(n)) + 1
      BY <1>1, <3>1, FS_AddElement
    <3> QED
      BY <1>1, <2>1, <2>2, <3>1, <3>2
  <2>3. CASE ~Whole(packets[n + 1])
    <3>1. S(n + 1) = S(n)
      BY <2>1, <2>3
    <3> QED
      BY <1>1, <2>1, <2>3, <3>1
  <2> QED
    BY <2>2, <2>3
<1>3. ASSUME NEW k \in 0..n PROVE Count(k) \in Nat /\ Count(k) <= Count(n)
  <2>1. k \in Nat /\ 1..k \subseteq 1..n
    OBVIOUS
  <2>2. S(k) \in SUBSET S(n)
    BY <2>1
  <2>3. Cardinality(S(k)) <= Cardinality(S(n))
    BY <1>1, <2>2, FS_Subset
  <2> QED
    BY <1>1, <2>1, <2>3
<1> QED
  BY <1>1, <1>2, <1>3

\* The message that does not end in the first n packets, and the bytes of it in them.
Number(n) == Count(n) + 1
Before(n) == LengthIn(packets, n, Number(n))

\* A packet with bytes has the next bytes of the message that does not end before it.
LEMMA PacketFacts ==
    ASSUME StreamOK, PacketsOK, NEW n \in Nat, n < Len(packets)
    PROVE  LET body == packets[n + 1].body IN
           /\ Number(n) \in Nat /\ Before(n) \in Nat
           /\ packets[n + 1].key \in {"bad", "huge"} => body = <<>>
           /\ packets[n + 1].key \notin {"bad", "huge"} =>
                /\ body # <<>> /\ body[1][1] = Number(n)
                /\ \E len \in Nat :
                    /\ len \in Lengths /\ len >= 1
                    /\ body = Bytes(Number(n), Before(n) + 1, Before(n) + len)
                    /\ LengthIn(packets, n + 1, Number(n)) = Before(n) + len
<1> DEFINE body == packets[n + 1].body
<1>1. packets \in Seq(PacketSet) /\ n + 1 \in 1..Len(packets) /\ (n + 1) - 1 = n /\ n <= Len(packets)
  BY DEF StreamOK
<1>2. Number(n) \in Nat /\ Before(n) \in Nat
  <2>1. Count(n) \in Nat
    BY CountFacts
  <2>2. LengthIn(packets, n, Number(n)) \in Nat
    BY <1>1, LengthType
  <2> QED
    BY <2>1, <2>2 DEF Number, Before
<1>3. PacketOK(n + 1)
  BY <1>1 DEF PacketsOK
<1>4. packets[n + 1].key \in {"bad", "huge"} => body = <<>>
  BY <1>3 DEF PacketOK
<1>5. ASSUME packets[n + 1].key \notin {"bad", "huge"}
      PROVE  /\ body # <<>> /\ body[1][1] = Number(n)
             /\ \E len \in Nat :
                 /\ len \in Lengths /\ len >= 1
                 /\ body = Bytes(Number(n), Before(n) + 1, Before(n) + len)
                 /\ LengthIn(packets, n + 1, Number(n)) = Before(n) + len
  <2>1. PICK len \in Lengths : body = Bytes(Number(n), Before(n) + 1, Before(n) + len)
    BY <1>1, <1>3, <1>5 DEF PacketOK, Number, Before
  <2>2. len \in Nat /\ len >= 1
    BY SizesAssumption
  <2> HIDE DEF body
  <2>3. /\ body # <<>> /\ Len(body) = len
        /\ body[1][1] = Number(n) /\ body[len][2] = Before(n) + len
    BY <1>2, <2>1, <2>2, SomeBytes
  <2>4. LengthIn(packets, n + 1, Number(n)) = Before(n) + len
    <3>1. LengthIn(packets, n + 1, Number(n)) = body[Len(body)][2]
      BY <2>3, LengthGrows DEF body
    <3> QED
      BY <2>3, <3>1
  <2> QED
    BY <2>1, <2>2, <2>3, <2>4
<1> QED
  BY <1>2, <1>4, <1>5

\* The number of a packet's message.
LEMMA NumberOf ==
    ASSUME StreamOK, PacketsOK, NEW k \in 1..Len(packets), packets[k].body # <<>>
    PROVE  packets[k].body[1][1] = Count(k - 1) + 1 /\ Count(k - 1) \in Nat
<1>1. PICK n \in Nat : n = k - 1 /\ n + 1 = k /\ n < Len(packets)
  BY DEF StreamOK
<1>2. Count(n) \in Nat
  BY CountFacts
<1>3. packets[n + 1].key \notin {"bad", "huge"}
  BY <1>1, PacketFacts
<1>4. packets[n + 1].body[1][1] = Number(n)
  BY <1>1, <1>3, PacketFacts
<1> QED
  BY <1>1, <1>2, <1>4 DEF Number

\* No packet after the first n has bytes of the messages that end in them.
LEMMA EndedStays ==
    ASSUME StreamOK, PacketsOK, NEW n \in Nat, NEW p \in Nat, n <= p, p <= Len(packets),
           NEW m \in Nat, m <= Count(n)
    PROVE  LengthIn(packets, p, m) = LengthIn(packets, n, m)
<1>1. ASSUME NEW k \in (n + 1)..p, packets[k].body # <<>> PROVE packets[k].body[1][1] # m
  <2>1. k \in 1..Len(packets) /\ k - 1 \in Nat /\ n \in 0..(k - 1)
    BY DEF StreamOK
  <2>2. packets[k].body[1][1] = Count(k - 1) + 1 /\ Count(k - 1) \in Nat
    BY <1>1, <2>1, NumberOf
  <2>3. Count(n) \in Nat /\ Count(n) <= Count(k - 1)
    BY <2>1, CountFacts
  <2> QED
    BY <2>2, <2>3
<1> QED
  BY <1>1, NoneAfter

\* When all messages that the first n packets have bytes of end in them, there are
\* no bytes yet of the next.
LEMMA NoneOfNext ==
    ASSUME StreamOK, PacketsOK, NEW n \in Nat, n <= Len(packets),
           \A k \in 1..n : packets[k].body # <<>> => Count(k - 1) + 1 <= Count(n)
    PROVE  LengthIn(packets, n, Count(n) + 1) = 0
<1>1. ASSUME NEW k \in 1..n, packets[k].body # <<>> PROVE packets[k].body[1][1] # Count(n) + 1
  <2>1. k \in 1..Len(packets)
    BY DEF StreamOK
  <2>2. packets[k].body[1][1] = Count(k - 1) + 1 /\ Count(k - 1) \in Nat
    BY <1>1, <2>1, NumberOf
  <2>3. Count(n) \in Nat /\ Count(k - 1) + 1 <= Count(n)
    BY <1>1, CountFacts
  <2> QED
    BY <2>2, <2>3
<1>2. PartsIn(packets, n, Count(n) + 1) = {}
  BY <1>1 DEF PartsIn
<1> QED
  BY <1>2 DEF LengthIn

\* So it is after a packet that ends a message, and always when each one does.
LEMMA NextStarts ==
    ASSUME StreamOK, PacketsOK, NEW n \in Nat, n <= Len(packets),
           \/ n = 0
           \/ n >= 1 /\ Whole(packets[n])
           \/ mode # "partials"
    PROVE  LengthIn(packets, n, Count(n) + 1) = 0
<1>1. ASSUME NEW k \in 1..n, packets[k].body # <<>> PROVE Count(k - 1) + 1 <= Count(n)
  <2>1. PICK j \in Nat : j = k - 1 /\ j + 1 = k /\ j \in 0..n /\ k \in 0..n
    OBVIOUS
  <2>2. Count(j) \in Nat /\ Count(k) \in Nat /\ Count(k) <= Count(n) /\ Count(n) \in Nat
    BY <2>1, CountFacts
  <2>3. CASE Whole(packets[k])
    <3>1. Count(k) = Count(j) + 1
      BY <2>1, <2>3, CountFacts
    <3> QED
      BY <2>1, <2>2, <3>1
  <2>4. CASE ~Whole(packets[k])
    <3>1. k \in 1..Len(packets)
      BY DEF StreamOK
    <3>2. PacketOK(k)
      BY <3>1 DEF PacketsOK
    <3>3. packets[k].key \notin {"bad", "huge"}
      BY <1>1, <3>2 DEF PacketOK
    <3>4. mode = "partials"
      BY <2>4, <3>2, <3>3 DEF PacketOK, Whole
    <3>5. n >= 1 /\ Whole(packets[n])
      BY <3>4
    <3>6. PICK i \in Nat : i + 1 = n
      <4>1. n - 1 \in Nat /\ (n - 1) + 1 = n
        BY <3>5
      <4> QED
        BY <4>1
    <3>7. j \in 0..i
      <4>1. k # n
        BY <2>4, <3>5
      <4> QED
        BY <2>1, <3>6, <4>1
    <3>8. Count(j) <= Count(i) /\ Count(i) \in Nat /\ Count(n) = Count(i) + 1
      BY <3>5, <3>6, <3>7, CountFacts
    <3> QED
      BY <2>1, <2>2, <3>8
  <2> QED
    BY <2>3, <2>4
<1> QED
  BY <1>1, NoneOfNext


-----------------------------------------------------------------------------
(* The stream of the device.                                                 *)

\* The bytes of a packet.
LEMMA SizeFacts ==
    ASSUME NEW p \in PacketSet
    PROVE  /\ Size(p) \in Nat /\ Size(p) >= LengthBytes /\ Size(p) >= 1
           /\ Size(p) = LengthBytes + Len(p.body) + (IF p.key \in {"partial", "final"} THEN Envelope ELSE 0)
<1>1. LengthBytes \in Nat /\ LengthBytes >= 1 /\ Envelope \in Nat
  BY SizesAssumption
<1>2. PICK n \in Nat : n = Len(p.body)
  BY DEF PacketSet
<1>3. PICK e \in Nat : e = IF p.key \in {"partial", "final"} THEN Envelope ELSE 0
  BY <1>1
<1>4. Size(p) = LengthBytes + n + e
  BY <1>2, <1>3 DEF Size
<1>5. PICK s : s = Size(p)
  OBVIOUS
<1>6. s \in Nat /\ s >= LengthBytes /\ s >= 1
  BY <1>1, <1>4, <1>5
<1>7. LengthBytes + n + e = LengthBytes + Len(p.body) + (IF p.key \in {"partial", "final"} THEN Envelope ELSE 0)
  BY <1>2, <1>3
<1> QED
  BY <1>4, <1>5, <1>6, <1>7

\* The bounds of the packets, by StreamOK.
LEMMA StartsFacts ==
    ASSUME StreamOK
    PROVE  /\ Len(packets) \in Nat /\ Len(starts) = Len(packets) + 1
           /\ BytesSent \in Nat /\ BytesSent = starts[Len(packets) + 1]
           /\ \A k \in 1..(Len(packets) + 1) : starts[k] \in Nat /\ starts[k] <= BytesSent
           /\ starts[handled + 1] \in Nat /\ starts[handled + 1] <= BytesSent
           /\ handled + 1 \in 1..(Len(packets) + 1)
<1>1. /\ Len(packets) \in Nat /\ Len(starts) = Len(packets) + 1 /\ starts \in Seq(Nat)
      /\ handled \in Nat /\ handled <= Len(packets)
      /\ \A i, j \in 1..Len(starts) : i < j => starts[i] < starts[j]
  BY DEF StreamOK
<1>2. BytesSent = starts[Len(packets) + 1]
  BY <1>1 DEF BytesSent
<1>3. ASSUME NEW k \in 1..(Len(packets) + 1) PROVE starts[k] \in Nat
  BY <1>1
<1>4. BytesSent \in Nat
  BY <1>1, <1>2, <1>3
<1>5. ASSUME NEW k \in 1..(Len(packets) + 1) PROVE starts[k] <= BytesSent
  <2>1. CASE k = Len(packets) + 1
    BY <1>2, <1>4, <2>1
  <2>2. CASE k # Len(packets) + 1
    <3>1. k \in 1..Len(starts) /\ Len(packets) + 1 \in 1..Len(starts) /\ k < Len(packets) + 1
      BY <1>1, <2>2
    <3>2. starts[k] < starts[Len(packets) + 1]
      BY <1>1, <3>1
    <3> QED
      BY <1>2, <1>3, <1>4, <3>2
  <2> QED
    BY <2>1, <2>2
<1>6. handled + 1 \in 1..(Len(packets) + 1)
  BY <1>1
<1> QED
  BY <1>1, <1>2, <1>3, <1>4, <1>5, <1>6

\* With a byte to read, the packet at the input is the next one that was not handled.
LEMMA NextPacket ==
    ASSUME StreamOK, ParserOK, looping, Len(Input(in)) >= 1
    PROVE  /\ handled < Len(packets)
           /\ At(Input(in)) = packets[handled + 1]
<1> DEFINE s == starts[handled + 1]
<1>1. alive /\ s <= delivered /\ Input(in) = Span(s, delivered)
  BY DEF ParserOK, Unread
<1>2. /\ Len(packets) \in Nat /\ Len(starts) = Len(packets) + 1
      /\ BytesSent \in Nat /\ BytesSent = starts[Len(packets) + 1]
      /\ s \in Nat /\ s <= BytesSent /\ handled + 1 \in 1..(Len(packets) + 1)
      /\ \A k \in 1..(Len(packets) + 1) : starts[k] \in Nat
  BY StartsFacts
<1>3. delivered \in Nat /\ delivered <= BytesSent /\ handled \in Nat /\ handled <= Len(packets)
  BY DEF StreamOK
<1>4. \A i, j \in 1..Len(starts) : i < j => starts[i] < starts[j]
  BY DEF StreamOK
<1>5. DOMAIN packets = 1..Len(packets)
  BY DEF StreamOK
<1> HIDE DEF s
<1>6. Len(Input(in)) = delivered - s /\ (delivered - s >= 1 => Input(in)[1] = s + 1)
  <2>1. Len(Span(s, delivered)) = delivered - s
    BY <1>1, <1>2, <1>3, SpanFacts
  <2>2. \A i \in 1..(delivered - s) : Span(s, delivered)[i] = s + i
    BY <1>1, <1>2, <1>3, SpanFacts
  <2>3. delivered - s >= 1 => 1 \in 1..(delivered - s)
    BY <1>2, <1>3
  <2> QED
    BY <1>1, <2>1, <2>2, <2>3
<1>7. delivered - s >= 1
  BY <1>6
<1>8. handled < Len(packets)
  <2>1. SUFFICES ASSUME handled = Len(packets) PROVE FALSE
    BY <1>2, <1>3
  <2>2. s = BytesSent
    BY <1>2, <2>1 DEF s
  <2> QED
    BY <1>2, <1>3, <1>7, <2>2
<1>9. Input(in)[1] = s + 1
  BY <1>6, <1>7
<1>10. handled + 1 \in DOMAIN packets /\ starts[handled + 1] + 1 = Input(in)[1]
  BY <1>3, <1>5, <1>8, <1>9 DEF s
<1>11. ASSUME NEW k \in DOMAIN packets, starts[k] + 1 = Input(in)[1] PROVE k = handled + 1
  <2>1. k \in 1..Len(starts) /\ handled + 1 \in 1..Len(starts) /\ k \in Nat /\ handled + 1 \in Nat
    BY <1>2, <1>3, <1>5
  <2>2. starts[k] \in Nat /\ starts[handled + 1] \in Nat /\ starts[k] = starts[handled + 1]
    BY <1>2, <1>9, <1>11, <2>1 DEF s
  <2>3. ~(k < handled + 1) /\ ~(handled + 1 < k)
    BY <1>4, <2>1, <2>2
  <2> QED
    BY <2>1, <2>3
<1>12. (CHOOSE k \in DOMAIN packets : starts[k] + 1 = Input(in)[1]) = handled + 1
  BY <1>10, <1>11
<1> QED
  BY <1>8, <1>10, <1>12 DEF At

\* The next packet that was not handled, and the place of its first byte and of the
\* one after its last.
NextStart == starts[handled + 1]
NextSize == Size(packets[handled + 1])
NextEnd == starts[handled + 2]

\* When a packet is handled, it is the next one and all of it was received; the rest
\* of the input starts after it.
LEMMA RecvPacketFacts ==
    ASSUME StreamOK, ParserOK, RecvPacket
    PROVE  /\ alive /\ handled \in Nat /\ handled < Len(packets) /\ handled + 1 \in 1..Len(packets)
           /\ At(Input(in)) = packets[handled + 1] /\ bodyLength + LengthBytes = NextSize
           /\ packets[handled + 1].key # "huge"
           /\ NextSize \in Nat /\ NextSize >= 1 /\ NextStart \in Nat /\ NextEnd = NextStart + NextSize
           /\ NextEnd <= delivered /\ delivered \in Nat
           /\ Input(in) = Span(NextStart, delivered) /\ Reading(in) /\ in \in Buffers(StreamBytes)
           /\ Len(Input(in)) = delivered - NextStart /\ NextSize <= Len(Input(in))
           /\ SubSeq(Input(in), NextSize + 1, Len(Input(in))) = Span(NextEnd, delivered)
<1>1. /\ looping /\ hasLength /\ Complete(Input(in)) /\ alive
      /\ handled < Len(packets) /\ bodyLength = NextSize - LengthBytes /\ packets[handled + 1].key # "huge"
      /\ Input(in) = Span(NextStart, delivered) /\ NextStart <= delivered
      /\ Reading(in) /\ in \in Buffers(StreamBytes)
  BY DEF RecvPacket, ParserOK, Unread, NextStart, NextSize
<1>2. /\ handled \in Nat /\ Len(packets) \in Nat /\ delivered \in Nat /\ packets \in Seq(PacketSet)
      /\ \A k \in 1..Len(packets) : starts[k + 1] = starts[k] + Size(packets[k])
  BY DEF StreamOK
<1>3. handled + 1 \in 1..Len(packets)
  BY <1>1, <1>2
<1>4. NextSize \in Nat /\ NextSize >= 1
  <2> DEFINE k == handled + 1
  <2>1. k \in 1..Len(packets)
    BY <1>3
  <2> HIDE DEF k
  <2>2. packets[k] \in PacketSet
    BY <1>2, <2>1
  <2>3. Size(packets[k]) \in Nat /\ Size(packets[k]) >= 1
    BY <2>2, SizeFacts
  <2> QED
    BY <2>3 DEF NextSize, k
<1>5. NextStart \in Nat
  BY StartsFacts DEF NextStart
<1>6. NextEnd = NextStart + NextSize
  <2>1. starts[(handled + 1) + 1] = starts[handled + 1] + Size(packets[handled + 1])
    BY <1>2, <1>3
  <2>2. (handled + 1) + 1 = handled + 2
    BY <1>2
  <2> QED
    BY <2>1, <2>2 DEF NextStart, NextSize, NextEnd
<1>7. Len(Input(in)) = delivered - NextStart
  BY <1>1, <1>2, <1>5, SpanFacts
<1>12. bodyLength + LengthBytes = NextSize
  BY <1>1, <1>4, SizesAssumption
<1>8. NextSize <= Len(Input(in))
  BY <1>1, <1>12 DEF Complete
<1>9. NextEnd <= delivered
  BY <1>2, <1>4, <1>5, <1>6, <1>7, <1>8
<1>10. At(Input(in)) = packets[handled + 1]
  <2>1. Len(Input(in)) >= 1
    BY <1>2, <1>4, <1>5, <1>7, <1>8
  <2> QED
    BY <1>1, <2>1, NextPacket
<1>11. SubSeq(Input(in), NextSize + 1, Len(Input(in))) = Span(NextEnd, delivered)
  <2>1. SubSeq(Span(NextStart, delivered), NextSize + 1, delivered - NextStart) =
          Span(NextStart + NextSize, delivered)
    BY <1>1, <1>2, <1>4, <1>5, <1>6, <1>9, SpanRest
  <2> QED
    BY <1>1, <1>6, <1>7, <2>1
<1> QED
  BY <1>1, <1>2, <1>3, <1>4, <1>5, <1>6, <1>7, <1>8, <1>9, <1>10, <1>11, <1>12


-----------------------------------------------------------------------------
(* The steps of the parser.                                                  *)

\* What is said of the device's packets stays while they do.
LEMMA PacketsStay ==
    ASSUME PacketsOK, UNCHANGED <<mode, packets>>
    PROVE  PacketsOK'
<1>1. ASSUME NEW k \in 1..Len(packets) PROVE PacketOK(k)'
  <2>1. PacketOK(k)
    BY DEF PacketsOK
  <2>2. Count(k - 1)' = Count(k - 1)
    BY DEF Count, Whole
  <2> QED
    BY <2>1, <2>2 DEF PacketOK
<1> QED
  BY <1>1 DEF PacketsOK

\* And of its messages, while the same packets are handled.
LEMMA DeviceStays ==
    ASSUME PacketsOK, PartialOK, ReceivedOK, alive' => alive,
           UNCHANGED <<mode, packets, partial, handled, received>>
    PROVE  PacketsOK' /\ PartialOK' /\ ReceivedOK'
<1>1. PartialOK'
  BY DEF PartialOK, Count, LengthIn, PartsIn, Whole
<1>2. ReceivedOK'
  BY DEF ReceivedOK, ReceivedWhole, Count, LengthIn, PartsIn, Whole
<1> QED
  BY <1>1, <1>2, PacketsStay

\* And of the packets to the device.
LEMMA SentStays ==
    ASSUME SentOK, UNCHANGED <<mode, sender>>
    PROVE  SentOK'
BY DEF SentOK, SentWhole, Whole, sender

\* The next bytes arrive.
LEMMA OnRecvKeeps ==
    ASSUME IInv, NEW n \in 1..BytesSent, OnRecv(n)
    PROVE  /\ IInv'
           /\ Input(in') = Kept(in) \o Span(delivered, delivered + n)
<1> USE DEF IInv
<1>1. /\ alive /\ ~looping /\ delivered + n <= BytesSent
      /\ in' = BeginInput(in, Span(delivered, delivered + n))
      /\ delivered' = delivered + n /\ looping' = TRUE
      /\ UNCHANGED <<mode, partial, hasLength, bodyLength, alive, packets, starts, handled, received, sender>>
  BY DEF OnRecv
<1>2. BytesSent \in Nat /\ starts[handled + 1] \in Nat
  BY StartsFacts
<1>3. n \in Nat /\ n >= 1 /\ delivered \in Nat
  BY <1>2 DEF StreamOK
<1> DEFINE end == delivered + n
           buf == Span(delivered, end)
           s == starts[handled + 1]
<1>4. end \in Nat /\ delivered <= end
  BY <1>3
<1>5. /\ in \in Buffers(StreamBytes) /\ InBounds(in) /\ s <= delivered /\ Kept(in) = Span(s, delivered)
  BY <1>1 DEF ParserOK, Unread
<1> HIDE DEF end
<1>6. buf \in Seq(StreamBytes) /\ Garbage \in StreamBytes
  BY <1>3, <1>4, SpanFacts DEF StreamBytes
<1> HIDE DEF buf
<1>7. in' = BeginInput(in, buf)
  BY <1>1 DEF buf, end
<1>8. in' \in Buffers(StreamBytes) /\ Reading(in') /\ Input(in') = Kept(in) \o buf
  BY <1>5, <1>6, <1>7, BeginInputReads
<1>9. Kept(in) \o buf = Span(s, end)
  <2>1. s \in Nat
    BY <1>2
  <2>2. s <= delivered /\ Kept(in) = Span(s, delivered)
    BY <1>5
  <2> HIDE DEF s
  <2>3. Span(s, delivered) \o Span(delivered, end) = Span(s, end)
    BY <1>3, <1>4, <2>1, <2>2, SpanGoesOn
  <2> QED
    BY <2>2, <2>3 DEF buf
<1>10. StreamOK'
  BY <1>1, <1>3 DEF StreamOK, BytesSent, Size
<1>11. ParserOK'
  <2>1. Unread' = Span(s, end)
    BY <1>1, <1>8, <1>9 DEF Unread
  <2>2. s' = s /\ delivered' = end /\ s <= end
    BY <1>1, <1>2, <1>3, <1>5 DEF end
  <2>3. Span(starts[handled + 1], delivered)' = Span(s, end)
    BY <2>2 DEF Span
  <2>4. alive' => starts'[handled' + 1] <= delivered' /\ Unread' = Span(starts[handled + 1], delivered)'
    BY <2>1, <2>2, <2>3
  <2>5. (IF hasLength
         THEN /\ handled < Len(packets) /\ packets[handled + 1].key # "huge"
              /\ bodyLength = Size(packets[handled + 1]) - LengthBytes
         ELSE bodyLength = 0)'
    BY <1>1 DEF ParserOK, Size
  <2>6. /\ hasLength' \in BOOLEAN /\ alive' \in BOOLEAN /\ looping' = TRUE /\ alive' = TRUE
    BY <1>1 DEF ParserOK
  <2> QED
    BY <1>8, <2>4, <2>5, <2>6 DEF ParserOK
<1>12. PacketsOK' /\ PartialOK' /\ ReceivedOK' /\ SentOK'
  BY <1>1, DeviceStays, SentStays
<1> QED
  BY <1>8, <1>10, <1>11, <1>12 DEF buf, end

\* A length is read: the one of the next packet, or the connection ends.
LEMMA RecvLengthKeeps ==
    ASSUME IInv, RecvLength
    PROVE  IInv'
<1> USE DEF IInv
<1>1. /\ looping /\ ~hasLength /\ alive /\ Len(Input(in)) >= LengthBytes
      /\ UNCHANGED <<mode, partial, device, sender>>
  BY DEF RecvLength, ParserOK
<1>2. in \in Buffers(StreamBytes) /\ Reading(in) /\ Len(Input(in)) \in Nat /\ Garbage \in StreamBytes
  BY <1>1, InputFacts DEF ParserOK, StreamBytes
<1>3. handled < Len(packets) /\ At(Input(in)) = packets[handled + 1]
  <2>1. Len(Input(in)) >= 1
    BY <1>1, <1>2, SizesAssumption
  <2> QED
    BY <1>1, <2>1, NextPacket
<1>4. StreamOK'
  BY <1>1 DEF StreamOK, BytesSent, Size, device
<1>5. Span(starts[handled + 1], delivered)' = Span(starts[handled + 1], delivered)
  BY <1>1 DEF Span, device
<1>6. CASE At(Input(in)).key # "huge"
  <2>1. /\ hasLength' = TRUE /\ bodyLength' = Size(At(Input(in))) - LengthBytes
        /\ UNCHANGED <<in, looping, alive, packets, starts, delivered, handled>>
    BY <1>1, <1>6 DEF RecvLength, device
  <2>2. Unread' = Unread
    BY <2>1 DEF Unread
  <2>3. alive' => starts'[handled' + 1] <= delivered' /\ Unread' = Span(starts[handled + 1], delivered)'
    BY <1>5, <2>1, <2>2 DEF ParserOK
  <2>4. /\ handled' < Len(packets') /\ packets'[handled' + 1].key # "huge"
        /\ bodyLength' = Size(packets[handled + 1])' - LengthBytes
    BY <1>3, <1>6, <2>1 DEF Size
  <2>5. /\ alive' \in BOOLEAN /\ looping' \in BOOLEAN /\ (looping' => alive')
        /\ in' \in Buffers(StreamBytes) /\ IF looping' THEN Reading(in') ELSE InBounds(in')
    BY <2>1 DEF ParserOK
  <2> QED
    BY <2>1, <2>3, <2>4, <2>5, <1>4, <1>1, DeviceStays, SentStays DEF ParserOK, device
<1>7. CASE At(Input(in)).key = "huge"
  <2> DEFINE read == Advance(in, LengthBytes)
  <2>1. /\ in' = EndInput(read) /\ looping' = FALSE /\ alive' = FALSE
        /\ UNCHANGED <<hasLength, bodyLength>>
    BY <1>7 DEF RecvLength, Fails
  <2>2. read \in Buffers(StreamBytes) /\ Reading(read)
    <3>1. LengthBytes \in Nat /\ LengthBytes <= Len(Input(in))
      BY <1>1, <1>2, SizesAssumption
    <3> QED
      BY <1>2, <3>1, AdvanceReads
  <2> HIDE DEF read
  <2>3. in' \in Buffers(StreamBytes) /\ InBounds(in')
    BY <1>2, <2>1, <2>2, EndInputKeeps
  <2>4. hasLength' = FALSE /\ bodyLength' = 0
    BY <1>1, <2>1 DEF ParserOK
  <2> QED
    BY <2>1, <2>3, <2>4, <1>4, <1>1, DeviceStays, SentStays DEF ParserOK, device
<1> QED
  BY <1>6, <1>7

\* More is needed: what is left is kept.
LEMMA RecvMoreKeeps ==
    ASSUME IInv, RecvMore
    PROVE  IInv' /\ Kept(in') = Input(in)
<1> USE DEF IInv
<1>1. /\ looping /\ in' = EndInput(in) /\ looping' = FALSE
      /\ UNCHANGED <<mode, partial, hasLength, bodyLength, alive, device, sender>>
  BY DEF RecvMore
<1>2. in \in Buffers(StreamBytes) /\ Reading(in) /\ Garbage \in StreamBytes
  BY <1>1 DEF ParserOK, StreamBytes
<1>3. in' \in Buffers(StreamBytes) /\ InBounds(in') /\ Kept(in') = Input(in)
  BY <1>1, <1>2, EndInputKeeps
<1>4. StreamOK'
  BY <1>1 DEF StreamOK, BytesSent, Size, device
<1>5. ParserOK'
  <2>1. Unread' = Unread /\ Span(starts[handled + 1], delivered)' = Span(starts[handled + 1], delivered)
    BY <1>1, <1>3 DEF Unread, Span, ParserOK, device
  <2>2. alive' => starts'[handled' + 1] <= delivered' /\ Unread' = Span(starts[handled + 1], delivered)'
    BY <1>1, <2>1 DEF ParserOK, device
  <2>3. (IF hasLength
         THEN /\ handled < Len(packets) /\ packets[handled + 1].key # "huge"
              /\ bodyLength = Size(packets[handled + 1]) - LengthBytes
         ELSE bodyLength = 0)'
    BY <1>1 DEF ParserOK, Size, device
  <2>4. hasLength' \in BOOLEAN /\ alive' \in BOOLEAN
    BY <1>1 DEF ParserOK
  <2> QED
    BY <1>1, <1>3, <2>2, <2>3, <2>4 DEF ParserOK
<1>6. PacketsOK' /\ PartialOK' /\ ReceivedOK' /\ SentOK'
  BY <1>1, DeviceStays, SentStays DEF device
<1> QED
  BY <1>3, <1>4, <1>5, <1>6

\* The parts that are kept after the next packet, and the message that is complete
\* with it.
LEMMA MessageFacts ==
    ASSUME StreamOK, PacketsOK, PartialOK, NEW h \in Nat, h = handled, h < Len(packets),
           NEW p, p = packets[h + 1]
    PROVE  LET all == Bytes(Number(h), 1, LengthIn(packets, h + 1, Number(h))) IN
           /\ PartialAfter(p) \in Buffers(PartBytes) /\ InBounds(PartialAfter(p))
           /\ Kept(PartialAfter(p)) = IF Whole(p) THEN <<>> ELSE all
           /\ Whole(p) => MessageOf(p) \in Seq(PartBytes) /\ MessageOf(p) = all
<1>1. PICK m \in Nat, b \in Nat : m = Number(h) /\ b = Before(h)
  BY PacketFacts
<1>2. /\ partial \in Buffers(PartBytes) /\ InBounds(partial)
      /\ Kept(partial) = Bytes(m, 1, b) /\ Garbage \in PartBytes
  BY <1>1 DEF PartialOK, Number, Before, PartBytes
<1>3. Len(Bytes(m, 1, b)) = b
  BY FirstBytes
<1>4. Used(partial) = b
  BY <1>2, <1>3, KeptFacts DEF Used
<1>5. /\ packets[h + 1] \in PacketSet /\ h + 1 \in 1..Len(packets)
      /\ p.key \in {"bad", "huge"} \cup (IF mode = "partials" THEN {"partial", "final"} ELSE {"whole"})
  <2>1. h + 1 \in 1..Len(packets) /\ packets \in Seq(PacketSet)
    BY DEF StreamOK
  <2> QED
    BY <2>1 DEF PacketsOK, PacketOK
<1>6. CASE p.key \in {"bad", "huge"}
  <2>1. p.body = <<>>
    BY <1>6, PacketFacts
  <2>2. LengthIn(packets, h + 1, m) = LengthIn(packets, h, m)
    BY <2>1, LengthGrows
  <2>3. LengthIn(packets, h + 1, m) = b
    BY <1>1, <2>2 DEF Before
  <2>4. PartialAfter(p) = partial /\ ~Whole(p)
    BY <1>6 DEF PartialAfter, Whole
  <2> QED
    BY <1>1, <1>2, <2>3, <2>4
<1>7. CASE p.key \notin {"bad", "huge"}
  <2>1. PICK n \in Nat :
          /\ n >= 1 /\ p.body = Bytes(m, b + 1, b + n)
          /\ LengthIn(packets, h + 1, m) = b + n
    BY <1>1, <1>7, PacketFacts
  <2> DEFINE e == b + n
             body == Bytes(m, b + 1, e)
  <2>2. e \in Nat /\ b <= e
    OBVIOUS
  <2>3. p.body = body /\ LengthIn(packets, h + 1, m) = e
    BY <2>1
  <2> HIDE DEF e
  <2>4. body \in Seq(PartBytes)
    BY <2>2, BytesFacts
  <2>5. Bytes(m, 1, b) \o body = Bytes(m, 1, e)
    BY <2>2, BytesGoOn DEF body
  <2> HIDE DEF body
  <2>6. /\ Add(partial, body) \in Buffers(PartBytes) /\ InBounds(Add(partial, body))
        /\ Kept(Add(partial, body)) = Bytes(m, 1, e)
    BY <1>2, <2>4, <2>5, AddKeeps
  <2>7. CASE p.key = "partial"
    <3>1. PartialAfter(p) = Add(partial, body) /\ ~Whole(p)
      BY <2>3, <2>7 DEF PartialAfter, Whole
    <3> QED
      BY <1>1, <2>3, <2>6, <3>1
  <2>8. CASE p.key = "final" /\ Used(partial) > 0
    <3>1. /\ PartialAfter(p) = Clear(Add(partial, body)) /\ Whole(p)
          /\ MessageOf(p) = Kept(Add(partial, body))
      BY <2>3, <2>8 DEF PartialAfter, MessageOf, Whole
    <3> DEFINE cb == Add(partial, body)
    <3> HIDE DEF cb
    <3>2. ASSUME cb \in Buffers(PartBytes)
          PROVE  Clear(cb) \in Buffers(PartBytes) /\ InBounds(Clear(cb)) /\ Kept(Clear(cb)) = <<>>
      <4>1. Clear(cb) \in Buffers(PartBytes) /\ Clear(cb).head = 0 /\ Clear(cb).tail = 0
        BY <3>2 DEF Clear, Buffers
      <4>2. Clear(cb).mem \in Seq(PartBytes) /\ Len(Clear(cb).mem) \in Nat
        BY <4>1, BufferFields
      <4> QED
        BY <4>1, <4>2 DEF InBounds, Kept
    <3>3. MessageOf(p) \in Seq(PartBytes)
      BY <2>6, <3>1, KeptFacts
    <3> QED
      BY <1>1, <2>3, <2>6, <3>1, <3>2, <3>3 DEF cb
  <2>9. CASE p.key = "whole" \/ (p.key = "final" /\ ~(Used(partial) > 0))
    <3>1. PartialAfter(p) = partial /\ Whole(p) /\ MessageOf(p) = body
      BY <2>3, <2>9 DEF PartialAfter, MessageOf, Whole
    <3>2. b = 0
      <4>1. CASE p.key = "whole"
        <5>1. mode # "partials"
          BY <1>5, <4>1
        <5>2. LengthIn(packets, h, Count(h) + 1) = 0
          BY <5>1, NextStarts DEF StreamOK
        <5> QED
          BY <1>1, <5>2 DEF Before, Number
      <4>2. CASE ~(Used(partial) > 0)
        BY <1>4, <4>2
      <4> QED
        BY <2>9, <4>1, <4>2
    <3>3. body = Bytes(m, 1, e)
      BY <3>2 DEF body
    <3>4. Kept(partial) = <<>>
      BY <1>2, <3>2, FirstBytes
    <3> QED
      BY <1>1, <1>2, <2>3, <2>4, <3>1, <3>3, <3>4
  <2>10. p.key \in {"partial", "final", "whole"}
    BY <1>5, <1>7
  <2>11. \/ p.key = "partial"
         \/ p.key = "final" /\ Used(partial) > 0
         \/ p.key = "whole" \/ (p.key = "final" /\ ~(Used(partial) > 0))
    BY <2>10
  <2> QED
    BY <2>7, <2>8, <2>9, <2>11
<1> QED
  BY <1>6, <1>7

\* A packet is handled.
LEMMA RecvPacketKeeps ==
    ASSUME IInv, RecvPacket
    PROVE  IInv'
<1> USE DEF IInv
<1> DEFINE h == handled
           p == packets[h + 1]
           read == Advance(in, bodyLength + LengthBytes)
<1>1. /\ alive /\ h \in Nat /\ h < Len(packets) /\ h + 1 \in 1..Len(packets)
      /\ At(Input(in)) = p /\ bodyLength + LengthBytes = NextSize
      /\ NextSize \in Nat /\ NextSize >= 1 /\ NextStart \in Nat /\ NextEnd = NextStart + NextSize
      /\ NextEnd <= delivered /\ delivered \in Nat
      /\ Input(in) = Span(NextStart, delivered) /\ Reading(in) /\ in \in Buffers(StreamBytes)
      /\ NextSize <= Len(Input(in))
      /\ SubSeq(Input(in), NextSize + 1, Len(Input(in))) = Span(NextEnd, delivered)
  BY RecvPacketFacts
<1>2. /\ partial' = PartialAfter(p)
      /\ \/ received' = ReceivedAfter(p)
         \/ received' = received /\ alive' = FALSE
      /\ hasLength' = FALSE /\ bodyLength' = 0 /\ handled' = h + 1
      /\ UNCHANGED <<mode, packets, starts, delivered, sender>>
      /\ \/ in' = read /\ UNCHANGED <<looping, alive>>
         \/ in' = EndInput(read) /\ looping' = FALSE /\ alive' = FALSE
  BY <1>1 DEF RecvPacket, Fails
<1>3. /\ read \in Buffers(StreamBytes) /\ Reading(read)
      /\ Input(read) = Span(NextEnd, delivered)
  <2> DEFINE n == bodyLength + LengthBytes
  <2>1. n \in Nat /\ n <= Len(Input(in)) /\ n = NextSize
    BY <1>1
  <2> HIDE DEF n
  <2>2. /\ Advance(in, n) \in Buffers(StreamBytes) /\ Reading(Advance(in, n))
        /\ Input(Advance(in, n)) = SubSeq(Input(in), n + 1, Len(Input(in)))
    BY <1>1, <2>1, AdvanceReads
  <2> QED
    BY <1>1, <2>1, <2>2 DEF n
<1> HIDE DEF read
<1>4. StreamOK'
  <2>1. handled' \in Nat /\ handled' <= Len(packets')
    BY <1>1, <1>2 DEF StreamOK
  <2> QED
    BY <1>2, <2>1 DEF StreamOK, BytesSent, Size
<1>5. ParserOK'
  <2>1. starts'[handled' + 1] = NextEnd
    <3>1. (handled + 1) + 1 = handled + 2
      BY <1>1
    <3> QED
      BY <1>2, <3>1 DEF NextEnd
  <2>2. CASE in' = read /\ UNCHANGED <<looping, alive>>
    <3>1. looping /\ looping' = TRUE /\ alive' = TRUE
      BY <1>1, <2>2 DEF RecvPacket, ParserOK
    <3>2. Unread' = Span(NextEnd, delivered)
      BY <1>3, <2>2, <3>1 DEF Unread
    <3>3. Span(starts[handled + 1], delivered)' = Span(NextEnd, delivered)
      BY <1>2, <2>1 DEF Span
    <3>4. starts'[handled' + 1] <= delivered' /\ Unread' = Span(starts[handled + 1], delivered)'
      BY <1>1, <1>2, <2>1, <3>2, <3>3
    <3> QED
      BY <1>2, <1>3, <2>2, <3>1, <3>4 DEF ParserOK
  <2>3. CASE in' = EndInput(read) /\ looping' = FALSE /\ alive' = FALSE
    <3>1. in' \in Buffers(StreamBytes) /\ InBounds(in')
      <4>1. Garbage \in StreamBytes
        BY DEF StreamBytes
      <4> QED
        BY <1>3, <2>3, <4>1, EndInputKeeps
    <3> QED
      BY <1>2, <2>3, <3>1 DEF ParserOK
  <2> QED
    BY <1>2, <2>2, <2>3
<1>6. PacketsOK' /\ SentOK'
  BY <1>2, PacketsStay, SentStays
<1>7. PICK c \in Nat : c = Count(h)
  BY <1>1, CountFacts
<1>8. Count(h + 1) = IF Whole(p) THEN c + 1 ELSE c
  BY <1>1, <1>7, CountFacts
<1>9. Count(handled)' = Count(h + 1)
  BY <1>2 DEF Count, Whole
<1> DEFINE all == Bytes(c + 1, 1, LengthIn(packets, h + 1, c + 1))
<1>10. /\ partial' \in Buffers(PartBytes) /\ InBounds(partial')
       /\ Kept(partial') = IF Whole(p) THEN <<>> ELSE all
       /\ Whole(p) => MessageOf(p) \in Seq(PartBytes) /\ MessageOf(p) = all
  BY <1>1, <1>2, <1>7, MessageFacts DEF Number
<1>11. PartialOK'
  <2>1. CASE Whole(p)
    <3>1. h + 1 \in Nat /\ h + 1 <= Len(packets) /\ h + 1 >= 1
      BY <1>1
    <3>2. LengthIn(packets, h + 1, Count(h + 1) + 1) = 0
      BY <2>1, <3>1, NextStarts
    <3>3. Count(h + 1) + 1 \in Nat
      BY <1>8
    <3>4. Bytes(Count(h + 1) + 1, 1, 0) = <<>>
      BY <3>3, FirstBytes
    <3> QED
      BY <1>2, <1>9, <1>10, <2>1, <3>2, <3>4 DEF PartialOK, Bytes
  <2>2. CASE ~Whole(p)
    BY <1>2, <1>8, <1>9, <1>10, <2>2 DEF PartialOK, Bytes
  <2> QED
    BY <2>1, <2>2
<1>12. ReceivedOK'
  <2>1. received \in Seq(Seq(PartBytes)) /\ Len(received) = c
    BY <1>1, <1>7 DEF ReceivedOK, ReceivedWhole
  <2>2. \A m \in 1..c : received[m] = Bytes(m, 1, LengthIn(packets, Len(packets), m))
    BY <2>1 DEF ReceivedOK, ReceivedWhole
  <2>3. CASE ~Whole(p)
    <3>1. received' = received /\ Len(received') = Count(handled)'
      BY <1>2, <1>8, <1>9, <2>1, <2>3 DEF ReceivedAfter
    <3>2. \A m \in DOMAIN received' : received'[m] = Bytes(m, 1, LengthIn(packets, Len(packets), m))'
      <4>1. DOMAIN received' = 1..c /\ packets' = packets
        BY <1>2, <2>1, <3>1
      <4> QED
        BY <2>2, <3>1, <4>1
    <3> QED
      BY <2>1, <3>1, <3>2 DEF ReceivedOK, ReceivedWhole
  <2>5. CASE received' = received /\ alive' = FALSE
    <3>1. Count(handled - 1)' = c
      <4>1. handled' - 1 = h
        BY <1>1, <1>2
      <4> QED
        BY <1>2, <1>7, <4>1 DEF Count, Whole
    <3>2. \A m \in DOMAIN received' : received'[m] = Bytes(m, 1, LengthIn(packets, Len(packets), m))'
      <4>1. DOMAIN received' = 1..c /\ packets' = packets
        BY <1>2, <2>1, <2>5
      <4> QED
        BY <2>2, <2>5, <4>1
    <3> QED
      BY <2>1, <2>5, <3>1, <3>2 DEF ReceivedOK, ReceivedWhole
  <2>4. CASE Whole(p) /\ received' = ReceivedAfter(p)
    <3>1. all \in Seq(PartBytes) /\ received' = Append(received, all)
      BY <1>10, <2>4 DEF ReceivedAfter
    <3> HIDE DEF all
    <3>2. /\ received' \in Seq(Seq(PartBytes)) /\ Len(received') = c + 1
          /\ \A m \in 1..c : received'[m] = received[m]
          /\ received'[c + 1] = all
      BY <2>1, <3>1
    <3>3. LengthIn(packets, Len(packets), c + 1) = LengthIn(packets, h + 1, c + 1)
      <4>1. h + 1 \in Nat /\ h + 1 <= Len(packets)
        BY <1>1
      <4>2. Len(packets) \in Nat
        BY DEF StreamOK
      <4>3. c + 1 \in Nat /\ c + 1 <= Count(h + 1)
        BY <1>8, <2>4
      <4> QED
        BY <4>1, <4>2, <4>3, EndedStays
    <3>4. ASSUME NEW m \in 1..(c + 1)
          PROVE  received'[m] = Bytes(m, 1, LengthIn(packets, Len(packets), m))
      <4>1. CASE m = c + 1
        BY <3>2, <3>3, <4>1 DEF all
      <4>2. CASE m # c + 1
        <5>1. m \in 1..c
          BY <4>2
        <5> QED
          BY <2>2, <3>2, <5>1
      <4> QED
        BY <4>1, <4>2
    <3>5. Len(received') = Count(handled)' /\ DOMAIN received' = 1..(c + 1)
      BY <1>8, <1>9, <2>4, <3>2
    <3>6. \A m \in DOMAIN received' : received'[m] = Bytes(m, 1, LengthIn(packets, Len(packets), m))'
      BY <1>2, <3>4, <3>5 DEF Bytes
    <3> QED
      BY <3>2, <3>5, <3>6 DEF ReceivedOK, ReceivedWhole
  <2> QED
    BY <1>2, <2>3, <2>4, <2>5
<1> QED
  BY <1>4, <1>5, <1>6, <1>11, <1>12

-----------------------------------------------------------------------------
(* The device.                                                               *)

\* The packet that the device sends.
NextPart(key, length) ==
    IF key \in {"bad", "huge"} THEN Packet(key, <<>>)
    ELSE Packet(key, Bytes(Number(Len(packets)), Before(Len(packets)) + 1, Before(Len(packets)) + length))

\* It is one, with the next bytes of a message that does not end before.
LEMMA NextPartFacts ==
    ASSUME StreamOK, NEW key \in Kinds, NEW length \in Lengths
    PROVE  /\ NextPart(key, length) \in PacketSet /\ NextPart(key, length).key = key
           /\ key \in {"bad", "huge"} => NextPart(key, length).body = <<>>
           /\ key \notin {"bad", "huge"} =>
                NextPart(key, length).body =
                    Bytes(Number(Len(packets)), Before(Len(packets)) + 1, Before(Len(packets)) + length)
           /\ NextPart(key, length).body # <<>> => NextPart(key, length).body[1][1] = Number(Len(packets))
           /\ length \in Nat
           /\ NextPart(key, length).body = <<>> \/ Len(NextPart(key, length).body) = length
<1>1. PICK m \in Nat, b \in Nat : m = Number(Len(packets)) /\ b = Before(Len(packets))
  <2>1. packets \in Seq(PacketSet) /\ Len(packets) \in Nat /\ Len(packets) <= Len(packets)
    BY DEF StreamOK
  <2>2. Count(Len(packets)) \in Nat /\ LengthIn(packets, Len(packets), Number(Len(packets))) \in Nat
    BY <2>1, CountFacts, LengthType
  <2> QED
    BY <2>2 DEF Number, Before
<1>2. length \in Nat /\ length >= 1
  BY SizesAssumption
<1> DEFINE e == b + length
           body == Bytes(m, b + 1, e)
<1>3. e \in Nat /\ b <= e
  BY <1>2
<1>4. body # <<>> /\ body[1][1] = m /\ Len(body) = length
  BY <1>2, SomeBytes
<1> HIDE DEF e
<1>5. body \in Seq(Nat \X Nat)
  BY <1>3, BytesFacts
<1>6. body = Bytes(Number(Len(packets)), Before(Len(packets)) + 1, Before(Len(packets)) + length)
  BY <1>1 DEF e
<1> HIDE DEF body
<1>7. CASE key \in {"bad", "huge"}
  <2>1. NextPart(key, length) = [key |-> key, body |-> <<>>]
    BY <1>7 DEF NextPart, Packet
  <2> QED
    BY <1>2, <1>7, <2>1 DEF PacketSet
<1>8. CASE key \notin {"bad", "huge"}
  <2>1. NextPart(key, length) = [key |-> key, body |-> body]
    BY <1>6, <1>8 DEF NextPart, Packet
  <2>2. NextPart(key, length) \in PacketSet
    BY <1>5, <2>1 DEF PacketSet
  <2> QED
    BY <1>1, <1>2, <1>4, <1>6, <1>8, <2>1, <2>2
<1> QED
  BY <1>7, <1>8

\* The device sends a packet.
LEMMA DeviceSendsKeeps ==
    ASSUME IInv, NEW key \in Kinds, NEW length \in Lengths, DeviceSends(key, length)
    PROVE  IInv'
<1> USE DEF IInv
<1>1. /\ packets \in Seq(PacketSet) /\ starts \in Seq(Nat) /\ Len(packets) \in Nat
      /\ Len(starts) = Len(packets) + 1
      /\ handled \in Nat /\ handled <= Len(packets) /\ delivered \in Nat /\ delivered <= BytesSent
  BY DEF StreamOK
<1>2. /\ BytesSent \in Nat /\ BytesSent = starts[Len(packets) + 1]
      /\ \A k \in 1..(Len(packets) + 1) : starts[k] \in Nat /\ starts[k] <= BytesSent
  BY StartsFacts
<1>3. PICK packet \in PacketSet :
        /\ packet = NextPart(key, length) /\ packet.key = key
        /\ packet.body # <<>> => packet.body[1][1] = Number(Len(packets))
        /\ key \in {"bad", "huge"} => packet.body = <<>>
        /\ key \notin {"bad", "huge"} =>
                packet.body = Bytes(Number(Len(packets)), Before(Len(packets)) + 1, Before(Len(packets)) + length)
  BY NextPartFacts
<1>4. PICK size \in Nat : size = Size(packet) /\ size >= 1
  BY SizeFacts
<1>5. /\ packets' = Append(packets, packet)
      /\ starts' = Append(starts, BytesSent + Size(packets'[Len(packets')]))
      /\ key \in {"bad", "huge"} \cup (IF mode = "partials" THEN {"partial", "final"} ELSE {"whole"})
      /\ UNCHANGED <<mode, receiver, delivered, handled, received, sender>>
  BY <1>3 DEF DeviceSends, NextPart, Number, Before
<1>6. /\ packets' \in Seq(PacketSet) /\ Len(packets') = Len(packets) + 1
      /\ \A k \in 1..Len(packets) : packets'[k] = packets[k]
      /\ packets'[Len(packets) + 1] = packet
  BY <1>1, <1>5
<1>7. starts' = Append(starts, BytesSent + size)
  BY <1>4, <1>5, <1>6
<1>8. /\ starts' \in Seq(Nat) /\ Len(starts') = Len(packets) + 2
      /\ \A k \in 1..(Len(packets) + 1) : starts'[k] = starts[k]
      /\ starts'[Len(packets) + 2] = BytesSent + size
  <2> DEFINE end == BytesSent + size
  <2>1. end \in Nat
    BY <1>2
  <2> HIDE DEF end
  <2>2. starts' = Append(starts, end)
    BY <1>7 DEF end
  <2>3. /\ starts' \in Seq(Nat) /\ Len(starts') = Len(starts) + 1
        /\ \A k \in 1..Len(starts) : starts'[k] = starts[k]
        /\ starts'[Len(starts) + 1] = end
    BY <1>1, <2>1, <2>2
  <2>4. Len(starts) + 1 = Len(packets) + 2
    BY <1>1
  <2> QED
    BY <1>1, <2>3, <2>4 DEF end
<1>9. BytesSent' = BytesSent + size
  BY <1>8 DEF BytesSent
<1>10. StreamOK'
  <2>1. starts'[1] = 0
    BY <1>1, <1>8 DEF StreamOK
  <2>2. ASSUME NEW k \in 1..Len(packets') PROVE starts'[k + 1] = starts'[k] + Size(packets'[k])
    <3>1. CASE k = Len(packets) + 1
      <4>1. k + 1 = Len(packets) + 2 /\ k \in 1..(Len(packets) + 1)
        BY <1>1, <3>1
      <4>2. starts'[k] = BytesSent /\ packets'[k] = packet
        BY <1>2, <1>6, <1>8, <3>1, <4>1
      <4>3. starts'[k + 1] = BytesSent + size
        BY <1>8, <4>1
      <4> QED
        BY <1>4, <4>2, <4>3
    <3>2. CASE k # Len(packets) + 1
      <4>1. k \in 1..Len(packets) /\ k \in 1..(Len(packets) + 1) /\ k + 1 \in 1..(Len(packets) + 1)
        BY <1>1, <1>6, <3>2
      <4>2. starts[k + 1] = starts[k] + Size(packets[k])
        BY <4>1 DEF StreamOK
      <4> QED
        BY <1>6, <1>8, <4>1, <4>2
    <3> QED
      BY <3>1, <3>2
  <2>3. ASSUME NEW i \in 1..Len(starts'), NEW j \in 1..Len(starts'), i < j
        PROVE  starts'[i] < starts'[j]
    <3>1. i \in 1..(Len(packets) + 1)
      BY <1>1, <1>8, <2>3
    <3>2. starts'[i] = starts[i] /\ starts[i] \in Nat /\ starts[i] <= BytesSent
      BY <1>2, <1>8, <3>1
    <3>3. CASE j = Len(packets) + 2
      <4>1. starts'[j] = BytesSent + size
        BY <1>8, <3>3
      <4> QED
        BY <1>2, <1>4, <3>2, <4>1
    <3>4. CASE j # Len(packets) + 2
      <4>1. j \in 1..(Len(packets) + 1) /\ i \in 1..Len(starts) /\ j \in 1..Len(starts)
        BY <1>1, <1>8, <3>1, <3>4
      <4>2. starts[i] < starts[j]
        BY <2>3, <4>1 DEF StreamOK
      <4> QED
        BY <1>8, <3>2, <4>1, <4>2
    <3> QED
      BY <3>3, <3>4
  <2>4. delivered' \in Nat /\ delivered' <= BytesSent' /\ handled' \in Nat /\ handled' <= Len(packets')
    BY <1>1, <1>2, <1>4, <1>5, <1>6, <1>9
  <2>5. Len(starts') = Len(packets') + 1
    BY <1>1, <1>6, <1>8
  <2> QED
    BY <1>6, <1>8, <2>1, <2>2, <2>3, <2>4, <2>5 DEF StreamOK, Size
<1>11. ParserOK'
  <2>1. /\ hasLength' = hasLength /\ alive' = alive /\ looping' = looping /\ in' = in
        /\ bodyLength' = bodyLength /\ handled' = handled /\ delivered' = delivered
    BY <1>5 DEF receiver
  <2>2. starts'[handled + 1] = starts[handled + 1]
    BY <1>1, <1>8
  <2>3. Unread' = Unread
    BY <2>1 DEF Unread
  <2>4. Span(starts[handled + 1], delivered)' = Span(starts[handled + 1], delivered)
    BY <2>1, <2>2 DEF Span
  <2>5. (IF hasLength
         THEN /\ handled < Len(packets) /\ packets[handled + 1].key # "huge"
              /\ bodyLength = Size(packets[handled + 1]) - LengthBytes
         ELSE bodyLength = 0)'
    <3>1. CASE hasLength
      <4>1. handled < Len(packets)
        BY <3>1 DEF ParserOK
      <4>2. handled + 1 \in 1..Len(packets)
        BY <1>1, <4>1
      <4>3. packets'[handled + 1] = packets[handled + 1] /\ handled < Len(packets')
        BY <1>1, <1>6, <4>1, <4>2
      <4>4. Size(packets[handled + 1])' = Size(packets[handled + 1])
        BY <2>1, <4>3 DEF Size
      <4> QED
        BY <2>1, <3>1, <4>3, <4>4 DEF ParserOK
    <3>2. CASE ~hasLength
      BY <2>1, <3>2 DEF ParserOK
    <3> QED
      BY <3>1, <3>2
  <2>6. alive' => starts'[handled' + 1] <= delivered' /\ Unread' = Span(starts'[handled' + 1], delivered')
    BY <2>1, <2>2, <2>3 DEF ParserOK
  <2>7. /\ hasLength' \in BOOLEAN /\ alive' \in BOOLEAN /\ looping' \in BOOLEAN
        /\ (looping' => alive') /\ in' \in Buffers(StreamBytes)
        /\ IF looping' THEN Reading(in') ELSE InBounds(in')
    BY <2>1 DEF ParserOK
  <2> QED
    BY <2>5, <2>6, <2>7 DEF ParserOK
<1>12. ASSUME NEW n \in 0..Len(packets)
       PROVE  /\ Count(n)' = Count(n)
              /\ \A m : LengthIn(packets', n, m) = LengthIn(packets, n, m)
  <2>1. \A k \in 1..n : packets'[k] = packets[k]
    <3>1. \A k \in 1..Len(packets) : packets'[k] = packets[k]
      BY <1>6
    <3>2. \A k \in 1..n : k \in 1..Len(packets)
      BY <1>1
    <3> QED
      BY <3>1, <3>2
  <2>2. \A k \in 1..n : Whole(packets[k])' <=> Whole(packets[k])
    BY <2>1 DEF Whole
  <2>3. Count(n)' = Count(n)
    BY <2>2 DEF Count
  <2>4. n \in Nat
    BY <1>1
  <2> QED
    BY <2>1, <2>3, <2>4, SameLength
<1>13. PacketsOK'
  <2>1. ASSUME NEW k \in 1..Len(packets'), NEW n \in 0..Len(packets), n = k - 1
        PROVE  PacketOK(k)'
    <3>1. /\ Count(n)' = Count(n)
          /\ \A m : LengthIn(packets', n, m) = LengthIn(packets, n, m)
      BY <1>12
    <3>2. CASE k = Len(packets) + 1
      <4>1. packets'[k] = packet /\ n = Len(packets)
        BY <1>1, <1>6, <2>1, <3>2
      <4>2. key \notin {"bad", "huge"} =>
                packet.body = Bytes(Count(n) + 1, LengthIn(packets, n, Count(n) + 1) + 1,
                                    LengthIn(packets, n, Count(n) + 1) + length)
        BY <1>3, <4>1 DEF Number, Before
      <4>3. packets'[k].key = key /\ mode' = mode
        BY <1>3, <1>5, <4>1
      <4>4. packets'[k].key \notin {"bad", "huge"} =>
                packets'[k].body = Bytes(Count(n)' + 1, LengthIn(packets', n, Count(n)' + 1) + 1,
                                    LengthIn(packets', n, Count(n)' + 1) + length)
        BY <3>1, <4>1, <4>2, <4>3
      <4>5. Count(k - 1)' = Count(n)' /\ k - 1 = n
        BY <2>1
      <4> QED
        BY <1>3, <1>5, <4>1, <4>3, <4>4, <4>5 DEF PacketOK
    <3>3. CASE k # Len(packets) + 1
      <4>1. k \in 1..Len(packets) /\ packets'[k] = packets[k] /\ mode' = mode
        BY <1>1, <1>5, <1>6, <3>3
      <4>2. PacketOK(k)
        BY <4>1 DEF PacketsOK
      <4>3. Count(k - 1)' = Count(k - 1) /\ \A m : LengthIn(packets', k - 1, m) = LengthIn(packets, k - 1, m)
        BY <2>1, <3>1
      <4> QED
        BY <4>1, <4>2, <4>3 DEF PacketOK
    <3> QED
      BY <3>2, <3>3
  <2>2. \A k \in 1..Len(packets') : k - 1 \in 0..Len(packets)
    BY <1>1, <1>6
  <2> QED
    BY <1>5, <2>1, <2>2 DEF PacketsOK
<1>14. PICK h \in 0..Len(packets) : h = handled
  BY <1>1
<1>15. handled' = h /\ Count(handled)' = Count(h) /\ partial' = partial /\ received' = received
  <2>1. handled' = h /\ partial' = partial /\ received' = received
    BY <1>5, <1>14 DEF receiver
  <2>2. Count(handled)' = Count(h)'
    BY <1>14, <2>1 DEF Count
  <2> QED
    BY <1>12, <2>1, <2>2
<1>16. PartialOK'
  <2>1. LengthIn(packets', h, Count(h) + 1) = LengthIn(packets, h, Count(h) + 1)
    BY <1>12
  <2> QED
    BY <1>14, <1>15, <2>1 DEF PartialOK
<1>17. ReceivedOK'
  <2>1. /\ received \in Seq(Seq(PartBytes)) /\ Len(received) = Count(h) /\ Count(h) \in Nat
        /\ \A m \in 1..Count(h) : received[m] = Bytes(m, 1, LengthIn(packets, Len(packets), m))
    <3>1. received \in Seq(Seq(PartBytes)) /\ Len(received) = Count(h) /\ Len(received) \in Nat
      BY <1>5, <1>14 DEF ReceivedOK, ReceivedWhole, DeviceSends
    <3>2. DOMAIN received = 1..Count(h)
      BY <3>1
    <3> QED
      BY <3>1, <3>2 DEF ReceivedOK, ReceivedWhole
  <2>2. ASSUME NEW m \in 1..Count(h)
        PROVE  LengthIn(packets', Len(packets'), m) = LengthIn(packets, Len(packets), m)
    <3>1. Count(h) <= Count(Len(packets)) /\ Count(Len(packets)) \in Nat
      BY <1>1, CountFacts
    <3>2. m # Number(Len(packets))
      BY <2>1, <3>1 DEF Number
    <3>3. LengthIn(packets', Len(packets) + 1, m) = LengthIn(packets', Len(packets), m)
      BY <1>1, <1>3, <1>6, <3>2, LengthGrows
    <3>4. Len(packets) \in 0..Len(packets)
      BY <1>1
    <3> QED
      BY <1>6, <1>12, <3>3, <3>4
  <2>3. DOMAIN received' = 1..Count(h) /\ Len(received') = Count(handled)'
    BY <1>15, <2>1
  <2>4. \A m \in DOMAIN received' : received'[m] = Bytes(m, 1, LengthIn(packets', Len(packets'), m))
    BY <1>15, <2>1, <2>2, <2>3
  <2> QED
    BY <1>15, <2>1, <2>3, <2>4 DEF ReceivedOK, ReceivedWhole
<1>18. SentOK'
  BY <1>5, SentStays
<1> QED
  BY <1>10, <1>11, <1>13, <1>16, <1>17, <1>18

-----------------------------------------------------------------------------
(* Sending.                                                                  *)

\* How many parts a message has, and the last byte of its i-th packet.
NumParts(length) == (length + MaxRpc - 1) \div MaxRpc
Ends(i, length) ==
    IF mode = "partials" THEN IF i < NumParts(length) THEN i * MaxRpc ELSE length
    ELSE IF i = 0 THEN 0 ELSE length

\* Products of numbers.
LEMMA Products ==
    ASSUME NEW a \in Nat, NEW b \in Nat, a <= b, NEW r \in Nat
    PROVE  a * r \in Nat /\ b * r \in Nat /\ a * r <= b * r /\ (a + 1) * r = a * r + r
<1>1. PICK d \in Nat : b = a + d
  <2>1. b - a \in Nat /\ b = a + (b - a)
    OBVIOUS
  <2> QED
    BY <2>1
<1>2. a * r \in Nat /\ d * r \in Nat /\ b * r \in Nat
  OBVIOUS
<1>3. (a + d) * r = a * r + d * r /\ (a + 1) * r = a * r + r
  OBVIOUS
<1> QED
  BY <1>1, <1>2, <1>3

\* All parts but the last are full.
LEMMA NumPartsFacts ==
    ASSUME NEW length \in Nat, length >= 1
    PROVE  /\ NumParts(length) \in Nat /\ NumParts(length) >= 1
           /\ (NumParts(length) - 1) * MaxRpc < length
           /\ length <= NumParts(length) * MaxRpc
<1>1. MaxRpc \in Nat /\ MaxRpc >= 1
  BY SizesAssumption
<1>2. PICK r \in Nat : r = MaxRpc
  BY <1>1
<1>3. PICK n \in Nat : n = length + r - 1
  BY <1>1, <1>2
<1>4. PICK c : c = n \div r
  OBVIOUS
<1>5. c \in Nat /\ c * r <= n /\ n < (c + 1) * r
  BY <1>1, <1>2, <1>4
<1>6. NumParts(length) = c
  BY <1>2, <1>3, <1>4 DEF NumParts
<1>7. (c + 1) * r = c * r + r /\ c * r \in Int /\ (c - 1) * r = c * r - r
  BY <1>5
<1>8. length <= c * r /\ c * r - r < length
  BY <1>1, <1>2, <1>3, <1>5, <1>7
<1>9. c # 0
  <2>1. c = 0 => c * r = 0
    OBVIOUS
  <2> QED
    BY <1>8, <2>1
<1> QED
  BY <1>2, <1>5, <1>6, <1>7, <1>8, <1>9

\* The parts of a message: each goes on where the one before ends.
LEMMA PartsFacts ==
    ASSUME NEW m \in Nat, NEW length \in Nat, length >= 1, mode = "partials",
           NEW j \in Nat, NEW i \in Nat, i = j + 1, i <= NumParts(length)
    PROVE  /\ Ends(j, length) \in Nat /\ Ends(i, length) \in Nat
           /\ Ends(j, length) < Ends(i, length)
           /\ Ends(i, length) <= Ends(j, length) + MaxRpc
           /\ Ends(i, length) = length <=> i = NumParts(length)
           /\ Parts(m, length)[i] =
                Packet(IF i < NumParts(length) THEN "partial" ELSE "final",
                       Bytes(m, Ends(j, length) + 1, Ends(i, length)))
<1>1. PICK r \in Nat : r = MaxRpc /\ r >= 1
  BY SizesAssumption
<1>2. PICK c \in Nat :
        c = NumParts(length) /\ c >= 1 /\ (c - 1) * r < length /\ length <= c * r
  BY <1>1, NumPartsFacts
<1>3. i <= c /\ j < c /\ i >= 1
  BY <1>2
<1>4. PICK from \in Nat : from = j * r
  BY Products
<1>5. i * r = from + r
  BY <1>4, Products
<1>6. Ends(j, length) = from
  BY <1>1, <1>2, <1>3, <1>4 DEF Ends
<1>7. Ends(i, length) = IF i < c THEN from + r ELSE length
  BY <1>1, <1>2, <1>5 DEF Ends
<1>8. i < c => from + r < length
  <2>1. SUFFICES ASSUME i < c PROVE i * r < length
    BY <1>5
  <2>2. PICK b \in Nat : b = c - 1 /\ i <= b
    BY <1>3, <2>1
  <2>3. i * r <= b * r /\ i * r \in Nat /\ b * r \in Nat
    BY <2>2, Products
  <2>4. b * r < length
    BY <1>2, <2>2
  <2> QED
    BY <2>3, <2>4
<1>9. i = c => from < length /\ length <= from + r
  <2>1. SUFFICES ASSUME i = c PROVE j * r < length /\ length <= i * r
    BY <1>4, <1>5
  <2>2. j = c - 1
    BY <2>1
  <2> QED
    BY <1>2, <2>1, <2>2
<1>10. \/ i < c /\ from + r < length
       \/ i = c /\ from < length /\ length <= from + r
  BY <1>3, <1>8, <1>9
<1>11. i \in 1..c /\ i - 1 = j
  BY <1>3
<1>12. Parts(m, length)[i] =
         IF IsPartial(length - from) THEN Packet("partial", Bytes(m, from + 1, from + r))
         ELSE Packet("final", Bytes(m, from + 1, length))
  <2>1. Parts(m, length) =
          [k \in 1..c |->
            LET f == (k - 1) * r IN
            IF IsPartial(length - f) THEN Packet("partial", Bytes(m, f + 1, f + r))
            ELSE Packet("final", Bytes(m, f + 1, length))]
    BY <1>1, <1>2 DEF Parts, NumParts
  <2> QED
    BY <1>4, <1>11, <2>1
<1>13. IsPartial(length - from) <=> i < c
  BY <1>1, <1>10 DEF IsPartial
<1>14. CASE i < c
  <2>1. Ends(i, length) = from + r /\ from + r < length
    BY <1>7, <1>8, <1>14
  <2>2. Parts(m, length)[i] = Packet("partial", Bytes(m, from + 1, from + r))
    BY <1>12, <1>13, <1>14
  <2>3. from < from + r /\ from + r <= from + r /\ from + r # length /\ from + r \in Nat
    BY <1>1, <2>1
  <2> QED
    BY <1>1, <1>2, <1>6, <1>14, <2>1, <2>2, <2>3
<1>15. CASE i = c
  <2>1. Ends(i, length) = length
    BY <1>7, <1>15
  <2>2. Parts(m, length)[i] = Packet("final", Bytes(m, from + 1, length))
    BY <1>12, <1>13, <1>15
  <2> QED
    BY <1>1, <1>2, <1>6, <1>9, <1>15, <2>1, <2>2
<1> QED
  BY <1>10, <1>14, <1>15

\* Bytes from one to a later one.
LEMMA SomePart ==
    ASSUME NEW m \in Nat, NEW a \in Nat, NEW e \in Nat, a < e
    PROVE  \E s \in Seq(Nat \X Nat) :
             /\ s = Bytes(m, a + 1, e)
             /\ s # <<>> /\ s[1][1] = m /\ s[Len(s)][2] = e
<1>1. PICK s \in Seq(Nat \X Nat) :
        /\ s = Bytes(m, a + 1, e) /\ Len(s) = e - a
        /\ \A i \in 1..(e - a) : s[i] = <<m, a + i>>
  <2>1. a <= e
    OBVIOUS
  <2> QED
    BY <2>1, BytesFacts
<1>2. PICK n \in Nat : n = e - a /\ n >= 1 /\ a + n = e
  OBVIOUS
<1>3. 1 \in 1..n /\ n \in 1..n
  BY <1>2
<1>4. s[1] = <<m, a + 1>> /\ s[n] = <<m, e>> /\ Len(s) = n
  BY <1>1, <1>2, <1>3
<1>5. s # <<>>
  BY <1>2, <1>4
<1> QED
  BY <1>1, <1>4, <1>5

\* all are packets of length bytes of message m, each byte once and in order, and the
\* answer after some of them tells if they have all the bytes.
AllOK(all, m, length) ==
    /\ all \in Seq(PacketSet) /\ Len(all) \in Nat
    /\ Ends(0, length) = 0
    /\ \A n \in 0..Len(all) : Ends(n, length) \in Nat
                              /\ (Answer(all, n) <=> Ends(n, length) = length)
    /\ \A i \in 1..Len(all) :
         /\ all[i].body = Bytes(m, Ends(i - 1, length) + 1, Ends(i, length))
         /\ Ends(i - 1, length) <= Ends(i, length)
         /\ mode = "partials" => Ends(i, length) - Ends(i - 1, length) <= MaxRpc
         /\ all[i].body # <<>> =>
              /\ all[i].body[1][1] = m
              /\ all[i].body[Len(all[i].body)][2] = Ends(i, length)
              /\ Whole(all[i]) <=> Ends(i, length) = length
         /\ all[i].body = <<>> => /\ i >= 2 /\ all[i - 1].body # <<>>
                                  /\ Ends(i, length) = Ends(i - 1, length)

\* The packets of wi_send_plist are such packets.
LEMMA AllFacts ==
    ASSUME NEW m \in Nat, NEW length \in Nat, length >= 1, mode \in Modes
    PROVE  AllOK(PacketsOf(m, length), m, length)
<1> DEFINE all == PacketsOf(m, length)
           E(i) == Ends(i, length)
<1>1. CASE mode = "partials"
  <2>1. PICK c \in Nat : c = NumParts(length) /\ c >= 1
    BY NumPartsFacts
  <2>2. all = Parts(m, length) /\ DOMAIN all = 1..c
    BY <1>1, <2>1 DEF PacketsOf, Parts, NumParts
  <2>3. ASSUME NEW i \in 1..c
        PROVE  \E j \in Nat : /\ i = j + 1 /\ j = i - 1
                              /\ E(j) \in Nat /\ E(i) \in Nat /\ E(j) < E(i) /\ E(i) <= E(j) + MaxRpc
                              /\ E(i) = length <=> i = c
                              /\ all[i] = Packet(IF i < c THEN "partial" ELSE "final", Bytes(m, E(j) + 1, E(i)))
    <3>1. PICK j \in Nat : i = j + 1
      <4>1. i - 1 \in Nat /\ i = (i - 1) + 1
        OBVIOUS
      <4> QED
        BY <4>1
    <3>2. i \in Nat /\ i <= NumParts(length)
      BY <2>1
    <3>3. /\ Ends(j, length) \in Nat /\ Ends(i, length) \in Nat
          /\ Ends(j, length) < Ends(i, length)
          /\ Ends(i, length) <= Ends(j, length) + MaxRpc
          /\ Ends(i, length) = length <=> i = NumParts(length)
          /\ Parts(m, length)[i] =
                Packet(IF i < NumParts(length) THEN "partial" ELSE "final",
                       Bytes(m, Ends(j, length) + 1, Ends(i, length)))
      BY <1>1, <3>1, <3>2, PartsFacts
    <3>4. j = i - 1
      BY <3>1
    <3> QED
      BY <2>1, <2>2, <3>1, <3>3, <3>4
  <2> HIDE DEF all, E
  <2>4. ASSUME NEW i \in 1..c, NEW j \in Nat, j = i - 1,
               E(j) \in Nat, E(i) \in Nat, E(j) < E(i), E(i) <= E(j) + MaxRpc,
               all[i] = Packet(IF i < c THEN "partial" ELSE "final", Bytes(m, E(j) + 1, E(i)))
        PROVE  /\ all[i] \in PacketSet /\ all[i].body = Bytes(m, E(j) + 1, E(i))
               /\ all[i].body # <<>> /\ all[i].body[1][1] = m
               /\ all[i].body[Len(all[i].body)][2] = E(i)
               /\ Whole(all[i]) <=> i = c
    <3>1. PICK a \in Nat, e \in Nat : a = E(j) /\ e = E(i)
      BY <2>4
    <3>2. a < e
      BY <2>4, <3>1
    <3>3. PICK s \in Seq(Nat \X Nat) :
            /\ s = Bytes(m, a + 1, e)
            /\ s # <<>> /\ s[1][1] = m /\ s[Len(s)][2] = e
      BY <3>2, SomePart
    <3>5. all[i] = Packet(IF i < c THEN "partial" ELSE "final", s)
      BY <2>4, <3>1, <3>3
    <3>6. all[i].body = s /\ all[i].key = (IF i < c THEN "partial" ELSE "final") /\ all[i] \in PacketSet
      BY <3>5 DEF Packet, PacketSet, Kinds
    <3>7. Whole(all[i]) <=> i = c
      BY <3>6 DEF Whole
    <3> QED
      BY <3>1, <3>3, <3>6, <3>7
  <2>5. \A i \in 1..c : all[i] \in PacketSet
    BY <2>3, <2>4
  <2>6. all \in Seq(PacketSet) /\ Len(all) = c
    <3>1. \E f : all = [k \in 1..c |-> f[k]]
      <4>1. all = [k \in 1..c |-> all[k]]
        BY <2>2 DEF Parts, NumParts
      <4> QED
        BY <4>1
    <3>2. all \in [1..c -> PacketSet]
      BY <2>5, <3>1
    <3> QED
      BY <3>2, FunctionIsList
  <2>7. E(0) = 0
    BY <1>1, <2>1, SizesAssumption DEF E, Ends
  <2>8. ASSUME NEW n \in 0..c PROVE E(n) \in Nat /\ (Answer(all, n) <=> E(n) = length)
    <3>1. Answer(all, n) <=> n = c
      BY <1>1, <2>6 DEF Answer
    <3>2. CASE n = 0
      BY <2>1, <2>7, <3>1, <3>2
    <3>3. CASE n # 0
      <4>1. n \in 1..c
        BY <3>3
      <4> QED
        BY <2>3, <3>1, <4>1
    <3> QED
      BY <3>2, <3>3
  <2>9. ASSUME NEW i \in 1..c
        PROVE  /\ all[i].body = Bytes(m, E(i - 1) + 1, E(i)) /\ E(i - 1) <= E(i) /\ E(i) - E(i - 1) <= MaxRpc
               /\ all[i].body # <<>> /\ all[i].body[1][1] = m
               /\ all[i].body[Len(all[i].body)][2] = E(i)
               /\ Whole(all[i]) <=> E(i) = length
    <3>1. PICK j \in Nat :
            /\ j = i - 1 /\ E(j) \in Nat /\ E(i) \in Nat /\ E(j) < E(i) /\ E(i) <= E(j) + MaxRpc
            /\ E(i) = length <=> i = c
            /\ all[i] = Packet(IF i < c THEN "partial" ELSE "final", Bytes(m, E(j) + 1, E(i)))
      BY <2>3
    <3>2. /\ all[i] \in PacketSet /\ all[i].body = Bytes(m, E(j) + 1, E(i))
          /\ all[i].body # <<>> /\ all[i].body[1][1] = m
          /\ all[i].body[Len(all[i].body)][2] = E(i)
          /\ Whole(all[i]) <=> i = c
      BY <2>4, <3>1
    <3>3. E(j) <= E(i) /\ E(i) - E(j) <= MaxRpc
      BY <3>1, SizesAssumption
    <3> QED
      BY <3>1, <3>2, <3>3
  <2> QED
    BY <1>1, <2>6, <2>7, <2>8, <2>9 DEF all, E, AllOK
<1>2. CASE mode # "partials"
  <2>1. PICK s \in Seq(Nat \X Nat) : s = Bytes(m, 1, length) /\ Len(s) = length
    BY FirstBytes
  <2>2. s # <<>> /\ s[1][1] = m /\ s[length][2] = length
    <3>1. 1 \in 1..length /\ length \in 1..length
      OBVIOUS
    <3>2. s[1] = <<m, 1>> /\ s[length] = <<m, length>>
      BY <2>1, <3>1, FirstBytes
    <3> QED
      BY <2>1, <3>2
  <2>3. Bytes(m, length + 1, length) = <<>>
    <3>1. Bytes(m, length + 1, length) \in Seq(Nat \X Nat) /\ Len(Bytes(m, length + 1, length)) = length - length
      BY BytesFacts
    <3> QED
      BY <3>1
  <2> DEFINE first == Packet("whole", s)
             last == Packet("whole", <<>>)
  <2>4. /\ first \in PacketSet /\ first.body = s /\ Whole(first)
        /\ last \in PacketSet /\ last.body = <<>>
    BY <2>1 DEF Packet, PacketSet, Kinds, Whole
  <2>5. all = <<first>> \/ all = <<first, last>>
    BY <1>2, <2>1 DEF PacketsOf
  <2>6. /\ E(0) = 0 /\ E(1) = length /\ E(2) = length
        /\ \A n \in Nat : Answer(all, n) <=> n > 0
    BY <1>2 DEF Ends, Answer
  <2>7. Bytes(m, E(0) + 1, E(1)) = s /\ Bytes(m, E(1) + 1, E(2)) = <<>>
    BY <2>1, <2>3, <2>6
  <2> HIDE DEF all, first, last, E
  <2>8. /\ all \in Seq(PacketSet) /\ all[1] = first
        /\ Len(all) = 1 \/ (Len(all) = 2 /\ all[2] = last)
    <3>1. CASE all = <<first>>
      BY <2>4, <3>1
    <3>2. CASE all = <<first, last>>
      BY <2>4, <3>2
    <3> QED
      BY <2>5, <3>1, <3>2
  <2>11. Len(all) = 1 \/ Len(all) = 2
    BY <2>8
  <2>9. ASSUME NEW n \in 0..Len(all) PROVE E(n) \in Nat /\ (Answer(all, n) <=> E(n) = length)
    <3>1. n = 0 \/ n = 1 \/ n = 2
      <4>1. Len(all) = 1 => n = 0 \/ n = 1
        OBVIOUS
      <4>2. Len(all) = 2 => n = 0 \/ n = 1 \/ n = 2
        OBVIOUS
      <4> QED
        BY <2>11, <4>1, <4>2
    <3> QED
      BY <2>6, <3>1
  <2>10. ASSUME NEW i \in 1..Len(all)
         PROVE  /\ all[i].body = Bytes(m, E(i - 1) + 1, E(i)) /\ E(i - 1) <= E(i)
                /\ all[i].body # <<>> =>
                     /\ all[i].body[1][1] = m
                     /\ all[i].body[Len(all[i].body)][2] = E(i)
                     /\ Whole(all[i]) <=> E(i) = length
                /\ all[i].body = <<>> => i >= 2 /\ all[i - 1].body # <<>> /\ E(i) = E(i - 1)
    <3>1. i = 1 \/ (i = 2 /\ Len(all) = 2)
      <4>1. Len(all) = 1 => i = 1
        OBVIOUS
      <4>2. Len(all) = 2 => i = 1 \/ i = 2
        OBVIOUS
      <4> QED
        BY <2>11, <4>1, <4>2
    <3>2. CASE i = 1
      <4>1. i - 1 = 0 /\ all[i] = first
        BY <2>8, <3>2
      <4> QED
        BY <2>1, <2>2, <2>4, <2>6, <2>7, <3>2, <4>1
    <3>3. CASE i = 2 /\ Len(all) = 2
      <4>1. i - 1 = 1 /\ all[i] = last /\ all[i - 1] = first
        BY <2>8, <3>3
      <4> QED
        BY <2>1, <2>2, <2>4, <2>6, <2>7, <3>3, <4>1
    <3> QED
      BY <3>1, <3>2, <3>3
  <2> QED
    BY <1>2, <2>6, <2>8, <2>9, <2>10 DEF all, E, AllOK
<1> QED
  BY <1>1, <1>2

\* Lists with the same first packets have the same in them and before each.
LEMMA SameLengths ==
    ASSUME NEW list, NEW other, NEW o \in Nat, \A k \in 1..o : other[k] = list[k]
    PROVE  \A p \in 0..o : \A m : /\ LengthIn(other, p, m) = LengthIn(list, p, m)
                                /\ PartsIn(other, p, m) = PartsIn(list, p, m)
<1> TAKE p \in 0..o
<1>1. p \in Nat /\ \A k \in 1..p : other[k] = list[k]
  OBVIOUS
<1> QED
  BY <1>1, SameLength

\* list is o packets without bytes of m, and then the first n of all.
Added(list, o, all, n, m) ==
    /\ \A k \in 1..o : list[k].body # <<>> => list[k].body[1][1] # m
    /\ \A j \in 1..n : list[o + j] = all[j]

\* The bytes of the new message m in the packets to the device, after i of its n
\* packets are in the list.
LEMMA NewLength ==
    ASSUME NEW m \in Nat, NEW length \in Nat, length >= 1, mode \in Modes,
           NEW all, AllOK(all, m, length), NEW n \in 0..Len(all),
           NEW list, NEW o \in Nat, Added(list, o, all, n, m),
           NEW p \in Nat, NEW i \in 0..n, o + i <= p, p <= o + i
    PROVE  LengthIn(list, p, m) = Ends(i, length)
<1>0. o + i = p
  OBVIOUS
<1>1. /\ Len(all) \in Nat /\ Ends(0, length) = 0
      /\ \A j \in 1..Len(all) :
            /\ all[j].body # <<>> =>
                 /\ all[j].body[1][1] = m
                 /\ all[j].body[Len(all[j].body)][2] = Ends(j, length)
            /\ all[j].body = <<>> => j >= 2 /\ all[j - 1].body # <<>> /\ Ends(j, length) = Ends(j - 1, length)
  BY DEF AllOK
<1>2. ASSUME NEW j \in 1..n, all[j].body # <<>>
      PROVE  LengthIn(list, o + j, m) = Ends(j, length)
  <2>1. j \in 1..Len(all) /\ list[o + j] = all[j]
    BY <1>1 DEF Added
  <2>2. PICK q \in Nat : q + 1 = o + j
    <3>1. o + j - 1 \in Nat /\ (o + j - 1) + 1 = o + j
      OBVIOUS
    <3> QED
      BY <3>1
  <2>3. list[q + 1].body # <<>> /\ list[q + 1].body[1][1] = m
    BY <1>1, <1>2, <2>1, <2>2
  <2>4. LengthIn(list, q + 1, m) = list[q + 1].body[Len(list[q + 1].body)][2]
    BY <2>3, LengthGrows
  <2> QED
    BY <1>1, <1>2, <2>1, <2>2, <2>4
<1>3. CASE i = 0
  <2>1. PartsIn(list, o, m) = {}
    BY DEF PartsIn, Added
  <2>2. p = o
    BY <1>0, <1>3
  <2> QED
    BY <1>1, <1>3, <2>1, <2>2 DEF LengthIn
<1>4. CASE i # 0 /\ all[i].body # <<>>
  <2>1. i \in 1..n
    BY <1>4
  <2> QED
    BY <1>0, <1>2, <1>4, <2>1
<1>5. CASE i # 0 /\ all[i].body = <<>>
  <2>1. i \in 1..Len(all) /\ i \in 1..n
    BY <1>1, <1>5
  <2>2. i >= 2 /\ all[i - 1].body # <<>> /\ Ends(i, length) = Ends(i - 1, length)
    BY <1>1, <1>5, <2>1
  <2>3. PICK j \in 1..n : j = i - 1 /\ i = j + 1
    <3>1. i - 1 \in 1..n /\ i = (i - 1) + 1
      BY <2>1, <2>2
    <3> QED
      BY <3>1
  <2>4. LengthIn(list, o + j, m) = Ends(j, length)
    BY <1>2, <2>2, <2>3
  <2>5. PICK q \in Nat : q = o + j /\ q + 1 = p
    BY <1>0, <2>3
  <2>6. list[q + 1].body = <<>>
    BY <1>0, <1>5, <2>1, <2>5 DEF Added
  <2>7. LengthIn(list, q + 1, m) = LengthIn(list, q, m)
    BY <2>6, LengthGrows
  <2> QED
    BY <1>0, <2>2, <2>3, <2>4, <2>5, <2>7
<1> QED
  BY <1>3, <1>4, <1>5

\* A message is sent, or a part of it.
LEMMA SendPlistKeeps ==
    ASSUME IInv, NEW length \in Lengths, SendPlist(length)
    PROVE  IInv'
<1> USE DEF IInv
<1> DEFINE m == Len(asked) + 1
           o == Len(out)
<1>1. /\ length \in Nat /\ length >= 1 /\ mode \in Modes
  BY SizesAssumption DEF PacketsOK
<1>2. /\ asked \in Seq([length : Lengths, ok : BOOLEAN]) /\ Len(asked) \in Nat /\ Len(asked) <= MaxMessages
      /\ out \in Seq(PacketSet) /\ o \in Nat /\ m \in Nat
      /\ \A k \in 1..o : out[k].body # <<>> => out[k].body[1][1] \in 1..Len(asked)
      /\ SentWhole
  BY DEF SentOK
<1>3. UNCHANGED <<mode, receiver, device>>
  BY DEF SendPlist
<1>4. StreamOK' /\ ParserOK'
  <2>1. StreamOK'
    BY <1>3 DEF StreamOK, BytesSent, Size, device
  <2>2. Unread' = Unread /\ Span(starts[handled + 1], delivered)' = Span(starts[handled + 1], delivered)
    BY <1>3 DEF Unread, Span, device, receiver
  <2> QED
    BY <1>3, <2>1, <2>2 DEF ParserOK, Size, device, receiver
<1>5. PacketsOK' /\ PartialOK' /\ ReceivedOK'
  BY <1>3, DeviceStays DEF device, receiver
<1> HIDE DEF m
<1>6. PICK all : all = PacketsOf(m, length)
  OBVIOUS
<1>7. PICK n \in 0..Len(all) :
        /\ out' = out \o SubSeq(all, 1, n)
        /\ asked' = Append(asked, [length |-> length, ok |-> Answer(all, n)])
        /\ broken' = (n < Len(all))
  BY <1>6 DEF SendPlist, m
<1>8. Len(asked) < MaxMessages
  <2>1. Len(asked) + Len(packets) < MaxMessages /\ Len(packets) \in Nat
    BY DEF SendPlist, StreamOK
  <2> QED
    BY <1>2, <2>1, SizesAssumption
<1>0. AllOK(all, m, length)
  BY <1>1, <1>2, <1>6, AllFacts
<1>9. /\ all \in Seq(PacketSet) /\ Len(all) \in Nat /\ Ends(0, length) = 0
      /\ \A i \in 0..Len(all) : Ends(i, length) \in Nat
                                /\ (Answer(all, i) <=> Ends(i, length) = length)
      /\ \A i \in 1..Len(all) :
            /\ all[i].body = Bytes(m, Ends(i - 1, length) + 1, Ends(i, length))
            /\ mode = "partials" => Ends(i, length) - Ends(i - 1, length) <= MaxRpc
            /\ all[i].body # <<>> =>
                 /\ all[i].body[1][1] = m
                 /\ Whole(all[i]) <=> Ends(i, length) = length
  BY <1>0 DEF AllOK
<1>10. \E new \in Seq(PacketSet) :
         new = SubSeq(all, 1, n) /\ Len(new) = n /\ \A i \in 1..n : new[i] = all[i]
  <2>1. PICK z \in Nat : z = 0
    OBVIOUS
  <2>2. z <= n /\ n \in Nat /\ n <= Len(all) /\ z + 1 = 1 /\ n - z = n /\ \A i \in 1..n : z + i = i
    BY <1>9, <2>1
  <2>3. /\ SubSeq(all, z + 1, n) \in Seq(PacketSet) /\ Len(SubSeq(all, z + 1, n)) = n - z
        /\ \A i \in 1..(n - z) : SubSeq(all, z + 1, n)[i] = all[z + i]
    BY <1>9, <2>2, SubSeqFacts
  <2> QED
    BY <2>2, <2>3
<1>11. /\ out' \in Seq(PacketSet) /\ Len(out') = o + n
       /\ \A k \in 1..o : out'[k] = out[k]
       /\ \A i \in 1..n : out'[o + i] = all[i]
  <2>0. PICK new \in Seq(PacketSet) :
          new = SubSeq(all, 1, n) /\ Len(new) = n /\ \A i \in 1..n : new[i] = all[i]
    BY <1>10
  <2>1. PICK v : v = out \o new
    OBVIOUS
  <2>2. /\ v \in Seq(PacketSet) /\ Len(v) = Len(out) + Len(new)
        /\ \A i \in 1..Len(out) : v[i] = out[i]
        /\ \A i \in 1..Len(new) : v[Len(out) + i] = new[i]
    BY <1>2, <2>1, ConcatFacts
  <2> QED
    BY <1>7, <2>0, <2>1, <2>2
<1>12. Answer(all, n) \in BOOLEAN
  <2>1. (n = Len(all)) \in BOOLEAN /\ (n > 0) \in BOOLEAN
    OBVIOUS
  <2>2. CASE mode = "partials"
    BY <2>1, <2>2 DEF Answer
  <2>3. CASE mode # "partials"
    BY <2>1, <2>3 DEF Answer
  <2> QED
    BY <2>2, <2>3
<1>13. /\ asked' \in Seq([length : Lengths, ok : BOOLEAN]) /\ Len(asked') = m
       /\ \A k \in 1..Len(asked) : asked'[k] = asked[k]
       /\ asked'[m] = [length |-> length, ok |-> Answer(all, n)]
  <2>1. PICK a \in [length : Lengths, ok : BOOLEAN] : a = [length |-> length, ok |-> Answer(all, n)]
    BY <1>12
  <2>2. asked' = Append(asked, a)
    BY <1>7, <2>1
  <2>3. /\ asked' \in Seq([length : Lengths, ok : BOOLEAN]) /\ Len(asked') = Len(asked) + 1
        /\ \A k \in 1..Len(asked) : asked'[k] = asked[k]
        /\ asked'[Len(asked) + 1] = a
    BY <1>2, <2>2
  <2> QED
    BY <2>1, <2>3 DEF m
<1>14. Len(asked) < m /\ 1..m = 1..Len(asked) \cup {m} /\ m \notin 1..Len(asked)
  BY <1>2 DEF m
<1> HIDE DEF o
<1>15. o \in Nat /\ o = Len(out)
  BY <1>2 DEF o
<1>16. ASSUME NEW k \in 1..(o + n)
       PROVE  \/ k \in 1..o /\ out'[k] = out[k]
              \/ \E i \in 1..n : k = o + i /\ k - 1 = o + (i - 1) /\ out'[k] = all[i] /\ i \in 1..Len(all) /\ i - 1 \in 0..n
  <2>1. CASE k <= o
    <3>1. k \in 1..o
      BY <1>15, <2>1
    <3> QED
      BY <1>11, <3>1
  <2>2. CASE ~(k <= o)
    <3>1. PICK i \in 1..n : i = k - o
      <4>1. k \in Nat /\ o \in Nat /\ n \in Nat /\ k <= o + n /\ k > o
        BY <1>9, <1>15, <2>2
      <4>2. k - o \in 1..n
        BY <4>1
      <4> QED
        BY <4>2
    <3>2. k = o + i /\ k - 1 = o + (i - 1) /\ i \in 1..Len(all) /\ i - 1 \in 0..n
      BY <1>9, <1>15, <3>1
    <3> QED
      BY <1>11, <3>2
  <2> QED
    BY <2>1, <2>2
<1>17. ASSUME NEW k \in 1..(o + n), out'[k].body # <<>>
       PROVE  /\ out'[k].body[1][1] \in 1..m
              /\ k \in 1..o => out'[k] = out[k] /\ out'[k].body[1][1] \in 1..Len(asked)
              /\ k \notin 1..o => out'[k].body[1][1] = m
  <2>1. CASE k \in 1..o /\ out'[k] = out[k]
    BY <1>2, <1>14, <1>15, <1>17, <2>1
  <2>2. CASE \E i \in 1..n : k = o + i /\ out'[k] = all[i] /\ i \in 1..Len(all)
    <3>1. out'[k].body[1][1] = m
      BY <1>9, <1>17, <2>2
    <3>2. k \notin 1..o
      BY <1>15, <2>2
    <3> QED
      BY <1>14, <3>1, <3>2
  <2> QED
    BY <1>16, <2>1, <2>2
<1>18. \A k \in 1..o : out'[k].body # <<>> => out'[k].body[1][1] # m
  <2>1. 1..o \subseteq 1..(o + n)
    BY <1>15
  <2> QED
    BY <1>14, <1>17, <2>1
<1>19. ASSUME NEW i \in 0..n
       PROVE  LengthIn(out', o + i, m) = Ends(i, length)
  <2>1. PICK list : list = out'
    OBVIOUS
  <2>4. Added(list, o, all, n, m)
    BY <1>11, <1>18, <2>1 DEF Added
  <2>2. PICK p \in Nat : o + i = p /\ o + i <= p /\ p <= o + i
    BY <1>15
  <2>3. LengthIn(list, p, m) = Ends(i, length)
    BY <1>0, <1>1, <1>2, <1>15, <2>2, <2>4, NewLength
  <2> QED
    BY <2>1, <2>2, <2>3
<1>20. ASSUME NEW k \in 1..Len(asked), NEW p \in 0..o
       PROVE  LengthIn(out', p, k) = LengthIn(out, p, k) /\ PartsIn(out', p, k) = PartsIn(out, p, k)
  <2>1. \A j \in 1..o : out'[j] = out[j]
    BY <1>11
  <2> QED
    BY <1>15, <2>1, SameLengths
<1>21. ASSUME NEW k \in 1..Len(asked)
       PROVE  /\ LengthIn(out', Len(out'), k) = LengthIn(out, Len(out), k)
              /\ PartsIn(out', Len(out'), k) = PartsIn(out, Len(out), k)
  <2>1. PICK t \in Nat : t = o + n /\ o <= t
    BY <1>15
  <2>2. \A j \in (o + 1)..t : out'[j].body # <<>> => out'[j].body[1][1] # k
    <3>1. \A j \in (o + 1)..t : j \in 1..(o + n) /\ j \notin 1..o
      BY <1>15, <2>1
    <3> QED
      BY <1>14, <1>17, <3>1
  <2>3. LengthIn(out', t, k) = LengthIn(out', o, k) /\ PartsIn(out', t, k) = PartsIn(out', o, k)
    <3>1. PICK list : list = out'
      OBVIOUS
    <3>2. \A j \in (o + 1)..t : list[j].body # <<>> => list[j].body[1][1] # k
      BY <2>2, <3>1
    <3>3. LengthIn(list, t, k) = LengthIn(list, o, k) /\ PartsIn(list, t, k) = PartsIn(list, o, k)
      <4>1. o \in Nat /\ t \in Nat /\ o <= t
        BY <1>15, <2>1
      <4>2. PICK s \in Nat : s = o
        BY <4>1
      <4>3. s <= t /\ \A j \in (s + 1)..t : list[j].body # <<>> => list[j].body[1][1] # k
        BY <3>2, <4>1, <4>2
      <4>4. LengthIn(list, t, k) = LengthIn(list, s, k) /\ PartsIn(list, t, k) = PartsIn(list, s, k)
        BY <4>3, NoneAfter
      <4> QED
        BY <4>2, <4>4
    <3> QED
      BY <3>1, <3>3
  <2>4. o \in 0..o
    BY <1>15
  <2> QED
    BY <1>11, <1>15, <1>20, <2>1, <2>3, <2>4
<1>22. SentWhole'
  <2>1. ASSUME NEW i \in {k \in DOMAIN out' : out'[k].body # <<>>},
               NEW j \in {k \in DOMAIN out' : out'[k].body # <<>>}, i < j
        PROVE  out'[i].body[1][1] <= out'[j].body[1][1]
    <3>1. i \in 1..(o + n) /\ j \in 1..(o + n) /\ out'[i].body # <<>> /\ out'[j].body # <<>>
      BY <1>11
    <3>2. CASE j \in 1..o
      <4>1. i \in 1..o /\ out'[i] = out[i] /\ out'[j] = out[j]
        BY <1>11, <1>15, <2>1, <3>1, <3>2
      <4>2. i \in DOMAIN out /\ j \in DOMAIN out
        BY <1>2, <1>15, <3>2, <4>1
      <4> QED
        BY <1>2, <2>1, <3>1, <4>1, <4>2 DEF SentWhole
    <3>3. CASE j \notin 1..o
      <4>1. out'[j].body[1][1] = m /\ out'[i].body[1][1] \in 1..m
        BY <1>17, <3>1, <3>3
      <4> QED
        BY <1>2, <4>1
    <3> QED
      BY <3>2, <3>3
  <2>2. ASSUME NEW k \in 1..Len(asked)
        PROVE  /\ asked'[k].ok <=> LengthIn(out', Len(out'), k) = asked'[k].length
               /\ \A j \in PartsIn(out', Len(out'), k) :
                    LET before == LengthIn(out', j - 1, k)
                        after == LengthIn(out', j, k) IN
                    /\ out'[j].body = Bytes(k, before + 1, after)
                    /\ mode' = "partials" => after - before <= MaxRpc
                    /\ Whole(out'[j]) <=> after = asked'[k].length
    <3>1. asked'[k] = asked[k] /\ k \in DOMAIN asked
      BY <1>2, <1>13
    <3>2. asked'[k].ok <=> LengthIn(out', Len(out'), k) = asked'[k].length
      BY <1>2, <1>21, <3>1 DEF SentWhole
    <3>3. ASSUME NEW j \in PartsIn(out', Len(out'), k)
          PROVE  LET before == LengthIn(out', j - 1, k)
                     after == LengthIn(out', j, k) IN
                 /\ out'[j].body = Bytes(k, before + 1, after)
                 /\ mode' = "partials" => after - before <= MaxRpc
                 /\ Whole(out'[j]) <=> after = asked'[k].length
      <4>1. j \in PartsIn(out, Len(out), k) /\ j \in 1..o
        BY <1>15, <1>21 DEF PartsIn
      <4>2. j \in 0..o /\ j - 1 \in 0..o /\ out'[j] = out[j]
        BY <1>11, <1>15, <4>1
      <4>3. LengthIn(out', j, k) = LengthIn(out, j, k) /\ LengthIn(out', j - 1, k) = LengthIn(out, j - 1, k)
        BY <1>20, <4>2
      <4>4. LET before == LengthIn(out, j - 1, k)
                after == LengthIn(out, j, k) IN
            /\ out[j].body = Bytes(k, before + 1, after)
            /\ mode = "partials" => after - before <= MaxRpc
            /\ Whole(out[j]) <=> after = asked[k].length
        BY <1>2, <3>1, <4>1 DEF SentWhole
      <4> QED
        BY <1>3, <3>1, <4>2, <4>3, <4>4
    <3> QED
      BY <3>2, <3>3
  <2>3. /\ asked'[m].ok <=> LengthIn(out', Len(out'), m) = asked'[m].length
        /\ \A j \in PartsIn(out', Len(out'), m) :
             LET before == LengthIn(out', j - 1, m)
                 after == LengthIn(out', j, m) IN
             /\ out'[j].body = Bytes(m, before + 1, after)
             /\ mode' = "partials" => after - before <= MaxRpc
             /\ Whole(out'[j]) <=> after = asked'[m].length
    <3>1. asked'[m].ok = Answer(all, n) /\ asked'[m].length = length
      BY <1>13
    <3>2. LengthIn(out', Len(out'), m) = Ends(n, length)
      <4>1. n \in 0..n
        BY <1>9
      <4> QED
        BY <1>11, <1>19, <4>1
    <3>3. asked'[m].ok <=> LengthIn(out', Len(out'), m) = asked'[m].length
      BY <1>9, <3>1, <3>2
    <3>4. ASSUME NEW j \in PartsIn(out', Len(out'), m)
          PROVE  LET before == LengthIn(out', j - 1, m)
                     after == LengthIn(out', j, m) IN
                 /\ out'[j].body = Bytes(m, before + 1, after)
                 /\ mode' = "partials" => after - before <= MaxRpc
                 /\ Whole(out'[j]) <=> after = asked'[m].length
      <4>1. j \in 1..(o + n) /\ out'[j].body # <<>> /\ out'[j].body[1][1] = m
        BY <1>11 DEF PartsIn
      <4>2. j \notin 1..o
        BY <1>18, <4>1
      <4>3. PICK i \in 1..n : j = o + i /\ j - 1 = o + (i - 1) /\ out'[j] = all[i] /\ i \in 1..Len(all) /\ i - 1 \in 0..n
        BY <1>16, <4>1, <4>2
      <4>4. i \in 0..n
        OBVIOUS
      <4>5. LengthIn(out', o + i, m) = Ends(i, length) /\ LengthIn(out', o + (i - 1), m) = Ends(i - 1, length)
        BY <1>19, <4>3, <4>4
      <4>6. LengthIn(out', j, m) = Ends(i, length) /\ LengthIn(out', j - 1, m) = Ends(i - 1, length)
        BY <4>3, <4>5
      <4>7. /\ all[i].body = Bytes(m, Ends(i - 1, length) + 1, Ends(i, length))
            /\ mode = "partials" => Ends(i, length) - Ends(i - 1, length) <= MaxRpc
            /\ Whole(all[i]) <=> Ends(i, length) = length
        BY <1>9, <4>1, <4>3
      <4> QED
        BY <1>3, <3>1, <4>3, <4>6, <4>7
    <3> QED
      BY <3>3, <3>4
  <2>4. DOMAIN asked' = 1..Len(asked) \cup {m}
    BY <1>13, <1>14
  <2>5. ASSUME NEW k \in DOMAIN asked'
        PROVE  /\ asked'[k].ok <=> LengthIn(out', Len(out'), k) = asked'[k].length
               /\ \A j \in PartsIn(out', Len(out'), k) :
                    LET before == LengthIn(out', j - 1, k)
                        after == LengthIn(out', j, k) IN
                    /\ out'[j].body = Bytes(k, before + 1, after)
                    /\ mode' = "partials" => after - before <= MaxRpc
                    /\ Whole(out'[j]) <=> after = asked'[k].length
    <3>1. CASE k \in 1..Len(asked)
      BY <2>2, <3>1
    <3>2. CASE k = m
      BY <2>3, <3>2
    <3> QED
      BY <2>4, <3>1, <3>2
  <2> QED
    BY <2>1, <2>5 DEF SentWhole, Whole
<1>23. SentOK'
  <2>1. Len(asked') <= MaxMessages
    BY <1>2, <1>8, <1>13, SizesAssumption DEF m
  <2>2. broken' \in BOOLEAN
    BY <1>7
  <2>3. \A k \in 1..Len(out') : out'[k].body # <<>> => out'[k].body[1][1] \in 1..Len(asked')
    BY <1>11, <1>13, <1>17
  <2> QED
    BY <1>11, <1>13, <1>22, <2>1, <2>2, <2>3 DEF SentOK
<1> QED
  BY <1>4, <1>5, <1>23

-----------------------------------------------------------------------------
(* What holds in every behaviour.                                            *)

\* The invariant holds in a new connection.
LEMMA InitHolds == Init => IInv
<1> SUFFICES ASSUME Init PROVE IInv
  OBVIOUS
<1>1. /\ mode \in Modes /\ in = NewBuffer /\ partial = NewBuffer
      /\ hasLength = FALSE /\ bodyLength = 0 /\ looping = FALSE /\ alive = TRUE
      /\ packets = <<>> /\ starts = <<0>> /\ delivered = 0 /\ handled = 0 /\ received = <<>>
      /\ asked = <<>> /\ out = <<>> /\ broken = FALSE
  BY DEF Init
<1>2. /\ NewBuffer \in Buffers(StreamBytes) /\ NewBuffer \in Buffers(PartBytes)
      /\ InBounds(NewBuffer) /\ Kept(NewBuffer) = <<>>
  BY NewBufferKeeps
<1>3. Len(packets) = 0 /\ packets \in Seq(PacketSet) /\ Len(starts) = 1 /\ starts \in Seq(Nat) /\ starts[1] = 0
  BY <1>1
<1>4. Count(0) = 0 /\ PartsIn(packets, 0, 1) = {}
  <2>1. Count(0) \in Nat /\ Count(0) <= 0
    BY CountFacts
  <2>2. PartsIn(packets, 0, 1) = {}
    BY DEF PartsIn
  <2> QED
    BY <2>1, <2>2
<1>5. StreamOK
  <2>1. BytesSent = 0
    BY <1>1, <1>3 DEF BytesSent
  <2> QED
    BY <1>1, <1>3, <2>1 DEF StreamOK
<1>6. ParserOK
  <2>1. Unread = <<>>
    BY <1>1, <1>2 DEF Unread
  <2>2. Span(0, 0) = <<>>
    <3>1. 0 \in Nat /\ 0 <= 0
      OBVIOUS
    <3>2. Span(0, 0) \in Seq(Nat) /\ Len(Span(0, 0)) = 0
      BY DEF Span
    <3> QED
      BY <3>2
  <2>3. starts[handled + 1] = 0 /\ delivered = 0
    BY <1>1, <1>3
  <2>4. /\ hasLength = FALSE /\ alive \in BOOLEAN /\ looping = FALSE /\ bodyLength = 0
        /\ in \in Buffers(StreamBytes) /\ InBounds(in)
    BY <1>1, <1>2
  <2>5. starts[handled + 1] <= delivered /\ Unread = Span(starts[handled + 1], delivered)
    BY <2>1, <2>2, <2>3
  <2> QED
    BY <2>4, <2>5 DEF ParserOK
<1>7. PacketsOK
  BY <1>1, <1>3 DEF PacketsOK
<1>8. PartialOK
  <2>1. LengthIn(packets, 0, 1) = 0
    BY <1>4 DEF LengthIn
  <2>2. Bytes(1, 1, 0) = <<>>
    <3>1. Bytes(1, 1, 0) = [i \in 1..0 |-> <<1, 1 + i - 1>>]
      BY DEF Bytes
    <3>2. Bytes(1, 1, 0) \in Seq(Nat \X Nat) /\ Len(Bytes(1, 1, 0)) = 0
      BY FirstBytes
    <3> QED
      BY <3>2
  <2>3. Count(handled) + 1 = 1
    BY <1>1, <1>4
  <2> QED
    BY <1>1, <1>2, <2>1, <2>2, <2>3 DEF PartialOK
<1>9. ReceivedOK
  <2>1. Len(received) = Count(handled) /\ DOMAIN received = {}
    BY <1>1, <1>4
  <2> QED
    BY <1>1, <2>1 DEF ReceivedOK, ReceivedWhole
<1>10. SentOK
  <2>1. DOMAIN out = {} /\ DOMAIN asked = {} /\ Len(out) = 0 /\ Len(asked) = 0
    BY <1>1
  <2>2. SentWhole
    BY <2>1 DEF SentWhole
  <2>3. MaxMessages \in Nat
    BY SizesAssumption
  <2>4. asked \in Seq([length : Lengths, ok : BOOLEAN]) /\ out \in Seq(PacketSet) /\ broken \in BOOLEAN
    <3>1. asked \in Seq([length : Lengths, ok : BOOLEAN])
      BY <1>1
    <3>2. out \in Seq(PacketSet)
      BY <1>1
    <3>3. broken \in BOOLEAN
      BY <1>1
    <3> QED
      BY <3>1, <3>2, <3>3
  <2>5. \A k \in 1..Len(out) : out[k].body # <<>> => out[k].body[1][1] \in 1..Len(asked)
    BY <2>1
  <2> QED
    BY <2>1, <2>2, <2>3, <2>4, <2>5 DEF SentOK
<1> QED
  BY <1>5, <1>6, <1>7, <1>8, <1>9, <1>10 DEF IInv

\* Every step keeps it.
LEMMA Step == IInv /\ [Next]_vars => IInv'
<1> SUFFICES ASSUME IInv, [Next]_vars PROVE IInv'
  OBVIOUS
<1>1. ASSUME NEW length \in Lengths, SendPlist(length) PROVE IInv'
  BY <1>1, SendPlistKeeps
<1>2. ASSUME NEW key \in {"whole", "partial", "final", "bad", "huge"}, NEW length \in Lengths,
             DeviceSends(key, length)
      PROVE  IInv'
  BY <1>2, DeviceSendsKeeps DEF Kinds
<1>3. ASSUME NEW n \in 1..BytesSent, OnRecv(n) PROVE IInv'
  BY <1>3, OnRecvKeeps
<1>4. ASSUME RecvLength PROVE IInv'
  BY <1>4, RecvLengthKeeps
<1>5. ASSUME RecvPacket PROVE IInv'
  BY <1>5, RecvPacketKeeps
<1>6. ASSUME RecvMore PROVE IInv'
  BY <1>6, RecvMoreKeeps
<1>7. ASSUME UNCHANGED vars PROVE IInv'
  <2>1. UNCHANGED <<mode, receiver, device, sender>>
    BY <1>7 DEF vars
  <2>2. StreamOK'
    BY <2>1 DEF IInv, StreamOK, BytesSent, Size, device
  <2>3. Unread' = Unread /\ Span(starts[handled + 1], delivered)' = Span(starts[handled + 1], delivered)
    BY <2>1 DEF Unread, Span, device, receiver
  <2>4. ParserOK'
    BY <2>1, <2>3 DEF IInv, ParserOK, Size, device, receiver
  <2>5. PacketsOK' /\ PartialOK' /\ ReceivedOK'
    BY <2>1, DeviceStays DEF IInv, device, receiver
  <2>6. SentOK'
    BY <2>1, SentStays DEF IInv
  <2> QED
    BY <2>2, <2>4, <2>5, <2>6 DEF IInv
<1> QED
  BY <1>1, <1>2, <1>3, <1>4, <1>5, <1>6, <1>7 DEF Next

\* The inductive invariant of the connection.
THEOREM Invariant == Spec => []IInv
BY InitHolds, Step, PTL DEF Spec

\* The types of the state; in particular no message comes without a packet, and no
\* packet is handled that was not sent.
THEOREM TypeCorrect == Spec => []TypeOK
<1>1. IInv => TypeOK
  <2> SUFFICES ASSUME IInv PROVE TypeOK
    OBVIOUS
  <2> USE DEF IInv
  <2>1. mode \in Modes /\ {hasLength, looping, alive, broken} \subseteq BOOLEAN
    BY DEF PacketsOK, ParserOK, SentOK
  <2>2. InBounds(in)
    BY DEF ParserOK, Reading
  <2>3. InBounds(partial) /\ Len(asked) <= MaxMessages
    BY DEF PartialOK, SentOK
  <2>4. bodyLength \in Nat
    <3>1. CASE hasLength
      <4> DEFINE k == handled + 1
      <4>1. k \in 1..Len(packets) /\ packets \in Seq(PacketSet)
        BY <3>1 DEF ParserOK, StreamOK
      <4>2. bodyLength = Size(packets[k]) - LengthBytes
        BY <3>1 DEF ParserOK
      <4> HIDE DEF k
      <4>3. packets[k] \in PacketSet
        BY <4>1
      <4>4. PICK s \in Nat : s = Size(packets[k]) /\ s >= LengthBytes
        BY <4>3, SizeFacts
      <4> QED
        BY <4>2, <4>4, SizesAssumption
    <3>2. CASE ~hasLength
      BY <3>2 DEF ParserOK
    <3> QED
      BY <3>1, <3>2
  <2>5. delivered \in 0..BytesSent /\ handled \in 0..Len(packets)
    <3>1. BytesSent \in Nat /\ Len(packets) \in Nat
      BY StartsFacts
    <3> QED
      BY <3>1 DEF StreamOK
  <2>6. Len(received) <= handled
    <3>1. /\ handled \in Nat /\ received \in Seq(Seq(PartBytes))
          /\ Len(received) = Count(handled) \/ Len(received) = Count(handled - 1)
      BY DEF StreamOK, ReceivedOK, ReceivedWhole
    <3>2. CASE Len(received) = Count(handled)
      BY <3>1, <3>2, CountFacts
    <3>3. CASE Len(received) = Count(handled - 1) /\ handled > 0
      <4>1. PICK k \in Nat : k = handled - 1 /\ k <= handled
        BY <3>1, <3>3
      <4> QED
        BY <3>1, <3>3, <4>1, CountFacts
    <3>4. CASE Len(received) = Count(handled - 1) /\ handled = 0
      <4>1. Count(handled - 1) = 0
        BY <3>4, FS_EmptySet DEF Count
      <4> QED
        BY <3>1, <3>4, <4>1
    <3> QED
      BY <3>1, <3>2, <3>3, <3>4
  <2> QED
    BY <2>1, <2>2, <2>3, <2>4, <2>5, <2>6 DEF TypeOK
<1> QED
  BY <1>1, Invariant, PTL

\* recv_plist gets the messages of the device, each once, whole and in order, but
\* perhaps for the one at which the connection ended.
THEOREM ReceivedIsWhole == Spec => []ReceivedWhole
<1>1. IInv => ReceivedWhole
  BY DEF IInv, ReceivedOK
<1> QED
  BY <1>1, Invariant, PTL

\* The packets to the device are the messages in their order, in parts of the
\* permitted length, and wi_send_plist answers success just for whole messages.
THEOREM SentIsWhole == Spec => []SentWhole
<1>1. IInv => SentWhole
  BY DEF IInv, SentOK
<1> QED
  BY <1>1, Invariant, PTL

-----------------------------------------------------------------------------
(* The refinement of FramedStream.                                           *)

\* The steps of the abstract specification in the terms of this one.
LEMMA FramedTerms ==
    /\ Framed!BytesSent = BytesSent
    /\ \A m, n : Framed!Span(m, n) = Span(m, n)
    /\ \A k : Framed!SizeOf(k) = starts[k + 1] - starts[k]
    /\ \A n, s : Framed!WholeIn(n, s) <=>
                    n + 1 < Len(starts) /\ Len(s) >= starts[(n + 1) + 1] - starts[n + 1]
BY DEF Framed!BytesSent, BytesSent, Framed!Span, Span, Framed!SizeOf, Framed!WholeIn

\* The next packet of the device has a size of the abstract specification.
LEMMA SizeOfNext ==
    ASSUME StreamOK, NEW key \in Kinds, NEW length \in Lengths
    PROVE  \E size \in {LengthBytes} \cup {LengthBytes + n + e : n \in Lengths, e \in {0, Envelope}} :
             size = Size(NextPart(key, length))
<1>1. PICK p \in PacketSet : p = NextPart(key, length) /\ p.key = key
  BY NextPartFacts
<1>2. p.body = <<>> \/ Len(p.body) = length
  BY <1>1, NextPartFacts
<1>3. key \in {"bad", "huge"} => p.body = <<>>
  BY <1>1, NextPartFacts
<1>4. length \in Nat /\ length >= 1 /\ LengthBytes \in Nat /\ Envelope \in Nat
  BY SizesAssumption
<1>5. Size(p) = LengthBytes + Len(p.body) + (IF p.key \in {"partial", "final"} THEN Envelope ELSE 0)
  BY SizeFacts
<1>6. key \notin {"bad", "huge"} => Len(p.body) = length
  <2>1. ASSUME key \notin {"bad", "huge"}, p.body = <<>> PROVE FALSE
    <3>1. PICK b \in Nat, m \in Nat : b = Before(Len(packets)) /\ m = Number(Len(packets))
      <4>1. packets \in Seq(PacketSet) /\ Len(packets) \in Nat /\ Len(packets) <= Len(packets)
        BY DEF StreamOK
      <4>2. Count(Len(packets)) \in Nat /\ LengthIn(packets, Len(packets), Number(Len(packets))) \in Nat
        BY <4>1, CountFacts, LengthType
      <4> QED
        BY <4>2 DEF Number, Before
    <3>2. p.body = Bytes(m, b + 1, b + length)
      BY <1>1, <2>1, <3>1, NextPartFacts
    <3>3. PICK e \in Nat : e = b + length /\ b <= e /\ e - b = length
      BY <1>4
    <3>4. Len(Bytes(m, b + 1, e)) = e - b
      BY <3>3, BytesFacts
    <3> QED
      BY <1>4, <2>1, <3>2, <3>3, <3>4
  <2> QED
    BY <1>2, <2>1
<1>7. CASE key \in {"bad", "huge"}
  <2>1. Size(p) = LengthBytes
    <3>1. Len(p.body) = 0 /\ ~(p.key \in {"partial", "final"})
      BY <1>1, <1>3, <1>7
    <3> QED
      BY <1>4, <1>5, <3>1
  <2> QED
    BY <1>1, <2>1
<1>8. CASE key \in {"partial", "final"}
  <2>1. Size(p) = LengthBytes + length + Envelope
    BY <1>1, <1>5, <1>6, <1>8
  <2> QED
    BY <1>1, <2>1
<1>9. CASE key = "whole"
  <2>1. Size(p) = LengthBytes + length + 0
    BY <1>1, <1>5, <1>6, <1>9
  <2> QED
    BY <1>1, <2>1
<1> QED
  BY <1>7, <1>8, <1>9 DEF Kinds

\* wi_on_recv implements FramedStream: every step is one of its own or changes
\* nothing of it.
THEOREM FramedSpecHolds == Spec => FramedSpec
<1>1. Init => Framed!Init
  <2> SUFFICES ASSUME Init PROVE Framed!Init
    OBVIOUS
  <2>1. Kept(in) = <<>>
    <3>1. Kept(NewBuffer) = <<>>
      BY DEF Kept, NewBuffer
    <3> QED
      BY <3>1 DEF Init
  <2> QED
    BY <2>1 DEF Init, Framed!Init
<1>2. IInv /\ [Next]_vars => [Framed!Next]_(Framed!vars)
  <2> SUFFICES ASSUME IInv, [Next]_vars PROVE Framed!Next \/ UNCHANGED Framed!vars
    OBVIOUS
  <2> USE DEF IInv
  <2>1. ASSUME NEW key \in {"whole", "partial", "final", "bad", "huge"}, NEW length \in Lengths,
               DeviceSends(key, length)
        PROVE  Framed!Send
    <3>1. PICK packet : packet = NextPart(key, length)
      OBVIOUS
    <3>2. /\ alive /\ packets' = Append(packets, packet)
          /\ starts' = Append(starts, BytesSent + Size(packets'[Len(packets')]))
          /\ UNCHANGED <<in, looping, alive, delivered, handled>>
      BY <2>1, <3>1 DEF DeviceSends, NextPart, Number, Before, receiver
    <3>3. packets'[Len(packets')] = packet
      <4>1. packet \in PacketSet /\ packets \in Seq(PacketSet)
        BY <3>1, NextPartFacts DEF Kinds, StreamOK
      <4> QED
        BY <3>2, <4>1
    <3>4. PICK size \in {LengthBytes} \cup {LengthBytes + n + e : n \in Lengths, e \in {0, Envelope}} :
            size = Size(packet)
      BY <3>1, SizeOfNext DEF Kinds
    <3>5. starts' = Append(starts, BytesSent + size)
      BY <3>2, <3>3, <3>4
    <3>6. Unread' = Unread
      BY <3>2 DEF Unread
    <3> QED
      BY <3>2, <3>5, <3>6, FramedTerms DEF Framed!Send, Unread
  <2>2. ASSUME NEW n \in 1..BytesSent, OnRecv(n) PROVE Framed!Arrive
    <3>1. /\ alive /\ ~looping /\ delivered + n <= BytesSent
          /\ delivered' = delivered + n /\ looping' = TRUE
          /\ UNCHANGED <<alive, starts, handled>>
      BY <2>2 DEF OnRecv
    <3>2. Input(in') = Kept(in) \o Span(delivered, delivered + n)
      BY <2>2, OnRecvKeeps
    <3>3. n \in 1..(BytesSent - delivered)
      <4>1. BytesSent \in Nat /\ delivered \in Nat
        BY StartsFacts DEF StreamOK
      <4> QED
        BY <3>1, <4>1
    <3> QED
      BY <3>1, <3>2, <3>3, FramedTerms DEF Framed!Arrive
  <2>3. ASSUME NEW length \in Lengths, SendPlist(length) PROVE UNCHANGED Framed!vars
    BY <2>3 DEF SendPlist, receiver, device, Framed!vars
  <2>4. ASSUME RecvLength PROVE Framed!Close \/ UNCHANGED Framed!vars
    <3>1. looping /\ alive /\ UNCHANGED <<starts, delivered, handled>>
      BY <2>4 DEF RecvLength, ParserOK, device
    <3>2. CASE At(Input(in)).key = "huge"
      <4>1. looping' = FALSE /\ alive' = FALSE
        BY <2>4, <3>2 DEF RecvLength, Fails
      <4> QED
        BY <3>1, <4>1 DEF Framed!Close
    <3>3. CASE At(Input(in)).key # "huge"
      <4>1. UNCHANGED <<in, looping, alive>>
        BY <2>4, <3>3 DEF RecvLength
      <4> QED
        BY <3>1, <4>1 DEF Framed!vars
    <3> QED
      BY <3>2, <3>3
  <2>5. ASSUME RecvPacket PROVE Framed!Handle
    <3> DEFINE s == Input(in)
               rest == SubSeq(s, NextSize + 1, Len(s))
               read == Advance(in, bodyLength + LengthBytes)
    <3>1. /\ alive /\ handled \in Nat /\ handled < Len(packets)
          /\ bodyLength + LengthBytes = NextSize /\ NextSize \in Nat /\ NextSize <= Len(s)
          /\ NextStart \in Nat /\ NextEnd = NextStart + NextSize
          /\ Reading(in) /\ in \in Buffers(StreamBytes)
      BY <2>5, RecvPacketFacts
    <3>2. /\ looping /\ handled' = handled + 1 /\ UNCHANGED <<starts, delivered>>
          /\ \/ in' = read /\ UNCHANGED <<looping, alive>>
             \/ looping' = FALSE /\ alive' = FALSE
      BY <2>5 DEF RecvPacket, Fails
    <3>3. Input(read) = rest
      <4> DEFINE n == bodyLength + LengthBytes
      <4>1. n \in Nat /\ n <= Len(Input(in)) /\ n = NextSize
        BY <3>1
      <4> HIDE DEF n
      <4>2. Input(Advance(in, n)) = SubSeq(Input(in), n + 1, Len(Input(in)))
        BY <3>1, <4>1, AdvanceReads
      <4> QED
        BY <4>1, <4>2 DEF n
    <3>4. Framed!SizeOf(handled + 1) = NextSize
      <4>1. (handled + 1) + 1 = handled + 2
        BY <3>1
      <4>2. Framed!SizeOf(handled + 1) = NextEnd - NextStart
        BY <4>1, FramedTerms DEF NextEnd, NextStart
      <4> QED
        BY <3>1, <4>2
    <3>5. Framed!WholeIn(handled, s)
      <4>1. handled + 1 < Len(starts)
        BY <3>1 DEF StreamOK
      <4> QED
        BY <3>1, <3>4, <4>1 DEF Framed!WholeIn
    <3>6. Unread = s /\ alive = TRUE /\ looping = TRUE
      BY <3>1, <3>2 DEF Unread, ParserOK
    <3> HIDE DEF s, rest, read
    <3>7. rest = SubSeq(s, Framed!SizeOf(handled + 1) + 1, Len(s))
      BY <3>4 DEF rest
    <3>8. CASE in' = read /\ UNCHANGED <<looping, alive>>
      <4>1. alive' = TRUE /\ looping' = TRUE
        BY <3>6, <3>8
      <4>2. Unread' = rest
        BY <3>3, <3>8, <4>1 DEF Unread
      <4> QED
        BY <3>2, <3>5, <3>6, <3>7, <4>1, <4>2 DEF Framed!Handle, Unread
    <3>9. CASE looping' = FALSE /\ alive' = FALSE
      <4>1. Unread' = <<>>
        BY <3>9 DEF Unread
      <4> QED
        BY <3>2, <3>5, <3>6, <3>7, <3>9, <4>1 DEF Framed!Handle, Unread
    <3> QED
      BY <3>2, <3>8, <3>9
  <2>6. ASSUME RecvMore PROVE Framed!Wait
    <3>1. /\ looping /\ looping' = FALSE /\ alive
          /\ IF hasLength THEN ~Complete(Input(in)) ELSE Len(Input(in)) < LengthBytes
          /\ UNCHANGED <<starts, delivered, handled, alive>>
      BY <2>6 DEF RecvMore, ParserOK, device
    <3>2. Kept(in') = Input(in)
      BY <2>6, RecvMoreKeeps
    <3>3. Len(Input(in)) \in Nat
      BY <3>1, InputFacts DEF ParserOK
    <3>4. ~Framed!WholeIn(handled, Input(in))
      <4> SUFFICES ASSUME handled + 1 < Len(starts) PROVE ~(Len(Input(in)) >= Framed!SizeOf(handled + 1))
        BY DEF Framed!WholeIn
      <4> DEFINE k == handled + 1
      <4>1. k \in 1..Len(packets) /\ packets \in Seq(PacketSet)
        BY DEF StreamOK
      <4>2. starts[k + 1] = starts[k] + Size(packets[k]) /\ starts[k] \in Nat
        <5>1. k \in 1..(Len(packets) + 1)
          BY <4>1
        <5> HIDE DEF k
        <5> QED
          BY <4>1, <5>1, StartsFacts DEF StreamOK
      <4> HIDE DEF k
      <4>3. packets[k] \in PacketSet
        BY <4>1
      <4>4. PICK size \in Nat : size = Size(packets[k]) /\ size >= LengthBytes
        BY <4>3, SizeFacts
      <4>5. Framed!SizeOf(k) = size
        BY <4>2, <4>4, FramedTerms
      <4>6. ~(Len(Input(in)) >= size)
        <5>1. CASE hasLength
          <6>1. bodyLength = size - LengthBytes
            BY <4>4, <5>1 DEF ParserOK, k
          <6> QED
            BY <3>1, <3>3, <4>4, <5>1, <6>1, SizesAssumption DEF Complete
        <5>2. CASE ~hasLength
          BY <3>1, <3>3, <4>4, <5>2, SizesAssumption
        <5> QED
          BY <5>1, <5>2
      <4> QED
        BY <4>5, <4>6 DEF k
    <3> QED
      BY <3>1, <3>2, <3>4 DEF Framed!Wait
  <2>7. CASE UNCHANGED vars
    BY <2>7 DEF vars, receiver, device, Framed!vars
  <2> QED
    BY <2>1, <2>2, <2>3, <2>4, <2>5, <2>6, <2>7 DEF Next, Framed!Next
<1> QED
  BY <1>1, <1>2, Invariant, PTL DEF Spec, FramedSpec, Framed!Spec

=============================================================================
