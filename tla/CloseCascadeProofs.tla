------------------------- MODULE CloseCascadeProofs -------------------------
(***************************************************************************)
(* Theorems about the closing cascade, for any number of clients, static   *)
(* server connections and pages.  Everything follows from one inductive    *)
(* invariant, IInv, which says what the graph looks like while callbacks   *)
(* are half done: which callback may run inside which, and which links are *)
(* still whole.  The lemmas of the first part say what a call, a return    *)
(* and a step without either do to the stack; each step lemma then goes    *)
(* through the six parts of the invariant.                                 *)
(***************************************************************************)
EXTENDS CloseCascade, SequenceTheorems, TLAPS

\* A callback that runs.
Frames == [obj : Objs, pc : {"start", "clients", "end"}, todo : SUBSET Iwss]

\* The types of the variables.
TypeOK ==
    /\ open \subseteq Objs /\ live \subseteq Objs \cup Pages
    /\ listening \in BOOLEAN /\ sticky \in BOOLEAN
    /\ portIwi \in BOOLEAN /\ iwiPort \in BOOLEAN
    /\ table \subseteq Iwss
    /\ ifsOf \in [Iwss -> Ifss \cup {Null}] /\ iwsOf \in [Ifss -> Iwss \cup {Null}]
    /\ pageOf \in [Iwss -> Pages \cup {Null}] /\ ownerOf \in [Pages -> Iwss \cup {Null}]
    /\ stack \in Seq(Frames)

\* The objects whose callback runs, the clients that the port's loop has still to close,
\* and whether the port's callback is past its loop.
OnStack == {stack[i].obj : i \in DOMAIN stack}
Todo == UNION {stack[i].todo : i \in DOMAIN stack}
PortEnds == \E i \in DOMAIN stack : stack[i].obj = Port /\ stack[i].pc = "end"

\* Which callback may run inside which: a client's inside the port's loop, or inside that of
\* its ifs; an ifs's inside that of its client; the port's and the inspector's inside each
\* other's.  The caller has cleared the links that would lead back to it.
CalledBy(f, g) ==
    \/ /\ f.obj \in Iwss /\ g.obj = Port /\ g.pc = "clients"
    \/ /\ f.obj \in Iwss /\ g.obj \in Ifss /\ g.pc = "end"
       /\ f.pc = "start" => ifsOf[f.obj] # g.obj
    \/ f.obj \in Ifss /\ g.obj \in Iwss /\ g.pc = "end" /\ iwsOf[f.obj] = Null
    \/ f.obj = Port /\ g.obj = Iwi /\ g.pc = "end"
    \/ f.obj = Iwi /\ g.obj = Port /\ g.pc = "end"

\* No object is on the stack twice, the callbacks are nested as above, and one of an ifs that
\* calls is the outermost.
Nested ==
    /\ \A i, j \in DOMAIN stack : stack[i].obj = stack[j].obj => i = j
    /\ \A i \in DOMAIN stack :
        /\ stack[i].pc = "clients" => stack[i].obj = Port
        /\ stack[i].pc # "clients" => stack[i].todo = {}
    /\ \A i \in DOMAIN stack : i # Len(stack) =>
        /\ CalledBy(stack[i], stack[i + 1])
        /\ stack[i + 1].obj \in Ifss => i + 1 = Len(stack)

\* What is allocated is open, and the reverse, but for a sticky port that waits to be restored
\* and for objects whose callback is past its first part; clients in the port's table or in
\* the loop's snapshot are yet to be closed.
Closing ==
    /\ OnStack \subseteq open
    /\ open \subseteq live \cup Started
    /\ open \cap (Iwss \cup {Port}) \subseteq live
    /\ live \subseteq open \cup Pages \cup {Port}
    /\ live \cap Started \subseteq Iwss \cup {Port}
    /\ listening <=> Port \in open
    /\ table \subseteq (Iwss \cap open) \ Started
    /\ Todo \subseteq (Iwss \cap open) \ OnStack

\* The port and the inspector point to each other or neither does, and when neither does one
\* of them is being closed.
Inspector ==
    /\ portIwi = iwiPort
    /\ portIwi => Iwi \in open \ Started /\ Port \in open /\ ~PortEnds
    /\ Iwi \in open \ Started => portIwi \/ {Port, Iwi} \subseteq OnStack
    /\ (Iwi \in Started /\ Port \in open) => Port \in OnStack
    /\ Port \in open \ OnStack => Iwi \in open \ Started
    /\ live \cap Pages # {} => Iwi \in live \ Started

\* Clients are in the table until they are closed, the table is empty when the port's loop is
\* over, and a client that has a page owns it as long as the pages are allocated.
Clients ==
    /\ PortEnds => table = {}
    /\ Port \in Started => table \subseteq Todo \cup OnStack
    /\ (Iwss \cap live) \ Started \subseteq table
    /\ table # {} => Port \in open
    /\ \A s \in Iwss \ live : ifsOf[s] = Null /\ pageOf[s] = Null
    /\ \A s \in table : pageOf[s] # Null =>
        \/ Iwi \in Started
        \/ /\ pageOf[s] \in live
           /\ ownerOf[pageOf[s]] = s

\* As long as no client has two ifs: a client and its ifs point to each other, until one of
\* them is being closed.
Files ==
    ~Overlap =>
    /\ \A s \in (Iwss \cap live) \ Started : ifsOf[s] # Null =>
            /\ ifsOf[s] \in live
            /\ iwsOf[ifsOf[s]] = s
    /\ \A f \in Ifss \cap live :
        \/ /\ f \in OnStack
           /\ iwsOf[f] = Null
        \/ /\ iwsOf[f] \in (Iwss \cap live) \ Started
           /\ ifsOf[iwsOf[f]] = f

IInv == TypeOK /\ Nested /\ Closing /\ Inspector /\ Clients /\ Files

\* The constants that stand for single objects differ from all others, and an object is of one
\* kind only.
LEMMA Addresses ==
    /\ Port # Iwi /\ Port # Null /\ Iwi # Null
    /\ \A q \in Iwss \cup Ifss \cup Pages : q # Port /\ q # Iwi /\ q # Null
    /\ \A s \in Iwss : s \notin Ifss /\ s \notin Pages
    /\ \A f \in Ifss : f \notin Iwss /\ f \notin Pages
    /\ \A o \in Objs : o \notin Pages /\ o # Null
BY AddressesAssumption DEF Port, Iwi, Null, Objs

\* A stack that is not empty has an innermost callback, and a tail.
LEMMA Running ==
    ASSUME stack \in Seq(Frames), stack # <<>>
    PROVE  /\ Len(stack) \in Nat \ {0} /\ DOMAIN stack = 1..Len(stack)
           /\ stack[1] \in Frames
           /\ \A i \in 1..Len(stack) : stack[i] \in Frames
           /\ Tail(stack) \in Seq(Frames) /\ Len(Tail(stack)) = Len(stack) - 1
           /\ \A i \in 1..(Len(stack) - 1) : Tail(stack)[i] = stack[i + 1]
<1>1. Len(stack) \in Nat \ {0} /\ DOMAIN stack = 1..Len(stack)
  BY EmptySeq, LenProperties
<1>2. \A i \in 1..Len(stack) : stack[i] \in Frames
  BY ElementOfSeq
<1> QED BY <1>1, <1>2, HeadTailProperties

\* What the stack is after the innermost callback went on without a call.
LEMMA Replaced ==
    ASSUME stack \in Seq(Frames), stack # <<>>, NEW g \in Frames,
           stack' = <<g>> \o Tail(stack)
    PROVE  /\ stack' \in Seq(Frames) /\ stack' # <<>>
           /\ Len(stack') = Len(stack) /\ DOMAIN stack' = 1..Len(stack)
           /\ stack'[1] = g
           /\ \A i \in 2..Len(stack) : stack'[i] = stack[i]
<1>1. <<g>> \in Seq(Frames) /\ Len(<<g>>) = 1 /\ <<g>>[1] = g
  OBVIOUS
<1>2. /\ Len(stack) \in Nat \ {0}
      /\ Tail(stack) \in Seq(Frames) /\ Len(Tail(stack)) = Len(stack) - 1
      /\ \A i \in 1..(Len(stack) - 1) : Tail(stack)[i] = stack[i + 1]
  BY Running
<1>3. /\ stack' \in Seq(Frames)
      /\ Len(stack') = 1 + (Len(stack) - 1)
      /\ \A i \in 1..Len(stack') :
            stack'[i] = IF i <= 1 THEN <<g>>[i] ELSE Tail(stack)[i - 1]
  BY <1>1, <1>2, ConcatProperties
<1>4. stack' # <<>> /\ DOMAIN stack' = 1..Len(stack)
  BY <1>2, <1>3
<1> QED BY <1>1, <1>2, <1>3, <1>4

\* What the stack is after the innermost callback made a call.
LEMMA Pushed ==
    ASSUME stack \in Seq(Frames), stack # <<>>, NEW f \in Frames, NEW g \in Frames,
           \/ stack' = <<f>> \o (<<g>> \o Tail(stack))
           \/ stack' = <<f, g>> \o Tail(stack)
    PROVE  /\ stack' \in Seq(Frames) /\ stack' # <<>>
           /\ Len(stack') = Len(stack) + 1 /\ DOMAIN stack' = 1..(Len(stack) + 1)
           /\ stack'[1] = f /\ stack'[2] = g
           /\ \A i \in 3..(Len(stack) + 1) : stack'[i] = stack[i - 1]
<1> DEFINE h == <<f, g>>
           r == <<g>> \o Tail(stack)
<1>1. /\ <<f>> \in Seq(Frames) /\ Len(<<f>>) = 1 /\ <<f>>[1] = f
      /\ <<g>> \in Seq(Frames) /\ Len(<<g>>) = 1 /\ <<g>>[1] = g
      /\ h \in Seq(Frames) /\ Len(h) = 2 /\ h[1] = f /\ h[2] = g
  OBVIOUS
<1>2. /\ Len(stack) \in Nat \ {0}
      /\ Tail(stack) \in Seq(Frames) /\ Len(Tail(stack)) = Len(stack) - 1
      /\ \A i \in 1..(Len(stack) - 1) : Tail(stack)[i] = stack[i + 1]
  BY Running
<1> HIDE DEF h
<1>3. CASE stack' = h \o Tail(stack)
  <2>1. /\ stack' \in Seq(Frames)
        /\ Len(stack') = 2 + (Len(stack) - 1)
        /\ \A i \in 1..Len(stack') :
              stack'[i] = IF i <= 2 THEN h[i] ELSE Tail(stack)[i - 2]
    BY <1>1, <1>2, <1>3, ConcatProperties
  <2>2. stack' # <<>> /\ DOMAIN stack' = 1..(Len(stack) + 1)
    BY <1>2, <2>1
  <2> QED BY <1>1, <1>2, <2>1, <2>2
<1>4. CASE stack' = <<f>> \o r
  <2>1. /\ r \in Seq(Frames)
        /\ Len(r) = 1 + (Len(stack) - 1)
        /\ \A i \in 1..Len(r) : r[i] = IF i <= 1 THEN <<g>>[i] ELSE Tail(stack)[i - 1]
    BY <1>1, <1>2, ConcatProperties
  <2> HIDE DEF r
  <2>2. /\ stack' \in Seq(Frames)
        /\ Len(stack') = 1 + Len(r)
        /\ \A i \in 1..Len(stack') : stack'[i] = IF i <= 1 THEN <<f>>[i] ELSE r[i - 1]
    BY <1>1, <1>2, <1>4, <2>1, ConcatProperties
  <2>3. stack' # <<>> /\ DOMAIN stack' = 1..(Len(stack) + 1)
    BY <1>2, <2>1, <2>2
  <2> QED BY <1>1, <1>2, <2>1, <2>2, <2>3
<1> QED BY <1>3, <1>4 DEF h

\* What the stack is after the innermost callback returned.
LEMMA Popped ==
    ASSUME stack \in Seq(Frames), stack # <<>>, stack' = Tail(stack)
    PROVE  /\ stack' \in Seq(Frames)
           /\ Len(stack') = Len(stack) - 1 /\ DOMAIN stack' = 1..(Len(stack) - 1)
           /\ \A i \in 1..(Len(stack) - 1) : stack'[i] = stack[i + 1]
<1>1. Len(stack) \in Nat \ {0}
  BY Running
<1>2. /\ stack' \in Seq(Frames) /\ Len(stack') = Len(stack) - 1
      /\ \A i \in 1..(Len(stack) - 1) : stack'[i] = stack[i + 1]
  BY Running
<1> QED BY <1>1, <1>2

\* The callbacks that are not innermost have called.
LEMMA NotStart ==
    ASSUME stack \in Seq(Frames), Nested
    PROVE  \A i \in 2..Len(stack) : stack[i].pc # "start"
<1> SUFFICES ASSUME NEW i \in 2..Len(stack) PROVE stack[i].pc # "start"
  OBVIOUS
<1>1. Len(stack) \in Nat /\ DOMAIN stack = 1..Len(stack)
  BY LenProperties
<1>2. i - 1 \in DOMAIN stack /\ i - 1 # Len(stack) /\ (i - 1) + 1 = i
  BY <1>1
<1>3. CalledBy(stack[i - 1], stack[i])
  BY <1>2 DEF Nested
<1> QED BY <1>3 DEF CalledBy

\* A step clears links of ifs, and sets none.
LinksGo == \A f \in Ifss : iwsOf[f] = Null => iwsOf'[f] = Null

\* Callbacks stay nested when the innermost one goes on.
LEMMA ReplacedNested ==
    ASSUME stack \in Seq(Frames), stack # <<>>, Nested, LinksGo, NEW g \in Frames,
           g.obj = stack[1].obj, g.pc # "start",
           g.pc = "clients" => g.obj = Port, g.pc # "clients" => g.todo = {},
           stack' = <<g>> \o Tail(stack)
    PROVE  Nested'
<1>1. /\ stack' \in Seq(Frames) /\ stack' # <<>>
      /\ Len(stack') = Len(stack) /\ DOMAIN stack' = 1..Len(stack)
      /\ stack'[1] = g
      /\ \A i \in 2..Len(stack) : stack'[i] = stack[i]
  BY Replaced
<1>2. Len(stack) \in Nat \ {0} /\ DOMAIN stack = 1..Len(stack)
  BY Running
<1>3. \A i \in 1..Len(stack) : stack'[i].obj = stack[i].obj
  BY <1>1, <1>2
<1>4. \A i, j \in DOMAIN stack' : stack'[i].obj = stack'[j].obj => i = j
  BY <1>1, <1>2, <1>3 DEF Nested
<1>5. \A i \in DOMAIN stack' :
        /\ stack'[i].pc = "clients" => stack'[i].obj = Port
        /\ stack'[i].pc # "clients" => stack'[i].todo = {}
  BY <1>1, <1>2 DEF Nested
<1>6. ASSUME NEW i \in DOMAIN stack', i # Len(stack')
      PROVE  /\ CalledBy(stack[i], stack[i + 1])'
             /\ stack'[i + 1].obj \in Ifss => i + 1 = Len(stack')
  <2>1. i + 1 \in 2..Len(stack) /\ i \in DOMAIN stack /\ i # Len(stack)
    BY <1>1, <1>2, <1>6
  <2>2. stack'[i + 1].obj \in Ifss => i + 1 = Len(stack')
    BY <1>1, <1>3, <1>2, <2>1 DEF Nested
  <2>3. stack'[i + 1] = stack[i + 1]
    BY <1>1, <2>1
  <2>4. CASE i = 1
    <3>1. CalledBy(stack[i], stack[i + 1])
      BY <2>1 DEF Nested
    <3>2. stack'[i] = g /\ stack[i].obj = g.obj
      BY <1>1, <2>4
    <3> QED BY <3>1, <3>2, <2>2, <2>3, <2>4 DEF CalledBy, LinksGo
  <2>5. CASE i # 1
    <3>1. i \in 2..Len(stack) /\ i # Len(stack)
      BY <2>1, <2>5, <1>2
    <3>2. CalledBy(stack[i], stack[i + 1]) /\ stack[i].pc # "start"
      BY <2>1, <3>1, NotStart DEF Nested
    <3>3. stack'[i] = stack[i]
      BY <1>1, <3>1
    <3> QED BY <3>2, <3>3, <2>2, <2>3 DEF CalledBy, LinksGo
  <2> QED BY <2>4, <2>5
<1> QED BY <1>4, <1>5, <1>6 DEF Nested

\* What is on the stack, begun and to be done when the innermost callback goes on.
LEMMA ReplacedSets ==
    ASSUME stack \in Seq(Frames), stack # <<>>, Nested, NEW g \in Frames,
           g.obj = stack[1].obj, g.pc # "start",
           stack' = <<g>> \o Tail(stack)
    PROVE  /\ OnStack' = OnStack
           /\ Started' = Started \cup {g.obj}
           /\ stack[1].todo = {} => Todo' = Todo \cup g.todo
           /\ PortEnds' => PortEnds \/ (g.obj = Port /\ g.pc = "end")
<1>1. /\ DOMAIN stack' = 1..Len(stack)
      /\ stack'[1] = g
      /\ \A i \in 2..Len(stack) : stack'[i] = stack[i]
  BY Replaced
<1>2. Len(stack) \in Nat \ {0} /\ DOMAIN stack = 1..Len(stack)
  BY Running
<1>3. \A i \in 1..Len(stack) : stack'[i].obj = stack[i].obj
  BY <1>1, <1>2
<1>4. OnStack' = OnStack
  <2>1. \A q : q \in OnStack <=> \E i \in 1..Len(stack) : q = stack[i].obj
    BY <1>2 DEF OnStack
  <2>2. \A q : q \in OnStack' <=> \E i \in 1..Len(stack) : q = stack'[i].obj
    BY <1>1 DEF OnStack
  <2>3. \A q : q \in OnStack' <=> q \in OnStack
    BY <1>3, <2>1, <2>2
  <2> QED BY <2>3
<1>5. Started' = Started \cup {g.obj}
  <2>1. \A q : q \in Started' <=>
            \E i \in 1..Len(stack) : q = stack'[i].obj /\ stack'[i].pc # "start"
    BY <1>1 DEF Started
  <2>2. \A q : q \in Started <=> \E i \in 1..Len(stack) : q = stack[i].obj /\ stack[i].pc # "start"
    BY <1>2 DEF Started
  <2>3. 1 \in 1..Len(stack) /\ \A i \in 1..Len(stack) : i = 1 \/ stack'[i] = stack[i]
    BY <1>1, <1>2
  <2>4. ASSUME NEW q \in Started' PROVE q \in Started \cup {g.obj}
    <3>1. PICK i \in 1..Len(stack) : q = stack'[i].obj /\ stack'[i].pc # "start"
      BY <2>1
    <3>2. CASE i = 1
      BY <1>1, <3>1, <3>2
    <3>3. CASE stack'[i] = stack[i]
      BY <2>2, <3>1, <3>3
    <3> QED BY <2>3, <3>2, <3>3
  <2>5. ASSUME NEW q \in Started PROVE q \in Started'
    <3>1. PICK i \in 1..Len(stack) : q = stack[i].obj /\ stack[i].pc # "start"
      BY <2>2
    <3>2. stack'[i].obj = q /\ stack'[i].pc # "start"
      BY <1>1, <1>3, <2>3, <3>1
    <3> QED BY <2>1, <3>2
  <2>6. g.obj \in Started'
    BY <1>1, <2>1, <2>3
  <2> QED BY <2>4, <2>5, <2>6
<1>6. ASSUME stack[1].todo = {} PROVE Todo' = Todo \cup g.todo
  <2>1. \A s : s \in Todo' <=> \E i \in 1..Len(stack) : s \in stack'[i].todo
    BY <1>1 DEF Todo
  <2>2. \A s : s \in Todo <=> \E i \in 1..Len(stack) : s \in stack[i].todo
    BY <1>2 DEF Todo
  <2>3. \A i \in 1..Len(stack) : i = 1 \/ i \in 2..Len(stack)
    BY <1>2
  <2> QED BY <1>1, <1>2, <1>6, <2>1, <2>2, <2>3
<1>7. PortEnds' => PortEnds \/ (g.obj = Port /\ g.pc = "end")
  BY <1>1, <1>2 DEF PortEnds
<1> QED BY <1>4, <1>5, <1>6, <1>7

\* Callbacks stay nested when the innermost one calls that of an object that is not on the stack
\* and that it may call.
LEMMA PushedNested ==
    ASSUME stack \in Seq(Frames), stack # <<>>, Nested, LinksGo,
           NEW o \in Objs \ OnStack, NEW g \in Frames,
           g.obj = stack[1].obj, g.pc # "start",
           g.pc = "clients" => g.obj = Port, g.pc # "clients" => g.todo = {},
           CalledBy(Frame(o), g)', g.obj \in Ifss => Len(stack) = 1,
           \/ stack' = <<Frame(o)>> \o (<<g>> \o Tail(stack))
           \/ stack' = <<Frame(o), g>> \o Tail(stack)
    PROVE  Nested'
<1> DEFINE n == Len(stack)
<1>0. Frame(o) \in Frames /\ Frame(o).obj = o /\ Frame(o).pc = "start" /\ Frame(o).todo = {}
  BY DEF Frame, Frames
<1>1. /\ stack' \in Seq(Frames) /\ stack' # <<>>
      /\ Len(stack') = n + 1 /\ DOMAIN stack' = 1..(n + 1)
      /\ stack'[1] = Frame(o) /\ stack'[2] = g
      /\ \A i \in 3..(n + 1) : stack'[i] = stack[i - 1]
  BY <1>0, Pushed
<1>2. n \in Nat \ {0} /\ DOMAIN stack = 1..n
  BY Running
<1> HIDE DEF n
<1>3. \A i \in 2..(n + 1) : stack'[i].obj = stack[i - 1].obj
  BY <1>1, <1>2
<1>4. ASSUME NEW i \in DOMAIN stack', NEW j \in DOMAIN stack',
             stack'[i].obj = stack'[j].obj
      PROVE  i = j
  <2>1. ASSUME NEW k \in 2..(n + 1) PROVE stack'[k].obj # o
    <3>1. k - 1 \in DOMAIN stack
      BY <1>2
    <3>2. stack[k - 1].obj # o
      BY <3>1 DEF OnStack
    <3> QED BY <1>3, <3>2
  <2>2. i = 1 <=> j = 1
    BY <1>0, <1>1, <1>2, <1>4, <2>1
  <2>3. CASE i # 1
    <3>1. i \in 2..(n + 1) /\ j \in 2..(n + 1) /\ i - 1 \in DOMAIN stack /\ j - 1 \in DOMAIN stack
      BY <1>1, <1>2, <2>2, <2>3
    <3>2. stack[i - 1].obj = stack[j - 1].obj
      BY <1>3, <1>4, <3>1
    <3>3. i - 1 = j - 1
      BY <3>1, <3>2 DEF Nested
    <3> QED BY <3>1, <3>3
  <2> QED BY <2>2, <2>3
<1>5. ASSUME NEW i \in DOMAIN stack'
      PROVE  /\ stack'[i].pc = "clients" => stack'[i].obj = Port
             /\ stack'[i].pc # "clients" => stack'[i].todo = {}
  <2>1. CASE i = 1
    BY <1>0, <1>1, <2>1
  <2>2. CASE i = 2
    BY <1>1, <2>2
  <2>3. CASE i \in 3..(n + 1)
    <3>1. i - 1 \in DOMAIN stack
      BY <1>2, <2>3
    <3> QED BY <1>1, <2>3, <3>1 DEF Nested
  <2> QED BY <1>1, <1>2, <2>1, <2>2, <2>3
<1>6. ASSUME NEW i \in DOMAIN stack', i # Len(stack')
      PROVE  /\ CalledBy(stack[i], stack[i + 1])'
             /\ stack'[i + 1].obj \in Ifss => i + 1 = Len(stack')
  <2>1. i \in 1..n /\ i + 1 \in 2..(n + 1)
    BY <1>1, <1>2, <1>6
  <2>2. CASE i = 1
    <3>1. stack'[i] = Frame(o) /\ stack'[i + 1] = g
      BY <1>1, <2>2
    <3>2. stack'[i + 1].obj \in Ifss => i + 1 = Len(stack')
      BY <1>1, <2>2, <3>1 DEF n
    <3> QED BY <1>0, <3>1, <3>2 DEF CalledBy
  <2>3. CASE i # 1
    <3> DEFINE k == i - 1
    <3>1. k \in DOMAIN stack /\ k # n /\ k + 1 \in 2..n /\ k + 1 \in DOMAIN stack /\ i = k + 1
      BY <1>2, <2>1, <2>3
    <3>2. CalledBy(stack[k], stack[k + 1]) /\ (stack[k + 1].obj \in Ifss => k + 1 = n)
      BY <3>1 DEF Nested, n
    <3>3. stack'[i + 1] = stack[k + 1] /\ stack'[i].obj = stack[k].obj
      BY <1>1, <1>2, <1>3, <2>1, <2>3, <3>1
    <3>4. stack'[i].pc # "start"
      BY <1>1, <1>2, <2>1, <2>3, NotStart DEF n
    <3> HIDE DEF k
    <3>5. stack'[i + 1].obj \in Ifss => i + 1 = Len(stack')
      BY <1>1, <1>2, <3>1, <3>2, <3>3
    <3> QED BY <3>2, <3>3, <3>4, <3>5 DEF CalledBy, LinksGo
  <2> QED BY <2>2, <2>3
<1> QED BY <1>4, <1>5, <1>6 DEF Nested

\* What is on the stack, begun and to be done when the innermost callback makes a call.
LEMMA PushedSets ==
    ASSUME stack \in Seq(Frames), stack # <<>>, Nested,
           NEW o \in Objs \ OnStack, NEW g \in Frames,
           g.obj = stack[1].obj, g.pc # "start",
           \/ stack' = <<Frame(o)>> \o (<<g>> \o Tail(stack))
           \/ stack' = <<Frame(o), g>> \o Tail(stack)
    PROVE  /\ OnStack' = OnStack \cup {o}
           /\ Started' = Started \cup {g.obj}
           /\ g.todo = stack[1].todo => Todo' = Todo
           /\ PortEnds' => PortEnds \/ (g.obj = Port /\ g.pc = "end")
<1> DEFINE n == Len(stack)
<1>0. Frame(o) \in Frames /\ Frame(o).obj = o /\ Frame(o).pc = "start" /\ Frame(o).todo = {}
  BY DEF Frame, Frames
<1>1. /\ DOMAIN stack' = 1..(n + 1)
      /\ stack'[1] = Frame(o) /\ stack'[2] = g
      /\ \A i \in 3..(n + 1) : stack'[i] = stack[i - 1]
  BY <1>0, Pushed
<1>2. n \in Nat \ {0} /\ DOMAIN stack = 1..n
  BY Running
<1> HIDE DEF n
<1>3. \A i \in 1..n : i + 1 \in 1..(n + 1) /\ stack'[i + 1].obj = stack[i].obj
  BY <1>1, <1>2
<1>4. \A i \in 2..n : i + 1 \in 1..(n + 1) /\ stack'[i + 1] = stack[i]
  BY <1>1, <1>2
<1>5. \A j \in 1..(n + 1) : j = 1 \/ j = 2 \/ (j - 1 \in 2..n /\ stack'[j] = stack[j - 1])
  BY <1>1, <1>2
<1>6. OnStack' = OnStack \cup {o}
  <2>1. \A q : q \in OnStack' <=> \E i \in 1..(n + 1) : q = stack'[i].obj
    BY <1>1 DEF OnStack
  <2>2. \A q : q \in OnStack <=> \E i \in 1..n : q = stack[i].obj
    BY <1>2 DEF OnStack
  <2>3. ASSUME NEW q \in OnStack' PROVE q \in OnStack \cup {o}
    <3>1. PICK j \in 1..(n + 1) : q = stack'[j].obj
      BY <2>1
    <3>2. CASE j = 1
      BY <1>0, <1>1, <3>1, <3>2
    <3>3. CASE j # 1
      <4>1. j - 1 \in 1..n /\ (j - 1) + 1 = j
        BY <1>2, <3>3
      <4> QED BY <1>3, <2>2, <3>1, <4>1
    <3> QED BY <3>2, <3>3
  <2>4. o \in OnStack'
    BY <1>0, <1>1, <1>2, <2>1
  <2>5. ASSUME NEW q \in OnStack PROVE q \in OnStack'
    BY <1>3, <2>1, <2>2
  <2> QED BY <2>3, <2>4, <2>5
<1>7. Started' = Started \cup {g.obj}
  <2>1. \A q : q \in Started' <=> \E i \in 1..(n + 1) : q = stack'[i].obj /\ stack'[i].pc # "start"
    BY <1>1 DEF Started
  <2>2. \A q : q \in Started <=> \E i \in 1..n : q = stack[i].obj /\ stack[i].pc # "start"
    BY <1>2 DEF Started
  <2>3. ASSUME NEW q \in Started' PROVE q \in Started \cup {g.obj}
    <3>1. PICK j \in 1..(n + 1) : q = stack'[j].obj /\ stack'[j].pc # "start"
      BY <2>1
    <3>2. CASE j = 1
      BY <1>0, <1>1, <3>1, <3>2
    <3>3. CASE j = 2
      BY <1>1, <3>1, <3>3
    <3>4. CASE j - 1 \in 2..n /\ stack'[j] = stack[j - 1]
      <4>1. j - 1 \in 1..n
        BY <1>2, <3>4
      <4> QED BY <2>2, <3>1, <3>4, <4>1
    <3> QED BY <1>5, <3>2, <3>3, <3>4
  <2>4. g.obj \in Started'
    BY <1>1, <1>2, <2>1
  <2>5. ASSUME NEW q \in Started PROVE q \in Started'
    <3>1. PICK i \in 1..n : q = stack[i].obj /\ stack[i].pc # "start"
      BY <2>2
    <3>2. CASE i = 1
      BY <2>4, <3>1, <3>2
    <3>3. CASE i # 1
      <4>1. i + 1 \in 1..(n + 1) /\ stack'[i + 1] = stack[i]
        BY <1>2, <1>4, <3>3
      <4> QED BY <2>1, <3>1, <4>1
    <3> QED BY <3>2, <3>3
  <2> QED BY <2>3, <2>4, <2>5
<1>8. ASSUME g.todo = stack[1].todo PROVE Todo' = Todo
  <2>1. \A s : s \in Todo' <=> \E i \in 1..(n + 1) : s \in stack'[i].todo
    BY <1>1 DEF Todo
  <2>2. \A s : s \in Todo <=> \E i \in 1..n : s \in stack[i].todo
    BY <1>2 DEF Todo
  <2>3. \A i \in 1..n : stack'[i + 1].todo = stack[i].todo
    BY <1>1, <1>2, <1>4, <1>8
  <2>4. ASSUME NEW s \in Todo' PROVE s \in Todo
    <3>1. PICK j \in 1..(n + 1) : s \in stack'[j].todo
      BY <2>1
    <3>2. j # 1
      BY <1>0, <1>1, <3>1
    <3>3. j - 1 \in 1..n /\ (j - 1) + 1 = j
      BY <1>2, <3>2
    <3>4. s \in stack[j - 1].todo
      BY <2>3, <3>1, <3>3
    <3> QED BY <2>2, <3>3, <3>4
  <2>5. ASSUME NEW s \in Todo PROVE s \in Todo'
    BY <1>3, <2>1, <2>2, <2>3
  <2> QED BY <2>4, <2>5
<1>9. ASSUME PortEnds' PROVE PortEnds \/ (g.obj = Port /\ g.pc = "end")
  <2>1. PICK j \in 1..(n + 1) : stack'[j].obj = Port /\ stack'[j].pc = "end"
    BY <1>1, <1>9 DEF PortEnds
  <2>2. j # 1
    BY <1>0, <1>1, <2>1
  <2>3. CASE j = 2
    BY <1>1, <2>1, <2>3
  <2>4. CASE j - 1 \in 2..n /\ stack'[j] = stack[j - 1]
    <3>1. j - 1 \in DOMAIN stack
      BY <1>2, <2>4
    <3> QED BY <2>1, <2>4, <3>1 DEF PortEnds
  <2> QED BY <1>5, <2>2, <2>3, <2>4
<1> QED BY <1>6, <1>7, <1>8, <1>9

\* Callbacks stay nested when the innermost one returns.
LEMMA PoppedNested ==
    ASSUME stack \in Seq(Frames), stack # <<>>, Nested, LinksGo, stack' = Tail(stack)
    PROVE  Nested'
<1> DEFINE n == Len(stack)
<1>1. /\ Len(stack') = n - 1 /\ DOMAIN stack' = 1..(n - 1)
      /\ \A i \in 1..(n - 1) : stack'[i] = stack[i + 1]
  BY Popped
<1>2. n \in Nat \ {0} /\ DOMAIN stack = 1..n
  BY Running
<1>3. \A i \in DOMAIN stack' : i + 1 \in DOMAIN stack /\ stack'[i] = stack[i + 1]
  BY <1>1, <1>2
<1>4. \A i, j \in DOMAIN stack' : stack'[i].obj = stack'[j].obj => i = j
  <2> SUFFICES ASSUME NEW i \in DOMAIN stack', NEW j \in DOMAIN stack',
                      stack'[i].obj = stack'[j].obj
               PROVE  i = j
    OBVIOUS
  <2>1. i + 1 = j + 1
    BY <1>3 DEF Nested
  <2> QED BY <1>1, <1>2, <2>1
<1>5. ASSUME NEW i \in DOMAIN stack', i # Len(stack')
      PROVE  /\ CalledBy(stack[i], stack[i + 1])'
             /\ stack'[i + 1].obj \in Ifss => i + 1 = Len(stack')
  <2> DEFINE k == i + 1
  <2>1. k \in DOMAIN stack /\ k # n /\ i + 1 \in DOMAIN stack' /\ k \in 2..n
    BY <1>1, <1>2, <1>5
  <2>2. stack'[i] = stack[k] /\ stack'[i + 1] = stack[k + 1]
    BY <1>3, <2>1
  <2>3. CalledBy(stack[k], stack[k + 1]) /\ (stack[k + 1].obj \in Ifss => k + 1 = n)
    BY <2>1 DEF Nested
  <2>4. stack[k].pc # "start"
    BY <2>1, NotStart
  <2>5. stack'[i + 1].obj \in Ifss => i + 1 = Len(stack')
    <3>1. ASSUME k + 1 = n PROVE i + 1 = Len(stack')
      BY <1>1, <1>2, <2>1, <3>1
    <3> HIDE DEF k
    <3> QED BY <2>2, <2>3, <3>1
  <2> HIDE DEF k
  <2> QED BY <2>2, <2>3, <2>4, <2>5 DEF CalledBy, LinksGo
<1> QED BY <1>3, <1>4, <1>5 DEF Nested

\* What is on the stack, begun and to be done when the innermost callback returns.
LEMMA PoppedSets ==
    ASSUME stack \in Seq(Frames), stack # <<>>, Nested, stack' = Tail(stack),
           stack[1].pc = "end"
    PROVE  /\ OnStack' = OnStack \ {stack[1].obj}
           /\ Started' = Started \ {stack[1].obj}
           /\ Todo' = Todo
           /\ PortEnds' => PortEnds /\ stack[1].obj # Port
<1> DEFINE n == Len(stack)
           o == stack[1].obj
<1>1. /\ DOMAIN stack' = 1..(n - 1)
      /\ \A i \in 1..(n - 1) : stack'[i] = stack[i + 1]
  BY Popped
<1>2. n \in Nat \ {0} /\ DOMAIN stack = 1..n
  BY Running
<1> HIDE DEF n
<1>3. \A i \in 1..(n - 1) : \E j \in 1..n : stack'[i] = stack[j] /\ stack[j].obj # o
  <2> SUFFICES ASSUME NEW i \in 1..(n - 1)
               PROVE  \E j \in 1..n : stack'[i] = stack[j] /\ stack[j].obj # o
    OBVIOUS
  <2>1. i + 1 \in 1..n /\ 1 \in 1..n /\ i + 1 # 1
    BY <1>2
  <2>2. stack[i + 1].obj # o
    BY <1>2, <2>1 DEF Nested
  <2> QED BY <1>1, <2>1, <2>2
<1>4. \A j \in 1..n : stack[j].obj # o => \E i \in 1..(n - 1) : stack'[i] = stack[j]
  <2> SUFFICES ASSUME NEW j \in 1..n, stack[j].obj # o
               PROVE  \E i \in 1..(n - 1) : stack'[i] = stack[j]
    OBVIOUS
  <2>1. j - 1 \in 1..(n - 1) /\ (j - 1) + 1 = j
    BY <1>2
  <2> QED BY <1>1, <2>1
<1>5. stack[1].todo = {}
  BY <1>2 DEF Nested
<1> HIDE DEF o
<1>6. OnStack' = OnStack \ {o}
  <2>1. \A q : q \in OnStack' <=> \E i \in 1..(n - 1) : q = stack'[i].obj
    BY <1>1 DEF OnStack
  <2>2. \A q : q \in OnStack <=> \E i \in 1..n : q = stack[i].obj
    BY <1>2 DEF OnStack
  <2>3. ASSUME NEW q \in OnStack' PROVE q \in OnStack \ {o}
    <3>1. PICK i \in 1..(n - 1) : q = stack'[i].obj
      BY <2>1
    <3>2. PICK j \in 1..n : stack'[i] = stack[j] /\ stack[j].obj # o
      BY <1>3
    <3> QED BY <2>2, <3>1, <3>2
  <2>4. ASSUME NEW q \in OnStack \ {o} PROVE q \in OnStack'
    <3>1. PICK j \in 1..n : q = stack[j].obj
      BY <2>2
    <3>2. PICK i \in 1..(n - 1) : stack'[i] = stack[j]
      BY <1>4, <3>1
    <3> QED BY <2>1, <3>1, <3>2
  <2> QED BY <2>3, <2>4
<1>7. Started' = Started \ {o}
  <2>1. \A q : q \in Started' <=> \E i \in 1..(n - 1) : q = stack'[i].obj /\ stack'[i].pc # "start"
    BY <1>1 DEF Started
  <2>2. \A q : q \in Started <=> \E i \in 1..n : q = stack[i].obj /\ stack[i].pc # "start"
    BY <1>2 DEF Started
  <2>3. ASSUME NEW q \in Started' PROVE q \in Started \ {o}
    <3>1. PICK i \in 1..(n - 1) : q = stack'[i].obj /\ stack'[i].pc # "start"
      BY <2>1
    <3>2. PICK j \in 1..n : stack'[i] = stack[j] /\ stack[j].obj # o
      BY <1>3
    <3> QED BY <2>2, <3>1, <3>2
  <2>4. ASSUME NEW q \in Started \ {o} PROVE q \in Started'
    <3>1. PICK j \in 1..n : q = stack[j].obj /\ stack[j].pc # "start"
      BY <2>2
    <3>2. PICK i \in 1..(n - 1) : stack'[i] = stack[j]
      BY <1>4, <3>1
    <3>3. q = stack'[i].obj /\ stack'[i].pc # "start"
      BY <3>1, <3>2
    <3> QED BY <2>1, <3>3
  <2> QED BY <2>3, <2>4
<1>8. Todo' = Todo
  <2>1. \A s : s \in Todo' <=> \E i \in 1..(n - 1) : s \in stack'[i].todo
    BY <1>1 DEF Todo
  <2>2. \A s : s \in Todo <=> \E i \in 1..n : s \in stack[i].todo
    BY <1>2 DEF Todo
  <2>3. \A j \in 1..n : stack[j].obj = o => stack[j].todo = {}
    BY <1>2, <1>5 DEF Nested, o
  <2>4. ASSUME NEW s \in Todo' PROVE s \in Todo
    <3>1. PICK i \in 1..(n - 1) : s \in stack'[i].todo
      BY <2>1
    <3>2. PICK j \in 1..n : stack'[i] = stack[j] /\ stack[j].obj # o
      BY <1>3
    <3> QED BY <2>2, <3>1, <3>2
  <2>5. ASSUME NEW s \in Todo PROVE s \in Todo'
    <3>1. PICK j \in 1..n : s \in stack[j].todo
      BY <2>2
    <3>2. PICK i \in 1..(n - 1) : stack'[i] = stack[j]
      BY <1>4, <2>3, <3>1
    <3> QED BY <2>1, <3>1, <3>2
  <2> QED BY <2>4, <2>5
<1>9. PortEnds' => PortEnds /\ o # Port
  BY <1>1, <1>2, <1>3 DEF PortEnds
<1> QED BY <1>6, <1>7, <1>8, <1>9 DEF o

\* Every callback but the outermost was called by the next one.
LEMMA Callers ==
    ASSUME stack \in Seq(Frames), Nested
    PROVE  \A i, j \in 1..Len(stack) : j = i + 1 =>
                CalledBy(stack[i], stack[j]) /\ (stack[j].obj \in Ifss => j = Len(stack))
<1>1. Len(stack) \in Nat
  BY LenProperties
<1>2. DOMAIN stack = 1..Len(stack)
  BY LenProperties
<1>3. ASSUME NEW i \in 1..Len(stack), NEW j \in 1..Len(stack), j = i + 1
      PROVE  CalledBy(stack[i], stack[j]) /\ (stack[j].obj \in Ifss => j = Len(stack))
  <2>1. i # Len(stack)
    BY <1>1, <1>3
  <2>2. i \in DOMAIN stack
    BY <1>2
  <2> QED BY <1>3, <2>1, <2>2 DEF Nested
<1> QED BY <1>3

\* What the innermost callback being that of o, at pc, says of the whole stack; the port's runs
\* alone or inside the inspector's.
LEMMA RunsSets ==
    ASSUME TypeOK, Nested, NEW o, NEW pc, Runs(o, pc)
    PROVE  /\ stack \in Seq(Frames) /\ stack # <<>>
           /\ o \in Objs /\ stack[1] \in Frames
           /\ stack[1].obj = o /\ stack[1].pc = pc
           /\ pc # "clients" => stack[1].todo = {}
           /\ o \in OnStack /\ OnStack \ Started \subseteq {o} /\ Started \subseteq OnStack
           /\ pc = "start" => o \notin Started
           /\ pc # "start" => o \in Started
           /\ o = Port => OnStack \subseteq {Port, Iwi} /\ Todo = stack[1].todo
           /\ o = Port /\ pc = "end" => PortEnds
           /\ o = Port /\ pc # "end" => ~PortEnds
<1>1. /\ stack \in Seq(Frames) /\ stack # <<>>
      /\ stack[1].obj = o /\ stack[1].pc = pc
  BY DEF TypeOK, Runs
<1>2. /\ Len(stack) \in Nat \ {0} /\ DOMAIN stack = 1..Len(stack)
      /\ \A i \in 1..Len(stack) : stack[i] \in Frames
  BY <1>1, Running
<1>3. /\ o \in Objs /\ stack[1] \in Frames
      /\ pc # "clients" => stack[1].todo = {}
  BY <1>1, <1>2 DEF Nested, Frames
<1>4. o \in OnStack
  BY <1>1, <1>2 DEF OnStack
<1>5. Started \subseteq OnStack
  BY DEF Started, OnStack
<1>6. ASSUME NEW q \in OnStack \ Started PROVE q = o
  <2>1. PICK i \in 1..Len(stack) : q = stack[i].obj
    BY <1>2 DEF OnStack
  <2>2. stack[i].pc = "start"
    BY <1>2, <1>6, <2>1 DEF Started
  <2>3. i = 1
    BY <1>1, <1>2, <2>2, NotStart
  <2> QED BY <1>1, <2>1, <2>3
<1>7. ASSUME pc = "start" PROVE o \notin Started
  BY <1>1, <1>2, <1>7 DEF Started, Nested
<1>8. ASSUME pc # "start" PROVE o \in Started
  BY <1>1, <1>2, <1>8 DEF Started
<1>9. ASSUME o = Port PROVE OnStack \subseteq {Port, Iwi} /\ Todo = stack[1].todo
  <2>1. ASSUME NEW i \in 1..Len(stack) PROVE i = 1 \/ stack[i].obj = Iwi
    <3>1. CASE i = 2
      <4>0. 1 \in 1..Len(stack) /\ 2 \in 1..Len(stack) /\ 2 = 1 + 1
        BY <1>2, <3>1
      <4>1. CalledBy(stack[1], stack[2])
        BY <1>1, <4>0, Callers
      <4> QED BY <1>1, <1>9, <4>1, <3>1, Addresses DEF CalledBy
    <3>2. CASE i \in 3..Len(stack)
      <4>0. 1 \in 1..Len(stack) /\ 2 \in 1..Len(stack) /\ 2 = 1 + 1
        BY <1>2, <3>2
      <4>1. CalledBy(stack[1], stack[2])
        BY <1>1, <4>0, Callers
      <4>2. stack[2].obj = Iwi
        BY <1>1, <1>9, <4>1, Addresses DEF CalledBy
      <4>3. 3 \in 1..Len(stack) /\ 3 = 2 + 1
        BY <1>2, <3>2
      <4>4. CalledBy(stack[2], stack[3])
        BY <1>1, <4>0, <4>3, Callers
      <4>5. stack[3].obj = Port
        BY <4>2, <4>4, Addresses DEF CalledBy
      <4>6. 3 = 1
        BY <1>1, <1>2, <1>9, <4>0, <4>3, <4>5 DEF Nested
      <4> QED BY <4>6
    <3> QED BY <1>2, <3>1, <3>2
  <2>2. OnStack \subseteq {Port, Iwi}
    BY <1>1, <1>2, <1>9, <2>1 DEF OnStack
  <2>3. \A i \in 1..Len(stack) : i = 1 \/ stack[i].todo = {}
    BY <1>2, <2>1 DEF Nested, Port, Iwi
  <2>4. \A s : s \in Todo <=> \E i \in 1..Len(stack) : s \in stack[i].todo
    BY <1>2 DEF Todo
  <2>5. Todo = stack[1].todo
    <3>1. \A s : s \in Todo => s \in stack[1].todo
      BY <2>3, <2>4
    <3>2. \A s : s \in stack[1].todo => s \in Todo
      BY <1>2, <2>4
    <3> QED BY <3>1, <3>2
  <2> QED BY <2>2, <2>5
<1>10. o = Port /\ pc = "end" => PortEnds
  BY <1>1, <1>2 DEF PortEnds
<1>11. o = Port /\ pc # "end" => ~PortEnds
  BY <1>1, <1>2 DEF PortEnds, Nested
<1> QED BY <1>1, <1>3, <1>4, <1>5, <1>6, <1>7, <1>8, <1>9, <1>10, <1>11

\* The callback of an ifs that still points to its client was not called by it, and is the only
\* one.
LEMMA RunsIfs ==
    ASSUME TypeOK, Nested, NEW f \in Ifss, NEW pc, Runs(f, pc), iwsOf[f] # Null
    PROVE  Len(stack) = 1 /\ OnStack = {f}
<1>1. /\ stack \in Seq(Frames) /\ stack # <<>> /\ stack[1].obj = f
  BY RunsSets
<1>2. Len(stack) \in Nat \ {0} /\ DOMAIN stack = 1..Len(stack)
  BY <1>1, Running
<1>3. ASSUME Len(stack) # 1 PROVE FALSE
  <2>1. 1 \in 1..Len(stack) /\ 2 \in 1..Len(stack) /\ 2 = 1 + 1
    BY <1>2, <1>3
  <2>2. CalledBy(stack[1], stack[2])
    BY <1>1, <2>1, Callers
  <2> QED BY <1>1, <2>2, Addresses DEF CalledBy
<1> QED BY <1>1, <1>2, <1>3 DEF OnStack

\* The inspector's callback runs inside the port's last part, or alone.
LEMMA RunsIwi ==
    ASSUME TypeOK, Nested, NEW pc, Runs(Iwi, pc)
    PROVE  PortEnds \/ OnStack = {Iwi}
<1>1. /\ stack \in Seq(Frames) /\ stack # <<>> /\ stack[1].obj = Iwi
  BY RunsSets
<1>2. Len(stack) \in Nat \ {0} /\ DOMAIN stack = 1..Len(stack)
  BY <1>1, Running
<1>3. CASE Len(stack) = 1
  BY <1>1, <1>2, <1>3 DEF OnStack
<1>4. CASE Len(stack) # 1
  <2>1. 1 \in 1..Len(stack) /\ 2 \in 1..Len(stack) /\ 2 = 1 + 1
    BY <1>2, <1>4
  <2>2. CalledBy(stack[1], stack[2])
    BY <1>1, <2>1, Callers
  <2>3. stack[2].obj = Port /\ stack[2].pc = "end"
    BY <1>1, <2>2, Addresses DEF CalledBy
  <2> QED BY <1>2, <2>1, <2>3 DEF PortEnds
<1> QED BY <1>3, <1>4

\* A client's callback that starts was not called by that of an ifs the client points to.
LEMMA RunsIws ==
    ASSUME TypeOK, Nested, NEW s \in Iwss, Runs(s, "start")
    PROVE  ifsOf[s] \notin OnStack
<1>1. /\ stack \in Seq(Frames) /\ stack # <<>> /\ stack[1].obj = s /\ stack[1].pc = "start"
  BY RunsSets
<1>2. Len(stack) \in Nat \ {0} /\ DOMAIN stack = 1..Len(stack)
  BY <1>1, Running
<1>3. ifsOf[s] \in Ifss \cup {Null}
  BY DEF TypeOK
<1> SUFFICES ASSUME NEW i \in 1..Len(stack), ifsOf[s] = stack[i].obj PROVE FALSE
  BY <1>2 DEF OnStack
<1>4. stack[i].obj \in Ifss
  <2>1. stack[i].obj \in Objs
    BY <1>1, Running DEF Frames
  <2> QED BY <1>3, <2>1, Addresses
<1>5. i # 1
  BY <1>1, <1>4, Addresses
<1>6. 1 \in 1..Len(stack) /\ 2 \in 1..Len(stack) /\ 2 = 1 + 1
  BY <1>2, <1>5
<1>7. /\ CalledBy(stack[1], stack[2])
      /\ stack[2].obj \in Ifss => 2 = Len(stack)
  BY <1>1, <1>6, Callers
<1>8. CASE i = 2
  BY <1>1, <1>4, <1>7, <1>8, Addresses DEF CalledBy
<1>9. CASE i \in 3..Len(stack)
  <2>1. 3 \in 1..Len(stack) /\ 3 = 2 + 1 /\ 2 # Len(stack)
    BY <1>2, <1>9
  <2>2. stack[2].obj = Port
    BY <1>1, <1>7, <2>1, Addresses DEF CalledBy
  <2>3. CalledBy(stack[2], stack[3])
    BY <1>1, <1>6, <2>1, Callers
  <2>4. stack[3].obj = Iwi
    BY <2>2, <2>3, Addresses DEF CalledBy
  <2>5. i # 3
    BY <1>4, <2>4, Addresses
  <2>6. 4 \in 1..Len(stack) /\ 4 = 3 + 1
    BY <1>2, <1>9, <2>5
  <2>7. CalledBy(stack[3], stack[4])
    BY <1>1, <2>1, <2>6, Callers
  <2>8. stack[4].obj = Port
    BY <2>4, <2>7, Addresses DEF CalledBy
  <2>9. 4 = 2
    BY <1>2, <1>6, <2>2, <2>6, <2>8 DEF Nested
  <2> QED BY <2>9
<1> QED BY <1>2, <1>5, <1>8, <1>9

\* The innermost callback goes on at its last part, without another callback.
LEMMA GoesOnStack ==
    ASSUME TypeOK, Nested, LinksGo, NEW o, NEW pc, Runs(o, pc), stack[1].todo = {},
           GoesOn("end")
    PROVE  /\ stack' \in Seq(Frames) /\ Nested'
           /\ OnStack' = OnStack /\ Started' = Started \cup {o} /\ Todo' = Todo
           /\ PortEnds' => PortEnds \/ o = Port
<1> DEFINE g == [stack[1] EXCEPT !.pc = "end"]
<1>1. /\ stack \in Seq(Frames) /\ stack # <<>> /\ stack[1] \in Frames /\ stack[1].obj = o
  BY RunsSets
<1>2. g \in Frames /\ g.obj = stack[1].obj /\ g.pc = "end" /\ g.todo = {}
  BY <1>1 DEF Frames
<1>3. stack' = <<g>> \o Tail(stack)
  BY DEF GoesOn
<1> HIDE DEF g
<1>4. Nested'
  BY <1>1, <1>2, <1>3, ReplacedNested
<1>5. stack' \in Seq(Frames)
  BY <1>1, <1>2, <1>3, Replaced
<1> QED BY <1>1, <1>2, <1>3, <1>4, <1>5, ReplacedSets

\* The innermost callback goes on at its last part, after the callback of c if that is open.
LEMMA CallsStack ==
    ASSUME TypeOK, Nested, LinksGo, NEW o, NEW pc, Runs(o, pc), stack[1].todo = {},
           NEW c \in Objs, c \in open => c \notin OnStack,
           \A g \in Frames : g.obj = o /\ g.pc = "end" => CalledBy(Frame(c), g)',
           o \in Ifss => Len(stack) = 1, Calls(c, "end")
    PROVE  /\ stack' \in Seq(Frames) /\ Nested'
           /\ OnStack' = OnStack \cup ({c} \cap open)
           /\ Started' = Started \cup {o} /\ Todo' = Todo
           /\ PortEnds' => PortEnds \/ o = Port
<1>1. /\ stack \in Seq(Frames) /\ stack # <<>> /\ stack[1] \in Frames /\ stack[1].obj = o
  BY RunsSets
<1>2. PICK g \in Frames : g = [stack[1] EXCEPT !.pc = "end"]
  BY <1>1 DEF Frames
<1>3. g.obj = stack[1].obj /\ g.pc = "end" /\ g.todo = {}
  BY <1>1, <1>2 DEF Frames
<1>4. CASE c \notin open
  <2>1. GoesOn("end")
    BY <1>4 DEF Calls, GoesOn
  <2> QED BY <1>4, <2>1, GoesOnStack
<1>5. CASE c \in open
  <2>1. stack' = <<Frame(c)>> \o (<<g>> \o Tail(stack))
    BY <1>2, <1>5 DEF Calls
  <2>2. c \in Objs \ OnStack
    BY <1>5
  <2>3. Frame(c) \in Frames
    BY DEF Frame, Frames
  <2>4. CalledBy(Frame(c), g)'
    BY <1>1, <1>3
  <2>5. Nested'
    BY <1>1, <1>3, <2>1, <2>2, <2>4, PushedNested
  <2>6. stack' \in Seq(Frames)
    BY <1>1, <2>1, <2>3, Pushed
  <2>7. /\ OnStack' = OnStack \cup {c} /\ Started' = Started \cup {o} /\ Todo' = Todo
        /\ PortEnds' => PortEnds \/ o = Port
    BY <1>1, <1>3, <2>1, <2>2, PushedSets
  <2> QED BY <1>5, <2>5, <2>6, <2>7
<1> QED BY <1>4, <1>5

\* The innermost callback returns.
LEMMA ReturnsStack ==
    ASSUME TypeOK, Nested, LinksGo, NEW o, Runs(o, "end"), Returns
    PROVE  /\ stack' \in Seq(Frames) /\ Nested' /\ open' = open \ {o}
           /\ OnStack' = OnStack \ {o} /\ Started' = Started \ {o} /\ Todo' = Todo
           /\ PortEnds' => PortEnds /\ o # Port
<1>1. /\ stack \in Seq(Frames) /\ stack # <<>> /\ stack[1].obj = o /\ stack[1].pc = "end"
  BY RunsSets
<1>2. stack' = Tail(stack) /\ open' = open \ {o}
  BY <1>1 DEF Returns
<1>3. stack' \in Seq(Frames)
  BY <1>1, <1>2, Popped
<1>4. Nested'
  BY <1>1, <1>2, PoppedNested
<1> QED BY <1>1, <1>2, <1>3, <1>4, PoppedSets

-----------------------------------------------------------------------------
(* The steps of the callbacks.                                               *)

\* iwdp_iport_close takes the snapshot of its clients.
LEMMA PortStartStep == IInv /\ PortStart => IInv'
<1> SUFFICES ASSUME IInv, PortStart PROVE IInv'
  OBVIOUS
<1> USE DEF IInv
<1> DEFINE g == [stack[1] EXCEPT !.pc = "clients", !.todo = table]
<1>1. Runs(Port, "start") /\ stack' = <<g>> \o Tail(stack)
      /\ UNCHANGED <<open, live, listening, sticky, links, upgraded>>
  BY DEF PortStart
<1>2. /\ stack \in Seq(Frames) /\ stack # <<>> /\ stack[1] \in Frames
      /\ stack[1].obj = Port /\ stack[1].todo = {}
      /\ Port \in OnStack /\ Port \notin Started
      /\ OnStack \subseteq {Port, Iwi} /\ Todo = {} /\ ~PortEnds
  BY <1>1, RunsSets
<1>3. g \in Frames /\ g.obj = Port /\ g.pc = "clients" /\ g.todo = table
  BY <1>2 DEF Frames, TypeOK
<1> HIDE DEF g
<1>4. /\ OnStack' = OnStack /\ Started' = Started \cup {Port}
      /\ Todo' = table /\ ~PortEnds'
  BY <1>1, <1>2, <1>3, ReplacedSets
<1>5. LinksGo
  BY <1>1 DEF LinksGo, links
<1>6. Nested'
  BY <1>1, <1>2, <1>3, <1>5, ReplacedNested
<1>7. TypeOK'
  BY <1>1, <1>2, <1>3, Replaced DEF TypeOK, links
<1>8. Closing'
  BY <1>1, <1>2, <1>4, Addresses DEF Closing, links, TypeOK
<1>9. Inspector'
  BY <1>1, <1>2, <1>4, Addresses DEF Inspector, links
<1>10. Clients'
  BY <1>1, <1>2, <1>4, Addresses DEF Clients, links, TypeOK
<1>11. Files'
  BY <1>1, <1>2, <1>4, Addresses DEF Files, links
<1> QED BY <1>6, <1>7, <1>8, <1>9, <1>10, <1>11

\* It removes one of them: that client is open and not being closed.
LEMMA PortClientStep == \A s \in Iwss : IInv /\ PortClient(s) => IInv'
<1> SUFFICES ASSUME NEW s \in Iwss, IInv, PortClient(s) PROVE IInv'
  OBVIOUS
<1> USE DEF IInv
<1>1. /\ Runs(Port, "clients") /\ s \in stack[1].todo /\ ClientLoop(s)
      /\ UNCHANGED <<open, live, listening, sticky, links, upgraded>>
  BY DEF PortClient
<1>2. /\ stack \in Seq(Frames) /\ stack # <<>> /\ stack[1] \in Frames
      /\ stack[1].obj = Port /\ stack[1].pc = "clients" /\ Todo = stack[1].todo
      /\ Port \in OnStack /\ Port \in Started
      /\ OnStack \subseteq {Port, Iwi} /\ ~PortEnds
  BY <1>1, RunsSets
<1>3. PICK g \in Frames : g = [stack[1] EXCEPT !.todo = @ \ {s}]
  BY <1>2 DEF Frames
<1>4. g.obj = Port /\ g.pc = "clients" /\ g.todo = stack[1].todo \ {s}
  BY <1>2, <1>3 DEF Frames
<1>5. stack' = <<Frame(s), g>> \o Tail(stack)
  BY <1>1, <1>3 DEF ClientLoop
<1>6. s \in Objs \ OnStack /\ Frame(s) \in Frames
  BY <1>1, <1>2 DEF Closing, Objs, Frame, Frames
<1>7. LinksGo
  BY <1>1 DEF LinksGo, links
<1>8. CalledBy(Frame(s), g)'
  BY <1>4 DEF CalledBy, Frame
<1>9. Nested'
  BY <1>2, <1>4, <1>5, <1>6, <1>7, <1>8, Addresses, PushedNested
<1>10. /\ OnStack' = OnStack \cup {s} /\ Started' = Started
       /\ ~PortEnds'
  <2>1. /\ OnStack' = OnStack \cup {s} /\ Started' = Started \cup {g.obj}
        /\ PortEnds' => PortEnds \/ (g.obj = Port /\ g.pc = "end")
    BY <1>2, <1>4, <1>5, <1>6, PushedSets
  <2> QED BY <1>2, <1>4, <2>1
<1>11. Todo' = Todo \ {s}
  <2>1. /\ DOMAIN stack' = 1..(Len(stack) + 1) /\ stack'[1] = Frame(s) /\ stack'[2] = g
        /\ \A i \in 3..(Len(stack) + 1) : stack'[i] = stack[i - 1]
    BY <1>2, <1>5, <1>6, Pushed
  <2>2. Len(stack) \in Nat \ {0} /\ DOMAIN stack = 1..Len(stack)
    BY <1>2, Running
  <2>3. \A q : q \in Todo' <=> \E i \in 1..(Len(stack) + 1) : q \in stack'[i].todo
    BY <2>1 DEF Todo
  <2>4. ASSUME NEW i \in 1..(Len(stack) + 1) PROVE i = 2 \/ stack'[i].todo = {}
    <3>1. CASE i = 1
      BY <2>1, <3>1 DEF Frame
    <3>2. CASE i \in 3..(Len(stack) + 1)
      <4>1. i - 1 \in DOMAIN stack /\ i - 1 # 1 /\ 1 \in DOMAIN stack
        BY <2>2, <3>2
      <4>2. stack[i - 1].obj # Port
        BY <1>2, <4>1 DEF Nested
      <4>3. stack[i - 1].todo = {}
        BY <4>1, <4>2 DEF Nested
      <4> QED BY <2>1, <3>2, <4>3
    <3> QED BY <2>2, <3>1, <3>2
  <2>5. \A q : q \in Todo' => q \in g.todo
    BY <2>1, <2>3, <2>4
  <2>6. \A q : q \in g.todo => q \in Todo'
    BY <2>1, <2>2, <2>3
  <2> QED BY <1>2, <1>4, <2>5, <2>6
<1>12. TypeOK'
  BY <1>1, <1>2, <1>4, <1>5, <1>6, Pushed DEF TypeOK, links
<1>13. Closing'
  BY <1>1, <1>2, <1>10, <1>11, Addresses DEF Closing, links, TypeOK
<1>14. Inspector'
  BY <1>1, <1>2, <1>10, <1>11, Addresses DEF Inspector, links
<1>15. Clients'
  BY <1>1, <1>2, <1>10, <1>11, Addresses DEF Clients, links, TypeOK
<1>16. Files'
  BY <1>1, <1>2, <1>10, <1>11, Addresses DEF Files, links
<1> QED BY <1>9, <1>12, <1>13, <1>14, <1>15, <1>16

\* It clears the table and closes the inspector, if that is not what called it.
LEMMA PortInspectorStep == IInv /\ PortInspector => IInv'
<1> SUFFICES ASSUME IInv, PortInspector PROVE IInv'
  OBVIOUS
<1> USE DEF IInv
<1>1. /\ Runs(Port, "clients") /\ stack[1].todo = {} /\ table' = {}
      /\ UNCHANGED <<open, live, listening, sticky, ifsOf, iwsOf, pageOf, ownerOf, upgraded>>
  BY DEF PortInspector
<1>2. /\ stack[1].obj = Port /\ stack[1].pc = "clients" /\ Todo = {}
      /\ Port \in OnStack /\ Port \in Started /\ Port \notin Iwss
      /\ OnStack \subseteq {Port, Iwi} /\ Started \subseteq OnStack /\ ~PortEnds
      /\ OnStack \ Started \subseteq {Port}
  BY <1>1, RunsSets, Addresses
<1>3. table = {}
  BY <1>2, Addresses DEF Clients, TypeOK
<1>4. LinksGo
  BY <1>1 DEF LinksGo
<1>5. /\ stack' \in Seq(Frames) /\ Nested'
      /\ Started' = Started /\ Todo' = {}
      /\ portIwi' = FALSE /\ iwiPort' = FALSE
      /\ OnStack' = OnStack \cup (IF portIwi THEN {Iwi} ELSE {})
  <2>1. CASE portIwi
    <3>1. UnlinkIwi /\ Calls(Iwi, "end")
      BY <2>1 DEF PortInspector
    <3>2. Iwi \in open /\ Iwi \notin OnStack /\ Iwi \in Objs
      BY <1>2, <2>1, Addresses DEF Inspector, Objs
    <3>3. \A g \in Frames : g.obj = Port /\ g.pc = "end" => CalledBy(Frame(Iwi), g)'
      BY DEF CalledBy, Frame
    <3>4. Port \notin Ifss
      BY Addresses
    <3>5. /\ stack' \in Seq(Frames) /\ Nested'
          /\ OnStack' = OnStack \cup ({Iwi} \cap open)
          /\ Started' = Started \cup {Port} /\ Todo' = Todo
      BY <1>1, <1>4, <3>1, <3>2, <3>3, <3>4, CallsStack
    <3> QED BY <1>2, <2>1, <3>1, <3>2, <3>5 DEF UnlinkIwi
  <2>2. CASE ~portIwi
    <3>1. GoesOn("end") /\ UNCHANGED <<portIwi, iwiPort>>
      BY <2>2 DEF PortInspector
    <3>2. portIwi' = FALSE /\ iwiPort' = FALSE
      BY <2>2, <3>1 DEF Inspector, TypeOK
    <3>3. /\ stack' \in Seq(Frames) /\ Nested' /\ OnStack' = OnStack
          /\ Started' = Started \cup {Port} /\ Todo' = Todo
      BY <1>1, <1>4, <3>1, GoesOnStack
    <3> QED BY <1>2, <2>2, <3>2, <3>3
  <2> QED BY <2>1, <2>2 DEF TypeOK
<1>6. TypeOK'
  BY <1>1, <1>5 DEF TypeOK
<1>7. Closing'
  BY <1>1, <1>2, <1>3, <1>5, Addresses DEF Closing, TypeOK, Inspector
<1>8. Inspector'
  BY <1>1, <1>2, <1>3, <1>5, Addresses DEF Inspector, TypeOK
<1>9. Clients'
  BY <1>1, <1>2, <1>3, <1>5, Addresses DEF Clients, TypeOK
<1>10. Files'
  BY <1>1, <1>2, <1>3, <1>5, Addresses DEF Files, TypeOK
<1> QED BY <1>5, <1>6, <1>7, <1>8, <1>9, <1>10

\* It frees the port, or keeps it when it is sticky.
LEMMA PortEndStep == IInv /\ PortEnd => IInv'
<1> SUFFICES ASSUME IInv, PortEnd PROVE IInv'
  OBVIOUS
<1> USE DEF IInv
<1>1. /\ Runs(Port, "end") /\ Returns
      /\ listening' = FALSE /\ live' = IF sticky THEN live ELSE live \ {Port}
      /\ UNCHANGED <<sticky, portIwi, iwiPort, table, ifsOf, iwsOf, pageOf, ownerOf, upgraded>>
  BY DEF PortEnd, links
<1>2. /\ stack[1].obj = Port /\ stack[1].pc = "end" /\ Todo = {}
      /\ Port \in OnStack /\ Port \in Started /\ Port \notin Iwss
      /\ OnStack \subseteq {Port, Iwi} /\ Started \subseteq OnStack /\ PortEnds
      /\ OnStack \ Started \subseteq {Port}
  BY <1>1, RunsSets, Addresses
<1>3. LinksGo
  BY <1>1 DEF LinksGo
<1>4. /\ stack' \in Seq(Frames) /\ Nested' /\ open' = open \ {Port}
      /\ OnStack' = OnStack \ {Port} /\ Started' = Started \ {Port} /\ Todo' = Todo
      /\ ~PortEnds'
  BY <1>1, <1>3, ReturnsStack
<1>5. TypeOK'
  BY <1>1, <1>4 DEF TypeOK
<1>6. Closing'
  BY <1>1, <1>2, <1>4, Addresses DEF Closing, TypeOK, Clients
<1>7. Inspector'
  BY <1>1, <1>2, <1>4, Addresses DEF Inspector, TypeOK
<1>8. Clients'
  BY <1>1, <1>2, <1>4, Addresses DEF Clients, TypeOK
<1>9. Files'
  BY <1>1, <1>2, <1>4, Addresses DEF Files, TypeOK
<1> QED BY <1>4, <1>5, <1>6, <1>7, <1>8, <1>9

\* iwdp_iws_close lets go of the page and the table and closes the ifs.
LEMMA IwsStartStep == \A s \in Iwss : IInv /\ IwsStart(s) => IInv'
<1> SUFFICES ASSUME NEW s \in Iwss, IInv, IwsStart(s) PROVE IInv'
  OBVIOUS
<1> USE DEF IInv
<1>f. PICK f \in Ifss \cup {Null} : f = ifsOf[s]
  BY DEF TypeOK
<1>p. PICK p \in Pages \cup {Null} : p = pageOf[s]
  BY DEF TypeOK
<1>1. /\ Runs(s, "start") /\ table' = table \ {s} /\ CloseIfs(s)
      /\ \/ /\ p # Null /\ (p \in live => ownerOf[p] = s)
            /\ pageOf' = [pageOf EXCEPT ![s] = Null] /\ ownerOf' = [ownerOf EXCEPT ![p] = Null]
         \/ UNCHANGED <<pageOf, ownerOf>>
      /\ UNCHANGED <<open, live, listening, sticky, portIwi, iwiPort, ifsOf, upgraded>>
  BY <1>p DEF IwsStart, LeaveTable
<1>2. /\ stack[1].obj = s /\ stack[1].todo = {}
      /\ s \in OnStack /\ s \notin Started /\ OnStack \ Started \subseteq {s}
      /\ Started \subseteq OnStack
  BY <1>1, RunsSets
<1>3. s # Port /\ s # Iwi /\ s \notin Ifss /\ f \notin OnStack
  BY <1>1, <1>f, RunsIws, Addresses DEF TypeOK
<1>4. iwsOf' = [h \in Ifss |-> IF h = f THEN Null ELSE iwsOf[h]]
  <2>1. CASE f = Null
    BY <1>1, <1>f, <2>1, Addresses DEF CloseIfs, TypeOK
  <2>2. CASE f # Null
    BY <1>1, <1>f, <2>2 DEF CloseIfs, TypeOK
  <2> QED BY <2>1, <2>2
<1>5. LinksGo
  BY <1>4 DEF LinksGo
<1>6. /\ stack' \in Seq(Frames) /\ Nested'
      /\ OnStack' = OnStack \cup ({f} \cap open)
      /\ Started' = Started \cup {s} /\ Todo' = Todo
      /\ PortEnds' => PortEnds
  <2>1. CASE f = Null
    <3>1. GoesOn("end") /\ f \notin open
      BY <1>1, <1>f, <2>1, Addresses DEF CloseIfs, TypeOK
    <3> QED BY <1>1, <1>2, <1>3, <1>5, <3>1, GoesOnStack
  <2>2. CASE f # Null
    <3>1. Calls(f, "end") /\ f \in Objs
      BY <1>1, <1>f, <2>2 DEF CloseIfs, Objs
    <3>2. \A g \in Frames : g.obj = s /\ g.pc = "end" => CalledBy(Frame(f), g)'
      BY <1>3, <1>4, <2>2 DEF CalledBy, Frame
    <3> QED BY <1>1, <1>2, <1>3, <1>5, <3>1, <3>2, CallsStack
  <2> QED BY <2>1, <2>2
<1>7. /\ pageOf' \in [Iwss -> Pages \cup {Null}] /\ ownerOf' \in [Pages -> Iwss \cup {Null}]
      /\ \A c \in Iwss \ {s} :
            /\ pageOf'[c] = pageOf[c]
            /\ pageOf[c] \in live \cap Pages /\ ownerOf[pageOf[c]] = c => ownerOf'[pageOf[c]] = c
  BY <1>1, <1>p DEF TypeOK
<1>8. iwsOf' \in [Ifss -> Iwss \cup {Null}]
  BY <1>4 DEF TypeOK
<1>9. TypeOK'
  BY <1>1, <1>6, <1>7, <1>8 DEF TypeOK
<1>10. Closing'
  BY <1>1, <1>2, <1>3, <1>6, Addresses DEF Closing, TypeOK
<1>11. Inspector'
  BY <1>1, <1>2, <1>3, <1>6, Addresses DEF Inspector, TypeOK
<1>12. Clients'
  BY <1>1, <1>2, <1>3, <1>6, <1>7, Addresses DEF Clients, TypeOK
<1>13. Files'
  <2> SUFFICES ASSUME ~Overlap PROVE Files'
    BY DEF Files
  <2>1. s \in live /\ (f \in Ifss \cap live => f \in open)
    BY <1>2, Addresses DEF Closing
  <2>2. f # Null => f \in live /\ iwsOf[f] = s
    BY <1>2, <1>f, <2>1 DEF Files
  <2>3. ASSUME NEW c \in (Iwss \cap live') \ Started', ifsOf'[c] # Null
        PROVE  ifsOf'[c] \in live' /\ iwsOf'[ifsOf'[c]] = c
    <3>1. /\ c \in (Iwss \cap live) \ Started /\ c # s
          /\ ifsOf'[c] = ifsOf[c] /\ ifsOf[c] \in Ifss
      BY <1>1, <1>6, <2>3 DEF TypeOK
    <3>2. ifsOf[c] \in live /\ iwsOf[ifsOf[c]] = c
      BY <2>3, <3>1 DEF Files
    <3>3. ifsOf[c] # f
      BY <2>2, <3>1, <3>2, Addresses
    <3> QED BY <1>1, <1>4, <3>1, <3>2, <3>3
  <2>4. ASSUME NEW h \in Ifss \cap live'
        PROVE  \/ h \in OnStack' /\ iwsOf'[h] = Null
               \/ iwsOf'[h] \in (Iwss \cap live') \ Started' /\ ifsOf'[iwsOf'[h]] = h
    <3>1. CASE h = f
      BY <1>1, <1>4, <1>6, <2>1, <3>1
    <3>2. CASE h # f /\ h \in OnStack /\ iwsOf[h] = Null
      BY <1>4, <1>6, <3>2
    <3>3. CASE h # f /\ iwsOf[h] \in (Iwss \cap live) \ Started /\ ifsOf[iwsOf[h]] = h
      BY <1>1, <1>4, <1>6, <1>f, <3>3
    <3> QED BY <1>1, <3>1, <3>2, <3>3 DEF Files
  <2> QED BY <2>3, <2>4 DEF Files
<1> QED BY <1>6, <1>9, <1>10, <1>11, <1>12, <1>13

\* It frees the client.
LEMMA IwsEndStep == \A s \in Iwss : IInv /\ IwsEnd(s) => IInv'
<1> SUFFICES ASSUME NEW s \in Iwss, IInv, IwsEnd(s) PROVE IInv'
  OBVIOUS
<1> USE DEF IInv
<1>1. /\ Runs(s, "end") /\ Returns /\ live' = live \ {s}
      /\ pageOf' = [pageOf EXCEPT ![s] = Null] /\ ifsOf' = [ifsOf EXCEPT ![s] = Null]
      /\ UNCHANGED <<listening, sticky, portIwi, iwiPort, table, iwsOf, ownerOf>>
  BY DEF IwsEnd
<1>2. s \in OnStack /\ s \in Started
  BY <1>1, RunsSets
<1>3. s # Port /\ s # Iwi /\ s \notin Ifss
  BY Addresses
<1>4. LinksGo
  BY <1>1 DEF LinksGo
<1>5. /\ stack' \in Seq(Frames) /\ Nested' /\ open' = open \ {s}
      /\ OnStack' = OnStack \ {s} /\ Started' = Started \ {s} /\ Todo' = Todo
      /\ PortEnds' => PortEnds
  BY <1>1, <1>4, ReturnsStack
<1>6. TypeOK'
  BY <1>1, <1>5 DEF TypeOK
<1>7. Closing'
  BY <1>1, <1>2, <1>3, <1>5, Addresses DEF Closing, TypeOK
<1>8. Inspector'
  BY <1>1, <1>2, <1>3, <1>5, Addresses DEF Inspector, TypeOK
<1>9. Clients'
  BY <1>1, <1>2, <1>3, <1>5, Addresses DEF Clients, TypeOK, Closing
<1>10. Files'
  BY <1>1, <1>2, <1>3, <1>5, Addresses DEF Files, TypeOK
<1> QED BY <1>5, <1>6, <1>7, <1>8, <1>9, <1>10

\* iwdp_iwi_close frees the pages and itself, and closes the port.
LEMMA IwiStartStep == IInv /\ IwiStart => IInv'
<1> SUFFICES ASSUME IInv, IwiStart PROVE IInv'
  OBVIOUS
<1> USE DEF IInv
<1>1. /\ Runs(Iwi, "start") /\ live' = live \ (Pages \cup {Iwi})
      /\ ownerOf' = [p \in Pages |-> Null]
      /\ UNCHANGED <<open, listening, sticky, table, ifsOf, iwsOf, pageOf, upgraded>>
  BY DEF IwiStart
<1>2. /\ stack[1].obj = Iwi /\ stack[1].todo = {} /\ Iwi \notin Pages
      /\ Iwi \in OnStack /\ Iwi \notin Started /\ OnStack \ Started \subseteq {Iwi}
      /\ Started \subseteq OnStack
  BY <1>1, RunsSets, Addresses
<1>3. LinksGo
  BY <1>1 DEF LinksGo
<1>4. /\ stack' \in Seq(Frames) /\ Nested'
      /\ OnStack' = OnStack \cup ({Port} \cap open)
      /\ Started' = Started \cup {Iwi} /\ Todo' = Todo
      /\ PortEnds' => PortEnds
      /\ portIwi' = FALSE /\ iwiPort' = FALSE
  <2>1. CASE portIwi
    <3>1. /\ Calls(Port, "end") /\ portIwi' = FALSE /\ iwiPort' = FALSE
          /\ Port \in open /\ ~PortEnds
      BY <2>1 DEF IwiStart, Inspector, Closing
    <3>2. Port \notin OnStack /\ Port \in Objs /\ Iwi \notin Ifss
      BY <1>1, <3>1, RunsIwi, Addresses DEF Objs
    <3>3. \A g \in Frames : g.obj = Iwi /\ g.pc = "end" => CalledBy(Frame(Port), g)'
      BY DEF CalledBy, Frame
    <3>4. /\ stack' \in Seq(Frames) /\ Nested'
          /\ OnStack' = OnStack \cup ({Port} \cap open)
          /\ Started' = Started \cup {Iwi} /\ Todo' = Todo
          /\ PortEnds' => PortEnds \/ Iwi = Port
      BY <1>1, <1>2, <1>3, <3>1, <3>2, <3>3, CallsStack
    <3> QED BY <3>1, <3>4, Addresses
  <2>2. CASE ~portIwi
    <3>1. GoesOn("end") /\ portIwi' = FALSE /\ iwiPort' = FALSE
      BY <2>2 DEF IwiStart, Inspector, TypeOK
    <3>2. /\ stack' \in Seq(Frames) /\ Nested' /\ OnStack' = OnStack
          /\ Started' = Started \cup {Iwi} /\ Todo' = Todo
          /\ PortEnds' => PortEnds \/ Iwi = Port
      BY <1>1, <1>2, <1>3, <3>1, GoesOnStack
    <3>3. Port \in OnStack
      BY <1>2, <2>2 DEF Inspector, Closing
    <3> QED BY <3>1, <3>2, <3>3, Addresses
  <2> QED BY <2>1, <2>2
<1>5. ownerOf' \in [Pages -> Iwss \cup {Null}]
  BY <1>1
<1>6. TypeOK'
  BY <1>1, <1>4, <1>5 DEF TypeOK
<1>7. Closing'
  BY <1>1, <1>2, <1>4, Addresses DEF Closing, TypeOK
<1>8. Inspector'
  BY <1>1, <1>2, <1>4, Addresses DEF Inspector, TypeOK, Closing
<1>9. Clients'
  BY <1>1, <1>2, <1>4, Addresses DEF Clients, TypeOK
<1>10. Files'
  BY <1>1, <1>2, <1>4, Addresses DEF Files, TypeOK
<1> QED BY <1>4, <1>6, <1>7, <1>8, <1>9, <1>10

\* It returns.
LEMMA IwiEndStep == IInv /\ IwiEnd => IInv'
<1> SUFFICES ASSUME IInv, IwiEnd PROVE IInv'
  OBVIOUS
<1> USE DEF IInv
<1>1. /\ Runs(Iwi, "end") /\ Returns
      /\ UNCHANGED <<live, listening, sticky, portIwi, iwiPort, table, ifsOf, iwsOf,
                     pageOf, ownerOf>>
  BY DEF IwiEnd, links
<1>2. Iwi \in OnStack /\ Iwi \in Started /\ (PortEnds \/ OnStack = {Iwi})
  BY <1>1, RunsSets, RunsIwi
<1>3. LinksGo
  BY <1>1 DEF LinksGo
<1>4. /\ stack' \in Seq(Frames) /\ Nested' /\ open' = open \ {Iwi}
      /\ OnStack' = OnStack \ {Iwi} /\ Started' = Started \ {Iwi} /\ Todo' = Todo
      /\ PortEnds' => PortEnds
  BY <1>1, <1>3, ReturnsStack
<1>5. Iwi \notin live
  BY <1>2, Addresses DEF Closing
<1>6. table = {}
  BY <1>2, Addresses DEF Inspector, Clients
<1>7. TypeOK'
  BY <1>1, <1>4 DEF TypeOK
<1>8. Closing'
  BY <1>1, <1>2, <1>4, <1>5, Addresses DEF Closing, TypeOK
<1>9. Inspector'
  BY <1>1, <1>2, <1>4, <1>5, Addresses DEF Inspector, TypeOK
<1>10. Clients'
  BY <1>1, <1>2, <1>4, <1>6, Addresses DEF Clients, TypeOK
<1>11. Files'
  BY <1>1, <1>2, <1>4, Addresses DEF Files, TypeOK
<1> QED BY <1>4, <1>7, <1>8, <1>9, <1>10, <1>11

\* Only the port's callback has clients to close.
LEMMA TodoOfPort == Nested /\ Todo # {} => Port \in OnStack
<1> SUFFICES ASSUME Nested, Todo # {} PROVE Port \in OnStack
  OBVIOUS
<1>1. PICK i \in DOMAIN stack : stack[i].todo # {}
  BY DEF Todo
<1>2. stack[i].obj = Port
  BY <1>1 DEF Nested
<1> QED BY <1>1, <1>2 DEF OnStack

\* iwdp_ifs_close unlinks and frees the ifs, and closes its client.
LEMMA IfsStartStep == \A f \in Ifss : IInv /\ IfsStart(f) => IInv'
<1> SUFFICES ASSUME NEW f \in Ifss, IInv, IfsStart(f) PROVE IInv'
  OBVIOUS
<1> USE DEF IInv
<1>s. PICK s \in Iwss \cup {Null} : s = iwsOf[f]
  BY DEF TypeOK
<1>1. /\ Runs(f, "start") /\ live' = live \ {f}
      /\ ifsOf' = [c \in Iwss |-> IF c = s /\ ifsOf[c] = f THEN Null ELSE ifsOf[c]]
      /\ iwsOf' = [iwsOf EXCEPT ![f] = Null]
      /\ UNCHANGED <<open, listening, sticky, portIwi, iwiPort, table, pageOf, ownerOf, upgraded>>
  BY <1>s DEF IfsStart, UnlinkIfs
<1>2. /\ stack[1].obj = f /\ stack[1].todo = {}
      /\ f \in OnStack /\ f \notin Started /\ OnStack \ Started \subseteq {f}
      /\ Started \subseteq OnStack
  BY <1>1, RunsSets
<1>3. f # Port /\ f # Iwi /\ f \notin Iwss /\ f \notin Pages
  BY Addresses
<1>4. LinksGo
  BY <1>1 DEF LinksGo, TypeOK
<1>5. /\ stack' \in Seq(Frames) /\ Nested'
      /\ OnStack' = OnStack \cup ({s} \cap open)
      /\ Started' = Started \cup {f} /\ Todo' = Todo
      /\ PortEnds' => PortEnds
      /\ s \in open => OnStack = {f}
  <2>1. CASE s = Null
    <3>1. GoesOn("end") /\ s \notin open
      BY <1>s, <2>1, Addresses DEF IfsStart, TypeOK
    <3> QED BY <1>1, <1>2, <1>3, <1>4, <3>1, GoesOnStack
  <2>2. CASE s # Null
    <3>1. Calls(s, "end") /\ s \in Objs
      BY <1>s, <2>2 DEF IfsStart, Objs
    <3>2. Len(stack) = 1 /\ OnStack = {f} /\ s # f
      BY <1>1, <1>3, <1>s, <2>2, RunsIfs
    <3>3. \A g \in Frames : g.obj = f /\ g.pc = "end" => CalledBy(Frame(s), g)'
      BY <1>1, <2>2, Addresses DEF CalledBy, Frame
    <3> QED BY <1>1, <1>2, <1>3, <1>4, <3>1, <3>2, <3>3, CallsStack
  <2> QED BY <2>1, <2>2
<1>6. ifsOf' \in [Iwss -> Ifss \cup {Null}] /\ iwsOf' \in [Ifss -> Iwss \cup {Null}]
  BY <1>1 DEF TypeOK
<1>7. TypeOK'
  BY <1>1, <1>5, <1>6 DEF TypeOK
<1>8. Closing'
  <2>1. s \in open => s \notin Todo
    BY <1>3, <1>5, TodoOfPort
  <2> QED BY <1>1, <1>2, <1>3, <1>5, <2>1, Addresses DEF Closing, TypeOK
<1>9. Inspector'
  BY <1>1, <1>2, <1>3, <1>5, Addresses DEF Inspector, TypeOK
<1>10. Clients'
  BY <1>1, <1>2, <1>3, <1>5, Addresses DEF Clients, TypeOK
<1>11. Files'
  <2> SUFFICES ASSUME ~Overlap PROVE Files'
    BY DEF Files
  <2>1. ASSUME NEW c \in (Iwss \cap live') \ Started', ifsOf'[c] # Null
        PROVE  ifsOf'[c] \in live' /\ iwsOf'[ifsOf'[c]] = c
    <3>1. c \in (Iwss \cap live) \ Started /\ ifsOf'[c] = ifsOf[c] /\ ifsOf[c] \in Ifss
      BY <1>1, <1>5, <2>1 DEF TypeOK
    <3>2. ifsOf[c] \in live /\ iwsOf[ifsOf[c]] = c
      BY <2>1, <3>1 DEF Files
    <3>3. ifsOf[c] # f
      BY <1>1, <1>s, <2>1, <3>1, <3>2
    <3> QED BY <1>1, <3>1, <3>2, <3>3 DEF TypeOK
  <2>2. ASSUME NEW h \in Ifss \cap live'
        PROVE  \/ h \in OnStack' /\ iwsOf'[h] = Null
               \/ iwsOf'[h] \in (Iwss \cap live') \ Started' /\ ifsOf'[iwsOf'[h]] = h
    <3>1. h \in Ifss \cap live /\ h # f /\ iwsOf'[h] = iwsOf[h]
      BY <1>1, <2>2 DEF TypeOK
    <3>2. CASE h \in OnStack /\ iwsOf[h] = Null
      BY <1>5, <3>1, <3>2
    <3>3. CASE iwsOf[h] \in (Iwss \cap live) \ Started /\ ifsOf[iwsOf[h]] = h
      BY <1>1, <1>3, <1>5, <3>1, <3>3
    <3> QED BY <3>1, <3>2, <3>3 DEF Files
  <2> QED BY <2>1, <2>2 DEF Files
<1> QED BY <1>5, <1>7, <1>8, <1>9, <1>10, <1>11

\* It returns.
LEMMA IfsEndStep == \A f \in Ifss : IInv /\ IfsEnd(f) => IInv'
<1> SUFFICES ASSUME NEW f \in Ifss, IInv, IfsEnd(f) PROVE IInv'
  OBVIOUS
<1> USE DEF IInv
<1>1. /\ Runs(f, "end") /\ Returns
      /\ UNCHANGED <<live, listening, sticky, portIwi, iwiPort, table, ifsOf, iwsOf,
                     pageOf, ownerOf>>
  BY DEF IfsEnd, links
<1>2. f \in OnStack /\ f \in Started
  BY <1>1, RunsSets
<1>3. f # Port /\ f # Iwi /\ f \notin Iwss
  BY Addresses
<1>4. LinksGo
  BY <1>1 DEF LinksGo
<1>5. /\ stack' \in Seq(Frames) /\ Nested' /\ open' = open \ {f}
      /\ OnStack' = OnStack \ {f} /\ Started' = Started \ {f} /\ Todo' = Todo
      /\ PortEnds' => PortEnds
  BY <1>1, <1>4, ReturnsStack
<1>6. f \notin live
  BY <1>2, <1>3 DEF Closing
<1>7. TypeOK'
  BY <1>1, <1>5 DEF TypeOK
<1>8. Closing'
  BY <1>1, <1>2, <1>3, <1>5, <1>6, Addresses DEF Closing, TypeOK
<1>9. Inspector'
  BY <1>1, <1>2, <1>3, <1>5, Addresses DEF Inspector, TypeOK
<1>10. Clients'
  BY <1>1, <1>2, <1>3, <1>5, Addresses DEF Clients, TypeOK
<1>11. Files'
  BY <1>1, <1>2, <1>3, <1>5, <1>6, Addresses DEF Files, TypeOK
<1> QED BY <1>5, <1>7, <1>8, <1>9, <1>10, <1>11

-----------------------------------------------------------------------------
(* The steps between two cascades.                                           *)

\* Between two cascades nothing is being closed.
LEMMA IdleSets ==
    ASSUME Idle
    PROVE  OnStack = {} /\ Started = {} /\ Todo = {} /\ ~PortEnds
BY DEF Idle, OnStack, Started, Todo, PortEnds

\* The stack stays empty, or one callback starts.
LEMMA FirstFrame ==
    ASSUME NEW o \in Objs, stack' = <<Frame(o)>>
    PROVE  /\ stack' \in Seq(Frames) /\ Nested'
           /\ OnStack' = {o} /\ Started' = {} /\ Todo' = {} /\ ~PortEnds'
<1>1. Frame(o) \in Frames /\ Frame(o).obj = o /\ Frame(o).pc = "start" /\ Frame(o).todo = {}
  BY DEF Frame, Frames
<1>2. /\ stack' \in Seq(Frames) /\ Len(stack') = 1 /\ DOMAIN stack' = {1}
      /\ stack'[1] = Frame(o)
  BY <1>1
<1>3. Nested'
  BY <1>1, <1>2 DEF Nested
<1>4. OnStack' = {o}
  BY <1>1, <1>2 DEF OnStack
<1>5. Started' = {}
  BY <1>1, <1>2 DEF Started
<1>6. Todo' = {}
  BY <1>1, <1>2 DEF Todo
<1>7. ~PortEnds'
  BY <1>1, <1>2 DEF PortEnds
<1> QED BY <1>2, <1>3, <1>4, <1>5, <1>6, <1>7

\* A step between two cascades that starts none.
LEMMA StillIdle ==
    ASSUME Idle, stack' = stack
    PROVE  /\ stack' \in Seq(Frames) /\ Nested'
           /\ OnStack' = {} /\ Started' = {} /\ Todo' = {} /\ ~PortEnds'
<1>1. stack' = <<>>
  BY DEF Idle
<1>2. stack' \in Seq(Frames) /\ Nested'
  BY <1>1 DEF Nested
<1> QED BY <1>1, <1>2 DEF OnStack, Started, Todo, PortEnds

\* iwdp_on_attach opens the port and reaches the inspector, or closes the port again, with an
\* inspector that could not be told of us or without one.
LEMMA AttachStep == IInv /\ Attach => IInv'
<1> SUFFICES ASSUME IInv, Attach PROVE IInv'
  OBVIOUS
<1> USE DEF IInv
<1>1. /\ Idle /\ ~listening /\ listening'
      /\ UNCHANGED <<table, ifsOf, iwsOf, pageOf, ownerOf, upgraded>>
  BY DEF Attach
<1>2. OnStack = {} /\ Started = {} /\ Todo = {} /\ ~PortEnds
  BY <1>1, IdleSets
<1>3. Port \notin open /\ Iwi \notin open /\ ~portIwi /\ table = {} /\ live \cap Pages = {}
  BY <1>1, <1>2, Addresses DEF Closing, Inspector, Clients
<1>4. \/ /\ open' = open \cup {Port, Iwi} /\ live' = live \cup {Port, Iwi}
         /\ portIwi' = TRUE /\ iwiPort' = TRUE
         /\ \/ sticky' = TRUE /\ stack' = stack
            \/ sticky' = sticky /\ stack' = <<Frame(Port)>>
      \/ /\ open' = open \cup {Port} /\ live' = live \cup {Port}
         /\ stack' = <<Frame(Port)>>
         /\ sticky' = sticky /\ portIwi' = portIwi /\ iwiPort' = iwiPort
  BY DEF Attach
<1>5. Port \in Objs /\ Iwi \in Objs
  BY DEF Objs
<1>6. /\ stack' \in Seq(Frames) /\ Nested'
      /\ OnStack' \subseteq {Port} /\ Started' = {} /\ Todo' = {} /\ ~PortEnds'
      /\ Iwi \in open' \/ OnStack' = {Port}
  BY <1>1, <1>4, <1>5, FirstFrame, StillIdle
<1>7. TypeOK'
  BY <1>1, <1>4, <1>5, <1>6 DEF TypeOK
<1>8. Closing'
  BY <1>1, <1>2, <1>3, <1>4, <1>6, Addresses DEF Closing, TypeOK
<1>9. Inspector'
  <2>1. CASE Iwi \in open'
    BY <1>2, <1>3, <1>4, <1>6, <2>1, Addresses DEF Inspector
  <2>2. CASE Iwi \notin open'
    <3>1. OnStack' = {Port} /\ ~portIwi' /\ ~iwiPort' /\ live' = live \cup {Port}
      BY <1>3, <1>4, <1>6, <2>2 DEF Inspector
    <3> QED BY <1>3, <1>6, <1>7, <2>2, <3>1, Addresses DEF Inspector, TypeOK
  <2> QED BY <2>1, <2>2
<1>10. Clients'
  BY <1>1, <1>2, <1>3, <1>4, <1>6, Addresses DEF Clients, TypeOK
<1>11. Files'
  BY <1>1, <1>2, <1>4, <1>6, Addresses DEF Files, TypeOK
<1> QED BY <1>6, <1>7, <1>8, <1>9, <1>10, <1>11

\* iwdp_iport_accept adds a client.
LEMMA AcceptStep == \A s \in Iwss : IInv /\ Accept(s) => IInv'
<1> SUFFICES ASSUME NEW s \in Iwss, IInv, Accept(s) PROVE IInv'
  OBVIOUS
<1> USE DEF IInv
<1>1. /\ Idle /\ Port \in open /\ s \notin live
      /\ open' = open \cup {s} /\ live' = live \cup {s} /\ table' = table \cup {s}
      /\ UNCHANGED <<listening, sticky, portIwi, iwiPort, ifsOf, iwsOf, pageOf, ownerOf, stack>>
  BY DEF Accept
<1>2. OnStack = {} /\ Started = {} /\ Todo = {} /\ ~PortEnds
  BY <1>1, IdleSets
<1>3. /\ stack' \in Seq(Frames) /\ Nested'
      /\ OnStack' = {} /\ Started' = {} /\ Todo' = {} /\ ~PortEnds'
  BY <1>1, StillIdle
<1>4. s \in Objs /\ s # Port /\ s # Iwi /\ s \notin Ifss /\ s \notin Pages /\ s \notin table
  BY <1>1, <1>2, Addresses DEF Objs, Closing
<1>5. ifsOf[s] = Null /\ pageOf[s] = Null
  BY <1>1 DEF Clients
<1>6. TypeOK'
  BY <1>1, <1>3, <1>4 DEF TypeOK
<1>7. Closing'
  BY <1>1, <1>2, <1>3, <1>4, Addresses DEF Closing, TypeOK
<1>8. Inspector'
  BY <1>1, <1>2, <1>3, <1>4, Addresses DEF Inspector, TypeOK
<1>9. Clients'
  BY <1>1, <1>2, <1>3, <1>4, <1>5, Addresses DEF Clients, TypeOK
<1>10. Files'
  BY <1>1, <1>2, <1>3, <1>4, <1>5, Addresses DEF Files, TypeOK
<1> QED BY <1>3, <1>6, <1>7, <1>8, <1>9, <1>10

\* A client gets a connection to a static server.
LEMMA StaticRequestStep == \A s \in Iwss, f \in Ifss : IInv /\ StaticRequest(s, f) => IInv'
<1> SUFFICES ASSUME NEW s \in Iwss, NEW f \in Ifss, IInv, StaticRequest(s, f) PROVE IInv'
  OBVIOUS
<1> USE DEF IInv
<1>1. /\ Idle /\ s \in open /\ f \notin live /\ (ifsOf[s] # Null => Overlap)
      /\ open' = open \cup {f} /\ live' = live \cup {f}
      /\ ifsOf' = [ifsOf EXCEPT ![s] = f] /\ iwsOf' = [iwsOf EXCEPT ![f] = s]
      /\ UNCHANGED <<listening, sticky, portIwi, iwiPort, table, pageOf, ownerOf, stack>>
  BY DEF StaticRequest
<1>2. OnStack = {} /\ Started = {} /\ Todo = {} /\ ~PortEnds
  BY <1>1, IdleSets
<1>3. /\ stack' \in Seq(Frames) /\ Nested'
      /\ OnStack' = {} /\ Started' = {} /\ Todo' = {} /\ ~PortEnds'
  BY <1>1, StillIdle
<1>4. f \in Objs /\ f # Port /\ f # Iwi /\ f \notin Iwss /\ f \notin Pages /\ f # Null
  BY Addresses DEF Objs
<1>5. s \in live /\ s # Null /\ s # f
  BY <1>1, <1>2, Addresses DEF Closing
<1>6. TypeOK'
  BY <1>1, <1>3, <1>4 DEF TypeOK
<1>7. Closing'
  BY <1>1, <1>2, <1>3, <1>4, Addresses DEF Closing, TypeOK
<1>8. Inspector'
  BY <1>1, <1>2, <1>3, <1>4, Addresses DEF Inspector, TypeOK
<1>9. Clients'
  BY <1>1, <1>2, <1>3, <1>4, <1>5, Addresses DEF Clients, TypeOK
<1>10. Files'
  <2> SUFFICES ASSUME ~Overlap PROVE Files'
    BY DEF Files
  <2>1. ASSUME NEW c \in Iwss \cap live', ifsOf'[c] # Null
        PROVE  ifsOf'[c] \in live' /\ iwsOf'[ifsOf'[c]] = c
    <3>1. CASE c = s
      BY <1>1, <3>1 DEF TypeOK
    <3>2. CASE c # s
      <4>1. c \in (Iwss \cap live) \ Started /\ ifsOf'[c] = ifsOf[c] /\ ifsOf[c] \in Ifss
        BY <1>1, <1>2, <1>4, <2>1, <3>2 DEF TypeOK
      <4>2. ifsOf[c] \in live /\ iwsOf[ifsOf[c]] = c
        BY <2>1, <4>1 DEF Files
      <4> QED BY <1>1, <4>1, <4>2 DEF TypeOK
    <3> QED BY <3>1, <3>2
  <2>2. ASSUME NEW h \in Ifss \cap live'
        PROVE  iwsOf'[h] \in Iwss \cap live' /\ ifsOf'[iwsOf'[h]] = h
    <3>1. CASE h = f
      BY <1>1, <1>5, <3>1 DEF TypeOK
    <3>2. CASE h # f
      <4>1. h \in Ifss \cap live /\ iwsOf'[h] = iwsOf[h]
        BY <1>1, <2>2, <3>2 DEF TypeOK
      <4>2. iwsOf[h] \in Iwss \cap live /\ ifsOf[iwsOf[h]] = h
        BY <1>2, <4>1 DEF Files
      <4>3. iwsOf[h] # s
        BY <1>1, <4>2, Addresses
      <4> QED BY <1>1, <4>1, <4>2, <4>3 DEF TypeOK
    <3> QED BY <3>1, <3>2
  <2> QED BY <1>3, <2>1, <2>2 DEF Files
<1> QED BY <1>3, <1>6, <1>7, <1>8, <1>9, <1>10

\* A page is listed.
LEMMA NewPageStep == \A p \in Pages : IInv /\ NewPage(p) => IInv'
<1> SUFFICES ASSUME NEW p \in Pages, IInv, NewPage(p) PROVE IInv'
  OBVIOUS
<1> USE DEF IInv
<1>1. /\ Idle /\ Iwi \in open /\ p \notin live /\ live' = live \cup {p}
      /\ UNCHANGED <<open, listening, sticky, portIwi, iwiPort, table, ifsOf, iwsOf,
                     pageOf, ownerOf, stack>>
  BY DEF NewPage, links
<1>2. OnStack = {} /\ Started = {} /\ Todo = {} /\ ~PortEnds
  BY <1>1, IdleSets
<1>3. /\ stack' \in Seq(Frames) /\ Nested'
      /\ OnStack' = {} /\ Started' = {} /\ Todo' = {} /\ ~PortEnds'
  BY <1>1, StillIdle
<1>4. p # Port /\ p # Iwi /\ p \notin Iwss /\ p \notin Ifss
  BY Addresses
<1>5. TypeOK'
  BY <1>1, <1>3 DEF TypeOK
<1>6. Closing'
  BY <1>1, <1>2, <1>3, <1>4, Addresses DEF Closing, TypeOK
<1>7. Inspector'
  BY <1>1, <1>2, <1>3, <1>4, Addresses DEF Inspector, Closing
<1>8. Clients'
  BY <1>1, <1>2, <1>3, <1>4, Addresses DEF Clients, TypeOK
<1>9. Files'
  BY <1>1, <1>2, <1>3, <1>4, Addresses DEF Files, TypeOK
<1> QED BY <1>3, <1>5, <1>6, <1>7, <1>8, <1>9

\* A client takes a page from its owner.
LEMMA InspectStep == \A s \in Iwss, p \in Pages : IInv /\ Inspect(s, p) => IInv'
<1> SUFFICES ASSUME NEW s \in Iwss, NEW p \in Pages, IInv, Inspect(s, p) PROVE IInv'
  OBVIOUS
<1> USE DEF IInv
<1>1. /\ Idle /\ s \in open /\ p \in live
      /\ pageOf' = [c \in Iwss |-> IF c = s THEN p ELSE IF c = ownerOf[p] THEN Null ELSE pageOf[c]]
      /\ ownerOf' = [ownerOf EXCEPT ![p] = s]
      /\ UNCHANGED <<open, live, listening, sticky, portIwi, iwiPort, table, ifsOf, iwsOf, stack>>
  BY DEF Inspect
<1>2. OnStack = {} /\ Started = {} /\ Todo = {} /\ ~PortEnds
  BY <1>1, IdleSets
<1>3. /\ stack' \in Seq(Frames) /\ Nested'
      /\ OnStack' = {} /\ Started' = {} /\ Todo' = {} /\ ~PortEnds'
  BY <1>1, StillIdle
<1>4. s \in live /\ p # Null
  BY <1>1, <1>2, Addresses DEF Closing
<1>5. pageOf' \in [Iwss -> Pages \cup {Null}] /\ ownerOf' \in [Pages -> Iwss \cup {Null}]
  BY <1>1 DEF TypeOK
<1>6. TypeOK'
  BY <1>1, <1>3, <1>5 DEF TypeOK
<1>7. Closing'
  BY <1>1, <1>2, <1>3, Addresses DEF Closing, TypeOK
<1>8. Inspector'
  BY <1>1, <1>2, <1>3, Addresses DEF Inspector
<1>9. Clients'
  <2>1. \A c \in table : pageOf'[c] # Null =>
            pageOf'[c] \in live' /\ ownerOf'[pageOf'[c]] = c
    <3> SUFFICES ASSUME NEW c \in table, pageOf'[c] # Null
                 PROVE  pageOf'[c] \in live' /\ ownerOf'[pageOf'[c]] = c
      OBVIOUS
    <3>1. CASE c = s
      BY <1>1, <3>1 DEF TypeOK
    <3>2. CASE c # s
      <4>1. c \in Iwss /\ pageOf'[c] = pageOf[c] /\ c # ownerOf[p]
        BY <1>1, <3>2 DEF TypeOK
      <4>2. pageOf[c] \in live /\ ownerOf[pageOf[c]] = c /\ pageOf[c] \in Pages
        BY <1>2, <4>1 DEF Clients, TypeOK
      <4> QED BY <1>1, <4>1, <4>2 DEF TypeOK
    <3> QED BY <3>1, <3>2
  <2>2. \A c \in Iwss \ live' : ifsOf'[c] = Null /\ pageOf'[c] = Null
    BY <1>1, <1>4 DEF Clients
  <2> QED BY <1>1, <1>2, <1>3, <2>1, <2>2 DEF Clients
<1>10. Files'
  BY <1>1, <1>2, <1>3 DEF Files
<1> QED BY <1>3, <1>6, <1>7, <1>8, <1>9, <1>10

\* The loop, or a detach, starts a cascade.
LEMMA RemoveFdStep == \A o \in Objs : IInv /\ RemoveFd(o) => IInv'
<1> SUFFICES ASSUME NEW o \in Objs, IInv, RemoveFd(o) PROVE IInv'
  OBVIOUS
<1> USE DEF IInv
<1>1. /\ Idle /\ o \in open /\ stack' = <<Frame(o)>>
      /\ UNCHANGED <<open, live, listening, sticky, portIwi, iwiPort, table, ifsOf, iwsOf,
                     pageOf, ownerOf>>
  BY DEF RemoveFd, links
<1>2. OnStack = {} /\ Started = {} /\ Todo = {} /\ ~PortEnds
  BY <1>1, IdleSets
<1>3. /\ stack' \in Seq(Frames) /\ Nested'
      /\ OnStack' = {o} /\ Started' = {} /\ Todo' = {} /\ ~PortEnds'
  BY <1>1, FirstFrame
<1>4. TypeOK'
  BY <1>1, <1>3 DEF TypeOK
<1>5. Closing'
  BY <1>1, <1>2, <1>3 DEF Closing, TypeOK
<1>6. Inspector'
  BY <1>1, <1>2, <1>3 DEF Inspector
<1>7. Clients'
  BY <1>1, <1>2, <1>3 DEF Clients
<1>8. Files'
  BY <1>1, <1>2, <1>3 DEF Files
<1> QED BY <1>3, <1>4, <1>5, <1>6, <1>7, <1>8

\* Nothing happens.
LEMMA StutterStep == IInv /\ UNCHANGED vars => IInv'
<1> SUFFICES ASSUME IInv, UNCHANGED vars PROVE IInv'
  OBVIOUS
<1> USE DEF IInv, vars, links
<1>1. /\ OnStack' = OnStack /\ Started' = Started /\ Todo' = Todo /\ PortEnds' = PortEnds
  BY DEF OnStack, Started, Todo, PortEnds
<1>2. TypeOK'
  BY DEF TypeOK
<1>3. Nested'
  BY DEF Nested, CalledBy
<1>4. Closing' /\ Inspector'
  BY <1>1 DEF Closing, Inspector
<1>5. Clients' /\ Files'
  BY <1>1 DEF Clients, Files
<1> QED BY <1>2, <1>3, <1>4, <1>5

-----------------------------------------------------------------------------

\* The invariant holds at first.
LEMMA IndInit == Init => IInv
<1> SUFFICES ASSUME Init PROVE IInv
  OBVIOUS
<1>1. Idle /\ stack \in Seq(Frames)
  BY DEF Init, Idle
<1>2. OnStack = {} /\ Started = {} /\ Todo = {} /\ ~PortEnds
  BY <1>1, IdleSets
<1>3. Nested
  BY DEF Init, Nested
<1> QED BY <1>1, <1>2, <1>3 DEF Init, IInv, TypeOK, Closing, Inspector, Clients, Files

\* Every step keeps it.
LEMMA IndStep == IInv /\ [Next]_vars => IInv'
<1> SUFFICES ASSUME IInv, [Next]_vars PROVE IInv'
  OBVIOUS
<1>1. CASE Cascade
  BY <1>1, PortStartStep, PortClientStep, PortInspectorStep, PortEndStep, IwsStartStep,
     IwsEndStep, IwiStartStep, IwiEndStep, IfsStartStep, IfsEndStep DEF Cascade
<1>2. CASE ~Cascade
  BY <1>2, AttachStep, AcceptStep, StaticRequestStep, NewPageStep, InspectStep,
     RemoveFdStep, StutterStep DEF Next
<1> QED BY <1>1, <1>2

\* The callbacks keep the inductive invariant: at every point of every cascade, however it
\* started and whatever it has closed so far, the stack is nested without repetition, and the
\* links that are left lead to something that is allocated, but for the page of a client that
\* is not closed yet when the inspector's close has freed the pages.
THEOREM Inductive == Spec => []IInv
BY IndInit, IndStep, PTL DEF Spec

-----------------------------------------------------------------------------
(* The contract with the select loop.                                        *)

\* The stack as the contract sees it.
ObjsOf(st) == [i \in DOMAIN st |-> st[i].obj]

\* The objects of a stack are a sequence as long as the stack.
LEMMA ObjsOfSeq ==
    ASSUME NEW st \in Seq(Frames)
    PROVE  /\ ObjsOf(st) \in Seq(Objs) /\ Len(ObjsOf(st)) = Len(st) /\ Len(st) \in Nat
           /\ DOMAIN ObjsOf(st) = 1..Len(st)
           /\ \A i \in 1..Len(st) : ObjsOf(st)[i] = st[i].obj
<1>1. Len(st) \in Nat /\ DOMAIN st = 1..Len(st)
  BY LenProperties
<1>2. \A i \in 1..Len(st) : st[i] \in Frames
  BY ElementOfSeq
<1>3. \A i \in 1..Len(st) : st[i].obj \in Objs
  BY <1>2 DEF Frames
<1>4. /\ DOMAIN ObjsOf(st) = 1..Len(st)
      /\ \A i \in 1..Len(st) : ObjsOf(st)[i] = st[i].obj
  BY <1>1 DEF ObjsOf
<1>5. ObjsOf(st) \in [1..Len(st) -> Objs]
  BY <1>1, <1>3 DEF ObjsOf
<1>6. ObjsOf(st) \in Seq(Objs)
  BY <1>1, <1>5, SeqDef
<1>7. Len(ObjsOf(st)) = Len(st)
  BY <1>1, <1>4, <1>6, LenProperties
<1> QED BY <1>1, <1>4, <1>6, <1>7

\* The contract sees nothing of a step without call or return.
LEMMA ReplacedObjs ==
    ASSUME stack \in Seq(Frames), stack # <<>>, NEW g \in Frames, g.obj = stack[1].obj,
           stack' = <<g>> \o Tail(stack)
    PROVE  ObjsOf(stack') = ObjsOf(stack)
<1>1. /\ stack' \in Seq(Frames) /\ Len(stack') = Len(stack)
      /\ stack'[1] = g /\ \A i \in 2..Len(stack) : stack'[i] = stack[i]
  BY Replaced
<1>2. /\ ObjsOf(stack) \in Seq(Objs) /\ Len(ObjsOf(stack)) = Len(stack) /\ Len(stack) \in Nat
      /\ \A i \in 1..Len(stack) : ObjsOf(stack)[i] = stack[i].obj
  BY ObjsOfSeq
<1>3. /\ ObjsOf(stack') \in Seq(Objs) /\ Len(ObjsOf(stack')) = Len(stack)
      /\ \A i \in 1..Len(stack) : ObjsOf(stack')[i] = stack'[i].obj
  BY <1>1, ObjsOfSeq
<1>4. \A i \in 1..Len(stack) : i = 1 \/ i \in 2..Len(stack)
  BY <1>2
<1>5. \A i \in 1..Len(stack) : ObjsOf(stack')[i] = ObjsOf(stack)[i]
  BY <1>1, <1>2, <1>3, <1>4
<1> QED BY <1>2, <1>3, <1>5, SeqEqual

\* It sees a call as an on_close that begins.
LEMMA PushedObjs ==
    ASSUME stack \in Seq(Frames), stack # <<>>, NEW o \in Objs,
           NEW g \in Frames, g.obj = stack[1].obj,
           \/ stack' = <<Frame(o)>> \o (<<g>> \o Tail(stack))
           \/ stack' = <<Frame(o), g>> \o Tail(stack)
    PROVE  ObjsOf(stack') = <<o>> \o ObjsOf(stack)
<1>0. Frame(o) \in Frames /\ Frame(o).obj = o
  BY DEF Frame, Frames
<1>1. /\ stack' \in Seq(Frames) /\ Len(stack') = Len(stack) + 1
      /\ stack'[1] = Frame(o) /\ stack'[2] = g
      /\ \A i \in 3..(Len(stack) + 1) : stack'[i] = stack[i - 1]
  BY <1>0, Pushed
<1> DEFINE c == ObjsOf(stack)
<1>2. /\ c \in Seq(Objs) /\ Len(c) = Len(stack) /\ Len(stack) \in Nat \ {0}
      /\ \A i \in 1..Len(stack) : c[i] = stack[i].obj
  BY ObjsOfSeq, Running
<1>3. /\ ObjsOf(stack') \in Seq(Objs) /\ Len(ObjsOf(stack')) = Len(stack) + 1
      /\ \A i \in 1..(Len(stack) + 1) : ObjsOf(stack')[i] = stack'[i].obj
  BY <1>1, ObjsOfSeq
<1> HIDE DEF c
<1> DEFINE r == <<o>> \o c
<1>4. <<o>> \in Seq(Objs) /\ Len(<<o>>) = 1 /\ <<o>>[1] = o
  OBVIOUS
<1>5. /\ r \in Seq(Objs) /\ Len(r) = 1 + Len(c)
      /\ \A i \in 1..(1 + Len(c)) : r[i] = IF i <= 1 THEN <<o>>[i] ELSE c[i - 1]
  BY <1>2, <1>4, ConcatProperties
<1> HIDE DEF r
<1>6. ASSUME NEW i \in 1..(Len(stack) + 1) PROVE ObjsOf(stack')[i] = r[i]
  <2>1. CASE i = 1
    BY <1>0, <1>1, <1>2, <1>3, <1>4, <1>5, <2>1
  <2>2. CASE i = 2
    BY <1>1, <1>2, <1>3, <1>5, <2>2
  <2>3. CASE i \in 3..(Len(stack) + 1)
    <3>1. i - 1 \in 1..Len(stack) /\ i \in 1..(1 + Len(c)) /\ ~(i <= 1)
      BY <1>2, <2>3
    <3>2. r[i] = c[i - 1] /\ c[i - 1] = stack[i - 1].obj
      BY <1>2, <1>5, <3>1
    <3> QED BY <1>1, <1>3, <2>3, <3>2
  <2> QED BY <1>2, <2>1, <2>2, <2>3
<1>7. ObjsOf(stack') = r
  BY <1>2, <1>3, <1>5, <1>6, SeqEqual
<1> QED BY <1>7 DEF c, r

\* It sees a return as the innermost on_close that ends.
LEMMA PoppedObjs ==
    ASSUME stack \in Seq(Frames), stack # <<>>, stack' = Tail(stack)
    PROVE  /\ ObjsOf(stack') = Tail(ObjsOf(stack))
           /\ ObjsOf(stack) # <<>> /\ Head(ObjsOf(stack)) = stack[1].obj
<1> DEFINE c == ObjsOf(stack)
<1>1. /\ stack' \in Seq(Frames) /\ Len(stack') = Len(stack) - 1
      /\ \A i \in 1..(Len(stack) - 1) : stack'[i] = stack[i + 1]
  BY Popped
<1>2. /\ c \in Seq(Objs) /\ Len(c) = Len(stack) /\ Len(stack) \in Nat \ {0}
      /\ \A i \in 1..Len(stack) : c[i] = stack[i].obj
  BY ObjsOfSeq, Running
<1>3. /\ ObjsOf(stack') \in Seq(Objs) /\ Len(ObjsOf(stack')) = Len(stack) - 1
      /\ \A i \in 1..(Len(stack) - 1) : ObjsOf(stack')[i] = stack'[i].obj
  BY <1>1, ObjsOfSeq
<1> HIDE DEF c
<1>4. c # <<>>
  BY <1>2
<1>5. /\ Tail(c) \in Seq(Objs) /\ Len(Tail(c)) = Len(stack) - 1
      /\ \A i \in 1..(Len(stack) - 1) : Tail(c)[i] = c[i + 1]
  BY <1>2, <1>4, HeadTailProperties
<1>6. Head(c) = stack[1].obj
  BY <1>2, <1>4
<1>7. \A i \in 1..(Len(stack) - 1) : i + 1 \in 1..Len(stack)
  BY <1>2
<1>8. \A i \in 1..(Len(stack) - 1) : ObjsOf(stack')[i] = Tail(c)[i]
  BY <1>1, <1>2, <1>3, <1>5, <1>7
<1>9. ObjsOf(stack') = Tail(c)
  BY <1>3, <1>5, <1>8, SeqEqual
<1> QED BY <1>4, <1>6, <1>9 DEF c

\* A callback that starts is one that the contract allows.
LEMMA BeginsContract ==
    ASSUME stack \in Seq(Frames), NEW o \in open, o \notin OnStack, open' = open,
           ObjsOf(stack') = <<o>> \o ObjsOf(stack)
    PROVE  Removed!Next
<1>1. DOMAIN ObjsOf(stack) = 1..Len(stack) /\ DOMAIN stack = 1..Len(stack)
  BY ObjsOfSeq, LenProperties
<1>2. \A i \in DOMAIN ObjsOf(stack) : ObjsOf(stack)[i] # o
  BY <1>1, ObjsOfSeq DEF OnStack
<1>3. Removed!Begins(o)
  BY <1>2 DEF Removed!Begins, ObjsOf
<1> QED BY <1>3 DEF Removed!Next

\* A callback that goes on, with a call of one that is not running or without, is a step of
\* the contract or none.
LEMMA CallsContract ==
    ASSUME stack \in Seq(Frames), stack # <<>>, stack[1] \in Frames, open' = open,
           \/ GoesOn("end")
           \/ \E c \in Objs : Calls(c, "end") /\ (c \in open => c \notin OnStack)
    PROVE  Removed!Next \/ UNCHANGED Removed!vars
<1>1. /\ stack \in Seq(Frames) /\ stack # <<>> /\ stack[1] \in Frames
  OBVIOUS
<1>2. PICK g \in Frames : g = [stack[1] EXCEPT !.pc = "end"]
  BY <1>1 DEF Frames
<1>3. g.obj = stack[1].obj
  BY <1>1, <1>2 DEF Frames
<1>4. CASE stack' = <<g>> \o Tail(stack)
  <2>1. ObjsOf(stack') = ObjsOf(stack)
    BY <1>1, <1>3, <1>4, ReplacedObjs
  <2> QED BY <2>1 DEF Removed!vars, ObjsOf
<1>5. CASE \E c \in open \ OnStack : c \in Objs /\ stack' = <<Frame(c)>> \o (<<g>> \o Tail(stack))
  <2>1. PICK c \in open \ OnStack : c \in Objs /\ stack' = <<Frame(c)>> \o (<<g>> \o Tail(stack))
    BY <1>5
  <2>2. ObjsOf(stack') = <<c>> \o ObjsOf(stack)
    BY <1>1, <1>3, <2>1, PushedObjs
  <2> QED BY <1>1, <2>1, <2>2, BeginsContract
<1> QED BY <1>2, <1>4, <1>5 DEF Calls, GoesOn

\* A callback that returns is an on_close that ends.
LEMMA ReturnsContract ==
    ASSUME TypeOK, Nested, NEW o, Runs(o, "end"), Returns
    PROVE  Removed!Next
<1>1. stack \in Seq(Frames) /\ stack # <<>>
  BY RunsSets
<1>2. /\ ObjsOf(stack') = Tail(ObjsOf(stack))
      /\ ObjsOf(stack) # <<>> /\ Head(ObjsOf(stack)) = stack[1].obj
  BY <1>1, PoppedObjs DEF Returns
<1>3. Removed!Ends
  BY <1>2 DEF Removed!Ends, Returns, ObjsOf
<1> QED BY <1>3 DEF Removed!Next

\* Every step of a callback is a step of the contract, or none: what it removes is open, and its
\* callback does not run.
LEMMA CascadeContract ==
    ASSUME IInv, Cascade
    PROVE  Removed!Next \/ UNCHANGED Removed!vars
<1> USE DEF IInv
<1>0. TypeOK /\ Nested
  OBVIOUS
<1>1. CASE PortStart
  <2>1. /\ stack \in Seq(Frames) /\ stack # <<>> /\ stack[1] \in Frames
    BY <1>1, RunsSets DEF PortStart
  <2>2. PICK g \in Frames : g = [stack[1] EXCEPT !.pc = "clients", !.todo = table]
    BY <2>1 DEF Frames, TypeOK
  <2>3. g.obj = stack[1].obj
    BY <2>1, <2>2 DEF Frames
  <2>4. ObjsOf(stack') = ObjsOf(stack)
    BY <1>1, <2>1, <2>2, <2>3, ReplacedObjs DEF PortStart
  <2> QED BY <1>1, <2>4 DEF PortStart, Removed!vars, ObjsOf
<1>2. ASSUME NEW s \in Iwss, PortClient(s) PROVE Removed!Next
  <2>1. /\ stack \in Seq(Frames) /\ stack # <<>> /\ stack[1] \in Frames /\ Todo = stack[1].todo
    BY <1>2, RunsSets DEF PortClient
  <2>2. PICK g \in Frames : g = [stack[1] EXCEPT !.todo = @ \ {s}]
    BY <2>1 DEF Frames
  <2>3. g.obj = stack[1].obj
    BY <2>1, <2>2 DEF Frames
  <2>4. s \in Objs /\ s \in open /\ s \notin OnStack /\ open' = open
    BY <1>2, <2>1 DEF PortClient, Closing, Objs
  <2>5. stack' = <<Frame(s), g>> \o Tail(stack)
    BY <1>2, <2>2 DEF PortClient, ClientLoop
  <2>6. ObjsOf(stack') = <<s>> \o ObjsOf(stack)
    BY <2>1, <2>3, <2>4, <2>5, PushedObjs
  <2> QED BY <2>1, <2>4, <2>6, BeginsContract
<1>3. CASE PortInspector
  <2>1. portIwi => Iwi \in Objs /\ Iwi \notin OnStack
    BY <1>3, RunsSets, Addresses DEF PortInspector, Inspector, Objs
  <2>2. GoesOn("end") \/ \E c \in Objs : Calls(c, "end") /\ (c \in open => c \notin OnStack)
    BY <1>3, <2>1 DEF PortInspector
  <2>3. stack \in Seq(Frames) /\ stack # <<>> /\ stack[1] \in Frames /\ open' = open
    BY <1>3, RunsSets DEF PortInspector
  <2> QED BY <2>2, <2>3, CallsContract
<1>4. ASSUME NEW s \in Iwss, IwsStart(s) PROVE Removed!Next \/ UNCHANGED Removed!vars
  <2>1. ifsOf[s] # Null => ifsOf[s] \in Objs /\ ifsOf[s] \notin OnStack
    BY <1>4, RunsIws DEF IwsStart, TypeOK, Objs
  <2>2. GoesOn("end") \/ \E c \in Objs : Calls(c, "end") /\ (c \in open => c \notin OnStack)
    BY <1>4, <2>1 DEF IwsStart, CloseIfs
  <2>3. stack \in Seq(Frames) /\ stack # <<>> /\ stack[1] \in Frames /\ open' = open
    BY <1>4, RunsSets DEF IwsStart
  <2> QED BY <2>2, <2>3, CallsContract
<1>5. CASE IwiStart
  <2>1. iwiPort => Port \in Objs /\ Port \notin OnStack
    BY <1>5, RunsIwi, Addresses DEF IwiStart, Inspector, Objs
  <2>2. GoesOn("end") \/ \E c \in Objs : Calls(c, "end") /\ (c \in open => c \notin OnStack)
    BY <1>5, <2>1 DEF IwiStart
  <2>3. stack \in Seq(Frames) /\ stack # <<>> /\ stack[1] \in Frames /\ open' = open
    BY <1>5, RunsSets DEF IwiStart
  <2> QED BY <2>2, <2>3, CallsContract
<1>6. ASSUME NEW f \in Ifss, IfsStart(f) PROVE Removed!Next \/ UNCHANGED Removed!vars
  <2>1. iwsOf[f] # Null => iwsOf[f] \in Objs /\ iwsOf[f] \notin OnStack
    BY <1>6, RunsIfs, Addresses DEF IfsStart, TypeOK, Objs
  <2>2. GoesOn("end") \/ \E c \in Objs : Calls(c, "end") /\ (c \in open => c \notin OnStack)
    BY <1>6, <2>1 DEF IfsStart
  <2>3. stack \in Seq(Frames) /\ stack # <<>> /\ stack[1] \in Frames /\ open' = open
    BY <1>6, RunsSets DEF IfsStart
  <2> QED BY <2>2, <2>3, CallsContract
<1>7. CASE \/ PortEnd \/ IwiEnd
           \/ \E s \in Iwss : IwsEnd(s)
           \/ \E f \in Ifss : IfsEnd(f)
  <2>1. \E o : Runs(o, "end") /\ Returns
    BY <1>7 DEF PortEnd, IwiEnd, IwsEnd, IfsEnd
  <2> QED BY <2>1, ReturnsContract
<1> QED BY <1>1, <1>2, <1>3, <1>4, <1>5, <1>6, <1>7 DEF Cascade

\* Between two cascades, descriptors that are opened, with one removed at once or none.
LEMMA OpensContract ==
    ASSUME IInv, NEW new \in SUBSET Objs, new # {}, new \cap open = {}, open' = open \cup new, Idle,
           stack' = stack \/ \E o \in new : stack' = <<Frame(o)>>
    PROVE  Removed!Next
<1>1. ObjsOf(stack) = <<>>
  BY DEF Idle, ObjsOf
<1>2. ObjsOf(stack') \in {<<>>} \cup {<<o>> : o \in new}
  <2>1. CASE stack' = stack
    BY <1>1, <2>1
  <2>2. ASSUME NEW o \in new, stack' = <<Frame(o)>> PROVE ObjsOf(stack') = <<o>>
    BY <2>2 DEF ObjsOf, Frame
  <2> QED BY <2>1, <2>2
<1>3. Removed!Opens
  BY <1>1, <1>2 DEF Removed!Opens, ObjsOf
<1> QED BY <1>3 DEF Removed!Next

\* Every other step is a step of the contract, or none.
LEMMA IdleContract ==
    ASSUME IInv, [Next]_vars, ~Cascade
    PROVE  Removed!Next \/ UNCHANGED Removed!vars
<1> USE DEF IInv
<1>1. CASE Attach
  <2>1. /\ Idle /\ Port \notin open /\ Iwi \notin open /\ Port \in Objs /\ Iwi \in Objs
    BY <1>1, IdleSets DEF Attach, Closing, Inspector, Objs
  <2>2. CASE open' = open \cup {Port, Iwi} /\ (stack' = stack \/ stack' = <<Frame(Port)>>)
    <3>1. PICK new \in SUBSET Objs : new = {Port, Iwi}
      BY <2>1
    <3> QED BY <2>1, <2>2, <3>1, OpensContract
  <2>3. CASE open' = open \cup {Port} /\ stack' = <<Frame(Port)>>
    <3>1. PICK new \in SUBSET Objs : new = {Port}
      BY <2>1
    <3> QED BY <2>1, <2>3, <3>1, OpensContract
  <2> QED BY <1>1, <2>2, <2>3 DEF Attach
<1>2. ASSUME NEW s \in Iwss, Accept(s) PROVE Removed!Next
  <2>1. s \notin open /\ s \in Objs
    BY <1>2, IdleSets DEF Accept, Closing, Objs
  <2>2. Idle /\ open' = open \cup {s} /\ stack' = stack
    BY <1>2 DEF Accept
  <2>3. PICK new \in SUBSET Objs : new = {s}
    BY <2>1
  <2> QED BY <2>1, <2>2, <2>3, OpensContract
<1>3. ASSUME NEW s \in Iwss, NEW f \in Ifss, StaticRequest(s, f) PROVE Removed!Next
  <2>1. f \notin open /\ f \in Objs
    BY <1>3, IdleSets DEF StaticRequest, Closing, Objs
  <2>2. Idle /\ open' = open \cup {f} /\ stack' = stack
    BY <1>3 DEF StaticRequest
  <2>3. PICK new \in SUBSET Objs : new = {f}
    BY <2>1
  <2> QED BY <2>1, <2>2, <2>3, OpensContract
<1>4. ASSUME NEW o \in Objs, RemoveFd(o) PROVE Removed!Next
  <2>1. /\ stack \in Seq(Frames) /\ o \in open /\ o \notin OnStack /\ open' = open
        /\ stack = <<>> /\ stack' = <<Frame(o)>>
    BY <1>4, IdleSets DEF RemoveFd, Idle, TypeOK
  <2>2. ObjsOf(stack) = <<>> /\ ObjsOf(stack') = <<o>>
    BY <2>1 DEF ObjsOf, Frame
  <2>3. ObjsOf(stack') = <<o>> \o ObjsOf(stack)
    BY <2>2
  <2> QED BY <2>1, <2>3, BeginsContract
<1>5. CASE \/ \E p \in Pages : NewPage(p)
           \/ \E s \in Iwss, p \in Pages : Inspect(s, p)
           \/ UNCHANGED vars
  BY <1>5 DEF NewPage, Inspect, vars, Removed!vars
<1> QED BY <1>1, <1>2, <1>3, <1>4, <1>5 DEF Next

\* RemovalsSpec, for any number of clients, pages and static server connections: however deep the
\* cascade, iwdp_iport_close, iwdp_iws_close, iwdp_iwi_close and iwdp_ifs_close never remove a
\* descriptor that is not open or whose own on_close is running.
THEOREM ImplementsRemovals == Spec => RemovalsSpec
<1>1. Init => Removed!Init
  BY DEF Init, Removed!Init
<1>2. IInv /\ [Next]_vars => [Removed!Next]_(Removed!vars)
  BY CascadeContract, IdleContract
<1> QED BY <1>1, <1>2, Inductive, PTL DEF Spec, RemovalsSpec, Removed!Spec

\* LinksLive, for any number of objects: no callback starts on a freed object, and none follows a
\* pointer to one but iwdp_iws_close under the inspector's close, which reads the page that was
\* freed before it (573-577 after 614); provided a client does not ask for a static file while one
\* is on its way to it.
THEOREM LinksAreLive == ASSUME Overlap = FALSE PROVE Spec => []LinksLive
<1>1. IInv => LinksLive
  <2> SUFFICES ASSUME IInv PROVE LinksLive
    OBVIOUS
  <2> USE DEF IInv
  <2>0. Started \subseteq OnStack
    BY DEF Started, OnStack
  <2>1. table \subseteq live /\ Todo \subseteq live /\ OnStack \ Started \subseteq live
    BY <2>0 DEF Closing
  <2>2. \A i \in DOMAIN stack : stack[i].pc = "start" => stack[i].obj \in live
    <3> SUFFICES ASSUME NEW i \in DOMAIN stack, stack[i].pc = "start"
                 PROVE  stack[i].obj \in live
      OBVIOUS
    <3>1. stack[i].obj \in OnStack
      BY DEF OnStack
    <3>2. stack[i].obj \notin Started
      BY DEF Started, Nested
    <3> QED BY <2>1, <3>1, <3>2
  <2>3. \A i \in DOMAIN stack : stack[i].todo \subseteq live
    BY <2>1 DEF Todo
  <2>4. ASSUME NEW s \in (Iwss \cap live) \ Started
        PROVE  /\ Port \in live /\ s \in table \cap open
               /\ ifsOf[s] # Null => ifsOf[s] \in live /\ iwsOf[ifsOf[s]] = s
               /\ pageOf[s] # Null => \/ pageOf[s] \in live /\ ownerOf[pageOf[s]] = s
                                      \/ Iwi \in Started
    <3>1. s \in table /\ Port \in open
      BY DEF Clients
    <3>3. pageOf[s] # Null => \/ pageOf[s] \in live /\ ownerOf[pageOf[s]] = s
                              \/ Iwi \in Started
      BY <3>1 DEF Clients
    <3>2. ifsOf[s] # Null => ifsOf[s] \in live /\ iwsOf[ifsOf[s]] = s
      BY DEF Files
    <3> QED BY <3>1, <3>2, <3>3 DEF Closing
  <2>5. ASSUME NEW f \in (Ifss \cap live) \ Started, iwsOf[f] # Null
        PROVE  iwsOf[f] \in live /\ ifsOf[iwsOf[f]] \in {f, Null}
    BY <2>5 DEF Files
  <2> QED BY <2>1, <2>2, <2>3, <2>4, <2>5 DEF LinksLive
<1> QED BY <1>1, Inductive, PTL

\* NothingLeaks, for any number of objects, under the same condition: after a cascade what belongs
\* together is open together, nothing is open that is freed, and after the port's nothing is left
\* but the port itself.
THEOREM NothingIsLeft == ASSUME Overlap = FALSE PROVE Spec => []NothingLeaks
<1>1. IInv => NothingLeaks
  <2> SUFFICES ASSUME IInv, Idle
               PROVE  /\ open \cup (live \cap {Port}) = live \ Pages
                      /\ \A f \in Ifss \cap open : iwsOf[f] \in open
                      /\ \A s \in Iwss \cap open :
                            pageOf[s] # Null => pageOf[s] \in live /\ ownerOf[pageOf[s]] = s
                      /\ Port \in open <=> Iwi \in open
                      /\ Port \notin open => live \subseteq {Port}
    BY DEF NothingLeaks
  <2> USE DEF IInv
  <2>1. OnStack = {} /\ Started = {} /\ Todo = {} /\ ~PortEnds
    BY IdleSets
  <2>2. open \cup (live \cap {Port}) = live \ Pages
    BY <2>1, Addresses DEF Closing, TypeOK
  <2>3. ASSUME NEW f \in Ifss \cap live PROVE iwsOf[f] \in Iwss \cap live
    BY <2>1 DEF Files
  <2>4. \A f \in Ifss \cap open : iwsOf[f] \in open
    BY <2>1, <2>3, Addresses DEF Closing
  <2>5. \A s \in Iwss \cap open :
            pageOf[s] # Null => pageOf[s] \in live /\ ownerOf[pageOf[s]] = s
    BY <2>1 DEF Closing, Clients
  <2>6. Port \in open <=> Iwi \in open
    BY <2>1 DEF Inspector
  <2>7. ASSUME Port \notin open PROVE live \subseteq {Port}
    <3>1. Iwi \notin live
      BY <2>1, <2>6, <2>7, Addresses DEF Closing
    <3>2. live \cap Pages = {}
      BY <3>1 DEF Inspector
    <3>3. live \cap Iwss = {}
      BY <2>1, <2>7 DEF Clients
    <3>4. live \cap Ifss = {}
      BY <2>3, <3>3
    <3> QED BY <3>1, <3>2, <3>3, <3>4 DEF TypeOK, Objs
  <2> QED BY <2>2, <2>4, <2>5, <2>6, <2>7
<1> QED BY <1>1, Inductive, PTL

=============================================================================
