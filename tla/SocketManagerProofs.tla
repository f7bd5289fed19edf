------------------------ MODULE SocketManagerProofs ------------------------
(***************************************************************************)
(* Theorems about the select loop, for any set of descriptors, messages    *)
(* and bounds.  The safety properties follow from one inductive invariant, *)
(* IndInv of module SocketManager; its conjuncts are proved one by one,    *)
(* each for every step of the loop, the client and the kernel.             *)
(***************************************************************************)
EXTENDS SocketManagerStreams, SequenceTheorems, FiniteSetTheorems,
        WellFoundedInduction, TLAPS

(***************************************************************************)
(* The four ways in which the queues of blocked sends change.              *)
(***************************************************************************)

Queues == [Fds -> Seq(Entry)]

\* sm_remove_fd keeps the length and the bytes of every queue.
LEMMA ForgetQueues ==
    ASSUME sendq \in Queues, NEW fd \in Fds, ForgetReceiver(fd)
    PROVE  /\ sendq' \in Queues
           /\ \A g \in Fds : Len(sendq'[g]) = Len(sendq[g])
           /\ \A g \in Fds : \A i \in 1..Len(sendq[g]) :
                /\ sendq'[g][i].recv = IF sendq[g][i].recv = fd THEN NoFd
                                       ELSE sendq[g][i].recv
                /\ sendq'[g][i].own = (sendq[g][i].own /\ g # fd)
<1>1. ASSUME NEW g \in Fds
      PROVE  /\ sendq'[g] \in Seq(Entry)
             /\ Len(sendq'[g]) = Len(sendq[g])
             /\ \A i \in 1..Len(sendq[g]) :
                /\ sendq'[g][i].recv = IF sendq[g][i].recv = fd THEN NoFd
                                       ELSE sendq[g][i].recv
                /\ sendq'[g][i].own = (sendq[g][i].own /\ g # fd)
  <2> DEFINE q == sendq[g]
             e(i) == [q[i] EXCEPT !.recv = IF @ = fd THEN NoFd ELSE @,
                                  !.own = @ /\ g # fd]
  <2>1. q \in Seq(Entry) /\ Len(q) \in Nat
    BY LenProperties DEF Queues
  <2>2. ASSUME NEW i \in 1..Len(q)
        PROVE  /\ q[i] \in Entry
               /\ e(i) \in Entry
               /\ e(i).recv = IF q[i].recv = fd THEN NoFd ELSE q[i].recv
               /\ e(i).own = (q[i].own /\ g # fd)
    <3>1. q[i] \in Entry
      BY <2>1, <2>2, ElementOfSeq
    <3> QED BY <3>1 DEF Entry
  <2>3. sendq'[g] = [i \in 1..Len(q) |-> e(i)]
    BY DEF ForgetReceiver
  <2>4. sendq'[g] \in [1..Len(q) -> Entry]
    BY <2>2, <2>3
  <2>5. sendq'[g] \in Seq(Entry) /\ Len(sendq'[g]) = Len(q)
    BY <2>1, <2>4, SeqDef, LenProperties
  <2>6. ASSUME NEW i \in 1..Len(q)
        PROVE  sendq'[g][i] = e(i)
    BY <2>3
  <2> HIDE DEF e
  <2> QED BY <2>2, <2>5, <2>6
<1>2. DOMAIN sendq' = Fds /\ sendq' = [g \in Fds |-> sendq'[g]]
  BY DEF ForgetReceiver
<1> QED BY <1>1, <1>2 DEF Queues

\* sm_send links one more entry at the end of a queue.
LEMMA AppendQueues ==
    ASSUME sendq \in Queues, NEW fd \in Fds, NEW e \in Entry,
           sendq' = [sendq EXCEPT ![fd] = Append(@, e)]
    PROVE  /\ sendq' \in Queues
           /\ Len(sendq[fd]) \in Nat
           /\ Len(sendq'[fd]) = Len(sendq[fd]) + 1
           /\ sendq'[fd] # <<>>
           /\ \A i \in 1..Len(sendq[fd]) : sendq'[fd][i] = sendq[fd][i]
           /\ sendq'[fd][Len(sendq[fd]) + 1] = e
           /\ \A g \in Fds \ {fd} : sendq'[g] = sendq[g]
<1>1. sendq[fd] \in Seq(Entry)
  BY DEF Queues
<1>2. sendq'[fd] = Append(sendq[fd], e)
  BY DEF Queues
<1>3. /\ sendq'[fd] \in Seq(Entry)
      /\ Len(sendq'[fd]) = Len(sendq[fd]) + 1
      /\ sendq'[fd] # <<>>
      /\ \A i \in 1..Len(sendq[fd]) : sendq'[fd][i] = sendq[fd][i]
      /\ sendq'[fd][Len(sendq[fd]) + 1] = e
  BY <1>1, <1>2, AppendProperties
<1>4. Len(sendq[fd]) \in Nat
  BY <1>1, LenProperties
<1> QED BY <1>3, <1>4 DEF Queues

\* sm_resend unlinks the head of a queue.
LEMMA TailQueues ==
    ASSUME sendq \in Queues, NEW fd \in Fds, sendq[fd] # <<>>,
           NEW q, q = [sendq EXCEPT ![fd] = Tail(@)]
    PROVE  /\ q \in Queues
           /\ sendq[fd][1] \in Entry /\ Head(sendq[fd]) = sendq[fd][1]
           /\ Len(sendq[fd]) \in Nat \ {0}
           /\ Len(q[fd]) = Len(sendq[fd]) - 1
           /\ \A g \in Fds \ {fd} : q[g] = sendq[g]
<1>1. sendq[fd] \in Seq(Entry) /\ q[fd] = Tail(sendq[fd])
  BY DEF Queues
<1>2. /\ q[fd] \in Seq(Entry)
      /\ Len(q[fd]) = Len(sendq[fd]) - 1
  BY <1>1, HeadTailProperties
<1>3. Len(sendq[fd]) \in Nat \ {0}
  BY <1>1, EmptySeq
<1>4. sendq[fd][1] \in Entry
  BY <1>1, <1>3, ElementOfSeq
<1>5. Head(sendq[fd]) = sendq[fd][1]
  BY <1>1
<1> QED BY <1>2, <1>3, <1>4, <1>5 DEF Queues

\* sm_resend moves the head pointer of the first entry.
LEMMA PartQueues ==
    ASSUME sendq \in Queues, NEW fd \in Fds, sendq[fd] # <<>>,
           NEW k \in 0..(Len(Head(sendq[fd]).rest) - 1),
           sendq' = [sendq EXCEPT ![fd] =
               <<[Head(sendq[fd]) EXCEPT !.rest = SubSeq(@, k + 1, Len(@))]>> \o Tail(@)]
    PROVE  /\ sendq' \in Queues
           /\ sendq'[fd] # <<>>
           /\ \A g \in Fds : Len(sendq'[g]) = Len(sendq[g])
           /\ \A g \in Fds : \A i \in 1..Len(sendq[g]) :
                sendq'[g][i].recv = sendq[g][i].recv /\ sendq'[g][i].own = sendq[g][i].own
<1> DEFINE q == sendq[fd]
           h == [q[1] EXCEPT !.rest = SubSeq(@, k + 1, Len(@))]
<1>1. q \in Seq(Entry)
  BY DEF Queues
<1>2. /\ q[1] \in Entry /\ Head(q) = q[1]
      /\ Len(q) \in Nat \ {0}
      /\ Tail(q) \in Seq(Entry) /\ Len(Tail(q)) = Len(q) - 1
      /\ \A i \in 1..Len(Tail(q)) : Tail(q)[i] = q[i + 1]
  BY <1>1, HeadTailProperties, EmptySeq, ElementOfSeq
<1>3. q[1].rest \in Seq(Nat) /\ Len(q[1].rest) \in Nat
  BY <1>2, LenProperties DEF Entry
<1>4. SubSeq(q[1].rest, k + 1, Len(q[1].rest)) \in Seq(Nat)
  <2>1. ASSUME NEW i \in (k + 1)..Len(q[1].rest) PROVE q[1].rest[i] \in Nat
    <3>1. i \in 1..Len(q[1].rest)
      BY <1>2, <1>3
    <3> QED BY <1>3, <3>1, ElementOfSeq
  <2> QED BY <2>1, <1>2, <1>3, SubSeqProperties
<1>5. h \in Entry /\ h.recv = q[1].recv /\ h.own = q[1].own
  BY <1>2, <1>4 DEF Entry
<1>6. sendq'[fd] = <<h>> \o Tail(q)
  BY <1>2 DEF Queues
<1>7. <<h>> \in Seq(Entry) /\ Len(<<h>>) = 1 /\ <<h>>[1] = h
  BY <1>5
<1>8. /\ sendq'[fd] \in Seq(Entry)
      /\ Len(sendq'[fd]) = Len(q)
      /\ \A i \in 1..Len(q) : sendq'[fd][i] = IF i = 1 THEN h ELSE q[i]
  <2> HIDE DEF h, q
  <2>1. /\ <<h>> \o Tail(q) \in Seq(Entry)
        /\ Len(<<h>> \o Tail(q)) = Len(<<h>>) + Len(Tail(q))
        /\ \A i \in 1..Len(<<h>>) + Len(Tail(q)) : (<<h>> \o Tail(q))[i] =
              IF i <= Len(<<h>>) THEN <<h>>[i] ELSE Tail(q)[i - Len(<<h>>)]
    BY <1>2, <1>7, ConcatProperties
  <2>2. Len(<<h>>) + Len(Tail(q)) = Len(q)
    BY <1>2, <1>7
  <2>3. ASSUME NEW i \in 1..Len(q)
        PROVE  sendq'[fd][i] = IF i = 1 THEN h ELSE q[i]
    <3>1. CASE i = 1
      BY <2>1, <2>2, <3>1, <1>6, <1>7
    <3>2. CASE i # 1
      <4>1. i - 1 \in 1..Len(Tail(q)) /\ i > 1
        BY <3>2, <1>2
      <4>2. Tail(q)[i - 1] = q[i]
        BY <4>1, <1>2
      <4> QED BY <2>1, <2>2, <4>1, <4>2, <1>6, <1>7
    <3> QED BY <3>1, <3>2
  <2> QED BY <2>1, <2>2, <2>3, <1>6
<1>9. sendq'[fd] # <<>>
  BY <1>8, <1>2, EmptySeq
<1>10. \A g \in Fds \ {fd} : sendq'[g] = sendq[g]
  BY DEF Queues
<1>11. sendq' \in Queues
  BY <1>8 DEF Queues
<1> QED BY <1>5, <1>8, <1>9, <1>10, <1>11

-----------------------------------------------------------------------------
(* Types.                                                                    *)

\* A part of a byte sequence is a byte sequence.
LEMMA PartOfBytes ==
    ASSUME NEW s \in Seq(Nat), NEW i \in Nat \ {0}, NEW j \in Int, j <= Len(s)
    PROVE  SubSeq(s, i, j) \in Seq(Nat)
<1>1. Len(s) \in Nat
  BY LenProperties
<1>2. \A k \in i..j : s[k] \in Nat
  BY <1>1, ElementOfSeq
<1> QED BY <1>2, SubSeqProperties

Outs == [fd : Fds \cup {NoFd}, data : Seq(Nat)]

\* What a step hands to the kernel is a record of a descriptor and bytes.
LEMMA EmitsType ==
    ASSUME NEW fd \in Fds, NEW s \in Seq(Nat)
    PROVE  Emits(fd, s) => out' \in Outs
BY EmptySeq DEF Emits, Quiet, Outs

\* A step that sends nothing has a typed output.
LEMMA QuietType == Quiet \in Outs
BY EmptySeq DEF Quiet, Outs

\* After the first part of sm_remove_fd the stack of closings still holds
\* descriptors.
LEMMA BeginRemoveType ==
    ASSUME TypeOK, NEW fd, BeginRemove(fd)
    PROVE  closing' \in Seq(Fds)
<1>1. CASE fd \in allFds
  <2>1. fd \in Fds /\ <<fd>> \in Seq(Fds)
    BY <1>1 DEF TypeOK
  <2> QED BY <1>1, <2>1, ConcatProperties DEF BeginRemove, TypeOK
<1>2. CASE fd \notin allFds
  BY <1>2 DEF BeginRemove, TypeOK
<1> QED BY <1>1, <1>2

\* The innermost closing is of a descriptor, and what is left is a stack still.
LEMMA HeadClosing ==
    ASSUME TypeOK, closing # <<>>
    PROVE  /\ Head(closing) \in Fds /\ Head(closing) = closing[1]
           /\ Tail(closing) \in Seq(Fds)
           /\ Len(closing) \in Nat \ {0}
           /\ Len(Tail(closing)) = Len(closing) - 1
           /\ \A i \in 1..Len(Tail(closing)) : Tail(closing)[i] = closing[i + 1]
<1>1. closing \in Seq(Fds)
  BY DEF TypeOK
<1> QED BY <1>1, HeadTailProperties, EmptySeq

\* sm_add_fd, whoever calls it.
LEMMA AddFdType ==
    ASSUME TypeOK, NEW fd \in Fds, NEW isServer \in BOOLEAN, AddFd(fd, isServer),
           UNCHANGED control
    PROVE  TypeOK'
<1>1. out' \in Outs
  BY QuietType DEF AddFd
<1> QED BY <1>1 DEF AddFd, TypeOK, control, Outs

\* The types are preserved; the actions are grouped by what they change.
LEMMA TypeStep ==
    ASSUME TypeOK, PlaceInv, [Next]_vars
    PROVE  TypeOK'
<1> USE QuietType
<1>q. sendq \in Queues
  BY DEF TypeOK, Queues
<1>1. CASE EndRemove
  <2> DEFINE fd == Head(closing)
  <2>1. closing # <<>> /\ fd \in Fds /\ Tail(closing) \in Seq(Fds)
    BY <1>1, HeadClosing DEF EndRemove
  <2>2. sendq' \in Queues
    BY <1>1, <1>q, <2>1, ForgetQueues DEF EndRemove
  <2>3. maxFd' \in Fds \cup {-1}
    BY <1>1 DEF EndRemove, LowerMaxFd, TypeOK
  <2> QED BY <1>1, <2>1, <2>2, <2>3
           DEF EndRemove, ClearBits, TypeOK, control, Queues, Outs
<1>2. CASE \E fd \in Fds, isServer \in BOOLEAN : ClientAdd(fd, isServer)
  BY <1>2, AddFdType DEF ClientAdd
<1>3. CASE \E fd \in Fds : ClientRemove(fd)
  <2>1. closing' \in Seq(Fds)
    BY <1>3, BeginRemoveType DEF ClientRemove
  <2> QED BY <1>3, <2>1 DEF ClientRemove, TypeOK, fdSets, polled, control, Outs
<1>4. CASE \E fd \in Fds, m \in Msgs : SendAll(fd, m)
  <2> PICK fd \in Fds, m \in Msgs : SendAll(fd, m)
    BY <1>4
  <2>1. out' \in Outs
    BY EmitsType, MsgsAssumption DEF SendAll
  <2> QED BY <2>1 DEF SendAll, TypeOK, fdSets, polled, control, Outs
<1>5. CASE \E fd \in Fds, m \in Msgs : \E k \in 0..Len(m) : SendFails(fd, m, k)
  <2> PICK fd \in Fds, m \in Msgs : \E k \in 0..Len(m) : SendFails(fd, m, k)
    BY <1>5
  <2> PICK k \in 0..Len(m) : SendFails(fd, m, k)
    OBVIOUS
  <2>1. m \in Seq(Nat) /\ Len(m) \in Nat
    BY MsgsAssumption, LenProperties
  <2>2. out' \in Outs
    <3>1. SubSeq(m, 1, k) \in Seq(Nat)
      BY <2>1, PartOfBytes
    <3>2. Emits(fd, SubSeq(m, 1, k))
      BY DEF SendFails
    <3> QED BY <3>1, <3>2, EmitsType
  <2> QED BY <2>2 DEF SendFails, TypeOK, fdSets, polled, control, Outs
<1>6. CASE \E fd \in Fds, m \in Msgs : \E k \in 0..Len(m) : SendQueues(fd, m, k)
  <2> PICK fd \in Fds, m \in Msgs : \E k \in 0..Len(m) : SendQueues(fd, m, k)
    BY <1>6
  <2> PICK k \in 0..Len(m) : SendQueues(fd, m, k)
    OBVIOUS
  <2> DEFINE e == [recv |-> currRecvFd, rest |-> SubSeq(m, k + 1, Len(m)), own |-> TRUE]
  <2>1. m \in Seq(Nat) /\ Len(m) \in Nat
    BY MsgsAssumption, LenProperties
  <2>2. out' \in Outs
    <3>1. SubSeq(m, 1, k) \in Seq(Nat)
      BY <2>1, PartOfBytes
    <3>2. Emits(fd, SubSeq(m, 1, k))
      BY DEF SendQueues
    <3> QED BY <3>1, <3>2, EmitsType
  <2>3. e \in Entry
    BY <2>1, PartOfBytes DEF Entry, TypeOK
  <2>4. sendq' \in Queues
    BY <1>q, <2>3, AppendQueues DEF SendQueues, Enqueue
  <2>5. sendFds' \subseteq allFds
    BY DEF SendQueues, MaySend, Enqueue, TypeOK
  <2> QED BY <2>2, <2>4, <2>5
           DEF SendQueues, BlockReceiver, TypeOK, control, Queues, Outs
<1>7. CASE \E w \in SUBSET sendFds, r \in SUBSET recvFds, x \in SUBSET allFds : Poll(w, r, x)
  <2> PICK w \in SUBSET sendFds, r \in SUBSET recvFds, x \in SUBSET allFds : Poll(w, r, x)
    BY <1>7
  <2>1. w \in SUBSET Fds /\ r \in SUBSET Fds /\ x \in SUBSET Fds
    BY DEF TypeOK
  <2>2. Cardinality(w) \in Nat /\ Cardinality(r) \in Nat /\ Cardinality(x) \in Nat
    BY <2>1, FdsAssumption, FS_Subset, FS_CardinalityType
  <2>3. numLeft' \in Int
    BY <2>2 DEF Poll
  <2> QED BY <2>1, <2>3 DEF Poll, TypeOK, fdSets, Phases, Outs
<1>8. CASE \E fd \in Fds : ScanFd(fd)
  <2> PICK fd \in Fds : ScanFd(fd)
    BY <1>8
  <2>1. closing' \in Seq(Fds)
    BY BeginRemoveType DEF ScanFd, TypeOK
  <2>2. phase' \in Phases /\ currRecvFd' \in Fds \cup {NoFd}
    BY DEF ScanFd, TypeOK, Phases
  <2>3. canRecv' = canRecv \/ canRecv' = (fd \in tmpRecv)
    BY DEF ScanFd
  <2>4. canRecv' \in BOOLEAN
    <3>1. (fd \in tmpRecv) \in BOOLEAN
      OBVIOUS
    <3>2. canRecv \in BOOLEAN
      BY DEF TypeOK
    <3> QED BY <2>3, <3>1, <3>2, Zenon
  <2> QED BY <2>1, <2>2, <2>4 DEF ScanFd, TypeOK, fdSets, Outs
<1>9. CASE \E fd \in Fds : AcceptClient(fd)
  BY <1>9, AddFdType DEF AcceptClient
<1>10. CASE \/ EnterLoop \/ ScanEnd \/ RecvInput \/ OnRecvReturns \/ RecvNoInput
            \/ RecvEnd \/ Quit \/ CleanupEnd
  BY <1>10 DEF EnterLoop, ScanEnd, RecvInput, OnRecvReturns, RecvNoInput, RecvEnd,
               Quit, CleanupEnd, TypeOK, fdSets, polled, Phases, Outs
<1>11. CASE AcceptEnd \/ RecvFails \/ \E fd \in Fds : CleanupFd(fd)
  <2>1. closing' \in Seq(Fds)
    BY <1>11, BeginRemoveType DEF AcceptEnd, RecvFails, CleanupFd, TypeOK
  <2> QED BY <1>11, <2>1
           DEF AcceptEnd, RecvFails, CleanupFd, TypeOK, fdSets, polled, Phases, Outs
<1>12. CASE ResendEntry
  <2> DEFINE left == [sendq EXCEPT ![at] = Tail(@)]
  <2>1. at \in Fds
    BY <1>12 DEF ResendEntry, PlaceInv
  <2>2. left \in Queues /\ Head(sendq[at]) \in Entry
    BY <1>12, <1>q, <2>1, TailQueues DEF ResendEntry
  <2>3. out' \in Outs
    BY <1>12, <2>1, <2>2, EmitsType DEF ResendEntry, Entry
  <2>4. sendFds' \subseteq allFds /\ recvFds' \subseteq allFds
    BY <1>12 DEF ResendEntry, Reenable, TypeOK
  <2> QED BY <1>12, <2>2, <2>3, <2>4
           DEF ResendEntry, TypeOK, polled, control, Queues, Outs
<1>13. CASE ResendPart
  <2>1. at \in Fds
    BY <1>13 DEF ResendPart, PlaceInv
  <2> DEFINE h == Head(sendq[at])
  <2> PICK k \in 0..(Len(h.rest) - 1) :
        /\ Emits(at, SubSeq(h.rest, 1, k))
        /\ sendq' = [sendq EXCEPT ![at] =
                       <<[h EXCEPT !.rest = SubSeq(@, k + 1, Len(@))]>> \o Tail(@)]
    BY <1>13 DEF ResendPart
  <2>2. sendq[at] # <<>>
    BY <1>13 DEF ResendPart
  <2>3. sendq' \in Queues
    BY <1>q, <2>1, <2>2, PartQueues
  <2>4. h \in Entry
    BY <1>q, <2>1, <2>2, HeadTailProperties DEF Queues
  <2>5. out' \in Outs
    <3>1. h.rest \in Seq(Nat) /\ Len(h.rest) \in Nat
      BY <2>4, LenProperties DEF Entry
    <3> HIDE DEF h
    <3>2. k \in Int /\ k <= Len(h.rest)
      BY <3>1
    <3>3. Emits(at, SubSeq(h.rest, 1, k)) /\ SubSeq(h.rest, 1, k) \in Seq(Nat)
      BY <3>1, <3>2, PartOfBytes
    <3> QED BY <2>1, <3>3, EmitsType
  <2> QED BY <1>13, <2>1, <2>3, <2>5
           DEF ResendPart, AfterResend, TypeOK, fdSets, polled, Queues, Outs, Phases
<1>14. CASE ResendFails
  <2>1. at \in Fds /\ sendq[at] # <<>>
    BY <1>14 DEF ResendFails, PlaceInv
  <2> DEFINE h == Head(sendq[at])
  <2> PICK k \in 0..(Len(h.rest) - 1) : Emits(at, SubSeq(h.rest, 1, k))
    BY <1>14 DEF ResendFails
  <2>2. h \in Entry
    BY <1>q, <2>1, HeadTailProperties DEF Queues
  <2>3. out' \in Outs
    <3>1. h.rest \in Seq(Nat) /\ Len(h.rest) \in Nat
      BY <2>2, LenProperties DEF Entry
    <3> HIDE DEF h
    <3>2. k \in Int /\ k <= Len(h.rest)
      BY <3>1
    <3>3. Emits(at, SubSeq(h.rest, 1, k)) /\ SubSeq(h.rest, 1, k) \in Seq(Nat)
      BY <3>1, <3>2, PartOfBytes
    <3> QED BY <2>1, <3>3, EmitsType
  <2>4. closing' \in Seq(Fds)
    BY <1>14, BeginRemoveType DEF ResendFails, TypeOK
  <2> QED BY <1>14, <2>1, <2>3, <2>4
           DEF ResendFails, TypeOK, fdSets, polled, Phases, Outs
<1>15. CASE ResendEnd
  <2>1. at \in Fds
    BY <1>15 DEF ResendEnd, PlaceInv
  <2> QED BY <1>15, <2>1
           DEF ResendEnd, AfterResend, TypeOK, fdSets, polled, Phases, Outs
<1>16. CASE UNCHANGED vars
  BY <1>16 DEF vars, TypeOK, fdSets, polled, control
<1> QED
  BY <1>1, <1>2, <1>3, <1>4, <1>5, <1>6, <1>7, <1>8, <1>9, <1>10, <1>11, <1>12,
     <1>13, <1>14, <1>15, <1>16 DEF Next, ClientStep, Terminated

-----------------------------------------------------------------------------
(* Who waits for whom.                                                       *)

\* Receivers wait for the same sends when the queues keep their lengths and
\* receivers, as when bytes of a head entry go out.
LEMMA SameWaits ==
    ASSUME NEW p, NEW q, NEW r,
           \A g \in Fds : Len(p[g]) = Len(q[g]),
           \A g \in Fds : \A i \in 1..Len(q[g]) : p[g][i].recv = q[g][i].recv
    PROVE  WaitsFor(p, r) <=> WaitsFor(q, r)
<1>1. ASSUME WaitsFor(p, r) PROVE WaitsFor(q, r)
  <2> PICK g \in Fds : \E i \in 1..Len(p[g]) : p[g][i].recv = r
    BY <1>1 DEF WaitsFor
  <2> QED BY DEF WaitsFor
<1>2. ASSUME WaitsFor(q, r) PROVE WaitsFor(p, r)
  <2> PICK g \in Fds : \E i \in 1..Len(q[g]) : q[g][i].recv = r
    BY <1>2 DEF WaitsFor
  <2> QED BY DEF WaitsFor
<1> QED BY <1>1, <1>2

\* After sm_remove_fd nobody waits in the name of the closed descriptor, and
\* the others wait as before.
LEMMA ForgetWaits ==
    ASSUME sendq \in Queues, NEW fd \in Fds, ForgetReceiver(fd), NEW r \in Fds
    PROVE  WaitsFor(sendq', r) <=> r # fd /\ WaitsFor(sendq, r)
<1>1. NoFd \notin Fds
  BY FdsAssumption DEF NoFd
<1>2. /\ \A g \in Fds : Len(sendq'[g]) = Len(sendq[g])
      /\ \A g \in Fds : \A i \in 1..Len(sendq[g]) :
            sendq'[g][i].recv = IF sendq[g][i].recv = fd THEN NoFd ELSE sendq[g][i].recv
  BY ForgetQueues
<1> QED BY <1>1, <1>2 DEF WaitsFor

\* After sm_send queues, the receiver of the new entry waits, the others as
\* before.
LEMMA AppendWaits ==
    ASSUME sendq \in Queues, NEW fd \in Fds, NEW e \in Entry,
           sendq' = [sendq EXCEPT ![fd] = Append(@, e)], NEW r \in Fds
    PROVE  WaitsFor(sendq', r) <=> r = e.recv \/ WaitsFor(sendq, r)
<1> DEFINE n == Len(sendq[fd])
<1>1. /\ n \in Nat /\ Len(sendq'[fd]) = n + 1
      /\ \A i \in 1..n : sendq'[fd][i] = sendq[fd][i]
      /\ sendq'[fd][n + 1] = e
      /\ \A g \in Fds \ {fd} : sendq'[g] = sendq[g]
  BY AppendQueues
<1>2. ASSUME WaitsFor(sendq', r) PROVE r = e.recv \/ WaitsFor(sendq, r)
  <2> PICK g \in Fds : \E i \in 1..Len(sendq'[g]) : sendq'[g][i].recv = r
    BY <1>2 DEF WaitsFor
  <2> PICK i \in 1..Len(sendq'[g]) : sendq'[g][i].recv = r
    OBVIOUS
  <2>1. CASE g = fd /\ i = n + 1
    BY <2>1, <1>1
  <2>2. CASE g = fd /\ i # n + 1
    <3>1. i \in 1..n
      BY <2>2, <1>1
    <3> QED BY <2>2, <3>1, <1>1 DEF WaitsFor
  <2>3. CASE g # fd
    BY <2>3, <1>1 DEF WaitsFor
  <2> QED BY <2>1, <2>2, <2>3
<1>3. ASSUME r = e.recv PROVE WaitsFor(sendq', r)
  BY <1>1, <1>3 DEF WaitsFor
<1>4. ASSUME WaitsFor(sendq, r) PROVE WaitsFor(sendq', r)
  <2> PICK g \in Fds : \E i \in 1..Len(sendq[g]) : sendq[g][i].recv = r
    BY <1>4 DEF WaitsFor
  <2> PICK i \in 1..Len(sendq[g]) : sendq[g][i].recv = r
    OBVIOUS
  <2>1. i \in 1..Len(sendq'[g]) /\ sendq'[g][i].recv = r
    BY <1>1
  <2> QED BY <2>1 DEF WaitsFor
<1> QED BY <1>2, <1>3, <1>4

\* After sm_resend unlinks a head entry, only its receiver may have stopped to
\* wait.
LEMMA TailWaits ==
    ASSUME sendq \in Queues, NEW fd \in Fds, sendq[fd] # <<>>,
           NEW q, q = [sendq EXCEPT ![fd] = Tail(@)], NEW r \in Fds
    PROVE  WaitsFor(sendq, r) <=> r = Head(sendq[fd]).recv \/ WaitsFor(q, r)
<1> DEFINE n == Len(sendq[fd])
<1>1. /\ n \in Nat \ {0} /\ Len(q[fd]) = n - 1
      /\ \A i \in 1..Len(q[fd]) : q[fd][i] = sendq[fd][i + 1]
      /\ Head(sendq[fd]) = sendq[fd][1]
      /\ \A g \in Fds \ {fd} : q[g] = sendq[g]
  <2>1. n \in Nat \ {0} /\ Len(q[fd]) = n - 1
    BY TailQueues
  <2>2. \A i \in 1..Len(q[fd]) : q[fd][i] = sendq[fd][i + 1]
    <3>1. sendq[fd] \in Seq(Entry) /\ q[fd] = Tail(sendq[fd])
      BY DEF Queues
    <3> QED BY <3>1, HeadTailProperties
  <2>3. Head(sendq[fd]) = sendq[fd][1]
    BY TailQueues
  <2>4. \A g \in Fds \ {fd} : q[g] = sendq[g]
    BY TailQueues
  <2> QED BY <2>1, <2>2, <2>3, <2>4
<1>2. ASSUME WaitsFor(sendq, r) PROVE r = Head(sendq[fd]).recv \/ WaitsFor(q, r)
  <2> PICK g \in Fds : \E i \in 1..Len(sendq[g]) : sendq[g][i].recv = r
    BY <1>2 DEF WaitsFor
  <2> PICK i \in 1..Len(sendq[g]) : sendq[g][i].recv = r
    OBVIOUS
  <2>1. CASE g = fd /\ i = 1
    BY <2>1, <1>1
  <2>2. CASE g = fd /\ i # 1
    <3>1. i - 1 \in 1..Len(q[fd]) /\ (i - 1) + 1 = i
      BY <2>2, <1>1
    <3>2. q[fd][i - 1] = sendq[fd][i]
      BY <3>1, <1>1
    <3>3. q[fd][i - 1].recv = r
      BY <2>2, <3>2
    <3>4. \E j \in 1..Len(q[fd]) : q[fd][j].recv = r
      BY <3>1, <3>3
    <3> QED BY <3>4 DEF WaitsFor
  <2>3. CASE g # fd
    BY <2>3, <1>1 DEF WaitsFor
  <2> QED BY <2>1, <2>2, <2>3
<1>3. ASSUME r = Head(sendq[fd]).recv PROVE WaitsFor(sendq, r)
  BY <1>1, <1>3 DEF WaitsFor
<1>4. ASSUME WaitsFor(q, r) PROVE WaitsFor(sendq, r)
  <2> PICK g \in Fds : \E i \in 1..Len(q[g]) : q[g][i].recv = r
    BY <1>4 DEF WaitsFor
  <2> PICK i \in 1..Len(q[g]) : q[g][i].recv = r
    OBVIOUS
  <2>1. CASE g = fd
    <3>1. i + 1 \in 1..n /\ sendq[fd][i + 1].recv = r
      BY <2>1, <1>1
    <3> QED BY <3>1 DEF WaitsFor
  <2>2. CASE g # fd
    BY <2>2, <1>1 DEF WaitsFor
  <2> QED BY <2>1, <2>2
<1> QED BY <1>2, <1>3, <1>4

\* RecvFdsInv and WaitersOpen, together: the first needs the second when a
\* number is given to a new connection.
WaitInv == RecvFdsInv /\ WaitersOpen

\* A new descriptor is read from at once: nobody waits in its name.
LEMMA AddFdWaits ==
    ASSUME WaitInv, NEW fd \in Fds, NEW isServer, AddFd(fd, isServer)
    PROVE  WaitInv'
BY DEF AddFd, WaitInv, RecvFdsInv, WaitersOpen, WaitsFor

\* Every step keeps recv_fds equal to the open descriptors that wait for no send.
LEMMA WaitStep ==
    ASSUME TypeOK, PlaceInv, WaitInv, [Next]_vars
    PROVE  WaitInv'
<1>q. sendq \in Queues
  BY DEF TypeOK, Queues
<1>0. ASSUME allFds' = allFds, recvFds' = recvFds,
             \A r \in Fds : WaitsFor(sendq', r) <=> WaitsFor(sendq, r)
      PROVE  WaitInv'
  BY <1>0 DEF WaitInv, RecvFdsInv, WaitersOpen, TypeOK
<1>1. CASE EndRemove
  <2> DEFINE fd == Head(closing)
  <2>1. fd \in Fds
    BY <1>1, HeadClosing DEF EndRemove
  <2>2. \A r \in Fds : WaitsFor(sendq', r) <=> r # fd /\ WaitsFor(sendq, r)
    BY <1>1, <1>q, <2>1, ForgetWaits DEF EndRemove
  <2>3. allFds' = allFds \ {fd} /\ recvFds' = recvFds \ {fd}
    BY <1>1 DEF EndRemove, ClearBits
  <2> QED BY <2>2, <2>3 DEF WaitInv, RecvFdsInv, WaitersOpen, TypeOK
<1>2. CASE \/ \E fd \in Fds, isServer \in BOOLEAN : ClientAdd(fd, isServer)
           \/ \E fd \in Fds : AcceptClient(fd)
  BY <1>2, AddFdWaits DEF ClientAdd, AcceptClient
<1>3. CASE \E fd \in Fds, m \in Msgs : \E k \in 0..Len(m) : SendQueues(fd, m, k)
  <2> PICK fd \in Fds, m \in Msgs : \E k \in 0..Len(m) : SendQueues(fd, m, k)
    BY <1>3
  <2> PICK k \in 0..Len(m) : SendQueues(fd, m, k)
    OBVIOUS
  <2> DEFINE e == [recv |-> currRecvFd, rest |-> SubSeq(m, k + 1, Len(m)), own |-> TRUE]
  <2>1. e \in Entry /\ e.recv = currRecvFd
    <3>1. m \in Seq(Nat) /\ Len(m) \in Nat
      BY MsgsAssumption, LenProperties
    <3> QED BY <3>1, PartOfBytes DEF Entry, TypeOK
  <2>2. sendq' = [sendq EXCEPT ![fd] = Append(@, e)]
    BY DEF SendQueues, Enqueue
  <2>3. \A r \in Fds : WaitsFor(sendq', r) <=> r = currRecvFd \/ WaitsFor(sendq, r)
    <3> HIDE DEF e
    <3> QED BY <1>q, <2>1, <2>2, AppendWaits
  <2>4. /\ allFds' = allFds /\ recvFds' = recvFds \ {currRecvFd}
        /\ currRecvFd \in Fds => currRecvFd \in allFds
    BY FdsAssumption DEF SendQueues, BlockReceiver, MaySend, NoFd
  <2> QED BY <2>3, <2>4 DEF WaitInv, RecvFdsInv, WaitersOpen, TypeOK
<1>4. CASE ResendEntry
  <2> DEFINE r == Head(sendq[at]).recv
             left == [sendq EXCEPT ![at] = Tail(@)]
  <2>1. at \in Fds /\ sendq[at] # <<>>
    BY <1>4 DEF ResendEntry, PlaceInv
  <2>2. \A g \in Fds : WaitsFor(sendq, g) <=> g = r \/ WaitsFor(left, g)
    BY <1>q, <2>1, TailWaits
  <2>3. /\ allFds' = allFds /\ sendq' = left
        /\ recvFds' = IF r \in allFds /\ ~WaitsFor(left, r) THEN recvFds \cup {r}
                      ELSE recvFds
    BY <1>4 DEF ResendEntry, Reenable
  <2> HIDE DEF r, left
  <2> QED BY <2>2, <2>3 DEF WaitInv, RecvFdsInv, WaitersOpen, TypeOK
<1>5. CASE ResendPart
  <2>1. at \in Fds /\ sendq[at] # <<>>
    BY <1>5 DEF ResendPart, PlaceInv
  <2> DEFINE h == Head(sendq[at])
  <2> PICK k \in 0..(Len(h.rest) - 1) : 
        sendq' = [sendq EXCEPT ![at] =
                       <<[h EXCEPT !.rest = SubSeq(@, k + 1, Len(@))]>> \o Tail(@)]
    BY <1>5 DEF ResendPart
  <2>2. /\ \A g \in Fds : Len(sendq'[g]) = Len(sendq[g])
        /\ \A g \in Fds : \A i \in 1..Len(sendq[g]) :
                sendq'[g][i].recv = sendq[g][i].recv
    BY <1>q, <2>1, PartQueues
  <2>3. \A r \in Fds : WaitsFor(sendq', r) <=> WaitsFor(sendq, r)
    BY ONLY <2>2, SameWaits
  <2> QED BY <1>0, <1>5, <2>3 DEF ResendPart, fdSets
<1>6. CASE /\ sendq' = sendq /\ allFds' = allFds /\ recvFds' = recvFds
  BY <1>0, <1>6
<1> QED
  BY <1>1, <1>2, <1>3, <1>4, <1>5, <1>6
  DEF Next, ClientStep, Terminated, ClientRemove, SendAll, SendFails, EnterLoop, Poll,
      ScanFd, ScanEnd, AcceptEnd, ResendFails, ResendEnd, RecvInput, OnRecvReturns,
      RecvNoInput, RecvFails, RecvEnd, Quit, CleanupFd, CleanupEnd, vars, fdSets

-----------------------------------------------------------------------------
(* The queues of blocked sends and the descriptors that have one.            *)

\* A queue is empty exactly when its length is 0.
LEMMA EmptyIffNoLen ==
    ASSUME NEW S, NEW s \in Seq(S)
    PROVE  s = <<>> <=> Len(s) = 0
BY EmptySeq

\* Every step keeps send_fds and the queues in agreement.
LEMMA QueuesStep ==
    ASSUME TypeOK, PlaceInv, QueuesInv, [Next]_vars
    PROVE  QueuesInv'
<1>q. sendq \in Queues
  BY DEF TypeOK, Queues
<1>e. \A g \in Fds : sendq[g] \in Seq(Entry) /\ (sendq[g] = <<>> <=> Len(sendq[g]) = 0)
  BY <1>q, EmptyIffNoLen DEF Queues
<1>n. \A g \in Fds : sendq[g] # <<>> => 1 \in 1..Len(sendq[g])
  BY <1>e, LenProperties
<1>1. CASE EndRemove
  <2> DEFINE fd == Head(closing)
  <2>1. fd \in Fds
    BY <1>1, HeadClosing DEF EndRemove
  <2>2. /\ sendq' \in Queues
        /\ \A g \in Fds : Len(sendq'[g]) = Len(sendq[g])
        /\ \A g \in Fds : \A i \in 1..Len(sendq[g]) :
              sendq'[g][i].own = (sendq[g][i].own /\ g # fd)
    BY <1>1, <1>q, <2>1, ForgetQueues DEF EndRemove
  <2>3. \A g \in Fds : sendq'[g] = <<>> <=> sendq[g] = <<>>
    BY <1>e, <2>2, EmptyIffNoLen DEF Queues
  <2>4. sendFds' = sendFds \ {fd}
    BY <1>1 DEF EndRemove, ClearBits
  <2> QED BY <2>2, <2>3, <2>4, <1>n DEF QueuesInv
<1>2. CASE \/ \E fd \in Fds, isServer \in BOOLEAN : ClientAdd(fd, isServer)
           \/ \E fd \in Fds : AcceptClient(fd)
  BY <1>2 DEF ClientAdd, AcceptClient, AddFd, QueuesInv, TypeOK
<1>3. CASE \E fd \in Fds, m \in Msgs : \E k \in 0..Len(m) : SendQueues(fd, m, k)
  <2> PICK fd \in Fds, m \in Msgs : \E k \in 0..Len(m) : SendQueues(fd, m, k)
    BY <1>3
  <2> PICK k \in 0..Len(m) : SendQueues(fd, m, k)
    OBVIOUS
  <2> DEFINE e == [recv |-> currRecvFd, rest |-> SubSeq(m, k + 1, Len(m)), own |-> TRUE]
             n == Len(sendq[fd])
  <2>1. e \in Entry /\ e.own
    <3>1. m \in Seq(Nat) /\ Len(m) \in Nat
      BY MsgsAssumption, LenProperties
    <3> QED BY <3>1, PartOfBytes DEF Entry, TypeOK
  <2>2. sendq' = [sendq EXCEPT ![fd] = Append(@, e)]
    BY DEF SendQueues, Enqueue
  <2>3. sendFds' = IF sendq[fd] = <<>> THEN sendFds \cup {fd} ELSE sendFds
    BY DEF SendQueues, Enqueue
  <2> HIDE DEF e
  <2>4. /\ n \in Nat /\ Len(sendq'[fd]) = n + 1
        /\ sendq'[fd] # <<>>
        /\ \A i \in 1..n : sendq'[fd][i] = sendq[fd][i]
        /\ sendq'[fd][n + 1] = e
        /\ \A g \in Fds \ {fd} : sendq'[g] = sendq[g]
    BY <1>q, <2>1, <2>2, AppendQueues
  <2>5. \A i \in 1..Len(sendq'[fd]) : i \in 1..n \/ i = n + 1
    BY <2>4
  <2>6. fd \in sendFds' => \A i \in 1..Len(sendq'[fd]) : sendq'[fd][i].own
    <3>1. CASE sendq[fd] = <<>>
      <4>1. n = 0
        BY <3>1, <1>e
      <4> QED BY <4>1, <2>1, <2>4, <2>5
    <3>2. CASE sendq[fd] # <<>>
      BY <3>2, <2>1, <2>3, <2>4, <2>5 DEF QueuesInv
    <3> QED BY <3>1, <3>2
  <2>7. fd \notin sendFds' => ~sendq'[fd][1].own
    BY <2>3, <2>4, <1>n DEF QueuesInv
  <2>8. \A i, j \in 1..Len(sendq'[fd]) :
           i < j /\ sendq'[fd][i].own => sendq'[fd][j].own
    <3>1. ASSUME NEW i \in 1..Len(sendq'[fd]), NEW j \in 1..Len(sendq'[fd]),
                 i < j, sendq'[fd][i].own
          PROVE  sendq'[fd][j].own
      <4>1. CASE j = n + 1
        BY <2>1, <2>4, <4>1
      <4>2. CASE j # n + 1
        <5>1. i \in 1..n /\ j \in 1..n
          BY <2>4, <3>1, <4>2
        <5>2. sendq[fd][i].own => sendq[fd][j].own
          BY <3>1, <5>1 DEF QueuesInv
        <5> QED BY <2>4, <3>1, <5>1, <5>2
      <4> QED BY <4>1, <4>2
    <3> QED BY <3>1
  <2> QED BY <2>3, <2>4, <2>6, <2>7, <2>8 DEF QueuesInv
<1>4. CASE ResendEntry
  <2>1. at \in Fds /\ sendq[at] # <<>> /\ at \in sendFds
    BY <1>4 DEF ResendEntry, PlaceInv
  <2>2. sendq' = [sendq EXCEPT ![at] = Tail(@)]
    BY <1>4 DEF ResendEntry
  <2>3. sendFds' = IF sendq'[at] = <<>> THEN sendFds \ {at} ELSE sendFds
    BY <1>4 DEF ResendEntry
  <2>4. /\ Len(sendq[at]) \in Nat \ {0}
        /\ Len(sendq'[at]) = Len(sendq[at]) - 1
        /\ \A i \in 1..Len(sendq'[at]) : sendq'[at][i] = sendq[at][i + 1]
        /\ \A g \in Fds \ {at} : sendq'[g] = sendq[g]
    <3>1. Len(sendq[at]) \in Nat \ {0} /\ Len(sendq'[at]) = Len(sendq[at]) - 1
      BY <1>q, <2>1, <2>2, TailQueues
    <3>2. \A i \in 1..Len(sendq'[at]) : sendq'[at][i] = sendq[at][i + 1]
      <4>1. sendq[at] \in Seq(Entry) /\ sendq'[at] = Tail(sendq[at])
        BY <1>q, <2>1, <2>2 DEF Queues
      <4> QED BY <2>1, <4>1, HeadTailProperties
    <3>3. \A g \in Fds \ {at} : sendq'[g] = sendq[g]
      BY <1>q, <2>1, <2>2, TailQueues
    <3> QED BY <3>1, <3>2, <3>3
  <2>5. \A i \in 1..Len(sendq'[at]) : sendq'[at][i].own
    <3>1. \A i \in 1..Len(sendq'[at]) : i + 1 \in 1..Len(sendq[at])
      BY <2>4
    <3> QED BY <2>1, <2>4, <3>1 DEF QueuesInv
  <2>6. sendq'[at] # <<>> <=> at \in sendFds'
    BY <2>1, <2>3
  <2>7. \A g \in Fds \ {at} : g \in sendFds' <=> g \in sendFds
    BY <2>3
  <2>8. \A i, j \in 1..Len(sendq'[at]) :
           i < j /\ sendq'[at][i].own => sendq'[at][j].own
    BY <2>5
  <2> QED BY <2>4, <2>5, <2>6, <2>7, <2>8 DEF QueuesInv
<1>5. CASE ResendPart
  <2>1. at \in Fds /\ sendq[at] # <<>>
    BY <1>5 DEF ResendPart, PlaceInv
  <2> DEFINE h == Head(sendq[at])
  <2> PICK k \in 0..(Len(h.rest) - 1) :
        sendq' = [sendq EXCEPT ![at] =
                       <<[h EXCEPT !.rest = SubSeq(@, k + 1, Len(@))]>> \o Tail(@)]
    BY <1>5 DEF ResendPart
  <2>2. /\ sendq' \in Queues
        /\ \A g \in Fds : Len(sendq'[g]) = Len(sendq[g])
        /\ \A g \in Fds : \A i \in 1..Len(sendq[g]) :
                sendq'[g][i].own = sendq[g][i].own
    BY <1>q, <2>1, PartQueues
  <2>3. \A g \in Fds : sendq'[g] = <<>> <=> sendq[g] = <<>>
    BY ONLY <1>e, <2>2, EmptyIffNoLen DEF Queues
  <2>4. sendFds' = sendFds
    BY <1>5 DEF ResendPart, fdSets
  <2>5. ASSUME NEW g \in Fds
        PROVE  \A i, j \in 1..Len(sendq'[g]) :
                  i < j /\ sendq'[g][i].own => sendq'[g][j].own
    BY ONLY <2>2, QueuesInv DEF QueuesInv
  <2>6. ASSUME NEW g \in Fds
        PROVE  /\ g \in sendFds' => /\ sendq'[g] # <<>>
                                    /\ \A i \in 1..Len(sendq'[g]) : sendq'[g][i].own
               /\ g \notin sendFds' /\ sendq'[g] # <<>> => ~sendq'[g][1].own
    BY ONLY <2>2, <2>3, <2>4, <1>n, QueuesInv DEF QueuesInv
  <2> QED BY ONLY <2>5, <2>6 DEF QueuesInv
<1>6. CASE sendq' = sendq /\ sendFds' = sendFds
  BY <1>6 DEF QueuesInv
<1> QED
  BY <1>1, <1>2, <1>3, <1>4, <1>5, <1>6
  DEF Next, ClientStep, Terminated, ClientRemove, SendAll, SendFails, EnterLoop, Poll,
      ScanFd, ScanEnd, AcceptEnd, ResendFails, ResendEnd, RecvInput, OnRecvReturns,
      RecvNoInput, RecvFails, RecvEnd, Quit, CleanupFd, CleanupEnd, vars, fdSets

-----------------------------------------------------------------------------
(* max_fd, and what select(2) reported.                                      *)

\* Every step keeps max_fd at the highest open descriptor.
LEMMA MaxFdStep ==
    ASSUME TypeOK, MaxFdInv, [Next]_vars
    PROVE  MaxFdInv'
<1>1. CASE EndRemove
  <2> DEFINE fd == Head(closing)
  <2>1. allFds' = allFds \ {fd} /\ LowerMaxFd(fd)
    BY <1>1 DEF EndRemove, ClearBits
  <2>2. allFds \subseteq Nat
    BY FdsAssumption DEF TypeOK
  <2>3. CASE fd = maxFd
    <3> PICK m \in (allFds \ {fd}) \cup {-1} :
            (\A g \in allFds \ {fd} : g <= m) /\ maxFd' = m
      BY <2>1, <2>3 DEF LowerMaxFd
    <3>1. CASE m = -1
      <4>1. ASSUME NEW g \in allFds \ {fd} PROVE FALSE
        <5>1. g \in Nat /\ g <= -1
          BY <2>2, <3>1
        <5> QED BY <5>1
      <4>2. allFds' = {}
        BY <2>1, <4>1
      <4> QED BY <3>1, <4>2 DEF MaxFdInv
    <3>2. CASE m # -1
      BY <2>1, <3>2 DEF MaxFdInv
    <3> QED BY <3>1, <3>2
  <2>4. CASE fd # maxFd
    <3>1. maxFd' = maxFd
      BY <2>1, <2>4 DEF LowerMaxFd
    <3> QED BY <2>1, <2>4, <3>1 DEF MaxFdInv
  <2> QED BY <2>3, <2>4
<1>2. CASE \/ \E fd \in Fds, isServer \in BOOLEAN : ClientAdd(fd, isServer)
           \/ \E fd \in Fds : AcceptClient(fd)
  <2> PICK fd \in Fds : \E isServer \in BOOLEAN : AddFd(fd, isServer)
    BY <1>2 DEF ClientAdd, AcceptClient
  <2>1. allFds' = allFds \cup {fd} /\ maxFd' = IF fd > maxFd THEN fd ELSE maxFd
    BY DEF AddFd
  <2>2. allFds \subseteq Nat /\ fd \in Nat
    BY FdsAssumption DEF TypeOK
  <2>3. CASE allFds = {}
    <3>1. allFds' = {fd} /\ maxFd' = fd
      BY <2>1, <2>2, <2>3 DEF MaxFdInv
    <3> QED BY <2>2, <3>1 DEF MaxFdInv
  <2>4. CASE allFds # {}
    <3>1. maxFd \in allFds /\ \A g \in allFds : g <= maxFd
      BY <2>4 DEF MaxFdInv
    <3>2. maxFd' \in allFds' /\ \A g \in allFds' : g <= maxFd'
      BY <2>1, <2>2, <3>1
    <3> QED BY <3>2 DEF MaxFdInv
  <2> QED BY <2>3, <2>4
<1>3. CASE allFds' = allFds /\ maxFd' = maxFd
  BY <1>3 DEF MaxFdInv
<1> QED
  BY <1>1, <1>2, <1>3
  DEF Next, ClientStep, Terminated, ClientRemove, SendAll, SendFails, SendQueues,
      EnterLoop, Poll, ScanFd, ScanEnd, AcceptEnd, ResendEntry, ResendPart, ResendFails,
      ResendEnd, RecvInput, OnRecvReturns, RecvNoInput, RecvFails, RecvEnd, Quit,
      CleanupFd, CleanupEnd, vars, fdSets

\* Every step keeps what select(2) reported, and the scan has not visited, true.
LEMMA ReportedStep ==
    ASSUME TypeOK, PlaceInv, ScanInv, ReportedStaysTrue, [Next]_vars
    PROVE  ReportedStaysTrue'
<1>1. CASE EndRemove
  BY <1>1 DEF EndRemove, ClearBits, ReportedStaysTrue
<1>2. CASE \/ \E fd \in Fds, isServer \in BOOLEAN : ClientAdd(fd, isServer)
           \/ \E fd \in Fds : AcceptClient(fd)
  BY <1>2 DEF ClientAdd, AcceptClient, AddFd, ReportedStaysTrue
<1>3. CASE \E fd \in Fds, m \in Msgs : \E k \in 0..Len(m) : SendQueues(fd, m, k)
  BY <1>3 DEF SendQueues, Enqueue, BlockReceiver, ReportedStaysTrue
<1>4. CASE \E w \in SUBSET sendFds, r \in SUBSET recvFds, x \in SUBSET allFds : Poll(w, r, x)
  BY <1>4 DEF Poll, fdSets, ReportedStaysTrue
<1>5. CASE \E fd \in Fds : ScanFd(fd)
  BY <1>5 DEF ScanFd, fdSets, ReportedStaysTrue
<1>6. CASE ResendEntry
  <2>1. at \in Nat
    BY <1>6, FdsAssumption DEF ResendEntry, PlaceInv
  <2>2. at \notin tmpSend
    BY <2>1 DEF ScanInv, Reported
  <2> QED BY <1>6, <2>2 DEF ResendEntry, Reenable, polled, ReportedStaysTrue
<1>7. CASE /\ tmpSend' = tmpSend /\ tmpRecv' = tmpRecv /\ tmpFail' = tmpFail
           /\ allFds' = allFds /\ sendFds' = sendFds /\ recvFds' = recvFds
  BY <1>7 DEF ReportedStaysTrue
<1> QED
  BY <1>1, <1>2, <1>3, <1>4, <1>5, <1>6, <1>7
  DEF Next, ClientStep, Terminated, ClientRemove, SendAll, SendFails, EnterLoop,
      ScanEnd, AcceptEnd, ResendPart, ResendFails, ResendEnd, RecvInput, OnRecvReturns,
      RecvNoInput, RecvFails, RecvEnd, Quit, CleanupFd, CleanupEnd, vars, fdSets, polled

-----------------------------------------------------------------------------
(* Where the loops are.                                                      *)

\* Every step keeps the loop variables where the phase of the loop says.
LEMMA PlaceStep ==
    ASSUME TypeOK, PlaceInv, ReportedStaysTrue, [Next]_vars
    PROVE  PlaceInv'
<1>1. CASE EndRemove
  BY <1>1 DEF EndRemove, control, PlaceInv
<1>2. CASE \/ \E fd \in Fds, isServer \in BOOLEAN : ClientAdd(fd, isServer)
           \/ \E fd \in Fds : AcceptClient(fd)
  BY <1>2 DEF ClientAdd, AcceptClient, AddFd, control, PlaceInv
<1>3. CASE \/ \E fd \in Fds : ClientRemove(fd)
           \/ \E fd \in Fds, m \in Msgs : SendAll(fd, m)
           \/ \E fd \in Fds, m \in Msgs : \E k \in 0..Len(m) : SendFails(fd, m, k)
           \/ \E fd \in Fds, m \in Msgs : \E k \in 0..Len(m) : SendQueues(fd, m, k)
  BY <1>3 DEF ClientRemove, SendAll, SendFails, SendQueues, MaySend, InClient, control,
              PlaceInv
<1>4. CASE \E fd \in Fds : ScanFd(fd)
  BY <1>4 DEF ScanFd, fdSets, PlaceInv, ReportedStaysTrue
<1>5. CASE ResendEntry
  <2>1. at \in Fds /\ phase = "resend" /\ closing = <<>>
        /\ (at \in sendFds \/ sendq[at] = <<>>)
    BY <1>5 DEF ResendEntry, PlaceInv
  <2>2. phase' = phase /\ at' = at /\ closing' = closing
    BY <1>5 DEF ResendEntry, control
  <2>3. at \in sendFds' \/ sendq'[at] = <<>>
    BY <1>5, <2>1 DEF ResendEntry
  <2> QED BY <2>1, <2>2, <2>3 DEF PlaceInv
<1>6. CASE ResendPart \/ ResendFails \/ ResendEnd
  <2>1. at \in Fds /\ at' = at /\ phase' \in {"recv", "scan", "resend_end"}
    BY <1>6 DEF ResendPart, ResendFails, ResendEnd, AfterResend, PlaceInv
  <2> QED BY <2>1 DEF PlaceInv
<1>7. CASE \E fd \in Fds : CleanupFd(fd)
  BY <1>7 DEF CleanupFd, PlaceInv
<1>8. CASE \/ EnterLoop \/ ScanEnd \/ AcceptEnd \/ RecvInput \/ OnRecvReturns
           \/ RecvNoInput \/ RecvFails \/ RecvEnd \/ Quit \/ CleanupEnd
           \/ \E w \in SUBSET sendFds, r \in SUBSET recvFds, x \in SUBSET allFds : Poll(w, r, x)
  BY <1>8 DEF EnterLoop, ScanEnd, AcceptEnd, RecvInput, OnRecvReturns, RecvNoInput,
              RecvFails, RecvEnd, Quit, CleanupEnd, Poll, PlaceInv
<1>9. CASE UNCHANGED vars
  BY <1>9 DEF vars, fdSets, control, PlaceInv
<1> QED
  BY <1>1, <1>2, <1>3, <1>4, <1>5, <1>6, <1>7, <1>8, <1>9
  DEF Next, ClientStep, Terminated

\* A set of numbers has a smallest element.
LEMMA Smallest ==
    ASSUME NEW S, S \subseteq Nat, S # {}
    PROVE  \E m \in S : \A n \in S : m <= n
<1>1. IsWellFoundedOn(OpToRel(<, Nat), Nat)
  BY NatLessThanWellFounded
<1>2. PICK m \in S : \A n \in S : ~(<<n, m>> \in OpToRel(<, Nat))
  BY <1>1, WFMin
<1>3. \A n \in S : ~(n < m)
  BY <1>2 DEF OpToRel
<1> QED BY <1>3

\* A loop over the descriptors comes to some element of S, if one is ahead.
LEMMA SomeNext ==
    ASSUME TypeOK, MaxFdInv, NEW S, S \subseteq allFds, \E g \in S : g > at
    PROVE  \E fd \in S : IsNext(fd, S)
<1> DEFINE ahead == {g \in S : g > at}
<1>1. allFds \subseteq Nat /\ ahead # {}
  BY FdsAssumption DEF TypeOK
<1>2. PICK fd \in ahead : \A g \in ahead : fd <= g
  BY <1>1, Smallest
<1>3. fd <= maxFd
  BY DEF MaxFdInv
<1> QED BY <1>2, <1>3 DEF IsNext

\* What select(2) reported is finite.
LEMMA ReportedFinite ==
    ASSUME TypeOK
    PROVE  /\ Reported \subseteq Fds /\ IsFiniteSet(Reported)
           /\ Cardinality(Reported) \in Nat
<1>1. Reported \subseteq Fds
  BY DEF TypeOK, Reported
<1> QED BY <1>1, FdsAssumption, FS_Subset, FS_CardinalityType

\* select(2) reports at least as many bits as descriptors.
LEMMA BitsCoverFds ==
    ASSUME NEW w \in SUBSET Fds, NEW r \in SUBSET Fds, NEW x \in SUBSET Fds
    PROVE  Cardinality(w \cup r \cup x) <= Cardinality(w) + Cardinality(r) + Cardinality(x)
<1>1. /\ IsFiniteSet(w) /\ IsFiniteSet(r) /\ IsFiniteSet(x)
      /\ IsFiniteSet(w \cup r)
  BY FdsAssumption, FS_Subset
<1>2. ASSUME NEW A, NEW B, IsFiniteSet(A), IsFiniteSet(B)
      PROVE  Cardinality(A \cup B) <= Cardinality(A) + Cardinality(B)
  <2>1. Cardinality(A \cup B) = Cardinality(A) + Cardinality(B) - Cardinality(A \cap B)
    BY <1>2, FS_Union
  <2>2. IsFiniteSet(A \cap B)
    BY <1>2, FS_Subset
  <2>3. Cardinality(A \cap B) \in Nat /\ Cardinality(A) \in Nat /\ Cardinality(B) \in Nat
    BY <1>2, <2>2, FS_CardinalityType
  <2> QED BY <2>1, <2>3
<1>3. Cardinality(w \cup r) <= Cardinality(w) + Cardinality(r)
  BY <1>1, <1>2
<1>4. Cardinality((w \cup r) \cup x) <= Cardinality(w \cup r) + Cardinality(x)
  BY <1>1, <1>2
<1>5. /\ Cardinality(w) \in Nat /\ Cardinality(r) \in Nat /\ Cardinality(x) \in Nat
      /\ Cardinality(w \cup r) \in Nat
  BY <1>1, FS_CardinalityType
<1>6. IsFiniteSet((w \cup r) \cup x)
  BY FdsAssumption, FS_Subset
<1>7. Cardinality((w \cup r) \cup x) \in Nat
  BY <1>6, FS_CardinalityType
<1> QED BY <1>3, <1>4, <1>5, <1>7

\* Every step of the scan goes up, and num_left covers what is ahead.
LEMMA ScanStep ==
    ASSUME TypeOK, TypeOK', PlaceInv, ReportedStaysTrue, MaxFdInv, ScanInv, [Next]_vars
    PROVE  ScanInv'
<1>f. /\ Reported \subseteq Fds /\ IsFiniteSet(Reported) /\ Cardinality(Reported) \in Nat
      /\ Reported' \subseteq Fds /\ IsFiniteSet(Reported') /\ Cardinality(Reported') \in Nat
  <2>1. Reported' \subseteq Fds
    BY DEF TypeOK, Reported
  <2> QED BY <2>1, ReportedFinite, FdsAssumption, FS_Subset, FS_CardinalityType
<1>0. ASSUME Reported' \subseteq Reported, at' = at, numLeft' = numLeft,
             phase' \in {"start", "idle", "cleanup", "done"} =>
                phase \in {"start", "idle", "cleanup", "done"}
      PROVE  ScanInv'
  <2>1. Cardinality(Reported') <= Cardinality(Reported)
    BY <1>0, <1>f, FS_Subset
  <2>2. numLeft \in Int
    BY DEF TypeOK
  <2>3. Cardinality(Reported') <= numLeft'
    BY <1>0, <1>f, <2>1, <2>2 DEF ScanInv
  <2> QED BY <1>0, <2>3 DEF ScanInv
<1>1. CASE EndRemove
  BY <1>0, <1>1 DEF EndRemove, ClearBits, control, Reported
<1>2. CASE \/ \E fd \in Fds, isServer \in BOOLEAN : ClientAdd(fd, isServer)
           \/ \E fd \in Fds : AcceptClient(fd)
  BY <1>0, <1>2 DEF ClientAdd, AcceptClient, AddFd, control, Reported
<1>3. CASE \/ \E fd \in Fds : ClientRemove(fd)
           \/ \E fd \in Fds, m \in Msgs : SendAll(fd, m)
           \/ \E fd \in Fds, m \in Msgs : \E k \in 0..Len(m) : SendFails(fd, m, k)
  BY <1>0, <1>3 DEF ClientRemove, SendAll, SendFails, polled, control, Reported
<1>4. CASE \E fd \in Fds, m \in Msgs : \E k \in 0..Len(m) : SendQueues(fd, m, k)
  BY <1>0, <1>4 DEF SendQueues, BlockReceiver, control, Reported
<1>5. CASE \E w \in SUBSET sendFds, r \in SUBSET recvFds, x \in SUBSET allFds : Poll(w, r, x)
  <2> PICK w \in SUBSET sendFds, r \in SUBSET recvFds, x \in SUBSET allFds : Poll(w, r, x)
    BY <1>5
  <2>1. w \in SUBSET Fds /\ r \in SUBSET Fds /\ x \in SUBSET Fds
    BY DEF TypeOK
  <2>2. /\ Reported' = w \cup r \cup x /\ at' = 0 /\ phase' = "scan"
        /\ numLeft' = Cardinality(w) + Cardinality(r) + Cardinality(x)
    BY DEF Poll, Reported, PlaceInv
  <2>3. Cardinality(Reported') <= numLeft'
    BY <2>1, <2>2, BitsCoverFds
  <2>4. \A g \in Reported' : g > at'
    BY <1>f, <2>2, FdsAssumption
  <2> QED BY <2>2, <2>3, <2>4 DEF ScanInv
<1>6. CASE \E fd \in Fds : ScanFd(fd)
  <2> PICK fd \in Fds : ScanFd(fd)
    BY <1>6
  <2>1. /\ Reported' = Reported \ {fd} /\ fd \in Reported
        /\ at' = fd /\ numLeft' = numLeft - 1
        /\ phase' \notin {"start", "idle", "cleanup", "done"}
    BY DEF ScanFd, Reported, IsNext
  <2>2. Cardinality(Reported') = Cardinality(Reported) - 1
    BY <1>f, <2>1, FS_RemoveElement
  <2>3. \A g \in Reported' : g > at'
    <3>1. \A g \in Reported : g > at => fd <= g
      BY DEF ScanFd, IsNext
    <3>2. \A g \in Reported' : g \in Nat /\ fd <= g /\ g # fd
      BY <1>f, <2>1, <3>1, FdsAssumption DEF ScanInv
    <3> QED BY <2>1, <3>2, FdsAssumption
  <2>4. numLeft \in Int /\ Cardinality(Reported) <= numLeft
    BY DEF TypeOK, ScanInv
  <2>5. Cardinality(Reported') <= numLeft'
    BY <1>f, <2>1, <2>2, <2>4
  <2> QED BY <2>1, <2>3, <2>5 DEF ScanInv
<1>7. CASE ScanEnd
  <2>1. Reported = {}
    <3>1. CASE numLeft = 0
      <4>1. Cardinality(Reported) = 0
        BY <1>f, <3>1 DEF ScanInv
      <4> QED BY <1>f, <4>1, FS_EmptySet
    <3>2. CASE ~\E fd \in Reported : IsNext(fd, Reported)
      <4>1. Reported \subseteq allFds
        BY DEF Reported, ReportedStaysTrue, TypeOK
      <4>2. ~\E g \in Reported : g > at
        BY <3>2, <4>1, SomeNext
      <4> QED BY <4>2 DEF ScanInv
    <3> QED BY <1>7, <3>1, <3>2 DEF ScanEnd
  <2>2. Reported' = {} /\ numLeft' = 0
    BY <1>7, <2>1 DEF ScanEnd, polled, Reported
  <2>3. Cardinality(Reported') = 0
    BY <2>2, FS_EmptySet
  <2> QED BY <2>2, <2>3 DEF ScanInv
<1>8. CASE \E fd \in Fds : CleanupFd(fd)
  <2>1. Reported = {} /\ Reported' = {} /\ numLeft' = numLeft
    BY <1>8 DEF CleanupFd, ScanInv, polled, Reported
  <2> QED BY <2>1 DEF ScanInv
<1>9. CASE \/ EnterLoop \/ AcceptEnd \/ ResendEntry \/ RecvInput \/ OnRecvReturns
           \/ RecvNoInput \/ RecvFails \/ RecvEnd \/ Quit \/ CleanupEnd
  BY <1>0, <1>9 DEF EnterLoop, AcceptEnd, ResendEntry, RecvInput, OnRecvReturns,
                    RecvNoInput, RecvFails, RecvEnd, Quit, CleanupEnd, polled, control,
                    Reported
<1>10. CASE ResendPart \/ ResendFails \/ ResendEnd
  BY <1>0, <1>10 DEF ResendPart, ResendFails, ResendEnd, AfterResend, polled, Reported
<1>11. CASE UNCHANGED vars
  BY <1>0, <1>11 DEF vars, polled, control, Reported
<1> QED
  BY <1>1, <1>2, <1>3, <1>4, <1>5, <1>6, <1>7, <1>8, <1>9, <1>10, <1>11
  DEF Next, ClientStep, Terminated

-----------------------------------------------------------------------------
(* sm_cleanup.                                                               *)

\* sm_remove_fd adds its descriptor to those being closed and takes none away.
LEMMA BeginRemoveClosing ==
    ASSUME TypeOK, NEW fd, BeginRemove(fd)
    PROVE  /\ \A g : IsClosing(g) => IsClosing(g)'
           /\ fd \in allFds => IsClosing(fd)'
<1>1. CASE fd \in allFds
  <2>1. closing' = <<fd>> \o closing
    BY <1>1 DEF BeginRemove
  <2>2. <<fd>> \in Seq(Fds) /\ Len(<<fd>>) = 1 /\ <<fd>>[1] = fd /\ closing \in Seq(Fds)
    BY <1>1 DEF TypeOK
  <2>3. Len(closing) \in Nat
    BY <2>2, LenProperties
  <2>4. /\ Len(closing') = 1 + Len(closing)
        /\ closing'[1] = fd
        /\ \A i \in 1..Len(closing) : closing'[i + 1] = closing[i]
    <3> DEFINE one == <<fd>>
    <3>1. one \in Seq(Fds) /\ Len(one) = 1 /\ one[1] = fd /\ closing' = one \o closing
      BY <2>1, <2>2
    <3> HIDE DEF one
    <3>2. /\ Len(one \o closing) = Len(one) + Len(closing)
          /\ \A i \in 1..(Len(one) + Len(closing)) : (one \o closing)[i] =
                IF i <= Len(one) THEN one[i] ELSE closing[i - Len(one)]
      BY <2>2, <3>1, ConcatProperties
    <3> QED BY <2>3, <3>1, <3>2
  <2>5. ASSUME NEW g, IsClosing(g) PROVE IsClosing(g)'
    <3> PICK i \in 1..Len(closing) : closing[i] = g
      BY <2>5 DEF IsClosing
    <3>1. i + 1 \in 1..Len(closing') /\ closing'[i + 1] = g
      BY <2>3, <2>4
    <3> QED BY <3>1 DEF IsClosing
  <2>6. IsClosing(fd)'
    <3>1. 1 \in 1..Len(closing')
      BY <2>3, <2>4
    <3> QED BY <2>4, <3>1 DEF IsClosing
  <2> QED BY <2>5, <2>6
<1>2. CASE fd \notin allFds
  BY <1>2 DEF BeginRemove, IsClosing
<1> QED BY <1>1, <1>2

\* When on_close has returned, only its descriptor leaves those being closed.
LEMMA EndRemoveClosing ==
    ASSUME TypeOK, closing # <<>>, closing' = Tail(closing), NEW g, g # Head(closing),
           IsClosing(g)
    PROVE  IsClosing(g)'
<1>1. /\ Head(closing) = closing[1] /\ Len(closing) \in Nat \ {0}
      /\ Len(Tail(closing)) = Len(closing) - 1
      /\ \A i \in 1..Len(Tail(closing)) : Tail(closing)[i] = closing[i + 1]
  BY HeadClosing
<1> PICK i \in 1..Len(closing) : closing[i] = g
  BY DEF IsClosing
<1>2. i # 1
  BY <1>1
<1>3. i - 1 \in 1..Len(Tail(closing)) /\ (i - 1) + 1 = i
  BY <1>1, <1>2
<1>4. closing'[i - 1] = g
  BY <1>1, <1>3
<1> QED BY <1>3, <1>4 DEF IsClosing

\* sm_cleanup goes up and leaves nothing open behind it.
LEMMA CleanupStep ==
    ASSUME TypeOK, PlaceInv, MaxFdInv, CleanupInv, [Next]_vars
    PROVE  CleanupInv'
<1>n. allFds \subseteq Nat /\ allFds \subseteq Fds
  BY FdsAssumption DEF TypeOK
<1>0. ASSUME allFds' = allFds, at' = at, phase' = phase,
             \A g : IsClosing(g) => IsClosing(g)'
      PROVE  CleanupInv'
  BY <1>0 DEF CleanupInv
<1>1. CASE EndRemove
  <2> DEFINE fd == Head(closing)
  <2>1. /\ allFds' = allFds \ {fd} /\ at' = at /\ phase' = phase
        /\ closing # <<>> /\ closing' = Tail(closing)
    BY <1>1 DEF EndRemove, ClearBits, control
  <2>2. \A g : g # fd /\ IsClosing(g) => IsClosing(g)'
    BY <2>1, EndRemoveClosing
  <2> QED BY <2>1, <2>2 DEF CleanupInv
<1>2. CASE \/ \E fd \in Fds, isServer \in BOOLEAN : ClientAdd(fd, isServer)
           \/ \E fd \in Fds : AcceptClient(fd)
  BY <1>2 DEF ClientAdd, AcceptClient, control, CleanupInv
<1>3. CASE \E fd \in Fds : ClientRemove(fd)
  <2> PICK fd \in Fds : ClientRemove(fd)
    BY <1>3
  <2>1. \A g : IsClosing(g) => IsClosing(g)'
    BY BeginRemoveClosing DEF ClientRemove
  <2> QED BY <1>0, <2>1 DEF ClientRemove, fdSets, control
<1>4. CASE \/ \E fd \in Fds, m \in Msgs : SendAll(fd, m)
           \/ \E fd \in Fds, m \in Msgs : \E k \in 0..Len(m) : SendFails(fd, m, k)
           \/ \E fd \in Fds, m \in Msgs : \E k \in 0..Len(m) : SendQueues(fd, m, k)
  <2>1. allFds' = allFds /\ at' = at /\ phase' = phase /\ closing' = closing
    BY <1>4 DEF SendAll, SendFails, SendQueues, fdSets, control
  <2> QED BY <1>0, <2>1 DEF IsClosing
<1>5. CASE Quit
  <2>1. allFds' = allFds /\ at' = 0 /\ phase' = "cleanup"
    BY <1>5 DEF Quit, fdSets, PlaceInv
  <2>2. \A g \in allFds : g > 0
    BY FdsAssumption DEF TypeOK
  <2> QED BY <2>1, <2>2 DEF CleanupInv
<1>6. CASE \E fd \in Fds : CleanupFd(fd)
  <2> PICK fd \in Fds : CleanupFd(fd)
    BY <1>6
  <2>1. /\ phase = "cleanup" /\ phase' = phase /\ closing = <<>>
        /\ allFds' = allFds /\ at' = fd /\ fd \in allFds
        /\ \A g \in allFds : g > at => fd <= g
    BY DEF CleanupFd, fdSets, IsNext
  <2>2. ~\E g : IsClosing(g)
    BY <2>1, EmptySeq DEF IsClosing
  <2>3. IsClosing(fd)'
    BY <2>1, BeginRemoveClosing DEF CleanupFd
  <2>4. ASSUME NEW g \in allFds PROVE g > fd \/ IsClosing(g)'
    <3>1. g > at
      BY <2>1, <2>2 DEF CleanupInv
    <3>2. fd <= g /\ g \in Nat /\ fd \in Nat
      BY <1>n, <2>1, <3>1
    <3> QED BY <2>3, <3>2
  <2> QED BY <2>1, <2>4 DEF CleanupInv
<1>7. CASE CleanupEnd
  <2>1. /\ phase = "cleanup" /\ phase' = "done" /\ closing = <<>> /\ allFds' = allFds
        /\ ~\E fd \in allFds : IsNext(fd, allFds)
    BY <1>7 DEF CleanupEnd, fdSets
  <2>2. ~\E g : IsClosing(g)
    BY <2>1, EmptySeq DEF IsClosing
  <2>3. \A g \in allFds : g > at
    BY <2>1, <2>2 DEF CleanupInv
  <2>4. allFds = {}
    BY <2>1, <2>3, SomeNext
  <2> QED BY <2>1, <2>4 DEF CleanupInv
<1>8. CASE \/ EnterLoop \/ ScanEnd \/ AcceptEnd \/ ResendEntry \/ ResendPart
           \/ ResendFails \/ ResendEnd \/ RecvInput \/ OnRecvReturns \/ RecvNoInput
           \/ RecvFails \/ RecvEnd \/ \E fd \in Fds : ScanFd(fd)
           \/ \E w \in SUBSET sendFds, r \in SUBSET recvFds, x \in SUBSET allFds : Poll(w, r, x)
  <2>1. phase' \notin {"cleanup", "done"}
    BY <1>8 DEF EnterLoop, ScanEnd, AcceptEnd, ResendEntry, ResendPart, ResendFails,
                ResendEnd, AfterResend, RecvInput, OnRecvReturns, RecvNoInput, RecvFails,
                RecvEnd, ScanFd, Poll, control
  <2> QED BY <2>1 DEF CleanupInv
<1>9. CASE UNCHANGED vars
  BY <1>0, <1>9 DEF vars, fdSets, control, IsClosing
<1> QED
  BY <1>1, <1>2, <1>3, <1>4, <1>5, <1>6, <1>7, <1>8, <1>9
  DEF Next, ClientStep, Terminated

-----------------------------------------------------------------------------
(* The theorems.                                                             *)

\* The invariant holds when sm_new returns.
LEMMA IndInit == Init => IndInv
<1> SUFFICES ASSUME Init PROVE IndInv
  OBVIOUS
<1>1. sendq \in Queues /\ \A g \in Fds : Len(sendq[g]) = 0 /\ sendq[g] = <<>>
  BY EmptySeq DEF Init, Queues
<1>2. TypeOK
  <2>1. closing \in Seq(Fds)
    BY EmptySeq DEF Init
  <2>2. out \in Outs
    BY QuietType DEF Init
  <2>3. sendq \in [Fds -> Seq(Entry)]
    BY <1>1 DEF Queues
  <2>4. canRecv \in BOOLEAN /\ phase \in Phases
    BY DEF Init, Phases
  <2> QED BY <2>1, <2>2, <2>3, <2>4 DEF Init, TypeOK, Outs
<1>3. \A r : ~WaitsFor(sendq, r)
  BY <1>1 DEF WaitsFor
<1>4. RecvFdsInv /\ WaitersOpen /\ QueuesInv
  BY <1>1, <1>3 DEF Init, RecvFdsInv, WaitersOpen, QueuesInv
<1>5. Reported = {} /\ Cardinality({}) = 0
  BY FS_EmptySet DEF Init, Reported
<1> QED BY <1>2, <1>4, <1>5
        DEF Init, IndInv, MaxFdInv, ReportedStaysTrue, PlaceInv, ScanInv, CleanupInv

\* Every step of the loop, the client and the kernel keeps the invariant.
LEMMA IndStep == IndInv /\ [Next]_vars => IndInv'
<1> SUFFICES ASSUME IndInv, [Next]_vars PROVE IndInv'
  OBVIOUS
<1>0. /\ TypeOK /\ WaitInv /\ QueuesInv /\ MaxFdInv /\ ReportedStaysTrue
      /\ PlaceInv /\ ScanInv /\ CleanupInv
  BY DEF IndInv, WaitInv
<1>1. TypeOK'
  BY <1>0, TypeStep
<1>2. WaitInv' /\ QueuesInv'
  BY <1>0, WaitStep, QueuesStep
<1>3. MaxFdInv' /\ ReportedStaysTrue' /\ PlaceInv'
  BY <1>0, MaxFdStep, ReportedStep, PlaceStep
<1>4. ScanInv' /\ CleanupInv'
  BY <1>0, <1>1, ScanStep, CleanupStep
<1> QED BY <1>1, <1>2, <1>3, <1>4 DEF IndInv, WaitInv

\* Every reachable state satisfies the inductive invariant.
THEOREM Inductive == Spec => []IndInv
BY IndInit, IndStep, PTL DEF Spec

\* The fields of struct sm keep their types: in particular the sets that are
\* handed to select(2) hold open descriptors only.
THEOREM TypeCorrect == Spec => []TypeOK
<1>1. IndInv => TypeOK
  BY DEF IndInv
<1> QED BY <1>1, Inductive, PTL

\* recv_fds is exactly "all_fds - sendq.recv_fd's" (socket_manager.c:54), over
\* sm_send, sm_resend, sm_remove_fd and the reuse of descriptor numbers.
THEOREM ReceiversCorrect == Spec => []RecvFdsInv
<1>1. IndInv => RecvFdsInv
  BY DEF IndInv
<1> QED BY <1>1, Inductive, PTL

\* The descriptors asked about for writing are those with blocked sends, but for
\* the numbers that took over the queue of a closed connection; there the sends
\* of the open connection stand behind all that was left, and none is sent.
THEOREM BlockedSendsCorrect == Spec => []BlockedSendsInv
<1>1. ASSUME TypeOK, QueuesInv PROVE BlockedSendsInv
  <2>1. \A fd \in Fds : sendq[fd] # <<>> => 1 \in 1..Len(sendq[fd])
    BY <1>1, EmptyIffNoLen, LenProperties DEF TypeOK
  <2> QED BY <1>1, <2>1 DEF QueuesInv, BlockedSendsInv, LeftOver
<1>2. IndInv => BlockedSendsInv
  BY <1>1 DEF IndInv
<1> QED BY <1>2, Inductive, PTL

\* What select(2) reported stays true of the descriptors not visited yet,
\* whatever the callbacks of earlier ones close, open, block and unblock.
THEOREM ReportedCorrect == Spec => []ReportedStaysTrue
<1>1. IndInv => ReportedStaysTrue
  BY DEF IndInv
<1> QED BY <1>1, Inductive, PTL

\* The scan passes over no reported descriptor, although it stops at num_left
\* and at a max_fd that moves while it runs.
THEOREM ScanComplete == Spec => []NothingSkipped
<1>1. IndInv => NothingSkipped
  BY DEF IndInv, ScanInv, NothingSkipped
<1> QED BY <1>1, Inductive, PTL

\* max_fd is the highest open descriptor.
THEOREM MaxFdCorrect == Spec => []MaxFdInv
<1>1. IndInv => MaxFdInv
  BY DEF IndInv
<1> QED BY <1>1, Inductive, PTL

\* sm_cleanup leaves nothing open, whatever the cascades of on_close close.
THEOREM CleanupComplete == Spec => []CleanupClosesAll
<1>1. IndInv => CleanupClosesAll
  BY DEF IndInv, CleanupInv, CleanupClosesAll
<1> QED BY <1>1, Inductive, PTL
-----------------------------------------------------------------------------
(* The contract between the loop and the callbacks.                          *)

\* sm_remove_fd of a descriptor whose on_close does not run: a step of Removals, or
\* nothing if the descriptor is not open.
LEMMA BeginRemoveContract ==
    ASSUME TypeOK, NEW fd, ~IsClosing(fd), BeginRemove(fd), allFds' = allFds
    PROVE  Removed!Next \/ UNCHANGED <<allFds, closing>>
<1>1. CASE fd \in allFds
  <2>1. DOMAIN closing = 1..Len(closing)
    BY LenProperties DEF TypeOK
  <2>2. Removed!Begins(fd)
    BY <1>1, <2>1 DEF Removed!Begins, BeginRemove, IsClosing
  <2> QED BY <1>1, <2>2 DEF Removed!Next
<1>2. CASE fd \notin allFds
  BY <1>2 DEF BeginRemove
<1> QED BY <1>1, <1>2

\* sm_add_fd opens one descriptor.
LEMMA AddFdContract ==
    ASSUME NEW fd \in Fds, NEW isServer, AddFd(fd, isServer), closing = <<>>
    PROVE  Removed!Next
<1>1. {fd} \in SUBSET Fds /\ {fd} # {} /\ {fd} \cap allFds = {}
  BY DEF AddFd
<1>2. allFds' = allFds \cup {fd} /\ closing' \in {<<>>} \cup {<<o>> : o \in {fd}}
  BY DEF AddFd
<1> QED BY <1>1, <1>2 DEF Removed!Next, Removed!Opens

\* Every step of the loop, the client and the kernel is one that the contract
\* allows, or opens and removes nothing.
LEMMA ContractStep ==
    ASSUME TypeOK, [Next]_vars
    PROVE  Removed!Next \/ UNCHANGED <<allFds, closing>>
<1>0. closing = <<>> => ~\E g : IsClosing(g)
  BY EmptySeq DEF IsClosing
<1>1. CASE EndRemove
  <2>1. Removed!Ends
    BY <1>1 DEF Removed!Ends, EndRemove, ClearBits
  <2> QED BY <2>1 DEF Removed!Next
<1>2. CASE \/ \E fd \in Fds, isServer \in BOOLEAN : ClientAdd(fd, isServer)
           \/ \E fd \in Fds : AcceptClient(fd)
  <2>1. \E fd \in Fds, isServer \in BOOLEAN : AddFd(fd, isServer) /\ closing = <<>>
    BY <1>2 DEF ClientAdd, AcceptClient
  <2> QED BY <2>1, AddFdContract
<1>3. CASE \E fd \in Fds : ClientRemove(fd)
  <2>1. \E fd : ~IsClosing(fd) /\ BeginRemove(fd) /\ allFds' = allFds
    BY <1>3 DEF ClientRemove, fdSets
  <2> QED BY <2>1, BeginRemoveContract
<1>4. CASE AcceptEnd \/ ResendFails \/ RecvFails \/ \E fd \in Fds : ScanFd(fd) \/ CleanupFd(fd)
  <2>1. /\ closing = <<>> /\ allFds' = allFds
        /\ UNCHANGED closing \/ \E fd : BeginRemove(fd)
    BY <1>4 DEF AcceptEnd, ResendFails, RecvFails, ScanFd, CleanupFd, fdSets
  <2> QED BY <1>0, <2>1, BeginRemoveContract
<1>5. CASE \/ \E fd \in Fds, m \in Msgs : SendAll(fd, m)
           \/ \E fd \in Fds, m \in Msgs : \E k \in 0..Len(m) : SendFails(fd, m, k)
           \/ \E fd \in Fds, m \in Msgs : \E k \in 0..Len(m) : SendQueues(fd, m, k)
  BY <1>5 DEF SendAll, SendFails, SendQueues, fdSets
<1>6. CASE \/ EnterLoop \/ ScanEnd \/ ResendEntry \/ ResendPart \/ ResendEnd
           \/ RecvInput \/ OnRecvReturns \/ RecvNoInput \/ RecvEnd \/ Quit \/ CleanupEnd
           \/ \E w \in SUBSET sendFds, r \in SUBSET recvFds, x \in SUBSET allFds : Poll(w, r, x)
  BY <1>6 DEF EnterLoop, ScanEnd, ResendEntry, ResendPart, ResendEnd, RecvInput,
              OnRecvReturns, RecvNoInput, RecvEnd, Quit, CleanupEnd, Poll, fdSets
<1>7. CASE UNCHANGED vars
  BY <1>7 DEF vars, fdSets
<1> QED
  BY <1>1, <1>2, <1>3, <1>4, <1>5, <1>6, <1>7
  DEF Next, ClientStep, Terminated

\* The loop implements the contract of Removals for any client: it calls on_close
\* once for a descriptor, while it is open, though scan, sm_resend, sm_recv and the
\* callbacks may all come to remove the same one.
THEOREM ImplementsRemovals == Spec => RemovalsSpec
<1>1. Init => Removed!Init
  BY DEF Init, Removed!Init
<1>2. TypeOK /\ [Next]_vars => [Removed!Next]_(Removed!vars)
  BY ContractStep DEF Removed!vars
<1> QED BY <1>1, <1>2, TypeCorrect, PTL DEF Spec, RemovalsSpec, Removed!Spec

-----------------------------------------------------------------------------
(* Lists of byte sequences, one after the other.                             *)

\* f has the first parts of s put together, for every number of parts up to n.
Flattens(f, s, n) == f = [i \in 1..n |-> IF i = 1 THEN s[i] ELSE f[i - 1] \o s[i]]

\* There is such a function.
LEMMA FlattensExists ==
    ASSUME NEW s \in Seq(Seq(Nat)), NEW n \in 1..Len(s)
    PROVE  \E f \in [1..n -> Seq(Nat)] : Flattens(f, s, n)
<1> DEFINE Bad == {k \in 1..Len(s) : ~\E f \in [1..k -> Seq(Nat)] : Flattens(f, s, k)}
<1>1. Len(s) \in Nat /\ \A i \in 1..Len(s) : s[i] \in Seq(Nat)
  BY LenProperties, ElementOfSeq
<1>2. Bad \subseteq Nat
  BY <1>1
<1> SUFFICES ASSUME Bad # {} PROVE FALSE
  OBVIOUS
<1>3. PICK k \in Bad : \A j \in Bad : k <= j
  BY <1>2, Smallest
<1>4. k \in 1..Len(s) /\ ~\E f \in [1..k -> Seq(Nat)] : Flattens(f, s, k)
  OBVIOUS
<1>5. CASE k = 1
  <2> DEFINE f == [i \in 1..1 |-> s[i]]
  <2>1. f \in [1..1 -> Seq(Nat)]
    BY <1>1, <1>4, <1>5
  <2>2. f = [i \in 1..1 |-> IF i = 1 THEN s[i] ELSE f[i - 1] \o s[i]]
    OBVIOUS
  <2> HIDE DEF f
  <2>3. Flattens(f, s, 1)
    BY <2>2 DEF Flattens
  <2> QED
    BY <1>4, <1>5, <2>1, <2>3
<1>6. CASE k # 1
  <2>1. PICK j \in 1..Len(s) : j = k - 1 /\ k = j + 1 /\ j < k
    BY <1>1, <1>4, <1>6
  <2>2. ~(k <= j) /\ j \in 1..Len(s)
    BY <1>1, <1>4, <2>1
  <2>11. j \notin Bad
    <3> HIDE DEF Bad
    <3> QED
      BY <1>3, <2>2
  <2>3. PICK f \in [1..j -> Seq(Nat)] : Flattens(f, s, j)
    BY <2>2, <2>11
  <2> DEFINE e == f[j] \o s[k]
             g == [i \in 1..k |-> IF i = k THEN e ELSE f[i]]
  <2>4. e \in Seq(Nat)
    <3>1. f[j] \in Seq(Nat) /\ s[k] \in Seq(Nat)
      BY <1>1, <1>4, <2>1
    <3> QED
      BY <3>1, ConcatProperties
  <2>5. \A i \in 1..k : i # k => i \in 1..j
    BY <2>1
  <2>6. g \in [1..k -> Seq(Nat)]
    <3> HIDE DEF e
    <3> QED
      BY <2>4, <2>5
  <2>7. ASSUME NEW i \in 1..k PROVE g[i] = IF i = 1 THEN s[i] ELSE g[i - 1] \o s[i]
    <3>1. CASE i = k
      <4>1. g[i] = f[j] \o s[k] /\ i # 1
        BY <1>6, <3>1
      <4>2. i - 1 = j /\ j \in 1..k /\ j # k
        BY <2>1, <3>1
      <4>3. g[i - 1] = f[j]
        BY <4>2
      <4> QED
        BY <3>1, <4>1, <4>3
    <3>2. CASE i # k
      <4>1. i \in 1..j /\ g[i] = f[i]
        BY <2>5, <3>2
      <4>2. f[i] = IF i = 1 THEN s[i] ELSE f[i - 1] \o s[i]
        BY <2>3, <4>1 DEF Flattens
      <4>3. i # 1 => i - 1 \in 1..k /\ i - 1 # k
        BY <2>1, <4>1
      <4>4. i # 1 => g[i - 1] = f[i - 1]
        BY <4>3
      <4> QED
        BY <4>1, <4>2, <4>4
    <3> QED
      BY <3>1, <3>2
  <2>8. g = [i \in 1..k |-> g[i]]
    OBVIOUS
  <2> HIDE DEF g, e
  <2>9. g = [i \in 1..k |-> IF i = 1 THEN s[i] ELSE g[i - 1] \o s[i]]
    BY <2>7, <2>8
  <2>10. Flattens(g, s, k)
    BY <2>9 DEF Flattens
  <2> QED
    BY <1>4, <2>6, <2>10
<1> QED
  BY <1>5, <1>6

\* The lists have the same first n parts.
SameParts(s, t, n) == \A i \in 1..n : s[i] = t[i]

\* What it has for k parts depends on these alone.
LEMMA FlattensSame ==
    ASSUME NEW s, NEW t, NEW f, NEW g, NEW n \in Nat, NEW m \in Nat,
           Flattens(f, s, n), Flattens(g, t, m),
           NEW k \in 1..n, k <= m, SameParts(s, t, k)
    PROVE  f[k] = g[k]
<1> DEFINE Bad == {i \in 1..k : f[i] # g[i]}
<1>1. Bad \subseteq Nat
  OBVIOUS
<1> SUFFICES ASSUME Bad # {} PROVE FALSE
  <2>1. k \in 1..k
    OBVIOUS
  <2> QED
    BY <2>1
<1>2. PICK i \in Bad : \A j \in Bad : i <= j
  BY <1>1, Smallest
<1>3. i \in 1..n /\ i \in 1..m /\ i \in 1..k /\ s[i] = t[i]
  BY DEF SameParts
<1>4. /\ f[i] = IF i = 1 THEN s[i] ELSE f[i - 1] \o s[i]
      /\ g[i] = IF i = 1 THEN t[i] ELSE g[i - 1] \o t[i]
  BY <1>3 DEF Flattens
<1>5. CASE i = 1
  BY <1>2, <1>3, <1>4, <1>5
<1>6. CASE i # 1
  <2>1. i - 1 \in 1..k /\ ~(i <= i - 1)
    BY <1>3, <1>6
  <2>2. f[i - 1] = g[i - 1]
    BY <1>2, <2>1
  <2> QED
    BY <1>2, <1>3, <1>4, <1>6, <2>2
<1> QED
  BY <1>5, <1>6

\* So a list that begins with another one begins with the same bytes.
LEMMA FlattensPrefix ==
    ASSUME NEW s, NEW t, NEW f, NEW g, NEW n \in Nat, NEW m \in Nat, n # 0, n <= m,
           Flattens(f, s, n), Flattens(g, t, m), SameParts(s, t, n)
    PROVE  f[n] = g[n]
<1>1. n \in 1..n
  OBVIOUS
<1> QED
  BY <1>1, FlattensSame

\* FlattenSeq is the last of it.
LEMMA FlattenIs ==
    ASSUME NEW s \in Seq(Seq(Nat)), Len(s) # 0
    PROVE  \E f \in [1..Len(s) -> Seq(Nat)] : Flattens(f, s, Len(s)) /\ FlattenSeq(s) = f[Len(s)]
<1> DEFINE n == Len(s)
           f == CHOOSE h : h = [i \in 1..n |-> IF i = 1 THEN s[i] ELSE h[i - 1] \o s[i]]
<1>1. n \in Nat /\ n \in 1..n
  BY LenProperties
<1>2. FlattenSeq(s) = f[n]
  BY DEF FlattenSeq
<1> HIDE DEF n
<1>3. PICK g \in [1..n -> Seq(Nat)] : Flattens(g, s, n)
  BY <1>1, FlattensExists DEF n
<1>4. f = [i \in 1..n |-> IF i = 1 THEN s[i] ELSE f[i - 1] \o s[i]]
  BY <1>3 DEF Flattens
<1> HIDE DEF f
<1>5. Flattens(f, s, n)
  BY <1>4 DEF Flattens
<1>6. \A k \in 1..n : f[k] = g[k]
  BY <1>1, <1>3, <1>5, FlattensSame DEF SameParts
<1>7. f = [i \in 1..n |-> f[i]]
  BY <1>4
<1>8. f = g
  BY <1>6, <1>7
<1> QED
  BY <1>2, <1>3, <1>8 DEF n

\* No part, no bytes.
LEMMA FlattenEmpty == FlattenSeq(<<>>) = <<>>
BY DEF FlattenSeq

\* The bytes are bytes.
LEMMA FlattenType ==
    ASSUME NEW s \in Seq(Seq(Nat))
    PROVE  FlattenSeq(s) \in Seq(Nat)
<1>1. Len(s) \in Nat
  BY LenProperties
<1>2. CASE Len(s) = 0
  <2>1. s = <<>>
    BY <1>2, EmptySeq
  <2>2. <<>> \in Seq(Nat)
    OBVIOUS
  <2> QED
    BY <2>1, <2>2, FlattenEmpty
<1>3. CASE Len(s) # 0
  <2>1. PICK f \in [1..Len(s) -> Seq(Nat)] : FlattenSeq(s) = f[Len(s)]
    BY <1>3, FlattenIs
  <2>2. Len(s) \in 1..Len(s)
    BY <1>1, <1>3
  <2> QED
    BY <2>1, <2>2
<1> QED
  BY <1>2, <1>3

\* One part.
LEMMA FlattenOne ==
    ASSUME NEW e \in Seq(Nat)
    PROVE  FlattenSeq(<<e>>) = e
<1>1. PICK s \in Seq(Seq(Nat)) : s = <<e>> /\ Len(s) = 1 /\ s[1] = e
  <2>1. PICK S : S = Seq(Nat)
    OBVIOUS
  <2>2. e \in S
    BY <2>1
  <2>3. <<e>> \in Seq(S) /\ Len(<<e>>) = 1 /\ <<e>>[1] = e
    BY <2>2
  <2> QED
    BY <2>1, <2>3
<1>2. PICK f \in [1..Len(s) -> Seq(Nat)] : Flattens(f, s, Len(s)) /\ FlattenSeq(s) = f[Len(s)]
  <2>1. Len(s) # 0
    BY <1>1
  <2> QED
    BY <2>1, FlattenIs
<1>3. f[1] = s[1]
  <2>1. 1 \in 1..Len(s)
    BY <1>1
  <2> QED
    BY <1>2, <2>1 DEF Flattens
<1> QED
  BY <1>1, <1>2, <1>3

\* One more part at the end.
LEMMA FlattenAppend ==
    ASSUME NEW s \in Seq(Seq(Nat)), NEW e \in Seq(Nat)
    PROVE  FlattenSeq(Append(s, e)) = FlattenSeq(s) \o e
<1>1. PICK n \in Nat : n = Len(s)
  BY LenProperties
<1>2. PICK t \in Seq(Seq(Nat)) :
        /\ t = Append(s, e) /\ Len(t) = n + 1
        /\ \A i \in 1..n : t[i] = s[i]
        /\ t[n + 1] = e
  BY <1>1, AppendProperties
<1>3. PICK g : Flattens(g, t, Len(t)) /\ FlattenSeq(t) = g[Len(t)]
  <2>1. Len(t) # 0
    BY <1>2
  <2> QED
    BY <2>1, FlattenIs
<1>4. n + 1 \in 1..(n + 1) /\ Len(t) = n + 1
  BY <1>2
<1>5. g[n + 1] = IF n + 1 = 1 THEN t[n + 1] ELSE g[(n + 1) - 1] \o t[n + 1]
  BY <1>3, <1>4 DEF Flattens
<1>6. CASE n = 0
  <2>1. s = <<>>
    BY <1>1, <1>6, EmptySeq
  <2>2. FlattenSeq(s) \o e = e
    BY <2>1, FlattenEmpty, ConcatEmptySeq
  <2>3. g[n + 1] = e
    BY <1>2, <1>5, <1>6
  <2> QED
    BY <1>2, <1>3, <2>2, <2>3
<1>7. CASE n # 0
  <2>1. PICK f : Flattens(f, s, Len(s)) /\ FlattenSeq(s) = f[Len(s)]
    BY <1>1, <1>7, FlattenIs
  <2>2. n \in 1..n /\ n <= Len(t) /\ Len(t) \in Nat
    BY <1>2, <1>7
  <2>3. Flattens(f, s, n)
    BY <1>1, <2>1
  <2>4. \A i \in 1..n : s[i] = t[i]
    BY <1>2
  <2>7. PICK m \in Nat : m = Len(t) /\ n <= m
    BY <2>2
  <2>8. Flattens(g, t, m)
    BY <1>3, <2>7
  <2>9. n \in 1..n /\ n <= m
    BY <2>2, <2>7
  <2>10. SameParts(s, t, n)
    BY <2>4 DEF SameParts
  <2>5. f[n] = g[n]
    BY <1>7, <2>3, <2>7, <2>8, <2>10, FlattensPrefix
  <2>6. g[n + 1] = g[n] \o e
    BY <1>2, <1>5, <1>7
  <2> QED
    BY <1>1, <1>2, <1>3, <2>1, <2>5, <2>6
<1> QED
  BY <1>6, <1>7

\* Putting byte sequences together is associative.
LEMMA BytesAssociative ==
    ASSUME NEW x \in Seq(Nat), NEW y \in Seq(Nat), NEW z \in Seq(Nat)
    PROVE  (x \o y) \o z = x \o (y \o z)
<1>1. PICK S : S = Nat
  OBVIOUS
<1>2. x \in Seq(S) /\ y \in Seq(S) /\ z \in Seq(S)
  BY <1>1
<1> QED
  BY <1>2, ConcatAssociative

\* The first part comes first.
LEMMA FlattenFirst ==
    ASSUME NEW s \in Seq(Seq(Nat)), s # <<>>
    PROVE  FlattenSeq(s) = Head(s) \o FlattenSeq(Tail(s))
<1> DEFINE P(u) == FlattenSeq(u) = Head(u) \o FlattenSeq(Tail(u))
           Bad == {n \in Nat : \E u \in Seq(Seq(Nat)) : u # <<>> /\ Len(u) = n /\ ~P(u)}
<1> HIDE DEF P
<1> SUFFICES ASSUME Bad # {} PROVE FALSE
  <2>1. Len(s) \in Nat
    BY LenProperties
  <2>2. P(s)
    BY <2>1
  <2> QED
    BY <2>2 DEF P
<1>1. PICK n \in Bad : \A m \in Bad : n <= m
  BY Smallest
<1>2. PICK u \in Seq(Seq(Nat)) : u # <<>> /\ Len(u) = n /\ ~P(u)
  OBVIOUS
<1>3. PICK v \in Seq(Seq(Nat)), e \in Seq(Nat) : u = Append(v, e)
  BY <1>2, SequenceEmptyOrAppend
<1>4. Head(u) = (IF v = <<>> THEN e ELSE Head(v)) /\ Tail(u) = (IF v = <<>> THEN <<>> ELSE Append(Tail(v), e))
  BY <1>3, HeadTailAppend
<1>5. CASE v = <<>>
  <2>1. u = <<e>>
    BY <1>3, <1>5
  <2>2. FlattenSeq(u) = e
    BY <2>1, FlattenOne
  <2>3. Head(u) = e /\ Tail(u) = <<>>
    BY <1>4, <1>5
  <2>4. e \o <<>> = e
    BY ConcatEmptySeq
  <2>5. P(u)
    BY <2>2, <2>3, <2>4, FlattenEmpty DEF P
  <2> QED
    BY <1>2, <2>5
<1>6. CASE v # <<>>
  <2>1. Len(v) \in Nat /\ Len(u) = Len(v) + 1
    BY <1>3, AppendProperties, LenProperties
  <2>2. Len(v) \notin Bad
    <3>1. n \in Nat /\ n = Len(v) + 1
      BY <1>2, <2>1
    <3>2. ~(n <= Len(v))
      BY <2>1, <3>1
    <3> HIDE DEF Bad
    <3> QED
      BY <1>1, <3>2
  <2>3. P(v)
    BY <1>6, <2>1, <2>2
  <2>4. PICK h \in Seq(Nat), w \in Seq(Seq(Nat)) : h = Head(v) /\ w = Tail(v)
    BY <1>6, HeadTailProperties
  <2>5. PICK x \in Seq(Nat) : x = FlattenSeq(w)
    BY FlattenType
  <2>6. FlattenSeq(v) = h \o x
    BY <2>3, <2>4, <2>5 DEF P
  <2>7. FlattenSeq(u) = (h \o x) \o e
    BY <1>3, <2>6, FlattenAppend
  <2>8. FlattenSeq(Append(w, e)) = x \o e
    BY <2>5, FlattenAppend
  <2>9. (h \o x) \o e = h \o (x \o e)
    BY BytesAssociative
  <2>10. Head(u) = h /\ Tail(u) = Append(w, e)
    BY <1>4, <1>6, <2>4
  <2>11. P(u)
    BY <2>7, <2>8, <2>9, <2>10 DEF P
  <2> QED
    BY <1>2, <2>11
<1> QED
  BY <1>5, <1>6

\* Parts without bytes have none together.
LEMMA FlattenNothing ==
    ASSUME NEW s \in Seq(Seq(Nat)), \A i \in 1..Len(s) : s[i] = <<>>
    PROVE  FlattenSeq(s) = <<>>
<1>1. CASE Len(s) = 0
  <2>1. s = <<>>
    BY <1>1, EmptySeq
  <2> QED
    BY <2>1, FlattenEmpty
<1>2. CASE Len(s) # 0
  <2>1. PICK f \in [1..Len(s) -> Seq(Nat)] : Flattens(f, s, Len(s)) /\ FlattenSeq(s) = f[Len(s)]
    BY <1>2, FlattenIs
  <2> DEFINE Bad == {i \in 1..Len(s) : f[i] # <<>>}
  <2>2. Len(s) \in Nat /\ Len(s) \in 1..Len(s)
    BY <1>2, LenProperties
  <2> SUFFICES ASSUME Bad # {} PROVE FALSE
    BY <2>1, <2>2
  <2>3. Bad \subseteq Nat
    BY <2>2
  <2>4. PICK i \in Bad : \A j \in Bad : i <= j
    BY <2>3, Smallest
  <2>5. i \in 1..Len(s) /\ f[i] = IF i = 1 THEN s[i] ELSE f[i - 1] \o s[i]
    BY <2>1 DEF Flattens
  <2>6. CASE i = 1
    BY <2>4, <2>5, <2>6
  <2>7. CASE i # 1
    <3>1. i - 1 \in 1..Len(s) /\ ~(i <= i - 1)
      BY <2>2, <2>5, <2>7
    <3>2. f[i - 1] = <<>>
      BY <2>4, <3>1
    <3>3. f[i] = <<>> \o s[i] /\ s[i] = <<>>
      BY <2>5, <2>7, <3>2
    <3>4. f[i] = <<>>
      BY <3>3
    <3> QED
      BY <2>4, <3>4
  <2> QED
    BY <2>6, <2>7
<1> QED
  BY <1>1, <1>2

-----------------------------------------------------------------------------
(* The bytes that wait in a queue.                                           *)

\* The parts of a queue are as many as its entries.
LEMMA PartsFacts ==
    ASSUME NEW queue \in Seq(Entry)
    PROVE  \E s \in Seq(Seq(Nat)) :
             /\ s = [i \in 1..Len(queue) |-> OwnPart(queue[i])]
             /\ Len(s) = Len(queue) /\ Len(queue) \in Nat
             /\ \A i \in 1..Len(queue) : s[i] = OwnPart(queue[i]) /\ s[i] \in Seq(Nat)
<1>1. PICK n \in Nat : n = Len(queue)
  BY LenProperties
<1>2. ASSUME NEW i \in 1..n PROVE OwnPart(queue[i]) \in Seq(Nat)
  <2>1. queue[i] \in Entry
    BY <1>1, ElementOfSeq
  <2>2. queue[i].rest \in Seq(Nat) /\ <<>> \in Seq(Nat)
    BY <2>1 DEF Entry
  <2> QED
    BY <2>2 DEF OwnPart
<1> DEFINE s == [i \in 1..n |-> OwnPart(queue[i])]
<1>3. s \in [1..n -> Seq(Nat)]
  BY <1>2
<1>4. PICK S : S = Seq(Nat)
  OBVIOUS
<1>5. s \in [1..n -> S] /\ DOMAIN s = 1..n
  BY <1>3, <1>4
<1>6. \A i \in 1..n : s[i] = OwnPart(queue[i])
  OBVIOUS
<1> HIDE DEF s
<1>7. s \in Seq(S) /\ Len(s) = n
  BY <1>5, SeqDef
<1> QED
  BY <1>1, <1>2, <1>4, <1>6, <1>7 DEF s

\* They are bytes, and none in an empty queue.
LEMMA OwnBytesType ==
    /\ \A queue \in Seq(Entry) : OwnBytes(queue) \in Seq(Nat)
    /\ OwnBytes(<<>>) = <<>>
<1>1. ASSUME NEW queue \in Seq(Entry) PROVE OwnBytes(queue) \in Seq(Nat)
  <2>1. PICK s \in Seq(Seq(Nat)) : s = [i \in 1..Len(queue) |-> OwnPart(queue[i])]
    BY PartsFacts
  <2> QED
    BY <2>1, FlattenType DEF OwnBytes
<1>2. OwnBytes(<<>>) = <<>>
  <2>1. <<>> \in Seq(Entry) /\ Len(<<>>) = 0
    OBVIOUS
  <2>2. PICK s \in Seq(Seq(Nat)) : s = [i \in 1..Len(<<>>) |-> OwnPart(<<>>[i])] /\ Len(s) = 0
    BY <2>1, PartsFacts
  <2>3. s = <<>>
    BY <2>2, EmptySeq
  <2> QED
    BY <2>2, <2>3, FlattenEmpty DEF OwnBytes
<1> QED
  BY <1>1, <1>2

\* They depend only on what the entries hold.
LEMMA OwnBytesSame ==
    ASSUME NEW queue, NEW other, Len(other) = Len(queue),
           \A i \in 1..Len(queue) : OwnPart(other[i]) = OwnPart(queue[i])
    PROVE  OwnBytes(other) = OwnBytes(queue)
<1>1. [i \in 1..Len(other) |-> OwnPart(other[i])] = [i \in 1..Len(queue) |-> OwnPart(queue[i])]
  OBVIOUS
<1> QED
  BY <1>1 DEF OwnBytes

\* The entries of a closed connection have none.
LEMMA OwnBytesNone ==
    ASSUME NEW queue \in Seq(Entry), \A i \in 1..Len(queue) : ~queue[i].own
    PROVE  OwnBytes(queue) = <<>>
<1>1. PICK s \in Seq(Seq(Nat)) :
        /\ s = [i \in 1..Len(queue) |-> OwnPart(queue[i])]
        /\ Len(s) = Len(queue)
        /\ \A i \in 1..Len(queue) : s[i] = OwnPart(queue[i])
  BY PartsFacts
<1>2. \A i \in 1..Len(s) : s[i] = <<>>
  BY <1>1 DEF OwnPart
<1> QED
  BY <1>1, <1>2, FlattenNothing DEF OwnBytes

\* The entries of a sequence with one more at its end.
LEMMA AppendFacts ==
    ASSUME NEW S, NEW q \in Seq(S), NEW e \in S, NEW n \in Nat, n = Len(q)
    PROVE  /\ Append(q, e) \in Seq(S) /\ Len(Append(q, e)) = n + 1
           /\ \A i \in 1..n : Append(q, e)[i] = q[i]
           /\ Append(q, e)[n + 1] = e
BY AppendProperties

\* The entries of a sequence without its first.
LEMMA TailFacts ==
    ASSUME NEW S, NEW q \in Seq(S), NEW n \in Nat, n = Len(q), n # 0
    PROVE  /\ Tail(q) \in Seq(S) /\ Len(Tail(q)) = n - 1
           /\ \A i \in 1..(n - 1) : Tail(q)[i] = q[i + 1]
<1>1. q # <<>>
  OBVIOUS
<1>2. /\ Tail(q) \in Seq(S) /\ Len(Tail(q)) = Len(q) - 1
      /\ \A i \in 1..Len(Tail(q)) : Tail(q)[i] = q[i + 1]
  BY <1>1, HeadTailProperties
<1> QED
  BY <1>2

\* A new entry adds its bytes at the end.
LEMMA OwnBytesAppend ==
    ASSUME NEW queue \in Seq(Entry), NEW e \in Entry
    PROVE  OwnBytes(Append(queue, e)) = OwnBytes(queue) \o OwnPart(e)
<1>1. PICK n \in Nat : n = Len(queue)
  BY LenProperties
<1>2. PICK new \in Seq(Entry) :
        /\ new = Append(queue, e) /\ Len(new) = n + 1
        /\ \A i \in 1..n : new[i] = queue[i]
        /\ new[n + 1] = e
  <2>1. /\ Append(queue, e) \in Seq(Entry) /\ Len(Append(queue, e)) = n + 1
        /\ \A i \in 1..n : Append(queue, e)[i] = queue[i]
        /\ Append(queue, e)[n + 1] = e
    BY <1>1, AppendFacts
  <2> DEFINE new == Append(queue, e)
  <2>2. new \in Seq(Entry) /\ Len(new) = n + 1 /\ (\A i \in 1..n : new[i] = queue[i]) /\ new[n + 1] = e
    BY <2>1
  <2>3. new = Append(queue, e)
    OBVIOUS
  <2> HIDE DEF new
  <2> QED
    BY <2>2, <2>3
<1>3. PICK s \in Seq(Seq(Nat)) :
        /\ s = [i \in 1..Len(queue) |-> OwnPart(queue[i])] /\ Len(s) = n
        /\ \A i \in 1..n : s[i] = OwnPart(queue[i])
  BY <1>1, PartsFacts
<1>4. PICK t \in Seq(Seq(Nat)) :
        /\ t = [i \in 1..Len(new) |-> OwnPart(new[i])] /\ Len(t) = n + 1
        /\ \A i \in 1..(n + 1) : t[i] = OwnPart(new[i]) /\ t[i] \in Seq(Nat)
  <2>1. PICK t \in Seq(Seq(Nat)) :
          /\ t = [i \in 1..Len(new) |-> OwnPart(new[i])] /\ Len(t) = Len(new)
          /\ \A i \in 1..Len(new) : t[i] = OwnPart(new[i])
    BY PartsFacts
  <2>2. Len(t) = n + 1 /\ \A i \in 1..(n + 1) : t[i] = OwnPart(new[i])
    BY <1>2, <2>1
  <2>3. \A i \in 1..(n + 1) : t[i] \in Seq(Nat)
    BY <2>1, <2>2
  <2> QED
    BY <2>1, <2>2, <2>3
<1>5. n + 1 \in 1..(n + 1) /\ \A i \in 1..n : i \in 1..(n + 1)
  OBVIOUS
<1>6. PICK x \in Seq(Nat) : x = OwnPart(e) /\ x = t[n + 1]
  BY <1>2, <1>4, <1>5
<1>7. t = Append(s, x)
  <2>1. PICK S : S = Seq(Nat)
    OBVIOUS
  <2>2. s \in Seq(S) /\ x \in S /\ t \in Seq(S)
    BY <2>1
  <2>3. PICK u \in Seq(S) :
          /\ u = Append(s, x) /\ Len(u) = n + 1
          /\ \A i \in 1..n : u[i] = s[i]
          /\ u[n + 1] = x
    <3>1. Len(s) = n
      BY <1>3
    <3>2. /\ Append(s, x) \in Seq(S) /\ Len(Append(s, x)) = n + 1
          /\ \A i \in 1..n : Append(s, x)[i] = s[i]
          /\ Append(s, x)[n + 1] = x
      BY <2>2, <3>1, AppendFacts
    <3> DEFINE u == Append(s, x)
    <3>3. u \in Seq(S) /\ Len(u) = n + 1 /\ (\A i \in 1..n : u[i] = s[i]) /\ u[n + 1] = x
      BY <3>2
    <3>4. u = Append(s, x)
      OBVIOUS
    <3> HIDE DEF u
    <3> QED
      BY <3>3, <3>4
  <2>4. ASSUME NEW i \in 1..(n + 1) PROVE t[i] = u[i]
    <3>1. CASE i = n + 1
      BY <1>6, <2>3, <3>1
    <3>2. CASE i # n + 1
      <4>1. i \in 1..n
        BY <3>2
      <4> QED
        BY <1>2, <1>3, <1>4, <1>5, <2>3, <4>1
    <3> QED
      BY <3>1, <3>2
  <2>5. Len(t) = Len(u) /\ \A i \in 1..Len(t) : t[i] = u[i]
    BY <1>4, <2>3, <2>4
  <2>6. t = u
    BY <2>2, <2>5, SeqEqual
  <2> QED
    BY <2>3, <2>6
<1>8. FlattenSeq(t) = FlattenSeq(s) \o x
  BY <1>7, FlattenAppend
<1> QED
  BY <1>2, <1>3, <1>4, <1>6, <1>8 DEF OwnBytes

\* Those of the first entry come first.
LEMMA OwnBytesFirst ==
    ASSUME NEW queue \in Seq(Entry), queue # <<>>
    PROVE  OwnBytes(queue) = OwnPart(Head(queue)) \o OwnBytes(Tail(queue))
<1>1. PICK n \in Nat : n = Len(queue) /\ n # 0
  BY EmptySeq
<1>2. PICK rest \in Seq(Entry) :
        /\ rest = Tail(queue) /\ Len(rest) = n - 1 /\ n - 1 \in Nat
        /\ \A i \in 1..(n - 1) : rest[i] = queue[i + 1]
  <2>1. n - 1 \in Nat
    BY <1>1
  <2>2. /\ Tail(queue) \in Seq(Entry) /\ Len(Tail(queue)) = n - 1
        /\ \A i \in 1..(n - 1) : Tail(queue)[i] = queue[i + 1]
    BY <1>1, TailFacts
  <2> DEFINE rest == Tail(queue)
  <2>3. rest \in Seq(Entry) /\ Len(rest) = n - 1 /\ \A i \in 1..(n - 1) : rest[i] = queue[i + 1]
    BY <2>2
  <2>4. rest = Tail(queue)
    OBVIOUS
  <2> HIDE DEF rest
  <2> QED
    BY <2>1, <2>3, <2>4
<1>3. PICK s \in Seq(Seq(Nat)) :
        /\ s = [i \in 1..Len(queue) |-> OwnPart(queue[i])] /\ Len(s) = n
        /\ \A i \in 1..n : s[i] = OwnPart(queue[i])
  BY <1>1, PartsFacts
<1>4. PICK t \in Seq(Seq(Nat)) :
        /\ t = [i \in 1..Len(rest) |-> OwnPart(rest[i])] /\ Len(t) = n - 1
        /\ \A i \in 1..(n - 1) : t[i] = OwnPart(rest[i])
  BY <1>2, PartsFacts
<1>5. s # <<>>
  BY <1>1, <1>3
<1>6. Head(s) = OwnPart(Head(queue))
  <2>1. 1 \in 1..n /\ Head(s) = s[1] /\ Head(queue) = queue[1]
    BY <1>1
  <2> QED
    BY <1>3, <2>1
<1>7. Tail(s) = t
  <2>1. PICK S : S = Seq(Nat)
    OBVIOUS
  <2>2. s \in Seq(S) /\ t \in Seq(S)
    BY <2>1
  <2>3. PICK u \in Seq(S) :
          /\ u = Tail(s) /\ Len(u) = n - 1
          /\ \A i \in 1..(n - 1) : u[i] = s[i + 1]
    <3>1. Len(s) = n /\ n # 0
      BY <1>1, <1>3
    <3>2. /\ Tail(s) \in Seq(S) /\ Len(Tail(s)) = n - 1
          /\ \A i \in 1..(n - 1) : Tail(s)[i] = s[i + 1]
      BY <2>2, <3>1, TailFacts
    <3> DEFINE u == Tail(s)
    <3>3. u \in Seq(S) /\ Len(u) = n - 1 /\ \A i \in 1..(n - 1) : u[i] = s[i + 1]
      BY <3>2
    <3>4. u = Tail(s)
      OBVIOUS
    <3> HIDE DEF u
    <3> QED
      BY <3>3, <3>4
  <2>4. ASSUME NEW i \in 1..(n - 1) PROVE u[i] = t[i]
    <3>1. i + 1 \in 1..n
      BY <1>1
    <3> QED
      BY <1>2, <1>3, <1>4, <2>3, <3>1
  <2>5. Len(u) = Len(t) /\ \A i \in 1..Len(u) : u[i] = t[i]
    BY <1>4, <2>3, <2>4
  <2>6. u = t
    BY <2>2, <2>5, SeqEqual
  <2> QED
    BY <2>3, <2>6
<1>8. FlattenSeq(s) = Head(s) \o FlattenSeq(Tail(s))
  BY <1>5, FlattenFirst
<1> QED
  BY <1>2, <1>3, <1>4, <1>6, <1>7, <1>8 DEF OwnBytes

-----------------------------------------------------------------------------
(* The steps of the streams.                                                 *)

\* A sequence put together from two is cut where the first ends.
LEMMA Cut ==
    ASSUME NEW S, NEW x \in Seq(S), NEW y \in Seq(S)
    PROVE  /\ Len(x) \in 0..Len(x \o y)
           /\ SubSeq(x \o y, 1, Len(x)) = x
           /\ SubSeq(x \o y, Len(x) + 1, Len(x \o y)) = y
<1>1. /\ x \o y \in Seq(S) /\ Len(x \o y) = Len(x) + Len(y)
      /\ \A i \in 1..(Len(x) + Len(y)) :
            (x \o y)[i] = IF i <= Len(x) THEN x[i] ELSE y[i - Len(x)]
  BY ConcatProperties
<1>2. Len(x) \in Nat /\ Len(y) \in Nat
  BY LenProperties
<1> DEFINE z == x \o y
           n == Len(x)
           p == Len(y)
<1>3. /\ n \in Nat /\ p \in Nat /\ z \in Seq(S) /\ Len(z) = n + p
      /\ \A i \in 1..n : z[i] = x[i]
      /\ \A i \in 1..p : z[n + i] = y[i]
  BY <1>1, <1>2
<1>4. z = x \o y /\ n = Len(x) /\ p = Len(y)
  OBVIOUS
<1> HIDE DEF z, n, p
<1>5. \A i \in 1..(n + p) : z[i] \in S
  BY <1>3, ElementOfSeq
<1>6. SubSeq(z, 1, n) = x
  <2>1. \A i \in 1..n : z[i] \in S
    BY <1>3, <1>5
  <2>2. /\ SubSeq(z, 1, n) \in Seq(S)
        /\ Len(SubSeq(z, 1, n)) = IF 1 <= n THEN n - 1 + 1 ELSE 0
        /\ \A i \in 1..(n - 1 + 1) : SubSeq(z, 1, n)[i] = z[1 + i - 1]
    BY <1>3, <2>1, SubSeqProperties
  <2> DEFINE u == SubSeq(z, 1, n)
  <2>3. u \in Seq(S) /\ Len(u) = n /\ \A i \in 1..n : u[i] = z[i]
    BY <1>3, <2>2
  <2> HIDE DEF u
  <2>4. u = x
    BY <1>3, <1>4, <2>3, SeqEqual
  <2> QED
    BY <2>4 DEF u
<1>7. SubSeq(z, n + 1, n + p) = y
  <2>1. \A i \in (n + 1)..(n + p) : z[i] \in S
    BY <1>3, <1>5
  <2>2. /\ SubSeq(z, n + 1, n + p) \in Seq(S)
        /\ Len(SubSeq(z, n + 1, n + p)) =
             IF n + 1 <= n + p THEN (n + p) - (n + 1) + 1 ELSE 0
        /\ \A i \in 1..((n + p) - (n + 1) + 1) :
             SubSeq(z, n + 1, n + p)[i] = z[(n + 1) + i - 1]
    BY <1>3, <2>1, SubSeqProperties
  <2> DEFINE u == SubSeq(z, n + 1, n + p)
  <2>3. u \in Seq(S) /\ Len(u) = p /\ \A i \in 1..p : u[i] = z[n + i]
    BY <1>3, <2>2
  <2> HIDE DEF u
  <2>4. u = y
    BY <1>3, <1>4, <2>3, SeqEqual
  <2> QED
    BY <2>4 DEF u
<1>8. n \in 0..Len(z) /\ SubSeq(z, 1, n) = x /\ SubSeq(z, n + 1, Len(z)) = y
  BY <1>3, <1>6, <1>7
<1> QED
  BY <1>8 DEF z, n

\* A sequence is what its two parts are together.
LEMMA Split ==
    ASSUME NEW S, NEW s \in Seq(S), NEW k \in 0..Len(s)
    PROVE  /\ SubSeq(s, 1, k) \in Seq(S)
           /\ SubSeq(s, k + 1, Len(s)) \in Seq(S)
           /\ SubSeq(s, 1, k) \o SubSeq(s, k + 1, Len(s)) = s
<1>1. Len(s) \in Nat
  BY LenProperties
<1>2. SubSeq(s, 1, k) \o SubSeq(s, k + 1, Len(s)) = SubSeq(s, 1, Len(s))
  <2>1. 1 \in 1..(Len(s) + 1) /\ k \in (1 - 1)..Len(s) /\ Len(s) \in k..Len(s)
    BY <1>1
  <2> QED
    BY <2>1, ConcatAdjacentSubSeq
<1>3. SubSeq(s, 1, Len(s)) = s
  BY SubSeqFull
<1>4. SubSeq(s, 1, k) \in Seq(S) /\ SubSeq(s, k + 1, Len(s)) \in Seq(S)
  <2>1. \A i \in 1..Len(s) : s[i] \in S
    BY ElementOfSeq
  <2>2. (\A i \in 1..k : s[i] \in S) /\ (\A i \in (k + 1)..Len(s) : s[i] \in S)
    BY <1>1, <2>1
  <2>3. 1 \in Int /\ k \in Int /\ k + 1 \in Int /\ Len(s) \in Int
    BY <1>1
  <2> QED
    BY <2>2, <2>3, SubSeqProperties
<1> QED
  BY <1>2, <1>3, <1>4

\* What is handed to the kernel is the first part of the stream.
LEMMA EmitsFirstPart ==
    ASSUME NEW fd, NEW x \in Seq(Nat), NEW y \in Seq(Nat), Emits(fd, x)
    PROVE  /\ Len(x) \in 0..Len(x \o y)
           /\ SubSeq(x \o y, Len(x) + 1, Len(x \o y)) = y
           /\ Streams!Emits(fd, x \o y, Len(x))
<1>1. PICK S : S = Nat
  OBVIOUS
<1>2. x \in Seq(S) /\ y \in Seq(S)
  BY <1>1
<1>3. /\ Len(x) \in 0..Len(x \o y)
      /\ SubSeq(x \o y, 1, Len(x)) = x
      /\ SubSeq(x \o y, Len(x) + 1, Len(x \o y)) = y
  BY <1>2, Cut
<1>4. Len(x) = 0 <=> x = <<>>
  BY EmptySeq
<1>5. out' = IF Len(x) = 0 THEN Quiet ELSE [fd |-> fd, data |-> x]
  BY <1>4 DEF Emits
<1> QED
  BY <1>3, <1>5 DEF Streams!Emits, Streams!Quiet, Quiet, NoFd

\* One connection's bytes change, all others' stay.
OneChanges(fd, left) ==
    \A g \in Fds : PendingBytes(g)' = IF g = fd THEN left ELSE PendingBytes(g)

\* Then the stream of that connection changes and no other.
LEMMA PendingChanges ==
    ASSUME NEW fd, NEW left, OneChanges(fd, left)
    PROVE  [g \in Fds |-> PendingBytes(g)]' =
             [[g \in Fds |-> PendingBytes(g)] EXCEPT ![fd] = left]
BY DEF OneChanges

\* An open connection takes m and hands x to the kernel: a write.
LEMMA Writes ==
    ASSUME TypeOK, NEW fd \in allFds \ dead, NEW m \in Msgs \cup {<<>>},
           NEW x \in Seq(Nat), NEW y \in Seq(Nat),
           PendingBytes(fd) \o m = x \o y, OneChanges(fd, y),
           UNCHANGED <<allFds, dead>>, Emits(fd, x)
    PROVE  Streams!Next
<1>1. fd \in Fds
  BY DEF TypeOK
<1>2. /\ Len(x) \in 0..Len(x \o y)
      /\ SubSeq(x \o y, Len(x) + 1, Len(x \o y)) = y
      /\ Streams!Emits(fd, x \o y, Len(x))
  BY EmitsFirstPart
<1>3. [g \in Fds |-> PendingBytes(g)][fd] = PendingBytes(fd)
  BY <1>1
<1>4. Streams!Write(fd, m)
  BY <1>2, <1>3, PendingChanges DEF Streams!Write
<1> QED
  BY <1>1, <1>4 DEF Streams!Next

\* An open connection fails after x went out: a failure.
LEMMA Fails ==
    ASSUME TypeOK, NEW fd \in allFds \ dead, NEW m \in Msgs \cup {<<>>},
           NEW x \in Seq(Nat), NEW y \in Seq(Nat),
           PendingBytes(fd) \o m = x \o y, OneChanges(fd, <<>>),
           UNCHANGED allFds, dead' = dead \cup {fd}, Emits(fd, x)
    PROVE  Streams!Next
<1>1. fd \in Fds
  BY DEF TypeOK
<1>2. /\ Len(x) \in 0..Len(x \o y)
      /\ SubSeq(x \o y, Len(x) + 1, Len(x \o y)) = y
      /\ Streams!Emits(fd, x \o y, Len(x))
  BY EmitsFirstPart
<1>3. [g \in Fds |-> PendingBytes(g)][fd] = PendingBytes(fd)
  BY <1>1
<1>4. Streams!Fail(fd, m)
  BY <1>2, <1>3, PendingChanges DEF Streams!Fail
<1> QED
  BY <1>1, <1>4 DEF Streams!Next

\* Nothing goes out and no stream changes.
LEMMA StaysSilent ==
    ASSUME out' = Quiet, UNCHANGED <<sendq, dead, allFds>>
    PROVE  Streams!Next
<1>1. [g \in Fds |-> PendingBytes(g)]' = [g \in Fds |-> PendingBytes(g)]
  BY DEF PendingBytes
<1>2. Streams!Silent
  BY <1>1 DEF Streams!Silent, Streams!Quiet, Quiet, NoFd
<1> QED
  BY <1>2 DEF Streams!Next

\* A queue changes, of a connection that has not failed.
LEMMA QueueChanges ==
    ASSUME TypeOK, NEW fd \in Fds \ dead, NEW q,
           sendq' = [sendq EXCEPT ![fd] = q], UNCHANGED dead
    PROVE  OneChanges(fd, OwnBytes(q))
<1>1. \A g \in Fds : sendq'[g] = IF g = fd THEN q ELSE sendq[g]
  BY DEF TypeOK
<1> QED
  BY <1>1 DEF OneChanges, PendingBytes

\* No queue changes.
LEMMA NoQueueChanges ==
    ASSUME NEW fd, UNCHANGED <<sendq, dead>>
    PROVE  OneChanges(fd, PendingBytes(fd))
BY DEF OneChanges, PendingBytes

\* What is written to a connection, and what waits there.
LEMMA SentTypes ==
    ASSUME TypeOK, NEW fd \in Fds
    PROVE  /\ sendq[fd] \in Seq(Entry)
           /\ OwnBytes(sendq[fd]) \in Seq(Nat) /\ PendingBytes(fd) \in Seq(Nat)
           /\ \A m \in Msgs \cup {<<>>} : m \in Seq(Nat)
<1>1. sendq[fd] \in Seq(Entry) /\ <<>> \in Seq(Nat)
  BY DEF TypeOK
<1>2. OwnBytes(sendq[fd]) \in Seq(Nat)
  BY <1>1, OwnBytesType
<1> QED
  BY <1>1, <1>2, MsgsAssumption DEF PendingBytes

\* Nothing waits on a connection whose queue is empty.
LEMMA NothingPending ==
    ASSUME NEW fd, sendq[fd] = <<>>
    PROVE  PendingBytes(fd) = <<>>
BY OwnBytesType DEF PendingBytes

\* An empty sequence changes nothing at either end.
LEMMA EmptyEnds ==
    ASSUME NEW s \in Seq(Nat)
    PROVE  s \o <<>> = s /\ <<>> \o s = s
BY ConcatEmptySeq

\* sm_add_fd opens a stream.
LEMMA AddOpens ==
    ASSUME NEW fd \in Fds, NEW isServer \in BOOLEAN, AddFd(fd, isServer)
    PROVE  Streams!Next
<1>1. /\ fd \notin allFds /\ allFds' = allFds \cup {fd} /\ out' = Quiet
      /\ UNCHANGED <<sendq, dead>>
  BY DEF AddFd
<1>2. [g \in Fds |-> PendingBytes(g)]' = [g \in Fds |-> PendingBytes(g)]
  BY <1>1 DEF PendingBytes
<1>3. Streams!Open(fd)
  BY <1>1, <1>2 DEF Streams!Open, Streams!Quiet, Quiet, NoFd
<1> QED
  BY <1>3 DEF Streams!Next

\* sm_remove_fd, when on_close has returned, ends a stream and no other.
LEMMA EndRemoveCloses ==
    ASSUME TypeOK, Head(closing) \in allFds, EndRemove
    PROVE  Streams!Next
<1>0. PICK fd \in Fds : fd = Head(closing)
  BY DEF TypeOK
<1>1. /\ fd \in Fds /\ allFds' = allFds \ {fd} /\ dead' = dead \ {fd} /\ out' = Quiet
      /\ ForgetReceiver(fd)
  BY <1>0 DEF EndRemove, ClearBits, TypeOK
<1>2. sendq \in Queues
  BY DEF TypeOK, Queues
<1>3. /\ sendq' \in Queues
      /\ \A g \in Fds : Len(sendq'[g]) = Len(sendq[g])
      /\ \A g \in Fds : \A i \in 1..Len(sendq[g]) :
            sendq'[g][i].own = (sendq[g][i].own /\ g # fd)
  BY <1>1, <1>2, ForgetQueues
<1>4. PendingBytes(fd)' = <<>>
  <2>1. sendq'[fd] \in Seq(Entry) /\ \A i \in 1..Len(sendq'[fd]) : ~sendq'[fd][i].own
    BY <1>1, <1>3 DEF Queues
  <2>2. OwnBytes(sendq'[fd]) = <<>>
    BY <2>1, OwnBytesNone
  <2> QED
    BY <2>2 DEF PendingBytes
<1>5. ASSUME NEW g \in Fds, g # fd PROVE PendingBytes(g)' = PendingBytes(g)
  <2>1. ASSUME NEW i \in 1..Len(sendq[g])
        PROVE  OwnPart(sendq'[g][i]) = OwnPart(sendq[g][i])
    <3>0. sendq[g] \in Seq(Entry) /\ sendq[g][i] \in Entry
      BY <1>2, ElementOfSeq DEF Queues
    <3>1. sendq'[g][i].rest = sendq[g][i].rest
      <4>1. sendq'[g][i] = [sendq[g][i] EXCEPT !.recv = IF @ = fd THEN NoFd ELSE @,
                                               !.own = @ /\ g # fd]
        BY <1>1 DEF ForgetReceiver
      <4> QED
        BY <3>0, <4>1 DEF Entry
    <3>2. sendq'[g][i].own <=> sendq[g][i].own
      BY <1>3, <1>5
    <3> QED
      BY <3>1, <3>2 DEF OwnPart
  <2>2. OwnBytes(sendq'[g]) = OwnBytes(sendq[g])
    BY <1>3, <2>1, OwnBytesSame
  <2> QED
    BY <1>1, <1>5, <2>2 DEF PendingBytes
<1>6. OneChanges(fd, <<>>)
  BY <1>4, <1>5 DEF OneChanges
<1>7. fd \in allFds
  BY <1>0
<1>8. Streams!Close(fd)
  BY <1>1, <1>6, <1>7, PendingChanges DEF Streams!Close, Streams!Quiet, Quiet, NoFd
<1> QED
  BY <1>1, <1>8 DEF Streams!Next

\* sm_send: the kernel takes the whole message.
LEMMA SendAllWrites ==
    ASSUME TypeOK, NEW fd \in Fds, NEW m \in Msgs, SendAll(fd, m)
    PROVE  Streams!Next
<1>1. /\ fd \in allFds \ dead /\ sendq[fd] = <<>> /\ Emits(fd, m)
      /\ UNCHANGED <<allFds, sendq, dead>>
  BY DEF SendAll, MaySend, fdSets
<1>2. PendingBytes(fd) = <<>> /\ m \in Seq(Nat) /\ <<>> \in Seq(Nat)
  BY <1>1, SentTypes, NothingPending
<1>3. PendingBytes(fd) \o m = m \o <<>>
  BY <1>2, EmptyEnds
<1>4. OneChanges(fd, <<>>)
  BY <1>1, <1>2, NoQueueChanges
<1> QED
  BY <1>1, <1>2, <1>3, <1>4, Writes

\* sm_send: the kernel takes a part and then fails, or has failed before.
LEMMA SendFailsStream ==
    ASSUME TypeOK, NEW fd \in Fds, NEW m \in Msgs, NEW k \in 0..Len(m),
           SendFails(fd, m, k)
    PROVE  Streams!Next
<1>1. /\ fd \in allFds /\ sendq[fd] = <<>> /\ Emits(fd, SubSeq(m, 1, k))
      /\ dead' = dead \cup {fd} /\ (fd \in dead => k = 0)
      /\ UNCHANGED <<allFds, sendq>>
  BY DEF SendFails, MaySend, fdSets
<1>2. PendingBytes(fd) = <<>> /\ m \in Seq(Nat)
  BY <1>1, SentTypes, NothingPending
<1>3. CASE fd \in dead
  <2>1. SubSeq(m, 1, k) = <<>>
    BY <1>1, <1>3, SubSeqEmpty
  <2>2. out' = Quiet
    BY <1>1, <2>1 DEF Emits
  <2> QED
    BY <1>1, <1>3, <2>2, StaysSilent
<1>4. CASE fd \notin dead
  <2>1. PICK S : S = Nat
    OBVIOUS
  <2>2. /\ SubSeq(m, 1, k) \in Seq(S) /\ SubSeq(m, k + 1, Len(m)) \in Seq(S)
        /\ SubSeq(m, 1, k) \o SubSeq(m, k + 1, Len(m)) = m
    <3>1. m \in Seq(S)
      BY <1>2, <2>1
    <3> QED
      BY <3>1, Split
  <2>3. PendingBytes(fd) \o m = SubSeq(m, 1, k) \o SubSeq(m, k + 1, Len(m))
    BY <1>2, <2>2, EmptyEnds
  <2>4. OneChanges(fd, <<>>)
    BY <1>1, <1>2 DEF OneChanges, PendingBytes
  <2> QED
    BY <1>1, <1>4, <2>1, <2>2, <2>3, <2>4, Fails
<1> QED
  BY <1>3, <1>4

\* Nothing goes out and what waits on each connection stays.
LEMMA SameStreams ==
    ASSUME NEW fd, OneChanges(fd, PendingBytes(fd)), out' = Quiet,
           UNCHANGED <<dead, allFds>>
    PROVE  Streams!Next
<1>1. [g \in Fds |-> PendingBytes(g)]' = [g \in Fds |-> PendingBytes(g)]
  BY DEF OneChanges
<1>2. Streams!Silent
  BY <1>1 DEF Streams!Silent, Streams!Quiet, Quiet, NoFd
<1> QED
  BY <1>2 DEF Streams!Next

\* A message that is queued: a part may have gone out, the rest comes last.
LEMMA QueuedWrites ==
    ASSUME TypeOK, NEW fd \in allFds \ dead, NEW m \in Msgs, NEW e \in Entry, e.own,
           NEW x \in Seq(Nat), x \o e.rest = m, sendq[fd] # <<>> => x = <<>>,
           sendq' = [sendq EXCEPT ![fd] = Append(@, e)],
           UNCHANGED <<allFds, dead>>, Emits(fd, x)
    PROVE  Streams!Next
<1>1. fd \in Fds \ dead
  BY DEF TypeOK
<1>2. /\ sendq[fd] \in Seq(Entry) /\ m \in Seq(Nat)
      /\ PendingBytes(fd) \in Seq(Nat) /\ PendingBytes(fd) = OwnBytes(sendq[fd])
  BY <1>1, SentTypes DEF PendingBytes
<1>3. e.rest \in Seq(Nat) /\ OwnPart(e) = e.rest
  BY DEF Entry, OwnPart
<1> DEFINE left == PendingBytes(fd) \o e.rest
<1>4. OneChanges(fd, left)
  <2>1. OwnBytes(Append(sendq[fd], e)) = left
    BY <1>2, <1>3, OwnBytesAppend
  <2>2. sendq' = [sendq EXCEPT ![fd] = Append(sendq[fd], e)]
    BY <1>1 DEF TypeOK
  <2>3. OneChanges(fd, OwnBytes(Append(sendq[fd], e)))
    BY <1>1, <2>2, QueueChanges
  <2> QED
    BY <2>1, <2>3
<1>5. left \in Seq(Nat)
  BY <1>2, <1>3, ConcatProperties
<1>6. PendingBytes(fd) \o m = x \o left
  <2>1. CASE sendq[fd] = <<>>
    <3>1. PendingBytes(fd) = <<>>
      BY <2>1, NothingPending
    <3>2. left = e.rest /\ PendingBytes(fd) \o m = m
      BY <1>2, <1>3, <3>1, EmptyEnds
    <3> QED
      BY <3>2
  <2>2. CASE sendq[fd] # <<>>
    <3>1. x = <<>>
      BY <2>2
    <3>2. m = e.rest /\ x \o left = left
      BY <1>3, <1>5, <3>1, EmptyEnds
    <3> QED
      BY <3>2
  <2> QED
    BY <2>1, <2>2
<1> HIDE DEF left
<1>7. m \in Msgs \cup {<<>>}
  OBVIOUS
<1> QED
  BY <1>4, <1>5, <1>6, <1>7, Writes

\* sm_send: the rest of the message is queued.
LEMMA SendQueuesWrites ==
    ASSUME TypeOK, NEW fd \in Fds, NEW m \in Msgs, NEW k \in 0..Len(m),
           SendQueues(fd, m, k)
    PROVE  Streams!Next
<1> DEFINE entry == [recv |-> currRecvFd, rest |-> SubSeq(m, k + 1, Len(m)), own |-> TRUE]
<1>1. /\ fd \in allFds /\ Emits(fd, SubSeq(m, 1, k))
      /\ (sendq[fd] # <<>> => k = 0) /\ (fd \in dead => sendq[fd] # <<>>)
      /\ sendq' = [sendq EXCEPT ![fd] = Append(@, entry)]
      /\ UNCHANGED <<allFds, dead>>
  BY DEF SendQueues, Enqueue, MaySend
<1>2. m \in Seq(Nat)
  BY SentTypes
<1>3. k = 0 => SubSeq(m, 1, k) = <<>>
  BY SubSeqEmpty
<1>4. CASE fd \in dead
  <2>1. out' = Quiet
    BY <1>1, <1>3, <1>4 DEF Emits
  <2>2. OneChanges(fd, PendingBytes(fd))
    BY <1>1, <1>4 DEF OneChanges, PendingBytes, TypeOK
  <2> QED
    BY <1>1, <2>1, <2>2, SameStreams
<1>5. CASE fd \notin dead
  <2>1. PICK S : S = Nat
    OBVIOUS
  <2>2. m \in Seq(S)
    BY <1>2, <2>1
  <2>3. /\ SubSeq(m, 1, k) \in Seq(S) /\ SubSeq(m, k + 1, Len(m)) \in Seq(S)
        /\ SubSeq(m, 1, k) \o SubSeq(m, k + 1, Len(m)) = m
    BY <2>2, Split
  <2>4. PICK e \in Entry : /\ e = entry /\ e.own
                           /\ e.rest = SubSeq(m, k + 1, Len(m))
    <3>1. PICK rest \in Seq(Nat) : rest = SubSeq(m, k + 1, Len(m))
      BY <2>1, <2>3
    <3>2. currRecvFd \in Fds \cup {NoFd}
      BY DEF TypeOK
    <3>3. [recv |-> currRecvFd, rest |-> rest, own |-> TRUE] \in Entry
      BY <3>2 DEF Entry
    <3>4. entry = [recv |-> currRecvFd, rest |-> rest, own |-> TRUE]
      BY <3>1
    <3>5. entry \in Entry /\ entry.own /\ entry.rest = rest
      BY <3>3, <3>4
    <3> HIDE DEF entry
    <3> QED
      BY <3>1, <3>5
  <2>5. PICK x \in Seq(Nat) : x = SubSeq(m, 1, k) /\ x \o SubSeq(m, k + 1, Len(m)) = m
    BY <2>1, <2>3
  <2>6. /\ x \o e.rest = m /\ (sendq[fd] # <<>> => x = <<>>)
        /\ sendq' = [sendq EXCEPT ![fd] = Append(@, e)]
        /\ Emits(fd, x)
    <3>1. sendq' = [sendq EXCEPT ![fd] = Append(@, e)]
      BY <1>1, <2>4
    <3>2. x \o e.rest = m
      BY <2>4, <2>5
    <3>3. Emits(fd, x)
      BY <1>1, <2>5
    <3>4. sendq[fd] # <<>> => x = <<>>
      BY <1>1, <1>3, <2>5
    <3> QED
      BY <3>1, <3>2, <3>3, <3>4
  <2>7. fd \in allFds \ dead
    BY <1>1, <1>5
  <2> HIDE DEF entry
  <2> QED
    BY <1>1, <2>4, <2>6, <2>7, QueuedWrites
<1> QED
  BY <1>4, <1>5

\* A sequence put together from one entry and others.
LEMMA PutFirst ==
    ASSUME NEW S, NEW h \in S, NEW t \in Seq(S)
    PROVE  /\ <<h>> \o t \in Seq(S) /\ <<h>> \o t # <<>>
           /\ Head(<<h>> \o t) = h /\ Tail(<<h>> \o t) = t
<1>1. <<h>> \in Seq(S) /\ Len(<<h>>) = 1 /\ <<h>>[1] = h
  OBVIOUS
<1>2. PICK one \in Seq(S) : one = <<h>> /\ Len(one) = 1 /\ one[1] = h
  BY <1>1
<1>3. /\ one \o t \in Seq(S) /\ Len(one \o t) = Len(one) + Len(t)
      /\ \A i \in 1..(Len(one) + Len(t)) :
           (one \o t)[i] = IF i <= Len(one) THEN one[i] ELSE t[i - Len(one)]
  BY ConcatProperties
<1>4. Len(t) \in Nat
  BY LenProperties
<1>5. PICK z \in Seq(S) : /\ z = one \o t /\ Len(z) = 1 + Len(t) /\ z[1] = h
                          /\ \A i \in 1..Len(t) : z[i + 1] = t[i]
  <2>1. Len(one \o t) = 1 + Len(t)
    BY <1>2, <1>3
  <2>2. (one \o t)[1] = h
    BY <1>2, <1>3, <1>4
  <2>3. ASSUME NEW i \in 1..Len(t) PROVE (one \o t)[i + 1] = t[i]
    BY <1>2, <1>3, <1>4
  <2> QED
    BY <1>3, <2>1, <2>2, <2>3
<1>6. z # <<>>
  BY <1>4, <1>5, EmptySeq
<1>7. Head(z) = h
  BY <1>5, <1>6
<1>8. /\ Tail(z) \in Seq(S) /\ Len(Tail(z)) = Len(z) - 1
      /\ \A i \in 1..Len(Tail(z)) : Tail(z)[i] = z[i + 1]
  BY <1>6, HeadTailProperties
<1>9. Tail(z) = t
  <2>1. Len(Tail(z)) = Len(t)
    BY <1>4, <1>5, <1>8
  <2>2. \A i \in 1..Len(t) : Tail(z)[i] = t[i]
    BY <1>5, <1>8, <2>1
  <2> QED
    BY <1>8, <2>1, <2>2, SeqEqual
<1> QED
  BY <1>2, <1>5, <1>6, <1>7, <1>9

\* The queue that sm_resend serves: its connection is open, and all that waits
\* there is its own.
LEMMA Served ==
    ASSUME TypeOK, QueuesInv, PlaceInv, phase = "resend", sendq[at] # <<>>
    PROVE  /\ at \in Fds /\ at \in allFds
           /\ sendq[at] \in Seq(Entry)
           /\ Head(sendq[at]) \in Entry /\ Head(sendq[at]).own
           /\ Tail(sendq[at]) \in Seq(Entry)
<1>1. at \in Fds /\ at \in sendFds
  BY DEF PlaceInv
<1>2. at \in allFds /\ sendq[at] \in Seq(Entry)
  BY <1>1 DEF TypeOK
<1>3. Head(sendq[at]) \in Entry /\ Tail(sendq[at]) \in Seq(Entry)
  BY <1>2, HeadTailProperties
<1>4. Head(sendq[at]) = sendq[at][1] /\ 1 \in 1..Len(sendq[at])
  BY <1>2, EmptySeq
<1>5. sendq[at][1].own
  BY <1>1, <1>4 DEF QueuesInv
<1> QED
  BY <1>1, <1>2, <1>3, <1>4, <1>5

\* The head of a queue gives up x and keeps z (nothing, when it is unlinked).
LEMMA HeadWrites ==
    ASSUME TypeOK, NEW fd \in allFds \ dead, NEW e \in Entry, e.own,
           sendq[fd] # <<>>, e = Head(sendq[fd]),
           NEW x \in Seq(Nat), NEW z \in Seq(Nat), x \o z = e.rest,
           NEW q, OwnBytes(q) = z \o OwnBytes(Tail(sendq[fd])),
           sendq' = [sendq EXCEPT ![fd] = q],
           UNCHANGED <<allFds, dead>>, Emits(fd, x)
    PROVE  Streams!Next
<1>1. fd \in Fds \ dead
  BY DEF TypeOK
<1>2. sendq[fd] \in Seq(Entry) /\ PendingBytes(fd) = OwnBytes(sendq[fd])
  BY <1>1, SentTypes DEF PendingBytes
<1>3. Tail(sendq[fd]) \in Seq(Entry)
  BY <1>2, HeadTailProperties
<1>4. PICK t \in Seq(Nat) : t = OwnBytes(Tail(sendq[fd]))
  BY <1>3, OwnBytesType
<1>5. PendingBytes(fd) = e.rest \o t
  <2>1. OwnBytes(sendq[fd]) = OwnPart(Head(sendq[fd])) \o OwnBytes(Tail(sendq[fd]))
    BY <1>2, OwnBytesFirst
  <2>2. OwnPart(Head(sendq[fd])) = e.rest
    BY DEF OwnPart
  <2> QED
    BY <1>2, <1>4, <2>1, <2>2
<1>6. (x \o z) \o t = x \o (z \o t)
  BY BytesAssociative
<1>7. PICK y \in Seq(Nat) : y = z \o t
  BY ConcatProperties
<1>8. PendingBytes(fd) = x \o y
  BY <1>5, <1>6, <1>7
<1>9. PendingBytes(fd) \o <<>> = x \o y
  <2>1. PendingBytes(fd) \in Seq(Nat)
    BY <1>1, SentTypes
  <2> QED
    BY <1>8, <2>1, EmptyEnds
<1>10. OneChanges(fd, y)
  <2>1. OneChanges(fd, OwnBytes(q))
    BY <1>1, QueueChanges
  <2>2. OwnBytes(q) = y
    BY <1>4, <1>7
  <2> QED
    BY <2>1, <2>2
<1>11. <<>> \in Msgs \cup {<<>>}
  OBVIOUS
<1> QED
  BY <1>9, <1>10, <1>11, Writes

\* sm_resend sends the whole head entry.
LEMMA ResendEntryWrites ==
    ASSUME TypeOK, QueuesInv, PlaceInv, ResendEntry
    PROVE  Streams!Next
<1>1. /\ phase = "resend" /\ sendq[at] # <<>> /\ at \notin dead
      /\ Emits(at, Head(sendq[at]).rest)
      /\ sendq' = [sendq EXCEPT ![at] = Tail(@)]
      /\ UNCHANGED <<allFds, dead>>
  BY DEF ResendEntry
<1>2. /\ at \in Fds /\ at \in allFds /\ Head(sendq[at]) \in Entry /\ Head(sendq[at]).own
      /\ Tail(sendq[at]) \in Seq(Entry)
  BY <1>1, Served
<1>3. PICK fd \in allFds \ dead : fd = at
  BY <1>1, <1>2
<1>4. PICK e \in Entry : e = Head(sendq[fd]) /\ e.own
  BY <1>2, <1>3
<1>5. PICK q \in Seq(Entry) : q = Tail(sendq[fd])
  BY <1>2, <1>3
<1>6. e.rest \in Seq(Nat) /\ <<>> \in Seq(Nat) /\ OwnBytes(q) \in Seq(Nat)
  <2>1. e.rest \in Seq(Nat)
    BY DEF Entry
  <2>2. OwnBytes(q) \in Seq(Nat)
    BY OwnBytesType
  <2> QED
    BY <2>1, <2>2
<1>7. e.rest \o <<>> = e.rest /\ <<>> \o OwnBytes(q) = OwnBytes(q)
  BY <1>6, EmptyEnds
<1>8. /\ sendq' = [sendq EXCEPT ![fd] = q] /\ sendq[fd] # <<>> /\ Emits(fd, e.rest)
  BY <1>1, <1>2, <1>3, <1>4, <1>5 DEF TypeOK
<1>9. OwnBytes(q) = <<>> \o OwnBytes(Tail(sendq[fd]))
  BY <1>5, <1>7
<1> QED
  BY <1>1, <1>4, <1>6, <1>7, <1>8, <1>9, HeadWrites

\* sm_resend sends a part of the head entry.
LEMMA ResendPartWrites ==
    ASSUME TypeOK, QueuesInv, PlaceInv, ResendPart
    PROVE  Streams!Next
<1>1. PICK k \in 0..(Len(Head(sendq[at]).rest) - 1) :
        /\ phase = "resend" /\ sendq[at] # <<>> /\ at \notin dead
        /\ Emits(at, SubSeq(Head(sendq[at]).rest, 1, k))
        /\ sendq' = [sendq EXCEPT ![at] =
             <<[Head(sendq[at]) EXCEPT !.rest = SubSeq(@, k + 1, Len(@))]>> \o Tail(@)]
        /\ UNCHANGED <<allFds, dead>>
  BY DEF ResendPart, fdSets
<1>2. /\ at \in Fds /\ at \in allFds /\ Head(sendq[at]) \in Entry /\ Head(sendq[at]).own
      /\ Tail(sendq[at]) \in Seq(Entry)
  BY <1>1, Served
<1>3. PICK fd \in allFds \ dead : fd = at
  BY <1>1, <1>2
<1>4. PICK e \in Entry : e = Head(sendq[fd]) /\ e.own
  BY <1>2, <1>3
<1>5. PICK t \in Seq(Entry) : t = Tail(sendq[fd])
  BY <1>2, <1>3
<1>6. e.rest \in Seq(Nat) /\ k \in 0..Len(e.rest)
  <2>1. e.rest \in Seq(Nat)
    BY DEF Entry
  <2>2. Len(e.rest) \in Nat
    BY <2>1, LenProperties
  <2> QED
    BY <1>1, <1>3, <1>4, <2>1, <2>2
<1>7. /\ SubSeq(e.rest, 1, k) \in Seq(Nat)
      /\ SubSeq(e.rest, k + 1, Len(e.rest)) \in Seq(Nat)
      /\ SubSeq(e.rest, 1, k) \o SubSeq(e.rest, k + 1, Len(e.rest)) = e.rest
  <2>1. PICK S : S = Nat
    OBVIOUS
  <2>2. e.rest \in Seq(S)
    BY <1>6, <2>1
  <2> QED
    BY <1>6, <2>1, <2>2, Split
<1>8. PICK x \in Seq(Nat) : x = SubSeq(e.rest, 1, k)
  BY <1>7
<1>9. PICK z \in Seq(Nat) : z = SubSeq(e.rest, k + 1, Len(e.rest))
  BY <1>7
<1>10. PICK h \in Entry : h = [e EXCEPT !.rest = z] /\ OwnPart(h) = z
  <2> DEFINE h == [e EXCEPT !.rest = z]
  <2>1. h \in Entry /\ h.rest = z /\ h.own = e.own
    BY DEF Entry
  <2>2. h = [e EXCEPT !.rest = z]
    OBVIOUS
  <2> HIDE DEF h
  <2>3. OwnPart(h) = z
    BY <1>4, <2>1 DEF OwnPart
  <2> QED
    BY <2>1, <2>2, <2>3
<1>11. PICK q \in Seq(Entry) : q = <<h>> \o t /\ q # <<>> /\ Head(q) = h /\ Tail(q) = t
  BY PutFirst
<1>12. OwnBytes(q) = z \o OwnBytes(Tail(sendq[fd]))
  <2>1. OwnBytes(q) = OwnPart(Head(q)) \o OwnBytes(Tail(q))
    BY <1>11, OwnBytesFirst
  <2> QED
    BY <1>5, <1>10, <1>11, <2>1
<1>13. sendq' = [sendq EXCEPT ![fd] = q]
  <2>1. sendq' = [sendq EXCEPT ![at] =
             <<[Head(sendq[at]) EXCEPT !.rest = SubSeq(@, k + 1, Len(@))]>> \o Tail(sendq[at])]
    BY <1>1, <1>2 DEF TypeOK
  <2>2. [Head(sendq[fd]) EXCEPT !.rest = SubSeq(@, k + 1, Len(@))] = h
    BY <1>4, <1>9, <1>10 DEF Entry
  <2> QED
    BY <1>3, <1>5, <1>11, <2>1, <2>2
<1>14. Emits(fd, x)
  BY <1>1, <1>3, <1>4, <1>8
<1>15. x \o z = e.rest
  BY <1>7, <1>8, <1>9
<1>16. sendq[fd] # <<>>
  BY <1>1, <1>3
<1> QED
  BY <1>1, <1>4, <1>12, <1>13, <1>14, <1>15, <1>16, HeadWrites

\* sm_resend fails: its stream fails after a part of the head entry, unless it
\* had failed before.
LEMMA ResendFailsStream ==
    ASSUME TypeOK, QueuesInv, PlaceInv, ResendFails
    PROVE  Streams!Next
<1>1. PICK k \in 0..(Len(Head(sendq[at]).rest) - 1) :
        /\ phase = "resend" /\ sendq[at] # <<>> /\ dead' = dead \cup {at}
        /\ at \in dead => k = 0
        /\ Emits(at, SubSeq(Head(sendq[at]).rest, 1, k))
        /\ UNCHANGED <<allFds, sendq>>
  BY DEF ResendFails, fdSets
<1>2. /\ at \in Fds /\ at \in allFds /\ sendq[at] \in Seq(Entry)
      /\ Head(sendq[at]) \in Entry /\ Head(sendq[at]).own /\ Tail(sendq[at]) \in Seq(Entry)
  BY <1>1, Served
<1>3. PICK fd \in Fds : fd = at /\ fd \in allFds
  BY <1>2
<1>4. PICK e \in Entry : e = Head(sendq[fd]) /\ e.own
  BY <1>2, <1>3
<1>5. e.rest \in Seq(Nat) /\ k \in 0..Len(e.rest)
  <2>1. e.rest \in Seq(Nat)
    BY DEF Entry
  <2>2. Len(e.rest) \in Nat
    BY <2>1, LenProperties
  <2> QED
    BY <1>1, <1>3, <1>4, <2>1, <2>2
<1>6. CASE fd \in dead
  <2>1. SubSeq(e.rest, 1, k) = <<>>
    BY <1>1, <1>3, <1>5, <1>6, SubSeqEmpty
  <2>2. out' = Quiet
    BY <1>1, <1>3, <1>4, <2>1 DEF Emits
  <2>3. UNCHANGED <<sendq, dead, allFds>>
    BY <1>1, <1>3, <1>6
  <2> QED
    BY <2>2, <2>3, StaysSilent
<1>7. CASE fd \notin dead
  <2>1. /\ SubSeq(e.rest, 1, k) \in Seq(Nat)
        /\ SubSeq(e.rest, k + 1, Len(e.rest)) \in Seq(Nat)
        /\ SubSeq(e.rest, 1, k) \o SubSeq(e.rest, k + 1, Len(e.rest)) = e.rest
    <3>1. PICK S : S = Nat
      OBVIOUS
    <3>2. e.rest \in Seq(S)
      BY <1>5, <3>1
    <3> QED
      BY <1>5, <3>1, <3>2, Split
  <2>2. PICK x \in Seq(Nat) : x = SubSeq(e.rest, 1, k)
    BY <2>1
  <2>3. PICK z \in Seq(Nat) : z = SubSeq(e.rest, k + 1, Len(e.rest))
    BY <2>1
  <2>4. PICK t \in Seq(Nat) : t = OwnBytes(Tail(sendq[fd]))
    BY <1>2, <1>3, OwnBytesType
  <2>5. PendingBytes(fd) = e.rest \o t
    <3>1. OwnBytes(sendq[fd]) = OwnPart(Head(sendq[fd])) \o OwnBytes(Tail(sendq[fd]))
      BY <1>1, <1>2, <1>3, OwnBytesFirst
    <3>2. OwnPart(Head(sendq[fd])) = e.rest
      BY <1>4 DEF OwnPart
    <3> QED
      BY <1>7, <2>4, <3>1, <3>2 DEF PendingBytes
  <2>6. (x \o z) \o t = x \o (z \o t)
    BY BytesAssociative
  <2>7. PICK y \in Seq(Nat) : y = z \o t
    BY ConcatProperties
  <2>8. PendingBytes(fd) = x \o y
    BY <2>1, <2>2, <2>3, <2>5, <2>6, <2>7
  <2>9. PendingBytes(fd) \o <<>> = x \o y
    <3>1. PendingBytes(fd) \in Seq(Nat)
      BY SentTypes
    <3> QED
      BY <2>8, <3>1, EmptyEnds
  <2>10. OneChanges(fd, <<>>)
    BY <1>1, <1>3 DEF OneChanges, PendingBytes
  <2>11. <<>> \in Msgs \cup {<<>>} /\ fd \in allFds \ dead
    BY <1>3, <1>7
  <2>12. Emits(fd, x) /\ dead' = dead \cup {fd} /\ UNCHANGED allFds
    BY <1>1, <1>3, <1>4, <2>2
  <2> QED
    BY <2>9, <2>10, <2>11, <2>12, Fails
<1> QED
  BY <1>6, <1>7

-----------------------------------------------------------------------------
(* Descriptors whose on_close is running are open, each only once.           *)

ClosingOpen ==
    /\ \A i \in DOMAIN closing : closing[i] \in allFds
    /\ \A i, j \in DOMAIN closing : closing[i] = closing[j] => i = j

\* They stay so.
LEMMA ClosingStep ==
    ASSUME TypeOK, ClosingOpen, [Next]_vars
    PROVE  ClosingOpen'
<1>1. closing \in Seq(Fds) /\ Len(closing) \in Nat /\ DOMAIN closing = 1..Len(closing)
  BY LenProperties DEF TypeOK
<1>2. CASE Removed!Opens
  <2>1. closing = <<>> /\ \E new : /\ allFds' = allFds \cup new
                                   /\ closing' = <<>> \/ \E o \in new : closing' = <<o>>
    BY <1>2 DEF Removed!Opens
  <2>2. CASE closing' = <<>>
    BY <2>2 DEF ClosingOpen
  <2>3. CASE closing' # <<>>
    <3>1. PICK o \in allFds' : closing' = <<o>>
      BY <2>1, <2>3
    <3>2. DOMAIN <<o>> = {1} /\ <<o>>[1] = o
      OBVIOUS
    <3> QED
      BY <3>1, <3>2 DEF ClosingOpen
  <2> QED
    BY <2>2, <2>3
<1>3. ASSUME NEW o, Removed!Begins(o) PROVE ClosingOpen'
  <2>1. /\ o \in allFds /\ (\A i \in DOMAIN closing : closing[i] # o)
        /\ closing' = <<o>> \o closing /\ allFds' = allFds
    BY <1>3 DEF Removed!Begins
  <2>2. o \in Fds
    BY <2>1 DEF TypeOK
  <2>3. PICK one \in Seq(Fds) : one = <<o>> /\ Len(one) = 1 /\ one[1] = o
    <3>1. <<o>> \in Seq(Fds) /\ Len(<<o>>) = 1 /\ <<o>>[1] = o
      BY <2>2
    <3> QED
      BY <3>1
  <2>4. /\ one \o closing \in Seq(Fds) /\ Len(one \o closing) = Len(one) + Len(closing)
        /\ \A i \in 1..(Len(one) + Len(closing)) : (one \o closing)[i] =
              IF i <= Len(one) THEN one[i] ELSE closing[i - Len(one)]
    BY <1>1, ConcatProperties
  <2>5. closing' = one \o closing
    BY <2>1, <2>3
  <2>6. /\ closing' \in Seq(Fds) /\ Len(closing') = 1 + Len(closing)
        /\ \A i \in 1..(1 + Len(closing)) :
              closing'[i] = IF i <= 1 THEN o ELSE closing[i - 1]
    BY <2>3, <2>4, <2>5
  <2>7. DOMAIN closing' = 1..(1 + Len(closing))
    BY <2>6, LenProperties
  <2>8. ASSUME NEW i \in 2..(1 + Len(closing)) PROVE i - 1 \in DOMAIN closing
    BY <1>1
  <2>9. closing'[1] = o
    BY <1>1, <2>6
  <2>10. ASSUME NEW i \in 2..(1 + Len(closing))
         PROVE  closing'[i] = closing[i - 1] /\ closing'[i] # o
    <3>1. i \in 1..(1 + Len(closing)) /\ ~(i <= 1)
      BY <1>1
    <3>2. closing'[i] = closing[i - 1]
      BY <2>6, <3>1
    <3> QED
      BY <2>1, <2>8, <3>2
  <2>11. ASSUME NEW i \in 1..(1 + Len(closing)) PROVE closing'[i] \in allFds'
    <3>1. CASE i = 1
      BY <2>1, <2>9, <3>1
    <3>2. CASE i # 1
      <4>1. i \in 2..(1 + Len(closing))
        BY <1>1, <3>2
      <4> QED
        BY <2>1, <2>8, <2>10, <4>1 DEF ClosingOpen
    <3> QED
      BY <3>1, <3>2
  <2>12. ASSUME NEW i \in 1..(1 + Len(closing)), NEW j \in 1..(1 + Len(closing)),
                closing'[i] = closing'[j]
         PROVE  i = j
    <3>1. CASE i = 1 \/ j = 1
      BY <1>1, <2>9, <2>10, <2>12, <3>1
    <3>2. CASE i # 1 /\ j # 1
      <4>1. i \in 2..(1 + Len(closing)) /\ j \in 2..(1 + Len(closing))
        BY <1>1, <3>2
      <4>2. closing[i - 1] = closing[j - 1]
        BY <2>10, <2>12, <4>1
      <4>3. i - 1 = j - 1
        BY <2>8, <4>1, <4>2 DEF ClosingOpen
      <4> QED
        BY <4>3
    <3> QED
      BY <3>1, <3>2
  <2> QED
    BY <2>7, <2>11, <2>12 DEF ClosingOpen
<1>4. CASE Removed!Ends
  <2>1. closing # <<>> /\ allFds' = allFds \ {Head(closing)} /\ closing' = Tail(closing)
    BY <1>4 DEF Removed!Ends
  <2>2. /\ Head(closing) = closing[1] /\ Len(closing) \in Nat \ {0}
        /\ Tail(closing) \in Seq(Fds) /\ Len(Tail(closing)) = Len(closing) - 1
        /\ \A i \in 1..Len(Tail(closing)) : Tail(closing)[i] = closing[i + 1]
    BY <2>1, HeadClosing
  <2>3. /\ DOMAIN closing' = 1..(Len(closing) - 1)
        /\ \A i \in 1..(Len(closing) - 1) : closing'[i] = closing[i + 1]
    BY <2>1, <2>2, LenProperties
  <2>4. ASSUME NEW i \in 1..(Len(closing) - 1)
        PROVE  i + 1 \in DOMAIN closing /\ i + 1 # 1
    BY <1>1
  <2>5. 1 \in DOMAIN closing
    BY <1>1, <2>2
  <2>6. ASSUME NEW i \in 1..(Len(closing) - 1) PROVE closing'[i] \in allFds'
    <3>1. closing[i + 1] \in allFds /\ closing[i + 1] # closing[1]
      BY <2>4, <2>5 DEF ClosingOpen
    <3> QED
      BY <2>1, <2>2, <2>3, <3>1
  <2>7. ASSUME NEW i \in 1..(Len(closing) - 1), NEW j \in 1..(Len(closing) - 1),
               closing'[i] = closing'[j]
        PROVE  i = j
    <3>1. i + 1 = j + 1
      BY <2>3, <2>4, <2>7 DEF ClosingOpen
    <3> QED
      BY <3>1
  <2> QED
    BY <2>3, <2>6, <2>7 DEF ClosingOpen
<1>5. CASE UNCHANGED <<allFds, closing>>
  BY <1>5 DEF ClosingOpen
<1> QED
  BY <1>2, <1>3, <1>4, <1>5, ContractStep DEF Removed!Next

-----------------------------------------------------------------------------
(* Every step is one of the streams', or changes nothing of them.            *)

\* One case per action; the many that only move the loop along are silent.
LEMMA StreamStep ==
    ASSUME IndInv, ClosingOpen, [Next]_vars
    PROVE  Streams!Next \/ UNCHANGED Streams!vars
<1>0. TypeOK /\ QueuesInv /\ PlaceInv
  BY DEF IndInv
<1>1. CASE EndRemove
  <2>1. closing # <<>>
    BY <1>1 DEF EndRemove
  <2>2. Head(closing) = closing[1] /\ 1 \in DOMAIN closing
    BY <1>0, <2>1, HeadClosing, LenProperties DEF TypeOK
  <2>3. Head(closing) \in allFds
    BY <2>2 DEF ClosingOpen
  <2> QED
    BY <1>0, <1>1, <2>3, EndRemoveCloses
<1>2. CASE \/ \E fd \in Fds, isServer \in BOOLEAN : ClientAdd(fd, isServer)
           \/ \E fd \in Fds : AcceptClient(fd)
  <2>1. \E fd \in Fds, isServer \in BOOLEAN : AddFd(fd, isServer)
    BY <1>2 DEF ClientAdd, AcceptClient
  <2> QED
    BY <2>1, AddOpens
<1>3. CASE \E fd \in Fds, m \in Msgs : SendAll(fd, m)
  BY <1>0, <1>3, SendAllWrites
<1>4. CASE \E fd \in Fds, m \in Msgs : \E k \in 0..Len(m) : SendFails(fd, m, k)
  BY <1>0, <1>4, SendFailsStream
<1>5. CASE \E fd \in Fds, m \in Msgs : \E k \in 0..Len(m) : SendQueues(fd, m, k)
  BY <1>0, <1>5, SendQueuesWrites
<1>6. CASE ResendEntry
  BY <1>0, <1>6, ResendEntryWrites
<1>7. CASE ResendPart
  BY <1>0, <1>7, ResendPartWrites
<1>8. CASE ResendFails
  BY <1>0, <1>8, ResendFailsStream
<1>9. CASE \/ \E fd \in Fds : ClientRemove(fd) \/ ScanFd(fd) \/ CleanupFd(fd)
           \/ \E w \in SUBSET sendFds, r \in SUBSET recvFds, x \in SUBSET allFds : Poll(w, r, x)
           \/ EnterLoop \/ ScanEnd \/ AcceptEnd \/ ResendEnd
           \/ RecvInput \/ OnRecvReturns \/ RecvNoInput \/ RecvFails \/ RecvEnd
           \/ Quit \/ CleanupEnd
  <2>1. out' = Quiet /\ UNCHANGED <<sendq, dead, allFds>>
    BY <1>9 DEF ClientRemove, ScanFd, CleanupFd, Poll, EnterLoop, ScanEnd, AcceptEnd,
                ResendEnd, RecvInput, OnRecvReturns, RecvNoInput, RecvFails, RecvEnd,
                Quit, CleanupEnd, fdSets
  <2> QED
    BY <2>1, StaysSilent
<1>10. CASE UNCHANGED vars
  <2>1. UNCHANGED <<sendq, dead, allFds, out>>
    BY <1>10 DEF vars, fdSets
  <2>2. [g \in Fds |-> PendingBytes(g)]' = [g \in Fds |-> PendingBytes(g)]
    BY <2>1 DEF PendingBytes
  <2> QED
    BY <2>1, <2>2 DEF Streams!vars
<1> QED
  BY <1>1, <1>2, <1>3, <1>4, <1>5, <1>6, <1>7, <1>8, <1>9, <1>10
  DEF Next, ClientStep, Terminated

\* Sending implements ByteStreams for every set of descriptors and messages: what
\* sm_send accepted on a connection goes out once and in order, through immediate
\* sends, blocked sends, partial retries, failures, removals and the reuse of
\* descriptor numbers, and never on the successor of a closed connection.
THEOREM ImplementsStreams == Spec => StreamsSpec
<1>1. Init => Streams!Init
  <2> SUFFICES ASSUME Init PROVE Streams!Init
    OBVIOUS
  <2>1. ASSUME NEW fd \in Fds PROVE PendingBytes(fd) = <<>>
    BY NothingPending DEF Init
  <2> QED
    BY <2>1 DEF Init, Streams!Init, Streams!Quiet, Quiet, NoFd
<1>2. Init => ClosingOpen
  BY DEF Init, ClosingOpen
<1>3. IndInv /\ ClosingOpen /\ [Next]_vars => ClosingOpen'
  BY ClosingStep DEF IndInv
<1>4. IndInv /\ ClosingOpen /\ [Next]_vars => [Streams!Next]_(Streams!vars)
  BY StreamStep
<1> QED
  BY <1>1, <1>2, <1>3, <1>4, Inductive, PTL DEF Spec, StreamsSpec, Streams!Spec
=============================================================================
