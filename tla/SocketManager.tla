--------------------------- MODULE SocketManager ---------------------------
(***************************************************************************)
(* The select loop of src/src/socket_manager.c: the fd sets, the queues of *)
(* blocked sends, the scan over the descriptors that select(2) reported,   *)
(* and the re-entrant removal of descriptors from inside callbacks.        *)
(*                                                                         *)
(* The program is one thread.  A step is one system call with what the     *)
(* code does about its result, one call of the client (the proxy, through  *)
(* on_recv or on_close) into add_fd, remove_fd or send, or the return from *)
(* a callback.  What the kernel answers is nondeterministic.               *)
(*                                                                         *)
(* Operators whose comment starts with (slip) are not part of the model:   *)
(* each is the definition that follows it with a plausible mistake, used   *)
(* to see that a property fails when the code is wrong in that way.        *)
(***************************************************************************)
EXTENDS Integers, Sequences, FiniteSets

CONSTANTS
    Fds,        \* descriptor numbers the process can be given
    Msgs,       \* what the client passes to send: nonempty byte sequences
    MaxQueued,  \* bound on the blocked sends that wait at the same time
    MaxReady    \* bound on the bits one select(2) reports

ASSUME FdsAssumption == IsFiniteSet(Fds) /\ Fds \subseteq Nat \ {0}
ASSUME MsgsAssumption == Msgs \subseteq Seq(Nat) \ {<<>>}
ASSUME BoundsAssumption == MaxQueued \in Nat /\ MaxReady \in Nat

NoFd == 0       \* curr_recv_fd outside sm_recv; a queued send nobody waits for

VARIABLES
    allFds, serverFds, sendFds, recvFds,    \* the fd_sets
    maxFd,
    sendq,                                  \* fd_to_sendq
    tmpSend, tmpRecv, tmpFail,              \* what select(2) reported
    currRecvFd,
    phase,      \* where the thread is, when no on_close is running
    at,         \* the loop variable fd of sm_select and sm_cleanup
    canRecv,    \* can_recv of sm_select, read before sm_resend runs
    numLeft,
    closing,    \* descriptors whose on_close is running, innermost first
    dead,       \* (kernel) sockets that failed a send: they never send again
    out         \* (ghost) the bytes the last step handed to the kernel

fdSets == <<allFds, serverFds, sendFds, recvFds, maxFd>>
polled == <<tmpSend, tmpRecv, tmpFail>>
control == <<phase, at, canRecv, numLeft>>
vars == <<fdSets, sendq, polled, currRecvFd, control, closing, dead, out>>

\* A blocked send: the receiver that caused it (or NoFd), the bytes from head
\* to tail, and (ghost) whether the connection it was queued on is still open.
Entry == [recv : Fds \cup {NoFd}, rest : Seq(Nat), own : BOOLEAN]

Phases == {"start", "idle", "scan", "accept", "resend", "resend_end", "recv",
           "on_recv", "recv_end", "cleanup", "done"}

Quiet == [fd |-> NoFd, data |-> <<>>]
Emits(fd, s) == out' = IF s = <<>> THEN Quiet ELSE [fd |-> fd, data |-> s]

IsClosing(fd) == \E i \in 1..Len(closing) : closing[i] = fd

\* Some blocked send names fd as the receiver that caused it.
WaitsFor(q, fd) == \E g \in Fds : \E i \in 1..Len(q[g]) : q[g][i].recv = fd

\* The queue of fd was left behind by a closed connection with this number: its
\* first entry, and so the queue, is not the open connection's.
LeftOver(fd) == sendq[fd] # <<>> /\ ~sendq[fd][1].own

NumQueued == Cardinality({p \in Fds \X (1..MaxQueued) : p[2] <= Len(sendq[p[1]])})

-----------------------------------------------------------------------------

Init ==
    /\ allFds = {} /\ serverFds = {} /\ sendFds = {} /\ recvFds = {}
    /\ maxFd = -1
    /\ sendq = [fd \in Fds |-> <<>>]
    /\ tmpSend = {} /\ tmpRecv = {} /\ tmpFail = {}
    /\ currRecvFd = NoFd
    /\ phase = "start" /\ at = 0 /\ canRecv = FALSE /\ numLeft = 0
    /\ closing = <<>>
    /\ dead = {}
    /\ out = Quiet

\* sm_add_fd: the kernel gave a number that is not in use.
AddFd(fd, isServer) ==
    /\ fd \notin allFds
    /\ allFds' = allFds \cup {fd}
    /\ sendFds' = sendFds \ {fd}
    /\ recvFds' = recvFds \cup {fd}
    /\ tmpSend' = tmpSend \ {fd}
    /\ tmpRecv' = tmpRecv \ {fd}
    /\ tmpFail' = tmpFail \ {fd}
    /\ serverFds' = IF isServer THEN serverFds \cup {fd} ELSE serverFds
    /\ maxFd' = IF fd > maxFd THEN fd ELSE maxFd
    /\ out' = Quiet
    /\ UNCHANGED <<sendq, currRecvFd, closing, dead>>

\* (slip) an unknown fd is not refused.
BeginRemoveUnknown(fd) == closing' = <<fd>> \o closing

\* sm_remove_fd up to its call of on_close; an unknown fd is refused.
BeginRemove(fd) ==
    closing' = IF fd \in allFds THEN <<fd>> \o closing ELSE closing

\* (slip) send_fds is not cleared.
ClearBitsKeepingSend(fd) ==
    /\ allFds' = allFds \ {fd} /\ serverFds' = serverFds \ {fd}
    /\ sendFds' = sendFds /\ recvFds' = recvFds \ {fd}
    /\ tmpSend' = tmpSend \ {fd} /\ tmpRecv' = tmpRecv \ {fd}
    /\ tmpFail' = tmpFail \ {fd}

\* (slip) what select(2) reported is not cleared.
ClearBitsKeepingReported(fd) ==
    /\ allFds' = allFds \ {fd} /\ serverFds' = serverFds \ {fd}
    /\ sendFds' = sendFds \ {fd} /\ recvFds' = recvFds \ {fd}
    /\ UNCHANGED polled

\* FD_CLR of a closed descriptor in every set.
ClearBits(fd) ==
    /\ allFds' = allFds \ {fd} /\ serverFds' = serverFds \ {fd}
    /\ sendFds' = sendFds \ {fd} /\ recvFds' = recvFds \ {fd}
    /\ tmpSend' = tmpSend \ {fd} /\ tmpRecv' = tmpRecv \ {fd}
    /\ tmpFail' = tmpFail \ {fd}

\* (slip) one step down only.
LowerMaxFdOnce(fd) == maxFd' = IF fd = maxFd THEN maxFd - 1 ELSE maxFd

\* The loop that lowers max_fd to the next open descriptor, or to -1.
LowerMaxFd(fd) ==
    IF fd = maxFd
    THEN \E m \in (allFds \ {fd}) \cup {-1} :
            /\ \A g \in allFds \ {fd} : g <= m
            /\ maxFd' = m
    ELSE UNCHANGED maxFd

\* (slip) recv_fd of the blocked sends is not reset.
KeepReceiver(fd) ==
    sendq' = [g \in Fds |-> [i \in 1..Len(sendq[g]) |->
                [sendq[g][i] EXCEPT !.own = @ /\ g # fd]]]

\* No blocked send names fd any more; those queued on it are not own now.
ForgetReceiver(fd) ==
    sendq' = [g \in Fds |-> [i \in 1..Len(sendq[g]) |->
                [sendq[g][i] EXCEPT !.recv = IF @ = fd THEN NoFd ELSE @,
                                    !.own = @ /\ g # fd]]]

\* sm_remove_fd after on_close returns: close(fd), clear the sets, find the
\* next highest fd, and forget fd as the cause of blocked sends.  The queue of
\* sends blocked on fd itself is left where it is.
EndRemove ==
    /\ closing # <<>>
    /\ LET fd == Head(closing) IN
        /\ ClearBits(fd)
        /\ LowerMaxFd(fd)
        /\ ForgetReceiver(fd)
        /\ dead' = dead \ {fd}
    /\ closing' = Tail(closing)
    /\ out' = Quiet
    /\ UNCHANGED <<currRecvFd, control>>

-----------------------------------------------------------------------------
(* The client.  It runs before the loop starts (iwdp_start), inside on_recv  *)
(* and inside on_close.  It opens descriptors only in the first two, never   *)
(* removes one whose on_close is running (see Removals),                      *)
(* and, once the descriptor being received from is gone, sends no more       *)
(* before it returns: no path of iwdp_on_close sends after such a removal.   *)

InClient == closing # <<>> \/ phase \in {"start", "on_recv"}

ClientAdd(fd, isServer) ==
    /\ closing = <<>> /\ phase \in {"start", "on_recv"}
    /\ AddFd(fd, isServer)
    /\ UNCHANGED control

ClientRemove(fd) ==
    /\ InClient
    /\ fd \in allFds /\ ~IsClosing(fd)
    /\ BeginRemove(fd)
    /\ out' = Quiet
    /\ UNCHANGED <<fdSets, sendq, polled, currRecvFd, control, dead>>

\* (slip) the client sends on a descriptor it has closed.
MaySendClosed(fd) ==
    /\ InClient
    /\ fd \in Fds \ serverFds /\ ~IsClosing(fd)
    /\ currRecvFd # NoFd => currRecvFd \in allFds

\* Who calls sm_send, and with which descriptors.
MaySend(fd) ==
    /\ InClient
    /\ fd \in allFds \ serverFds /\ ~IsClosing(fd)
    /\ currRecvFd # NoFd => currRecvFd \in allFds

\* (slip) the socket is tried although sends are queued.
SendAllPastQueue(fd, m) ==
    /\ MaySend(fd) /\ fd \notin dead
    /\ Emits(fd, m)
    /\ UNCHANGED <<fdSets, sendq, polled, currRecvFd, control, closing, dead>>

\* sm_send, the typical case: nothing is queued and the kernel takes it all.
SendAll(fd, m) ==
    /\ MaySend(fd)
    /\ sendq[fd] = <<>> /\ fd \notin dead
    /\ Emits(fd, m)
    /\ UNCHANGED <<fdSets, sendq, polled, currRecvFd, control, closing, dead>>

\* sm_send fails after k bytes went out; the caller gets SM_ERROR, the rest of
\* the message is dropped and the descriptor stays.
SendFails(fd, m, k) ==
    /\ MaySend(fd)
    /\ sendq[fd] = <<>>
    /\ k < Len(m) /\ (fd \in dead => k = 0)
    /\ dead' = dead \cup {fd}
    /\ Emits(fd, SubSeq(m, 1, k))
    /\ UNCHANGED <<fdSets, sendq, polled, currRecvFd, control, closing>>

\* (slip) no FD_SET.
EnqueueUnset(fd, e) ==
    /\ sendq' = [sendq EXCEPT ![fd] = Append(@, e)]
    /\ sendFds' = sendFds

\* Link a blocked send at the end of the queue of fd; select(2) is asked about
\* fd when it is the first one.  The queue can be one that a closed connection
\* left behind: then the send stands behind its entries, without FD_SET.
Enqueue(fd, e) ==
    /\ sendq' = [sendq EXCEPT ![fd] = Append(@, e)]
    /\ sendFds' = IF sendq[fd] = <<>> THEN sendFds \cup {fd} ELSE sendFds

\* The descriptor whose input caused a blocked send is not read any more.
BlockReceiver ==
    /\ recvFds' = recvFds \ {currRecvFd}
    /\ tmpRecv' = IF currRecvFd \in recvFds THEN tmpRecv \ {currRecvFd} ELSE tmpRecv

\* sm_send would block after k bytes, or finds older blocked sends (then k is
\* 0, the socket is not tried): the rest is queued.
SendQueues(fd, m, k) ==
    /\ MaySend(fd)
    /\ NumQueued < MaxQueued
    /\ k < Len(m)
    /\ sendq[fd] # <<>> => k = 0
    /\ fd \in dead => sendq[fd] # <<>>
    /\ Enqueue(fd, [recv |-> currRecvFd, rest |-> SubSeq(m, k + 1, Len(m)), own |-> TRUE])
    /\ BlockReceiver
    /\ Emits(fd, SubSeq(m, 1, k))
    /\ UNCHANGED <<allFds, serverFds, maxFd, tmpSend, tmpFail, currRecvFd,
                   control, closing, dead>>

ClientStep ==
    \/ \E fd \in Fds, isServer \in BOOLEAN : ClientAdd(fd, isServer)
    \/ \E fd \in Fds : ClientRemove(fd)
    \/ \E fd \in Fds, m \in Msgs : SendAll(fd, m)
    \/ \E fd \in Fds, m \in Msgs : \E k \in 0..Len(m) : SendFails(fd, m, k)
    \/ \E fd \in Fds, m \in Msgs : \E k \in 0..Len(m) : SendQueues(fd, m, k)

-----------------------------------------------------------------------------
(* sm_select and what it calls.                                              *)

\* main: iwdp_start has returned, the loop begins.
EnterLoop ==
    /\ phase = "start" /\ closing = <<>>
    /\ phase' = "idle"
    /\ out' = Quiet
    /\ UNCHANGED <<fdSets, sendq, polled, currRecvFd, at, canRecv, numLeft,
                   closing, dead>>

\* select(2) reports some descriptors; num_ready counts the bits it left set.
\* (With none, after the timeout, nothing changes.)
Poll(w, r, x) ==
    /\ phase = "idle" /\ maxFd > 0
    /\ w \cup r \cup x # {}
    /\ tmpSend' = w /\ tmpRecv' = r /\ tmpFail' = x
    /\ numLeft' = Cardinality(w) + Cardinality(r) + Cardinality(x)
    /\ numLeft' <= MaxReady
    /\ phase' = "scan"
    /\ out' = Quiet
    /\ UNCHANGED <<fdSets, sendq, currRecvFd, at, canRecv, closing, dead>>

Reported == tmpSend \cup tmpRecv \cup tmpFail

\* (slip) fd < max_fd.
IsNextBelow(fd, S) == fd \in S /\ fd > at /\ fd < maxFd
                      /\ \A g \in S : g > at => fd <= g

\* A loop "for (fd = ..; fd <= max_fd; fd++)" comes to fd next, of those in S.
IsNext(fd, S) == fd \in S /\ fd > at /\ fd <= maxFd
                 /\ \A g \in S : g > at => fd <= g

\* The body of the scan for the next reported descriptor.  (Its bits are dropped
\* here; the code leaves them set and does not look at them again before the
\* next select(2) overwrites them.)
ScanFd(fd) ==
    /\ phase = "scan" /\ closing = <<>> /\ numLeft > 0
    /\ IsNext(fd, Reported)
    /\ at' = fd /\ numLeft' = numLeft - 1
    /\ \/ /\ fd \in tmpFail
          /\ BeginRemove(fd)
          /\ UNCHANGED <<phase, canRecv, currRecvFd>>
       \/ /\ fd \notin tmpFail /\ fd \in serverFds
          /\ phase' = "accept"
          /\ UNCHANGED <<canRecv, currRecvFd, closing>>
       \/ /\ fd \notin tmpFail /\ fd \notin serverFds /\ fd \in tmpSend
          /\ phase' = "resend" /\ canRecv' = (fd \in tmpRecv)
          /\ UNCHANGED <<currRecvFd, closing>>
       \/ /\ fd \notin tmpFail /\ fd \notin serverFds /\ fd \notin tmpSend
          /\ phase' = "recv" /\ currRecvFd' = fd
          /\ UNCHANGED <<canRecv, closing>>
    /\ tmpSend' = tmpSend \ {fd} /\ tmpRecv' = tmpRecv \ {fd} /\ tmpFail' = tmpFail \ {fd}
    /\ out' = Quiet
    /\ UNCHANGED <<fdSets, sendq, dead>>

\* The loop ends; fd and num_left go out of scope.
ScanEnd ==
    /\ phase = "scan" /\ closing = <<>>
    /\ numLeft = 0 \/ ~\E fd \in Reported : IsNext(fd, Reported)
    /\ phase' = "idle" /\ at' = 0 /\ numLeft' = 0
    /\ out' = Quiet
    /\ UNCHANGED <<fdSets, sendq, polled, currRecvFd, canRecv, closing, dead>>

\* sm_accept, one round: a client is accepted, registered and the loop goes on.
\* (When on_accept refuses it the new descriptor is closed: nothing changes.)
AcceptClient(fd) ==
    /\ phase = "accept" /\ closing = <<>>
    /\ AddFd(fd, FALSE)
    /\ UNCHANGED control

\* accept(2) has no more clients, or fails: then the server is removed.
AcceptEnd ==
    /\ phase = "accept" /\ closing = <<>>
    /\ UNCHANGED closing \/ BeginRemove(at)
    /\ phase' = "scan"
    /\ out' = Quiet
    /\ UNCHANGED <<fdSets, sendq, polled, currRecvFd, at, canRecv, numLeft, dead>>

\* Back in sm_select after sm_resend: receive when can_recv was set before.
AfterResend ==
    /\ phase' = IF canRecv THEN "recv" ELSE "scan"
    /\ currRecvFd' = IF canRecv THEN at ELSE currRecvFd
    /\ canRecv' = FALSE
    /\ UNCHANGED <<at, numLeft>>

\* (slip) the receiver is not read again.
NeverReenable(q, r) == UNCHANGED recvFds

\* Read again from a receiver that is open and that no entry of q names.
Reenable(q, r) ==
    recvFds' = IF r \in allFds /\ ~WaitsFor(q, r) THEN recvFds \cup {r} ELSE recvFds

\* sm_resend sends the whole head entry and unlinks it.
ResendEntry ==
    /\ phase = "resend" /\ closing = <<>>
    /\ sendq[at] # <<>> /\ at \notin dead
    /\ LET e == Head(sendq[at])
           left == [sendq EXCEPT ![at] = Tail(@)] IN
        /\ Emits(at, e.rest)
        /\ sendq' = left
        /\ sendFds' = IF left[at] = <<>> THEN sendFds \ {at} ELSE sendFds
        /\ Reenable(left, e.recv)
    /\ UNCHANGED <<allFds, serverFds, maxFd, polled, currRecvFd, control,
                   closing, dead>>

\* sm_resend sends k bytes of the head entry, then would block.
ResendPart ==
    /\ phase = "resend" /\ closing = <<>>
    /\ sendq[at] # <<>> /\ at \notin dead
    /\ LET e == Head(sendq[at]) IN \E k \in 0..(Len(e.rest) - 1) :
        /\ Emits(at, SubSeq(e.rest, 1, k))
        /\ sendq' = [sendq EXCEPT ![at] =
                       <<[e EXCEPT !.rest = SubSeq(@, k + 1, Len(@))]>> \o Tail(@)]
    /\ AfterResend
    /\ UNCHANGED <<fdSets, polled, closing, dead>>

\* sm_resend fails after k bytes of the head entry went out: the descriptor is
\* removed, with the entry as it was before these bytes.
ResendFails ==
    /\ phase = "resend" /\ closing = <<>>
    /\ sendq[at] # <<>>
    /\ LET e == Head(sendq[at]) IN \E k \in 0..(Len(e.rest) - 1) :
        /\ at \in dead => k = 0
        /\ Emits(at, SubSeq(e.rest, 1, k))
    /\ BeginRemove(at)
    /\ dead' = dead \cup {at}
    /\ phase' = "resend_end"
    /\ UNCHANGED <<fdSets, sendq, polled, currRecvFd, at, canRecv, numLeft>>

\* sm_resend returns: nothing is queued any more, or the removal is done.
ResendEnd ==
    /\ closing = <<>>
    /\ \/ phase = "resend" /\ sendq[at] = <<>>
       \/ phase = "resend_end"
    /\ AfterResend
    /\ out' = Quiet
    /\ UNCHANGED <<fdSets, sendq, polled, closing, dead>>

\* sm_recv, one round: there is input, on_recv is called.
RecvInput ==
    /\ phase = "recv" /\ closing = <<>>
    /\ at \in allFds
    /\ phase' = "on_recv"
    /\ out' = Quiet
    /\ UNCHANGED <<fdSets, sendq, polled, currRecvFd, at, canRecv, numLeft,
                   closing, dead>>

\* on_recv returns success and the next round begins.
OnRecvReturns ==
    /\ phase = "on_recv" /\ closing = <<>>
    /\ phase' = "recv"
    /\ out' = Quiet
    /\ UNCHANGED <<fdSets, sendq, polled, currRecvFd, at, canRecv, numLeft,
                   closing, dead>>

\* recv(2) would block: the loop is left.
RecvNoInput ==
    /\ phase = "recv" /\ closing = <<>>
    /\ at \in allFds
    /\ phase' = "recv_end"
    /\ out' = Quiet
    /\ UNCHANGED <<fdSets, sendq, polled, currRecvFd, at, canRecv, numLeft,
                   closing, dead>>

\* (slip) no break after remove_fd.
RecvFailsGoesOn ==
    /\ phase \in {"recv", "on_recv"} /\ closing = <<>>
    /\ BeginRemove(at)
    /\ phase' = "recv"
    /\ out' = Quiet
    /\ UNCHANGED <<fdSets, sendq, polled, currRecvFd, at, canRecv, numLeft, dead>>

\* recv(2) fails or is at end of file, or on_recv returned an error.
RecvFails ==
    /\ phase \in {"recv", "on_recv"} /\ closing = <<>>
    /\ BeginRemove(at)
    /\ phase' = "recv_end"
    /\ out' = Quiet
    /\ UNCHANGED <<fdSets, sendq, polled, currRecvFd, at, canRecv, numLeft, dead>>

RecvEnd ==
    /\ phase = "recv_end" /\ closing = <<>>
    /\ currRecvFd' = NoFd
    /\ phase' = "scan"
    /\ out' = Quiet
    /\ UNCHANGED <<fdSets, sendq, polled, at, canRecv, numLeft, closing, dead>>

\* main: a signal set quit_flag, or sm_select returned an error.
Quit ==
    /\ phase = "idle"
    /\ phase' = "cleanup"
    /\ out' = Quiet
    /\ UNCHANGED <<fdSets, sendq, polled, currRecvFd, at, canRecv, numLeft,
                   closing, dead>>

\* sm_cleanup: remove every descriptor, in order.
CleanupFd(fd) ==
    /\ phase = "cleanup" /\ closing = <<>>
    /\ IsNext(fd, allFds)
    /\ BeginRemove(fd)
    /\ at' = fd
    /\ out' = Quiet
    /\ UNCHANGED <<fdSets, sendq, polled, currRecvFd, phase, canRecv, numLeft, dead>>

CleanupEnd ==
    /\ phase = "cleanup" /\ closing = <<>>
    /\ ~\E fd \in allFds : IsNext(fd, allFds)
    /\ phase' = "done"
    /\ out' = Quiet
    /\ UNCHANGED <<fdSets, sendq, polled, currRecvFd, at, canRecv, numLeft,
                   closing, dead>>

Terminated == phase = "done" /\ UNCHANGED vars

Next ==
    \/ EndRemove
    \/ ClientStep
    \/ EnterLoop
    \/ \E w \in SUBSET sendFds, r \in SUBSET recvFds, x \in SUBSET allFds : Poll(w, r, x)
    \/ \E fd \in Fds : ScanFd(fd)
    \/ ScanEnd
    \/ \E fd \in Fds : AcceptClient(fd)
    \/ AcceptEnd
    \/ ResendEntry
    \/ ResendPart
    \/ ResendFails
    \/ ResendEnd
    \/ RecvInput
    \/ OnRecvReturns
    \/ RecvNoInput
    \/ RecvFails
    \/ RecvEnd
    \/ Quit
    \/ \E fd \in Fds : CleanupFd(fd)
    \/ CleanupEnd
    \/ Terminated

Spec == Init /\ [][Next]_vars

\* The thread runs on: callbacks return, loops end when the kernel says so.
ThreadStep ==
    \/ EndRemove
    \/ \E fd \in Fds : ScanFd(fd) \/ CleanupFd(fd)
    \/ ScanEnd \/ AcceptEnd
    \/ ResendEntry \/ ResendPart \/ ResendFails \/ ResendEnd
    \/ RecvInput \/ RecvNoInput \/ RecvFails \/ RecvEnd
    \/ CleanupEnd

\* What is assumed of the rest: on_recv returns; a peer that sends, or clients
\* that connect, without end still leave recv(2) and accept(2) without input
\* again and again; a peer reads, so that its connection becomes writable and
\* takes a whole blocked send, if it is asked again and again.
Fairness ==
    /\ WF_vars(ThreadStep)
    /\ SF_vars(EnterLoop)
    /\ SF_vars(OnRecvReturns \/ (phase = "on_recv" /\ RecvFails))
    /\ SF_vars(RecvNoInput)
    /\ SF_vars(AcceptEnd)
    /\ \A fd \in Fds :
        /\ SF_vars(\E w \in SUBSET sendFds, r \in SUBSET recvFds, x \in SUBSET allFds :
                      fd \in w /\ Poll(w, r, x))
        /\ SF_vars(at = fd /\ ResendEntry)

FairSpec == Spec /\ Fairness

-----------------------------------------------------------------------------

\* The type of the state.
TypeOK ==
    /\ allFds \subseteq Fds /\ serverFds \subseteq allFds
    /\ sendFds \subseteq allFds /\ recvFds \subseteq allFds
    /\ maxFd \in Fds \cup {-1}
    /\ sendq \in [Fds -> Seq(Entry)]
    /\ tmpSend \subseteq Fds /\ tmpRecv \subseteq Fds /\ tmpFail \subseteq Fds
    /\ currRecvFd \in Fds \cup {NoFd}
    /\ phase \in Phases /\ at \in Fds \cup {0}
    /\ canRecv \in BOOLEAN /\ numLeft \in Int
    /\ closing \in Seq(Fds)
    /\ dead \subseteq Fds
    /\ out \in [fd : Fds \cup {NoFd}, data : Seq(Nat)]

\* A descriptor is read from exactly when no blocked send was caused by its
\* input ("recv_fds: can recv, same as all_fds - sendq.recv_fd's"): a receiver
\* is never left out of select(2) without a blocked send that will bring it
\* back, and never reads on while one is waiting.  It spans sm_send, sm_resend,
\* sm_remove_fd and the reuse of numbers by sm_add_fd.
RecvFdsInv == recvFds = {fd \in allFds : ~WaitsFor(sendq, fd)}

\* select(2) is asked about writability exactly of the descriptors that have
\* blocked sends, but for those that took over the queue of a closed connection:
\* such a queue is never sent, so none of its bytes go out on the successor, and
\* what the successor blocks stands behind all of it.  (Without the exception it
\* is what a comment says of send_fds: "blocked sends, same as
\* fd_to_sendq.keys", socket_manager.c:53; the code does not do that.)
BlockedSendsInv ==
    \A fd \in Fds :
        /\ fd \in sendFds <=> sendq[fd] # <<>> /\ ~LeftOver(fd)
        /\ \A i, j \in 1..Len(sendq[fd]) :
              i < j /\ sendq[fd][i].own => sendq[fd][j].own

\* While the scan runs callbacks close, open, block and unblock descriptors;
\* what select(2) reported of those not visited yet stays true: they are open,
\* not reused, and still wanted for sending or receiving.
ReportedStaysTrue ==
    /\ tmpSend \subseteq sendFds
    /\ tmpRecv \subseteq recvFds
    /\ tmpFail \subseteq allFds

\* The scan stops early when num_left is used up, and its end, max_fd, moves
\* while it runs; still no reported descriptor is passed over.
NothingSkipped == phase = "idle" => Reported = {}

\* max_fd is the highest open descriptor, whatever the order of removals: the
\* argument of select(2) covers every set.
MaxFdInv == IF allFds = {} THEN maxFd = -1
            ELSE maxFd \in allFds /\ \A fd \in allFds : fd <= maxFd

\* sm_cleanup walks up to max_fd while removals cascade and lower it; at its
\* end nothing is open.
CleanupClosesAll == phase = "done" => allFds = {}

\* The loop calls on_close once for each descriptor, while that is open: not for
\* one that a callback has removed meanwhile, when sm_recv, sm_resend or the scan
\* come to remove it themselves.
Removed == INSTANCE Removals WITH Objs <- Fds, open <- allFds
RemovalsSpec == Removed!Spec

-----------------------------------------------------------------------------
(* The inductive invariant behind the safety properties.                     *)

\* Blocked sends name receivers that are open.
WaitersOpen == \A r \in Fds : WaitsFor(sendq, r) => r \in allFds

\* BlockedSendsInv by the cases of send_fds: all that waits on a descriptor of it
\* is its own; a queue that was left behind starts with an entry of the closed
\* connection, and those of the open one stand at its end.
QueuesInv ==
    \A fd \in Fds :
        /\ fd \in sendFds => /\ sendq[fd] # <<>>
                             /\ \A i \in 1..Len(sendq[fd]) : sendq[fd][i].own
        /\ fd \notin sendFds /\ sendq[fd] # <<>> => ~sendq[fd][1].own
        /\ \A i, j \in 1..Len(sendq[fd]) :
              i < j /\ sendq[fd][i].own => sendq[fd][j].own

\* Where the loops are in each phase.
PlaceInv ==
    /\ phase \in {"start", "idle"} => at = 0
    /\ phase \in {"accept", "resend", "resend_end", "recv", "on_recv", "recv_end"}
          => at \in Fds
    /\ phase = "resend" => closing = <<>> /\ (at \in sendFds \/ sendq[at] = <<>>)

\* The scan goes up, and num_left covers what is still ahead of it.
ScanInv ==
    /\ \A g \in Reported : g > at
    /\ phase \in {"start", "idle", "cleanup", "done"} => Reported = {}
    /\ Cardinality(Reported) <= numLeft

\* sm_cleanup goes up, and leaves nothing open behind it.
CleanupInv ==
    /\ phase = "cleanup" => \A g \in allFds : g > at \/ IsClosing(g)
    /\ phase = "done" => allFds = {}

\* What every step preserves.
IndInv ==
    /\ TypeOK
    /\ RecvFdsInv /\ WaitersOpen /\ QueuesInv
    /\ MaxFdInv /\ ReportedStaysTrue
    /\ PlaceInv /\ ScanInv /\ CleanupInv

-----------------------------------------------------------------------------

\* r waits for a blocked send that select(2) will never be asked about.
Orphaned(r) == \E g \in Fds \ sendFds : \E i \in 1..Len(sendq[g]) : sendq[g][i].recv = r

\* A receiver that was blocked to keep the queues short is read again, is
\* closed, or waits for a queue that its closed target left behind.
LiveBlockedResumes ==
    \A r \in Fds : (r \in allFds \ recvFds) ~> (r \in recvFds \/ r \notin allFds \/ Orphaned(r))

\* Blocked sends get on: a connection with one sends something more or is closed.
\* The exception is a connection whose number took over the queue of a closed one:
\* its blocked sends stand behind that queue, which is never sent, and stall until
\* it is closed (sm_send sets no bit in send_fds, 436-440).
BlockedSendsProgress ==
    \A fd \in Fds :
        (fd \in allFds /\ \E i \in 1..Len(sendq[fd]) : sendq[fd][i].own)
            ~> (out.fd = fd \/ fd \notin allFds \/ LeftOver(fd))

\* No cascade of callbacks, no accept, send or receive loop keeps the thread:
\* sm_select is entered again and again, until the program ends.
LoopReturns == []<>(phase \in {"idle", "done"})

-----------------------------------------------------------------------------
(* What a comment of the code says and the code does not do.                 *)

\* "we'll eventually block all of them until the first blocked send succeeds":
\* a blocked receiver that stays open is read again.
BlockedReceiverResumes ==
    \A r \in Fds : (r \in allFds \ recvFds) ~> (r \in recvFds \/ r \notin allFds)
=============================================================================
