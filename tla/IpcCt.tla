------------------------------- MODULE IpcCt -------------------------------
(***************************************************************************)
(* common/ipc_ct.c over a stream socket, in one direction: from the daemon *)
(* to swctl, which asks for file descriptors.  (The other direction is the *)
(* same code with no descriptors.)  A message is HeaderSize units that     *)
(* give its length, then its body; the stream knows no boundaries, sends   *)
(* and receives may stop anywhere, and either end may close at any time.   *)
(***************************************************************************)
EXTENDS Integers, FiniteSets, SequencesExt

CONSTANTS NMessages,   \* the messages posted are 1, 2, ..., NMessages
          WithFd,      \* those that carry a file descriptor
          Body,        \* length of the JSON text of each
          HeaderSize,
          BufSize,     \* sizeof(ict->buf)
          Limit,       \* 1 MiB
          Capacity     \* units the socket takes

Messages == 1 .. NMessages
None == 0              \* no message, no descriptor (-1)

ASSUME IpcCtAssumption ==
    /\ NMessages \in Nat /\ WithFd \subseteq Messages
    /\ Body \in [Messages -> Nat \ {0}]
    /\ {HeaderSize, Capacity, Limit} \subseteq Nat \ {0}
    /\ BufSize \in Nat /\ BufSize > HeaderSize

VARIABLES tried,    \* how many messages ipc_ct_write_msg was called for
          queue,    \* write_queue of the sender
          wire,     \* the socket
          rd,       \* struct ipc_ct of the receiver
          up,       \* up["sender"], up["receiver"]: the end is open
          fds,      \* the descriptors open in each process
          posted,   \* what was queued, a history
          received  \* what the callback got, a history

vars == <<tried, queue, wire, rd, up, fds, posted, received>>

Ends == {"sender", "receiver"}
Size(m) == HeaderSize + Body[m]
FdOf(m) == IF m \in WithFd THEN m ELSE None
Payload(m) == [msg |-> m, fd |-> FdOf(m)]
BodyOf(m) == [i \in 1 .. Body[m] |-> [msg |-> m, at |-> HeaderSize + i, fd |-> None]]

(* ipc_ct_reset *)
Reset(r) == [r EXCEPT !.header = TRUE, !.pending = HeaderSize]

(* ipc_ct_init *)
Init ==
    /\ tried = 0 /\ queue = <<>> /\ wire = <<>> /\ posted = <<>> /\ received = <<>>
    /\ rd = [header |-> TRUE, pending |-> HeaderSize, scm |-> None,
             tokener |-> <<>>, reading |-> FALSE, hup |-> FALSE]
    /\ up = [e \in Ends |-> TRUE]
    /\ fds = [e \in Ends |-> {}]

-----------------------------------------------------------------------------
(* The sender                                                                *)

(* ipc_ct_write_msg: takes the descriptor over; nothing is queued when the     *)
(* text is too long or memory runs out.                                      *)
PostFails(m) == UNCHANGED <<queue, posted, fds>>
PostQueues(m) ==
    /\ queue' = Append(queue, [msg |-> m, remaining |-> Size(m), fd |-> FdOf(m)])
    /\ posted' = Append(posted, Payload(m))
    /\ fds' = [fds EXCEPT !["sender"] = @ \cup ({m} \cap WithFd)]
Post ==
    /\ up["sender"] /\ tried < NMessages
    /\ tried' = tried + 1
    /\ PostQueues(tried + 1) \/ PostFails(tried + 1)
    /\ UNCHANGED <<wire, rd, up, received>>

Room == Capacity - Len(wire)

(* io_send: the next n units, the descriptor with the first of them.          *)
Units(wr, n) ==
    [i \in 1 .. n |-> [msg |-> wr.msg, at |-> Size(wr.msg) - wr.remaining + i,
                       fd |-> IF i = 1 THEN wr.fd ELSE None]]

AfterSend_Late(wr, n) ==
    IF n = wr.remaining THEN Tail(queue) ELSE [queue EXCEPT ![1].remaining = @ - n]

(* The rest of ipc_ct_write after n units went out: the descriptor went along. *)
AfterSend(wr, n) ==
    IF n = wr.remaining THEN Tail(queue)
    ELSE [queue EXCEPT ![1].remaining = @ - n, ![1].fd = None]

(* One pass of the loop of ipc_ct_write; with no room it polls.               *)
Write ==
    /\ up["sender"] /\ up["receiver"] /\ queue # <<>> /\ Room > 0
    /\ LET wr == Head(queue)
           n  == Min({wr.remaining, Room})
       IN /\ wire' = wire \o Units(wr, n)
          /\ queue' = AfterSend(wr, n)
          /\ fds' = [fds EXCEPT !["sender"] = @ \ {wr.fd}]
    /\ UNCHANGED <<tried, rd, up, posted, received>>

(* ipc_ct_uninit: by choice, in a crash, or because sending failed.            *)
SenderCloses ==
    /\ up' = [up EXCEPT !["sender"] = FALSE]
    /\ queue' = <<>>
    /\ fds' = [fds EXCEPT !["sender"] = @ \ {queue[i].fd : i \in DOMAIN queue}]

SenderLeaves ==
    /\ up["sender"] /\ SenderCloses
    /\ UNCHANGED <<tried, wire, rd, posted, received>>

-----------------------------------------------------------------------------
(* The receiver                                                              *)

(* read_msgs and client_callback: called for input or a hang-up.              *)
ReadBegins ==
    /\ up["receiver"] /\ ~rd.reading
    /\ wire # <<>> \/ ~up["sender"]
    /\ rd' = [rd EXCEPT !.reading = TRUE, !.hup = ~up["sender"]]
    /\ UNCHANGED <<tried, queue, wire, up, fds, posted, received>>

Wanted_Greedy == IF rd.header THEN rd.pending ELSE BufSize - 1

(* How much is asked of the socket, so that no read passes the end of a message. *)
Wanted == Min({BufSize - 1, rd.pending})
Got == SubSeq(wire, 1, Min({Wanted, Len(wire)}))

(* io_recv: the descriptor that came with what was read is kept if there is    *)
(* none yet, and lost otherwise.                                             *)
ScmAfter ==
    LET came == {Got[i].fd : i \in DOMAIN Got} \ {None}
    IN IF rd.scm = None /\ came # {} THEN CHOOSE fd \in came : TRUE ELSE rd.scm

(* ipc_ct_uninit of the receiver; the kernel drops what was on the wire.       *)
ReceiverCloses ==
    /\ up' = [up EXCEPT !["receiver"] = FALSE]
    /\ wire' = <<>>
    /\ rd' = [rd EXCEPT !.reading = FALSE, !.scm = None]
    /\ fds' = [fds EXCEPT !["receiver"] = @ \ {rd.scm}]

(* A whole header, which gives the size of its message, or a part: the end of   *)
(* what there is to read.                                                    *)
ReadHeader ==
    /\ rd.header /\ Got # <<>>
    /\ \/ /\ Len(Got) < rd.pending
          /\ rd' = [rd EXCEPT !.pending = @ - Len(Got), !.scm = ScmAfter, !.reading = FALSE]
       \/ /\ Len(Got) = rd.pending /\ Body[Last(Got).msg] <= Limit
          /\ rd' = [rd EXCEPT !.header = FALSE, !.pending = Body[Last(Got).msg], !.scm = ScmAfter]
    /\ wire' = SubSeq(wire, Len(Got) + 1, Len(wire))
    /\ fds' = [fds EXCEPT !["receiver"] = @ \cup ({ScmAfter} \ {None})]
    /\ UNCHANGED <<up, received>>

(* A message longer than 1 MiB: the caller closes the connection.             *)
ReadTooLong ==
    /\ rd.header /\ Len(Got) = rd.pending /\ Body[Last(Got).msg] > Limit
    /\ ReceiverCloses
    /\ UNCHANGED received

(* The callback got the message and its descriptor, mapped and closed.         *)
AfterMessage(r) == [r EXCEPT !.tokener = <<>>, !.scm = None]

(* Part of a body, given to the tokener: json_tokener_success once it has the   *)
(* whole text of a message, json_tokener_continue as long as it is the         *)
(* beginning of one, and otherwise an error, after which it is reset.          *)
ReadBody ==
    /\ ~rd.header /\ Got # <<>>
    /\ LET text  == rd.tokener \o Got
           rest  == [rd EXCEPT !.pending = @ - Len(Got)]
           next  == IF rest.pending = 0 THEN Reset(rest) ELSE rest
           whole == {m \in Messages : BodyOf(m) = text}
           begun == \E m \in Messages : IsPrefix(text, BodyOf(m))
       IN IF whole # {}
          THEN /\ \E m \in whole : received' = Append(received, [msg |-> m, fd |-> rd.scm])
               /\ rd' = AfterMessage(next)
               /\ fds' = [fds EXCEPT !["receiver"] = @ \ {rd.scm}]
          ELSE /\ rd' = [next EXCEPT !.tokener = IF begun THEN text ELSE <<>>]
               /\ UNCHANGED <<received, fds>>
    /\ wire' = SubSeq(wire, Len(Got) + 1, Len(wire))
    /\ UNCHANGED up

(* Nothing to read.  EAGAIN: success.  End of file: success in a header, after  *)
(* which the hang-up closes the connection; in a body the tokener asks for     *)
(* more, and the loop goes round.                                            *)
ReadNothing ==
    /\ wire = <<>>
    /\ up["sender"] \/ rd.header
    /\ IF rd.hup THEN ReceiverCloses
       ELSE rd' = [rd EXCEPT !.reading = FALSE] /\ UNCHANGED <<wire, up, fds>>
    /\ UNCHANGED received

(* One pass of the loop of ipc_ct_read.                                      *)
Read ==
    /\ up["receiver"] /\ rd.reading
    /\ ReadHeader \/ ReadTooLong \/ ReadBody \/ ReadNothing
    /\ UNCHANGED <<tried, queue, posted>>

ReceiverLeaves ==
    /\ up["receiver"] /\ ReceiverCloses
    /\ UNCHANGED <<tried, queue, posted, received>>

(* Sending to an end that is closed fails, and ends the connection.            *)
WriteFails ==
    /\ up["sender"] /\ ~up["receiver"] /\ queue # <<>> /\ SenderCloses
    /\ UNCHANGED <<tried, wire, rd, posted, received>>

Next == Post \/ Write \/ WriteFails \/ SenderLeaves \/ ReadBegins \/ Read \/ ReceiverLeaves

(* Both sides poll for what they wait for and come back.                       *)
Fairness == WF_vars(Write) /\ WF_vars(WriteFails) /\ WF_vars(ReadBegins) /\ WF_vars(Read)

Spec == Init /\ [][Next]_vars
FairSpec == Spec /\ Fairness

-----------------------------------------------------------------------------
(* Properties                                                                *)

(* However the stream is cut into sends and reads, the callback gets the        *)
(* messages queued, in order, each with its own descriptor and no other's, and *)
(* all of them as long as both ends are open and none is too long.             *)
(* (ipc_ct_write_msg, ipc_ct_write, ipc_ct_read)                              *)
C == INSTANCE Channel WITH Payloads <- {Payload(m) : m \in Messages},
                           cut <- \E e \in Ends : ~up[e]
ImplementsChannel == C!FairSpec

(* Every descriptor is closed exactly when it is no longer needed: the sender    *)
(* has open those it has yet to send, the receiver the one whose message is not *)
(* complete, an end that closed none.  ("ownership of ... scm_fd ... is always   *)
(* taken")                                                                   *)
FdsAreOwned ==
    /\ fds["sender"] = {queue[i].fd : i \in DOMAIN queue} \ {None}
    /\ fds["receiver"] = {rd.scm} \ {None}
    /\ \A i, j \in DOMAIN wire : wire[i].fd = wire[j].fd /\ i # j => wire[i].fd = None

(* ipc_ct_read returns.  The code breaks this: when the connection ends in the   *)
(* middle of a body, recvmsg returns 0 and the tokener asks for more, forever.   *)
(* ("Receive from the IPC socket, and return true on success or false on fatal   *)
(* error.")                                                                  *)
ReadReturns == rd.reading ~> ~rd.reading

=============================================================================
