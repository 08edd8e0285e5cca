----------------------------- MODULE EventLoop -----------------------------
(***************************************************************************)
(* common/event.c, the loop every part of the daemon runs in, with the     *)
(* callbacks the daemon registers, as far as they touch the loop and file  *)
(* descriptors: the Wayland display, the listening socket, the signal fd,  *)
(* peers (IPC clients and the applications a selection is sent to) and the *)
(* 1 ms timer of a selection.                                              *)
(*                                                                         *)
(* A source is an element of Ids and stands for the struct eventsource     *)
(* and for the open file it was added with; what tells them apart is the   *)
(* file descriptor NUMBER, which the kernel gives again once it is closed  *)
(* and by which the loop finds and deletes sources.                        *)
(***************************************************************************)
EXTENDS Ranks

CONSTANTS Ids,        \* sources
          Fds,        \* fd numbers
          MaxEvents,  \* MAX_EVENTS, the size of a batch
          EventFd,    \* the event fd, which has no source
          None        \* no source, no fd

ASSUME LoopAssumption ==
    /\ \A set \in {Ids, Fds} :
           IsFiniteSet(set) /\ set = 1 .. Cardinality(set) /\ Cardinality(set) >= 3
    /\ MaxEvents \in Nat \ {0}
    /\ {EventFd, None} \cap (Ids \cup Fds) = {} /\ EventFd # None

VARIABLES loop,      \* struct eventloop and what the kernel keeps for it, see Init
          batch,     \* the rest of the buckets: high priority first
          pc,        \* where eventloop_run is
          prepares,  \* is the prepare source of the Wayland connection there?
          timer      \* null_timerfd of the selection

vars == <<loop, batch, pc, prepares, timer>>

Kinds == {"display", "listener", "signal", "peer", "timer"}

-----------------------------------------------------------------------------
(* The functions of event.c and the kernel's, on the record loop.            *)

Without(seq, s) == Keep(seq, ToSet(seq) \ {s})

(* epoll_ctl(EPOLL_CTL_DEL, n) acts on whatever file the number n names now. *)
EpollDel(l, n) == [l EXCEPT !.epoll = @ \ {l.table[n]}, !.ready = Without(@, l.table[n])]

(* close(n): the last number of a file gone, the file leaves epoll. *)
Close(l, n) == IF n = None THEN l ELSE [EpollDel(l, n) EXCEPT !.table[n] = None]

LowestFd(l) == CHOOSE n \in Fds : l.table[n] = None /\ \A m \in 1 .. n - 1 : l.table[m] # None

(* eventloop_add for a file just opened. *)
EventloopAdd(l, s, kind) ==
    [l EXCEPT !.table[LowestFd(l)] = s,
              !.epoll = @ \cup {s},
              !.alloc = @ \cup {s},
              !.src[s] = [kind |-> kind, fd |-> LowestFd(l)],
              !.sources = <<s>> \o @]

EventloopFind(l, list, n) ==
    LET found == {i \in DOMAIN list : l.src[list[i]].fd = n}
    IN  IF found = {} THEN None ELSE list[Min(found)]

EventsourceDel_NoEpoll(l, s) ==
    [l EXCEPT !.sources = Without(@, s), !.deleted = Without(@, s), !.alloc = @ \ {s}]

EventsourceDel(l, s) ==
    [EpollDel(l, l.src[s].fd) EXCEPT !.sources = Without(@, s),
                                     !.deleted = Without(@, s),
                                     !.alloc = @ \ {s}]

(* To the list of deleted sources; eventloop_run does so too when a callback *)
(* returns true.                                                             *)
Discard(l, s) == [l EXCEPT !.sources = Without(@, s), !.deleted = <<s>> \o Without(@, s)]

EventloopDel_Now(l, n) ==
    LET s == EventloopFind(l, l.sources \o l.deleted, n)
    IN IF s = None THEN l ELSE EventsourceDel(l, s)

EventloopDel(l, n) ==
    LET s == EventloopFind(l, l.sources, n)
        d == IF s = None THEN EventloopFind(l, l.deleted, n) ELSE s
    IN IF l.stop
       THEN IF d = None THEN l ELSE EventsourceDel(l, d)
       ELSE IF s = None THEN l ELSE Discard(l, s)

EventloopStop_NoWakeup(l) == [l EXCEPT !.stop = TRUE]

EventloopStop(l) == [l EXCEPT !.stop = TRUE,
                              !.ready = IF EventFd \in ToSet(@) THEN @ ELSE Append(@, EventFd)]

(* Ids that malloc and the kernel may hand out. *)
Unused == {s \in Ids : s \notin loop.alloc \cup ToSet(loop.table) \cup ToSet(batch)
                            \cup ToSet(loop.sources \o loop.deleted)}
NewId == CHOOSE s \in Unused : \A t \in Unused : s <= t
CanOpen == Unused # {} /\ None \in ToSet(loop.table)

-----------------------------------------------------------------------------
(* eventloop_run                                                             *)

Init ==
    /\ loop = [table   |-> [n \in Fds |-> IF n <= 3 THEN n ELSE None],
               src     |-> [s \in Ids |-> CASE s = 1 -> [kind |-> "display", fd |-> 1]
                                            [] s = 2 -> [kind |-> "listener", fd |-> 2]
                                            [] OTHER -> [kind |-> "signal", fd |-> 3]],
               sources |-> <<3, 2, 1>>,
               deleted |-> <<>>,
               alloc   |-> {1, 2, 3},
               epoll   |-> {1, 2, 3},
               ready   |-> <<>>,
               stop    |-> FALSE]
    /\ batch = <<>>
    /\ pc = "prepare"
    /\ prepares = TRUE
    /\ timer = None

(* The kernel: what epoll watches becomes readable or hangs up.  Its list is  *)
(* first come, first served.                                                 *)
BecomesReady(s) ==
    /\ s \in loop.epoll /\ s \notin ToSet(loop.ready)
    /\ loop' = [loop EXCEPT !.ready = Append(@, s)]
    /\ UNCHANGED <<batch, pc, prepares, timer>>

Prepare ==
    /\ pc = "prepare"
    /\ pc' = "wait"
    /\ \/ UNCHANGED <<loop, prepares>>
       \/ /\ prepares
          /\ loop' = EventloopStop(loop)  \* display_prepare_callback failed
          /\ prepares' = FALSE
    /\ UNCHANGED <<batch, timer>>

High == {s \in Ids : loop.src[s].kind = "display"}

EpollWait_HighOnly ==
    /\ pc = "wait"
    /\ loop.ready # <<>>
    /\ LET n    == Min({Len(loop.ready), MaxEvents})
           evs  == Keep(SubSeq(loop.ready, 1, n), Ids)
           high == Keep(evs, High)
       IN /\ batch' = IF high = <<>> THEN evs ELSE high
          /\ loop' = [loop EXCEPT !.ready = SubSeq(@, n + 1, Len(@))]
    /\ pc' = "dispatch"
    /\ UNCHANGED <<prepares, timer>>

EpollWait ==
    /\ pc = "wait"
    /\ loop.ready # <<>>
    /\ LET n   == Min({Len(loop.ready), MaxEvents})
           evs == Keep(SubSeq(loop.ready, 1, n), Ids)  \* all but the event fd
       IN /\ batch' = Keep(evs, High) \o Keep(evs, Ids \ High)
          /\ loop' = [loop EXCEPT !.ready = SubSeq(@, n + 1, Len(@))]
    /\ pc' = "dispatch"
    /\ UNCHANGED <<prepares, timer>>

Dispatching(kind) == /\ pc = "dispatch" /\ batch # <<>>
                     /\ loop.src[Head(batch)].kind = kind

(* The callback of Head(batch) ends with the loop in state l, having returned *)
(* true if the source is to go.                                              *)
Returns(l, remove) ==
    /\ loop' = IF remove THEN Discard(l, Head(batch)) ELSE l
    /\ batch' = Tail(batch)
    /\ pc' = "dispatch"

(* After the batch the deleted sources go, then the loop ends or starts over. *)
Reap ==
    /\ pc = "dispatch" /\ batch = <<>> /\ loop.deleted # <<>>
    /\ loop' = EventsourceDel(loop, Head(loop.deleted))
    /\ UNCHANGED <<batch, pc, prepares, timer>>

Repeat ==
    /\ pc = "dispatch" /\ batch = <<>> /\ loop.deleted = <<>>
    /\ pc' = IF loop.stop THEN "ended" ELSE "prepare"
    /\ UNCHANGED <<loop, batch, prepares, timer>>

-----------------------------------------------------------------------------
(* The callbacks                                                             *)

(* display_callback dispatches any number of Wayland events, see the next     *)
(* four actions.                                                             *)
DisplayBegin == /\ Dispatching("display")
                /\ pc' = "display"
                /\ UNCHANGED <<loop, batch, prepares, timer>>

DisplayEnd == /\ pc = "display"
              /\ Returns(loop, FALSE)
              /\ UNCHANGED <<prepares, timer>>

DisplayFails == /\ pc = "display"
                /\ Returns(EventloopStop(loop), TRUE)
                /\ UNCHANGED <<prepares, timer>>

(* selection_event: the selection was lost, a timer starts. *)
TimerStarts ==
    /\ pc = "display" /\ timer = None /\ CanOpen
    /\ loop' = EventloopAdd(loop, NewId, "timer")
    /\ timer' = LowestFd(loop)
    /\ UNCHANGED <<batch, pc, prepares>>

(* wayland_del_seat: selection_uninit of its selection. *)
SeatRemoved ==
    /\ pc = "display" /\ timer # None
    /\ loop' = Close(EventloopDel(loop, timer), timer)
    /\ timer' = None
    /\ UNCHANGED <<batch, pc, prepares>>

(* wsignal_send: the compositor hands over the pipe of a pasting application. *)
SendStarts ==
    /\ pc = "display" /\ CanOpen
    /\ loop' = EventloopAdd(loop, NewId, "peer")
    /\ UNCHANGED <<batch, pc, prepares, timer>>

(* accept_callback *)
Accept ==
    /\ Dispatching("listener")
    /\ \/ CanOpen /\ Returns(EventloopAdd(loop, NewId, "peer"), FALSE)
       \/ Returns(loop, FALSE)   \* accept() fails
       \/ Returns(loop, TRUE)    \* EPOLLHUP
    /\ UNCHANGED <<prepares, timer>>

(* client_callback and write_callback: the peer stays, or ipc_client_free or  *)
(* send_context_free takes it out, closes it, and the callback returns true.  *)
ServePeer ==
    /\ Dispatching("peer")
    /\ LET n == loop.src[Head(batch)].fd
       IN Returns(loop, FALSE) \/ Returns(Close(EventloopDel(loop, n), n), TRUE)
    /\ UNCHANGED <<prepares, timer>>

(* null_timer_callback.  If the selection is gone (see SeatRemoved) it writes  *)
(* to freed memory, which may by now belong to another selection.            *)
TimerFires ==
    /\ Dispatching("timer")
    /\ Returns(Close(loop, loop.src[Head(batch)].fd), TRUE)
    /\ \/ timer' = None
       \/ Head(batch) \notin ToSet(loop.sources) /\ UNCHANGED timer
    /\ UNCHANGED prepares

(* signal_callback *)
SignalReceived ==
    /\ Dispatching("signal")
    /\ \/ Returns(EventloopStop(loop), TRUE)   \* SIGINT, SIGTERM
       \/ Returns(loop, FALSE)                 \* SIGPIPE, or read() fails
    /\ UNCHANGED <<prepares, timer>>

Dispatch == DisplayBegin \/ DisplayEnd \/ DisplayFails \/ TimerStarts \/ SeatRemoved
            \/ SendStarts \/ Accept \/ ServePeer \/ TimerFires \/ SignalReceived

Next == (\E s \in Ids : BecomesReady(s)) \/ Prepare \/ EpollWait \/ Dispatch \/ Reap \/ Repeat

(* The loop's thread runs when it can, and libwayland hands display_callback  *)
(* a finite queue.                                                           *)
Fairness == /\ WF_vars(Prepare \/ EpollWait \/ Dispatch \/ Reap \/ Repeat)
            /\ WF_vars(DisplayEnd)

Spec == Init /\ [][Next]_vars
FairSpec == Spec /\ Fairness

-----------------------------------------------------------------------------
(* Properties                                                                *)

(* epoll never holds the address of a freed source, whose callback the next   *)
(* batch would call.  A source is freed together with its registration, but    *)
(* that one goes by fd number, which may name another file by then; it holds   *)
(* because a file still open keeps its number.  (eventsource_del)             *)
RegisteredIsAllocated == loop.epoll \subseteq loop.alloc

(* While the loop is to go on, nothing it will still touch is freed under it: *)
(* a callback that removes a source, its own or one whose event is still to    *)
(* come, only moves it aside, and no source is moved aside twice, to be freed  *)
(* twice.  (eventloop_del, eventloop_run)                                     *)
BatchIsAllocated ==
    ~loop.stop => /\ ToSet(batch) \cup ToSet(loop.sources \o loop.deleted) \subseteq loop.alloc
                  /\ IsInjective(loop.sources \o loop.deleted)

(* What is ready is served or removed, however often the high-priority source  *)
(* is ready as well.  (eventloop_run)                                         *)
ReadyIsServed ==
    \A s \in Ids : s \in ToSet(loop.ready) ~>
        (batch # <<>> /\ Head(batch) = s) \/ s \notin loop.epoll \/ pc = "ended"

(* eventloop_stop ends the loop, even when a prepare callback calls it just    *)
(* before the loop blocks.  (eventloop_stop, eventloop_wakeup)                *)
StopEnds == loop.stop ~> pc = "ended"

(* A source that was taken out of the loop is not called any more.  The code   *)
(* breaks this: the batch still holds it.  (eventloop_del: "Remove fd from     *)
(* event loop")                                                              *)
RemovedIsSilent == pc = "dispatch" /\ batch # <<>> => Head(batch) \in ToSet(loop.sources)

(* A source that was added is polled until it is removed.  The code breaks     *)
(* this: the deferred deletion of a closed fd hits the file that has its       *)
(* number now.  (eventloop_add: "Add fd to event loop ... Returns true on      *)
(* success")                                                                 *)
AddedIsPolled == ToSet(loop.sources) \subseteq loop.epoll

(* A callback may return true to have its source removed.  The code breaks     *)
(* this once the loop is to stop: eventloop_del then frees at once, and the    *)
(* loop links the freed source into a list.  (event.h: "Return true to remove  *)
(* source")                                                                  *)
ListedIsAllocated == ToSet(loop.sources \o loop.deleted) \subseteq loop.alloc

(* Wayland events that are there are dispatched before anything else.  The     *)
(* code breaks this when more sources are ready than fit a batch.              *)
(* (wayland_ct_init: "so that Wayland events are always processed before       *)
(* anything else")                                                           *)
WaylandFirst ==
    [][EpollWait => \A s \in ToSet(loop.ready) : s \in High => s \in ToSet(batch')]_vars

=============================================================================
