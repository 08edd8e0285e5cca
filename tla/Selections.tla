----------------------------- MODULE Selections -----------------------------
(***************************************************************************)
(* The selections the daemon looks after (src/daemon/wayland.c), between   *)
(* the compositor on one side and the core on the other.  Requests to the  *)
(* compositor and its events travel on one connection, in order, and cross *)
(* each other; applications copy, and close, at any time.                  *)
(*                                                                         *)
(* A seat has two selections.  For each the daemon is either a listener,   *)
(* which stores what an application copies, or the holder, through a data  *)
(* source of its own.  A data offer, the mime types that follow it and the *)
(* selection event that ends them are one event here; a seat is removed    *)
(* for good and comes back as another seat.  The core is reduced to the    *)
(* entry it has made current and the entries it has stored; transient      *)
(* contents are in ClipHistory, toplevels left out.                        *)
(***************************************************************************)
EXTENDS Ranks

CONSTANTS
    Seats,      \* the seats that may be plugged in
    Enabled,    \* the selections the configuration asks for
    Contents,   \* what applications copy
    Blocked,    \* contents with a blocked mime type
    Unlisted,   \* contents without an allowed mime type
    Histories,  \* the stored contents a start of the daemon may find
    Faults,     \* of the core's calls those that may fail: "begin", "read"
    SourceIds,  \* protocol ids of the data sources of one selection, bound
    MaxSteps,   \* what applications, clients and seats do, bound
    None        \* no content, no source

Selection == Seats \X {"regular", "primary"}
SelectionsOf(s) == {sel \in Selection : sel[1] = s}
Storable == Contents \ (Blocked \cup Unlisted)

ASSUME SeatsAssumption    == IsFiniteSet(Seats)
ASSUME EnabledAssumption  == Enabled \subseteq Selection
ASSUME ContentsAssumption == Blocked \subseteq Contents /\ Unlisted \subseteq Contents \ Blocked
ASSUME HistoriesAssumption == Histories \subseteq SUBSET Storable /\ Histories # {}
ASSUME NoneAssumption     == None \notin Contents \cup SourceIds
ASSUME BoundsAssumption   == Faults \subseteq {"begin", "read"} /\ MaxSteps \in Nat /\ SourceIds \subseteq Nat

VARIABLES
    \* the compositor
    present,   \* per seat: "absent", "present" or "gone"
    device,    \* per seat: the daemon has a data device for it
    owner,     \* per selection: who holds it and with what
    requests,  \* requests on their way to the compositor
    events,    \* events on their way to the daemon
    \* the daemon
    seat,      \* per seat: started, that is ext_data_device is set
    offer,     \* per selection: ext_data_offer is set
    source,    \* per selection: ext_data_source
    timer,     \* per selection: null_timerfd is armed
    blocked,   \* per seat: seat->blocked
    \* the core
    current,   \* content of the current entry, None when id = -1
    cleared,   \* state.cleared
    newest,    \* content of the entry at the front of the history
    history,   \* contents of all entries
    \* the users
    steps

compositorVars == <<present, device, owner>>
daemonVars     == <<seat, offer, source, timer, blocked>>
coreVars       == <<current, cleared, newest, history>>
vars == <<compositorVars, requests, events, daemonVars, coreVars, steps>>

Empty             == [by |-> "none",   content |-> None, source |-> None]
AppOwner(c)       == [by |-> "app",    content |-> c,    source |-> None]
DaemonOwner(k, c) == [by |-> "daemon", content |-> c,    source |-> k]

SelectionEvent(sel, c) == [type |-> "selection", sel |-> sel, content |-> c]
Cancelled(sel, k)      == [type |-> "cancelled", sel |-> sel, source |-> k]
SeatEvent(t, s)        == [type |-> t, seat |-> s]

DeviceRequest(s)        == [op |-> "device", seat |-> s]
DestroyRequest(sel, k)  == [op |-> "destroy", sel |-> sel, source |-> k]
SetRequest(sel, k, c)   == [op |-> "set", sel |-> sel, source |-> k, content |-> c]

-----------------------------------------------------------------------------
(* The daemon: setting selections. *)

(* The ids of sources that neither side nor the connection knows any more. *)
FreeIds(sel) == {k \in SourceIds :
    /\ source[sel] # k
    /\ owner[sel].source # k
    /\ \A q \in Range(requests) : q.op # "device" => <<q.sel, q.source>> # <<sel, k>>
    /\ \A e \in Range(events) : e.type = "cancelled" => <<e.sel, e.source>> # <<sel, k>>}

NewId(sel) == CHOOSE k \in FreeIds(sel) : \A j \in FreeIds(sel) : k <= j

(* A destroyed source gives up its id and its events are dropped. *)
DestroyRequests(S) ==
    LET order == SetToSeq({sel \in S : source[sel] # None})
    IN  [n \in DOMAIN order |-> DestroyRequest(order[n], source[order[n]])]

Without(evs, S) == Keep(evs, {e \in ToSet(evs) : ~(/\ e.type = "cancelled" /\ e.sel \in S
                                                  /\ e.source = source[e.sel])})

(* The requests of selection_set for the selections of S: each gives up the   *)
(* source it has, if any, and is set to its next one.  The selections are     *)
(* independent of each other, so their order is any.                          *)
SetRequests(S, next, c) ==
    LET order == SetToSeq(S)
        all   == [n \in 1 .. 2 * Len(order) |->
                     LET sel == order[(n + 1) \div 2]
                     IN  IF n % 2 = 1 THEN DestroyRequest(sel, source[sel])
                                      ELSE SetRequest(sel, next[sel], c)]
    IN  Keep(all, {q \in ToSet(all) : q.op = "destroy" => q.source # None})

(* selection_set for every selection of S, after core state c, clr; reqs and  *)
(* evs are the connection as the handler has left it so far.                  *)
SetSelections(S, c, clr, reqs, evs) ==
    IF c = None /\ ~clr
    THEN /\ source' = source
         /\ requests' = reqs
         /\ events' = evs
    ELSE LET next == [sel \in S |-> IF c = None THEN None ELSE NewId(sel)]
         IN  /\ \A sel \in S : FreeIds(sel) # {}
             /\ source' = [sel \in Selection |-> IF sel \in S THEN next[sel] ELSE source[sel]]
             /\ requests' = reqs \o SetRequests(S, next, c)
             /\ events' = Without(evs, S)

(* The selections the configuration enables on a seat of that name. *)
Configured(s) == Enabled \cap SelectionsOf(s)

(* The selections of wayland_set. *)
Started == {sel \in Enabled : seat[sel[1]]}

-----------------------------------------------------------------------------
(* The daemon: events.  Each handler takes the first event of the queue. *)

Arrived(t) == events # <<>> /\ Head(events).type = t

(* A seat and its name: the device is asked for, and the selections are set   *)
(* in case an entry is current already.                                       *)
SeatStart ==
    /\ Arrived("name")
    /\ LET s == Head(events).seat
       IN  /\ seat' = [seat EXCEPT ![s] = TRUE]
           /\ SetSelections(Configured(s), current, cleared,
                            Append(requests, DeviceRequest(s)), Tail(events))
    /\ UNCHANGED <<compositorVars, offer, timer, blocked, coreVars, steps>>

(* wayland_del_seat *)
SeatRemove ==
    /\ Arrived("removed")
    /\ LET s == Head(events).seat
           Sels == SelectionsOf(s)
       IN  /\ seat' = [seat EXCEPT ![s] = FALSE]
           /\ source' = [sel \in Selection |-> IF sel \in Sels THEN None ELSE source[sel]]
           /\ offer' = [sel \in Selection |-> offer[sel] /\ sel \notin Sels]
           /\ timer' = [sel \in Selection |-> timer[sel] /\ sel \notin Sels]
           /\ blocked' = [blocked EXCEPT ![s] = FALSE]
           /\ requests' = requests \o DestroyRequests(Sels)
           /\ events' = Keep(Tail(events), {e \in ToSet(Tail(events)) :
                            e.type \in {"selection", "cancelled"} => e.sel \notin Sels})
    /\ UNCHANGED <<compositorVars, coreVars, steps>>

(* Mutant of SourceCancelled: the source is destroyed and not forgotten. *)
SourceCancelled_Kept ==
    /\ Arrived("cancelled")
    /\ LET e == Head(events)
       IN  requests' = Append(requests, DestroyRequest(e.sel, e.source))
    /\ events' = Tail(events)
    /\ UNCHANGED <<compositorVars, seat, offer, source, timer, blocked, coreVars, steps>>

(* data_source_event_cancelled *)
SourceCancelled ==
    /\ Arrived("cancelled")
    /\ LET e == Head(events)
       IN  /\ source' = IF source[e.sel] = e.source THEN [source EXCEPT ![e.sel] = None] ELSE source
           /\ requests' = Append(requests, DestroyRequest(e.sel, e.source))
    /\ events' = Tail(events)
    /\ UNCHANGED <<compositorVars, seat, offer, timer, blocked, coreVars, steps>>

(* Mutant of BlockedAfter: a new offer does not reset the flag.               *)
BlockedAfter_Sticky(e) == blocked[e.sel[1]] \/ e.content \in Blocked

(* What the offer and its mime types make of seat->blocked; a selection event *)
(* for an empty selection has no offer before it.                             *)
BlockedAfter(e) == IF e.content = None THEN blocked[e.sel[1]] ELSE e.content \in Blocked

(* Mutant of Ignored: an empty selection is news even while a source is set.  *)
Ignored_NotNull(e) == e.sel \in Enabled /\ e.content # None
                          /\ (source[e.sel] # None \/ BlockedAfter(e))

(* The selection is the daemon's own, or blocked. *)
Ignored(e) == e.sel \in Enabled /\ (source[e.sel] # None \/ BlockedAfter(e))

Listened(e) == e.sel \in Enabled /\ ~Ignored(e)

SelectionIgnored ==
    /\ Arrived("selection")
    /\ LET e == Head(events)
       IN  /\ ~Listened(e)
           /\ blocked' = [blocked EXCEPT ![e.sel[1]] = BlockedAfter(e)]
           /\ offer' = IF e.sel \in Enabled THEN [offer EXCEPT ![e.sel] = FALSE] ELSE offer
    /\ events' = Tail(events)
    /\ UNCHANGED <<compositorVars, requests, seat, source, timer, coreVars, steps>>

(* Mutant of NullArms: no timer. *)
NullArms_Never(sel) == FALSE

(* wsignal_can_set, and a timer is not armed twice *)
NullArms(sel) == current # None

(* The selection is empty: look again after a millisecond. *)
SelectionEmptied ==
    /\ Arrived("selection")
    /\ LET e == Head(events)
       IN  /\ Listened(e)
           /\ e.content = None
           /\ offer' = [offer EXCEPT ![e.sel] = FALSE]
           /\ timer' = [timer EXCEPT ![e.sel] = @ \/ NullArms(e.sel)]
    /\ events' = Tail(events)
    /\ UNCHANGED <<compositorVars, requests, seat, source, blocked, coreVars, steps>>

(* An application has copied e.content: no mime type is allowed or dedup      *)
(* finds it at the front (passed), storing it fails, or it becomes current    *)
(* and every other selection is set to it.  Only a transaction that did not   *)
(* begin leaves the current entry alone.                                      *)
Copied(e) ==
    /\ Listened(e)
    /\ e.content # None
    /\ offer' = [offer EXCEPT ![e.sel] = TRUE]
    /\ blocked' = [blocked EXCEPT ![e.sel[1]] = FALSE]
    /\ UNCHANGED <<compositorVars, seat, timer, cleared, steps>>

SelectionPassed ==
    /\ Arrived("selection")
    /\ Copied(Head(events))
    /\ Head(events).content \in Unlisted \cup {newest}
    /\ events' = Tail(events)
    /\ UNCHANGED <<requests, source, current, newest, history>>

SelectionFails ==
    /\ Arrived("selection")
    /\ Copied(Head(events))
    /\ Head(events).content \notin Unlisted
    /\ \E f \in Faults : current' = IF f = "begin" THEN current ELSE None
    /\ events' = Tail(events)
    /\ UNCHANGED <<requests, source, newest, history>>

(* Mutant of Others: the selection of the event is set as well. *)
Others_Nobody(sel) == {}
Others(sel) == Started \ {sel}

SelectionStored ==
    /\ Arrived("selection")
    /\ LET e == Head(events)
       IN  /\ Copied(e)
           /\ e.content \notin Unlisted
           /\ current' = e.content
           /\ newest' = e.content
           /\ history' = history \cup {e.content}
           /\ SetSelections(Others(e.sel), e.content, cleared, requests, Tail(events))

(* null_timer_callback *)
NullTimer(sel) ==
    /\ timer[sel]
    /\ timer' = [timer EXCEPT ![sel] = FALSE]
    /\ SetSelections(IF offer[sel] THEN {} ELSE {sel}, current, cleared, requests, events)
    /\ UNCHANGED <<compositorVars, seat, offer, blocked, coreVars, steps>>

-----------------------------------------------------------------------------
(* The daemon: a client sets the clipboard to an entry, or clears it (None). *)
SetClipboard(c) ==
    /\ steps < MaxSteps
    /\ steps' = steps + 1
    /\ current' = c
    /\ cleared' = (cleared \/ c = None)
    /\ SetSelections(Started, c, cleared', requests, events)
    /\ UNCHANGED <<compositorVars, seat, offer, timer, blocked, newest, history>>

-----------------------------------------------------------------------------
(* The compositor, as wlroots does it. *)

(* What the daemon is told when sel goes to a new owner: its source, if it     *)
(* held the selection, is cancelled; then what the selection is now.          *)
Told(sel, new) ==
    (IF owner[sel].by = "daemon" THEN <<Cancelled(sel, owner[sel].source)>> ELSE <<>>)
    \o (IF device[sel[1]] THEN <<SelectionEvent(sel, new.content)>> ELSE <<>>)

Give(sel, new) ==
    /\ owner' = [owner EXCEPT ![sel] = new]
    /\ events' = events \o Told(sel, new)

Handle(q) ==
    CASE q.op = "device" ->
           IF present[q.seat] # "present" THEN UNCHANGED <<owner, device, events>>
           ELSE /\ device' = [device EXCEPT ![q.seat] = TRUE]
                /\ events' = events \o <<SelectionEvent(<<q.seat, "regular">>, owner[<<q.seat, "regular">>].content),
                                         SelectionEvent(<<q.seat, "primary">>, owner[<<q.seat, "primary">>].content)>>
                /\ UNCHANGED owner
      [] q.op = "destroy" ->
           IF owner[q.sel].source # q.source THEN UNCHANGED <<owner, device, events>>
           ELSE /\ owner' = [owner EXCEPT ![q.sel] = Empty]
                /\ events' = Append(events, SelectionEvent(q.sel, None))
                /\ UNCHANGED device
      [] q.op = "set" ->
           IF present[q.sel[1]] # "present" \/ (q.content = None /\ owner[q.sel] = Empty)
           THEN UNCHANGED <<owner, device, events>>
           ELSE /\ Give(q.sel, IF q.content = None THEN Empty ELSE DaemonOwner(q.source, q.content))
                /\ UNCHANGED device

HandleRequest ==
    /\ requests # <<>>
    /\ Handle(Head(requests))
    /\ requests' = Tail(requests)
    /\ UNCHANGED <<present, daemonVars, coreVars, steps>>

(* An application copies into a selection, or closes while it holds one. *)
AppCopies(sel, c) ==
    /\ steps < MaxSteps
    /\ steps' = steps + 1
    /\ present[sel[1]] = "present"
    /\ Give(sel, AppOwner(c))
    /\ UNCHANGED <<present, device, requests, daemonVars, coreVars>>

AppCloses(sel) ==
    /\ owner[sel].by = "app"
    /\ Give(sel, Empty)
    /\ UNCHANGED <<present, device, requests, daemonVars, coreVars, steps>>

Plug(s) ==
    /\ present[s] = "absent"
    /\ present' = [present EXCEPT ![s] = "present"]
    /\ events' = Append(events, SeatEvent("name", s))
    /\ UNCHANGED <<device, owner, requests, daemonVars, coreVars, steps>>

Unplug(s) ==
    /\ steps < MaxSteps
    /\ steps' = steps + 1
    /\ present[s] = "present"
    /\ present' = [present EXCEPT ![s] = "gone"]
    /\ device' = [device EXCEPT ![s] = FALSE]
    /\ owner' = [sel \in Selection |-> IF sel[1] = s THEN Empty ELSE owner[sel]]
    /\ events' = Append(events, SeatEvent("removed", s))
    /\ UNCHANGED <<requests, daemonVars, coreVars>>

-----------------------------------------------------------------------------
(* The daemon has started, with the entry its last run left current or none   *)
(* (main, set_on_startup); no seat has been announced yet.                    *)
Init ==
    /\ present = [s \in Seats |-> "absent"]
    /\ device = [s \in Seats |-> FALSE]
    /\ owner = [sel \in Selection |-> Empty]
    /\ requests = <<>>
    /\ events = <<>>
    /\ seat = [s \in Seats |-> FALSE]
    /\ offer = [sel \in Selection |-> FALSE]
    /\ source = [sel \in Selection |-> None]
    /\ timer = [sel \in Selection |-> FALSE]
    /\ blocked = [s \in Seats |-> FALSE]
    /\ history \in Histories
    /\ newest \in IF history = {} THEN {None} ELSE history
    /\ current \in history \cup {None}
    /\ cleared = FALSE
    /\ steps = 0

Daemon ==
    \/ SeatStart
    \/ SeatRemove
    \/ SourceCancelled
    \/ SelectionIgnored
    \/ SelectionEmptied
    \/ SelectionPassed
    \/ SelectionFails
    \/ SelectionStored
    \/ \E sel \in Selection : NullTimer(sel)

Users ==
    \/ \E c \in history \cup {None} : SetClipboard(c)
    \/ \E sel \in Selection :
        \/ \E c \in Contents : AppCopies(sel, c)
        \/ AppCloses(sel)
    \/ \E s \in Seats : Plug(s) \/ Unplug(s)

Next == Daemon \/ HandleRequest \/ Users

Spec == Init /\ [][Next]_vars

(* The compositor answers, the loop of the daemon reads what has arrived and  *)
(* serves timers that have expired.  Users need not do anything.              *)
FairSpec == Spec /\ WF_vars(Daemon) /\ WF_vars(HandleRequest)

-----------------------------------------------------------------------------
(* Properties *)

Source == SourceIds \cup {None}

(* Nothing is on its way and nothing is about to happen by itself. *)
AtRest == requests = <<>> /\ events = <<>> /\ \A sel \in Selection : ~timer[sel]

(* At rest the daemon knows which selections it holds: a source it keeps is    *)
(* the compositor's, and the compositor has none that the daemon has          *)
(* forgotten.  (selection_set, data_source_event_cancelled)                   *)
SourceIsOwner == AtRest => \A sel \in Selection : owner[sel].source = source[sel]

(* At rest every selection the daemon holds offers the mime types of the      *)
(* current entry, of which a paste is served (wsignal_send), unless there is  *)
(* none.  (wayland_set, seat_start)                                           *)
HeldIsCurrent ==
    AtRest => \A sel \in Selection :
                  owner[sel].by = "daemon" => current \in {None, owner[sel].content}

(* At rest what an application holds in a selection the daemon listens to has *)
(* been kept: nothing slipped through between set requests, echoes and        *)
(* cancelled sources.  (selection_event, wsignal_selection)                   *)
AppHeldIsKept ==
    AtRest => \A sel \in Started :
                  owner[sel].by = "app" /\ owner[sel].content \in Storable
                      => current = None \/ owner[sel].content \in {current, newest}

(* The daemon does not chase its own tail: each set request comes back as     *)
(* events of all the selections, and when users stop, so does the traffic.    *)
(* (selection_event, "Currently source client, ignoring")                     *)
Settles == <>[]AtRest

(* Nobody holds sel although the daemon could.                                *)
Forsaken(sel) == owner[sel] = Empty /\ present[sel[1]] = "present" /\ current # None

(* When an application closes, its selection does not stay empty: the daemon  *)
(* takes it over if it has a current entry.  Here as long as nothing blocked  *)
(* is ever copied.  (null_timer_callback)                                     *)
EmptiedIsHeld ==
    [](\A sel \in Selection : owner[sel].content \notin Blocked)
        => \A sel \in Enabled : Forsaken(sel) ~> ~Forsaken(sel)

(* The same as long as nothing blocked is copied into that selection.  The    *)
(* code breaks this: seat->blocked is one flag for both selections of a seat, *)
(* and nothing but another offer resets it.  (swayclip(1): "only steps in to  *)
(* hold the clipboard once the original app closes or exits")                 *)
ClosedIsHeld ==
    \A sel \in Enabled :
        [](owner[sel].content \notin Blocked) => (Forsaken(sel) ~> ~Forsaken(sel))

(* What a user copies is stored: the daemon does not replace a content of an  *)
(* application it has not stored.  The code breaks this: a copy that crosses  *)
(* a set request is taken for the echo of the daemon's own source.            *)
(* (swayclip(5): "A new entry gets created each time you copy something")     *)
CopyIsStored ==
    [][\A sel \in Enabled :
          owner[sel].by = "app" /\ owner'[sel].by = "daemon" /\ owner[sel].content \in Storable
              => owner[sel].content \in history]_vars

=============================================================================
