----------------------------- MODULE Toplevels -----------------------------
(***************************************************************************)
(* daemon/wayland.c: which window is active, told by the compositor in     *)
(* single events closed by "done", and what the configuration of that      *)
(* window and the global one let through of a selection's mime types.      *)
(*                                                                         *)
(* The compositor has one focused window.  Whatever changes, it owes the   *)
(* daemon the events that say so, one window at a time, in any order.      *)
(* Events arrive in the order they are sent, and are handled one by one.   *)
(***************************************************************************)
EXTENDS Integers, FiniteSets, SequencesExt

CONSTANTS Windows,     \* each opens once
          Titles, AppIds,
          Mimes,
          Global,      \* daemon.mime_types, see Filter
          Configured,  \* daemon.toplevels: a sequence of tables
          Null         \* no window, no name, no configuration

(* A regular expression is the set of what it matches, an array of them their  *)
(* union; an empty array is an empty set.                                    *)
Filter == [blocked : SUBSET Mimes, allowed : SUBSET Mimes, transient : SUBSET Mimes]
Table  == [titles : SUBSET Titles, app_ids : SUBSET AppIds, filter : Filter]

ASSUME ToplevelsAssumption ==
    /\ Null \notin Windows \cup Titles \cup AppIds
    /\ Global \in Filter /\ Configured \in Seq(Table)

VARIABLES win,     \* the compositor's windows: opened, title and app id
          focus,   \* the focused one, or Null
          owes,    \* owes[w]: the events of w the compositor has to send
          tps,     \* wayland->toplevels
          active   \* wayland->active_toplevel

vars == <<win, focus, owes, tps, active>>

Absent == [listed |-> FALSE, title |-> Null, app_id |-> Null,
           activated |-> FALSE, ack |-> FALSE, config |-> Null]
Open == {w \in Windows : win[w].state = "open"}

Init ==
    /\ win = [w \in Windows |-> [state |-> "new", title |-> Null, app_id |-> Null]]
    /\ focus = Null
    /\ owes = [w \in Windows |-> {}]
    /\ tps = [w \in Windows |-> Absent]
    /\ active = Null

-----------------------------------------------------------------------------
(* The compositor                                                            *)

Owe(S, what) == [w \in Windows |-> IF w \in S THEN owes[w] \cup what \cup {"done"} ELSE owes[w]]

OpenWindow(w) ==
    /\ win[w].state = "new"
    /\ win' = [win EXCEPT ![w].state = "open"]
    /\ owes' = [owes EXCEPT ![w] = {"toplevel", "state", "done"}]
    /\ UNCHANGED <<focus, tps, active>>

Rename(w, field, name) ==
    /\ w \in Open /\ win[w][field] # name
    /\ win' = [win EXCEPT ![w][field] = name]
    /\ owes' = Owe({w}, {field})
    /\ UNCHANGED <<focus, tps, active>>

Focus(w) ==
    /\ focus # w
    /\ focus' = w
    /\ owes' = Owe({w, focus} \cap Open, {"state"})
    /\ UNCHANGED <<win, tps, active>>

(* The end of a window, or of all: the manager is finished.                   *)
Close(S) ==
    /\ win' = [w \in Windows |-> IF w \in S THEN [win[w] EXCEPT !.state = "closed"] ELSE win[w]]
    /\ focus' = IF focus \in S THEN Null ELSE focus
    /\ owes' = [w \in Windows |-> IF w \in S THEN (owes[w] \cap {"toplevel"}) \cup {"closed"} ELSE owes[w]]
    /\ UNCHANGED <<tps, active>>

-----------------------------------------------------------------------------
(* The daemon: the events of a toplevel                                      *)

Sends(w, what) == /\ what \in owes[w]
                  /\ what # "toplevel" => "toplevel" \notin owes[w]
                  /\ owes' = [owes EXCEPT ![w] = @ \ {what}]
                  /\ UNCHANGED <<win, focus>>

(* ftp_mgr_event_toplevel, wayland_add_toplevel                               *)
EventToplevel(w) ==
    /\ Sends(w, "toplevel")
    /\ tps' = [tps EXCEPT ![w] = [Absent EXCEPT !.listed = TRUE]]
    /\ UNCHANGED active

EventName_Acked(w, field) ==
    /\ Sends(w, field)
    /\ tps' = [tps EXCEPT ![w][field] = win[w][field]]
    /\ UNCHANGED active

(* ftp_event_title, ftp_event_app_id                                          *)
EventName(w, field) ==
    /\ Sends(w, field)
    /\ tps' = [tps EXCEPT ![w][field] = win[w][field], ![w].ack = FALSE]
    /\ UNCHANGED active

(* ftp_event_state                                                           *)
EventState(w) ==
    /\ Sends(w, "state")
    /\ tps' = [tps EXCEPT ![w].activated = (focus = w)]
    /\ UNCHANGED active

(* The first table that matches the names.                                   *)
Matches(table, tp) ==
    /\ table.titles = {} \/ tp.title \in table.titles
    /\ table.app_ids = {} \/ tp.app_id \in table.app_ids
Lookup(tp) ==
    LET found == {i \in DOMAIN Configured : Matches(Configured[i], tp)}
    IN IF found = {} THEN Null ELSE Min(found)

(* What ftp_event_done makes of active_toplevel, w being tp now.               *)
ActiveAfter(w, tp) ==
    IF tp.activated /\ tp.config # Null THEN w ELSE IF active = w THEN Null ELSE active

(* ftp_event_done: the configuration is looked up again if a name changed.     *)
EventDone(w) ==
    /\ owes[w] = {"done"} /\ Sends(w, "done")
    /\ LET tp == IF tps[w].ack THEN tps[w]
                 ELSE [tps[w] EXCEPT !.config = Lookup(tps[w]), !.ack = TRUE]
       IN /\ tps' = [tps EXCEPT ![w] = tp]
          /\ active' = ActiveAfter(w, tp)

ActiveWithout_Kept(w) == active

(* wayland_del_toplevel *)
ActiveWithout(w) == IF active = w THEN Null ELSE active

(* ftp_event_closed, and ftp_mgr_event_finished for every toplevel in turn.    *)
EventClosed(w) ==
    /\ Sends(w, "closed")
    /\ tps' = [tps EXCEPT ![w] = Absent]
    /\ active' = ActiveWithout(w)

-----------------------------------------------------------------------------
(* The daemon: the mime types of a selection                                 *)

(* seat_check_mime_type: the seat after it, and whether the type is kept.      *)
Check(seat, m, filter) ==
    IF seat.blocked THEN [seat EXCEPT !.keep = FALSE] ELSE
    IF m \in filter.blocked THEN [seat EXCEPT !.blocked = TRUE, !.keep = FALSE]
    ELSE [seat EXCEPT !.transient = @ \/ m \in filter.transient,
                      !.keep = filter.allowed = {} \/ m \in filter.allowed]

Offered_Either(seat, m) ==
    LET global == Check(seat, m, Global)
        local  == IF active = Null THEN global
                  ELSE Check(global, m, Configured[tps[active].config].filter)
    IN IF local.keep THEN [local EXCEPT !.mimes = @ \cup {m}] ELSE local

(* data_offer_event_offer: the global filter, then the active window's.        *)
Offered(seat, m) ==
    LET global == Check(seat, m, Global)
        local  == IF active = Null \/ ~global.keep THEN global
                  ELSE Check(global, m, Configured[tps[active].config].filter)
    IN IF local.keep THEN [local EXCEPT !.mimes = @ \cup {m}] ELSE local

(* data_device_event_data_offer *)
NewOffer == [blocked |-> FALSE, transient |-> FALSE, keep |-> FALSE, mimes |-> {}]

(* What selection_event and wsignal_selection do with it.                     *)
Stored(seat) ==
    IF seat.blocked \/ seat.mimes = {} THEN [where |-> "nowhere", mimes |-> {}]
    ELSE [where |-> IF seat.transient THEN "memory" ELSE "history", mimes |-> seat.mimes]

(* A selection that comes now: its mime types one after the other.  It changes  *)
(* nothing here (what it does to the history is in ClipHistory).               *)
SeatAfter(mimes) ==
    LET seat[n \in 0 .. Len(mimes)] == IF n = 0 THEN NewOffer ELSE Offered(seat[n - 1], mimes[n])
    IN  seat[Len(mimes)]

Copied(mimes) == Stored(SeatAfter(mimes))

Offers == {mimes \in SeqOf(Mimes, Cardinality(Mimes)) : mimes # <<>> /\ IsInjective(mimes)}

Compositor(w) ==
    \/ OpenWindow(w) \/ (w \in Open /\ (Focus(w) \/ Close({w})))
    \/ \E t \in Titles : Rename(w, "title", t)
    \/ \E a \in AppIds : Rename(w, "app_id", a)

Event(w) ==
    \/ EventToplevel(w) \/ EventName(w, "title") \/ EventName(w, "app_id")
    \/ EventState(w) \/ EventDone(w) \/ EventClosed(w)

Next ==
    \/ \E w \in Windows : Compositor(w) \/ Event(w)
    \/ Focus(Null)
    \/ Close(Open)

Spec == Init /\ [][Next]_vars

-----------------------------------------------------------------------------
(* Properties                                                                *)

(* The active window is one that still exists, and has a configuration, also     *)
(* between the events that change it and the "done" that applies them.           *)
(* (data_offer_event_offer: assert(config_tp != NULL))                          *)
ActiveIsConfigured == active # Null => tps[active].listed /\ tps[active].config # Null

(* Once the compositor has said all there is to say of its windows, the active    *)
(* one is the focused one, if the configuration has a table for it, whatever the *)
(* order of the events was.  (ftp_event_done)                                  *)
AtRest == \A w \in Windows : owes[w] = {}
ActiveIsFocused ==
    AtRest => active = IF focus # Null /\ Lookup(win[focus]) # Null THEN focus ELSE Null

(* What is stored of a selection is what the two filters say of the set of its    *)
(* mime types, in whichever order they were offered: nothing if one is blocked,   *)
(* in memory if one is transient; the window's filter counts for the types the    *)
(* global one lets pass.  (seat_check_mime_type, data_offer_event_offer)         *)
Passes(m, filter) == filter.allowed = {} \/ m \in filter.allowed
NoFilter == [blocked |-> {}, allowed |-> {}, transient |-> {}]
LocalFilter == IF active = Null THEN NoFilter ELSE Configured[tps[active].config].filter
StoredIsFiltered ==
    \A mimes \in Offers :
        LET S      == ToSet(mimes)
            passed == {m \in S : Passes(m, Global)}
            kept   == {m \in passed : Passes(m, LocalFilter)}
        IN Copied(mimes) =
             IF S \cap Global.blocked # {} \/ passed \cap LocalFilter.blocked # {} \/ kept = {}
             THEN [where |-> "nowhere", mimes |-> {}]
             ELSE [where |-> IF S \cap Global.transient # {} \/ passed \cap LocalFilter.transient # {}
                             THEN "memory" ELSE "history",
                   mimes |-> kept]

(* A selection with a mime type that is transient in the active window is not     *)
(* saved.  The code breaks this for a type the global "allowed" leaves out.      *)
(* (swayclip(5): "These function the same as their global counterparts", "This    *)
(* means you can match a transient mime type without storing it")                *)
TransientIsNotSaved ==
    \A mimes \in Offers :
        ToSet(mimes) \cap LocalFilter.transient # {} => Copied(mimes).where # "history"

-----------------------------------------------------------------------------
(* The inductive invariant: the daemon's copy of a window is what the            *)
(* compositor has, but for what it still owes.                               *)

Names    == Titles \cup AppIds \cup {Null}
Configs  == {Null} \cup {Lookup(tp) : tp \in [title : Names, app_id : Names]}
Toplevel == [listed : BOOLEAN, title : Names, app_id : Names,
             activated : BOOLEAN, ack : BOOLEAN, config : Configs]
Told     == {"toplevel", "title", "app_id", "state", "done", "closed"}

TypeOK ==
    /\ win \in [Windows -> [state : {"new", "open", "closed"}, title : Names, app_id : Names]]
    /\ focus \in Open \cup {Null}
    /\ owes \in [Windows -> SUBSET Told]
    /\ tps \in [Windows -> Toplevel]
    /\ active \in Windows \cup {Null}

(* Which events can be owed, and what of a window is there before the first and   *)
(* after the last.                                                           *)
OwedIsOrdered(w) ==
    /\ win[w].state = "new" => owes[w] = {} /\ tps[w] = Absent
    /\ win[w].state = "new" => win[w].title = Null /\ win[w].app_id = Null
    /\ w \in Open => "closed" \notin owes[w] /\ ("done" \in owes[w] \/ owes[w] = {})
    /\ win[w].state = "closed" => owes[w] \subseteq {"toplevel", "closed"}
    /\ "toplevel" \in owes[w] => tps[w] = Absent
    /\ w \in Open /\ "toplevel" \notin owes[w] => tps[w].listed
    /\ win[w].state = "closed" /\ "closed" \notin owes[w] => ~tps[w].listed /\ owes[w] = {}

(* What is not owed has been told.                                            *)
ToldIsKnown(w) ==
    /\ w \in Open /\ "title" \notin owes[w] => tps[w].title = win[w].title
    /\ w \in Open /\ "app_id" \notin owes[w] => tps[w].app_id = win[w].app_id
    /\ w \in Open /\ "state" \notin owes[w] => tps[w].activated = (focus = w)

(* What "done" has applied.                                                   *)
DoneIsApplied(w) ==
    /\ tps[w].ack => tps[w].config = Lookup(tps[w])
    /\ w \in Open /\ "done" \notin owes[w] =>
         tps[w].ack /\ (active = w <=> tps[w].activated /\ tps[w].config # Null)

IInv ==
    /\ TypeOK /\ ActiveIsConfigured
    /\ \A w \in Windows : OwedIsOrdered(w) /\ ToldIsKnown(w) /\ DoneIsApplied(w)

=============================================================================
