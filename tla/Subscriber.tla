----------------------------- MODULE Subscriber -----------------------------
(***************************************************************************)
(* A client of the daemon that lists the history once and from then on     *)
(* keeps its list by the events alone, as a picker or a status bar built   *)
(* on "swctl events" does.  It composes with ClipHistory: every step of    *)
(* the daemon hands its events to the client, in order.                    *)
(*                                                                         *)
(* The client is not part of the repository; how it applies an event is    *)
(* what docs/swctl.1.scd says the event means.                             *)
(***************************************************************************)
EXTENDS ClipHistory, Ranks

VARIABLE view  \* [list, pinned, current]: the history front first, the pinned
               \* ids, and the current entry (NoId for none)

allVars == <<config, db, disk, id, cleared, transient, pc, work, out, view>>

(* SELECT ... FROM Entries ORDER BY Sort_index DESC *)
HistoryList(d) == [k \in 1 .. Cardinality(Live(d)) |-> EntryAt(d, k)]

PinnedIds(d) == Live(d) \ Unpinned(d)

(* get_history (all of it) and get_current. *)
Snapshot == [list    |-> HistoryList(db),
             pinned  |-> PinnedIds(db),
             current |-> IF id > 0 THEN id ELSE NoId]

Without(list, S) == AtPlaces(list, {k \in DOMAIN list : list[k] \notin S})

(* What the client does on an event of each kind. *)
EntryAdd(v, e)    == [v EXCEPT !.list = <<e.id>> \o @]
EntryMove(v, e)   == [v EXCEPT !.list = <<e.id>> \o RemoveAt(@, e.old_pos + 1)]
EntryDelete(v, e) == IF Clear \in e.ids
                     THEN [list |-> <<>>, pinned |-> {}, current |-> NoId]
                     ELSE [list    |-> Without(v.list, e.ids),
                           pinned  |-> v.pinned \ e.ids,
                           current |-> IF v.current \in e.ids THEN NoId ELSE v.current]
EntryUpdate(v, e) == IF "pinned" \notin e.fields THEN v
                     ELSE [v EXCEPT !.pinned = IF e.pinned THEN @ \cup {e.id} ELSE @ \ {e.id}]
EntryState(v, e)  == IF e.state THEN [v EXCEPT !.current = e.id]
                     ELSE [v EXCEPT !.current = IF @ = e.id THEN NoId ELSE @]

Apply(v, e) ==
    CASE e.event = "entry_add"    -> EntryAdd(v, e)
      [] e.event = "entry_move"   -> EntryMove(v, e)
      [] e.event = "entry_delete" -> EntryDelete(v, e)
      [] e.event = "entry_update" -> EntryUpdate(v, e)
      [] e.event = "entry_state"  -> EntryState(v, e)

(* One event after the other. *)
Applied(v, events) ==
    LET after[n \in 0 .. Len(events)] == IF n = 0 THEN v ELSE Apply(after[n - 1], events[n])
    IN  after[Len(events)]

(* The client connects as soon as the daemon answers requests. *)
Observe == view' = IF pc = "down" THEN Snapshot' ELSE Applied(view, out')

SubscriberInit == Init /\ view = Snapshot
SubscriberNext == Next /\ Observe
SubscriberSpec == SubscriberInit /\ [][SubscriberNext]_allVars

-----------------------------------------------------------------------------
(* The events are enough to keep the list: whenever the daemon is back in its  *)
(* loop, the client has exactly the entries of the history, in their order,    *)
(* knows which are pinned, and knows the current entry if it exists.  The      *)
(* order rests on old_pos counting positions as they were before the move, and *)
(* on trims being announced; the current entry on the order of the two state   *)
(* events.  (wsignal_selection, trim_callback, request_callback, set)          *)
ViewIsHistory ==
    pc = "idle" => /\ view.list = HistoryList(disk)
                   /\ view.pinned = PinnedIds(disk)
                   /\ IdExists(disk, id) => view.current = id

(* What the client takes for current is current.  The code breaks this: a      *)
(* transient or failed selection unsets the current entry and says nothing.    *)
(* (swctl(1), entry_state)                                                     *)
KnownIsCurrent == pc = "idle" /\ view.current # NoId => view.current = id

=============================================================================
