-------------------------- MODULE ToplevelsProofs --------------------------
(***************************************************************************)
(* Which window is active, proved for every number of windows, every       *)
(* configuration and every order of the compositor's events; and what the  *)
(* filters let through of a selection, for every order of its mime types.  *)
(***************************************************************************)
EXTENDS Toplevels, RanksProofs, TLAPS

(* What IInv says of one window. *)
Consistent(w) == OwedIsOrdered(w) /\ ToldIsKnown(w) /\ DoneIsApplied(w)

LEMMA LookupIsTyped ==
    ASSUME NEW tp, tp.title \in Names, tp.app_id \in Names
    PROVE  Lookup(tp) \in Configs
<1> DEFINE q == [title |-> tp.title, app_id |-> tp.app_id]
<1>1. q \in [title : Names, app_id : Names] /\ q.title = tp.title /\ q.app_id = tp.app_id
  OBVIOUS
<1>2. Lookup(q) = Lookup(tp)
  BY <1>1 DEF Lookup, Matches
<1> QED
  BY <1>1, <1>2 DEF Configs

(* The configuration depends on the two names only. *)
LEMMA LookupOfNames ==
    ASSUME NEW p, NEW q, p.title = q.title, p.app_id = q.app_id
    PROVE  Lookup(p) = Lookup(q)
BY DEF Lookup, Matches

LEMMA InitEstablishes == Init => IInv
<1> SUFFICES ASSUME Init PROVE IInv
  OBVIOUS
<1>1. TypeOK
  BY DEF Init, TypeOK, Toplevel, Absent, Names, Configs, Told, Open
<1>2. ActiveIsConfigured
  BY DEF Init, ActiveIsConfigured
<1>3. ASSUME NEW w \in Windows PROVE Consistent(w)
  BY <1>3 DEF Init, Consistent, OwedIsOrdered, ToldIsKnown, DoneIsApplied, Absent, Open
<1> QED
  BY <1>1, <1>2, <1>3 DEF IInv, Consistent

-----------------------------------------------------------------------------
(* The compositor                                                            *)

LEMMA OpenWindowKeeps ==
    ASSUME IInv, NEW w \in Windows, OpenWindow(w)
    PROVE  IInv'
<1>1. TypeOK'
  BY DEF IInv, TypeOK, OpenWindow, Open, Told
<1>2. ActiveIsConfigured'
  BY DEF IInv, ActiveIsConfigured, OpenWindow
<1>3. ASSUME NEW x \in Windows PROVE Consistent(x)'
  <2>1. Consistent(x) /\ Consistent(w)
    BY DEF IInv, Consistent
  <2>2. CASE x # w
    BY <2>1, <2>2 DEF IInv, TypeOK, OpenWindow, Consistent, OwedIsOrdered, ToldIsKnown,
                      DoneIsApplied, Open
  <2>3. CASE x = w
    BY <2>1, <2>3 DEF IInv, TypeOK, OpenWindow, Consistent, OwedIsOrdered, ToldIsKnown,
                      DoneIsApplied, Open, Told, Absent
  <2> QED
    BY <2>2, <2>3
<1> QED
  BY <1>1, <1>2, <1>3 DEF IInv, Consistent

LEMMA RenameKeeps ==
    ASSUME IInv, NEW w \in Windows, NEW field \in {"title", "app_id"}, NEW name \in Names,
           Rename(w, field, name)
    PROVE  IInv'
<1>1. TypeOK'
  BY DEF IInv, TypeOK, Rename, Open, Told, Owe
<1>2. ActiveIsConfigured'
  BY DEF IInv, ActiveIsConfigured, Rename
<1>3. ASSUME NEW x \in Windows PROVE Consistent(x)'
  <2>1. Consistent(x)
    BY DEF IInv, Consistent
  <2>2. CASE x # w
    BY <2>1, <2>2 DEF IInv, TypeOK, Rename, Owe, Consistent, OwedIsOrdered, ToldIsKnown,
                      DoneIsApplied, Open
  <2>3. CASE x = w
    <3>1. /\ win'[w].state = "open" /\ win[w].state = "open"
          /\ owes'[w] = owes[w] \cup {field, "done"}
          /\ field = "title" => win'[w].app_id = win[w].app_id
          /\ field = "app_id" => win'[w].title = win[w].title
          /\ UNCHANGED <<focus, tps, active>>
      BY DEF IInv, TypeOK, Rename, Owe, Open
    <3> QED
      BY <2>1, <2>3, <3>1 DEF Consistent, OwedIsOrdered, ToldIsKnown, DoneIsApplied, Open
  <2> QED
    BY <2>2, <2>3
<1> QED
  BY <1>1, <1>2, <1>3 DEF IInv, Consistent

LEMMA FocusKeeps ==
    ASSUME IInv, NEW w \in Open \cup {Null}, Focus(w)
    PROVE  IInv'
<1>1. TypeOK'
  BY DEF IInv, TypeOK, Focus, Open, Told, Owe
<1>2. ActiveIsConfigured'
  BY DEF IInv, ActiveIsConfigured, Focus
<1>3. ASSUME NEW x \in Windows PROVE Consistent(x)'
  <2>1. Consistent(x)
    BY DEF IInv, Consistent
  <2>2. CASE x \in {w, focus} \cap Open
    <3>1. owes'[x] = owes[x] \cup {"state", "done"} /\ UNCHANGED <<win, tps, active>>
      BY <2>2 DEF IInv, TypeOK, Focus, Owe
    <3> QED
      BY <2>1, <2>2, <3>1 DEF Consistent, OwedIsOrdered, ToldIsKnown, DoneIsApplied, Open
  <2>3. CASE x \notin {w, focus} \cap Open
    <3>1. owes'[x] = owes[x] /\ UNCHANGED <<win, tps, active>>
      BY <2>3 DEF IInv, TypeOK, Focus, Owe
    <3>2. x \in Open => (focus' = x <=> focus = x)
      BY <2>3 DEF Focus
    <3> QED
      BY <2>1, <3>1, <3>2 DEF Consistent, OwedIsOrdered, ToldIsKnown, DoneIsApplied, Open
  <2> QED
    BY <2>2, <2>3
<1> QED
  BY <1>1, <1>2, <1>3 DEF IInv, Consistent

LEMMA CloseKeeps ==
    ASSUME IInv, NEW S \in SUBSET Open, Close(S)
    PROVE  IInv'
<1>1. TypeOK'
  <2>1. win' \in [Windows -> [state : {"new", "open", "closed"}, title : Names, app_id : Names]]
    BY DEF IInv, TypeOK, Close
  <2>2. owes' \in [Windows -> SUBSET Told]
    BY DEF IInv, TypeOK, Close, Told
  <2>3. focus' \in Open' \cup {Null}
    BY DEF IInv, TypeOK, Close, Open
  <2> QED
    BY <2>1, <2>2, <2>3 DEF IInv, TypeOK, Close
<1>2. ActiveIsConfigured'
  BY DEF IInv, ActiveIsConfigured, Close
<1>3. ASSUME NEW x \in Windows PROVE Consistent(x)'
  <2>1. Consistent(x)
    BY DEF IInv, Consistent
  <2>2. CASE x \in S
    <3>1. /\ win'[x].state = "closed" /\ UNCHANGED <<tps, active>>
          /\ owes'[x] = (owes[x] \cap {"toplevel"}) \cup {"closed"}
      BY <2>2 DEF IInv, TypeOK, Close
    <3> QED
      BY <2>1, <3>1 DEF Consistent, OwedIsOrdered, ToldIsKnown, DoneIsApplied, Open
  <2>3. CASE x \notin S
    <3>1. /\ win'[x] = win[x] /\ owes'[x] = owes[x] /\ UNCHANGED <<tps, active>>
          /\ focus' = x <=> focus = x
      BY <2>3, ToplevelsAssumption DEF IInv, TypeOK, Close
    <3> QED
      BY <2>1, <3>1 DEF Consistent, OwedIsOrdered, ToldIsKnown, DoneIsApplied, Open
  <2> QED
    BY <2>2, <2>3
<1> QED
  BY <1>1, <1>2, <1>3 DEF IInv, Consistent

-----------------------------------------------------------------------------
(* The daemon                                                                *)

(* What an event owed by the compositor leaves of the other windows. *)
LEMMA OthersKept ==
    ASSUME IInv, NEW w \in Windows, NEW what \in Told, Sends(w, what),
           NEW x \in Windows, x # w, tps'[x] = tps[x], active' = x <=> active = x
    PROVE  Consistent(x)'
BY DEF IInv, TypeOK, Sends, Consistent, OwedIsOrdered, ToldIsKnown, DoneIsApplied, Open

LEMMA EventToplevelKeeps ==
    ASSUME IInv, NEW w \in Windows, EventToplevel(w)
    PROVE  IInv'
<1>1. TypeOK'
  BY DEF IInv, TypeOK, EventToplevel, Sends, Open, Told, Toplevel, Absent, Names, Configs
<1>2. tps[w] = Absent
  BY DEF IInv, OwedIsOrdered, EventToplevel, Sends
<1>3. ActiveIsConfigured'
  BY <1>2 DEF IInv, TypeOK, Toplevel, ActiveIsConfigured, EventToplevel, Absent
<1>4. ASSUME NEW x \in Windows PROVE Consistent(x)'
  <2>1. CASE x # w
    BY <2>1, OthersKept DEF IInv, TypeOK, EventToplevel, Told
  <2>2. CASE x = w
    <3>1. Consistent(w)
      BY DEF IInv, Consistent
    <3>2. /\ owes'[w] = owes[w] \ {"toplevel"} /\ "toplevel" \in owes[w]
          /\ tps'[w] = [Absent EXCEPT !.listed = TRUE]
          /\ UNCHANGED <<win, focus, active>>
      BY DEF IInv, TypeOK, EventToplevel, Sends
    <3>3. /\ tps'[w].listed /\ ~tps'[w].ack
          /\ tps'[w].title = tps[w].title /\ tps'[w].app_id = tps[w].app_id
          /\ tps'[w].activated = tps[w].activated
          /\ tps[w].ack = FALSE
      BY <1>2, <3>2 DEF Absent
    <3>4. win[w].state # "new"
      BY <3>1, <3>2 DEF Consistent, OwedIsOrdered
    <3>5. OwedIsOrdered(w)'
      BY <3>1, <3>2, <3>3, <3>4 DEF Consistent, OwedIsOrdered, Open
    <3>6. ToldIsKnown(w)'
      BY <3>1, <3>2, <3>3 DEF Consistent, ToldIsKnown, Open
    <3>7. DoneIsApplied(w)'
      BY <3>1, <3>2, <3>3 DEF Consistent, DoneIsApplied, Open
    <3> QED
      BY <2>2, <3>5, <3>6, <3>7 DEF Consistent
  <2> QED
    BY <2>1, <2>2
<1> QED
  BY <1>1, <1>3, <1>4 DEF IInv, Consistent

LEMMA EventNameKeeps ==
    ASSUME IInv, NEW w \in Windows, NEW field \in {"title", "app_id"}, EventName(w, field)
    PROVE  IInv'
<1> DEFINE tp == [[tps[w] EXCEPT ![field] = win[w][field]] EXCEPT !.ack = FALSE]
<1>1. tps[w] \in Toplevel /\ win[w].title \in Names /\ win[w].app_id \in Names
  BY DEF IInv, TypeOK
<1>2. tps' = [tps EXCEPT ![w] = tp]
  BY DEF IInv, TypeOK, EventName
<1>3. /\ tp \in Toplevel
      /\ ~tp.ack /\ tp.config = tps[w].config
      /\ tp.listed = tps[w].listed /\ tp.activated = tps[w].activated
      /\ tp.title = IF field = "title" THEN win[w].title ELSE tps[w].title
      /\ tp.app_id = IF field = "app_id" THEN win[w].app_id ELSE tps[w].app_id
  <2>1. CASE field = "title"
    BY <1>1, <2>1 DEF Toplevel
  <2>2. CASE field = "app_id"
    BY <1>1, <2>2 DEF Toplevel
  <2> QED
    BY <2>1, <2>2
<1> HIDE DEF tp
<1>4. tps'[w] = tp /\ tps' \in [Windows -> Toplevel]
  BY <1>2, <1>3 DEF IInv, TypeOK
<1>5. TypeOK'
  <2>1. owes' \in [Windows -> SUBSET Told] /\ Open' = Open
    BY DEF IInv, TypeOK, EventName, Sends, Open
  <2> QED
    BY <1>4, <2>1 DEF IInv, TypeOK, EventName, Sends
<1>6. ActiveIsConfigured'
  <2>1. \A x \in Windows : tps'[x].listed = tps[x].listed /\ tps'[x].config = tps[x].config
    BY <1>2, <1>3, <1>4 DEF IInv, TypeOK
  <2> QED
    BY <2>1 DEF IInv, TypeOK, Toplevel, ActiveIsConfigured, EventName
<1>7. ASSUME NEW x \in Windows PROVE Consistent(x)'
  <2>1. CASE x # w
    BY <1>2, <2>1, OthersKept, ZenonT(60) DEF IInv, TypeOK, EventName, Told
  <2>2. CASE x = w
    <3>1. Consistent(w)
      BY DEF IInv, Consistent
    <3>2. /\ owes'[w] = owes[w] \ {field} /\ field \in owes[w] /\ "toplevel" \notin owes[w]
          /\ UNCHANGED <<win, focus, active>>
      BY DEF IInv, TypeOK, EventName, Sends
    <3>3. /\ ~tps'[w].ack
          /\ tps'[w].listed = tps[w].listed /\ tps'[w].activated = tps[w].activated
          /\ tps'[w].title = IF field = "title" THEN win[w].title ELSE tps[w].title
          /\ tps'[w].app_id = IF field = "app_id" THEN win[w].app_id ELSE tps[w].app_id
      BY <1>3, <1>4
    <3>4. win[w].state # "new"
      BY <3>1, <3>2 DEF Consistent, OwedIsOrdered
    <3> QED
      BY <2>2, <3>1, <3>2, <3>3, <3>4 DEF Consistent, OwedIsOrdered, ToldIsKnown,
                                         DoneIsApplied, Open
  <2> QED
    BY <2>1, <2>2
<1> QED
  BY <1>5, <1>6, <1>7 DEF IInv, Consistent

LEMMA EventStateKeeps ==
    ASSUME IInv, NEW w \in Windows, EventState(w)
    PROVE  IInv'
<1>1. TypeOK'
  <2>1. [tps[w] EXCEPT !.activated = (focus = w)] \in Toplevel
    BY DEF IInv, TypeOK, Toplevel
  <2>2. tps' \in [Windows -> Toplevel]
    BY <2>1 DEF IInv, TypeOK, EventState
  <2>3. owes' \in [Windows -> SUBSET Told] /\ Open' = Open
    BY DEF IInv, TypeOK, EventState, Sends, Open
  <2> QED
    BY <2>2, <2>3 DEF IInv, TypeOK, EventState, Sends
<1>2. ActiveIsConfigured'
  BY DEF IInv, TypeOK, Toplevel, ActiveIsConfigured, EventState
<1>3. ASSUME NEW x \in Windows PROVE Consistent(x)'
  <2>1. CASE x # w
    BY <2>1, OthersKept DEF IInv, TypeOK, EventState, Told
  <2>2. CASE x = w
    <3>1. Consistent(w)
      BY DEF IInv, Consistent
    <3>2. /\ owes'[w] = owes[w] \ {"state"} /\ "state" \in owes[w] /\ "toplevel" \notin owes[w]
          /\ tps'[w] = [tps[w] EXCEPT !.activated = (focus = w)]
          /\ UNCHANGED <<win, focus, active>>
      BY DEF IInv, TypeOK, EventState, Sends
    <3>3. Lookup(tps'[w]) = Lookup(tps[w])
      BY <3>2, LookupOfNames DEF IInv, TypeOK, Toplevel
    <3>4. win[w].state # "new"
      BY <3>1, <3>2 DEF Consistent, OwedIsOrdered
    <3> QED
      BY <2>2, <3>1, <3>2, <3>3, <3>4 DEF IInv, TypeOK, Toplevel, Consistent,
                                         OwedIsOrdered, ToldIsKnown, DoneIsApplied, Open
  <2> QED
    BY <2>1, <2>2
<1> QED
  BY <1>1, <1>2, <1>3 DEF IInv, Consistent

(* When a window is done all of it is known, also whether it has the focus. *)
LEMMA EventDoneKeeps ==
    ASSUME IInv, NEW w \in Windows, EventDone(w)
    PROVE  IInv'
<1> DEFINE tp == IF tps[w].ack THEN tps[w]
                 ELSE [tps[w] EXCEPT !.config = Lookup(tps[w]), !.ack = TRUE]
<1>1. /\ owes[w] = {"done"} /\ owes'[w] = {} /\ w \in Open
      /\ UNCHANGED <<win, focus>>
  BY DEF IInv, TypeOK, OwedIsOrdered, EventDone, Sends, Open
<1>2. tps' = [tps EXCEPT ![w] = tp] /\ active' = ActiveAfter(w, tp)
  BY DEF EventDone
<1>3. Consistent(w)
  BY DEF IInv, Consistent
<1>4. tps[w] \in Toplevel
  BY DEF IInv, TypeOK
<1>5. Lookup(tps[w]) \in Configs
  BY <1>4, LookupIsTyped DEF Toplevel
<1>6. /\ tp \in Toplevel
      /\ tp.title = tps[w].title /\ tp.app_id = tps[w].app_id
      /\ tp.listed = tps[w].listed /\ tp.activated = tps[w].activated
      /\ tp.ack /\ tp.config = Lookup(tps[w])
  BY <1>3, <1>4, <1>5 DEF Consistent, DoneIsApplied, Toplevel
<1>7. tp.listed /\ tp.activated = (focus = w)
  BY <1>1, <1>3, <1>6 DEF Consistent, OwedIsOrdered, ToldIsKnown
<1>8. Lookup(tp) = tp.config
  BY <1>6, LookupOfNames
<1> HIDE DEF tp
<1>9. tps'[w] = tp /\ (active' = w <=> tp.activated /\ tp.config # Null)
  BY <1>2, <1>6, ToplevelsAssumption DEF ActiveAfter, IInv, TypeOK
<1>10. TypeOK'
  <2>1. owes' \in [Windows -> SUBSET Told] /\ Open' = Open
    BY <1>1 DEF IInv, TypeOK, EventDone, Sends, Open
  <2>2. active' \in Windows \cup {Null}
    BY <1>2 DEF ActiveAfter, IInv, TypeOK
  <2> QED
    BY <1>1, <1>2, <1>6, <2>1, <2>2 DEF IInv, TypeOK
<1>11. ActiveIsConfigured'
  <2>1. CASE active' = w
    BY <1>7, <1>9, <2>1 DEF ActiveIsConfigured
  <2>2. CASE active' # w
    <3>1. active' \in {active, Null}
      BY <1>2, <2>2 DEF ActiveAfter
    <3>2. active' # Null => tps'[active'] = tps[active']
      BY <1>2, <2>2, <3>1 DEF IInv, TypeOK
    <3> QED
      BY <3>1, <3>2 DEF IInv, ActiveIsConfigured
  <2> QED
    BY <2>1, <2>2
<1>12. ASSUME NEW x \in Windows PROVE Consistent(x)'
  <2>1. CASE x # w
    <3>1. tps'[x] = tps[x] /\ owes'[x] = owes[x]
      BY <1>2, <2>1 DEF IInv, TypeOK, EventDone, Sends
    <3>2. Consistent(x)
      BY DEF IInv, Consistent
    <3>3. CASE tp.activated /\ tp.config # Null
      <4>1. focus = w /\ active' = w
        BY <1>7, <1>9, <3>3
      <4>2. x \in Open /\ "done" \notin owes[x] => active # x
        BY <2>1, <3>2, <4>1 DEF Consistent, OwedIsOrdered, ToldIsKnown, DoneIsApplied
      <4> QED
        BY <1>1, <2>1, <3>1, <3>2, <4>1, <4>2
           DEF Consistent, OwedIsOrdered, ToldIsKnown, DoneIsApplied, Open
    <3>4. CASE ~(tp.activated /\ tp.config # Null)
      <4>1. active' = x <=> active = x
        BY <1>2, <2>1, <3>4, ToplevelsAssumption DEF ActiveAfter
      <4> QED
        BY <1>1, <3>1, <3>2, <4>1
           DEF Consistent, OwedIsOrdered, ToldIsKnown, DoneIsApplied, Open
    <3> QED
      BY <3>3, <3>4
  <2>2. CASE x = w
    <3>1. tps'[w] = tp /\ win'[w] = win[w] /\ win[w].state = "open" /\ focus' = focus
      BY <1>1, <1>9 DEF Open
    <3>2. OwedIsOrdered(w)'
      BY <1>1, <1>7, <3>1 DEF OwedIsOrdered
    <3>3. ToldIsKnown(w)'
      BY <1>1, <1>3, <1>6, <1>7, <3>1 DEF Consistent, ToldIsKnown
    <3>4. DoneIsApplied(w)'
      BY <1>6, <1>8, <1>9, <3>1 DEF DoneIsApplied
    <3> QED
      BY <2>2, <3>2, <3>3, <3>4 DEF Consistent
  <2> QED
    BY <2>1, <2>2
<1> QED
  BY <1>10, <1>11, <1>12 DEF IInv, Consistent

LEMMA EventClosedKeeps ==
    ASSUME IInv, NEW w \in Windows, EventClosed(w)
    PROVE  IInv'
<1>1. /\ "closed" \in owes[w] /\ "toplevel" \notin owes[w]
      /\ owes'[w] = owes[w] \ {"closed"}
      /\ tps' = [tps EXCEPT ![w] = Absent]
      /\ active' = IF active = w THEN Null ELSE active
      /\ UNCHANGED <<win, focus>>
  BY DEF IInv, TypeOK, EventClosed, Sends, ActiveWithout
<1>2. TypeOK'
  BY <1>1 DEF IInv, TypeOK, EventClosed, Sends, Open, Told, Toplevel, Absent, Names, Configs
<1>3. ActiveIsConfigured'
  BY <1>1 DEF IInv, TypeOK, ActiveIsConfigured
<1>4. ASSUME NEW x \in Windows PROVE Consistent(x)'
  <2>1. CASE x # w
    <3>1. tps'[x] = tps[x] /\ (active' = x <=> active = x)
      BY <1>1, <2>1, ToplevelsAssumption DEF IInv, TypeOK
    <3> QED
      BY <2>1, <3>1, OthersKept DEF EventClosed, Told
  <2>2. CASE x = w
    <3>1. Consistent(w) /\ tps'[w] = Absent /\ ~Absent.listed /\ ~Absent.ack
      BY <1>1 DEF IInv, TypeOK, Consistent, Absent
    <3>2. win[w].state = "closed"
      BY <1>1, <3>1 DEF IInv, TypeOK, Consistent, OwedIsOrdered, Open
    <3>3. owes'[w] = {}
      BY <1>1, <3>1, <3>2 DEF IInv, TypeOK, Told, Consistent, OwedIsOrdered
    <3> QED
      BY <1>1, <2>2, <3>1, <3>2, <3>3
         DEF Consistent, OwedIsOrdered, ToldIsKnown, DoneIsApplied, Open
  <2> QED
    BY <2>1, <2>2
<1> QED
  BY <1>2, <1>3, <1>4 DEF IInv, Consistent

-----------------------------------------------------------------------------

LEMMA NextKeeps == IInv /\ [Next]_vars => IInv'
<1> SUFFICES ASSUME IInv, [Next]_vars PROVE IInv'
  OBVIOUS
<1>1. ASSUME NEW w \in Windows, Compositor(w) PROVE IInv'
  <2>1. CASE OpenWindow(w)
    BY <2>1, OpenWindowKeeps
  <2>2. CASE w \in Open /\ Focus(w)
    BY <2>2, FocusKeeps
  <2>3. CASE w \in Open /\ Close({w})
    BY <2>3, CloseKeeps
  <2>4. ASSUME NEW t \in Titles, Rename(w, "title", t) PROVE IInv'
    BY <2>4, RenameKeeps DEF Names
  <2>5. ASSUME NEW a \in AppIds, Rename(w, "app_id", a) PROVE IInv'
    BY <2>5, RenameKeeps DEF Names
  <2> QED
    BY <1>1, <2>1, <2>2, <2>3, <2>4, <2>5 DEF Compositor
<1>2. ASSUME NEW w \in Windows, Event(w) PROVE IInv'
  BY <1>2, EventToplevelKeeps, EventNameKeeps, EventStateKeeps, EventDoneKeeps,
     EventClosedKeeps DEF Event
<1>3. CASE Focus(Null)
  BY <1>3, FocusKeeps
<1>4. CASE Close(Open)
  BY <1>4, CloseKeeps
<1>5. CASE UNCHANGED vars
  BY <1>5 DEF vars, IInv, TypeOK, ActiveIsConfigured, OwedIsOrdered, ToldIsKnown,
              DoneIsApplied, Open
<1> QED
  BY <1>1, <1>2, <1>3, <1>4, <1>5 DEF Next

(* IInv is an invariant: what the daemon knows of a window is what the          *)
(* compositor has, but for the events still owed.  (ftp_listener)              *)
THEOREM Inductive == Spec => []IInv
BY InitEstablishes, NextKeeps, PTL DEF Spec

(* The active window always exists and has a configuration: the assertion of   *)
(* data_offer_event_offer holds whatever events come in which order.           *)
THEOREM ActiveIsAlwaysConfigured == Spec => []ActiveIsConfigured
<1>1. IInv => ActiveIsConfigured
  BY DEF IInv
<1> QED
  BY <1>1, Inductive, PTL

(* Whenever the compositor has said all there is to say, the active window is   *)
(* the focused one, if the configuration has a table for it.  (ftp_event_done)  *)
THEOREM ActiveIsTheFocused == Spec => []ActiveIsFocused
<1>1. IInv => ActiveIsFocused
  <2> SUFFICES ASSUME IInv, AtRest
               PROVE  active = IF focus # Null /\ Lookup(win[focus]) # Null THEN focus ELSE Null
    BY DEF ActiveIsFocused
  <2>1. ASSUME NEW w \in Open
        PROVE  /\ active = w <=> focus = w /\ Lookup(win[w]) # Null
    <3>1. w \in Windows /\ owes[w] = {}
      BY DEF AtRest, Open
    <3>2. /\ tps[w].title = win[w].title /\ tps[w].app_id = win[w].app_id
          /\ tps[w].activated = (focus = w) /\ tps[w].config = Lookup(tps[w])
          /\ active = w <=> tps[w].activated /\ tps[w].config # Null
      BY <3>1 DEF IInv, ToldIsKnown, DoneIsApplied
    <3> QED
      BY <3>2, LookupOfNames
  <2>2. active # Null => active \in Open
    <3>1. ASSUME NEW w \in Windows, tps[w].listed PROVE w \in Open
      BY <3>1 DEF IInv, TypeOK, OwedIsOrdered, AtRest, Absent, Open
    <3> QED
      BY <3>1 DEF IInv, TypeOK, ActiveIsConfigured
  <2>3. focus # Null => focus \in Open
    BY DEF IInv, TypeOK
  <2> QED
    BY <2>1, <2>2, <2>3
<1> QED
  BY <1>1, Inductive, PTL

-----------------------------------------------------------------------------
(* The mime types of a selection.  T is the set of those offered so far.       *)

Seat == [blocked : BOOLEAN, transient : BOOLEAN, keep : BOOLEAN, mimes : SUBSET Mimes]

Passed(T) == {m \in T : Passes(m, Global)}
Kept(T)   == {m \in Passed(T) : Passes(m, LocalFilter)}
Blocks(T) == T \cap Global.blocked # {} \/ Passed(T) \cap LocalFilter.blocked # {}
Hides(T)  == T \cap Global.transient # {} \/ Passed(T) \cap LocalFilter.transient # {}

(* What the seat knows of them.  Once it is blocked, the rest does not count.  *)
Knows(seat, T) ==
    /\ seat \in Seat
    /\ seat.blocked <=> Blocks(T)
    /\ ~Blocks(T) => seat.mimes = Kept(T) /\ (seat.transient <=> Hides(T))

(* One more type and what it does to the four sets. *)
LEMMA OneMoreType ==
    ASSUME NEW T, NEW m
    PROVE  /\ Blocks(T \cup {m}) <=>
                  \/ Blocks(T) \/ m \in Global.blocked
                  \/ Passes(m, Global) /\ m \in LocalFilter.blocked
           /\ Hides(T \cup {m}) <=>
                  \/ Hides(T) \/ m \in Global.transient
                  \/ Passes(m, Global) /\ m \in LocalFilter.transient
           /\ Kept(T \cup {m}) = IF Passes(m, Global) /\ Passes(m, LocalFilter)
                                 THEN Kept(T) \cup {m} ELSE Kept(T)
<1>1. Passed(T \cup {m}) = IF Passes(m, Global) THEN Passed(T) \cup {m} ELSE Passed(T)
  BY DEF Passed
<1>2. Kept(T \cup {m}) = IF Passes(m, Global) /\ Passes(m, LocalFilter)
                         THEN Kept(T) \cup {m} ELSE Kept(T)
  BY <1>1 DEF Kept
<1> QED
  BY <1>1, <1>2 DEF Blocks, Hides

(* seat_check_mime_type *)
LEMMA CheckDoes ==
    ASSUME NEW seat \in Seat, NEW m, NEW filter
    PROVE  LET c == Check(seat, m, filter)
           IN  /\ c \in Seat /\ c.mimes = seat.mimes
               /\ c.blocked <=> seat.blocked \/ m \in filter.blocked
               /\ c.keep <=> ~c.blocked /\ Passes(m, filter)
               /\ ~c.blocked => (c.transient <=> seat.transient \/ m \in filter.transient)
<1>1. CASE seat.blocked
  BY <1>1 DEF Check, Seat
<1>2. CASE ~seat.blocked /\ m \in filter.blocked
  BY <1>2 DEF Check, Seat
<1>3. CASE ~seat.blocked /\ m \notin filter.blocked
  <2> DEFINE tr == seat.transient \/ m \in filter.transient
             kp == filter.allowed = {} \/ m \in filter.allowed
  <2>1. tr \in BOOLEAN /\ kp \in BOOLEAN
    OBVIOUS
  <2>2. Check(seat, m, filter) = [seat EXCEPT !.transient = tr, !.keep = kp]
    BY <1>3 DEF Check
  <2>3. kp <=> Passes(m, filter)
    BY DEF Passes
  <2> HIDE DEF tr, kp
  <2>4. LET c == Check(seat, m, filter)
        IN  c \in Seat /\ c.mimes = seat.mimes /\ c.blocked = seat.blocked /\ c.keep = kp /\ c.transient = tr
    BY <2>1, <2>2 DEF Seat
  <2> QED
    BY <1>3, <2>3, <2>4 DEF tr
<1> QED
  BY <1>1, <1>2, <1>3

(* data_offer_event_offer *)
LEMMA OfferedKnows ==
    ASSUME NEW seat, NEW T, NEW m \in Mimes, Knows(seat, T)
    PROVE  Knows(Offered(seat, m), T \cup {m})
<1> DEFINE g == Check(seat, m, Global)
           l == IF active = Null \/ ~g.keep THEN g
                ELSE Check(g, m, Configured[tps[active].config].filter)
           o == IF l.keep THEN [l EXCEPT !.mimes = @ \cup {m}] ELSE l
<1>1. Offered(seat, m) = o
  BY DEF Offered
<1>2. seat \in Seat
  BY DEF Knows
<1>3. /\ g \in Seat /\ g.mimes = seat.mimes
      /\ g.blocked <=> seat.blocked \/ m \in Global.blocked
      /\ g.keep <=> ~g.blocked /\ Passes(m, Global)
      /\ ~g.blocked => (g.transient <=> seat.transient \/ m \in Global.transient)
  BY <1>2, CheckDoes
<1> HIDE DEF g
<1>4. CASE ~g.keep
  <2>1. Offered(seat, m) = g
    BY <1>1, <1>4
  <2>2. g.blocked \/ ~Passes(m, Global)
    BY <1>3, <1>4
  <2>3. g.blocked <=> Blocks(T \cup {m})
    BY <1>3, <2>2, OneMoreType DEF Knows
  <2>4. ASSUME ~Blocks(T \cup {m})
        PROVE  g.mimes = Kept(T \cup {m}) /\ (g.transient <=> Hides(T \cup {m}))
    <3>1. ~g.blocked /\ ~Passes(m, Global) /\ ~Blocks(T)
      BY <2>2, <2>3, <2>4, OneMoreType
    <3>2. Kept(T \cup {m}) = Kept(T) /\ (Hides(T \cup {m}) <=> Hides(T) \/ m \in Global.transient)
      BY <3>1, OneMoreType
    <3> QED
      BY <1>3, <3>1, <3>2 DEF Knows
  <2> QED
    BY <1>3, <2>1, <2>3, <2>4 DEF Knows
<1>5. CASE g.keep
  <2>1. /\ l \in Seat /\ l.mimes = seat.mimes
        /\ l.blocked <=> m \in LocalFilter.blocked
        /\ l.keep <=> ~l.blocked /\ Passes(m, LocalFilter)
        /\ ~l.blocked => (l.transient <=> g.transient \/ m \in LocalFilter.transient)
    <3>1. CASE active = Null
      <4>1. l = g
        BY <3>1
      <4>2. LocalFilter.blocked = {} /\ LocalFilter.transient = {} /\ Passes(m, LocalFilter)
        BY <3>1 DEF LocalFilter, NoFilter, Passes
      <4> QED
        BY <1>3, <1>5, <4>1, <4>2
    <3>2. CASE active # Null
      <4>1. l = Check(g, m, LocalFilter)
        BY <1>5, <3>2 DEF LocalFilter
      <4>2. /\ l \in Seat /\ l.mimes = g.mimes
            /\ l.blocked <=> g.blocked \/ m \in LocalFilter.blocked
            /\ l.keep <=> ~l.blocked /\ Passes(m, LocalFilter)
            /\ ~l.blocked => (l.transient <=> g.transient \/ m \in LocalFilter.transient)
        <5> HIDE DEF l
        <5> QED
          BY <1>3, <4>1, CheckDoes
      <4> HIDE DEF l
      <4> QED
        BY <1>3, <1>5, <4>2
    <3> QED
      BY <3>1, <3>2
  <2> HIDE DEF l
  <2>2. /\ o \in Seat /\ o.blocked = l.blocked /\ o.transient = l.transient
        /\ o.mimes = IF l.keep THEN seat.mimes \cup {m} ELSE seat.mimes
    BY <2>1 DEF Seat
  <2> HIDE DEF o
  <2>3. /\ Blocks(T \cup {m}) <=> Blocks(T) \/ m \in LocalFilter.blocked
        /\ ~Blocks(T) /\ ~seat.blocked /\ m \notin Global.blocked
    <3>1. ~seat.blocked /\ m \notin Global.blocked /\ Passes(m, Global)
      BY <1>3, <1>5
    <3> QED
      BY <3>1, OneMoreType DEF Knows
  <2>4. o.blocked <=> Blocks(T \cup {m})
    BY <2>1, <2>2, <2>3
  <2>5. ASSUME ~Blocks(T \cup {m})
        PROVE  o.mimes = Kept(T \cup {m}) /\ (o.transient <=> Hides(T \cup {m}))
    <3>1. ~l.blocked /\ Passes(m, Global)
      BY <1>3, <1>5, <2>2, <2>4, <2>5
    <3>2. seat.mimes = Kept(T) /\ (seat.transient <=> Hides(T))
      BY <2>3 DEF Knows
    <3>3. Kept(T \cup {m}) = IF Passes(m, LocalFilter) THEN Kept(T) \cup {m} ELSE Kept(T)
      BY <3>1, OneMoreType
    <3>4. o.mimes = Kept(T \cup {m})
      BY <2>1, <2>2, <3>1, <3>2, <3>3
    <3>5. Hides(T \cup {m}) <=> Hides(T) \/ m \in Global.transient \/ m \in LocalFilter.transient
      BY <3>1, OneMoreType
    <3>6. o.transient <=> Hides(T) \/ m \in Global.transient \/ m \in LocalFilter.transient
      BY <1>3, <1>5, <2>1, <2>2, <3>1, <3>2
    <3> QED
      BY <3>4, <3>5, <3>6
  <2> QED
    BY <1>1, <2>2, <2>4, <2>5 DEF Knows
<1> QED
  BY <1>4, <1>5

(* The seat after n of the types of a selection; there is such a function,     *)
(* since a shorter one can be continued.                                      *)
Goes(seat, mimes, n) ==
    seat = [i \in 0 .. n |-> IF i = 0 THEN NewOffer ELSE Offered(seat[i - 1], mimes[i])]

LEMMA SeatGoes ==
    ASSUME NEW mimes, NEW n \in Nat
    PROVE  \E seat : Goes(seat, mimes, n)
<1> DEFINE B == {k \in Nat : ~ \E seat : Goes(seat, mimes, k)}
<1>1. SUFFICES B = {}
  OBVIOUS
<1>2. SUFFICES ASSUME B # {} PROVE FALSE
  OBVIOUS
<1>3. PICK k \in B : \A j \in B : k <= j
  BY <1>2, LeastNatural
<1>4. CASE k = 0
  <2> DEFINE seat == [i \in 0 .. 0 |-> NewOffer]
  <2>1. Goes(seat, mimes, 0)
    BY DEF Goes
  <2> QED
    BY <1>3, <1>4, <2>1
<1>5. CASE k # 0
  <2>1. k \in Nat /\ k - 1 \in Nat /\ k - 1 \notin B
    BY <1>3, <1>5
  <2>2. PICK g : Goes(g, mimes, k - 1)
    BY <2>1
  <2> DEFINE seat == [i \in 0 .. k |-> IF i = k THEN Offered(g[k - 1], mimes[k]) ELSE g[i]]
  <2>3. \A i \in 0 .. k - 1 : g[i] = IF i = 0 THEN NewOffer ELSE Offered(g[i - 1], mimes[i])
    BY <2>2 DEF Goes
  <2>4. \A i \in 0 .. k : seat[i] = IF i = k THEN Offered(g[k - 1], mimes[k]) ELSE g[i]
    OBVIOUS
  <2>5. seat = [i \in 0 .. k |-> seat[i]]
    OBVIOUS
  <2> HIDE DEF seat
  <2>6. ASSUME NEW i \in 0 .. k
        PROVE  seat[i] = IF i = 0 THEN NewOffer ELSE Offered(seat[i - 1], mimes[i])
    <3>1. CASE i = k
      <4>1. k - 1 \in 0 .. k /\ k - 1 # k
        BY <1>5, <2>1
      <4>2. seat[k - 1] = g[k - 1]
        BY <2>4, <4>1
      <4> QED
        BY <1>5, <2>4, <3>1, <4>2
    <3>2. CASE i # k /\ i # 0
      <4>1. i \in 0 .. k - 1 /\ i - 1 \in 0 .. k /\ i - 1 # k
        BY <2>1, <3>2
      <4>2. seat[i - 1] = g[i - 1] /\ seat[i] = g[i]
        BY <2>4, <3>2, <4>1
      <4> QED
        BY <2>3, <3>2, <4>1, <4>2
    <3>3. CASE i # k /\ i = 0
      <4>1. seat[0] = g[0] /\ 0 \in 0 .. k - 1
        BY <2>1, <2>4, <3>3
      <4> QED
        BY <2>3, <3>3, <4>1
    <3> QED
      BY <3>1, <3>2, <3>3
  <2>7. Goes(seat, mimes, k)
    BY <2>5, <2>6 DEF Goes
  <2> QED
    BY <1>3, <2>7
<1> QED
  BY <1>4, <1>5

LEMMA SeatKnows ==
    ASSUME NEW n \in Nat, NEW mimes \in [1 .. n -> Mimes]
    PROVE  Knows(SeatAfter(mimes), ToSet(mimes))
<1> DEFINE f == CHOOSE seat : Goes(seat, mimes, n)
           T(i) == {mimes[j] : j \in 1 .. i}
<1>1. Len(mimes) = n
  OBVIOUS
<1>2. SeatAfter(mimes) = f[n]
  BY <1>1 DEF SeatAfter, Goes
<1>3. Goes(f, mimes, n)
  BY SeatGoes
<1> HIDE DEF f
<1>4. \A i \in 0 .. n : f[i] = IF i = 0 THEN NewOffer ELSE Offered(f[i - 1], mimes[i])
  BY <1>3 DEF Goes
<1> DEFINE B == {i \in 0 .. n : ~Knows(f[i], T(i))}
<1>5. ASSUME B # {} PROVE FALSE
  <2>1. PICK k \in B : \A j \in B : k <= j
    <3>1. B \in SUBSET Nat
      OBVIOUS
    <3> QED
      BY <1>5, <3>1, LeastNatural
  <2>2. CASE k = 0
    <3>1. f[0] = NewOffer /\ T(0) = {}
      BY <1>4
    <3>2. Knows(NewOffer, {})
      BY DEF Knows, NewOffer, Seat, Blocks, Hides, Kept, Passed
    <3> QED
      BY <2>1, <2>2, <3>1, <3>2
  <2>3. CASE k # 0
    <3>1. k - 1 \in 0 .. n /\ k \in 1 .. n /\ ~(k <= k - 1)
      <4>1. k \in 0 .. n
        BY <2>1
      <4> QED
        BY <2>3, <4>1
    <3>2. Knows(f[k - 1], T(k - 1)) /\ mimes[k] \in Mimes
      <4>1. k - 1 \notin B
        BY <2>1, <3>1
      <4> QED
        BY <3>1, <4>1
    <3>3. f[k] = Offered(f[k - 1], mimes[k])
      BY <1>4, <3>1
    <3>4. T(k) = T(k - 1) \cup {mimes[k]}
      BY <3>1
    <3> HIDE DEF T
    <3>5. Knows(f[k], T(k))
      BY <3>2, <3>3, <3>4, OfferedKnows
    <3> QED
      BY <2>1, <3>5
  <2> QED
    BY <2>2, <2>3
<1>6. Knows(f[n], T(n))
  <2>1. n \in 0 .. n
    OBVIOUS
  <2>2. B = {}
    BY <1>5
  <2>3. n \notin B
    <3> HIDE DEF B
    <3> QED
      BY <2>2
  <2> QED
    BY <2>1, <2>3
<1>7. T(n) = ToSet(mimes)
  BY DEF ToSet
<1> QED
  BY <1>2, <1>6, <1>7

(* What is stored of a selection is what the two filters say of the set of its *)
(* mime types, in whichever order and however many they are: the flags that    *)
(* the seat keeps from one type to the next make no difference.                *)
(* (seat_check_mime_type, data_offer_event_offer)                             *)
THEOREM StoredIsAlwaysFiltered == Spec => []StoredIsFiltered
<1>1. StoredIsFiltered
  <2> SUFFICES ASSUME NEW mimes \in Offers, NEW S, S = ToSet(mimes)
               PROVE  Copied(mimes) =
                        IF Blocks(S) \/ Kept(S) = {}
                        THEN [where |-> "nowhere", mimes |-> {}]
                        ELSE [where |-> IF Hides(S) THEN "memory" ELSE "history", mimes |-> Kept(S)]
    BY DEF StoredIsFiltered, Blocks, Kept, Passed, Hides
  <2>1. PICK n \in Nat : mimes \in [1 .. n -> Mimes]
    BY DEF Offers, SeqOf
  <2>2. Knows(SeatAfter(mimes), S)
    BY <2>1, SeatKnows
  <2> QED
    BY <2>2 DEF Copied, Stored, Knows
<1> QED
  BY <1>1, PTL

=============================================================================
