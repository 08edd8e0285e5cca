----------------------------- MODULE Transfers -----------------------------
(***************************************************************************)
(* The bytes of a selection on their way through the daemon, in pieces:    *)
(* io_read (common/io.c) takes them from the copying application, in one    *)
(* blocking call inside wsignal_selection; wsignal_send and write_callback *)
(* (daemon/main.c) give them to the applications that paste, whenever the  *)
(* loop finds room in their pipes.  Between two calls of write_callback    *)
(* the entry may be deleted or trimmed and the transient data replaced.    *)
(*                                                                         *)
(* A selection has one mime type, contents are numbered in the order they  *)
(* were offered, and a unit of a content is <<content, position>>.  What   *)
(* else the selection does to the history is in ClipHistory; here a row of *)
(* table Data comes, and may go at any time.                               *)
(***************************************************************************)
EXTENDS Integers, FiniteSets, SequencesExt

CONSTANTS Apps,        \* applications that paste, once each
          NoApp,
          MaxOffers,   \* bound on the selections offered
          MaxBytes,    \* config.max_size
          BufSize,     \* sizeof(ctx->buf) and sizeof(state->buf)
          PipeSize

ASSUME TransfersAssumption ==
    /\ NoApp \notin Apps
    /\ {MaxOffers, MaxBytes, BufSize, PipeSize} \subseteq Nat \ {0}

VARIABLES id,       \* state.id: -1, 0 for the transient data, or a content
          heap,     \* state.transient: a content and its length, or Empty
          data,     \* rows of table Data: content -> length
          offers,   \* selections offered so far
          source,   \* the copying application's end of the pipe
          reading,  \* locals of wsignal_selection and io_read, or NotReading
          pastes,   \* struct send_context of each application, and its pipe
          serving   \* the application whose write_callback runs

vars == <<id, heap, data, offers, source, reading, pastes, serving>>

Empty == [content |-> 0, len |-> 0]
NotReading == [content |-> 0, transient |-> FALSE, got |-> 0]
Garbage == <<0, 0>>
Contents == 1 .. MaxOffers

Whole(content, len) == [i \in 1 .. len |-> <<content, i>>]

Init ==
    /\ id = -1 /\ heap = Empty /\ data = <<>> /\ offers = 0
    /\ source = [written |-> 0, open |-> FALSE]
    /\ reading = NotReading
    /\ pastes = [a \in Apps |->
                    [state |-> "none",  \* none, sending, closed
                     content |-> 0, blob |-> FALSE,
                     sz |-> 0, off |-> 0, remaining |-> 0,
                     sent |-> <<>>,     \* what went into the pipe
                     got |-> 0,         \* how much of it the application read
                     open |-> TRUE]]
    /\ serving = NoApp

Idle == reading = NotReading /\ serving = NoApp

-----------------------------------------------------------------------------
(* The copying application                                                   *)

SourceWrites ==
    /\ reading # NotReading /\ source.open /\ source.written - reading.got < PipeSize
    /\ source' = [source EXCEPT !.written = @ + 1]
    /\ UNCHANGED <<id, heap, data, offers, reading, pastes, serving>>

SourceCloses ==
    /\ reading # NotReading /\ source.open
    /\ source' = [source EXCEPT !.open = FALSE]
    /\ UNCHANGED <<id, heap, data, offers, reading, pastes, serving>>

-----------------------------------------------------------------------------
(* wsignal_selection and io_read                                             *)

(* clear_transient, then receive_data: the pipe of wayland_get_offer_fd.       *)
Selection ==
    /\ Idle /\ offers < MaxOffers
    /\ offers' = offers + 1
    /\ heap' = Empty
    /\ source' = [written |-> 0, open |-> TRUE]
    /\ \E transient \in BOOLEAN :
          /\ reading' = [content |-> offers + 1, transient |-> transient, got |-> 0]
          /\ id' = IF transient THEN -1 ELSE id
    /\ UNCHANGED <<data, pastes, serving>>

(* BEGIN fails: the transient data are gone, the current entry is what it was. *)
SelectionFails ==
    /\ Idle /\ offers < MaxOffers
    /\ offers' = offers + 1
    /\ heap' = Empty
    /\ UNCHANGED <<id, data, source, reading, pastes, serving>>

Available == source.written - reading.got
Chunk == Min({BufSize, Available})
TooLarge == reading.got + Chunk > MaxBytes

ReadChunk ==
    /\ reading # NotReading /\ Available > 0 /\ ~TooLarge
    /\ reading' = [reading EXCEPT !.got = @ + Chunk]
    /\ UNCHANGED <<id, heap, data, offers, source, pastes, serving>>

AtEnd == Available = 0 /\ ~source.open
Ended_Blind == Available = 0 /\ reading.got > 0

(* End of file after some data.  A pipe closed empty has a hang-up and nothing  *)
(* to read.                                                                  *)
Ended == AtEnd /\ reading.got > 0

(* Nothing for three seconds, too much, or nothing at all.                    *)
TimedOut == Available = 0 /\ source.open
GivesUp_Patient == (Available > 0 /\ TooLarge) \/ (AtEnd /\ reading.got = 0)
ReadGivesUp == TimedOut \/ (Available > 0 /\ TooLarge) \/ (AtEnd /\ reading.got = 0)

(* clear_transient, or ROLLBACK; nothing is current after it.                  *)
Failed == id' = -1 /\ heap' = Empty /\ UNCHANGED data

ReadFails ==
    /\ reading # NotReading /\ ReadGivesUp
    /\ Failed
    /\ reading' = NotReading
    /\ UNCHANGED <<offers, source, pastes, serving>>

StoreTransient ==
    /\ reading.transient
    /\ heap' = [content |-> reading.content, len |-> reading.got]
    /\ id' = 0
    /\ UNCHANGED data

(* COMMIT of a new entry.                                                    *)
StoreEntry ==
    /\ ~reading.transient
    /\ data' = [c \in DOMAIN data \cup {reading.content} |->
                   IF c = reading.content THEN reading.got ELSE data[c]]
    /\ id' = reading.content
    /\ UNCHANGED heap

(* The content of an earlier entry: ignored, or that entry is moved.           *)
StoreDuplicate ==
    /\ ~reading.transient
    /\ \E c \in DOMAIN data : data[c] = reading.got /\ id' \in {id, c}
    /\ UNCHANGED <<data, heap>>

ReadSucceeds ==
    /\ reading # NotReading /\ Ended
    /\ StoreTransient \/ StoreEntry \/ StoreDuplicate
    /\ reading' = NotReading
    /\ UNCHANGED <<offers, source, pastes, serving>>

Receive == ReadChunk \/ ReadFails \/ ReadSucceeds

-----------------------------------------------------------------------------
(* Requests, and database_trim at the end of the handlers                    *)

SetClipboard ==
    /\ Idle /\ id' \in DOMAIN data \cup {-1}
    /\ UNCHANGED <<heap, data, offers, source, reading, pastes, serving>>

(* Rows are deleted: by a request, which clears the clipboard if they are what  *)
(* it is set to, or by trimming, which leaves it.                            *)
RemoveRows ==
    /\ Idle
    /\ \E gone \in SUBSET DOMAIN data \ {{}} :
          /\ data' = [c \in DOMAIN data \ gone |-> data[c]]
          /\ id' \in {id} \cup (IF id \in gone THEN {-1} ELSE {})
    /\ UNCHANGED <<heap, offers, source, reading, pastes, serving>>

-----------------------------------------------------------------------------
(* wsignal_send and write_callback                                           *)

Closed(a) == [pastes EXCEPT ![a].state = "closed"]

(* send_context_free and the end of the callback                              *)
End(a) == pastes' = Closed(a) /\ serving' = NoApp

(* The send context: an open blob, read a buffer at a time, or a pointer into   *)
(* the transient data.                                                       *)
SendBegins(a) ==
    LET blob    == id \in DOMAIN data
        content == IF blob THEN id ELSE heap.content
    IN /\ blob \/ (id = 0 /\ heap # Empty)
       /\ pastes' = [pastes EXCEPT ![a].state = "sending", ![a].content = content, ![a].blob = blob,
                                   ![a].sz = IF blob THEN data[id] ELSE heap.len,
                                   ![a].remaining = IF blob THEN 0 ELSE heap.len]

(* Nothing is current, its data are gone, or memory is: fail, close(fd).        *)
Send(a) ==
    /\ Idle /\ pastes[a].state = "none"
    /\ SendBegins(a) \/ pastes' = Closed(a)
    /\ UNCHANGED <<id, heap, data, offers, source, reading, serving>>

Room(a) == PipeSize - (Len(pastes[a].sent) - pastes[a].got)

(* EPOLLOUT or EPOLLERR *)
WriteBegins(a) ==
    /\ Idle /\ pastes[a].state = "sending"
    /\ Room(a) > 0 \/ ~pastes[a].open
    /\ serving' = a
    /\ UNCHANGED <<id, heap, data, offers, source, reading, pastes>>

Unread(a) == pastes[a].blob /\ pastes[a].remaining = 0

(* sqlite3_blob_read of the next buffer                                       *)
RefillBy(a) == Min({BufSize, pastes[a].sz - pastes[a].off})

Refill(a) ==
    /\ serving = a /\ Unread(a) /\ pastes[a].open
    /\ RefillBy(a) > 0 /\ pastes[a].content \in DOMAIN data
    /\ pastes' = [pastes EXCEPT ![a].remaining = RefillBy(a), ![a].off = @ + RefillBy(a)]
    /\ UNCHANGED serving

(* All of it was written, or the row is gone and the blob aborted.             *)
RefillEnds(a) ==
    /\ serving = a /\ Unread(a) /\ pastes[a].open
    /\ RefillBy(a) = 0 \/ pastes[a].content \notin DOMAIN data
    /\ End(a)

(* The transient data the context points into are still those.                *)
PointsAt(a) == pastes[a].blob \/ pastes[a].content = heap.content

Written_FromStart(a, n) == [i \in 1 .. n |-> <<pastes[a].content, i>>]

(* The n units after those written.  Memory that was freed holds anything.     *)
Written(a, n) ==
    LET at == IF pastes[a].blob THEN pastes[a].off - pastes[a].remaining
                                ELSE pastes[a].sz - pastes[a].remaining
    IN [i \in 1 .. n |-> IF PointsAt(a) THEN <<pastes[a].content, at + i>> ELSE Garbage]

(* write(): as much as there is room for.                                     *)
Write(a) ==
    /\ serving = a /\ pastes[a].open /\ pastes[a].remaining > 0 /\ Room(a) > 0
    /\ LET n   == Min({pastes[a].remaining, Room(a)})
           now == [pastes EXCEPT ![a].sent = @ \o Written(a, n), ![a].remaining = @ - n]
       IN IF now[a].remaining = 0 /\ ~pastes[a].blob
          THEN pastes' = [now EXCEPT ![a].state = "closed"] /\ serving' = NoApp
          ELSE pastes' = now /\ UNCHANGED serving

WouldBlock(a) ==
    /\ serving = a /\ pastes[a].open /\ pastes[a].remaining > 0 /\ Room(a) = 0
    /\ serving' = NoApp
    /\ UNCHANGED pastes

(* EPOLLERR or EPIPE: nobody will read.                                       *)
Unwanted(a) == serving = a /\ ~pastes[a].open /\ End(a)

WriteCallback(a) ==
    /\ Refill(a) \/ RefillEnds(a) \/ Write(a) \/ WouldBlock(a) \/ Unwanted(a)
    /\ UNCHANGED <<id, heap, data, offers, source, reading>>

(* The application that pastes                                               *)
AppReads(a) ==
    /\ pastes[a].open /\ pastes[a].got < Len(pastes[a].sent)
    /\ pastes' = [pastes EXCEPT ![a].got = Len(pastes[a].sent)]
    /\ UNCHANGED <<id, heap, data, offers, source, reading, serving>>

AppLeaves(a) ==
    /\ pastes[a].open /\ pastes[a].state = "sending"
    /\ pastes' = [pastes EXCEPT ![a].open = FALSE]
    /\ UNCHANGED <<id, heap, data, offers, source, reading, serving>>

Next ==
    \/ SourceWrites \/ SourceCloses
    \/ Selection \/ SelectionFails \/ Receive
    \/ SetClipboard \/ RemoveRows
    \/ \E a \in Apps : Send(a) \/ WriteBegins(a) \/ WriteCallback(a) \/ AppReads(a) \/ AppLeaves(a)

(* The daemon runs; the loop comes back to every pipe with room; and an         *)
(* application that pastes reads.  Nothing is assumed of the one that copies.   *)
Fairness ==
    /\ WF_vars(Receive)
    /\ \A a \in Apps : SF_vars(WriteBegins(a)) /\ WF_vars(WriteCallback(a)) /\ WF_vars(AppReads(a))

Spec == Init /\ [][Next]_vars
FairSpec == Spec /\ Fairness

-----------------------------------------------------------------------------
(* Properties                                                                *)

(* A content stored is all that its source wrote before it closed the pipe, no   *)
(* less because it paused, and never more than max_size.  (io_read)            *)
ReadIsWhole ==
    [][reading # NotReading /\ reading' = NotReading /\ (id' = reading.content \/ heap' # Empty) =>
          ~source.open /\ reading.got = source.written /\ reading.got \in 1 .. MaxBytes]_vars

(* An application that pastes an entry gets a prefix of one content, in order,   *)
(* whatever is copied, deleted or trimmed in the meantime; and the end of file   *)
(* comes only after all of it, unless the entry was deleted.  (write_callback)   *)
PasteIsWhole ==
    \A a \in Apps : pastes[a].blob =>
        LET whole == Whole(pastes[a].content, pastes[a].sz)
        IN /\ IsPrefix(pastes[a].sent, whole)
           /\ pastes[a].state = "closed" /\ pastes[a].open /\ pastes[a].content \in DOMAIN data =>
                  pastes[a].sent = whole

(* A paste comes to an end, also while an application that copies stalls or      *)
(* writes without end.  (poll with a timeout, max_bytes; send_context_free)     *)
PasteEnds == \A a \in Apps : pastes[a].state = "sending" ~> pastes[a].state = "closed"

(* A transient paste reads the data it was begun with.  The code breaks this:    *)
(* clear_transient frees them under the send context.  (send_context: "Pointer   *)
(* to write from")                                                            *)
TransientIsKept ==
    \A a \in Apps : pastes[a].state = "sending" /\ ~pastes[a].blob => PointsAt(a)

=============================================================================
