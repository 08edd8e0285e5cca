------------------------------- MODULE Swctl -------------------------------
(***************************************************************************)
(* swctl (src/cli/main.c) next to a changing history: a "list", page by    *)
(* page and line by line, and then the command a user gives for one of the *)
(* lines printed, as in "swctl list | picker | swctl set -d".              *)
(*                                                                         *)
(* Every round trip is one request, which the daemon answers when it is in *)
(* its loop.  In between the daemon does whatever ClipHistory allows: it   *)
(* copies, trims, serves other clients, dies and starts again.             *)
(***************************************************************************)
EXTENDS ClipHistory

CONSTANTS
    PageSize,  \* entries asked for at a time, 100 in the code
    Starts,    \* --start, from 0 on
    Numbers    \* --number

ASSUME PageAssumption == PageSize \in Nat \ {0} /\ Starts \subseteq Nat /\ Numbers \subseteq Nat

VARIABLES
    attrs,    \* ids whose two attributes (content type and mime type) are saved
    phase,    \* of swctl: "none" (no process), "page", "lines", "listed"
    start,    \* --start
    off,      \* position of the next page
    remain,   \* entries still to be asked for
    page,     \* ids of the page at hand not yet printed
    last,     \* the page at hand is the last one
    printed,  \* the lines printed: [id, shown]
    picked,   \* number of the line a command was just given for, or 0
    owed,     \* history: ids the list was to show, in their places ever since
    meanwhile \* history: what the daemon did since the list began

listVars  == <<phase, start, off, remain, page, last, printed, picked>>
swctlVars == <<vars, attrs, listVars, owed, meanwhile>>

Lesser(a, b) == IF a < b THEN a ELSE b

(* What a line shows of an entry: its contents, placeholder text that says     *)
(* "unknown" where the attributes are missing, nothing where get_data failed.  *)
Contained(c) == [kind |-> "contents", of |-> c]
Unknown      == [kind |-> "unknown", of |-> Null]
Nothing      == [kind |-> "nothing", of |-> Null]

-----------------------------------------------------------------------------
(* What the daemon answers. *)

(* get_history: the statement get_entries, with LIMIT and OFFSET. *)
History(o, n) ==
    LET size == Cardinality(Live(db))
    IN  [k \in 1 .. Lesser(n, IF o < size THEN size - o ELSE 0) |-> EntryAt(db, o + k)]

(* get_entry_callback finds the attributes, or has NULL printed for them; then *)
(* get_data fails for an entry that is gone, and for an empty payload.         *)
Previews(i) ==
    IF i \notin attrs THEN {Unknown}
    ELSE IF ~IdExists(db, i) THEN {Nothing}
    ELSE {Contained(db.entries[i].mimes)}
         \cup (IF NoBlob \in Range(db.entries[i].mimes) THEN {Nothing} ELSE {})

-----------------------------------------------------------------------------
(* swctl list *)

(* The daemon only answers. *)
Answered == out' = <<>> /\ UNCHANGED <<config, db, disk, id, cleared, transient, pc, work>>

(* The process is another one. *)
Forgotten == page' = <<>> /\ last' = FALSE /\ printed' = <<>> /\ picked' = 0

(* A command line. *)
List(s, n) ==
    /\ phase \in {"none", "listed"}
    /\ pc = "idle"
    /\ phase' = "page"
    /\ start' = s
    /\ off' = s
    /\ remain' = n
    /\ owed' = {i \in Live(db) : Position(db, i) \in s .. s + n - 1}
    /\ meanwhile' = "same"
    /\ Forgotten
    /\ Answered
    /\ UNCHANGED attrs

(* MIN(100, remain) *)
Asked(n) == Lesser(PageSize, n)

(* print_entry: a page that is not as long as asked for is the last. *)
GetHistory ==
    /\ phase = "page"
    /\ pc = "idle"
    /\ IF remain = 0
       THEN phase' = "listed" /\ UNCHANGED <<page, last>>
       ELSE /\ phase' = "lines"
            /\ page' = History(off, Asked(remain))
            /\ last' = (Len(page') # Asked(remain))
    /\ Answered
    /\ UNCHANGED <<attrs, start, off, remain, printed, picked, owed, meanwhile>>

(* The loop of print_entry: get_data for one entry, and its line.  It would     *)
(* leave the loop only without memory for the data: message_callback's          *)
(* malloc(0), for an error, is not NULL.                                       *)
GetData ==
    /\ phase = "lines"
    /\ pc = "idle"
    /\ page # <<>>
    /\ \E shown \in Previews(Head(page)) :
           printed' = Append(printed, [id |-> Head(page), shown |-> shown])
    /\ page' = Tail(page)
    /\ Answered
    /\ UNCHANGED <<attrs, phase, start, off, remain, last, picked, owed, meanwhile>>

(* Mutant of Turned: the offset stays. *)
TurnedShort == off' = off /\ remain' = remain - Asked(remain)

Turned == off' = off + PageSize /\ remain' = remain - Asked(remain)

(* The loop of command_list.  (remain -= 100 may end below zero.) *)
TurnPage ==
    /\ phase = "lines"
    /\ page = <<>>
    /\ phase' = IF last THEN "listed" ELSE "page"
    /\ Turned
    /\ Answered
    /\ UNCHANGED <<attrs, start, page, last, printed, picked, owed, meanwhile>>

-----------------------------------------------------------------------------
(* swctl set, get, delete and pin, of a line printed before. *)

(* swctl ends. *)
Ended ==
    /\ phase' = "none"
    /\ start' = 0 /\ off' = 0 /\ remain' = 0
    /\ page' = <<>> /\ last' = FALSE /\ printed' = <<>>
    /\ owed' = {} /\ meanwhile' = "same"

Commands == {"set", "get", "delete", "pin", "unpin", "toggle"}

(* The request of a command, for an entry that exists. *)
Requested(c, i) ==
    CASE c = "set"    -> SetClipboard(i)
      [] c = "get"    -> Answered
      [] c = "delete" -> RequestDelete(i)
      [] c = "pin"    -> PinEntry(i, TRUE)
      [] c = "unpin"  -> PinEntry(i, FALSE)
      [] c = "toggle" -> PinEntry(i, i \in Unpinned(db))

(* An error is the answer for an entry that does not exist. *)
Pick(c, k) ==
    /\ phase = "listed"
    /\ pc = "idle"
    /\ LET i == printed[k].id IN IF IdExists(db, i) THEN Requested(c, i) ELSE Answered
    /\ Ended
    /\ picked' = k
    /\ UNCHANGED attrs

-----------------------------------------------------------------------------
(* A step of the daemon.  It saves the attributes of the entry it announces,  *)
(* in the same database, and with it dies the connection of a swctl that waits *)
(* for an answer.                                                             *)
Kept == {i \in Live(disk) \cap Live(disk') : Sort(disk, i) = Sort(disk', i)}

Daemon ==
    /\ Next
    /\ attrs' = IF Forgets THEN {}
                ELSE IF pc = "publish" /\ pc' = "trim" THEN attrs \cup ({work.id} \cap Live(db))
                ELSE attrs
    /\ picked' = 0
    /\ IF pc' = "down" /\ phase \in {"page", "lines"}
       THEN Ended
       ELSE /\ owed' = owed \cap Kept
            /\ meanwhile' = IF phase = "none" \/ disk' = disk THEN meanwhile
                            ELSE IF Live(disk) \subseteq Live(disk') /\ meanwhile # "lost" THEN "more"
                            ELSE "lost"
            /\ UNCHANGED <<phase, start, off, remain, page, last, printed>>

SwctlInit ==
    /\ Init
    /\ attrs = {}
    /\ phase = "none" /\ start = 0 /\ off = 0 /\ remain = 0
    /\ page = <<>> /\ last = FALSE /\ printed = <<>> /\ picked = 0
    /\ owed = {} /\ meanwhile = "same"

SwctlNext ==
    \/ Daemon
    \/ \E s \in Starts, n \in Numbers : List(s, n)
    \/ GetHistory
    \/ GetData
    \/ TurnPage
    \/ \E c \in Commands, k \in DOMAIN printed : Pick(c, k)

SwctlSpec == SwctlInit /\ [][SwctlNext]_swctlVars

-----------------------------------------------------------------------------
Lines == {printed[k].id : k \in DOMAIN printed}

(* A list made page by page skips nothing: an entry that was within its range  *)
(* when it began and has kept its place in the order since is printed,         *)
(* whatever was copied and moved to the front meanwhile, as long as nothing    *)
(* was deleted and the range reaches to the end.  With nothing changed at all  *)
(* the lines are the entries of the range, each once and in order, also where  *)
(* the history ends with a page.                                               *)
(* (command_list, print_entry)                                                 *)
ListSkipsNothing ==
    phase = "listed" =>
        /\ meanwhile = "more" /\ last => owed \subseteq Lines
        /\ meanwhile = "same" =>
               /\ owed = Lines
               /\ \A k \in DOMAIN printed : Position(disk, printed[k].id) = start + k - 1

(* The user gets what the user saw: when a command finds the entry of the line *)
(* that was picked, that entry has the contents the line showed, although      *)
(* entries were copied, deleted and trimmed and the daemon may have restarted  *)
(* since, if the history persists; and no other entry goes, comes or changes   *)
(* with the command.  (swctl set -d, request_callback; AUTOINCREMENT)          *)
PickedIsShown ==
    [][picked' # 0 /\ IdExists(db, printed[picked'].id) =>
          LET i == printed[picked'].id
          IN  /\ config.persist =>
                     printed[picked'].shown \in {Unknown, Nothing, Contained(db.entries[i].mimes)}
              /\ \A j \in Live(db) \ {i} : j \in Live(db') /\ db'.entries[j] = db.entries[j]
              /\ id' \in {id, i, Clear}]_swctlVars

(* Every line of an entry that is still there shows its contents.  The code    *)
(* breaks this: an entry whose attributes were not written before a crash is   *)
(* "unknown data" for good.  (swctl(1), list: "then a preview of the contents") *)
LinesShowContents ==
    \A k \in DOMAIN printed :
        IdExists(disk, printed[k].id) => printed[k].shown # Unknown

=============================================================================
