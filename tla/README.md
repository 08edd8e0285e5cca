# swayclip, specified

This directory holds a TLA+ development of swayclip, the clipboard history
daemon of this repository, and of what its clients rely on. The modules are
translated from the C sources; TLC checks them on small instances and TLAPS
proves the most important results for every instance.

Contents: the [system](#the-system), the [modules](#the-modules), the
[runs](#the-runs) with their bounds and fairness, what is
[proved](#what-is-proved), the [refuted statements](#refuted-statements), what
is [not modelled](#what-is-not-modelled), and the [plan](#plan).

## The system

`swayclip` (`daemon/`) is one process with one thread. It talks to the
Wayland compositor, to clients on a Unix socket (`swctl`, `cli/`), and to an
SQLite database. Everything runs as callbacks of one event loop, so handlers
are atomic towards each other; what is concurrent is the rest of the world:
the compositor, the applications that copy and paste, the clients, and the
crash of the daemon itself. Three callbacks can keep the one thread: `io_read`
waits for the copying application up to a timeout, `wayland_ct_flush` for room in
the compositor's socket, and `ipc_ct_read` for ever once a client leaves within
a message (`ReadReturns`).

| Component | State | Operations | Talks to |
|---|---|---|---|
| history database (`database.c`, `db_schema.sql`) | tables Entries, Mime_types, Data, Settings | insert, move, pin, delete, clear, trim, hash look-up, transactions | called by the core |
| core (`main.c`) | current entry `id`, `cleared`, transient data, locals of a running selection handler | selection event, requests, sending, start | database, Wayland part (`set`), IPC server (events) |
| selections (`wayland.c`) | per selection: offer, source, NULL timer; per seat: blocked, transient, mime types | offer, selection, cancelled, NULL timer, set, seats coming and going | compositor; core by four signals |
| toplevels (`wayland.c`) | active toplevel, its filter configuration | title, app id, state, done, closed | compositor; filters of the selections |
| Wayland connection (`wayland_ct.c`) | `read_prepared` | prepare, read, dispatch, flush | event loop |
| event loop (`event.c`) | sources, deleted sources, prepares, `stop` | run, add, del, mod, stop | everything |
| IPC server (`ipc.c`) | per client: subscriptions, hold count, held requests, pending events | accept, message, event, close; lock file and socket at start | core by one callback |
| IPC framing (`ipc_ct.c`) | partial header or body, write queue | read, write, queue | IPC server, `swctl` |
| transfers (`main.c`) | send contexts: blob or transient buffer, offset | send, write callback, free | event loop, database |
| reading, lock files (`io.c`) | buffer, limits, timeout; record locks | `io_read`, `create_lock`, `lock_is_locked` | core, IPC server |
| client (`cli/main.c`) | page, ids shown, subscription | round trip, paging, set, delete, pin | IPC framing |
| configuration (`config.c`, `config_util.c`) | `struct config` | parse | read by the others |

Hard behaviours and the properties that make each part correct:

* **History.** A selection is read from a slow or dying application inside a
  database transaction. Whatever fails, an entry is stored whole or not at
  all; an id that was committed is never reused while there is the history; shared
  payloads live as long as their last reference; deduplication finds the newest
  copy; the trim keeps pins.
* **Current entry.** It is assigned in many places, saved for the next start
  and announced by events; the three should agree.
* **Events.** A subscriber sees a list change by change and must end up with
  the list the daemon has. Events of a request come after its response.
* **Selections.** Requests to the compositor cross its events; an application
  that closes leaves the selection empty for a moment, and the daemon takes it
  over after a millisecond unless another application did.
* **Event loop.** Sources are removed while their event may be in the batch
  being dispatched, and file descriptors are reused.
* **Transfers.** A content is read in pieces from an application that may pause,
  stop or never end, and a paste is served in pieces, while the entry may be
  deleted or the transient data replaced.
* **Toplevels.** The compositor tells of a change window by window and field by
  field; a selection may come between any two of these events and is filtered by
  the window that counts as active.
* **Framing.** The stream is cut anywhere; messages must not run into each other,
  and a file descriptor must stay with its message.
* **Start and end.** A daemon that was killed leaves files; one that starts must
  tell them from those of a daemon that runs.
* **Lists.** `swctl list` is many requests, next to a history that changes, and the
  id a user picks from it is old by the time it is used.

## The modules

| Module | Models | State and actions |
|---|---|---|
| `HistoryDB` | `database.c`, `db_schema.sql` | no state: a database is a record (`entries`, `data`, `seq`, `last`), each SQL statement an operator on it, the triggers and cascades part of the statement |
| `ClipHistory` | `main.c` with `HistoryDB` | `db` (what the connection sees) and `disk` (what is committed), `id`, `cleared`, `transient`, the place `pc` in `wsignal_selection` with its locals `work`, and `out`, the events of the last step. `wsignal_selection` is cut where it blocks or commits, every request is one action, `Stop` (exit or crash) is possible everywhere |
| `History` | what the core promises | `history`, a list of contents and pins: add in front, move to the front, delete, pin, trim |
| `Subscriber` | a client of `swctl events`, composed with `ClipHistory` | `view`, the list the client keeps by applying `out`, event by event (`Applied`, one operator for each kind of event) |
| `HistoryRefinement` | | the mapping from `disk` to `History`: the entries in the order of their places |
| `EventLoop` | `event.c`, the callbacks as far as they touch it, the kernel's fd table and epoll | `loop` (sources, deleted sources, the stop flag; fd table, interest set, ready list), `batch`, `pc`. One action per phase of `eventloop_run` and per callback |
| `Channel` | what one direction of a connection promises | `posted`, `received`, `cut` |
| `IpcCt` | `ipc_ct.c`, `io_recv`, `io_send`, over a stream socket | the sender's `queue`, the `wire` (units, some with a descriptor), the receiver's `rd` (struct `ipc_ct`), the descriptors each process has open. One pass of `ipc_ct_write` or `ipc_ct_read` is one action, as long as the kernel chooses |
| `IpcServer` | `ipc.c`, the server side | per client `conn` (the struct and its socket), `asked` and `taken` (requests sent, requests read), `serving` (the callback that runs). `client_callback` is cut into the messages it reads, and the execution of a batch of held requests (`serving.batch`) into the requests: nothing else of the daemon runs in between, but the clients and the kernel do |
| `SwctlEvents` | `command_events` of `cli/main.c`, composed with `IpcServer` | `phase`, `printed`; the program is one of the clients |
| `Swctl` | `list`, `set`, `get`, `delete`, `pin` of `cli/main.c`, composed with `ClipHistory` | the page and the offsets of `command_list`, the lines `printed`, the line `picked`, and `attrs`, the entries whose attributes are saved. One action per round trip |
| `Selections` | `wayland.c`, with a compositor (as wlroots behaves) and the core in brief | per selection `offer`, `source`, `timer`, per seat `seat`, `blocked`; the connection as two queues, `requests` and `events`; who owns each selection for the compositor |
| `Toplevels` | `wayland.c`, with a compositor | the windows `win` and `focus`, the events the compositor `owes`, the daemon's `tps` and `active`; one action per event. The filters are operators on the mime types of a selection |
| `Transfers` | `wsignal_selection`, `wsignal_send` and `write_callback` of `main.c`, `io_read` | the bytes: `reading` (locals of `io_read`), `pastes` (send contexts), the `heap` and the rows `data` they read from; applications at both ends |
| `Startup` | `main`, `ipc_init`, `ipc_uninit`, `create_lock`, `lock_is_locked` | per process `pc` and what it has open; the two paths and the files they lead to. One action per system call, `Killed` between any two |
| `Ranks` | | parts of a list without recursion, for `History`, `EventLoop` and `Selections`: the k-th entry that is left stands at the k-th smallest place that is left |
| `*Proofs` | | proofs. `HistoryProofs` is about `ClipHistory` and what is composed with it: `HistoryDB`, `HistoryRefinement`, `Swctl`, `Subscriber`; `IpcServerProofs` about `ipc.c`: `IpcServer` with `SwctlEvents`, and `Startup`; the others about the module they are named for (`RanksProofs` is for `HistoryProofs`, `EventLoopProofs`, `SelectionsProofs` and `ToplevelsProofs`) |
| `MC*` | | instances for TLC |

How they fit together. `EventLoop` is the reason handlers are atomic in the other
modules, and its `ReadyIsServed` is their fairness. `ClipHistory` takes a
selection event as it comes; `Selections` says which ones come, and reduces
`ClipHistory` to the current entry, the newest and the set of stored contents;
`Toplevels` says which mime types of one are left, and whether it is transient.
`ClipHistory` and `IpcServer` meet in the events: `out` of the one is the
`changes` of the other, which keeps their order (`NoEventIsLost`), and
`Subscriber` shows what a client can do with them. `IpcServer` passes whole
messages on; that the bytes of `IpcCt` amount to that is its refinement of
`Channel`. `Transfers` looks into the one step in which `ClipHistory` receives a
mime type, and `Startup` into its `Start`.

Refinements. `ImplementsHistory`: what is committed, read in the order of the
places, is `History`, whatever fails and wherever the process dies; an open
transaction is invisible, since `disk` does not change before `COMMIT`.
`ImplementsChannel`: `posted` and `received` of `IpcCt` are those of `Channel`, which
is cut when either end is closed; `Channel` promises delivery while it is not.

Abstractions.

* *Core.* A payload stands for its own SHA-256 and a selection (function from
  mime type to payload) for its entry hash, so hashing is injective, a mime type is
  offered once (`wayland.c:284` and `database.c:59` would take it twice) and
  the order in which they are offered, which the code's hash covers (`main.c:361`), makes
  no difference; times are left out, the attributes are in `Swctl`; a failed
  `COMMIT` rolls back; memory that `main` leaves uninitialised is zero. The
  configuration may change between two starts, except for `persist`: a history is in
  its file for good, or in memory and gone with the daemon, its ids with it.
  A trim that fails has announced some of the rows and is undone; the one at the start
  is silent and its result ignored.
* *Event loop.* A source is also the open file it was added with; the number it
  is known by is a separate field, because that is what is reused. `epoll_wait`
  does not fail. `None` in the table is a free number.
* *Framing.* A message is a header of a few units that gives its length, then its
  text. A text is complete when its last unit is there; its contents do not matter.
* *IPC.* A request is one of five kinds: it reads, changes, subscribes,
  unsubscribes or holds. The mask of events of a client has all kinds or none.
  `Requests` has the sequences of requests each client may send. A client leaves
  between two messages or in a header, which ends `ipc_ct_read`, or within a body
  (`LeaveWithin`), which does not: then the daemon is `Hung`, as `ipc_eof` shows of the
  stream. Messages stay in `out` once written; `sent` and `read` say how far they are.
* *Selections.* A data offer, its mime types and the selection event that ends them
  are one event. Protocol ids of sources are reused as the protocol does. A seat
  that was removed comes back as another.
* *Toplevels.* A regular expression is the set of what it matches. A window closes
  once; what it had not said by then is never sent.
* *Transfers.* A selection has one mime type. A unit of a content is its position in
  it, so that a mix or a gap shows.
* *Startup.* Two paths, no directories. SIGTERM is blocked until the loop runs, as
  `main` blocks it.

## The runs

| Run | Instance | Shows |
|---|---|---|
| `core` | dedup `all`, `max_entries` 2, three contents (two share a payload), three ids | what is stored is the promised list, the subscriber's list equals it whenever the daemon is idle, what is announced was copied, trims are exact, `Last_entry` is current. `commit`, `save`, `trim` and `update` do not fail here: `LastIsCurrent` is about successful saves, `TrimIsExact` about successful trims, and for what `commit`, `trim` and `update` do to the subscriber see the refuted statements |
| `core_mixed` | two contents, one with an empty payload; four configurations, one of which keeps the history in memory | everything may fail, the daemon may crash anywhere and restart under another `dedup` and a smaller `max_entries`, or with nothing: the inductive invariant, whole entries, references, ids, pins |
| `loop` | five sources, four fd numbers, batches of two: two sources take turns with one number, and one may have it while the other is still in the list of deleted sources | a deletion by number hits no other source; nothing freed is reachable from epoll or, until the loop stops, from the batch; what is ready is served; a stop ends the loop |
| `ipc` | `swctl events` and a client that follows one of four scripts (holds, also one held itself, a subscription, a change, an unsubscription) and may leave anywhere, also within a message; one copy nobody asked for; a socket that takes two messages | answers once and in order, own events after the answer, none lost, the requests a hold keeps back see one state, every event read is printed, what is queued arrives, a client that left is freed, unless one left within a message |
| `ipc_ct` | four messages, two with a descriptor, one longer than the buffer and one longer than the limit; a socket of three units | messages arrive whole, in order, with their own descriptor; none is leaked or sent twice |
| `selections` | one seat, both selections, contents that are stored, blocked or not allowed, reading may fail | at rest the daemon and the compositor agree, the right content is offered, nothing slipped through; traffic ends; an emptied selection is taken over |
| `toplevels` | two windows, two titles, one app id; a table by title before one by app id; three mime types | the active window exists, is configured and, once the compositor has said all, the focused one; what is stored of a selection does not depend on the order of its mime types |
| `transfers` | three selections of up to four bytes, one application that pastes, buffers of three and pipes of two | what is stored is whole; a paste of an entry is a prefix of one content, and all of it unless the entry went; every paste ends |
| `startup` | three daemons, their starts, ends and kills interleaved call by call | a daemon that had its lock before any other looked is the only one that serves and is found by clients and by every start; leftovers refuse nobody; every start or end ends in service or with nothing open, or waits for the compositor |
| `swctl` | three contents, `max_entries` 2, lists of three or four asked for in pages of two, next to copies, moves, trims, pins and deletions | the list skips nothing that stayed; a command for a line acts on what the line showed or on nothing |
| `ipc_eof`, `transfers_transient` | as `ipc_ct` and `transfers` | each finds the violation of one sentence of the documentation or of a comment; PROJECT.json quotes it |

Bounds, and why they are enough.

* *Core:* `MaxId` = 3: one entry at the front, one behind it, and one more that a
  copy inserts, a duplicate moves or a trim removes; `max_entries` is 1 or 2, so
  trims happen. `MaxSort` bounds places. `Copy` is guarded by `Room`, so an
  instance ends when its ids are used up, after which requests, transient copies,
  crashes and restarts go on.
* *Event loop:* five sources and four numbers are the three fixed ones and two that
  come and go with the number that is left. A source cannot be added again while it is
  in the list of deleted sources, so it takes two for a number to be another's by the
  time of a deletion (`AddedIsPolled`). `MaxEvents` 2 makes batches overflow.
* *IPC:* `Modulus` 8 stands for 2^32: `hold` wraps inside the instance.
  `Capacity` 2 makes the socket full. Three requests are enough to hold two, to hold a hold, or to subscribe again.
* *Framing:* `Capacity` 3 is less than a header and a text, so every longer message
  is sent in several pieces; `BufSize` 3 is more than a header and less than a
  header with its text, so that a read that asks for too much would show. The messages with a descriptor are those before and after the
  one without, so that a descriptor that goes astray has somewhere to go.
* *Selections:* two steps of users (a copy, a request, a seat that comes or goes),
  any number of closing applications; every pair of them crosses on the
  connection. `SourceIds` are reused, four are never exhausted here.
* *Toplevels:* two windows are enough for one to take the focus from the other and
  for both to owe events at once; every name and table is reached.
* *Transfers:* `MaxBytes` 4 is more than a buffer, `BufSize` 3 more than a pipe, so
  that a content takes two reads and each of them several writes. The third
  selection replaces the one a paste is serving while another has been stored.
* *Startup:* each process runs once; a third may come after the second has dealt
  with what the first left, or while the first two meet. `MaxFiles` 6 is two files for each.
* *Lists:* a list of three entries takes two pages of `PageSize` 2. With `max_entries` 2 and
  three contents it has three when one is pinned, and a copy then moves one to the
  front, which shifts the second page, or inserts one and trims another. Payloads
  are interchangeable, hence the symmetry, and the view leaves out three variables
  on which nothing in the module depends; no liveness is checked with either.

Fairness, and why the code justifies it.

* *Core:* none. It promises nothing that must eventually happen but the return of a
  handler, which is in `Transfers`.
* *Event loop:* weak fairness of the loop's thread, that is, callbacks return, and of the
  end of `display_callback`, as libwayland hands it a finite queue. `io_read` returns
  after its timeout. Two callbacks need not: `ipc_ct_read` when a client leaves within a
  message, and `wayland_ct_flush` while the compositor does not read; then
  nothing is served and a stop ends nothing. Readiness itself is never forced. That what is ready is served
  rests on the kernel's ready list being first come, first served.
* *Framing:* weak fairness of each pass over a socket that is ready, on both sides:
  their loops come back to it. Closing is free.
* *IPC:* strong fairness of `Serve`, as `ReadyIsServed` of `EventLoop` gives it to
  every client that is ready again and again; weak fairness of the steps of a
  handler that has begun, and of `Receive`, that is, of clients that stay connected.
  Clients need not send anything. A message that will never be whole is not among the
  steps: the handler that reads it stays `Hung`, and the two liveness properties
  exclude exactly that.
* *Selections:* weak fairness of the daemon and of the compositor handling a request.
  Users are free to stop.
* *Transfers:* weak fairness of `io_read`, which has a timeout, of a write callback
  that has begun and of an application that pastes, as long as it stays; strong
  fairness of the loop calling a write callback, which has to wait while a
  selection is read. Nothing is assumed of the application that copies: it may
  stop in the middle with the pipe open.
* *Startup:* weak fairness of each process that is under way, except in `wayland_init`:
  its `wl_display_roundtrip` waits for the compositor without a timeout
  (`wayland.c:975`), and `main` has blocked SIGINT and SIGTERM by then, so that a
  start may stay there (`Connect` has no fairness). The other calls do
  not wait. Nothing forces a kill or an end.

## What is proved

For every value of the constants, from the named `ASSUME`s of the modules and
nothing else. In each case the property is not inductive, and the invariant that
is says what the code relies on without stating it.

**History.** `HistoryProofs` proves, for every configuration set, every set
of contents, every choice of failing calls and every bound, that `IInv` is
inductive and with it `TypeOK`, `HashIsOfNewest`, `EntriesAreWhole`,
`DataIsReferenced` (invariants) and `IdsAreForever`, `PinnedSurvives` (action
properties). `IInv` says that the committed database is `Sound` and that an open
transaction has added to it exactly one row: a new id, the front place, no hash,
and a part of the selection being read. It is needed because what is committed
at the end (`Insert`) is sound only if the row built over many steps is whole and
nothing else was touched. The module begins with one lemma per statement of
`HistoryDB`, which says what it returns and that it keeps a database sound; `HashedSound` is the central
one: taking the hash from the old copy and giving it to the new row, which is in
front, makes the newest row the only one with that hash.

**What the history promises.** The same module proves the refinement
`ImplementsHistory`: every step of the core, with any failing call or a crash
in it, is one step of `History` or none. The argument is about places. `Sound`
gives each row a place of its own (`Ordered`), so the list is determined by who
is before whom; one lemma per statement says what it does to that order (a
deletion leaves it, an insertion and a move put one row in front), and
`RanksProofs` turns this into lists. That `History` has no contents twice under
dedup `all` needs one more invariant (`RowsHashed`): there every row carries the hash
of its contents, so that a copy of what is there is always found. From the same
lemmas follow

* `TrimIsExact`: the trim is counted, row by row, down to the limit and not
  below it;
* `AnnouncedIsCopied`, while `COMMIT` does not fail: the row that a copy is taken
  for has the hash of what was copied, and with `Sound` its contents, and is moved
  to the front;
* `LastIsCurrent`, while the setting can be saved: through every step of a handler,
  `db` and `disk` agree on `Last_entry`, and on the current entry if there is one
  (`LastSaved`).

The last two have the hypothesis in their statement (`"commit" \notin Faults`,
`"save" \notin Faults`): without it the code does not keep them.

What a user may rely on of an id is two theorems. `IdsLastForever`, whatever fails: the
id of a committed entry never names other contents and is never given out again, for
as long as there is the history (`Forgets` is the end of a daemon that keeps it in
memory). `AnnouncedIsAlwaysUsedUp`, while `COMMIT` does not fail: every id that is
announced is one of these. After a `COMMIT` that failed the announced id goes to the
next entry (`AnnouncedIsUsedUp` below).

**Toplevels.** `ToplevelsProofs` proves `ActiveIsConfigured` and
`ActiveIsFocused` for every set of windows, names and mime types and every
configuration. Both need to know what the compositor still owes. `IInv` of
`Toplevels` says, window by window, which events can be owed together
(`OwedIsOrdered`), that a field that is not owed is known (`ToldIsKnown`), and
that a window that owes no "done" is active exactly if it has the focus and a
configuration (`DoneIsApplied`). The step that matters is `EventDoneKeeps`: a
window that becomes active has the focus, so no other window that has been told
of completely can have been active.

It also proves `StoredIsFiltered`, for any number of mime types. The seat is
a function of how many offers have been handled (`SeatAfter`); `Knows` says what its flags and
its list are of the set of types so far, and that once it is blocked they no longer count.
`OfferedKnows` is one offer, with the early returns of both filters. As an induction
theorem cannot be instantiated, both the existence of the function
and the walk along it take the least number of offers for which they fail
(`LeastNatural` of `RanksProofs`).

**Event loop.** `EventLoopProofs` proves `RegisteredIsAllocated` and
`BatchIsAllocated` for any number of sources, of file numbers and any size of a
batch. A source is taken out of epoll by its number, and numbers are reused; what
makes this right is that the file of a registered source still has its number in
the table (`Registered`), so that the deletion can hit no other. `Listed` says
that no source is in the two lists twice, or in both, unless the loop is to stop:
after that `ListedIsAllocated` is false (see the refuted statements), and the
proof shows that epoll is safe all the same.

**Framing.** `IpcCtProofs` proves `FdsAreOwned` and the safety part of the
refinement of `Channel` (`ArrivesInOrder`: `Spec => C!Spec`), for any messages, any
lengths of header, buffer and socket, and any cut of the stream. The invariant
follows a message all the way: the queue is what was posted last, and only its
first may be sent in part (`QueueOK`); units on the wire are consecutive
(`UnitsOK`), the receiver stands before the first of them (`WireOK`) and the sender
after the last (`Connected`); what the tokener holds is the beginning of the
message that is due, and the descriptor is held from the first unit of its message
on (`ReaderOK`).

**IPC server.** `IpcServerProofs` proves `AnsweredInOrder`, `OwnEventsFollow`,
`NoEventIsLost` and `HeldSeeOneState`, for any number of clients and any requests.
Everything is said of one client, of what its own requests do to it and of what it
overhears of the others'. The invariant: the held requests are the last that were
read (`HeldOK`) and the answers those of the requests before them (`AnswersOK`);
the window that a hold has opened is either being filled, and what is left of
`hold` is what is missing of it, or being executed, and all its answers so far
have seen the changes that there are now (`WindowOK`), or over (`SeenOK`); what
was announced and what is pending are, in this order, all changes since the
subscription (`EventsOK`); a pending event
is of a request whose answer is queued (`OwnOK`); outside a handler nothing is pending and
nothing is held but what `hold` counts (`QuietOK`).

`AlwaysPrintsEveryEvent` adds the client: as `swctl events` asks once and nothing is
announced before the subscription is answered (`SubscribedOK`), the first message it
gets is its only response, and what it has printed is all it has read but this one
(`FollowerInv`).

Proving it corrected `HeldSeeOneState`. As first stated it was true in the instance
and false in a larger one: a hold that is itself held adds to the count for the requests
after the batch, so those it names need not be the ones that run together. The property
is now about holds that were not held themselves.

**Transfers.** `TransfersProofs` proves `PasteIsWhole` and `ReadIsWhole` for any number
of applications and selections and any sizes. What was sent of a blob is what was
read of it less what is still in the buffer, and it is the beginning of its content
(`PasteOK`). That the end of file comes too early only if the entry went needs that a
row that is gone never comes back (`RowsOK`: rows are of earlier selections than the
one being read), and what was read never exceeds what was written (`ReadingOK`).

**Subscriber.** `HistoryProofs` proves `ViewIsHistory`, for histories of any length:
the lemmas `AddApplied`, `MoveApplied` and so on say what a client makes of each kind of event, and `ViewOK`, together
with the invariant of `ClipHistory`, what the view is at each place of the handler. It agrees with the history
except between a commit and its announcement; there the entry just committed is the only
difference, and the position the announcement will carry is where it was. An event carries a
position and no list, so the proof needs that the position the daemon computed, with the
row being inserted still counted, is the one the client has (`work.pos`). The
hypothesis is the one the core run makes for this property: `COMMIT`, the update
of the time and the trim do not fail (see the refuted statements for what happens when
they do).

**Lists.** `HistoryProofs` also proves `ListSkipsNothing` and `PickedIsShown`, for any size of a page,
any start and number and any history. `ListInv` says, of a list under way, that an
entry it owes has a line, is on the page that was fetched, or stands at a place that
is still to be asked for (`NothingPassed`): a copy moves entries to later places, which
are still to come, and an entry moved to the front is no longer owed. A deletion moves entries
forward past the offset, and there the property claims nothing. Until something
changes, lines and page are the range so far, in order (`InOrder`). A line is true of its entry for
as long as there is one, because ids are not reused and contents do not change
(`LinesAreTrue`). When a daemon that keeps the history in memory ends, so does this; a
list under way fails with it, and of the lines of an older one `PickedIsShown` then claims
only that a command touches no other entry than the one it names.

**Start.** `IpcServerProofs` ends with `Startup`: it proves `ServerIsFound` and `StaleFilesDoNotRefuse`, for any
number of daemons, any interleaving of their starts and ends and a kill between any two
system calls. Nothing is assumed of who runs when. What the code cannot do is keep apart two
processes of which one looks for the lock while the other has yet to take it, or is giving
it back: both go on, and each removes the other's files (`OneServes` below). `met` is a
history of exactly these, and the theorems are about the others: a daemon that had its lock
before any other looked serves alone, is found, and refuses every start, however many there
are and however they end. `Alone` says what a process that is in and met no other has made of
the two paths at each label, and `Held` which descriptors go with which lock; the step that
matters is `CheckLock` of another process, which finds the lock of the one that is alone and
changes nothing but itself.

**Selections.** `SelectionsProofs` proves `SourceIsOwner`, `HeldIsCurrent` and
`AppHeldIsKept`, for any number of seats and contents, any number of copies and any length of
the two queues. The properties are about a connection at rest, so the invariant has
to say what each message under way stands for. `SeatOK` follows a seat: its name comes
once and before its removal, and it has a device, or one was asked for, from the one to
the other. `BelongsOK`: nothing of a selection is left, here or on the connection, once
its seat is gone. `SourceOK` says that a source the daemon keeps is about to be set, is the
compositor's, or is about to be cancelled or to go with its seat (`KnownOK`); that one it
does not keep is about to be destroyed, by a request behind the one that sets it, and that
no other is (`DestroyedOK`); and that the one it keeps offers the current entry
(`OfferedOK`). It is what makes the reuse of protocol ids harmless, as an id is free
only when no message names it. These are inductive together; for `AppHeldIsKept` comes
`KeptOK`: a content that an application holds is about to be replaced, will be
announced to a device that was asked for, is announced by the last event of its
selection, with the cancellation of the daemon's own source before it (`Pending`), or is
the current or the newest entry. The hypothesis is `"begin" \notin Faults`: when the
transaction does not begin, a copy is dropped and the entry before it stays current.
Handlers take elements out of a queue and put new ones at its end; `Evolves` says so
once, with the place that each element moves to, and the proofs of the actions only use that.

**Only model-checked.** Liveness (`ReadyIsServed`, `StopEnds`, `QueuedArrives`, `GoneIsFreed`,
`Settles`, `EmptiedIsHeld`, `PasteEnds`, `StartEnds`, the delivery that
`ImplementsChannel` promises) is out of the prover's reach and stays with TLC.

## Refuted statements

Statements that a sentence of the documentation or a comment makes, or that a
reader would expect, and that the code does not keep. Two have a run of their own
(`ReadReturns`, `TransientIsKept`). The others are defined next to the properties;
TLC finds each violated when it takes the place of the properties in the
configuration named here, changed as it says.

| Statement | Configuration | What happens |
|---|---|---|
| `TransientHasData` | `MCClipHistory_mixed` | a new selection drops the transient data first; when its transaction cannot begin, `id` still says transient (`main.c:261`) |
| `TrimTakesOldest` | `MCClipHistory_mixed` | the trim orders by id, not by place: an entry moved to the front goes first (`database.c:112`; swayclip(5), `max_entries`) |
| `CurrentExists` | `MCClipHistory_mixed` | the trim removes the entry just made current; also after a restart, as the saved last entry is taken without a look whether it exists (`main.c:506`, `main.c:1291`) |
| `AddedExists` | `MCClipHistory_mixed` | the result of `COMMIT` is ignored, `entry_add` is sent all the same (`main.c:464`) |
| `PrevIsNotRepeated` | `MCClipHistory_mixed`, `Configs <- ConfigsPrev` | a copy takes the hash from an older entry with the same contents; when deletions make that one the previous entry again, it is not recognised (`main.c:422`; swayclip(5), `dedup`) |
| `KnownIsCurrent` | `MCSubscriber` | a transient or failed selection unsets the current entry and sends no event (`main.c:266`, `main.c:504`) |
| `ViewIsHistory` | `MCSubscriber`, `Faults = {"update"}` | the move is committed, writing the update time fails, and the move is not announced (`main.c:472`) |
| `ViewIsHistory` | `MCSubscriber`, `Faults = {"trim"}` | the trim announces row by row; when a later step fails, it is undone, and what it announced is still there (`database.c:984`) |
| `AnnouncedIsUsedUp` | `MCClipHistory_mixed` | after a `COMMIT` that failed the counter of ids is back where it was, and the id just announced goes to the next entry (`main.c:464`) |
| `TooBigIsIgnored` | `MCClipHistory_mixed`, as a `PROPERTY` | a mime type whose data exceed `max_size` fails `receive_mimetype`, and the whole selection is dropped (`main.c:354`); `config.h:60` says "the mime type will be ignored", swayclip(5) that the copied item "will not be saved", as the code has it |
| `RemovedIsSilent` | `MCEventLoop` | a source removed by an earlier callback of the batch is still called (`event.c:204`) |
| `ListedIsAllocated` | `MCEventLoop` | once `stop` is set, a callback that deletes its source and returns true has the freed source put in a list (`event.c:317`) |
| `WaylandFirst` | `MCEventLoop` | with more ready sources than a batch takes, the display may be in the next one (`event.c:163`) |
| `AddedIsPolled` | `MCEventLoop` | a source is removed by number after its file was closed and the number given to a new source, which is then never polled (`event.c:91`, against the comment at `event.c:252`) |
| `HoldIsAsAsked` | `MCSwctlEvents`, `Requests <- AskerNegative` | a negative number of requests to hold passes the check and wraps (`main.c:1102`) |
| `SubscribedIsFollowed` | `MCSwctlEvents`, `Requests <- AskerChanges`, `FollowerSpec` | an event read together with the response takes its place, and `swctl events` gives up (`cli/main.c:139`; swctl(1), "Output a JSON stream of events from the daemon.") |
| `ClosedIsHeld` | `MCSelections` | `blocked` is one flag for both selections of a seat: a blocked copy to one keeps the other empty after its application closes (`wayland.c:379`; swayclip(1)) |
| `CopyIsStored` | `MCSelections` | a copy that crosses a set request is taken for the echo of the daemon's own source, and replaced (`wayland.c:379`; swayclip(5), "A new entry gets created each time you copy something") |
| `TransientIsNotSaved` | `MCToplevels`, `Global <- TextOnly` | a type the global `allowed` leaves out is not seen by the window's filter, so its `transient` does nothing (`wayland.c:265`; swayclip(5)) |
| `OneServes` | `MCStartup` | between the look at the lock and taking it another daemon may start, and one that ends removes the files of its successor (`ipc.c:260`, `ipc.c:348`) |
| `LinesShowContents` | `MCSwctl` | a crash after `COMMIT` leaves an entry without attributes, which `swctl list` prints as unknown data for good (`main.c:486`) |

## What is not modelled

* `get_current` and `get_history_length` of the daemon, `swctl len` and `swctl
  current`: one round trip that returns one value.
* The wait for room in the Wayland socket (`wayland_ct_flush`) and `read_prepared`:
  loops of one thread with nothing to interleave. The hazard at
  `wayland_ct.c:163` is listed without a property for that reason.
* Renamed seats (`seat_stop` while the seat stays), `eventloop_mod`, `EINTR`,
  allocation failures, a corrupt JSON text on the socket.
* The end of file of a pipe nothing was written to, as an empty payload: `io_read`
  does not return one, the core handles it, so `core_mixed` has it.
* `migrate_database`, which drops a trigger of version 1 and changes no row.
* Parsing of the configuration (a pure function, run once), logging, XDG paths, JSON
  building, SHA-256, the TOML parser, generated protocol code, the build and the
  tests: no state of interest or third-party code.

## Plan

Every component with state of its own has a module, and every safety property that
a run checks is proved. A change of the code starts
with the definitions that PROJECT.json maps to its lines.
