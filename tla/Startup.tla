------------------------------ MODULE Startup ------------------------------
(***************************************************************************)
(* One daemon per socket: how main (daemon/main.c) starts and ends, and the *)
(* lock file that is to keep a second daemon away (ipc_init and ipc_uninit *)
(* of daemon/ipc.c, create_lock and lock_is_locked of common/io.c).        *)
(*                                                                         *)
(* A path leads to a file or to none; a file that is unlinked lives on for  *)
(* those who have it open, and opening the path then makes another.  A      *)
(* lock is held on a file by a process, and goes when the process closes   *)
(* it or ends.  Every call is a step, and a process may be killed between  *)
(* any two; SIGTERM is blocked until the loop runs.                        *)
(***************************************************************************)
EXTENDS Integers, FiniteSets, SequencesExt

CONSTANTS Daemons,   \* processes; a process runs once
          NoFile,    \* the path does not exist, the descriptor is not open
          MaxFiles   \* bound on the files ever created

Files == 1 .. MaxFiles

ASSUME StartupAssumption ==
    /\ NoFile \notin Files /\ MaxFiles \in Nat

VARIABLES pc,         \* where each process is
          has,        \* what each has initialised
          lock_path, sock_path,  \* the file each path leads to
          made,       \* files created so far
          lock_fd,    \* the lock file each process has open
          locked,     \* those that hold the lock on it
          sock_fd,    \* the socket each process has bound
          listening,  \* those that listen
          met,        \* those that met another between look and lock, a history
          refused     \* those that were refused though no other was in, a history

files       == <<lock_path, sock_path, made>>
ipc         == <<lock_fd, locked, sock_fd, listening>>
history     == <<met, refused>>
startupVars == <<pc, has, files, ipc, history>>

StartupInit ==
    /\ pc = [d \in Daemons |-> "new"]
    /\ has = [d \in Daemons |-> {}]
    /\ lock_path = NoFile /\ sock_path = NoFile /\ made = 0
    /\ lock_fd = [d \in Daemons |-> NoFile] /\ sock_fd = [d \in Daemons |-> NoFile]
    /\ locked = {} /\ listening = {}
    /\ met = {} /\ refused = {}

Running == {d \in Daemons : pc[d] = "run"}
Ended   == {"new", "run", "exited"}

(* Those that found no lock and are not done with their server: what they do   *)
(* next takes for granted what they saw.                                      *)
Entered == {d \in Daemons : pc[d] \notin {"new", "database", "wayland", "ipc", "undo", "exited"}}

Goto(d, label) == pc' = [pc EXCEPT ![d] = label]
At(d, label, next) == pc[d] = label /\ Goto(d, next)

-----------------------------------------------------------------------------
(* main, up to the IPC server.  What fails is followed by undoing the rest.    *)

StartMain(d) ==
    /\ At(d, "new", "database")
    /\ UNCHANGED <<has, files, ipc, history>>

Initialise(d, part, next) ==
    /\ At(d, part, next)
    /\ has' = [has EXCEPT ![d] = @ \cup {part}]
    /\ UNCHANGED <<files, ipc, history>>

InitFails(d, part) ==
    /\ At(d, part, "undo")
    /\ UNCHANGED <<has, files, ipc, history>>

Undo_Half(d) ==
    /\ At(d, "undo", "exited")
    /\ has' = [has EXCEPT ![d] = @ \ {"wayland"}]
    /\ UNCHANGED <<files, ipc, history>>

Undo(d) ==
    /\ At(d, "undo", "exited")
    /\ has' = [has EXCEPT ![d] = {}]
    /\ UNCHANGED <<files, ipc, history>>

-----------------------------------------------------------------------------
(* ipc_init *)

Holder(file) == {e \in locked : lock_fd[e] = file}

IsLocked_Never(d) == FALSE

(* lock_is_locked: F_GETLK on what the path leads to now.                      *)
IsLocked(d) == lock_path # NoFile /\ Holder(lock_path) \ {d} # {}

Refuse(d) == refused' = IF Entered \ {d} = {} THEN refused \cup {d} ELSE refused

(* Another that is in has not got its lock yet, or has given it back, or lost  *)
(* the path to it: then the two have met.                                     *)
CheckLock(d) ==
    /\ pc[d] = "ipc"
    /\ IF IsLocked(d)
       THEN Goto(d, "undo") /\ Refuse(d) /\ UNCHANGED met
       ELSE /\ Goto(d, "unlink socket")
            /\ met' = IF Entered = {} THEN met ELSE met \cup {d} \cup (Entered \ locked)
            /\ UNCHANGED refused
    /\ UNCHANGED <<has, files, ipc>>

UnlinkSocket_Kept(d) == At(d, "unlink socket", "unlink lock") /\ UNCHANGED <<has, files, ipc, history>>

UnlinkSocket(d) ==
    /\ At(d, "unlink socket", "unlink lock")
    /\ sock_path' = NoFile
    /\ UNCHANGED <<has, lock_path, made, ipc, history>>

UnlinkLock(d) ==
    /\ At(d, "unlink lock", "create lock")
    /\ lock_path' = NoFile
    /\ UNCHANGED <<has, sock_path, made, ipc, history>>

(* create_lock: open with O_CREAT, then F_SETLK.                              *)
OpenLock(d) ==
    /\ At(d, "create lock", "lock")
    /\ IF lock_path # NoFile
       THEN /\ lock_fd' = [lock_fd EXCEPT ![d] = lock_path]
            /\ UNCHANGED files
       ELSE /\ made < MaxFiles /\ made' = made + 1
            /\ lock_path' = made + 1 /\ lock_fd' = [lock_fd EXCEPT ![d] = made + 1]
            /\ UNCHANGED sock_path
    /\ UNCHANGED <<has, locked, sock_fd, listening, history>>

SetLock(d) ==
    /\ pc[d] = "lock"
    /\ IF Holder(lock_fd[d]) = {}
       THEN Goto(d, "bind") /\ locked' = locked \cup {d} /\ UNCHANGED <<lock_fd, refused>>
       ELSE /\ Goto(d, "undo") /\ lock_fd' = [lock_fd EXCEPT ![d] = NoFile]
            /\ Refuse(d) /\ UNCHANGED locked
    /\ UNCHANGED <<has, files, sock_fd, listening, met>>

(* bind, which fails if the path leads to a file.                             *)
Bind(d) ==
    /\ pc[d] = "bind"
    /\ IF sock_path = NoFile
       THEN /\ made < MaxFiles /\ made' = made + 1
            /\ sock_path' = made + 1 /\ sock_fd' = [sock_fd EXCEPT ![d] = made + 1]
            /\ Goto(d, "listen") /\ UNCHANGED refused
       ELSE /\ Goto(d, "fail2") /\ Refuse(d)
            /\ UNCHANGED <<made, sock_path, sock_fd>>
    /\ UNCHANGED <<has, lock_path, lock_fd, locked, listening, met>>

Listen(d) ==
    /\ At(d, "listen", "run")
    /\ listening' = listening \cup {d}
    /\ has' = [has EXCEPT ![d] = @ \cup {"ipc"}]
    /\ UNCHANGED <<files, lock_fd, locked, sock_fd, history>>

(* The descriptors of the server are closed, and the lock with them.           *)
CloseAll(d) ==
    /\ sock_fd' = [sock_fd EXCEPT ![d] = NoFile] /\ listening' = listening \ {d}
    /\ lock_fd' = [lock_fd EXCEPT ![d] = NoFile] /\ locked' = locked \ {d}

(* socket() or bind() fails; listen(), set_fd_nonblocking() or eventloop_add().  *)
SocketFails(d) ==
    /\ At(d, "bind", "fail2") \/ At(d, "listen", "fail2")
    /\ UNCHANGED <<has, files, ipc, history>>

(* fail2: unlink(lock_path), close both; the socket stays.                     *)
Fail2(d) ==
    /\ At(d, "fail2", "fail2 close")
    /\ lock_path' = NoFile
    /\ UNCHANGED <<has, sock_path, made, ipc, history>>
Fail2Close(d) ==
    /\ At(d, "fail2 close", "undo")
    /\ CloseAll(d)
    /\ UNCHANGED <<has, files, history>>

-----------------------------------------------------------------------------
(* The end: ipc_uninit, then the rest of main.                                *)

StopMain(d) ==
    /\ At(d, "run", "close")
    /\ UNCHANGED <<has, files, ipc, history>>

CloseServer(d) ==
    /\ At(d, "close", "remove socket")
    /\ CloseAll(d)
    /\ has' = [has EXCEPT ![d] = @ \ {"ipc"}]
    /\ UNCHANGED <<files, history>>

RemoveSocket(d) ==
    /\ At(d, "remove socket", "remove lock")
    /\ sock_path' = NoFile
    /\ UNCHANGED <<has, lock_path, made, ipc, history>>

RemoveLock(d) ==
    /\ At(d, "remove lock", "undo")
    /\ lock_path' = NoFile
    /\ UNCHANGED <<has, sock_path, made, ipc, history>>

(* The kernel closes everything; the files stay.                              *)
Killed(d) ==
    /\ pc[d] \notin {"new", "exited"}
    /\ Goto(d, "exited")
    /\ has' = [has EXCEPT ![d] = {}]
    /\ CloseAll(d)
    /\ UNCHANGED <<files, history>>

-----------------------------------------------------------------------------

Server(d) ==
    \/ CheckLock(d) \/ UnlinkSocket(d) \/ UnlinkLock(d) \/ OpenLock(d) \/ SetLock(d)
    \/ Bind(d) \/ Listen(d) \/ Fail2(d) \/ Fail2Close(d)
    \/ CloseServer(d) \/ RemoveSocket(d) \/ RemoveLock(d)

(* What a process does without waiting for anyone. *)
Proceed(d) == Initialise(d, "database", "wayland") \/ Server(d) \/ Undo(d)

(* wayland_init, whose wl_display_roundtrip waits for the compositor.          *)
Connect(d) == Initialise(d, "wayland", "ipc")

StartupNext == \E d \in Daemons :
    \/ StartMain(d) \/ Proceed(d) \/ Connect(d) \/ StopMain(d) \/ Killed(d) \/ SocketFails(d)
    \/ InitFails(d, "database") \/ InitFails(d, "wayland")

StartupSpec == StartupInit /\ [][StartupNext]_startupVars

(* A process that is not killed goes on, except that the compositor need not    *)
(* answer; SIGINT and SIGTERM are blocked, and do not end that wait either.     *)
StartupFairSpec == StartupSpec /\ \A d \in Daemons : WF_startupVars(Proceed(d))

-----------------------------------------------------------------------------
(* Properties                                                                *)

(* A daemon that got its lock before another looked for it is the only one that *)
(* serves, however many start while it does: the paths lead to it and its lock  *)
(* is held, so that a client's connect (init_ipc of swctl) reaches it and every *)
(* start sees it.  ("Check if socket exists. If so, then check if it is actually *)
(* used by a process")                                                         *)
ServerIsFound ==
    \A d \in Running \ met :
        /\ Running = {d}
        /\ sock_path = sock_fd[d] /\ d \in listening
        /\ lock_path = lock_fd[d] /\ d \in locked

(* What a daemon left behind, however it ended, keeps no later one from starting:   *)
(* a start that met no other is refused only while another process has, gets or    *)
(* gives back its server.  (ipc_init: "if not, delete it")                          *)
StaleFilesDoNotRefuse == refused \subseteq met

(* A start or an end comes to an end, unless the compositor never answers: the      *)
(* daemon serves, or has exited with nothing left open.  (main, ipc_init, ipc_uninit) *)
StartEnds ==
    \A d \in Daemons : pc[d] \notin Ended ~>
        \/ pc[d] = "run"
        \/ pc[d] = "exited" /\ has[d] = {} /\ d \notin locked \cup listening
        \/ [](pc[d] = "wayland")

(* No two daemons serve.  The code breaks this: two that start at a time both find  *)
(* no lock, and each removes the other's.  ("Check if socket exists. If so, then     *)
(* check if it is actually used by a process")                                     *)
OneServes == \A d, e \in Running : d = e

=============================================================================
