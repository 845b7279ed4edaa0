------------------------------ MODULE FffDaemon ------------------------------
(***************************************************************************)
(* The search daemon of one workspace in a sandbox (fff-cli.mjs). Each find *)
(* or grep of the agent runs a client process; it asks the daemon behind    *)
(* the workspace's socket, starts one under a lock file when nobody answers, *)
(* and searches by itself when none comes up in time.                       *)
(*                                                                          *)
(* The lock file is empty until the daemon it was taken for listens and     *)
(* writes its process id. Times are abstracted: a lock becomes old (ten     *)
(* seconds), a client gives up waiting (five), a daemon is idle.            *)
(***************************************************************************)
EXTENDS Naturals

CONSTANTS
  Clients, Daemons,
  RecoveriesOverlap,  \* clients may judge a lock while another removes it, and
                      \* a lock may grow old while its daemon starts
  MaxFaults           \* bound: processes killed, requests cut, starts that fail

VARIABLES
  lock,     \* the lock file: absent, or whose id it holds and whether it is old
  socket,   \* the daemon whose socket file is in place
  daemon,   \* the state of each daemon process
  client,   \* the step of each client process
  peer,     \* the daemon a client is connected to
  faults

vars == <<lock, socket, daemon, client, peer, faults>>

Nobody == "nobody"
Absent == [pid |-> Nobody, old |-> FALSE, there |-> FALSE]
Fault == faults < MaxFaults /\ faults' = faults + 1
States == {"none", "spawned", "starting", "serving", "closing", "dead"}
Steps == {"new", "asked", "take", "spawn", "inspect", "remove", "retake", "poll",
          "asked_again", "answered", "refused", "alone", "killed"}

TypeOK ==
  /\ lock \in [pid : Daemons \cup {Nobody}, old : BOOLEAN, there : BOOLEAN]
  /\ socket \in Daemons \cup {Nobody} /\ daemon \in [Daemons -> States]
  /\ client \in [Clients -> Steps] /\ peer \in [Clients -> Daemons \cup {Nobody}]
  /\ faults \in 0 .. MaxFaults

Init ==
  /\ lock = Absent /\ socket = Nobody /\ daemon = [d \in Daemons |-> "none"]
  /\ client = [c \in Clients |-> "new"] /\ peer = [c \in Clients |-> Nobody]
  /\ faults = 0

At(c, step) == client[c] = step
Goes(c, step) == client' = [client EXCEPT ![c] = step]
Is(d, state) == daemon[d] = state
Becomes(d, state) == daemon' = [daemon EXCEPT ![d] = state]
Runs(d) == daemon[d] \in {"spawned", "starting", "serving", "closing"}
Serving == socket # Nobody /\ Is(socket, "serving")
Written(pid) == [pid |-> pid, old |-> FALSE, there |-> TRUE]

(***************************************************************************)
(* A client *)
(***************************************************************************)
\* requestDaemon, first attempt and while waiting for a daemon to start
Ask(c) ==
  /\ \/ At(c, "new") /\ Goes(c, IF Serving THEN "asked" ELSE "take")
     \/ At(c, "poll") /\ Serving /\ Goes(c, "asked_again")
  /\ peer' = [peer EXCEPT ![c] = IF Serving THEN socket ELSE Nobody]
  /\ UNCHANGED <<lock, socket, daemon, faults>>

\* A daemon that ends closes its connections.
Connected(c) == peer[c] # Nobody
Fails(c) == Goes(c, IF At(c, "asked") THEN "take" ELSE "poll")

\* The answer, the daemon's refusal of the command, or no answer in time
Answer(c) ==
  /\ Connected(c) /\ peer' = [peer EXCEPT ![c] = Nobody]
  /\ \/ Is(peer[c], "serving") /\ (Goes(c, "answered") \/ Goes(c, "refused")) /\ UNCHANGED faults
     \/ ~Is(peer[c], "serving") /\ Fails(c) /\ UNCHANGED faults
     \/ Fault /\ Fails(c)
  /\ UNCHANGED <<lock, socket, daemon>>

\* startDaemon: the lock file is created only if there is none.
TakeLock(c) ==
  /\ At(c, "take") \/ At(c, "retake")
  /\ IF lock.there THEN Goes(c, IF At(c, "take") THEN "inspect" ELSE "poll") /\ UNCHANGED lock
     ELSE lock' = Written(Nobody) /\ Goes(c, "spawn")
  /\ UNCHANGED <<socket, daemon, faults, peer>>
Spawn(c) ==
  /\ At(c, "spawn")
  /\ \/ \E d \in Daemons : Is(d, "none") /\ Becomes(d, "spawned")
        /\ Goes(c, "poll") /\ UNCHANGED <<lock, faults>>
     \/ Fault /\ lock' = Absent /\ Goes(c, "alone") /\ UNCHANGED daemon
  /\ UNCHANGED <<socket, peer>>

OldEnough == lock.old  \* mutant: nobody asks whether the process still runs
\* removeStaleLock: the lock of a process that is gone, once it is old. A file
\* that cannot be read counts as removed.
Stale == (lock.pid = Nobody \/ ~Runs(lock.pid)) /\ lock.old
Inspect(c) ==
  /\ At(c, "inspect")
  /\ ~RecoveriesOverlap => \A other \in Clients : ~At(other, "remove")
  /\ Goes(c, IF ~lock.there THEN "retake" ELSE IF Stale THEN "remove" ELSE "poll")
  /\ UNCHANGED <<lock, socket, daemon, faults, peer>>
RemoveLock(c) ==
  /\ At(c, "remove") /\ lock' = Absent /\ Goes(c, "retake")
  /\ UNCHANGED <<socket, daemon, faults, peer>>

\* The deadline of runViaDaemon has passed: main searches with a finder of its
\* own.
GiveUp(c) ==
  /\ At(c, "poll") /\ Goes(c, "alone") /\ UNCHANGED <<lock, socket, daemon, faults, peer>>
SearchAlone(c) ==
  /\ At(c, "alone") /\ (Goes(c, "answered") \/ Goes(c, "refused"))
  /\ UNCHANGED <<lock, socket, daemon, faults, peer>>

\* The command's own time limit kills the client.
Killed(c) ==
  /\ ~(client[c] \in {"new", "answered", "refused", "killed"}) /\ Fault
  /\ Goes(c, "killed") /\ peer' = [peer EXCEPT ![c] = Nobody]
  /\ UNCHANGED <<lock, socket, daemon>>

(***************************************************************************)
(* A daemon *)
(***************************************************************************)
\* serveDaemon: the old socket file goes, whoever's it is.
ClearSocket(d) ==
  /\ Is(d, "spawned") /\ Becomes(d, "starting") /\ socket' = Nobody
  /\ UNCHANGED <<lock, client, peer, faults>>
\* Listening fails when another daemon's socket is in place, and main removes
\* the lock of a daemon that failed to start.
Listen(d) ==
  /\ Is(d, "starting")
  /\ \/ socket = Nobody /\ Becomes(d, "serving") /\ socket' = d
        /\ lock' = Written(d) /\ UNCHANGED faults
     \/ socket # Nobody /\ Becomes(d, "dead") /\ lock' = Absent /\ UNCHANGED <<socket, faults>>
     \/ Fault /\ Becomes(d, "dead") /\ lock' = Absent /\ UNCHANGED socket
  /\ UNCHANGED <<client, peer>>

\* cleanup, after five idle minutes or a signal: the socket file goes, then the
\* lock file, whoever's they are.
Close(d) ==
  /\ Is(d, "serving") /\ Becomes(d, "closing") /\ socket' = Nobody
  /\ \/ (\A c \in Clients : peer[c] # d) /\ UNCHANGED faults
     \/ (\E c \in Clients : peer[c] = d) /\ Fault
  /\ UNCHANGED <<lock, client, peer>>
Exit(d) ==
  /\ Is(d, "closing") /\ Becomes(d, "dead") /\ lock' = Absent
  /\ UNCHANGED <<socket, client, peer, faults>>

\* The sandbox stops or the process is killed: both files stay.
Die(d) ==
  /\ Runs(d) /\ Fault /\ Becomes(d, "dead") /\ UNCHANGED <<lock, socket, client, peer>>

LockAges ==
  /\ lock.there /\ ~lock.old /\ lock' = [lock EXCEPT !.old = TRUE]
  /\ ~RecoveriesOverlap =>
       /\ \A d \in Daemons : ~Is(d, "spawned") /\ ~Is(d, "starting")
       /\ \A c \in Clients : ~At(c, "spawn")
  /\ UNCHANGED <<socket, daemon, client, peer, faults>>

Next ==
  \/ \E c \in Clients :
       \/ Ask(c) \/ Answer(c) \/ TakeLock(c) \/ Spawn(c) \/ Inspect(c)
       \/ RemoveLock(c) \/ GiveUp(c) \/ SearchAlone(c) \/ Killed(c)
  \/ \E d \in Daemons : ClearSocket(d) \/ Listen(d) \/ Close(d) \/ Exit(d) \/ Die(d)
  \/ LockAges
Spec == Init /\ [][Next]_vars

(***************************************************************************)
(* Properties *)
(***************************************************************************)
\* The searches of a workspace share one daemon and its index, whoever was
\* killed before: no second one runs, and none starts beside one that serves.
OneDaemon ==
  /\ \A d, e \in Daemons : Runs(d) /\ Runs(e) => d = e
  /\ \A d \in Daemons : Is(d, "serving") => socket = d /\ lock = [lock EXCEPT !.pid = d, !.there = TRUE]
=============================================================================
