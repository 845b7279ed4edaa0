--------------------------- MODULE RealtimeSessions ---------------------------
(***************************************************************************)
(* The live voice sessions of one ChatGPT login                             *)
(* (realtime-app-server-routes.ts): requests that start a session, which    *)
(* replaces the ones before it, or close it, under a lock of the owner;     *)
(* the process of each session, which may stop by itself                    *)
(* (realtime-app-server.ts); and the confirmation of an action that waits   *)
(* for the user.                                                            *)
(*                                                                          *)
(* A session is named by the request that starts it.  The codex app-server, *)
(* the tools of the application and the stream of events are external.      *)
(***************************************************************************)
EXTENDS Naturals, Sequences, FiniteSets

CONSTANTS
  Starts,    \* requests that start a session
  Closes,    \* requests that close one, and logouts
  Confirms,  \* confirmations of one pending action
  MaxFaults  \* bound: starts that fail, processes and applications that fail

VARIABLES
  start,    \* the step of each start request
  close,    \* the step and the target of each close request
  queue,    \* ownerOperations: the requests in the order of the lock
  managed,  \* the sessions of the routes' map
  replaces, \* the sessions the start that has the lock has closed
  process,  \* the process of each session: "none", "running" or "stopped"
  closing,  \* the close of each session: "no", "begun" or "over"
  signedIn, \* the login has tokens
  late,     \* history: the sessions that got tokens while a logout was under way
  pending,  \* the action waits for a confirmation
  confirm,  \* the step of each confirmation
  faults

vars == <<start, close, queue, managed, replaces, process, closing, signedIn, late, pending, confirm, faults>>
sessions == <<managed, replaces, process, closing>>
requests == <<start, close, queue>>
Fault == faults < MaxFaults /\ faults' = faults + 1

TypeOK ==
  /\ start \in [Starts -> {"new", "queued", "tokens", "replace", "launch", "begin", "answer",
                           "undo", "ok", "failed"}]
  /\ \A c \in Closes : /\ close[c].pc \in {"new", "queued", "wait", "forget", "done"}
                       /\ close[c].targets \subseteq Starts /\ close[c].logout \in BOOLEAN
  /\ queue \in Seq(Starts \cup Closes) /\ {managed, replaces} \subseteq SUBSET Starts /\ late \subseteq Starts
  /\ process \in [Starts -> {"none", "running", "stopped"}]
  /\ closing \in [Starts -> {"no", "begun", "over"}]
  /\ {signedIn, pending} \subseteq BOOLEAN
  /\ confirm \in [Confirms -> {"new", "run", "done", "refused", "failed"}]
  /\ faults \in 0 .. MaxFaults

Init ==
  /\ start = [s \in Starts |-> "new"] /\ queue = <<>> /\ managed = {} /\ replaces = {} /\ late = {}
  /\ close = [c \in Closes |-> [pc |-> "new", targets |-> {}, logout |-> FALSE]]
  /\ process = [s \in Starts |-> "none"] /\ closing = [s \in Starts |-> "no"]
  /\ signedIn = TRUE /\ pending = TRUE /\ confirm = [k \in Confirms |-> "new"] /\ faults = 0

At(s, pc) == start[s] = pc
Goes(s, pc) == start' = [start EXCEPT ![s] = pc]
Confirmation == <<pending, confirm>>

-----------------------------------------------------------------------------
(* ChatGPTRealtimeAppServerSession. *)

\* close(): the first call counts; the process is given time to stop.
Closed(set) == closing' = [s \in Starts |-> IF s \in set /\ closing[s] = "no" THEN "begun" ELSE closing[s]]
Over(s) == closing[s] = "over"
\* closeInternal has stopped the process and removed the home; the event makes the
\* routes forget the session.
EndClose(s) ==
  /\ closing[s] = "begun" /\ closing' = [closing EXCEPT ![s] = "over"]
  /\ process' = [process EXCEPT ![s] = "stopped"]
  /\ managed' = managed \ {s}
  /\ UNCHANGED <<requests, replaces, signedIn, late, Confirmation, faults>>
\* handleProcessStop, or the service closes the session.
StopsByItself(s) ==
  /\ process[s] = "running" /\ closing[s] = "no" /\ Fault
  /\ process' \in {process, [process EXCEPT ![s] = "stopped"]}
  /\ Closed({s})
  /\ UNCHANGED <<requests, managed, replaces, signedIn, late, Confirmation>>

-----------------------------------------------------------------------------
(* The routes. *)

Enqueue(r) == queue' = Append(queue, r)
RequestStart(s) ==
  /\ At(s, "new") /\ Goes(s, "queued") /\ Enqueue(s)
  /\ UNCHANGED <<close, sessions, signedIn, late, Confirmation, faults>>
AtOnce(r) == TRUE  \* mutant: requests of one owner do not wait for each other
\* withOwnerLock: the request at the head of the line, which leaves it in the end.
HasLock(r) == Head(queue) = r
Leaves == queue' = Tail(queue)

Enter(s) ==
  /\ At(s, "queued") /\ HasLock(s) /\ Goes(s, "tokens")
  /\ UNCHANGED <<close, queue, sessions, signedIn, late, Confirmation, faults>>
\* getFreshTokens, and then closeOwnerUnlocked.
GetTokens(s) ==
  /\ At(s, "tokens")
  /\ IF signedIn
     THEN /\ Goes(s, "replace") /\ UNCHANGED queue
          /\ replaces' = managed /\ Closed(managed) /\ managed' = {}
          /\ late' = IF \E c \in Closes : close[c].logout /\ close[c].pc # "done"
                     THEN late \cup {s} ELSE late
     ELSE Goes(s, "failed") /\ Leaves /\ UNCHANGED <<closing, managed, replaces, late>>
  /\ UNCHANGED <<close, process, signedIn, Confirmation, faults>>
\* Those it found in the map are closed: Promise.all of their close().  One whose time
\* was over before may still be closing.
Replaced(s) ==
  /\ At(s, "replace") /\ \A t \in replaces : Over(t)
  /\ Goes(s, "launch")
  /\ UNCHANGED <<close, queue, sessions, signedIn, late, Confirmation, faults>>
Launch(s) ==
  /\ At(s, "launch")
  /\ \/ Goes(s, "begin") /\ process' = [process EXCEPT ![s] = "running"] /\ UNCHANGED <<closing, faults>>
     \/ Goes(s, "undo") /\ Closed({s}) /\ Fault /\ UNCHANGED process
  /\ UNCHANGED <<close, queue, managed, replaces, signedIn, late, Confirmation>>
\* The handshake with the process succeeds, or the session is closed again.
Handshake(s) ==
  /\ At(s, "begin")
  /\ \/ process[s] = "running" /\ Goes(s, "answer") /\ UNCHANGED <<closing, faults>>
     \/ Over(s) /\ Goes(s, "undo") /\ UNCHANGED <<closing, faults>>
     \/ Goes(s, "undo") /\ Closed({s}) /\ Fault
  /\ UNCHANGED <<close, queue, managed, replaces, process, signedIn, late, Confirmation>>
Undo(s) ==
  /\ At(s, "undo") /\ Over(s) /\ Goes(s, "failed") /\ Leaves
  /\ UNCHANGED <<close, sessions, signedIn, late, Confirmation, faults>>

\* A session.closed is among the queued events.
ClosedMeanwhile(s) == Over(s)
Publish(s) ==
  /\ At(s, "answer") /\ Leaves
  /\ IF ClosedMeanwhile(s) THEN Goes(s, "failed") /\ UNCHANGED managed
     ELSE Goes(s, "ok") /\ managed' = managed \cup {s}
  /\ UNCHANGED <<close, replaces, process, closing, signedIn, late, Confirmation, faults>>
\* The session's time is over: closeSession without the lock.
Expire(s) ==
  /\ s \in managed /\ managed' = managed \ {s} /\ Closed({s})
  /\ UNCHANGED <<requests, replaces, process, signedIn, late, Confirmation, faults>>

\* A DELETE names a session; a logout closes them all.
RequestClose(c, targets, logout) ==
  /\ close[c].pc = "new" /\ Enqueue(c)
  /\ close' = [close EXCEPT ![c] = [pc |-> "queued", targets |-> targets, logout |-> logout]]
  /\ UNCHANGED <<start, sessions, signedIn, late, Confirmation, faults>>
Close(c) ==
  LET targets == IF close[c].logout THEN managed ELSE managed \cap close[c].targets IN
  /\ close[c].pc = "queued" /\ HasLock(c)
  /\ close' = [close EXCEPT ![c].pc = "wait", ![c].targets = targets]
  /\ managed' = managed \ targets /\ Closed(targets)
  /\ UNCHANGED <<start, queue, replaces, process, signedIn, late, Confirmation, faults>>
EndOfClose(c) ==
  /\ close[c].pc = "wait" /\ \A s \in close[c].targets : Over(s)
  /\ Leaves
  /\ close' = [close EXCEPT ![c].pc = IF close[c].logout THEN "forget" ELSE "done"]
  /\ UNCHANGED <<start, sessions, signedIn, late, Confirmation, faults>>
\* handleLogout deletes the login when its sessions are closed.
Forget(c) ==
  /\ close[c].pc = "forget" /\ signedIn' = FALSE
  /\ close' = [close EXCEPT ![c].pc = "done"]
  /\ UNCHANGED <<start, queue, sessions, late, Confirmation, faults>>

-----------------------------------------------------------------------------
(* resolveConfirmation. *)

Claim(k) ==
  /\ confirm[k] = "new"
  /\ IF pending THEN confirm' = [confirm EXCEPT ![k] = "run"] /\ pending' = FALSE
     ELSE confirm' = [confirm EXCEPT ![k] = "refused"] /\ UNCHANGED pending
  /\ UNCHANGED <<requests, sessions, signedIn, late, faults>>
\* The application does it, or fails and the action waits again.
Confirmed(k) ==
  /\ confirm[k] = "run"
  /\ \/ confirm' = [confirm EXCEPT ![k] = "done"] /\ UNCHANGED <<pending, faults>>
     \/ confirm' = [confirm EXCEPT ![k] = "failed"] /\ pending' = TRUE /\ Fault
  /\ UNCHANGED <<requests, sessions, signedIn, late>>

Next ==
  \/ \E s \in Starts :
       \/ RequestStart(s) \/ Enter(s) \/ GetTokens(s) \/ Replaced(s) \/ Launch(s) \/ Handshake(s)
       \/ Undo(s) \/ Publish(s) \/ Expire(s) \/ EndClose(s) \/ StopsByItself(s)
  \/ \E c \in Closes :
       \/ \E s \in Starts : RequestClose(c, {s}, FALSE)
       \/ RequestClose(c, {}, TRUE) \/ Close(c) \/ EndOfClose(c) \/ Forget(c)
  \/ \E k \in Confirms : Claim(k) \/ Confirmed(k)
Spec == Init /\ [][Next]_vars

-----------------------------------------------------------------------------
Open == {s \in Starts : process[s] = "running" /\ closing[s] = "no"}
\* A login has at most one open session, the map knows every open session no start
\* is still working on, and no session that is over; after a logout none is open,
\* but one whose start was served while the logout was under way
\* (realtime-app-server-routes.ts:141, 207).
OneLiveSession ==
  /\ Cardinality(Open) <= 1
  /\ \A s \in Open : s \in managed \/ start[s] \in {"begin", "answer"}
  /\ \A s \in managed : ~Over(s)
  /\ ~signedIn => Open \subseteq late

\* However often an action is confirmed, it is done once, and it can be confirmed
\* again when it failed (realtime-app-server.ts:225).
ConfirmedOnce ==
  /\ Cardinality({k \in Confirms : confirm[k] = "done"}) <= 1
  /\ pending \/ \E k \in Confirms : confirm[k] \in {"run", "done"}
=============================================================================
