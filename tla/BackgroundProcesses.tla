------------------------- MODULE BackgroundProcesses -------------------------
(***************************************************************************)
(* The commands an agent runs in an E2B sandbox: bash and the process tool   *)
(* (tools/bash.ts, tools/process.ts), executeSandboxCommand under them, and  *)
(* the table of command sessions the adapter keeps per sandbox               *)
(* (sandbox/e2b.ts), which drops idle sessions to make room.                 *)
(*                                                                          *)
(* Every command has a session of its own, so a call stands for its session *)
(* and its command too, and the pruning of commands within a session never  *)
(* applies. Output is left out.                                              *)
(***************************************************************************)
EXTENDS Naturals, Sequences, SequencesExt

CONSTANTS
  Calls,
  MaxSessions,    \* E2B_MAX_SESSIONS_PER_SANDBOX
  StartsOverlap,  \* a session may be asked for while a background command starts
  MaxFaults       \* bound: requests that fail, streams that break

VARIABLES
  call,      \* the step of each call of bash, and whether it is a background one
  process,   \* the process in the sandbox
  sessions,  \* the table, oldest session first
  command,   \* what the adapter holds of a call's command
  poll,      \* the process tool's latest poll: under way, or what it said
  faults

vars == <<call, process, sessions, command, poll, faults>>

Fault == faults < MaxFaults /\ faults' = faults + 1
NoCommand == [there |-> FALSE, handle |-> FALSE, exited |-> FALSE]

TypeOK ==
  /\ call \in [Calls -> [step : {"new", "session", "launch", "runs", "named", "clean",
                                 "ended", "failed", "terminated"}, background : BOOLEAN]]
  /\ process \in [Calls -> {"none", "running", "gone"}]
  /\ sessions \in Seq(Calls) /\ Len(sessions) <= MaxSessions /\ IsInjective(sessions)
  /\ command \in [Calls -> [there : BOOLEAN, handle : BOOLEAN, exited : BOOLEAN]]
  /\ poll \in [Calls -> {"none", "connecting", "running", "finished", "error"}]
  /\ faults \in 0 .. MaxFaults

Init ==
  /\ call = [c \in Calls |-> [step |-> "new", background |-> FALSE]]
  /\ process = [c \in Calls |-> "none"] /\ sessions = <<>>
  /\ command = [c \in Calls |-> NoCommand] /\ poll = [c \in Calls |-> "none"] /\ faults = 0

At(c, step) == call[c].step = step
Goes(c, step) == call' = [call EXCEPT ![c].step = step]
Without(c) == RemoveFirst(sessions, c)
Listed(c) == c \in ToSet(sessions)
Active(c) == command[c].there /\ ~command[c].exited

(***************************************************************************)
(* The table of sessions *)
(***************************************************************************)
\* A session all of whose commands have completed may go.
Evictable(c) == ~Active(c)
\* getOrCreateSession: the oldest idle session makes room when the table is full.
Full == Len(sessions) >= MaxSessions
Room ==
  IF ~Full THEN sessions
  ELSE LET idle == {i \in DOMAIN sessions : Evictable(sessions[i])}
       IN IF idle = {} THEN sessions
          ELSE RemoveAt(sessions, CHOOSE i \in idle : \A j \in idle : i <= j)
HasSession(c) == IF Listed(c) THEN sessions' = sessions ELSE sessions' = Append(Room, c)
NoRoom(c) == ~Listed(c) /\ Len(Room) >= MaxSessions

\* pruneSandboxSessionCaches: a table nobody used for two hours goes, unless a
\* command is active.
InUse(c) == At(c, "session") \/ At(c, "launch") \/ At(c, "runs") \/ At(c, "clean")
PruneCache ==
  /\ sessions # <<>> /\ \A c \in Calls : ~(Listed(c) /\ Active(c)) /\ ~InUse(c)
  /\ sessions' = <<>> /\ UNCHANGED <<call, process, command, poll, faults>>

(***************************************************************************)
(* bash: executeSandboxCommand *)
(***************************************************************************)
Starting(b) == call[b].background /\ (At(b, "session") \/ At(b, "launch"))
MayLookUp(c) == StartsOverlap \/ \A b \in Calls \ {c} : ~Starting(b)
\* createSession
CreateSession(c, background) ==
  /\ At(c, "new")
  /\ MayLookUp(c)
  /\ IF NoRoom(c) THEN UNCHANGED sessions ELSE HasSession(c)
  /\ call' = [call EXCEPT ![c] = [step |-> IF NoRoom(c) THEN "failed" ELSE "session",
                                  background |-> background]]
  /\ UNCHANGED <<process, command, poll, faults>>

\* executeSessionCommand: the session is looked up, or made again; the command's
\* environment is read and the command is sent. Only a foreground call cleans up
\* after an error.
Fails(c) == Goes(c, IF call[c].background THEN "failed" ELSE "clean")
Execute(c) ==
  /\ At(c, "session") /\ MayLookUp(c)
  /\ \/ NoRoom(c) /\ Fails(c) /\ UNCHANGED <<sessions, process, faults>>
     \/ ~NoRoom(c) /\ HasSession(c) /\ Fault /\ Fails(c) /\ UNCHANGED process
     \/ /\ ~NoRoom(c) /\ HasSession(c) /\ UNCHANGED faults
        /\ process' = [process EXCEPT ![c] = "running"]
        /\ Goes(c, IF call[c].background THEN "launch" ELSE "runs")
  /\ UNCHANGED <<command, poll>>
\* The command is entered in the session that was looked up, listed still or not;
\* an answer that does not come in time leaves a process nobody knows of.
Launched(c) ==
  /\ At(c, "launch")
  /\ \/ /\ command' = [command EXCEPT ![c] = [there |-> TRUE, handle |-> TRUE, exited |-> FALSE]]
        /\ Goes(c, "named") /\ UNCHANGED faults
     \/ Fault /\ Fails(c) /\ UNCHANGED command
  /\ UNCHANGED <<process, sessions, poll>>
\* A foreground command ends, by itself or by its time limit.
Finish(c) ==
  /\ At(c, "runs") /\ process' = [process EXCEPT ![c] = "gone"] /\ Goes(c, "clean")
  /\ UNCHANGED <<sessions, command, poll, faults>>
\* cleanupCommandSession: deleteSession, whose failure is ignored
CleanUp(c) ==
  /\ At(c, "clean") /\ sessions' = Without(c) /\ Goes(c, "ended")
  /\ UNCHANGED <<process, command, poll, faults>>

(***************************************************************************)
(* The process and its stream *)
(***************************************************************************)
Exits(c) ==
  /\ process[c] = "running" /\ call[c].background
  /\ process' = [process EXCEPT ![c] = "gone"]
  /\ UNCHANGED <<call, sessions, command, poll, faults>>
\* trackCommand: the stream ends with the exit code, or breaks.
StreamEnds(c) ==
  /\ command[c].handle
  /\ \/ /\ process[c] = "gone" /\ UNCHANGED faults
        /\ command' = [command EXCEPT ![c].handle = FALSE, ![c].exited = TRUE]
     \/ Fault /\ command' = [command EXCEPT ![c].handle = FALSE]
  /\ UNCHANGED <<call, process, sessions, poll>>

(***************************************************************************)
(* The process tool *)
(***************************************************************************)
Says(c, what) == poll' = [poll EXCEPT ![c] = what]
Shown(c) == IF command[c].exited THEN "finished" ELSE "running"
\* poll: requireCommand attaches again when the stream broke.
Poll(c) ==
  /\ At(c, "named") /\ poll[c] # "connecting"
  /\ Says(c, IF ~Listed(c) THEN "error"
             ELSE IF Active(c) /\ ~command[c].handle THEN "connecting"
             ELSE Shown(c))
  /\ UNCHANGED <<call, process, sessions, command, faults>>
Reconnect(c) ==
  /\ poll[c] = "connecting"
  /\ \/ process[c] = "running" /\ command' = [command EXCEPT ![c].handle = TRUE]
        /\ Says(c, "running") /\ UNCHANGED faults
     \/ process[c] = "gone" /\ Says(c, "error") /\ UNCHANGED <<command, faults>>
     \/ Fault /\ Says(c, "error") /\ UNCHANGED command
  /\ UNCHANGED <<call, process, sessions>>

\* terminate: deleteSession kills a command that has not completed, and what it
\* does not find counts as deleted. After thirty seconds the tool reports an
\* error while the deletion goes on.
Kill(c) == process' = [process EXCEPT ![c] = IF process[c] = "running" THEN "gone" ELSE @]
Terminate(c) ==
  /\ At(c, "named")
  /\ \/ ~Listed(c) /\ Goes(c, "terminated") /\ UNCHANGED <<process, sessions, faults>>
     \/ /\ Listed(c) /\ sessions' = Without(c)
        /\ IF Active(c) THEN Kill(c) ELSE UNCHANGED process
        /\ \/ Goes(c, "terminated") /\ UNCHANGED faults
           \/ Fault /\ UNCHANGED call
     \/ Listed(c) /\ Active(c) /\ Fault /\ UNCHANGED <<call, process, sessions>>
  /\ UNCHANGED <<command, poll>>

Next ==
  \/ \E c \in Calls :
       \/ \E background \in BOOLEAN : CreateSession(c, background)
       \/ Execute(c) \/ Launched(c) \/ Finish(c) \/ CleanUp(c) \/ Exits(c)
       \/ StreamEnds(c) \/ Poll(c) \/ Reconnect(c) \/ Terminate(c)
  \/ PruneCache
Spec == Init /\ [][Next]_vars

(***************************************************************************)
(* Properties *)
(***************************************************************************)
\* A background command that the agent was told of can be polled and ended as
\* long as it runs, whatever was dropped to make room; what is reported finished
\* or terminated does not run.
BackgroundIsManageable ==
  \A c \in Calls :
    /\ At(c, "named") /\ process[c] = "running" => Listed(c) /\ Active(c)
    /\ At(c, "terminated") \/ poll[c] = "finished" => process[c] # "running"
=============================================================================
