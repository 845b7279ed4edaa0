---------------------------- MODULE SandboxUsage ----------------------------
(***************************************************************************)
(* What an E2B sandbox costs: the row of sandboxCosts, the executions kept  *)
(* beside it, and the syncs that rebuild both from the provider's lifecycle *)
(* events and one snapshot of the sandbox (sandboxCosts.ts,                 *)
(* sandboxCostActions.ts, lib/e2bUsage.ts).  The sandbox itself and its     *)
(* event log are external: it runs, pauses, resumes and is killed, and an   *)
(* event is listed some time after it happened, at the latest Lag ticks.    *)
(*                                                                          *)
(* Prices are running time.  Time is counted in ticks up to MaxTime, which  *)
(* stands for any later time: every delay has passed there.  Whether a row has a   *)
(* nextSyncAt is kept (watched) and when it is due is not: the cron and the *)
(* scheduled syncs may begin at any moment.  Rows from before usage was     *)
(* versioned, the provider's seven days of retention and the sandbox's own  *)
(* time limit (endAt) are left out.                                         *)
(***************************************************************************)
EXTENDS Integers, Sequences, SequencesExt, FiniteSetsExt

CONSTANTS
  Syncs,      \* the runs of syncOneSandboxCost that may be under way at once
  None,
  Interval,   \* ACTIVE_SYNC_INTERVAL_MS
  Window,     \* FINALIZATION_WINDOW_MS
  Measured,   \* do terminal events carry the measured running time (v2)?
  Lag,        \* an event is listed at the latest Lag ticks after it happened
  MaxRuns,    \* bound: executions of the sandbox
  MaxTime     \* bound: the clock

UsageAssumption ==
  /\ {Interval, Window, Lag, MaxRuns, MaxTime} \subseteq Nat \ {0}
  /\ Lag <= Interval /\ None \notin Nat /\ Measured \subseteq BOOLEAN

VARIABLES
  now,
  box,      \* the sandbox: its state and its executions
  log,      \* its lifecycle events, in order
  measured, \* one of Measured
  row,      \* the sandboxCosts row
  sync,     \* the local state of each sync
  control   \* what the user's call does next: start, stop or remove

vars == <<now, box, log, measured, row, sync, control>>

Time == 0 .. MaxTime
Passed(since, delay) == now - since >= delay \/ now = MaxTime
Execution == [start : Time, stop : Time \cup {None}, ms : Time \cup {None}, measured : BOOLEAN]

TypeOK ==
  /\ now \in Time /\ measured \in Measured
  /\ box.state \in {"running", "paused", "gone"} /\ Len(box.runs) \in 1 .. MaxRuns
  /\ row.status \in {"active", "pending_finalization", "finalized"}
  /\ row.watched \in BOOLEAN /\ row.complete \in BOOLEAN
  /\ ~row.watched => row.status = "finalized"
  /\ \A r \in 1 .. MaxRuns : row.executions[r] \in Execution \cup {None}
  /\ \A s \in Syncs : sync[s].pc \in {"idle", "fetch", "snapshot", "record"}
  /\ control \in {"idle", "metering", "marked"}

Init ==
  /\ now = 0
  /\ box = [state |-> "running", runs |-> <<[start |-> 0, stop |-> None]>>]
  /\ log = <<[type |-> "created", run |-> 1, at |-> 0]>>
  /\ measured \in Measured
  /\ row = [status |-> "active", watched |-> TRUE, deletedAt |-> None, price |-> None,
            complete |-> FALSE, executions |-> [r \in 1 .. MaxRuns |-> None]]
  /\ sync = [s \in Syncs |-> [pc |-> "idle", events |-> {}, checkedAt |-> None,
                              older |-> {}, stale |-> FALSE, snapshot |-> None]]
  /\ control = "idle"

-----------------------------------------------------------------------------
(* The sandbox and its log. *)

Running == box.state = "running"
Current == Len(box.runs)
Stopped == [box.runs EXCEPT ![Current].stop = IF @ = None THEN now ELSE @]
Happens(type) == log' = Append(log, [type |-> type, run |-> Len(box'.runs), at |-> now])

Pauses ==
  /\ Running
  /\ box' = [state |-> "paused", runs |-> Stopped]
  /\ Happens("paused")
\* Bound: the first execution sees overlapping syncs, a later one only one.
Alone(syncs) == \A s, o \in syncs : s # o => "idle" \in {sync[s].pc, sync[o].pc}
Resumes ==
  /\ box.state = "paused" /\ Current < MaxRuns /\ Alone(Syncs)
  /\ box' = [state |-> "running", runs |-> Append(box.runs, [start |-> now, stop |-> None])]
  /\ Happens("resumed")
\* Its last event may never be listed.
Dies ==
  /\ box.state # "gone"
  /\ box' = [state |-> "gone", runs |-> Stopped]
  /\ Happens("killed") \/ UNCHANGED log

Provider ==
  /\ now < MaxTime
  /\ Pauses \/ Dies
  /\ UNCHANGED <<now, measured, row, sync, control>>

\* A sync crosses one tick at most, and never the jump to MaxTime.
Tick ==
  /\ now < MaxTime
  /\ \A s \in Syncs : sync[s].checkedAt = None \/ (sync[s].checkedAt = now /\ now + 1 < MaxTime)
  /\ now' = now + 1
  /\ UNCHANGED <<box, log, measured, row, sync, control>>

-----------------------------------------------------------------------------
(* The user's calls: start (or open a preview), stop, remove. *)

\* lastSyncedAt moves to now: a sync that took its time before is stale.
AllStale == sync' = [s \in Syncs |-> [sync[s] EXCEPT !.stale = TRUE]]

StartOrPreview ==
  /\ control = "idle" /\ now < MaxTime
  /\ \/ Resumes
     \/ Running /\ UNCHANGED <<box, log>>
  /\ control' = "metering"
  /\ UNCHANGED <<now, measured, row, sync>>
Stop ==
  /\ control = "idle" /\ now < MaxTime
  /\ Pauses
  /\ control' = "metering"
  /\ UNCHANGED <<now, measured, row, sync>>

\* startE2BMeteringInternal and stopE2BMeteringInternal.
ScheduleSync ==
  /\ control = "metering"
  /\ control' = "idle"
  /\ IF row.status = "active" THEN AllStale ELSE UNCHANGED sync
  /\ UNCHANGED <<now, box, log, measured, row>>

\* removeWithSandbox marks the row, then deletes the sandbox.
MarkPending ==
  /\ control = "idle" /\ now < MaxTime
  /\ row' = IF row.status = "finalized" THEN row
            ELSE [row EXCEPT !.status = "pending_finalization", !.watched = TRUE,
                             !.deletedAt = IF @ = None THEN now ELSE @]
  /\ control' = "marked"
  /\ UNCHANGED <<now, box, log, measured, sync>>
Delete ==
  /\ control = "marked"
  /\ Dies \/ UNCHANGED <<box, log>>  \* gone already, or the call fails
  /\ control' = "idle"
  /\ UNCHANGED <<now, measured, row, sync>>

-----------------------------------------------------------------------------
(* The syncs: the cron every five minutes, and those that were scheduled. *)

At(s, pc) == sync[s].pc = pc
\* A sync that ends leaves the others' books; those that took their time before
\* the one recorded are stale (lastSyncedAt moves past them).
Done(s, recorded) ==
  [o \in Syncs |->
     IF o = s THEN [pc |-> "idle", events |-> {}, checkedAt |-> None,
                    older |-> {}, stale |-> FALSE, snapshot |-> None]
     ELSE [sync[o] EXCEPT !.older = @ \ {s},
                          !.stale = @ \/ (recorded /\ o \in sync[s].older)]]

\* A settled row is left alone (sandboxCostActions.ts:83).
Begin(s) ==
  /\ At(s, "idle") /\ row.watched
  /\ Current = 1 \/ \A o \in Syncs : At(o, "idle")
  /\ sync' = [sync EXCEPT ![s].pc = "fetch"]
  /\ UNCHANGED <<now, box, log, measured, row, control>>

\* The events are read, then the time is taken.
Old == {i \in DOMAIN log : Passed(log[i].at, Lag)}
FetchEvents(s) ==
  /\ At(s, "fetch")
  /\ \E young \in SUBSET (DOMAIN log \ Old) :
       sync' = [sync EXCEPT
         ![s].pc = "snapshot", ![s].events = Old \cup young, ![s].checkedAt = now,
         ![s].older = {o \in Syncs \ {s} : sync[o].pc \in {"snapshot", "record"}}]
  /\ UNCHANGED <<now, box, log, measured, row, control>>
TakeSnapshot(s) ==
  /\ At(s, "snapshot")
  /\ sync' = [sync EXCEPT ![s].pc = "record",
       ![s].snapshot = IF box.state = "gone" THEN None
                       ELSE [running |-> Running, startedAt |-> box.runs[Current].start]]
  /\ UNCHANGED <<now, box, log, measured, row, control>>
\* A call fails, and recordSyncFailureInternal keeps the row watched if it was;
\* or the sync is lost with its process.
FailSync(s) ==
  /\ sync[s].pc \in {"fetch", "snapshot"}
  /\ sync' = Done(s, FALSE)
  /\ UNCHANGED <<now, box, log, measured, row, control>>

-----------------------------------------------------------------------------
(* recordE2BUsageInternal. *)

Terminal(e) == e.type \in {"paused", "killed"}

\* mergeE2BExecutions, one event.
MergeEvent(executions, e) ==
  LET previous == executions[e.run]
      earlier == previous # None /\ (previous.stop = None \/ e.at < previous.stop)
      isMeasured == previous # None /\ previous.measured
      ran == box.runs[e.run].stop - box.runs[e.run].start
  IN [executions EXCEPT ![e.run] =
        IF ~Terminal(e)
        THEN IF previous # None THEN previous
             ELSE [start |-> e.at, stop |-> None, ms |-> None, measured |-> FALSE]
        ELSE IF measured /\ (~isMeasured \/ earlier)
        THEN [start |-> box.runs[e.run].start, stop |-> e.at, ms |-> ran, measured |-> TRUE]
        ELSE IF earlier /\ ~isMeasured
        THEN [previous EXCEPT !.stop = e.at, !.ms = e.at - previous.start]
        ELSE previous]
Merge(executions, events) ==
  FoldLeft(LAMBDA acc, i : IF i \in events THEN MergeEvent(acc, log[i]) ELSE acc,
           executions, [i \in DOMAIN log |-> i])

Known(executions) == {r \in DOMAIN executions : executions[r] # None}
Completed(executions) == {r \in Known(executions) : executions[r].ms # None}
Total(executions) == MapThenSumSet(LAMBDA r : executions[r].ms, Completed(executions))

\* The running time of the execution that is not over.
Active(s, executions) ==
  LET shot == sync[s].snapshot
      lastStop == Max({0} \cup {executions[r].stop : r \in Completed(executions)})
  IN IF shot = None THEN 0
     ELSE IF shot.running /\ shot.startedAt >= lastStop
          THEN Max({0, sync[s].checkedAt - shot.startedAt}) ELSE 0

\* Mutant: an older sync overwrites a newer one.
NeverDropped(s) == FALSE
\* Is the sync older than what the row says?
Dropped(s) == sync[s].stale

Settled(s, killedAt, complete) ==
  complete /\ killedAt # None
    /\ (sync[s].checkedAt - killedAt >= Interval \/ sync[s].checkedAt = MaxTime)

Record(s) ==
  /\ At(s, "record")
  /\ \/ /\ Dropped(s)
        /\ UNCHANGED row /\ sync' = Done(s, FALSE)
     \/ /\ ~Dropped(s)
        /\ LET shot == sync[s].snapshot
               events == {log[i] : i \in sync[s].events}
               executions == Merge(row.executions, sync[s].events)
               done == Completed(executions)
               open == Known(executions) \ done
               current == IF shot # None /\ shot.running /\ open # {} THEN {Max(open)} ELSE {}
               missing == \/ open \ current # {}
                          \/ \E e \in events : Terminal(e) /\ e.run \notin done
               kills == {e.at : e \in {k \in events : k.type = "killed"}}
               killedAt == IF kills = {} THEN None ELSE Max(kills)
               created == \E e \in events : e.type = "created"
               deletedAt == IF shot # None THEN row.deletedAt
                            ELSE IF killedAt # None THEN killedAt
                            ELSE IF row.deletedAt # None THEN row.deletedAt
                            ELSE sync[s].checkedAt
               expired == deletedAt # None /\ Passed(deletedAt, Window)
               finalized == shot = None /\ (killedAt # None \/ row.status = "finalized" \/ expired)
               complete == /\ created \/ row.complete
                           /\ ~missing /\ (shot # None \/ killedAt # None)
               hasUsage == done # {} \/ (shot # None /\ shot.running)
           IN row' = [status |-> IF finalized THEN "finalized"
                                 ELSE IF shot = None \/ row.status = "pending_finalization"
                                 THEN "pending_finalization" ELSE "active",
                      watched |-> ~(finalized /\ (Settled(s, killedAt, complete) \/ expired)),
                      deletedAt |-> deletedAt, complete |-> complete, executions |-> executions,
                      price |-> IF hasUsage \/ complete
                                THEN Total(executions) + Active(s, executions) ELSE None]
        /\ sync' = Done(s, TRUE)
  /\ UNCHANGED <<now, box, log, measured, control>>

SyncStep(s) ==
  FetchEvents(s) \/ TakeSnapshot(s) \/ Record(s)

Next ==
  \/ Provider \/ Tick
  \/ StartOrPreview \/ Stop \/ ScheduleSync \/ MarkPending \/ Delete
  \/ \E s \in Syncs : Begin(s) \/ FailSync(s) \/ SyncStep(s)

Spec == Init /\ [][Next]_vars

-----------------------------------------------------------------------------
Ran(r) == (IF box.runs[r].stop = None THEN now ELSE box.runs[r].stop) - box.runs[r].start
TimeRun == MapThenSumSet(Ran, DOMAIN box.runs)

\* A row nobody will sync again, and that does not say history is missing, has
\* exactly the time the sandbox ran, however events, snapshots and syncs
\* overlapped (sandboxCosts.ts:249-253, 273-275).
SettledIsExact ==
  ~row.watched /\ row.complete => box.state = "gone" /\ row.price = TimeRun

\* With measured events nobody is ever shown more time than the sandbox ran:
\* neither the pause before a deletion nor an execution counts twice
\* (sandboxCosts.ts:186, e2bUsage.ts:87).
NeverOvercharged == measured /\ row.price # None => row.price <= TimeRun

\* A late answer of an old sync never brings a row back that was finalized on the
\* provider's word that the sandbox was killed.
StaysFinal == row.status = "finalized" /\ row.complete => row'.status = "finalized"
FinalizedIsFinal == [][StaysFinal]_vars
=============================================================================
