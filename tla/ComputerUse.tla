------------------------------ MODULE ComputerUse ------------------------------
(***************************************************************************)
(* The computer tool of one agent turn: the queue of its operations         *)
(* (computer.ts), the observation that a coordinate action must name        *)
(* (computer-session.ts, computer-observation.ts), the client's two         *)
(* attempts at a command (cua-client.ts) and the gateway in the sandbox,    *)
(* which runs one command at a time (cua_gateway.py).                       *)
(*                                                                          *)
(* The screen is the sequence of the actions that took effect on it; what   *)
(* applications draw by themselves is left out.  The CUA driver and the     *)
(* provider's preview proxy are external.                                   *)
(***************************************************************************)
EXTENDS Naturals, Sequences

CONSTANTS
  Calls,
  MaxFaults   \* bound: requests that fail and operations that time out

VARIABLES
  call,     \* the local state of each call of the tool
  queue,    \* the calls of the session in the order they were made
  op,       \* the tracked operation of the head of the queue
  last,     \* session.lastObservation
  sequence, \* observationSequence
  screen,   \* the calls that took effect, in order
  faults

vars == <<call, queue, op, last, sequence, screen, faults>>

\* A coordinate action, one without coordinates and a screenshot.
Kinds == {"click", "type", "screenshot"}
Steps == {"new", "queued", "ready", "check", "act", "observe", "capture", "ok", "failed"}
NoOp == [what |-> "none", attempt |-> 0]
NoObservation == [id |-> 0, screen |-> 0]
Fault == faults < MaxFaults /\ faults' = faults + 1

TypeOK ==
  /\ \A c \in Calls : /\ call[c].kind \in Kinds /\ call[c].pc \in Steps
                      /\ call[c].names \in 0 .. sequence /\ call[c].saw \in 0 .. Len(screen)
  /\ queue \in Seq(Calls) /\ screen \in Seq(Calls)
  /\ op \in [what : {"none", "action", "capture", "settled"}, attempt : 0 .. 1]
  /\ last.id \in 0 .. sequence /\ last.screen \in 0 .. Len(screen)
  /\ faults \in 0 .. MaxFaults

Init ==
  /\ call \in [Calls -> {[kind |-> k, pc |-> "new", names |-> 0, saw |-> 0] : k \in Kinds}]
  /\ queue = <<>> /\ op = NoOp /\ last = NoObservation /\ sequence = 0
  /\ screen = <<>> /\ faults = 0

-----------------------------------------------------------------------------
(* The tool. *)

At(c, pc) == call[c].pc = pc
Goes(c, pc) == call' = [call EXCEPT ![c].pc = pc]
Idle == op.what \in {"none", "settled"}

\* The model names the last observation it was given; it may make several calls
\* at once.
Invoke(c) ==
  /\ At(c, "new")
  /\ call' = [call EXCEPT ![c].pc = "queued", ![c].names = last.id, ![c].saw = last.screen]
  /\ queue' = Append(queue, c)
  /\ UNCHANGED <<op, last, sequence, screen, faults>>

\* Mutant: a call does not wait for the ones before it.
StartsAtOnce(c) == op.what = "none"
\* serializeComputerOperations: after the calls before it, and their operations.
MayStart(c) == Head(queue) = c /\ op.what = "none"
\* The desktop and the gateway are made ready first, or the call fails.
Start(c) ==
  /\ At(c, "queued") /\ MayStart(c)
  /\ \/ Goes(c, "check") /\ UNCHANGED faults
     \/ Fault /\ Goes(c, "failed")
  /\ UNCHANGED <<queue, op, last, sequence, screen>>

\* requireCurrentObservation
IsCurrent(c) == last # NoObservation /\ call[c].names = last.id
Check(c) ==
  /\ At(c, "check")
  /\ IF call[c].kind = "click" /\ ~IsCurrent(c) THEN Goes(c, "failed") /\ UNCHANGED op
     ELSE IF call[c].kind = "screenshot" THEN Goes(c, "observe") /\ UNCHANGED op
     ELSE /\ Goes(c, "act") /\ op' = [what |-> "action", attempt |-> 0]
  /\ UNCHANGED <<queue, last, sequence, screen, faults>>

Observe(c) ==
  /\ At(c, "observe") /\ Idle
  /\ sequence' = sequence + 1
  /\ Goes(c, "capture") /\ op' = [what |-> "capture", attempt |-> 0]
  /\ UNCHANGED <<queue, last, screen, faults>>

\* runBoundedComputerOperation: the call fails, its operation goes on.
TimeOut(c) ==
  /\ call[c].pc \in {"act", "capture"} /\ ~Idle /\ Fault
  /\ Goes(c, "failed")
  /\ UNCHANGED <<queue, op, last, sequence, screen>>

\* The call is answered, and the last operation of it has settled.
Leave(c) ==
  /\ queue # <<>> /\ Head(queue) = c /\ call[c].pc \in {"ok", "failed"} /\ Idle
  /\ queue' = Tail(queue) /\ op' = NoOp
  /\ UNCHANGED <<call, last, sequence, screen, faults>>

-----------------------------------------------------------------------------
(* The request, CuaComputerClient.request and command. *)

Retried == {"capture"}  \* IDEMPOTENT_CUA_COMMANDS
Settles == op' = [op EXCEPT !.what = "settled"]
Owner == Head(queue)

\* The command runs in the gateway and is answered.
Answered ==
  /\ queue # <<>> /\ op.what \in {"action", "capture"} /\ Settles
  /\ IF op.what = "action"
     THEN /\ screen' = Append(screen, Owner)
          /\ IF At(Owner, "act") THEN Goes(Owner, "observe") ELSE UNCHANGED call
          /\ UNCHANGED last
     ELSE /\ IF At(Owner, "capture")
             THEN Goes(Owner, "ok") /\ last' = [id |-> sequence, screen |-> Len(screen)]
             ELSE UNCHANGED <<call, last>>
          /\ UNCHANGED screen
  /\ UNCHANGED <<queue, sequence, faults>>

\* The preview has expired (401, 403, 404): nothing ran, and the command is sent
\* again through a new one.
Expired ==
  /\ op.what \in {"action", "capture"} /\ op.attempt = 0 /\ Fault
  /\ op' = [op EXCEPT !.attempt = 1]
  /\ UNCHANGED <<call, queue, last, sequence, screen>>

Retries == op.attempt = 0 /\ op.what \in Retried
\* The request fails, before the command ran or after.
Lost ==
  /\ queue # <<>> /\ op.what \in {"action", "capture"} /\ Fault
  /\ screen' \in IF op.what = "action" THEN {screen, Append(screen, Owner)} ELSE {screen}
  /\ IF Retries THEN op' = [op EXCEPT !.attempt = 1] /\ UNCHANGED call
     ELSE /\ Settles
          /\ IF call[Owner].pc \in {"act", "capture"} THEN Goes(Owner, "failed") ELSE UNCHANGED call
  /\ UNCHANGED <<queue, last, sequence>>

-----------------------------------------------------------------------------
Next ==
  \/ \E c \in Calls :
       Invoke(c) \/ Start(c) \/ Check(c) \/ Observe(c) \/ TimeOut(c) \/ Leave(c)
  \/ Answered \/ Expired \/ Lost
Spec == Init /\ [][Next]_vars

-----------------------------------------------------------------------------
\* An action takes effect at most once, however often its request was sent, and a
\* coordinate action on the screen the model saw: what changed since is the doing
\* of calls that were answered as failed (computer.ts:36, 310, cua-client.ts:430).
ActsOnWhatItSaw ==
  \A i \in DOMAIN screen :
    /\ \A j \in DOMAIN screen : screen[i] = screen[j] => i = j
    /\ call[screen[i]].kind = "click" =>
         \A j \in call[screen[i]].saw + 1 .. i - 1 : At(screen[j], "failed")
=============================================================================
