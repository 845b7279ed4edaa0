------------------------------ MODULE CuaGateway ------------------------------
(***************************************************************************)
(* How an action of the computer tool reaches the screen.  The action is a   *)
(* few commands and a capture (computer.ts, computer-observation.ts), the    *)
(* client sends them one by one (cua-client.ts), and the gateway runs each   *)
(* as one or more calls of the driver, under a lock that is first come,      *)
(* first served; it starts the driver's session again when that has ended,   *)
(* and cancels what takes too long (cua_gateway.py).                         *)
(*                                                                          *)
(* The calls of the tool follow each other (ComputerUse models its queue).   *)
(* The screen and its captures are one line of pixels, Screen and Source     *)
(* long.  The driver is external: a call of it that is cancelled has         *)
(* happened or does not happen.                                             *)
(***************************************************************************)
EXTENDS Integers, Sequences, FiniteSetsExt, SequencesExt

CONSTANTS
  Screen, Source,  \* the width of the screen, and of what is captured of it
  WindowSize,      \* the width of the window
  MaxCalls,        \* bound: calls of the tool
  MaxFaults        \* bound: failures, and moves of the window

\* A capture more than twice as fine as the screen rounds its last pixel off it.
GatewayAssumption ==
  /\ {Screen, Source, WindowSize} \subseteq Nat \ {0} /\ Source < 2 * Screen
  /\ {MaxCalls, MaxFaults} \subseteq Nat

VARIABLES
  call,     \* the call: [n, kind, x, program, at, attempt], x on the screen
  jobs,     \* the commands in the gateway, in the order of its lock
  session,  \* the driver's session: "open" or "ended"
  strokes,  \* the calls of the driver that changed the screen, in order
  pointer,  \* where the pointer is
  window,   \* where the window is, or -1 when it is closed
  request,  \* observationRequest: "full" or "window"
  shot,     \* the capture that is being made: how many strokes it shows
  last,     \* lastObservation
  ended,    \* the calls that have ended: [kind, well]
  faults

vars == <<call, jobs, session, strokes, pointer, window, request, shot, last, ended, faults>>

Fault == faults < MaxFaults /\ faults' = faults + 1

\* Coordinate actions, and screenshots of the screen and of the window.
Pointing == {"drag", "scroll", "double_click"}
Kinds == Pointing \cup {"type", "screenshot", "screenshot_window"}
Idle == [n |-> 0, kind |-> "type", x |-> 0, program |-> <<>>, at |-> 1, attempt |-> 0]
NoObservation == [call |-> 0, shows |-> 0, window |-> -1, origin |-> 0, width |-> 0]

\* runOneAction: the commands of an action; a double click of the right button is two.
Commands(kind) ==
  CASE kind = "scroll" -> <<"move_cursor", "scroll_direction">>
    [] kind = "double_click" -> <<"right_click", "right_click">>
    [] kind = "drag" -> <<"drag">>
    [] kind = "type" -> <<"type_text">>
    [] OTHER -> <<>>
\* captureCuaObservation
Captures(r) == IF r = "window" THEN <<"get_desktop_state", "get_window_position">>
               ELSE <<"get_desktop_state">>
Idempotent == {"get_desktop_state", "get_window_position"}

\* _dispatch: the calls of the driver a command makes; a drag makes one a segment.
DriverCalls(command) ==
  CASE command = "drag" -> <<"drag", "drag">>
    [] command = "scroll_direction" -> <<"cursor", "scroll">>
    [] OTHER -> <<command>>
Reads == Idempotent \cup {"cursor"}
\* Windows are asked for without the driver.
NeedsSession(c) == c # "get_window_position"

TypeOK ==
  /\ call.n = Len(ended) + (IF call.program = <<>> THEN 0 ELSE 1)
  /\ call.kind \in Kinds /\ call.x \in 0 .. Screen - 1 /\ call.attempt \in 0 .. 1
  /\ call.at \in 1 .. Len(call.program) + 1
  /\ \A i \in DOMAIN jobs :
       /\ jobs[i].call \in 1 .. MaxCalls /\ jobs[i].at \in 1 .. 4 /\ jobs[i].x \in 0 .. Screen - 1
       /\ jobs[i].step \in DOMAIN DriverCalls(jobs[i].command)
       /\ {jobs[i].again, jobs[i].heard, jobs[i].cancelled} \subseteq BOOLEAN
  /\ Cardinality({i \in DOMAIN jobs : jobs[i].heard}) <= 1
  /\ session \in {"open", "ended"} /\ pointer \in 0 .. Screen - 1 /\ window \in -1 .. Screen
  /\ request \in {"full", "window"} /\ shot \in 0 .. Len(strokes)
  /\ last.call <= Len(ended) /\ last.shows <= Len(strokes) /\ last.origin + last.width <= Source
  /\ ended \in Seq([kind : Kinds, well : BOOLEAN]) /\ Len(ended) <= MaxCalls /\ faults \in 0 .. MaxFaults

Init ==
  /\ call = Idle /\ jobs = <<>> /\ session = "open" /\ strokes = <<>> /\ pointer = 0
  /\ window = 0 /\ request = "full" /\ shot = 0
  /\ last = NoObservation /\ ended = <<>> /\ faults = 0

-----------------------------------------------------------------------------
(* The image and the screen. *)

\* observationPointToScreen, rounding to the nearest pixel
ToScreen(o, p) == (2 * (o.origin + p) * Screen + Source) \div (2 * Source)

CeilDiv(a, b) == (a + b - 1) \div b
\* windowRegion, and boundedRegion, which refuses a window that is off the image.
Region ==
  LET x == (window * Source) \div Screen
  IN [window |-> window, origin |-> x, width |-> Min({CeilDiv(WindowSize * Source, Screen), Source - x})]
WholeScreen == [window |-> -1, origin |-> 0, width |-> Source]
HasRegion == window \in 0 .. Screen - 1

-----------------------------------------------------------------------------
(* The tool. *)

Making == call.program # <<>>
Heard == \E i \in DOMAIN jobs : jobs[i].heard

\* A coordinate action names the last observation and a point in it; a screenshot
\* says what is captured from now on.
Make ==
  /\ ~Making /\ Len(ended) < MaxCalls
  /\ \E kind \in Kinds, p \in {0, last.width - 1} :
       /\ kind \in Pointing => last # NoObservation
       /\ kind \notin Pointing => p = 0
       /\ request' = IF kind = "screenshot" THEN "full"
                     ELSE IF kind = "screenshot_window" THEN "window" ELSE request
       /\ call' = [n |-> Len(ended) + 1, kind |-> kind,
                   x |-> IF kind \in Pointing THEN ToScreen(last, p) ELSE 0,
                   program |-> Commands(kind) \o Captures(request'), at |-> 1, attempt |-> 0]
  /\ UNCHANGED <<jobs, session, strokes, pointer, window, shot, last, ended, faults>>

Job == [call |-> call.n, at |-> call.at, command |-> call.program[call.at], x |-> call.x, step |-> 1,
        again |-> FALSE, heard |-> TRUE, cancelled |-> FALSE]
\* CuaComputerClient.command
Send ==
  /\ Making /\ ~Heard /\ jobs' = Append(jobs, Job)
  /\ UNCHANGED <<call, session, strokes, pointer, window, request, shot, last, ended, faults>>

EndCall(well) ==
  /\ ended' = Append(ended, [kind |-> call.kind, well |-> well])
  /\ call' = [Idle EXCEPT !.n = call.n]
CallFails == EndCall(FALSE) /\ UNCHANGED last
\* The next command, or the end of the call with what was captured.
CallGoesOn ==
  IF call.at < Len(call.program)
  THEN call' = [call EXCEPT !.at = @ + 1, !.attempt = 0] /\ UNCHANGED <<ended, last>>
  ELSE LET r == IF request = "window" THEN Region ELSE WholeScreen
       IN /\ EndCall(TRUE)
          /\ last' = [call |-> call.n, shows |-> shot',
                      window |-> r.window, origin |-> r.origin, width |-> r.width]

\* A failed request is made again when the command only reads.
Lose ==
  /\ Heard /\ Fault
  /\ jobs' = [i \in DOMAIN jobs |-> [jobs[i] EXCEPT !.heard = FALSE]]
  /\ IF call.attempt = 0 /\ call.program[call.at] \in Idempotent
     THEN call' = [call EXCEPT !.attempt = 1] /\ UNCHANGED <<ended, last>>
     ELSE CallFails
  /\ UNCHANGED <<session, strokes, pointer, window, request, shot>>

-----------------------------------------------------------------------------
(* The gateway. *)

\* asyncio.Lock: the first of those that wait.
Turn == {1}
Running == Turn \cap DOMAIN jobs
Without(i) == RemoveAt(jobs, i)

Answers(i, ok) ==
  /\ jobs' = Without(i)
  /\ IF ~jobs[i].heard THEN UNCHANGED <<call, ended, last>>
     ELSE IF ok THEN CallGoesOn ELSE CallFails

\* The session has ended: it is started, and the command begins again, once.
\* The session is gone and the command has been tried again: an error.
Reopen(i) ==
  /\ i \in Running /\ session = "ended"
  /\ NeedsSession(DriverCalls(jobs[i].command)[jobs[i].step])
  /\ IF jobs[i].again
     THEN Answers(i, FALSE) /\ UNCHANGED session
     ELSE /\ session' = "open" /\ jobs' = [jobs EXCEPT ![i].again = TRUE, ![i].step = 1]
          /\ UNCHANGED <<call, ended, last>>
  /\ UNCHANGED <<strokes, pointer, window, request, shot, faults>>

\* One call of the driver; after the last one of the command it is answered.
Drive(i) ==
  /\ i \in Running
  /\ LET j == jobs[i]
         does == DriverCalls(j.command)[j.step]
         where == IF does = "scroll" THEN pointer ELSE j.x
     IN /\ session = "open" \/ ~NeedsSession(does)
        /\ strokes' = IF does \in Reads THEN strokes
                      ELSE Append(strokes, [call |-> j.call, at |-> j.at, step |-> j.step,
                                            does |-> does, x |-> where])
        /\ pointer' = IF does \in Reads \cup {"type_text"} THEN pointer ELSE where
        /\ shot' = IF does = "get_desktop_state" /\ j.heard THEN Len(strokes) ELSE shot
        /\ IF does = "get_window_position" /\ ~HasRegion THEN Answers(i, FALSE)
           ELSE IF j.step = Len(DriverCalls(j.command)) THEN Answers(i, TRUE)
           ELSE jobs' = [jobs EXCEPT ![i].step = @ + 1] /\ UNCHANGED <<call, ended, last>>
  /\ UNCHANGED <<session, window, request, faults>>

DriverFails(i) ==
  /\ i \in Running /\ Fault /\ Answers(i, FALSE)
  /\ UNCHANGED <<session, strokes, pointer, window, request, shot>>

\* CuaGatewayRuntime.call: the time runs also while the command waits for the lock.
\* The error is answered first; the loop cancels the command when it gets to it.
TakesTooLong(i) ==
  /\ i \in DOMAIN jobs /\ ~jobs[i].cancelled /\ Fault
  /\ jobs' = [jobs EXCEPT ![i].cancelled = TRUE, ![i].heard = FALSE]
  /\ IF jobs[i].heard THEN CallFails ELSE UNCHANGED <<call, ended, last>>
  /\ UNCHANGED <<session, strokes, pointer, window, request, shot>>
Cancel(i) ==
  /\ i \in DOMAIN jobs /\ jobs[i].cancelled /\ jobs' = Without(i)
  /\ UNCHANGED <<call, session, strokes, pointer, window, request, shot, last, ended, faults>>

SessionEnds ==
  /\ session = "open" /\ Fault /\ session' = "ended"
  /\ UNCHANGED <<call, jobs, strokes, pointer, window, request, shot, last, ended>>
WindowMoves ==
  /\ Fault /\ window' \in (-1 .. Screen) \ {window}
  /\ UNCHANGED <<call, jobs, session, strokes, pointer, request, shot, last, ended>>

Jobs == 1 .. MaxCalls + MaxFaults
Next ==
  \/ Make \/ Send \/ Lose \/ SessionEnds \/ WindowMoves
  \/ \E i \in Jobs : Reopen(i) \/ Drive(i) \/ DriverFails(i) \/ TakesTooLong(i) \/ Cancel(i)

Spec == Init /\ [][Next]_vars

-----------------------------------------------------------------------------
\* What calls do to the screen they do in their order, also when one was answered as
\* failed while its command still ran (cua_gateway.py, _dispatch_serialized).
StrokesFollowCalls ==
  \A i, j \in DOMAIN strokes :
    i < j => \/ strokes[i].call < strokes[j].call
             \/ strokes[i].call = strokes[j].call /\ strokes[i].at <= strokes[j].at

\* Nothing an earlier call did comes after the image the model was shown last.
ObservationIsFinal ==
  \A i \in last.shows + 1 .. Len(strokes) : strokes[i].call > last.call

\* A command that was answered well has been done from its beginning to its end, and
\* before that at most once in part, when the session ended in between.  What it asks
\* the driver first changes nothing.
Of(n, at) == {i \in DOMAIN strokes : strokes[i].call = n /\ strokes[i].at = at}
FirstChange(command) == IF DriverCalls(command)[1] \in Reads THEN 2 ELSE 1
IsDone(n, at, command) ==
  LET first == FirstChange(command)
      all == Len(DriverCalls(command)) - first + 1
  IN \E begun \in 0 .. all - 1, from \in 0 .. Len(strokes) :
       /\ Of(n, at) = from + 1 .. from + begun + all
       /\ \A i \in 1 .. begun : strokes[from + i].step = first + i - 1
       /\ \A i \in 1 .. all : strokes[from + begun + i].step = first + i - 1
DoneInFull ==
  \A n \in DOMAIN ended : ended[n].well =>
    \A at \in DOMAIN Commands(ended[n].kind) : IsDone(n, at, Commands(ended[n].kind)[at])

\* Every point of the image is on the screen, and a point of the image of a window is
\* in the window, give or take a pixel of the image; a call acts where the model
\* pointed.
PointsAreShown ==
  /\ \A p \in 0 .. last.width - 1 :
       LET x == ToScreen(last, p)
       IN /\ x \in 0 .. Screen - 1
          /\ last.window # -1 =>
               x \in last.window - CeilDiv(Screen, Source) .. last.window + WindowSize
  /\ \A s, t \in ToSet(strokes) : s.call = t.call => s.x = t.x

ScreenIsReached == StrokesFollowCalls /\ ObservationIsFinal /\ DoneInFull /\ PointsAreShown
=============================================================================
