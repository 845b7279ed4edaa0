--------------------------- MODULE DesktopReadiness ---------------------------
(***************************************************************************)
(* How the computer tool makes a desktop ready before it acts: the services *)
(* of the desktop (computer-use-lifecycle.ts) and the gateway that runs the *)
(* commands (CuaComputerClient.ensureReady, startCuaServer).  The calls of  *)
(* a worker share a cache and the promises of what is under way; a session  *)
(* is the coordination key of its calls.  The tool makes the calls of one   *)
(* session one by one; the lifecycle module promises more, that they may be *)
(* made at once, and is modelled for that.  A restart that a deadline cuts  *)
(* off is abandoned, not cancelled, and may take effect at any later time.  *)
(*                                                                          *)
(* The services do not come up by themselves.  The provider's API and the   *)
(* launcher in the image are external.                                      *)
(***************************************************************************)
EXTENDS Naturals, FiniteSets

CONSTANTS
  Calls, Sessions, SessionOf,  \* calls of the tool and their sessions
  Services,                    \* COMPUTER_USE_PROCESS_NAMES
  MaxFaults                    \* bound: services that stop, requests that fail

VARIABLES
  call,      \* the local state of each call
  up,        \* the services that run
  gateway,   \* "down", "unsafe" (its cursor shows a label) or "safe"
  ready,     \* readyUntil: the sessions whose desktop was found ready
  pending,   \* readinessPromises: the call that works for a session, or "none"
  known,     \* the sessions whose client has a readyStatus
  recovery,  \* cuaCursorRecoveryPromises: the call that starts the gateway
  cooling,   \* cuaCursorRecoveryAttemptedAt is recent
  late,      \* the restarts that calls have abandoned and that may still land
  landed,    \* history: the services such a restart has reached
  disturbed, \* history: the services that ran when they were restarted
  faults

vars == <<call, up, gateway, ready, pending, known, recovery, cooling,
          late, landed, disturbed, faults>>
history == <<late, landed, disturbed>>
desktop == <<ready, pending>>
client == <<known, recovery, cooling>>
Steps == {"new", "inspect", "restart", "poll", "wait", "gateway", "launch", "join", "await",
          "ok", "failed"}
NoCall == "none"
Fault == faults < MaxFaults /\ faults' = faults + 1

TypeOK ==
  /\ \A c \in Calls : /\ call[c].pc \in Steps /\ call[c].down \subseteq Services
                      /\ call[c].found \in {"down", "unsafe", "safe"}
  /\ up \subseteq Services /\ gateway \in {"down", "unsafe", "safe"}
  /\ ready \subseteq Sessions /\ known \subseteq Sessions
  /\ pending \in [Sessions -> Calls \cup {NoCall}] /\ recovery \in Calls \cup {NoCall}
  /\ late \subseteq Calls \X (Services \cup {"start"})
  /\ landed \subseteq Services /\ disturbed \subseteq Services
  /\ cooling \in BOOLEAN /\ faults \in 0 .. MaxFaults

Init ==
  /\ call = [c \in Calls |-> [pc |-> "new", down |-> {}, found |-> "down"]]
  /\ up \in {{}, Services} /\ gateway \in {"down", "unsafe", "safe"}
  /\ ready = {} /\ known = {} /\ pending = [s \in Sessions |-> NoCall]
  /\ recovery = NoCall /\ cooling = FALSE /\ faults = 0
  /\ late = {} /\ landed = {} /\ disturbed = {}

At(c, pc) == call[c].pc = pc
Goes(c, pc) == call' = [call EXCEPT ![c].pc = pc]
Session(c) == SessionOf[c]
\* A call ends, and its session's caches with it if it fails: executeCuaComputer-
\* Action forgets the readiness, and the client what it knew of the gateway.
Ends(c, pc) ==
  /\ Goes(c, pc)
  /\ ready' = IF pc = "ok" THEN ready ELSE ready \ {Session(c)}

-----------------------------------------------------------------------------
(* ensureComputerUseReady. *)

Shared(c) == pending[Session(c)]
Ensure(c) ==
  /\ At(c, "new")
  /\ IF Session(c) \in ready THEN Goes(c, "gateway") /\ UNCHANGED pending
     ELSE IF Shared(c) # NoCall THEN Goes(c, "wait") /\ UNCHANGED pending
     ELSE Goes(c, "inspect") /\ pending' = [pending EXCEPT ![Session(c)] = c]
  /\ UNCHANGED <<up, gateway, ready, client, history, faults>>
\* The promise settles: the calls that wait for it go on or fail as it did.
Settles(c, ok) ==
  /\ call' = [d \in Calls |->
       IF d = c \/ (call[d].pc = "wait" /\ Session(d) = Session(c))
       THEN [call[d] EXCEPT !.pc = IF ok THEN "gateway" ELSE "failed"] ELSE call[d]]
  /\ pending' = [pending EXCEPT ![Session(c)] = NoCall]
  /\ ready' = IF ok THEN ready \cup {Session(c)} ELSE ready \ {Session(c)}
\* What is reported as down is restarted.  Where a status cannot be read, the
\* aggregate state, which may be stale, decides, or start, which leaves running
\* services alone.
Inspect(c) ==
  /\ At(c, "inspect")
  /\ \/ up = Services /\ Settles(c, TRUE) /\ UNCHANGED faults
     \/ /\ up # Services /\ UNCHANGED <<desktop, faults>>
        /\ call' = [call EXCEPT ![c].pc = "restart", ![c].down = Services \ up]
     \/ /\ Fault /\ UNCHANGED desktop
        /\ \E seen \in SUBSET (Services \ up) :
             call' = [call EXCEPT ![c].pc = "restart", ![c].down = seen]
     \/ Fault /\ Settles(c, TRUE)
  /\ UNCHANGED <<up, gateway, client, history>>
\* restartFailedProcesses one by one, or start; a failure is reported in the end.
Restart(c) ==
  /\ At(c, "restart")
  /\ \/ \E p \in call[c].down :
          /\ call' = [call EXCEPT ![c].down = @ \ {p},
                        ![c].pc = IF call[c].down = {p} THEN "poll" ELSE @]
          /\ disturbed' = disturbed \cup ({p} \cap up)
          /\ \/ up' = up \cup {p} /\ UNCHANGED faults
             \/ Fault /\ UNCHANGED up
     \/ /\ call[c].down = {} /\ Goes(c, "poll") /\ UNCHANGED disturbed
        /\ \/ up' = Services /\ UNCHANGED faults
           \/ Fault /\ UNCHANGED up
  /\ UNCHANGED <<gateway, desktop, client, late, landed>>
\* The deadline passes (beforeDeadline): the call fails, and what it waits for, with
\* the restarts it has yet to issue, is left to the sandbox.
Abandon(c) ==
  /\ At(c, "restart") /\ Fault
  /\ late' = late \cup ({c} \X IF call[c].down = {} THEN {"start"} ELSE call[c].down)
  /\ Settles(c, FALSE)
  /\ UNCHANGED <<up, gateway, client, landed, disturbed>>
\* It takes effect, whoever works by then.
Land(c, p) ==
  /\ <<c, p>> \in late /\ late' = late \ {<<c, p>>}
  /\ LET reached == IF p = "start" THEN Services \ up ELSE {p}
     IN  /\ up' = up \cup reached /\ landed' = landed \cup reached
         /\ disturbed' = disturbed \cup (reached \cap up)
  /\ UNCHANGED <<call, gateway, desktop, client, faults>>
\* waitForReady, until the deadline; again a status may not be readable.
Poll(c) ==
  /\ At(c, "poll")
  /\ \/ Settles(c, up = Services) /\ UNCHANGED faults
     \/ Fault /\ Settles(c, up # Services)
  /\ UNCHANGED <<up, gateway, client, history>>

-----------------------------------------------------------------------------
(* CuaComputerClient.ensureReady. *)

CheckGateway(c) ==
  /\ At(c, "gateway")
  /\ \/ Session(c) \in known /\ Ends(c, "ok") /\ UNCHANGED <<known, faults>>
     \/ /\ Session(c) \notin known /\ gateway = "safe" /\ Ends(c, "ok")
        /\ known' = known \cup {Session(c)} /\ UNCHANGED faults
     \/ /\ Session(c) \notin known /\ gateway # "safe"
        /\ call' = [call EXCEPT ![c].pc = "launch", ![c].found = gateway]
        /\ UNCHANGED <<ready, known, faults>>
     \/ /\ Session(c) \notin known /\ Fault
        /\ \E found \in {"down", gateway} :
             call' = [call EXCEPT ![c].pc = "launch", ![c].found = found]
        /\ UNCHANGED <<ready, known>>
  /\ UNCHANGED <<up, gateway, pending, recovery, cooling, history>>
Remembers(c, pc) == Ends(c, pc) /\ known' = IF pc = "ok" THEN known \cup {Session(c)} ELSE known
\* A recovery under way is shared; otherwise one is tried once a minute.
Recover(c) ==
  /\ At(c, "launch")
  /\ IF recovery # NoCall THEN Goes(c, "join") /\ UNCHANGED <<ready, known, recovery, cooling>>
     ELSE IF ~cooling
     THEN Goes(c, "join") /\ recovery' = c /\ cooling' = TRUE /\ UNCHANGED <<ready, known>>
     ELSE IF call[c].found # "down"
     THEN Remembers(c, "ok") /\ UNCHANGED <<recovery, cooling>>
     ELSE Goes(c, "await") /\ UNCHANGED <<ready, known, recovery, cooling>>
  /\ UNCHANGED <<up, gateway, pending, history, faults>>
\* The launcher replaces a gateway whose cursor is not safe and leaves a safe one.
\* The calls that wait go on as it ended: with the gateway they found, if any.
Launched ==
  /\ recovery # NoCall /\ recovery' = NoCall
  /\ LET waiting == {d \in Calls : call[d].pc = "join"}
         after(ok) == [d \in Calls |->
           IF d \notin waiting THEN call[d]
           ELSE [call[d] EXCEPT !.pc = IF ok THEN "await"
                                       ELSE IF call[d].found = "down" THEN "failed" ELSE "ok"]]
         sound == {Session(d) : d \in {e \in waiting : call[e].found # "down"}}
         lost == {Session(d) : d \in {e \in waiting : call[e].found = "down"}}
     IN  \/ /\ gateway' = "safe" /\ call' = after(TRUE)
            /\ UNCHANGED <<ready, known, cooling, faults>>
         \/ /\ Fault /\ call' = after(FALSE) /\ cooling' = FALSE
            /\ known' = known \cup sound /\ ready' = ready \ lost /\ UNCHANGED gateway
  /\ UNCHANGED <<up, pending, history>>
\* The gateway is asked until it answers, or the deadline passes.
Await(c) ==
  /\ At(c, "await")
  /\ IF gateway = "down" THEN Remembers(c, "failed") ELSE Remembers(c, "ok")
  /\ UNCHANGED <<up, gateway, pending, recovery, cooling, history, faults>>

-----------------------------------------------------------------------------
Stop(p) ==
  /\ p \in up /\ Fault /\ up' = up \ {p}
  /\ UNCHANGED <<call, gateway, desktop, client, history>>
GatewayDies ==
  /\ gateway # "down" /\ Fault /\ gateway' = "down"
  /\ UNCHANGED <<call, up, desktop, client, history>>
\* A minute passes.
Expire ==
  /\ \/ ready # {} /\ ready' = {} /\ UNCHANGED <<known, cooling>>
     \/ known # {} /\ known' = {} /\ UNCHANGED <<ready, cooling>>
     \/ cooling /\ recovery = NoCall /\ cooling' = FALSE /\ UNCHANGED <<ready, known>>
  /\ UNCHANGED <<call, up, gateway, pending, recovery, history, faults>>

Next ==
  \/ \E c \in Calls :
       \/ Ensure(c) \/ Inspect(c) \/ Restart(c) \/ Abandon(c) \/ Poll(c)
       \/ CheckGateway(c) \/ Recover(c) \/ Await(c)
  \/ Launched \/ GatewayDies \/ Expire
  \/ \E p \in Services : Stop(p)
  \/ \E c \in Calls, p \in Services \cup {"start"} : Land(c, p)
Spec == Init /\ [][Next]_vars

-----------------------------------------------------------------------------
\* The calls of one session do not restart a service that runs, which would drop
\* the viewers of the desktop, unless an abandoned restart has reached it unseen; and
\* a call that waits is waited for by a call that works
\* (computer-use-lifecycle.ts:89, 292, 346).
NoServiceIsDisturbed ==
  /\ Cardinality(Sessions) = 1 => disturbed \subseteq landed
  /\ \A c \in Calls : At(c, "wait") =>
       /\ pending[Session(c)] # NoCall
       /\ call[pending[Session(c)]].pc \in {"inspect", "restart", "poll"}
  /\ \A c \in Calls : At(c, "join") => recovery # NoCall
=============================================================================
