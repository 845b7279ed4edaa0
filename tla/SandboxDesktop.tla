--------------------------- MODULE SandboxDesktop ---------------------------
(***************************************************************************)
(* Starting and stopping a Daytona sandbox and opening its desktop, within  *)
(* one process of the backend (projectActions.ts), down to the supervised   *)
(* services of the desktop (computer-use-lifecycle.ts).  Requests share a   *)
(* start that is under way, the sandbox it returned for five seconds, and a *)
(* preview that is being opened; a recovery of the stream waits for an      *)
(* opening and is shared by those who wait.  A restart that a deadline cuts *)
(* off is abandoned, not cancelled, and may take effect at any later time.  *)
(*                                                                          *)
(* Of the services, vnc stands for x11vnc (and the core of the desktop) and *)
(* web for noVNC, which relays to the vnc it found when it started.  The    *)
(* sandbox and its services are external; the provider's own auto-stop, the *)
(* network policy and archived sandboxes are left out.                      *)
(***************************************************************************)
EXTENDS Naturals, FiniteSets

CONSTANTS
  Requests, None,
  MaxFaults   \* bound: services that break and calls that fail

VARIABLES
  box,        \* the sandbox: stopped, starting, started, stopping
  starter,    \* the request behind sandboxStartPromises, or None
  cached,     \* is it in recentlyStartedSandboxes?
  preview,    \* the request behind desktopPreviewPromises, or None
  vnc, web,   \* the services: up or down; web is stale when its vnc is gone
  req,        \* the local state of each request
  connected,  \* history: the stream was recovered and nothing has broken since
  dropped,    \* history: a vnc that was up was restarted
  late,       \* the restarts that requests have abandoned and that may still land
  slips,      \* history: what a request cannot tell (Slips)
  faults

vars ==
  <<box, starter, cached, preview, vnc, web, req, connected, dropped, late, slips, faults>>
desktop == <<vnc, web, connected, dropped, late, slips>>

Ops == {"start", "stop", "open", "recover"}
Ended == {"done", "failed"}
Working == {"inspect", "fix", "check", "probe", "revnc", "reweb", "erred"}
Starting == {"boot", "joined", "get", "rising"}
\* An abandoned restart of vnc has landed; a vnc that serves did not answer a probe.
Slips == {"landed", "misread"}

TypeOK ==
  /\ box \in {"stopped", "starting", "started", "stopping"}
  /\ starter \in Requests \cup {None} /\ preview \in Requests \cup {None}
  /\ cached \in BOOLEAN /\ connected \in BOOLEAN /\ dropped \in BOOLEAN
  /\ vnc \in {"up", "down"} /\ web \in {"up", "down", "stale"}
  /\ late \subseteq Requests \X {"vnc", "web"} /\ slips \subseteq Slips
  /\ faults \in 0 .. MaxFaults
  /\ \A r \in Requests :
       /\ req[r].op \in Ops \cup {None} /\ req[r].on \in Requests \cup {None}
       /\ req[r].pc \in {"idle", "enter", "shared", "queued", "settling", "falling"}
                          \cup Starting \cup Working \cup Ended
       /\ req[r].down \subseteq {"vnc", "web"}

Init ==
  /\ box \in {"stopped", "started"} /\ starter = None /\ cached = FALSE /\ preview = None
  /\ vnc = "down" /\ web = "down"
  /\ req = [r \in Requests |-> [op |-> None, pc |-> "idle", on |-> None, down |-> {}]]
  /\ connected = FALSE /\ dropped = FALSE /\ late = {} /\ slips = {} /\ faults = 0

-----------------------------------------------------------------------------
At(r, pc) == req[r].pc = pc
Goes(r, pc) == req' = [req EXCEPT ![r].pc = pc]
Waits(r, pc, on) == req' = [req EXCEPT ![r].pc = pc, ![r].on = on]
Fails == faults < MaxFaults /\ faults' = faults + 1
Alive == box = "started"

\* The sandbox comes up or goes down, and its services with it.
BoxMoves ==
  /\ \/ box = "starting" /\ box' = "started" /\ UNCHANGED desktop
     \/ /\ box = "stopping" /\ box' = "stopped"
        /\ vnc' = "down" /\ web' = "down" /\ connected' = FALSE
        /\ late' = {} /\ UNCHANGED <<dropped, slips>>
  /\ UNCHANGED <<starter, cached, preview, req, faults>>
Breaks ==
  /\ Alive /\ Fails
  /\ \/ vnc = "up" /\ vnc' = "down" /\ web' = IF web = "up" THEN "stale" ELSE web
     \/ web # "down" /\ web' = "down" /\ UNCHANGED vnc
     \/ web = "up" /\ web' = "stale" /\ UNCHANGED vnc
  /\ connected' = FALSE
  /\ UNCHANGED <<box, starter, cached, preview, req, dropped, late, slips>>

-----------------------------------------------------------------------------
(* The requests, and the sharing of a preview. *)

Request(r) ==
  /\ At(r, "idle")
  /\ \E op \in Ops :
       req' = [req EXCEPT ![r].op = op,
                 ![r].pc = CASE op = "start" -> "boot"
                             [] op = "stop" -> "settling"
                             [] OTHER -> "enter",
                 ![r].on = IF op = "stop" THEN starter ELSE None]
  /\ UNCHANGED <<box, starter, cached, preview, desktop, faults>>

Recovers(r) == req[r].op = "recover"
\* Mutant: a recovery does not wait for an opening.
NeverQueued(r) == FALSE
\* A recovery must wait for the opening under way.
MustQueue(r) == preview # None /\ Recovers(r) /\ ~Recovers(preview)
Enter(r) ==
  /\ At(r, "enter")
  /\ IF MustQueue(r) THEN Waits(r, "queued", preview) /\ UNCHANGED preview
     ELSE IF preview # None /\ (Recovers(preview) \/ ~Recovers(r))
     THEN Waits(r, "shared", preview) /\ UNCHANGED preview
     ELSE Goes(r, "boot") /\ preview' = r
  /\ UNCHANGED <<box, starter, cached, desktop, faults>>
\* The promise a request awaits settles: a recovery enters again, others share
\* its outcome.
Awakes(r) ==
  /\ req[r].pc \in {"queued", "shared"} /\ req[req[r].on].pc \in Ended
  /\ Waits(r, IF At(r, "queued") THEN "enter" ELSE req[req[r].on].pc, None)
  /\ UNCHANGED <<box, starter, cached, preview, desktop, faults>>

\* A request ends, and its preview is forgotten.
Settles(r, outcome) ==
  /\ Goes(r, outcome)
  /\ preview' = IF preview = r THEN None ELSE preview

-----------------------------------------------------------------------------
(* ensureSandboxStarted, and runWithStartedSandboxRetry around the work. *)

Begins(r) == CASE req[r].op = "start" -> "done" [] req[r].op = "open" -> "inspect" [] OTHER -> "probe"

Boot(r) ==
  /\ At(r, "boot")
  /\ IF cached THEN Goes(r, Begins(r)) /\ UNCHANGED starter
     ELSE IF starter # None THEN Waits(r, "joined", starter) /\ UNCHANGED starter
     ELSE Goes(r, "get") /\ starter' = r
  /\ UNCHANGED <<box, cached, preview, desktop, faults>>
\* A state change in progress is polled.
Get(r) ==
  /\ At(r, "get")
  /\ \/ /\ Alive /\ cached' = TRUE /\ starter' = None
        /\ Goes(r, Begins(r)) /\ UNCHANGED box
     \/ /\ box = "stopped" /\ box' = "starting"
        /\ Goes(r, "rising") /\ UNCHANGED <<starter, cached>>
  /\ UNCHANGED <<preview, desktop, faults>>
Rise(r) ==
  /\ At(r, "rising") /\ box # "starting"
  /\ cached' = TRUE /\ starter' = None /\ Goes(r, Begins(r))
  /\ UNCHANGED <<box, preview, desktop, faults>>
\* The provider refuses, or the deadline passes.
FailStart(r) ==
  /\ req[r].pc \in {"get", "rising"} /\ Fails
  /\ starter' = None /\ Settles(r, "failed")
  /\ UNCHANGED <<box, cached, desktop>>
\* Who joined a start goes on with it, or fails with it.
Joined(r) ==
  /\ At(r, "joined") /\ starter # req[r].on
  /\ IF req[req[r].on].pc = "failed" THEN Settles(r, "failed")
     ELSE Waits(r, Begins(r), None) /\ UNCHANGED preview
  /\ UNCHANGED <<box, starter, cached, desktop, faults>>
Expire ==
  /\ cached /\ cached' = FALSE
  /\ UNCHANGED <<box, starter, preview, desktop, req, faults>>

\* stopDaytonaSandbox: it waits for a start, then reads the sandbox's state.
Stop(r) ==
  /\ At(r, "settling") /\ (req[r].on = None \/ starter # req[r].on)
  /\ \/ box = "started" /\ box' = "stopping" /\ Goes(r, "falling") /\ UNCHANGED cached
     \/ box \in {"stopped", "stopping"} /\ cached' = FALSE /\ Goes(r, "done") /\ UNCHANGED box
     \/ box = "starting" /\ Goes(r, "failed") /\ UNCHANGED <<box, cached>>
  /\ UNCHANGED <<starter, preview, desktop, faults>>
Fallen(r) ==
  /\ At(r, "falling") /\ box # "stopping"
  /\ cached' = FALSE /\ Goes(r, "done")
  /\ UNCHANGED <<box, starter, preview, desktop, faults>>

\* The work finds the network of the sandbox gone and starts over.
Retry(r) ==
  /\ req[r].pc \in Working /\ ~Alive
  /\ \/ Goes(r, "boot") /\ UNCHANGED preview
     \/ Settles(r, "failed")  \* the deadline has passed
  /\ UNCHANGED <<box, starter, cached, desktop, faults>>

-----------------------------------------------------------------------------
(* The services. *)

StartVnc ==
  /\ vnc' = "up" /\ dropped' = (dropped \/ vnc = "up")
  /\ web' = IF web = "up" THEN "stale" ELSE web
StartWeb == web' = IF vnc' = "up" THEN "up" ELSE "stale"
Restarts(p) == IF p = "vnc" THEN StartVnc ELSE UNCHANGED <<vnc, dropped>> /\ StartWeb
Down == (IF vnc = "down" THEN {"vnc"} ELSE {}) \cup (IF web = "down" THEN {"web"} ELSE {})

\* ensureComputerUseReady: the services that are reported down are restarted.
Inspect(r) ==
  /\ At(r, "inspect") /\ Alive
  /\ req' = [req EXCEPT ![r].pc = IF Down = {} THEN "check" ELSE "fix", ![r].down = Down]
  /\ UNCHANGED <<box, starter, cached, preview, desktop, faults>>
\* One by one; one that reports an error is left, and the rest restarted.
Fix(r) ==
  /\ At(r, "fix") /\ Alive
  /\ IF req[r].down = {} THEN Goes(r, "check") /\ UNCHANGED <<desktop, faults>>
     ELSE LET p == IF "vnc" \in req[r].down THEN "vnc" ELSE "web"
          IN  /\ req' = [req EXCEPT ![r].down = @ \ {p}]
              /\ \/ Restarts(p) /\ UNCHANGED faults
                 \/ Fails /\ UNCHANGED <<vnc, web, dropped>>
              /\ UNCHANGED <<connected, late, slips>>
  /\ UNCHANGED <<box, starter, cached, preview>>
Check(r) ==
  /\ At(r, "check") /\ Alive
  /\ IF Down = {} THEN Settles(r, "done")
     ELSE Settles(r, "failed")
  /\ UNCHANGED <<box, starter, cached, desktop, faults>>

\* recoverComputerUseStream: vnc is probed and, if it does not answer, restarted;
\* then web is replaced.  When all calls succeed the stream is connected.
Probe(r) ==
  /\ At(r, "probe") /\ Alive
  /\ \/ Goes(r, IF vnc = "up" THEN "reweb" ELSE "revnc") /\ UNCHANGED <<desktop, faults>>
     \/ /\ Fails /\ Goes(r, "revnc")
        /\ connected' = FALSE /\ slips' = slips \cup {"misread"}
        /\ UNCHANGED <<vnc, web, dropped, late>>
  /\ UNCHANGED <<box, starter, cached, preview>>
\* With an error, whether or not the restart was done, the recovery goes on to fail.
RestartVnc(r) ==
  /\ At(r, "revnc") /\ Alive
  /\ \/ StartVnc /\ Goes(r, "reweb") /\ UNCHANGED faults
     \/ Fails /\ Goes(r, "erred") /\ (StartVnc \/ UNCHANGED <<vnc, web, dropped>>)
  /\ UNCHANGED <<box, starter, cached, preview, connected, late, slips>>
ReplaceWeb(r) ==
  /\ At(r, "reweb") /\ Alive
  /\ UNCHANGED <<box, starter, cached, vnc, dropped, late, slips>>
  /\ \/ /\ StartWeb /\ connected' = (vnc = "up") /\ UNCHANGED faults
        /\ Settles(r, IF vnc = "up" THEN "done" ELSE "failed")
     \/ /\ Fails /\ (StartWeb \/ UNCHANGED web) /\ UNCHANGED connected
        /\ Settles(r, "failed")
\* web is replaced only if vnc answers, and the recovery fails.
AfterError(r) ==
  /\ At(r, "erred") /\ Alive
  /\ UNCHANGED <<box, starter, cached, vnc, connected, dropped, late, slips, faults>>
  /\ (vnc = "up" /\ StartWeb) \/ UNCHANGED web
  /\ Settles(r, "failed")

\* The deadline passes (beforeDeadline): the request fails, and the restart it waits
\* for, with those an opening has yet to issue, is left to the sandbox.
Abandons(r) ==
  IF At(r, "fix") THEN req[r].down ELSE IF At(r, "revnc") THEN {"vnc"} ELSE {"web"}
Abandon(r) ==
  /\ req[r].pc \in {"fix", "revnc", "reweb", "erred"} /\ Alive /\ Fails
  /\ late' = late \cup ({r} \X Abandons(r)) /\ Settles(r, "failed")
  /\ UNCHANGED <<box, starter, cached, vnc, web, connected, dropped, slips>>
\* It takes effect, whoever works by then.
Land(r, p) ==
  /\ Alive /\ <<r, p>> \in late /\ late' = late \ {<<r, p>>}
  /\ Restarts(p)
  /\ connected' = (connected /\ p # "vnc")
  /\ slips' = IF p = "vnc" THEN slips \cup {"landed"} ELSE slips
  /\ UNCHANGED <<box, starter, cached, preview, req, faults>>

-----------------------------------------------------------------------------
Start(r) == Boot(r) \/ Get(r) \/ Rise(r) \/ Joined(r)
Work(r) ==
  \/ Retry(r) \/ Inspect(r) \/ Fix(r) \/ Check(r)
  \/ Probe(r) \/ RestartVnc(r) \/ ReplaceWeb(r) \/ AfterError(r) \/ Abandon(r)
Next ==
  \/ BoxMoves \/ Breaks \/ Expire
  \/ \E r \in Requests :
       \/ Request(r) \/ Enter(r) \/ Awakes(r) \/ Start(r) \/ FailStart(r)
       \/ Stop(r) \/ Fallen(r) \/ Work(r)
       \/ \E p \in {"vnc", "web"} : Land(r, p)

Spec == Init /\ [][Next]_vars

-----------------------------------------------------------------------------
\* Whatever runs at once, a vnc that serves is restarted only by a request that could
\* not tell: an abandoned restart has landed, or a probe went unanswered.  A stream
\* that was recovered stays connected until a service breaks, a probe of it fails or
\* such a restart of vnc lands: no opening that began before the recovery puts a new
\* vnc under the new relay (projectActions.ts:591, computer-use-lifecycle.ts:89, 373).
StreamIsKept == (dropped => slips # {}) /\ (connected => web = "up")
=============================================================================
