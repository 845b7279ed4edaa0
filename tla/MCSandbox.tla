----------------------------- MODULE MCSandbox -----------------------------
(* A project's sandbox and what works in it: components that share no      *)
(* state, each on a small instance and checked in one run.  part says      *)
(* whose behaviour it is, and v1, v2, ... stand for the variables of that  *)
(* component.                                                              *)
EXTENDS Naturals, TLC

CONSTANTS i1, i2, i3, x1, x2, y, k, d, None, Original, base, temp, named

VARIABLES part, v1, v2, v3, v4, v5, v6, v7, v8, v9, v10, v11, v12

Three == {i1, i2, i3}
Two == {x1, x2}
Symmetry == Permutations(Three) \cup Permutations(Two)

OneSession == [r \in Three |-> k]

Environment == INSTANCE SandboxEnvironment
  WITH Ops <- Three, Names <- Two, Providers <- {"e2b", "daytona"},
       OutliveLock <- FALSE, MaxFaults <- 2, project <- v1, sandbox <- v2,
       vault <- v3, lock <- v4, op <- v5, faults <- v6, slips <- v7

Project == INSTANCE ProjectSandbox
  WITH Calls <- Three \cup {k}, Branches <- Two, MaxProjects <- 2,
       MaxFaults <- 1, project <- v1, created <- v2, box <- v3, call <- v4,
       abandoned <- v5, overlap <- v6, faults <- v7

Desktop == INSTANCE SandboxDesktop
  WITH Requests <- Three, MaxFaults <- 2, box <- v1, starter <- v2,
       cached <- v3, preview <- v4, vnc <- v5, web <- v6, req <- v7,
       connected <- v8, dropped <- v9, late <- v10, slips <- v11,
       faults <- v12

Computer == INSTANCE ComputerUse
  WITH Calls <- Three, MaxFaults <- 2, call <- v1, queue <- v2, op <- v3,
       last <- v4, sequence <- v5, screen <- v6, faults <- v7

Readiness == INSTANCE DesktopReadiness
  WITH Calls <- Three, Sessions <- {k}, SessionOf <- OneSession,
       Services <- Two, MaxFaults <- 2, call <- v1, up <- v2,
       gateway <- v3, ready <- v4, pending <- v5, known <- v6,
       recovery <- v7, cooling <- v8, late <- v9, landed <- v10,
       disturbed <- v11, faults <- v12

Recording == INSTANCE RecordingUpload
  WITH Attempts <- Three \cup {k}, MaxFaults <- 2, row <- v1, object <- v2,
       pc <- v3, latest <- v4, faults <- v5

Runs == INSTANCE AgentRun
  WITH Turns <- Two, Posts <- {y, k}, Readers <- {d},
       VisibilityLag <- FALSE,
       Faults <- {"refused", "lost", "no_run", "error", "worker", "crash"},
       MaxFaults <- 1, thread <- v1, message <- v2, run <- v3, grant <- v4,
       post <- v5, reader <- v6, faults <- v7

Git == INSTANCE ThreadGitWorkflow
  WITH OpIds <- {k}, Requests <- Two, Branches <- {base, temp, named},
       BaseBranch <- base, ThreadBranch <- temp, NewBranch <- named,
       MaxCommits <- 2, WorkspaceMode <- "checkout",
       Actions <- {"commit_push", "create_pr"},
       Faults <- {"crash", "lost", "handler"}, MaxFaults <- 1,
       RetriesOverlap <- TRUE, OutliveLease <- TRUE, lease <- v1,
       ops <- v2, thread <- v3, req <- v4, sandbox <- v5, github <- v6,
       faults <- v7

Search == INSTANCE FffDaemon
  WITH Clients <- Three, Daemons <- Two \cup {k},
       RecoveriesOverlap <- FALSE, MaxFaults <- 2, lock <- v1,
       socket <- v2, daemon <- v3, client <- v4, peer <- v5, faults <- v6

Commands == INSTANCE BackgroundProcesses
  WITH Calls <- Three, MaxSessions <- 2, StartsOverlap <- FALSE,
       MaxFaults <- 1, call <- v1, process <- v2, sessions <- v3,
       command <- v4, poll <- v5, faults <- v6

Gateway == INSTANCE CuaGateway
  WITH Screen <- 2, Source <- 3, WindowSize <- 1, MaxCalls <- 3,
       MaxFaults <- 2, call <- v1, jobs <- v2, session <- v3,
       strokes <- v4, pointer <- v5, window <- v6, request <- v7,
       shot <- v8, last <- v9, ended <- v10, faults <- v11

Access == INSTANCE SandboxAccess
  WITH Calls <- Three, Threads <- Two, MaxFaults <- 2, call <- v1,
       context <- v2, lookup <- v3, recent <- v4, box <- v5,
       restricted <- v6, removal <- v7, faults <- v8

vars == <<part, v1, v2, v3, v4, v5, v6, v7, v8, v9, v10, v11, v12>>

Unused == 0
Init ==
  \/ part = "environment" /\ Environment!Init /\ v8 = Unused
       /\ v9 = Unused /\ v10 = Unused /\ v11 = Unused /\ v12 = Unused
  \/ part = "project" /\ Project!Init /\ v8 = Unused /\ v9 = Unused
       /\ v10 = Unused /\ v11 = Unused /\ v12 = Unused
  \/ part = "desktop" /\ Desktop!Init
  \/ part = "computer" /\ Computer!Init /\ v8 = Unused /\ v9 = Unused
       /\ v10 = Unused /\ v11 = Unused /\ v12 = Unused
  \/ part = "readiness" /\ Readiness!Init
  \/ part = "recording" /\ Recording!Init /\ v6 = Unused /\ v7 = Unused
       /\ v8 = Unused /\ v9 = Unused /\ v10 = Unused /\ v11 = Unused /\ v12 = Unused
  \/ part = "runs" /\ Runs!Init /\ v8 = Unused /\ v9 = Unused
       /\ v10 = Unused /\ v11 = Unused /\ v12 = Unused
  \/ part = "git" /\ Git!Init /\ v8 = Unused /\ v9 = Unused /\ v10 = Unused
       /\ v11 = Unused /\ v12 = Unused
  \/ part = "search" /\ Search!Init /\ v7 = Unused /\ v8 = Unused
       /\ v9 = Unused /\ v10 = Unused /\ v11 = Unused /\ v12 = Unused
  \/ part = "commands" /\ Commands!Init /\ v7 = Unused /\ v8 = Unused
       /\ v9 = Unused /\ v10 = Unused /\ v11 = Unused /\ v12 = Unused
  \/ part = "gateway" /\ Gateway!Init /\ v12 = Unused
  \/ part = "access" /\ Access!Init /\ v9 = Unused /\ v10 = Unused
       /\ v11 = Unused /\ v12 = Unused

EnvironmentDoes(A) == part = "environment" /\ A /\ UNCHANGED <<part, v8, v9, v10, v11, v12>>
ProjectDoes(A) == part = "project" /\ A /\ UNCHANGED <<part, v8, v9, v10, v11, v12>>
DesktopDoes(A) == part = "desktop" /\ A /\ UNCHANGED <<part>>
ComputerDoes(A) == part = "computer" /\ A /\ UNCHANGED <<part, v8, v9, v10, v11, v12>>
ReadinessDoes(A) == part = "readiness" /\ A /\ UNCHANGED <<part>>
RecordingDoes(A) == part = "recording" /\ A /\ UNCHANGED <<part, v6, v7, v8, v9, v10, v11, v12>>
RunsDoes(A) == part = "runs" /\ A /\ UNCHANGED <<part, v8, v9, v10, v11, v12>>
GitDoes(A) == part = "git" /\ A /\ UNCHANGED <<part, v8, v9, v10, v11, v12>>
SearchDoes(A) == part = "search" /\ A /\ UNCHANGED <<part, v7, v8, v9, v10, v11, v12>>
CommandsDoes(A) == part = "commands" /\ A /\ UNCHANGED <<part, v7, v8, v9, v10, v11, v12>>
GatewayDoes(A) == part = "gateway" /\ A /\ UNCHANGED <<part, v12>>
AccessDoes(A) == part = "access" /\ A /\ UNCHANGED <<part, v9, v10, v11, v12>>

Next ==
  \/ EnvironmentDoes(Environment!Next)
  \/ ProjectDoes(Project!Next)
  \/ DesktopDoes(Desktop!Next)
  \/ ComputerDoes(Computer!Next)
  \/ ReadinessDoes(Readiness!Next)
  \/ RecordingDoes(Recording!Next)
  \/ RunsDoes(Runs!Next)
  \/ GitDoes(Git!Next)
  \/ SearchDoes(Search!Next)
  \/ CommandsDoes(Commands!Next)
  \/ GatewayDoes(Gateway!Next)
  \/ AccessDoes(Access!Next)

Spec == Init /\ [][Next]_vars

ASSUME Environment!EnvironmentAssumption /\ Gateway!GatewayAssumption

TypeOK ==
  /\ part = "environment" => Environment!TypeOK
  /\ part = "project" => Project!TypeOK
  /\ part = "desktop" => Desktop!TypeOK
  /\ part = "computer" => Computer!TypeOK
  /\ part = "readiness" => Readiness!TypeOK
  /\ part = "recording" => Recording!TypeOK
  /\ part = "runs" => Runs!TypeOK
  /\ part = "git" => Git!TypeOK
  /\ part = "search" => Search!TypeOK
  /\ part = "commands" => Commands!TypeOK
  /\ part = "gateway" => Gateway!TypeOK
  /\ part = "access" => Access!TypeOK

\* The sandbox's environment is the one the project's document records, and
\* neither refers to a secret the provider no longer has, as far as the failures of
\* the provider's calls can be told; an update that answers success is complete.
EnvironmentIsWhole ==
  part = "environment" =>
    /\ Environment!NoDanglingSecret /\ Environment!SandboxMatchesRecord
    /\ Environment!SuccessIsWhole

\* A sandbox belongs to a project or is being deleted, and the branch a project
\* shows is the branch that is checked out; calls that need it look it up once, run
\* in it under its policy, and do not get it back once it is removed.
SandboxIsKept ==
  /\ part = "project" => Project!NoSandboxIsLost /\ Project!BranchIsCheckedOut
  /\ part = "access" => Access!AccessIsSound

\* Requests that open, repair or ready the desktop do not cut a stream that works
\* and restart no service that runs.
DesktopIsKept ==
  /\ part = "desktop" => Desktop!StreamIsKept
  /\ part = "readiness" => Readiness!NoServiceIsDisturbed

\* The model's clicks hit the screen it was shown, in the order they were made, and
\* what an action did is in the image that it returns.
ActsOnWhatItSaw ==
  /\ part = "computer" => Computer!ActsOnWhatItSaw
  /\ part = "gateway" => Gateway!ScreenIsReached

\* The row of a recording says what its latest upload did.
RowFollowsLatestAttempt == part = "recording" => Recording!RowFollowsLatestAttempt

\* What a turn is told, given and left with: its run finds its credentials, its
\* reply is there when its stream says so, and only a failure is an issue.
TurnIsServed == part = "runs" => Runs!TurnIsServed

\* A run that is live stays the thread's current run, whatever stale lookups and
\* the reports of other runs say, and the first cause of a failure stays on the
\* thread until another run starts.
RunsKeepTheirRecord ==
  [][part = "runs" => Runs!LiveRunStays /\ Runs!RootCauseStays /\ Runs!IssueStays]_vars

\* On a checkout thread, even when a request outlives its lease and works beside
\* another one, a commit shown as pushed is on GitHub.
PushedIsOnRemote == part = "git" => Git!PushedIsOnRemote

\* The searches of a workspace share one daemon, whoever was killed before; a
\* background command the agent was told of can be polled and ended while it runs,
\* and what is reported finished or terminated does not run.
ToolsShareTheSandbox ==
  /\ part = "search" => Search!OneDaemon
  /\ part = "commands" => Commands!BackgroundIsManageable
=============================================================================
