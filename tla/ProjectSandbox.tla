--------------------------- MODULE ProjectSandbox ---------------------------
(***************************************************************************)
(* The life of a repository's project and its sandbox: the record of        *)
(* projects.ts, the routes that open a repository (from-github.ts) and      *)
(* switch its branch (branch.ts), the provisioning of the sandbox           *)
(* (daytona-project-sandbox.ts, projectActions.ts) and the removal of both. *)
(*                                                                          *)
(* A call is one request; requests run side by side, and each of their      *)
(* steps is one mutation of the record or one call to the provider.  A      *)
(* project that was removed may be made again under a new identity.  The    *)
(* sandbox of project i is box i: its name is derived from the project.     *)
(* External: the provider, and git inside the sandbox.                      *)
(***************************************************************************)
EXTENDS Naturals, FiniteSets

CONSTANTS
  Calls, None,
  Branches,     \* the branches of the repository
  MaxProjects,  \* bound: how often the repository becomes a project
  MaxFaults     \* bound: failed clean-ups, bindings and deletions, lost answers and requests

VARIABLES
  project,    \* the record of the repository's project, or None
  created,    \* how many projects there have been
  box,        \* the sandbox of each project: [state, head]
  call,       \* the local state of each request
  abandoned,  \* history: projects removed before their sandbox was recorded
  overlap,    \* history: projects two of whose switches overlapped
  faults

vars == <<project, created, box, call, abandoned, overlap, faults>>

Ids == 1 .. MaxProjects
Provisioning == {"create", "clone", "cleanup", "bind", "record", "fail"}
Switching == {"checkout", "ready", "unswitch"}
Removing == {"deletebox", "secrets", "forget"}

TypeOK ==
  /\ created \in 0 .. MaxProjects /\ faults \in 0 .. MaxFaults
  /\ project # None =>
       /\ project.id \in Ids /\ project.status \in {"creating", "ready", "failed"}
       /\ project.bound \in BOOLEAN /\ project.branch \in Branches
       /\ project.switch \in {"idle", "switching", "failed"}
       /\ project.status = "ready" => project.bound
  /\ \A i \in Ids : box[i].state \in {"none", "empty", "cloned", "deleted"}
  /\ \A c \in Calls :
       /\ call[c].pc \in {"idle", "read", "mark", "done"} \cup Provisioning \cup Switching \cup Removing
       /\ call[c].id \in Ids \cup {None}
       /\ {call[c].want, call[c].previous} \subseteq Branches \cup {None}

Init ==
  /\ project = None /\ created = 0
  /\ box = [i \in Ids |-> [state |-> "none", head |-> None]]
  /\ call = [c \in Calls |-> [pc |-> "idle", id |-> None, want |-> None, previous |-> None]]
  /\ abandoned = {} /\ overlap = {} /\ faults = 0

-----------------------------------------------------------------------------
At(c, pc) == call[c].pc = pc
Goes(c, pc) == call' = [call EXCEPT ![c].pc = pc]
\* The project the request is about still exists: every mutation looks it up by
\* its id and throws without it.
Found(c) == project # None /\ project.id = call[c].id
Fails == faults < MaxFaults /\ faults' = faults + 1
Fine == UNCHANGED faults
Exists(i) == box[i].state \in {"empty", "cloned"}

-----------------------------------------------------------------------------
(* Opening a repository. *)

\* ensureForGithubSelection, and what the route does with its answer.
Open(c) ==
  /\ At(c, "idle")
  /\ \E b \in Branches :
       IF project = None
       THEN /\ created < MaxProjects
            /\ created' = created + 1
            /\ project' = [id |-> created + 1, status |-> "creating", bound |-> FALSE,
                           branch |-> b, switch |-> "idle"]
            /\ call' = [call EXCEPT ![c] = [@ EXCEPT !.pc = "create", !.id = created + 1, !.want = b]]
       ELSE /\ call' = [call EXCEPT ![c] =
                 [@ EXCEPT !.pc = IF project.status = "ready" THEN "read" ELSE "done",
                           !.id = project.id, !.want = b]]
            /\ UNCHANGED <<project, created>>
  /\ UNCHANGED <<box, abandoned, overlap, faults>>

\* createProjectSandbox, up to the clone.
CreateBox(c) ==
  /\ At(c, "create")
  /\ \/ box' = [box EXCEPT ![call[c].id].state = "empty"] /\ Goes(c, "clone") /\ Fine
     \/ UNCHANGED box /\ Goes(c, "fail") /\ Fails
  /\ UNCHANGED <<project, created, abandoned, overlap>>
Clone(c) ==
  /\ At(c, "clone")
  /\ \/ box' = [box EXCEPT ![call[c].id] = [state |-> "cloned", head |-> call[c].want]]
        /\ Goes(c, "bind")
     \/ UNCHANGED box /\ Goes(c, "cleanup")
  /\ UNCHANGED <<project, created, abandoned, overlap, faults>>
CleanUp(c) ==
  /\ At(c, "cleanup")
  /\ \/ box' = [box EXCEPT ![call[c].id].state = "deleted"] /\ Fine
     \/ UNCHANGED box /\ Fails
  /\ Goes(c, "fail")
  /\ UNCHANGED <<project, created, abandoned, overlap>>

\* bindProvisionedSandbox: the project is looked up and the sandbox inspected ...
Bind(c) ==
  /\ At(c, "bind")
  /\ \/ Found(c) /\ box[call[c].id].state = "cloned" /\ Goes(c, "record") /\ Fine
     \/ ~Found(c) /\ Goes(c, "fail") /\ Fine
     \/ Goes(c, "fail") /\ Fails
  /\ UNCHANGED <<project, created, box, abandoned, overlap>>
\* ... and recorded.  The answer may be lost.
MarkSandboxReady(c) ==
  /\ At(c, "record")
  /\ IF Found(c)
     THEN /\ project' = [project EXCEPT !.status = "ready", !.bound = TRUE, !.switch = "idle"]
          /\ \/ Goes(c, "done") /\ Fine
             \/ Goes(c, "fail") /\ Fails
     ELSE UNCHANGED project /\ Goes(c, "fail") /\ Fine
  /\ UNCHANGED <<created, box, abandoned, overlap>>
MarkSandboxFailed(c) ==
  /\ At(c, "fail")
  /\ project' = IF Found(c) THEN [project EXCEPT !.status = "failed"] ELSE project
  /\ Goes(c, "done")
  /\ UNCHANGED <<created, box, abandoned, overlap, faults>>

-----------------------------------------------------------------------------
(* Switching the branch. *)

\* The branch route reads a ready project; from-github comes here from Open and
\* reads the project once more.
RequestSwitch(c) ==
  /\ At(c, "idle")
  /\ project # None /\ project.status = "ready"
  /\ \E b \in Branches :
       call' = [call EXCEPT ![c] = [pc |-> "mark", id |-> project.id, want |-> b,
                                    previous |-> project.branch]]
  /\ UNCHANGED <<project, created, box, abandoned, overlap, faults>>
ReadPrevious(c) ==
  /\ At(c, "read")
  /\ call' = [call EXCEPT ![c].pc = "mark",
                          ![c].previous = IF Found(c) THEN project.branch ELSE None]
  /\ UNCHANGED <<project, created, box, abandoned, overlap, faults>>

MarkSwitching(c) ==
  /\ At(c, "mark")
  /\ IF Found(c)
     THEN /\ project' = [project EXCEPT !.branch = call[c].want, !.switch = "switching"]
          /\ Goes(c, "checkout")
          /\ overlap' = IF \E o \in Calls \ {c} : call[o].pc \in Switching
                        THEN overlap \cup {project.id} ELSE overlap
     ELSE Goes(c, "done") /\ UNCHANGED <<project, overlap>>
  /\ UNCHANGED <<created, box, abandoned, faults>>
\* git fetch, git checkout, git merge --ff-only: the last may fail after the
\* checkout took place.
Checkout(c) ==
  LET b == box[call[c].id] IN
  /\ At(c, "checkout")
  /\ \/ b.state = "cloned" /\ box' = [box EXCEPT ![call[c].id].head = call[c].want]
        /\ (Goes(c, "ready") \/ Goes(c, "unswitch"))
     \/ UNCHANGED box /\ Goes(c, "unswitch")
  /\ UNCHANGED <<project, created, abandoned, overlap, faults>>
\* Mutant: a switch that failed counts as done.
ReadyAnyway(c) ==
  /\ At(c, "unswitch")
  /\ project' = IF Found(c) THEN [project EXCEPT !.branch = call[c].previous, !.switch = "idle"]
                ELSE project
  /\ Goes(c, "done")
  /\ UNCHANGED <<created, box, abandoned, overlap, faults>>
MarkSwitchReady(c) ==
  /\ At(c, "ready")
  /\ IF Found(c)
     THEN /\ project' = [project EXCEPT !.branch = call[c].want, !.switch = "idle"]
          /\ \/ Goes(c, "done") /\ Fine
             \/ Goes(c, "unswitch") /\ Fails
     ELSE UNCHANGED project /\ Goes(c, "unswitch") /\ Fine
  /\ UNCHANGED <<created, box, abandoned, overlap>>
MarkSwitchFailed(c) ==
  /\ At(c, "unswitch")
  /\ project' = IF Found(c) THEN [project EXCEPT !.branch = call[c].previous, !.switch = "failed"]
                ELSE project
  /\ Goes(c, "done")
  /\ UNCHANGED <<created, box, abandoned, overlap, faults>>

-----------------------------------------------------------------------------
(* removeWithSandbox. *)

Remove(c) ==
  /\ At(c, "idle") /\ project # None
  /\ call' = [call EXCEPT ![c] = [@ EXCEPT !.id = project.id,
                !.pc = IF project.bound THEN "deletebox" ELSE "secrets"]]
  /\ UNCHANGED <<project, created, box, abandoned, overlap, faults>>
\* A sandbox that is gone already is not an error.
DeleteBox(c) ==
  /\ At(c, "deletebox")
  /\ \/ box' = [box EXCEPT ![call[c].id].state = "deleted"] /\ Goes(c, "secrets") /\ Fine
     \/ UNCHANGED box /\ Goes(c, "done") /\ Fails
  /\ UNCHANGED <<project, created, abandoned, overlap>>
DeleteSecrets(c) ==
  /\ At(c, "secrets")
  /\ \/ Goes(c, "forget") /\ Fine
     \/ Goes(c, "done") /\ Fails
  /\ UNCHANGED <<project, created, box, abandoned, overlap>>
\* removeInternal.
Forget(c) ==
  /\ At(c, "forget")
  /\ project' = IF Found(c) THEN None ELSE project
  /\ abandoned' = IF Found(c) /\ box[project.id].state # "deleted"
                  THEN abandoned \cup {project.id} ELSE abandoned
  /\ Goes(c, "done")
  /\ UNCHANGED <<created, box, overlap, faults>>

\* The request is lost with its server.
Lost(c) ==
  /\ call[c].pc \notin {"idle", "done"}
  /\ Fails /\ Goes(c, "done")
  /\ UNCHANGED <<project, created, box, abandoned, overlap>>

-----------------------------------------------------------------------------
Provision(c) == CreateBox(c) \/ Clone(c) \/ CleanUp(c) \/ Bind(c) \/ MarkSandboxReady(c) \/ MarkSandboxFailed(c)
Switch(c) == ReadPrevious(c) \/ MarkSwitching(c) \/ Checkout(c) \/ MarkSwitchReady(c) \/ MarkSwitchFailed(c)
Removal(c) == DeleteBox(c) \/ DeleteSecrets(c) \/ Forget(c)

Next == \E c \in Calls :
  Open(c) \/ RequestSwitch(c) \/ Remove(c) \/ Provision(c) \/ Switch(c) \/ Removal(c) \/ Lost(c)

Spec == Init /\ [][Next]_vars

-----------------------------------------------------------------------------
\* Without a failed clean-up, binding or deletion, and unless the project was
\* removed while its sandbox was made, a sandbox is the project's or in the hands
\* of the request that makes it: whatever its clone did, nothing runs that nobody
\* knows of (daytona-project-sandbox.ts:149, projectActions.ts:1924).
NoSandboxIsLost ==
  \A i \in Ids : Exists(i) /\ faults = 0 /\ i \notin abandoned =>
    \/ project # None /\ project.id = i /\ project.bound
    \/ \E c \in Calls : call[c].id = i /\ call[c].pc \in Provisioning

\* A project shown idle on a branch has that branch checked out, whichever step of
\* an earlier switch failed, unless two switches overlapped (branch.ts:104).
BranchIsCheckedOut ==
  project # None /\ project.status = "ready" /\ project.switch = "idle"
    /\ Exists(project.id) /\ project.id \notin overlap =>
    \/ box[project.id].head = project.branch
    \/ \E c \in Calls : call[c].id = project.id /\ call[c].pc \in Switching
=============================================================================
