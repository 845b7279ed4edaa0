--------------------------- MODULE ThreadWorktree ---------------------------
(***************************************************************************)
(* The Git worktree of one thread, in the sandbox, and what the thread's   *)
(* document says of it.  Three kinds of request change both, each with one *)
(* Convex call or one sandbox command at a time:                           *)
(*   - provisionThreadWorktree, asked for by whatever needs the workspace  *)
(*     (projectActions.ts);                                                *)
(*   - opening a pull request on the thread (routes/.../pulls.ts and       *)
(*     materializeGithubPullRequestWorktree);                              *)
(*   - cleanupThreadWorktree and removeThreadWithWorktree.                 *)
(*                                                                         *)
(* The path of a worktree is a function of the thread, so a worktree is    *)
(* named by the branch it has checked out.  What is not registered with    *)
(* Git at that path, worktrees elsewhere, upstreams and the rename of the  *)
(* branch (ThreadGitWorkflow) are left out.                                *)
(***************************************************************************)
EXTENDS Naturals

CONSTANTS
  Provisions,  \* provisioning requests; each names its attempt
  Openings,    \* requests that open a pull request on the thread
  Removals,    \* requests that clean the worktree up or remove the thread
  None,
  OpenWhileRemoving,  \* may a pull request be opened during a removal?
  MaxSlow,     \* bound: live attempts that outlast PROVISION_TAKEOVER
  MaxFaults    \* bound: commands and calls that fail, requests that die

ASSUME WorktreeAssumption ==
  /\ None \notin Provisions \cup Openings \cup Removals \cup {"own", "pull"}
  /\ OpenWhileRemoving \in BOOLEAN
  /\ MaxSlow \in Nat /\ MaxFaults \in Nat

VARIABLES
  thread,    \* the worktree fields of the thread's document
  worktree,  \* the branch of the worktree registered at the thread's path
  branches,  \* the local branches of the repository
  dirty,     \* the worktree has uncommitted changes
  fetched,   \* the repository has the commits of the pull request
  req,       \* the local state of each request
  taken,     \* history: a removal took the worktree, and no mark said so yet
  slow, faults

sandbox == <<worktree, branches, dirty, fetched>>
vars == <<thread, worktree, branches, dirty, fetched, req, taken, slow, faults>>

Requests == Provisions \cup Openings \cup Removals
Branch == {"own", "pull"}
ProvisionPC == {"idle", "reserve", "inspect", "check", "add", "reread", "head",
                "markReady", "markFailed"}
OpeningPC == {"list", "fetch", "branch", "addPull", "upstream", "headPull",
              "complete", "fail"}
RemovalPC == {"registered", "status", "remove", "mark", "delete"}

\* stale: the reservation is older than 120 s.
TypeOK ==
  /\ thread \in [exists : BOOLEAN, pull : BOOLEAN, branch : Branch,
                 status : {"pending", "provisioning", "ready", "failed", "cleaned"},
                 attempt : Provisions \cup {None}, stale : BOOLEAN]
  /\ thread.status = "provisioning" <=> thread.attempt # None
  /\ worktree \in Branch \cup {None}
  /\ branches \subseteq Branch /\ worktree \in branches \cup {None}
  /\ dirty \in BOOLEAN /\ (dirty => worktree # None)
  /\ fetched \in BOOLEAN /\ taken \in BOOLEAN
  /\ req \in [Requests -> [pc : ProvisionPC \cup OpeningPC \cup RemovalPC
                                  \cup {"new", "over"},
                           branch : Branch,
                           plan : {"none", "create", "existing", "ready", "conflict"},
                           deletes : BOOLEAN]]
  /\ slow \in 0 .. MaxSlow /\ faults \in 0 .. MaxFaults

Blank(pc) == [pc |-> pc, branch |-> "own", plan |-> "none", deletes |-> FALSE]

\* A thread of its own, or one createFromGithubPullRequest made.
Init ==
  /\ thread \in {[exists |-> TRUE, pull |-> p,
                  branch |-> IF p THEN "pull" ELSE "own", status |-> "pending",
                  attempt |-> None, stale |-> FALSE] : p \in BOOLEAN}
  /\ worktree = None /\ branches = {} /\ dirty = FALSE /\ fetched = FALSE
  /\ req = [r \in Requests |-> Blank(IF r \in Provisions THEN "idle" ELSE "new")]
  /\ taken = FALSE /\ slow = 0 /\ faults = 0

At(r, pc) == req[r].pc = pc
Goto(r, pc) ==
  req' = [req EXCEPT ![r] = IF pc \in {"idle", "over"} THEN Blank(pc)
                            ELSE [@ EXCEPT !.pc = pc]]
InFlight(r) == req[r].pc \notin {"idle", "new", "over"}

\* Goto the first step when the command succeeds, else the second.
Command(r, ok, onSuccess, onFailure) ==
  Goto(r, IF ok THEN onSuccess ELSE onFailure)

-----------------------------------------------------------------------------
(* What Git says and does. *)

\* decideWorktreeProvision on the state just read.
Decide(branch) ==
  CASE worktree = branch                       -> "ready"
    [] worktree = None /\ branch \in branches  -> "existing"
    [] worktree = None                         -> "create"
    [] OTHER                                   -> "conflict"

\* git worktree add [-b]: the path must be free, the branch new or known.
CanAdd(branch, plan) ==
  worktree = None /\ (IF plan = "create" THEN branch \notin branches
                                         ELSE branch \in branches)
AddWorktree(branch) ==
  /\ worktree' = branch
  /\ branches' = branches \cup {branch}
  /\ UNCHANGED <<dirty, fetched>>

\* git worktree remove, without --force.
CanRemove == worktree # None /\ ~dirty

\* The agent and the user edit, commit and discard.
EditWorktree ==
  /\ worktree # None
  /\ dirty' = ~dirty
  /\ UNCHANGED <<thread, worktree, branches, fetched, req, taken, slow, faults>>

-----------------------------------------------------------------------------
(* provisionThreadWorktree. *)

\* Nothing to do for a thread that is ready.
Ask(r) ==
  /\ r \in Provisions /\ At(r, "idle")
  /\ thread.exists /\ thread.status # "ready"
  /\ req' = [req EXCEPT ![r] = [@ EXCEPT !.pc = "reserve", !.branch = thread.branch]]
  /\ UNCHANGED <<thread, sandbox, taken, slow, faults>>

NeverTakenOver(r) ==  \* mutant: a reservation has no age limit
  /\ thread.exists
  /\ thread.branch = req[r].branch
  /\ thread.status # "provisioning"
MayReserve(r) ==
  /\ thread.exists
  /\ thread.branch = req[r].branch
  /\ thread.status = "provisioning" => thread.stale

\* reserveWorktreeInternal
Reserve(r) ==
  /\ At(r, "reserve")
  /\ Goto(r, IF MayReserve(r) THEN "inspect" ELSE "idle")
  /\ thread' = IF MayReserve(r)
               THEN [thread EXCEPT !.status = "provisioning", !.attempt = r,
                                   !.stale = FALSE]
               ELSE thread
  /\ UNCHANGED <<sandbox, taken, slow, faults>>

Inspect(r) ==
  LET plan == Decide(req[r].branch)
  IN  /\ At(r, "inspect")
      /\ req' = [req EXCEPT ![r] =
                   [@ EXCEPT !.plan = plan,
                             !.pc = CASE plan = "conflict" -> "markFailed"
                                      [] plan = "ready"    -> "head"
                                      [] OTHER             -> "check"]]
      /\ UNCHANGED <<thread, sandbox, taken, slow, faults>>

\* test -e, and git cat-file -e for the commit of a pull request.
Check(r) ==
  /\ At(r, "check")
  /\ Command(r, /\ worktree = None
                /\ req[r].branch = "pull" /\ req[r].plan = "create" => fetched,
             "add", "markFailed")
  /\ UNCHANGED <<thread, sandbox, taken, slow, faults>>

Add(r) ==
  LET branch == req[r].branch
  IN  /\ At(r, "add")
      /\ Command(r, CanAdd(branch, req[r].plan), "head", "reread")
      /\ IF CanAdd(branch, req[r].plan) THEN AddWorktree(branch)
                                        ELSE UNCHANGED sandbox
      /\ UNCHANGED <<thread, taken, slow, faults>>

\* Another attempt may have added it.
Reread(r) ==
  /\ At(r, "reread")
  /\ Command(r, Decide(req[r].branch) = "ready", "head", "markFailed")
  /\ UNCHANGED <<thread, sandbox, taken, slow, faults>>

ReadHead(r) ==
  /\ At(r, "head")
  /\ Command(r, worktree # None, "markReady", "markFailed")
  /\ UNCHANGED <<thread, sandbox, taken, slow, faults>>

AnyAttempt(r) == thread.exists  \* mutant: a replaced attempt may still report
IsCurrent(r) == thread.exists /\ thread.attempt = r

Settled(status) ==
  [thread EXCEPT !.status = status, !.attempt = None, !.stale = FALSE]

\* markWorktreeReadyInternal
MarkReady(r) ==
  /\ At(r, "markReady")
  /\ Goto(r, IF IsCurrent(r) THEN "idle" ELSE "markFailed")
  /\ thread' = IF IsCurrent(r) THEN Settled("ready") ELSE thread
  /\ UNCHANGED <<sandbox, taken, slow, faults>>

\* markWorktreeFailedInternal
MarkFailed(r) ==
  /\ At(r, "markFailed")
  /\ Goto(r, "idle")
  /\ thread' = IF IsCurrent(r) THEN Settled("failed") ELSE thread
  /\ UNCHANGED <<sandbox, taken, slow, faults>>

Provision(r) ==
  \/ Reserve(r) \/ Inspect(r) \/ Check(r) \/ Add(r) \/ Reread(r)
  \/ ReadHead(r) \/ MarkReady(r) \/ MarkFailed(r)

-----------------------------------------------------------------------------
(* Opening a pull request on the thread, which has no messages. *)

MayAttach == thread.status \in {"pending", "cleaned"}

\* attachGithubPullRequest; the thread of the pull request is used again.
Open(r) ==
  /\ r \in Openings /\ At(r, "new")
  /\ thread.exists
  /\ OpenWhileRemoving \/ \A d \in Removals : ~InFlight(d)
  /\ thread.pull \/ MayAttach
  /\ thread' = IF thread.pull THEN thread
               ELSE [Settled("pending") EXCEPT !.pull = TRUE, !.branch = "pull"]
  /\ Goto(r, "list")
  /\ UNCHANGED <<sandbox, taken, slow, faults>>

ListForPull(r) ==
  /\ At(r, "list")
  /\ Goto(r, CASE Decide("pull") = "conflict" -> "fail"
               [] Decide("pull") = "ready"    -> "upstream"
               [] Decide("pull") = "existing" -> "addPull"
               [] OTHER                       -> "fetch")
  /\ UNCHANGED <<thread, sandbox, taken, slow, faults>>

\* The branch of the pull request may have moved since it was resolved.
FetchPull(r) ==
  /\ At(r, "fetch")
  /\ \/ Goto(r, "branch") /\ fetched' = TRUE
     \/ Goto(r, "fail") /\ UNCHANGED fetched
  /\ UNCHANGED <<thread, worktree, branches, dirty, taken, slow, faults>>

BranchPull(r) ==
  /\ At(r, "branch")
  /\ Command(r, "pull" \notin branches, "addPull", "fail")
  /\ branches' = branches \cup {"pull"}
  /\ UNCHANGED <<thread, worktree, dirty, fetched, taken, slow, faults>>

AddPull(r) ==
  /\ At(r, "addPull")
  /\ Command(r, CanAdd("pull", "existing"), "upstream", "fail")
  /\ IF CanAdd("pull", "existing") THEN AddWorktree("pull") ELSE UNCHANGED sandbox
  /\ UNCHANGED <<thread, taken, slow, faults>>

\* fetch again, and set the upstream.
SetUpstream(r) ==
  /\ At(r, "upstream")
  /\ Goto(r, "headPull") /\ fetched' = TRUE
  /\ UNCHANGED <<thread, worktree, branches, dirty, taken, slow, faults>>

ReadPullHead(r) ==
  /\ At(r, "headPull")
  /\ Command(r, worktree # None, "complete", "fail")
  /\ UNCHANGED <<thread, sandbox, taken, slow, faults>>

\* completeGithubPullRequestCheckout
Complete(r) ==
  /\ At(r, "complete")
  /\ Goto(r, IF thread.exists THEN "over" ELSE "fail")
  /\ thread' = IF thread.exists THEN Settled("ready") ELSE thread
  /\ UNCHANGED <<sandbox, taken, slow, faults>>

\* failGithubPullRequestCheckout
FailOpening(r) ==
  /\ At(r, "fail")
  /\ Goto(r, "over")
  /\ thread' = IF thread.exists THEN Settled("failed") ELSE thread
  /\ UNCHANGED <<sandbox, taken, slow, faults>>

Opening(r) ==
  \/ ListForPull(r) \/ FetchPull(r) \/ BranchPull(r) \/ AddPull(r)
  \/ SetUpstream(r) \/ ReadPullHead(r) \/ Complete(r) \/ FailOpening(r)

-----------------------------------------------------------------------------
(* cleanupThreadWorktree and removeThreadWithWorktree. *)

CleanUp(r, deletes) ==
  /\ r \in Removals /\ At(r, "new")
  /\ thread.exists
  /\ OpenWhileRemoving \/ \A o \in Openings : ~InFlight(o)
  /\ req' = [req EXCEPT ![r] = [@ EXCEPT !.pc = "registered", !.deletes = deletes]]
  /\ UNCHANGED <<thread, sandbox, taken, slow, faults>>

ListForRemoval(r) ==
  /\ At(r, "registered")
  /\ Command(r, worktree = None, "mark", "status")
  /\ UNCHANGED <<thread, sandbox, taken, slow, faults>>

\* git status --porcelain; a dirty worktree is kept, and the thread with it.
ReadStatus(r) ==
  /\ At(r, "status")
  /\ Command(r, worktree # None /\ ~dirty, "remove", "over")
  /\ UNCHANGED <<thread, sandbox, taken, slow, faults>>

RemoveWorktree(r) ==
  /\ At(r, "remove")
  /\ Command(r, CanRemove, "mark", "over")
  /\ worktree' = IF CanRemove THEN None ELSE worktree
  /\ dirty' = (dirty /\ ~CanRemove)
  /\ taken' = (taken \/ CanRemove)
  /\ UNCHANGED <<thread, branches, fetched, slow, faults>>

MarkCleanedKeepsAttempt(r) ==  \* mutant: the attempt in progress is not cleared
  /\ At(r, "mark")
  /\ Goto(r, IF thread.exists /\ req[r].deletes THEN "delete" ELSE "over")
  /\ thread' = IF thread.exists THEN [thread EXCEPT !.status = "cleaned"] ELSE thread
  /\ taken' = FALSE
  /\ UNCHANGED <<sandbox, slow, faults>>
\* markWorktreeCleanedInternal
MarkCleaned(r) ==
  /\ At(r, "mark")
  /\ Goto(r, IF thread.exists /\ req[r].deletes THEN "delete" ELSE "over")
  /\ thread' = IF thread.exists THEN Settled("cleaned") ELSE thread
  /\ taken' = FALSE
  /\ UNCHANGED <<sandbox, slow, faults>>

\* removeInternal; the branch and its commits stay.
DeleteThread(r) ==
  /\ At(r, "delete")
  /\ Goto(r, "over")
  /\ thread' = [Settled("cleaned") EXCEPT !.exists = FALSE]
  /\ UNCHANGED <<sandbox, taken, slow, faults>>

Removal(r) ==
  \/ ListForRemoval(r) \/ ReadStatus(r) \/ RemoveWorktree(r)
  \/ MarkCleaned(r) \/ DeleteThread(r)

-----------------------------------------------------------------------------
(* Time and failures. *)

HolderGone == thread.attempt # None /\ req[thread.attempt].pc \in {"idle", "reserve"}

\* 120 s have passed since the reservation.
Outlast ==
  /\ thread.exists /\ thread.status = "provisioning" /\ ~thread.stale
  /\ thread' = [thread EXCEPT !.stale = TRUE]
  /\ IF HolderGone THEN UNCHANGED slow ELSE slow < MaxSlow /\ slow' = slow + 1
  /\ UNCHANGED <<sandbox, req, taken, faults>>

\* Where a request goes on when a command or a call of it fails.
Handler(pc) ==
  CASE pc \in {"inspect", "check", "reread", "head", "markReady"} -> "markFailed"
    [] pc = "add"                                          -> "reread"
    [] pc \in {"reserve", "markFailed"}                    -> "idle"
    [] pc \in OpeningPC \ {"fail"}                         -> "fail"
    [] OTHER                                               -> "over"

\* A sandbox command or a Convex call fails, without effect; or, with its
\* effect, the request dies.
Fail(r) ==
  /\ InFlight(r) /\ faults < MaxFaults
  /\ faults' = faults + 1
  /\ \/ Goto(r, Handler(req[r].pc))
     \/ Goto(r, IF r \in Provisions THEN "idle" ELSE "over")
  /\ UNCHANGED <<thread, sandbox, taken, slow>>

Step(r) == Provision(r) \/ Opening(r) \/ Removal(r)

Next ==
  \/ EditWorktree \/ Outlast
  \/ \E r \in Requests :
       \/ Ask(r) \/ Open(r) \/ (\E deletes \in BOOLEAN : CleanUp(r, deletes))
       \/ Step(r) \/ Fail(r)

Spec == Init /\ [][Next]_vars

\* Requests run until they end, and a reservation left behind gets old.
FairSpec ==
  /\ Spec
  /\ \A r \in Requests : WF_vars(Step(r))
  /\ WF_vars(Outlast /\ UNCHANGED slow)

-----------------------------------------------------------------------------
(* Properties. *)

\* A thread shown as ready has its worktree, on its branch, unless a removal
\* has taken it and could not say so yet: an attempt that was replaced, or
\* whose worktree went, cannot report ready.
ReadyHasWorktree ==
  thread.exists /\ thread.status = "ready" /\ worktree # thread.branch => taken

\* Clients that need the workspace ask again.
AskedAgain == \A r \in Provisions : WF_vars(Ask(r))

\* A reservation whose attempt died does not block the thread.
ProvisioningEnds ==
  AskedAgain =>
    (thread.exists /\ thread.status = "provisioning"
       ~> ~(thread.exists /\ thread.status = "provisioning"))

\* The work of a cleaned thread is found again: once failures, removals and
\* openings are over, a thread that is asked for gets ready; except on a pull
\* request whose commits are not there, or on the worktree of another branch.
\* (A late request may reserve a ready thread once more.)
GetsWorkspace ==
  AskedAgain =>
    []<>(\/ ~thread.exists \/ thread.status = "ready"
         \/ thread.pull /\ ~fetched
         \/ Decide(thread.branch) = "conflict")

\* A thread does not stay "provisioning", and gets its workspace back.
WorkspaceComes == ProvisioningEnds /\ GetsWorkspace
=============================================================================
