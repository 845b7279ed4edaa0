-------------------------- MODULE ThreadGitWorkflow --------------------------
(***************************************************************************)
(* HTTP requests that work on one thread's branch: the resumable Git       *)
(* workflow (apps/web/src/lib/thread-git-workflow-server.ts driving        *)
(* git-workflow-runner.ts) and the rename of a generated branch, which     *)
(* shares the thread's lease (thread-git-mutation-server.ts).              *)
(*                                                                         *)
(* A request is a process.  Every call it makes (a Convex mutation, a      *)
(* sandbox command, a GitHub call) is one step, so requests, the agent     *)
(* editing the workspace and the clock interleave between the calls.       *)
(***************************************************************************)
EXTENDS ThreadGitStore, FiniteSets

CONSTANTS
  Actions,         \* the Git actions clients ask for
  WorkspaceMode,   \* "worktree" or "checkout"
  BaseBranch,      \* the project's default branch
  ThreadBranch,    \* the temporary branch of a worktree thread
  NewBranch,       \* the name generated for a created or renamed branch
  Faults,          \* kinds of failures the environment may inject
  MaxFaults,       \* bound: failures injected in one behaviour
  RetriesOverlap,  \* may a client retry an operation a request still runs?
  OutliveLease     \* may a request run longer than the lease lasts?

\* crash: the serving process dies; lost, refused: see Call; precheck: the
\* checks before the first phase fail; handler: a command of a phase fails;
\* timeout: it takes effect and is still reported as failed.
FaultKinds ==
  {"crash", "lost", "refused", "precheck", "handler", "timeout", "unready"}

ASSUME WorkflowAssumption ==
  /\ Actions \subseteq Action
  /\ WorkspaceMode \in {"worktree", "checkout"}
  /\ {BaseBranch, ThreadBranch, NewBranch} \subseteq Branches
  /\ Faults \subseteq FaultKinds
  /\ MaxFaults \in Nat
  /\ RetriesOverlap \in BOOLEAN
  /\ OutliveLease \in BOOLEAN

VARIABLES
  req,      \* the local state of each request
  sandbox,  \* the Git workspace of the thread
  github,   \* what GitHub has for this repository
  faults    \* failures injected so far

vars == <<lease, ops, thread, req, sandbox, github, faults>>

-----------------------------------------------------------------------------
(* State. *)

WorkflowPC ==
  {"begin", "precheck", "prefail", "start", "handle", "mark", "prContext",
   "prCreating", "prFind", "prCreate", "prCreated", "complete", "finish",
   "fail", "prFailed", "release"}
RenamePC == {"lock", "reread", "rename", "save", "undo", "unlock"}

Request ==
  [pc         : {"idle"} \cup WorkflowPC \cup RenamePC,
   op         : OpIds \cup {None},
   action     : Action \cup {"none"},
   done       : SUBSET Phase,              \* completed, as of the begin reply
   phase      : Phase \cup {NoPhase},
   expected   : Branches \cup {None},      \* workspace.featureBranch
   prSeen     : BOOLEAN,                   \* the loaded thread has a PR number
   checkpoint : Checkpoint]

IdleRequest ==
  [pc |-> "idle", op |-> None, action |-> "none", done |-> {},
   phase |-> NoPhase, expected |-> None, prSeen |-> FALSE,
   checkpoint |-> NoCheckpoint]

Sandbox == [branch : Branches, dirty : BOOLEAN, head : CommitSha]
Github == [remote : [Branches -> CommitSha], pulls : SUBSET Branches]

TypeOK ==
  /\ StoreTypeOK
  /\ req \in [Requests -> Request]
  /\ sandbox \in Sandbox
  /\ github \in Github
  /\ faults \in 0 .. MaxFaults

InitialBranch == IF WorkspaceMode = "worktree" THEN ThreadBranch ELSE BaseBranch

Init ==
  /\ StoreInit(IF WorkspaceMode = "worktree" THEN ThreadBranch ELSE None)
  /\ req = [r \in Requests |-> IdleRequest]
  /\ sandbox = [branch |-> InitialBranch, dirty |-> MaxCommits > 0, head |-> 0]
  /\ github = [remote |-> [b \in Branches |-> 0], pulls |-> {}]
  /\ faults = 0

-----------------------------------------------------------------------------
(* Steps of a request. *)

At(r, pc) == req[r].pc = pc
Become(r, local) == req' = [req EXCEPT ![r] = local]
Goto(r, pc) == Become(r, [req[r] EXCEPT !.pc = pc])

Inject(kind) ==
  /\ kind \in Faults
  /\ faults < MaxFaults
  /\ faults' = faults + 1

\* A call of a Convex mutation.  It answers and the request goes on as `ok'; or
\* the caller sees an error, and the mutation was applied (its answer was
\* lost) or was not (it was refused), and the request goes on as `bad'.
Call(r, mutation, ok, bad) ==
  /\ \/ mutation /\ Become(r, ok) /\ UNCHANGED faults
     \/ mutation /\ Become(r, bad) /\ Inject("lost")
     \/ UNCHANGED storeVars /\ Become(r, bad) /\ Inject("refused")
  /\ UNCHANGED <<sandbox, github>>

To(r, pc) == [req[r] EXCEPT !.pc = pc]

\* The loop of executeResumableGitWorkflow: the next phase that the set taken
\* from the begin reply does not hold, or the end of the workflow.
NextIteration(local) ==
  LET p == NextPhase(local.action, local.done)
  IN  [local EXCEPT !.pc = IF p = NoPhase THEN "finish" ELSE "start",
                    !.phase = p]

\* The client posts an operation; the route loads the thread before the lease.
Submit(r, o, a) ==
  /\ At(r, "idle")
  /\ RetriesOverlap \/ \A s \in Requests : req[s].op # o
  /\ Become(r, [IdleRequest EXCEPT
                  !.pc = "begin", !.op = o, !.action = a,
                  !.expected = thread.branch,
                  !.prSeen = thread.pullRequestNumber])
  /\ UNCHANGED <<lease, ops, thread, sandbox, github, faults>>

\* What the runner takes from the record: the phases to skip, the checkpoint.
ResumeTrustsAnyResult(r) ==   \* mutant: a failed phase counts as complete
  [req[r] EXCEPT
     !.pc = "precheck",
     !.done = {p \in Phase : ops[req[r].op].results[p] # "absent"},
     !.checkpoint = ops[req[r].op].checkpoint]
Resume(r) ==
  [req[r] EXCEPT !.pc = "precheck",
                 !.done = Completed(ops[req[r].op].results),
                 !.checkpoint = ops[req[r].op].checkpoint]

\* beginGitOperation, answered: an acquired operation or an early response.
Begin(r) ==
  LET o == req[r].op  a == req[r].action
  IN  /\ At(r, "begin")
      /\ \/ /\ BeginRefuses(o, a)
            /\ Become(r, IdleRequest)
            /\ UNCHANGED <<lease, ops, thread, sandbox, github, faults>>
         \/ Call(r, BeginGitOperation(o, a), Resume(r), IdleRequest)

\* Authentication, GitHub access and the workspace coordinates, which a
\* checkout thread takes from the live branch of the sandbox.
Precheck(r) ==
  /\ At(r, "precheck")
  /\ \/ /\ Become(r, NextIteration(
                       [req[r] EXCEPT
                          !.expected = IF WorkspaceMode = "checkout"
                                       THEN sandbox.branch ELSE @]))
        /\ UNCHANGED faults
     \/ /\ Inject("precheck")
        /\ \E p \in {"branch", "validate"} :
             /\ p = "branch" => WorkspaceMode = "checkout"
             /\ Become(r, [req[r] EXCEPT !.pc = "prefail", !.phase = p])
  /\ UNCHANGED <<lease, ops, thread, sandbox, github>>

ReleaseBeforeExecution(r) ==  \* mutant: the failure is not recorded
  /\ At(r, "prefail")
  /\ Goto(r, "release")
  /\ UNCHANGED <<lease, ops, thread, sandbox, github, faults>>

\* failBeforeExecution: record the failure, then release whatever happened.
FailBeforeExecution(r) ==
  /\ At(r, "prefail")
  /\ Call(r, FailGitOperation(req[r].op, req[r].phase),
          To(r, "release"), To(r, "release"))

\* onPhaseStart is outside the try: its error goes straight to the release.
OnPhaseStart(r) ==
  /\ At(r, "start")
  /\ Call(r, StartGitOperationPhase(req[r].op, req[r].phase),
          To(r, IF req[r].phase = "pull_request" THEN "prContext" ELSE "handle"),
          To(r, "release"))

OnPhaseComplete(r) ==
  /\ At(r, "complete")
  /\ Call(r, CompleteGitOperationPhase(req[r].op, req[r].phase,
                                       req[r].checkpoint),
          NextIteration([req[r] EXCEPT !.done = @ \cup {req[r].phase}]),
          To(r, "fail"))

OnPhaseFailure(r) ==
  /\ At(r, "fail")
  /\ Call(r, FailGitOperation(req[r].op, req[r].phase),
          To(r, IF req[r].phase = "pull_request" THEN "prFailed" ELSE "release"),
          To(r, "release"))

MarkPullRequestFailed(r) ==
  /\ At(r, "prFailed")
  /\ Call(r, MarkPullRequest("failed"), To(r, "release"), To(r, "release"))

Finish(r) ==
  /\ At(r, "finish")
  /\ Call(r, CompleteGitOperation(req[r].op), IdleRequest, To(r, "release"))

\* releaseOperationLease: its own failure is swallowed.
ReleaseOperationLease(r) ==
  /\ At(r, "release")
  /\ Call(r, ReleaseGitOperationLease(req[r].op), IdleRequest, IdleRequest)

\* Any command of a phase handler may fail.
HandlerFails(r) ==
  /\ req[r].pc \in {"handle", "prContext", "prFind", "prCreate"}
  /\ Inject("handler")
  /\ Goto(r, "fail")
  /\ UNCHANGED <<lease, ops, thread, sandbox, github>>

-----------------------------------------------------------------------------
(* Phase handlers. *)

InPhase(r, p) == At(r, "handle") /\ req[r].phase = p

WorkBranch(r) ==
  IF req[r].checkpoint.branch # None THEN req[r].checkpoint.branch
                                     ELSE req[r].expected

\* The command that did the work answers, or times out after doing it.
Answers(r, local) ==
  \/ Become(r, local) /\ UNCHANGED faults
  \/ Goto(r, "fail") /\ Inject("timeout")

\* A checkout thread still on the base branch gets a feature branch before its
\* pull request; every other thread must be on the branch it expects.
BranchPhase(r) ==
  LET createsBranch == /\ NeedsPullRequest(req[r].action)
                       /\ WorkspaceMode = "checkout"
                       /\ sandbox.branch = BaseBranch
      branch == IF createsBranch THEN NewBranch ELSE sandbox.branch
  IN  /\ InPhase(r, "branch")
      /\ \/ /\ sandbox.branch # req[r].expected
            /\ Goto(r, "fail")
            /\ UNCHANGED <<sandbox, faults>>
         \/ /\ sandbox.branch = req[r].expected
            /\ sandbox' = [sandbox EXCEPT !.branch = branch]
            /\ Answers(r, [req[r] EXCEPT !.pc = "complete",
                                         !.checkpoint.branch = branch])
      /\ UNCHANGED <<lease, ops, thread, github>>

\* A commit needs changes, any other action a clean workspace.
ValidatePhase(r) ==
  /\ InPhase(r, "validate")
  /\ Goto(r, IF /\ sandbox.branch = WorkBranch(r)
                /\ NeedsCommit(req[r].action) <=> sandbox.dirty
             THEN "complete" ELSE "fail")
  /\ UNCHANGED <<lease, ops, thread, sandbox, github, faults>>

CommitAlways(r) ==  \* mutant: commits without looking for changes
  /\ InPhase(r, "commit")
  /\ sandbox' = [sandbox EXCEPT !.dirty = FALSE, !.head = @ + 1]
  /\ Answers(r, [req[r] EXCEPT !.pc = "mark",
                               !.checkpoint.branch = WorkBranch(r),
                               !.checkpoint.commitSha = sandbox.head + 1])
  /\ UNCHANGED <<lease, ops, thread, github>>

\* Without changes the commit of an earlier attempt is reused.
CommitPhase(r) ==
  LET head == IF sandbox.dirty THEN sandbox.head + 1 ELSE sandbox.head
  IN  /\ InPhase(r, "commit")
      /\ sandbox' = [sandbox EXCEPT !.dirty = FALSE, !.head = head]
      /\ Answers(r, [req[r] EXCEPT !.pc = "mark",
                                   !.checkpoint.branch = WorkBranch(r),
                                   !.checkpoint.commitSha = head])
      /\ UNCHANGED <<lease, ops, thread, github>>

PushOnce(r) ==  \* mutant: a branch that is on GitHub counts as pushed
  /\ InPhase(r, "push")
  /\ github' = IF github.remote[sandbox.branch] > 0 THEN github
               ELSE [github EXCEPT !.remote[sandbox.branch] = sandbox.head]
  /\ Answers(r, [req[r] EXCEPT !.pc = "mark",
                               !.checkpoint.commitSha = sandbox.head])
  /\ UNCHANGED <<lease, ops, thread, sandbox>>

\* pushProjectSandboxBranchIfNeeded: HEAD to the branch of the same name.
PushPhase(r) ==
  /\ InPhase(r, "push")
  /\ github' = [github EXCEPT !.remote[sandbox.branch] = sandbox.head]
  /\ Answers(r, [req[r] EXCEPT !.pc = "mark",
                               !.checkpoint.commitSha = sandbox.head])
  /\ UNCHANGED <<lease, ops, thread, sandbox>>

\* markChangesCommitted closes the commit and the push handlers.
MarkCommitted(r) ==
  /\ At(r, "mark")
  /\ Call(r, MarkChangesCommitted(
               IF req[r].phase = "push" THEN "pushed" ELSE "committed",
               WorkBranch(r), req[r].checkpoint.commitSha),
          To(r, "complete"), To(r, "fail"))

PullRequestContext(r) ==
  /\ At(r, "prContext")
  /\ Goto(r, IF sandbox.head > 0 THEN "prCreating" ELSE "fail")
  /\ UNCHANGED <<lease, ops, thread, sandbox, github, faults>>

MarkPullRequestCreating(r) ==
  /\ At(r, "prCreating")
  /\ Call(r, MarkPullRequest("creating"), To(r, "prFind"), To(r, "fail"))

\* The number on the thread as it was loaded, else an open pull request.
FindPullRequest(r) ==
  /\ At(r, "prFind")
  /\ Goto(r, IF req[r].prSeen \/ WorkBranch(r) \in github.pulls
             THEN "prCreated" ELSE "prCreate")
  /\ UNCHANGED <<lease, ops, thread, sandbox, github, faults>>

\* GitHub wants a pushed head.  It refuses a second open pull request for one
\* head, but after an error the handler looks once more: a pull request that
\* somebody else opened, or whose answer was lost, is found.
CreatePullRequest(r) ==
  /\ At(r, "prCreate")
  /\ IF github.remote[WorkBranch(r)] > 0
     THEN /\ github' = [github EXCEPT !.pulls = @ \cup {WorkBranch(r)}]
          /\ Goto(r, "prCreated")
     ELSE Goto(r, "fail") /\ UNCHANGED github
  /\ UNCHANGED <<lease, ops, thread, sandbox, faults>>

MarkPullRequestCreated(r) ==
  /\ At(r, "prCreated")
  /\ Call(r, MarkPullRequest("created"),
          [req[r] EXCEPT !.pc = "complete", !.checkpoint.pullRequest = TRUE],
          To(r, "fail"))

-----------------------------------------------------------------------------
(* The rename of a worktree's temporary branch, under the same lease. *)

SubmitRename(r) ==
  /\ At(r, "idle")
  /\ Become(r, [IdleRequest EXCEPT !.pc = "lock"])
  /\ UNCHANGED <<lease, ops, thread, sandbox, github, faults>>

\* withThreadGitMutation
Lock(r) ==
  /\ At(r, "lock")
  /\ \/ /\ LeaseActive
        /\ Become(r, IdleRequest)
        /\ UNCHANGED <<lease, ops, thread, sandbox, github, faults>>
     \/ Call(r, BeginGitMutation(r), To(r, "reread"), IdleRequest)

TrustEarlierRead(r) ==  \* mutant: the thread is not read again
  /\ At(r, "reread")
  /\ Become(r, [req[r] EXCEPT !.pc = "rename", !.expected = ThreadBranch])
  /\ UNCHANGED <<lease, ops, thread, sandbox, github, faults>>

\* The thread is read again under the lease: a branch that is no longer the
\* temporary one, or has a commit or a pull request, keeps its name.
Reread(r) ==
  /\ At(r, "reread")
  /\ Become(r, [req[r] EXCEPT
                  !.pc = IF /\ WorkspaceMode = "worktree"
                            /\ CanUpdateGeneratedFeatureBranch(ThreadBranch)
                         THEN "rename" ELSE "unlock",
                  !.expected = thread.branch])
  /\ UNCHANGED <<lease, ops, thread, sandbox, github, faults>>

\* renameProjectSandboxBranch
Rename(r) ==
  /\ At(r, "rename")
  /\ \/ /\ sandbox.branch = req[r].expected
        /\ sandbox' = [sandbox EXCEPT !.branch = NewBranch]
        /\ \/ Goto(r, "save") /\ UNCHANGED faults
           \/ Goto(r, "unlock") /\ Inject("timeout")
     \/ /\ sandbox.branch # req[r].expected
        /\ Goto(r, "unlock")
        /\ UNCHANGED <<sandbox, faults>>
     \/ Inject("handler") /\ Goto(r, "unlock") /\ UNCHANGED sandbox
  /\ UNCHANGED <<lease, ops, thread, github>>

\* Only a compare-and-set that answers false is rolled back.  It also answers
\* false while an attempt to prepare the worktree, which takes no lease of
\* this kind, has the worktree marked as not ready.
SaveBranch(r) ==
  /\ At(r, "save")
  /\ \/ Call(r, UpdateGeneratedFeatureBranch(req[r].expected, NewBranch),
             To(r, IF CanUpdateGeneratedFeatureBranch(req[r].expected)
                   THEN "unlock" ELSE "undo"),
             To(r, "unlock"))
     \/ /\ Inject("unready") /\ Goto(r, "undo")
        /\ UNCHANGED <<lease, ops, thread, sandbox, github>>

UndoRename(r) ==
  /\ At(r, "undo")
  /\ \/ /\ sandbox' = IF sandbox.branch = NewBranch
                      THEN [sandbox EXCEPT !.branch = req[r].expected]
                      ELSE sandbox
        /\ UNCHANGED faults
     \/ Inject("handler") /\ UNCHANGED sandbox
  /\ Goto(r, "unlock")
  /\ UNCHANGED <<lease, ops, thread, github>>

Unlock(r) ==
  /\ At(r, "unlock")
  /\ Call(r, EndGitMutation(r), IdleRequest, IdleRequest)

-----------------------------------------------------------------------------
(* The environment. *)

\* The process that serves a request dies; nothing it wrote is undone.
Crash(r) ==
  /\ ~At(r, "idle")
  /\ Inject("crash")
  /\ Become(r, IdleRequest)
  /\ UNCHANGED <<lease, ops, thread, sandbox, github>>

\* The steps at which a request holds the lease it acquired, under its id.
Holds(r) ==
  req[r].pc \in (WorkflowPC \ {"begin", "prFailed", "release"})
                  \cup (RenamePC \ {"lock"})

HeldId(r) == IF req[r].pc \in RenamePC THEN r ELSE req[r].op

ExpireLease ==
  /\ LeaseActive
  /\ OutliveLease \/ \A r \in Requests : Holds(r) => HeldId(r) # lease.id
  /\ lease' = [lease EXCEPT !.fresh = FALSE]
  /\ UNCHANGED <<ops, thread, req, sandbox, github, faults>>

\* The agent or the user edits files; no lease is involved.
EditWorkspace ==
  /\ sandbox.head < MaxCommits
  /\ ~sandbox.dirty
  /\ sandbox' = [sandbox EXCEPT !.dirty = TRUE]
  /\ UNCHANGED <<lease, ops, thread, req, github, faults>>

-----------------------------------------------------------------------------
Handlers(r) ==
  \/ BranchPhase(r) \/ ValidatePhase(r) \/ CommitPhase(r) \/ PushPhase(r)
  \/ MarkCommitted(r) \/ PullRequestContext(r) \/ MarkPullRequestCreating(r)
  \/ FindPullRequest(r) \/ CreatePullRequest(r) \/ MarkPullRequestCreated(r)
  \/ HandlerFails(r)

Runner(r) ==
  \/ Begin(r) \/ Precheck(r) \/ FailBeforeExecution(r)
  \/ OnPhaseStart(r) \/ OnPhaseComplete(r) \/ OnPhaseFailure(r)
  \/ MarkPullRequestFailed(r) \/ Finish(r) \/ ReleaseOperationLease(r)

Renamer(r) ==
  Lock(r) \/ Reread(r) \/ Rename(r) \/ SaveBranch(r) \/ UndoRename(r) \/ Unlock(r)

Next ==
  \/ \E r \in Requests :
       \/ \E o \in OpIds, a \in Actions : Submit(r, o, a)
       \/ SubmitRename(r)
       \/ Runner(r) \/ Handlers(r) \/ Renamer(r) \/ Crash(r)
  \/ ExpireLease
  \/ EditWorkspace

Spec == Init /\ [][Next]_vars

\* A serving process keeps executing the request it has, and the clock runs;
\* clients, the agent and failures owe nothing.
FairSpec ==
  /\ Spec
  /\ \A r \in Requests : WF_vars(Runner(r) \/ Handlers(r) \/ Renamer(r))
  /\ WF_vars(ExpireLease)

-----------------------------------------------------------------------------
(* Properties. *)

\* "Another Git operation is already running for this thread": while one
\* request holds the lease it acquired, no other request works on the branch.
MutualExclusion ==
  \A r, s \in Requests : Holds(r) /\ Holds(s) => r = s

\* The steps at which a workflow request relies on its copy of the record.
InLoop(r) ==
  req[r].pc \in WorkflowPC \ {"begin", "precheck", "prefail", "fail",
                              "prFailed", "release"}

\* executeResumableGitWorkflow decides what to skip from a copy taken when the
\* operation began: for as long as the request runs, the copy is the record.
RunnerKnowsTheRecord ==
  \A r \in Requests : InLoop(r) =>
    LET op == ops[req[r].op]
    IN  /\ op.status = "running"
        /\ req[r].done = Completed(op.results)
        /\ req[r].pc \in {"start", "finish"} =>
             req[r].checkpoint = op.checkpoint

\* completeGitOperation trusts the caller: an operation is recorded as
\* succeeded only when every phase of its action is recorded as complete.
SucceededIsComplete ==
  \A o \in OpIds : ops[o].status = "succeeded" =>
    ActionPhases(ops[o].action) \subseteq Completed(ops[o].results)

\* What a succeeded operation reports has really happened: the commit it names
\* is in the workspace, on GitHub if it pushed, and behind an open pull request
\* that the thread knows if it opened one - also when its phases were done by
\* different attempts, some of which ended in errors.
SucceededIsDelivered ==
  \A o \in OpIds : ops[o].status = "succeeded" =>
    LET c == ops[o].checkpoint  a == ops[o].action
    IN  /\ NeedsCommit(a) => c.commitSha \in 1 .. sandbox.head
        /\ RunsPush(a) => \E b \in Branches : github.remote[b] >= c.commitSha
        /\ NeedsPullRequest(a) => /\ c.pullRequest
                                  /\ \E b \in github.pulls :
                                       github.remote[b] >= c.commitSha
                                  /\ thread.pullRequestNumber

\* A succeeded operation is never reopened: a late or repeated request for it
\* leaves its record alone.
SucceededIsFinal ==
  [][\A o \in OpIds : ops[o].status = "succeeded" => ops'[o] = ops[o]]_vars

\* What an operation records and reports is what was done: a resumed request knows
\* the record, and "succeeded" means complete and delivered.
ReportIsTrue == RunnerKnowsTheRecord /\ SucceededIsComplete /\ SucceededIsDelivered

\* "Completed phases will not run again": once a phase is recorded as complete,
\* no step of any request records it as running or failed.
CompletedPhasesKept ==
  [][\A o \in OpIds : Completed(ops[o].results) \subseteq
                      Completed(ops'[o].results)]_vars

\* The branch the thread names is the branch the workspace is on, except while
\* a rename is between its two halves.
BranchAgrees ==
  (\A r \in Requests : req[r].pc \notin {"save", "undo"})
    => thread.branch = sandbox.branch

\* Both clients refuse every Git action while the latest operation is
\* "running": there must be a request that is still running it.
RunningHasRunner ==
  \A o \in OpIds : ops[o].status = "running" =>
    \E r \in Requests : Holds(r) /\ req[r].op = o

\* ... and it must come to an end.
RunningSettles ==
  \A o \in OpIds : ops[o].status = "running" ~> ops[o].status # "running"

\* A commit the thread reports as pushed is on GitHub, whatever requests
\* outlived their lease or lost a race.
PushedIsOnRemote ==
  thread.commitStatus = "pushed" =>
    \E b \in Branches : github.remote[b] >= thread.commitSha

\* Whatever fails, the lease of a thread becomes free or lapses again and again.
LeaseComesBack == []<>~LeaseActive

\* Every request comes to an end.
RequestsReturn == \A r \in Requests : ~At(r, "idle") ~> At(r, "idle")

-----------------------------------------------------------------------------
(* What the lease is for, abstractly: the branch, its commits, what is on   *)
(* GitHub and what the thread records of them change only in the hands of   *)
(* one user at a time.                                                      *)
Holder == IF \E r \in Requests : Holds(r)
          THEN CHOOSE r \in Requests : Holds(r) ELSE None

Exclusive == INSTANCE ExclusiveWorkspace
  WITH Users <- Requests, Nobody <- None, holder <- Holder,
       shared <- <<sandbox.branch, sandbox.head, github, thread.branch,
                   thread.commitStatus, thread.commitSha>>

ImplementsExclusiveWorkspace == Exclusive!Spec
=============================================================================
