# AutoPR: specifications, model checking and proofs

AutoPR lets a user talk to a coding agent that works in a cloud sandbox on a
GitHub repository.  A *project* is a repository with its sandbox (Daytona or
E2B); a *thread* is a conversation with the agent on a branch, usually in a Git
worktree of its own.  The web server (`apps/web`, TanStack Start), the workers
that run the agent (`apps/web/src/trigger`, on Trigger.dev), the Convex backend
(`packages/backend/convex`), programs inside the sandbox (`infra`) and the
clients (web and mobile) share no memory and no transaction: they meet in the
documents of Convex, in the sandbox, in the vault and in GitHub.  What is hard
about the system is what happens between their calls, and that is what the
modules here are about.

All paths below are relative to the repository (`src/` here).

## 1. Inventory

### Parts, their state and how they interact

| Part | State | Operations | Interacts with |
|---|---|---|---|
| Git operations of a thread: `convex/threads.ts`, `convex/lib/gitWorkflow.ts`, `web/lib/thread-git-workflow-server.ts`, `git-workflow-runner.ts`, `thread-git-mutation-server.ts` | the thread's lease (`gitMutationId`, `gitMutationStartedAt`), the `gitOperations` documents, branch, commit and pull request fields; a request's copy of its operation | begin, start, complete, fail and finish of an operation; handlers for branch, validate, commit, push, pull request; rename of a generated branch | sandbox (Git), GitHub, the agent editing files, clients that retry |
| Git status: `thread-git-status-server.ts`, `threads.ts`, Git controls of both clients | the status in the thread's row with `checkedAt` and `gitStatusInvalidatedAt`, the clients' copies | read, keep, invalidate, offer and send an action | sandbox, GitHub |
| Agent runs: `routes/.../agent.ts`, `agent/$runId*.ts`, `trigger/agent.ts`, `trigger-agent-run-server.ts`, `trigger-agent-stream-server.ts`, `agent-ui-stream.ts` | `currentRunId`, `isLive`, `agentRunIssue` of the thread; the assistant message with its persistence token; the run; the grant of model credentials | start, stream, persist, finish, fail, stop, reconcile | Trigger.dev, Convex, several readers |
| Agent sessions: `trigger/agent-chat.ts`, `trigger-agent-chat-server.ts` | up to 16 session grants, `currentRunTransport`, the last event id | append a turn, start, complete, settle | the same thread fields as runs |
| Clients: `trigger-chat-transport.ts`, `thread-chat.tsx`, `thread-messages.tsx`, `apps/mobile` | the stream as read so far, drafts, queued messages, the transcript | reconnect, replay, submit, stop, show | stream and agent routes, Convex queries |
| File tools: `packages/agent/src/tools/{write,edit,file-mutation-queue,timeout}.ts` | a promise chain per file, in the worker | register, wait, mutate, give up, time out | the sandbox's files |
| Thread worktrees: `convex/projectActions.ts`, `convex/threads.ts`, `convex/lib/threadWorktree.ts`, `routes/.../pulls.ts` | `worktreeStatus`, the attempt id and its age; Git's worktree registry | provision, open a pull request, clean up, delete | sandbox, all that need a workspace |
| Messages: `convex/messages.ts` | messages, parts inline or in R2 | create a turn, patch, delete, hydrate | runs, sessions, R2 |
| Projects and sandboxes: `convex/projects.ts`, `projectActions.ts`, `packages/agent/src/sandbox/index.ts` | sandbox id and status, environment variables and secrets with an update lock, branch switch status; maps of lookups and contexts | create, start, stop, remove, look up, update the environment, switch branch | both sandbox providers |
| Computer use: `packages/config/computer-use-lifecycle.ts`, `agent/src/tools/computer*.ts`, `infra/daytona/autopr/cua_gateway.py` | readiness cache, coalesced promises, observations; the gateway's lock and driver session | ensure ready, recover, act, observe | desktop processes |
| Shell and search tools: `tools/bash.ts`, `tools/process.ts`, `sandbox/e2b.ts`, `infra/daytona/autopr/fff-cli.mjs` | command sessions with a limit; a daemon's lock file and socket | execute, poll, end; search, start, recover | sandbox |
| Sandbox costs: `convex/sandboxCosts.ts`, `sandboxCostActions.ts`, `lib/e2bUsage.ts` | usage rows, executions, sync times | claim, sync, finalize | providers, a cron |
| Recording artifacts: `convex/recordingArtifacts*.ts` | status and upload attempt of an artifact | start, finish and fail an upload | R2 |
| Model credentials: `codex-auth-*`, `grok-auth-*`, `packages/chatgpt` | tokens in the vault under versions, grants | device login, refresh, grant, redeem, log out | OpenAI, xAI, WorkOS Vault |
| Realtime voice: `packages/chatgpt/src/server/realtime-*`, its browser side | live sessions per owner, an event queue, pending confirmations | start, replace, close, confirm | the codex app-server, a browser |
| Agent harness: `packages/agent/src/{harness,step-controller}.ts`, `agent-context-compaction.ts`, `sub-agent.ts` | the conversation, a checkpoint, loop detection | step, compact, retry, intervene, spawn | the model |
| GitHub access, thread metadata and settings, pages, images | single writes, requests, rendering | | |

`PROJECT.json` lists every part with its sources and its status.

### What is hard

* *Leases and attempts that outlive their holder.*  A Git lease, a worktree
  attempt, an environment lock, a token lease and a lock file all lapse by age;
  the holder may still be running.
* *Answers that are lost.*  Every Convex mutation, sandbox command, vault and
  GitHub call may take effect and still be reported as failed; one that is given up
  at a deadline is rarely cancelled and may take effect later.
* *Copies.*  Requests load the thread, the project, a session or an operation
  once and act on the copy several calls later.
* *Events out of order.*  The start of a run is recorded after the run began;
  its end is reported by the task, its hook and every reader; usage reports,
  status reads and saves of a reply overtake each other.
* *Two-store changes.*  A branch name, a worktree, a commit, a reply and an
  environment variable each live in two places which no transaction covers.
* *Hanging and limits.*  The sandbox may not answer at all; tables of sessions,
  grants and events are cut at a limit.

The hazards of `PROJECT.json` name these at their lines, with the properties
that would catch them or the reason why none does yet.

### What makes each part correct

* Git: one request at a time works on the branch; an operation that says it
  succeeded did all it says; it is never reopened; the thread and the sandbox
  agree on the branch; the lease comes back and operations settle; an action
  that is offered on a current status is not refused.
* Runs and sessions: one active run; a live run stays the thread's current run,
  and no thread stays live for ever; an issue is the issue of a failure and
  stays until another run starts; a finished reply is in the message; an
  accepted message runs once with valid credentials.
* Clients: each delta is shown once, the client lets go of a run that is over,
  what is shown is what was told, a message is sent as it was shown.
* File tools: mutations of a file run one at a time in the order of the calls,
  no edit is lost, every call returns.
* Worktrees: ready means the worktree is there; a thread gets its workspace back;
  an attempt that died does not block the thread.
* Environment, sandbox, desktop: what is recorded is what the sandbox has; no
  sandbox is left to nobody; nobody cuts a stream or restarts a service that
  works; a click hits the screen the model was shown.
* Costs, credentials, voice: no running time is charged twice or lost, no
  refresh token is used twice, no acknowledged write is lost, a grant is handed
  to one run, an owner has one live voice session.

## 2. Modules

**How code becomes actions.**  A Convex mutation is a serializable transaction
and is one atomic operator over the documents it changes.  Code that awaits is a
process with a program counter; one action is one call with the code that
follows it up to the next await.  A call that may fail is written once as an
operator (`Call`, `TaskCall`, `Fail`) or as a disjunct of its action.  A call that
takes effect and is answered with an error is modelled in `ThreadGitWorkflow`,
`AgentRun`, `AssistantParts`, `SandboxEnvironment`, `SandboxDesktop`, `VaultStore`
and `RecordingUpload`, and for single calls of `AgentSession`, `ProjectSandbox`,
`RealtimeSessions` and the tools; elsewhere a call that fails has had no effect,
which `PROJECT.json` and section 3 name where it matters.  Failures are
counted against `MaxFaults`.  Providers (Trigger.dev, Daytona, E2B, WorkOS
Vault, R2, OpenAI, xAI, the model) are external and modelled by what the code
relies on.

### Git, worktrees and files

| Module | Models |
|---|---|
| `GitWorkflowPhases` | the phase tables and `nextGitWorkflowPhase`: pure operators |
| `ThreadGitStore` | the thread and operation documents with one action per Convex mutation |
| `ThreadGitWorkflow` | requests (workflow and rename), the sandbox's Git state, GitHub, the agent's edits, the lease's clock; extends the store |
| `ExclusiveWorkspace` | abstract: a workspace that one user at a time may change |
| `GitStatus` | the status of a working copy as the server reads it, the row keeps it, the clients show it and act on it |
| `ThreadWorktree` | provisioning, opening and removal of one thread's worktree |
| `FileMutationQueue` | the promise chains with the write and edit tools |
| `AtomicFiles` | abstract: files that change in atomic steps |

`ThreadGitWorkflow`: `lease`, `ops` and `thread` are the documents; `req[r]` is
the local state of request `r`: its program counter, the operation, the phases
its copy of the record counts as complete, the checkpoint, and the branch it
expects.  `sandbox` is the checked-out branch, whether there are changes, and
the head; `github` the head of each remote branch and the open pull requests.  A
commit is its distance from the base.  The age of the lease is one bit, `fresh`,
which `ExpireLease` clears.  `Submit` to `ReleaseOperationLease` are
`executeThreadGitWorkflow` and `executeResumableGitWorkflow` in order; the phase
handlers are actions of their own; `SubmitRename` to `Unlock` are the rename.

`FileMutationQueue`: a call's link is named by the call: `released` holds those
whose `nextQueue` has resolved, `settled` those whose `chainedQueue` has, `tail`
is the map.  The content of a file is the set of calls whose changes are in it,
which is enough to tell a lost edit from a kept one.

`ThreadWorktree`: the path of a worktree is a function of the thread, so the
registry is one variable: the branch checked out there.  `thread.stale` is the
age of the reservation as one bit.

### A turn and those who watch it

| Module | Models |
|---|---|
| `AgentRun` | POST, task with hooks, readers and stops, Trigger.dev, the thread |
| `AgentSession` | messages appended to a durable session, their two grants, the task that takes them |
| `ChatStream` | the client that reads a run's chunks across cut connections and merges them with the saved row |
| `ThreadComposer` | the web composer: drafts, images, the demo switch, stops and queued messages |
| `Transcript` | what both clients show of a reply's parts, streamed and saved, and of its recordings |
| `AssistantParts` | the parts of a reply inline or in R2: store, patch, replace, delete, read, cache |
| `AgentContext` | what the model is sent: steps, tool calls, loop detection, sub-agents, compaction with its retries |

In `AgentRun` a user message, its assistant message, the run (through its
idempotency key) and the run id are in one-to-one correspondence, so a turn
names all of them.  `thread.current` is `currentRunId` with `isLive`,
`thread.issue` names the run of `agentRunIssue` and `thread.root` says whether
the task reported it.  `Transcript` knows three classes of tools and takes the
stream without faults (`ChatStream` has those).  `ChatStream` has the step-start
parts that a stream has and a row has not: `mergePersistedAssistantParts` compares
by index, so after a stream that was cut short, step-start and "Hel" are kept against
"Hello" in the row, although the comment calls the result the most complete view
(`threadStreamState.ts:106`); `RestShowsReply` says what is kept nevertheless.  In
`Transcript`, labels, the timer row and the app's recording card are left out.

In `SandboxEnvironment`, `slips` records two things no code reads: a rollback that
took a call which had its effect for one that had none (`Misjudges`: an upload, a
commit, a removal's destruction), and two operations at work on a Daytona project at
once.  Both happen in the model as in the code; `NoDanglingSecret` and
`SandboxMatchesRecord` make no claim after them, and `SuccessIsWhole` does.  In
`SandboxDesktop` and `DesktopReadiness`, `late` holds the restarts whose request gave
up at its deadline (`Abandon`); `Land` lets one take effect at any later step, under
whatever has been started since.  `slips` and `landed` record that, and that a probe
of a vnc that serves went unanswered.

### The sandbox

| Module | Models |
|---|---|
| `SandboxEnvironment` | variables and secrets under the update lock, with rollback (E2B), and without a lock (Daytona) |
| `ProjectSandbox` | opening a repository, provisioning, switching the branch, removal |
| `SandboxAccess` | how the calls of one worker look up, share, start and remove a Daytona sandbox |
| `SandboxDesktop` | start, stop, preview and recovery of the desktop in one backend process |
| `DesktopReadiness` | the readiness cache and shared promises of the computer tool |
| `ComputerUse` | the queue of computer operations and the observation a coordinate action must name |
| `CuaGateway` | commands in the gateway: lock, session, repetition, time limits, the mapping of coordinates |
| `RecordingUpload` | the upload with its attempts |
| `FffDaemon` | the search daemon with its lock file and socket |
| `BackgroundProcesses` | the commands of an agent and the bounded table of sessions |

`SandboxAccess` takes the maps of one process and calls that name their working
directory.  `CuaGateway` assumes of the driver that a cancelled call has
happened or never happens: the code cannot tell, and no result of it could be
relied on otherwise.

### Accounts

| Module | Models |
|---|---|
| `SandboxUsage` | usage rows, executions and syncs against the provider's event log |
| `GrokCredentials` | refresh of a one-use token under a lease in the vault, from several processes |
| `VaultStore` | the key-value store over the vault: update, take, expiry |
| `ChatGPTSession` | device login, status, refresh and logout over one session object |
| `RealtimeSessions` | voice sessions of an owner, their replacement, the confirmation of an action |
| `RealtimeCall` | one call: peer connection, signalling, events, tools, end |

### Modules that join components for checking

`MCThreadGitCore`, `MCThreadGitLive`, `MCAgentLive`, `MCSandbox` and
`MCAccounts` each check several components in one run.  The components of such
a module share no state in the code, or are different instances of one
component; a variable `part` says which of them a behaviour belongs to, and the
variables of the others do not change.  A joint behaviour is thus a behaviour of
one component: nothing is gained or lost against a run of its own, and no
interleaving of components that never meet is enumerated.  `MCSandbox` and
`MCAccounts` let the parts use the same variables `v1`, `v2`, ... in turn.
Their next-state relations take each component's `Next` as one disjunct;
`tlc -coverage` counts the actions inside it one by one, and every action of every
component fires in some passing run.  In two places a part takes only some
actions of the component, because another part of the same run has the others:
`UsageNext` (no restart or preview: `resumes` has them) and `ReadsNext` (thoughts
of one length, and no pointing: neither is told apart by the property).

## 3. Runs

| Run | Instances | Question |
|---|---|---|
| `git_core` | `ThreadGitWorkflow`: 2 operations, 2 requests, worktree mode, all fault kinds, 2 faults; `GitStatus` three times: overlapping reads, an action on the web, an action on the phone | Do exclusion, delivery and finality hold and does the workflow implement `ExclusiveWorkspace`? Is a kept or answered status current, and is an offered action refused only for a later change? |
| `git_live` | `ThreadGitWorkflow` three times: failing checks and commands; all faults and retries that overlap; requests that outlive the lease | Does a running operation have a runner and settle, do thread and sandbox agree on the branch, does the lease come back, does every request return? |
| `git_rerun` (violation) | failing checks | Do completed phases stay completed? |
| `git_trailing_release` (violation) | 3 requests, retries that overlap | Is there one worker when a client retries an operation that still runs? |
| `agent_live` | queue with 3 calls of a file; a thread with 1 turn, 2 POSTs, a reader, visibility lag and all faults; a stream with 2 text parts and 2 cuts; the composer with 2 messages, and with 1 message beside a run of another client | Order, exclusion, atomicity and progress of the queue; does the thread settle; is the reply shown once and does the client let go; is a message sent as it was shown? |
| `agent_lag` (violation) | visibility lag, no faults | Does a live run stay current when Trigger.dev does not show it yet? |
| `agent_overlap` (violation) | no faults | Is there one active run? |
| `worktree` | 2 provisioning requests, 1 opening, 1 removal, 1 slow attempt, 1 fault | The properties of worktrees |
| `sandbox` | 12 parts: 3 environment updates on both providers with 2 failures, before or after their effect; 4 calls on a project that is made twice; 3 requests each for desktop, readiness, computer use, commands, access and search; 4 uploads; 2 turns of a thread; 2 Git requests in checkout mode that overlap and outlive their lease; the gateway with 3 calls | Is the environment whole, no sandbox or daemon left or doubled, no stream cut, no service disturbed; is the screen acted on the one that was shown; do rows and issues say what happened; is a commit shown as pushed on GitHub? |
| `accounts` | 14 parts: costs with overlapping syncs, and with restarts; 3 messages of a session; 3 saves of a reply, and 2 with 2 readers; a transcript; 3 calls for Grok tokens from 2 processes; 4 clients of the vault; 3 requests of a ChatGPT session; 3 starts and 2 closes of voice sessions; 3 confirmations; a call; a conversation of 4 steps, and of 2 turns | Is the charge exact and final; does an accepted message run once; can a reply be read; are connections kept; is nothing lost or redeemed twice; is there one live session; is the model sent the whole conversation? |
| `chatgpt_login` (violation) | 2 logins | Do repeated clicks keep the code? |
| `env_outlived` (violation) | 2 updates, no faults, the lock may be outlived | Does no variable name a destroyed secret? |

**Why the bounds are enough.**  Two requests suffice for every race between two
holders of a lease, and an idle request may submit again, so sequences of
attempts are not bounded by the number of requests; the three of
`git_trailing_release` are the first attempt, its retry and a third party.
Two commits give a commit before and one after a push.  Two faults give a
failure in an attempt and one in its recovery.  In `AgentRun`, two turns are a
current run and an older one, and two POSTs give the race of two starts and the
repetition of one.  In the queue, three calls are a runner, a waiter that gives
up and one behind it; files share only the registration order, so one file
exercises the chain (the proofs cover any number).  In `ThreadWorktree`, two
attempts are a slow one and the one that takes over, and requests may ask again.
In the parts of `sandbox` and `accounts`, three users of one shared thing are
one in the middle of a step, one that overtakes it and one that finds what the
two left; four are taken where a chain of takeovers has one more link
(`RecordingUpload`, `VaultStore`, `ProjectSandbox`).  A limit of the code (16
grants, 32 command sessions, queued events, tries) is replaced by a small number that
the instance exceeds.  Symmetry is declared only where no liveness property is
checked.

**Constants that say what is assumed.**

* `RetriesOverlap = FALSE`: a client posts an operation again only when no
  request runs it any more.  The clients refuse Git actions while the operation
  is shown as running, but nothing on the server enforces it: part `recovering`
  of `git_live`, part `git` of `sandbox` and `git_trailing_release` set it to
  TRUE.
* `OutliveLease = FALSE`: a request ends before its lease lapses
  (`GIT_MUTATION_LEASE_MS`).  Part `outliving` of `git_live` and part `git` of
  `sandbox` drop this.
* The faults `unready` (the sandbox is not ready when a workspace is asked for)
  and `no_answer` (`tasks.trigger` makes the run and fails) are checked where the
  property is about what they endanger: `no_answer` in `agent_live` and not in
  part `runs` of `sandbox`, because the catch of the POST then revokes the grant
  of a run that exists.  It is listed with the hazard of that line.
* `VisibilityLag`: a run that was just created may be unknown to
  `runs.retrieve`.  `agent_live` and `agent_lag` allow it.
  `trigger-agent-stream-server.ts` tolerates 30 s of it; the lag is taken to
  be shorter than that.
* `OpenWhileRemoving = FALSE`: nobody opens a pull request on a thread while its
  worktree is being removed.  With TRUE, `ReadyHasWorktree` fails without any
  fault: `completeGithubPullRequestCheckout` compares no attempt and marks the
  thread ready after the removal has taken the worktree and marked it cleaned.
  Nothing in the repository says which outcome is wanted, so this is noted as
  a hazard and not as a finding.
* `MaxSlow`: how many reservations may get old while their attempt still works.
* `OutliveLock` (environment) and `OutliveLease` (Grok): may the holder work on
  after its lock has lapsed?  FALSE in the passing runs; `env_outlived` shows
  what TRUE does.
* `StartsOverlap = FALSE`: no session is asked for while a background command
  starts; `RecoveriesOverlap = FALSE`: clients of the search daemon do not judge
  a lock file while another one removes it, and a lock does not grow old while
  its daemon starts.  With TRUE `BackgroundIsManageable` and `OneDaemon` fail;
  the code guards against neither and says nothing of it, and both are hazards.
* `Sound` and `Quiet` (environment): on E2B the comparison of sandbox, document and
  vault is claimed until two calls have failed or one that took effect was judged to
  have had none; on Daytona until a call has failed or two operations overlapped.
* `Measured`: does the provider's last event carry the measured running time?
* `Providers`, `Others` (runs of other clients), `Unrecorded` (changes of the
  working copy nobody reports), `MaxToggles`, `RetryLimit`: what an instance
  contains.
* `git worktree list` and `show-ref` are read as one step, and a failed command
  of `ThreadWorktree` has no effect (a request that dies after the effect of a
  command is covered).

**Fairness.**  Clients, users, the agent and failures owe nothing.  A serving
process or worker continues what it has begun (weak fairness of the steps of
each request or task): it is not preempted for ever, and its death is a fault.
The clock runs (`ExpireLease`, `Outlast`).  Trigger.dev ends the runs of dead
workers and shows the runs it made.  A client that has a live thread open
attaches to its run (`WF(OpenStream)`): the thread view resumes the stream of
the current run (`thread-chat.tsx`), and `ThreadSettles` needs it, because
after the death of a worker nobody else settles the thread.  A client of
`ChatStream` goes on reading or reconnecting.  The event loop of the worker runs resolved promises and
due timers; the sandbox owes nothing to the caller of a tool, and that every
mutation ends in the chain of a file is an assumption within the property
(`MutationsEnd`).  `ProvisioningEnds` and `GetsWorkspace` assume that clients
ask again (`AskedAgain`, also within the property).  The joint modules state
the fairness of their parts and no more.

## 4. Findings

1. `git_rerun`: the workflow tells the user that completed phases will not run
   again, but a retry whose checks before execution fail records "failed" for
   the branch or validate phase, which was complete (`failBeforeExecution`).
2. `git_trailing_release`: "Another Git operation is already running for this
   thread" promises one worker.  When an attempt ends in an error and the same
   operation is retried before its trailing `releaseGitOperationLease`, that
   release, which goes by the operation id, gives away the lease of the retry;
   a third request then enters next to it.
3. `agent_lag`: the stream route waits for a run that is not visible yet, the
   stop route and the POST do not: they take it for ended and clear the thread
   of a live run.
4. `agent_overlap`: "An agent run is already active for this thread" is decided
   on a thread loaded before the run is created; two POSTs of different turns
   both pass.
5. `env_outlived`: a comment says that an expired owner may renew its lock until
   a newer acquisition and that this makes rollback safe.  An import that was
   taken over after it uploaded its manifest cannot renew, skips the upload of
   the previous manifest and still destroys the secrets it created: the sandbox
   is told of secrets that are gone.
6. `chatgpt_login`: "repeated clicks don't invalidate the user's in-progress
   code", but two logins that overlap each request a code, and the later save
   replaces the other; the code shown first is never polled.

## 5. Proofs

TLAPS checks these for every value of the constants: any number of requests,
operations, runs, readers, calls, files, clients, uploads and variables, and any number
of faults (the properties of the environment say after which failures they claim
nothing).  Where a theorem has a hypothesis beyond
the assumption of its module, the hypothesis is in its statement, and a run or
the text below says what becomes of the property without it.

### The Git workflow

`ThreadGitProofs`, in five parts.

* Types and what is on GitHub.  `TypeCorrect` (`Spec => []TypeOK`): `TypeOK` is not
  inductive; that a commit stays within `MaxCommits` needs "the workspace is
  dirty only below the bound", that a branch which is written is a branch needs
  "a request in its loop knows its operation, its phase and its branch".
  `TypeInv` adds these.  `PushedIsOnRemoteHolds` has no hypothesis: a commit the
  thread shows as pushed, or that a request is about to report as pushed, is on
  the remote branch (`PushInv`), and no step takes a commit off GitHub; so it
  survives overlapping retries and outlived leases.
* The lease.  Under `~RetriesOverlap` and `~OutliveLease`,
  `MutualExclusionHolds`.  The invariant is `LeaseInv`: no two requests are on
  one operation, and a request at a step that relies on the lease holds it,
  fresh and under its own id.  Each action keeps, takes or drops the lease
  (`KeepsLease`, `TakesLease`, `DropsLease`), and one lemma, `LeaseStep`, shows
  that each of the three preserves the invariant.  From the same invariant
  `ImplementsExclusiveWorkspaceHolds`: the owner of the abstract workspace is
  the request that relies on the lease, and every step is an `Enter`, a `Change`
  by the owner, a `Leave`, or a stutter.  Both hypotheses are needed:
  `git_trailing_release` is a counterexample without the first, and without the
  second a lapsed lease is acquired again by design.
* The rename.  `BranchAgreesHolds`: on a worktree thread the
  branch on record is the branch of the workspace, but between the two halves of
  a rename.  `RenameInv` says that at most one request is between the halves, and
  what it will put right.  The hypothesis `RenameIsWhole` says that a rename
  comes to its end: no process dies in it, the store answers, no command times
  out, and an error or a lost answer meets neither an overlapping retry, nor an
  outlived lease, nor a sandbox that is not ready for the rename back.  TLC finds
  a counterexample for each part that is left out.
* The record.  `RunnerKnowsTheRecordHolds`,
  `SucceededIsCompleteHolds` and the action property `SucceededIsFinalHolds`.
  `RecordInv` says of every record which results its status allows
  (`RecordOK`), and of every request in the loop that its copy of the completed
  phases is the record, that the phase it is at is the next one, and what it
  still owes (`RunnerOK`).  Exclusion makes the copy the record: nobody else
  writes it.  `completeGitOperation` does not check the phases; the invariant
  is why that is right.
* Delivery.  `SucceededIsDeliveredHolds` and
  `ReportIsTrueHolds`.  `DeliveryInv` relates the record to the world: what a
  completed phase claims is so in sandbox, GitHub and thread (`RecordDid`), what
  a request has done and not yet reported is so too (`RequestDid`), commits and
  remote heads are consistent (`WorldOK`), and a rename does not fall between
  the phases of an operation that relies on the branch (`RenamesInTime`).  It has
  one hypothesis more, `DeliverableActions`: the thread is in checkout mode, or
  an action that pushes also commits.  Without it the property is false: on a
  worktree thread a push-only operation whose mark was lost in a crash leaves
  the commit status at "none", so a rename of the generated branch may follow;
  the resumed operation pushes the new branch but looks for the pull request of
  the branch in its old checkpoint (`checkpoint.branch ?? expectedBranch`,
  `thread-git-workflow-server.ts`).  On a worktree thread the hypothesis leaves
  out the actions `push`, `push_create_pr` and `create_pr`; in checkout mode it
  leaves out none.
  Last, `RunningHasRunnerHolds`: an operation on record as running
  has a request that holds it (`RunnerInv`), with no hypothesis on retries or
  leases, if no process dies and the store answers.  With `BranchAgreesHolds` and
  `PushedIsOnRemoteHolds` this covers every part of `RecordIsTrue`.

### Agent runs

`AgentRunProofs`: `AgentTypeCorrect`; `LiveRunStaysCurrentHolds` under
`~VisibilityLag` (`agent_lag` refutes it without); `IssueIsKeptHolds` and
`IssuesAndRepliesHold`; `TurnIsServedHolds` if `no_answer` is not among the
faults.  `AgentInv` says what the thread may show of a run at each stage of the
run (`ThreadInv`), that a message is persisted before the marker that lets
readers settle it (`RunOK`), and what a POST and a reader know of the run they
carry (`PostIs`, `ReaderIs`).  One lemma, `ThreadDoes`, lists all that any step
does to the thread, so that the action properties need no second walk through
the actions.  `GrantInv` adds, for the credentials, that a grant is owned by its
POST until the transfer and by its run afterwards.

### Worktrees

`WorkspaceProofs`: `WorktreeTypeCorrect`; and `ReadyHasWorktreeHolds` under
`~OpenWhileRemoving`.
`WorktreeInv`: the thread's branch is its own or the pull request's (`BranchOK`),
ready means there or taken (`ReadyOK`), an attempt that may still report ready
is the current one and has seen its worktree (`RequestOK`), and no opening is
under way during a removal (`Apart`).  Without the hypothesis TLC finds a
counterexample of 14 states.

### The Git status

`WorkspaceProofs`: `StatusIsTrueHolds`, the three parts of `StatusIsTrue`, for any
number of status requests at once, of changes, recorded or not, and of clients.  The
hypotheses are that no client is the model's name for none, that the bounds are
numbers, and that a branch that is not on GitHub is not behind of it.  `StatusInv`
rests on three sets that move with the state: the statuses that were read between
two versions, are new enough unless the row calls them outdated, and tell what the
repository is as long as nothing has changed (`Sound`); the requests that will make
such a status of what they have read so far (`SoundReads`); and the pages that hold
one (`SoundPages`).  A step may only move versions and invalidations on
(`StatusFrame`), and one lemma, `SoundStays`, shows that what was in these sets stays
there.  A request of the web app is for an invalidation the app has learnt of, and is
new enough for the last of them (`AskedByWeb`), which is why an older answer never
takes the place of a newer one.  `ActionOK` is about the action under way: its own
changes do not count as disturbing it, and undisturbed it finds what the status said.

### The composer

`AgentRunProofs`: `ComposerKeepsItsWordHolds` (`ThreadComposer`) is what
`ComposerKeepsItsWord` asserts of each part of its run.  Its hypotheses are that only
messages have images, that a message and a run of another client are two things, that
no run is the model's name for none or a setting, and that the bounds are numbers.

* The demo setting (`DemoOK`, `DecidedWell`).  What the page shows while nothing is
  saved is what the thread has.  A message that has been decided on and was not
  posted has that setting too, because who submits while a save is under way waits
  for it, and a change of the setting takes back what had been decided.
* Stops (`RunsOK`, `StoppingOK`, `StoppedBefore`).  A run is over once it was the
  thread's and is not any more, and stays so.  While a run of the thread is asked to
  stop, it is the one the page waits for (`pendingStop`), and the page can ask for no
  other: the run it follows is this one or none, and no answer that would name another
  is under way.  So a message that was submitted after the request either waits for
  that run or finds it over, and whatever it is refused for is another run.

### Files and background commands

`AgentToolProofs` has the tools an agent runs in a sandbox.  About the file queue:
`TypeCorrect`, `NeverOverlapHolds`, `StrictOrderHolds`
and `AtomicityHolds` (`Spec => FilesChangeAtomically`, a refinement).  The
invariant says that the links of a file form one chain: of two registered calls
of a file one was linked before the other, a settled link has only settled links
before it, the predecessor of a link covers all that was linked before it, and
the map's entry covers all links of its file (or all of them have settled).
With it, an uploading edit's base is the file's content (`ReadIsCurrent`), so
every step maps to an atomic change or a stutter.

About background commands, `BackgroundIsManageableHolds` (`BackgroundProcesses`)
under `~StartsOverlap`, as the run has it: otherwise a session that another call
asks for may push the one a command starts in out of the table.  `CommandOK` says
of a command what its call, its process, its record and the polls of it may be
together; a command that is started, or that runs under the name the agent was
told, has its session in the table.  The lists of the table are treated by lemmas
at the head of the part: what it has after an entry was dropped or added, each
entry once; and because the oldest entry that is not active is dropped, which is
a least index (`HasLeast`, from the library's well-foundedness of the numbers), an
active one never is.

About the commands of the computer tool, `ScreenIsReachedHolds` (`CuaGateway`) under
the assumption of that module alone: screen, image and window have a size.
`GatewayInv` says what the call that is made, the commands at the gateway and the
strokes on the screen have to do with one another: the call's program and how far
it is (`ProgramOK`); of the commands at the gateway only the oldest has begun, only
the newest can be heard, and those of an abandoned call stand before those of a
later one (`JobsOK`); strokes follow each other, and commands and the call follow
the strokes (`StrokesOK`); what came after the last image is of a later call
(`ShotOK`); a command that is heard and changes the screen has, up to its step,
done so in one piece at the end of the strokes (`DoneOK`, with `Underway`), which is
what it takes to know that it is done in full when it is answered; and a window's
image is one that `Region` computes (`ImageOK`), from which two inequalities of
`ToScreen` put every point of the image on the screen and near the window.  How near
the proof corrected: a point may be up to `CeilDiv(Screen, Source)` pixels, a pixel of
the image, before the window, even where the image is finer than the screen (with
screen 100, image 101 and a window at 99 it is 98), which the sizes of the run do not
show.

### Messages and replies

`ReplyProofs`.  `AcceptedMessageRunsHolds` (`AgentSession`) is the whole of
`AcceptedMessageRuns`, with no hypothesis but that the two bounds are numbers and
that no message has the model's name for no message.  `SessionInv`:

* Which grants a message may still need follows from where its POST and its turn
  are (`PostsOK`, `SessionOK`); the model's grant is in the vault until the turn
  takes it, and is taken for one use (`VaultOK`).
* The thread has the newest grants, in the order in which they were issued
  (`GrantsOK`).  A grant it has not was spent by its turn, or `MaxGrants` newer ones
  were issued after it (`PushedOut`).  That the window cannot push out one grant
  and keep an older one needs the order: the lemmas at the head of the module say
  what appending to a list, removing an element and keeping the last `MaxGrants`
  leave of lists without repetition (`RemovedOnce`, `Appended`, `NewestKept`,
  `PushedOutStays`).
* Until a call fails, a turn that is over left its reply and neither grant
  (`SpentOK`).

`ReplyIsReadableHolds` (`AssistantParts`) is what `ReplyIsReadable` asserts of the
two parts of its run about saving and reading; what the clients make of the parts
(`Transcript`) stays with TLC.  Saves may have one content, and then one object:
the row may go from A to B and back to A.  `risked` collects the contents whose
object the code can lose: those whose patch took effect and answered with an error,
and those with two saves of which one is under way with any other save.  Of every
other content (`SureOK`): while a save is to delete its object, the row does not name
it and no save is to put it back (`Dropped`, `Undone`), because two saves of it and a
third party are never under way at once (`Apart`); so what the row names is stored
(`Referred`), and what a patch will name (`Stored`).  A reader that found an object
missing asked for one the row no longer has, or for a content that was saved again
(`ReadsOK`, `CacheOK`); until a call fails every object is the row's or is still in
the hands of a save (`ObjectsOK`).  Its hypothesis says that the names of contents
are none of the model's names for an absent one.

`StepsAreSoundHolds` (`AgentContext`) is `OneAttemptIsShown` and `LoopsAreStopped`,
two of the four parts of `ContextIsKept`, under the model's assumption about its
constants.  `ContextInv`: what the stream passed on is of the current attempt, each
chunk but metadata once, a call exactly if the step has made it, and nothing as
long as the attempt may still be replaced (`ShownOK`); a call's number is at most
the number of calls, so a new one has a new name (`CallsOK`); the agents at work are
calls that run, and there is none between two steps (`AgentsOK`); a step that calls
tools is below both limits of the loop detector, because one that starts at a limit
is stopped and calls none (`LoopOK`).  One lemma (`PassedOn`) says what a stream
shows after it passed on its buffered metadata and one chunk more.

### The environment of a sandbox

`SandboxEnvironmentProofs`: `EnvironmentTypeCorrect`, `NoDanglingSecretHolds` and
`SandboxMatchesRecordHolds`.  The sandbox, the document and the provider's
secrets change in three calls of three services, and what keeps them together is
the order of the calls, the lock and the rollback.  `EnvironmentInv` has a case
for each provider.

* E2B (`E2BOK`).  Whoever is between acquisition and release is alone, owns a
  live lock, and has read what the document said then (`StageOK`).  From there
  each stage says which of the three stores it has already changed: from the
  creation of secrets on, the new ones exist; from the manifest on, the sandbox
  has the wanted secrets; after the commit the document has them too; the old
  ones exist until the destruction.  The rollback says the same backwards.  An
  operation that has not begun has left no secret anywhere, which is why
  discarding what one created takes nothing from another.  `From` says where
  the secrets of a new map come from; with it one lemma (`E2BKeeps`) shows that
  no step of one operation disturbs another.
* Daytona (`DaytonaOK`).  There is no lock, operations may overlap, and the claim is
  for histories in which none did and no call failed (`Quiet`).  A secret that
  is destroyed was taken from the sandbox's map before (`Dropped`) and leaves the
  document before or right after it.

The two safety theorems have the hypothesis `~OutliveLock` (an update ends before its
ten minutes are over; `env_outlived` is the counterexample), and on E2B the properties
claim something while `Sound` holds: one call failed, lost its answer or died, anywhere,
in any number of updates, and no rollback took an effect for none.  Neither part is a
convenience.  After two failures TLC finds both properties violated, because a rollback
whose upload fails is not repeated.  After an upload that took effect and threw,
`manifestUpdated` is false, so the old manifest is not restored while the secrets of the
new one are destroyed; after a destruction that took effect and threw, the rollback
lists the secret again.  `SuccessIsWhole`, which holds for those histories too, is left
to TLC.

### The desktop of a sandbox

`SandboxEnvironmentProofs`: `StreamIsKeptHolds` (`SandboxDesktop`) and
`NoServiceIsDisturbedHolds` (`DesktopReadiness`), together `DesktopIsKept`.  The
hypotheses are that the bounds are numbers, that no request or call is the model's
name for none, that the sessions are finitely many, and that every call is of one of
them.

* `DesktopInv`: whoever opens the desktop or recovers its stream, from the start of
  the sandbox on, has the preview (`Opens`), so there is one; and a vnc it is about to
  restart is down still, since nobody else starts one but a restart that was abandoned
  at a deadline and has landed, or the recovery's probe went unanswered
  (`DesktopRequestIs`, `Restartable`).  While the stream is connected both services are
  up, so whoever restarts the vnc cuts nobody off.  A restart that lands takes
  `connected` with it, which is what the property says of it.
* `ReadinessInv`: a call works for its session exactly when the session's promise is
  its own (`CallIs`, `PendingOK`), which is also why a call never waits for a promise
  that nobody will settle.  Where all calls are of one session, one call restarts
  services at a time, and one that it is about to restart runs only if an abandoned
  restart has brought it up meanwhile (`landed`).

### The costs of a sandbox

`SandboxEnvironmentProofs`: `FinalizedIsFinalHolds` (`SandboxUsage`), with no
hypothesis.  Syncs overlap, and one that saw the sandbox alive may record that after
another was told of its end.  `UsageInv`: a sandbox whose removal is listed is gone
(`EndOfLog`); a sync that was told of it took its time after everybody who is about
to record that the sandbox was there, or they are stale already (`LaterIsFinal`); so
once it has finalized the row, whoever saw the sandbox alive is stale
(`RowIsFinal`), and a stale sync writes nothing.

### The vault

`CredentialProofs`: `VaultTypeCorrect` and `NothingLostOrRedeemedTwiceHolds`, with
no hypothesis but that `MaxAttempts` is positive.  The store has compare-and-swap
on an object's version and nothing else; an object that is deleted and made anew
has another id, a value may expire between two calls, and every call may take
effect and fail.  `VaultInv` says what a client may still believe of the object
it read: where id and version are the object's, the value is what it saw
(`SeenOK`); what a client is about to write or remove follows from what it saw
(`StepOK`); a grant has one setter, whose write makes the only object there ever
is (`OneSetter`); and what one client has taken is in the store no more and with
nobody else (`TakenOnce`).

### Grok tokens

`CredentialProofs`: `GrokTypeCorrect` and `StoredIsConnectedHolds` with no
hypothesis; `NoTokenIsReusedHolds` and `ConnectionIsKeptHolds` under
`~OutliveLease` (without it TLC refutes both in 10 states: the next call takes the
lease of a refresh that has spent the token and not yet stored the new one).  An
update of the vault is tried `MaxTries` times, 4 in the code and 2 in the run; a
refresh whose every try to store the new token meets another write (a new connection,
or calls that take the lease) gives it up, and if it still had the lease, the
connection is lost: `lost` says so, TLC reaches it, and both properties claim nothing
after it.  The theorems are for any `MaxTries`.  A version names an object (`SeenOK`), so a call that writes its
lease has read what is stored, and nobody else has a lease on it.  `LeaseOK` says
that whoever has the lease works for the connection that is stored, which is
enough for the first half of the property, in any history.  `OnceInv` is about
the token a call has in hand, to exchange or to store: until a call fails it is
unused, in no other hand, and is what is stored only while its holder has the
lease.  Once a call has failed nothing is claimed of tokens, as in the property:
an exchange whose answer is lost uses a token up.

### ChatGPT sessions

`CredentialProofs`: `CallsKeepTheSessionHolds`, with no hypothesis but that the
bounds are numbers, that there may be a token, and that no request is the model's
name for none.  `SignInInv` claims something only while no status and no login
overlapped with another request: then a status or a login is the only request under
way (`StatusAlone`); one request at a time refreshes for the others, what a
request has read is good until it is exchanged, and what it got for it is good until
it is stored (`SignInOK`); and the stored token is good or its successor is in the
hands of a request that is about to store it (`TokenKept`).

### Voice sessions

`CredentialProofs`: `LiveSessionHolds` (`RealtimeSessions`) and `CallIsSoundHolds`
(`RealtimeCall`), together `LiveSessionIsSound`.  The hypotheses are that the bounds
are numbers and that no start is a close.  A variable that two models of the module
share by name (`call`, `session`, `managed`, `faults`) stands in each theorem for the
variable of its own model.

* `VoiceInv`: who waits is in the line, and who works is the first of it
  (`LineOK`); a session that is open is in the map or in the hands of the start that
  works (`SessionOK`), and the map is empty while one works (`OneOK`), so there is one.
  From a logout on, only a start that got its tokens while it went on has a session or
  makes one (`LateOK`).  An action waits, or exactly one confirmation has it
  (`ConfirmOK`).
* `TalkInv`: what is over is off, and a session whose name the page knows was asked
  to be deleted (`EndOK`); a mute the user did not choose is one that is to be undone
  (`MuteOK`); how often a tool was answered and done follows from where its call is
  (`ToolOK`), and no event says that a call is completed which is not.
* `OrderInv`: what has been said shows in session and calls, so no event is said twice
  (`Said`); what the page has seen, what is on the way and what waits are, in this
  order, a part of all that was said, with nothing twice, and all of it unless
  something waited too long (`LinedUp`).

### Sandbox tools

`SandboxToolProofs` has the smaller components, each with its invariant.

* `AccessIsSoundHolds` (`SandboxAccess`), for any calls and failures; its second
  hypothesis says only that no call has one of the two names the model uses for
  no call.  `AccessInv`: the table names the lookup that goes on until a removal
  begins, whoever has the sandbox has it under its policy, and a lookup that had
  begun before the removal has the remover waiting for it, which is why it
  cannot put a removed sandbox back into the table.
* `RowFollowsLatestAttemptHolds` (`RecordingUpload`), with no hypothesis but that
  the bound on faults is a number.
* `OneDaemonHolds` (`FffDaemon`) under `~RecoveriesOverlap`, as the run has it: a
  client that removes a lock judged it old before, and `SearchInv` says that it
  is alone with that judgement, that the lock is old still, and that no daemon
  runs.  Without the hypothesis two clients may remove one another's locks.
* `ActsOnWhatItSawHolds` (`ComputerUse`) with no hypothesis.  The head of the
  queue alone gets on, and the tracked operation is its operation (`QueueOK`,
  `HeadOK`); who names the last observation has seen what it shows (`SeenOK`);
  what took effect since that observation was done by calls that were answered as
  failed or by the one that is about to observe, and an action under way has not
  taken effect and, if it is a click, finds nothing but such calls since its model
  looked (`ScreenOK`).
* `ProjectSandboxHolds` (`ProjectSandbox`), with no hypothesis but that the bounds
  are numbers and that no project is the model's name for none.  `ProjectInv`: one
  request at a time makes a sandbox (`OneMaker`), and until it has recorded it the
  project is as it was made, so nobody else switches its branch or deletes it
  (`MakerOK`); what is not the project's any more was deleted, or given up by a
  failure that is counted (`RemovedOK`, `FailOK`); requests that switch the branch of
  one sandbox at once are marked so (`OverlapOK`), and one that overlaps no other
  finds branch and working copy as it left them at each of its steps (`SwitchOK`,
  `IdleOK`).

### What stays with TLC

* Liveness, by the reach of the prover: `RunningSettles`, `LeaseComesBack`,
  `RequestsReturn` (a part of `LeaseComesBack`), `ThreadSettles`,
  `QueueMovesOn`, `StreamEnds`, `WorkspaceComes`.
* Safety that is checked and not proved: `ReplyIsShown`; of `ContextIsKept` the
  parts `ContextIsWhole` and `CallsAreAnswered`, of `ChargeIsRight` the parts
  `SettledIsExact` and `NeverOvercharged`, of `ReplyIsReadable` the part about
  `Transcript`; and the type invariants of the components these belong to.
  `ReplyIsShown` and `Transcript` compare what is left of sequences that were filtered
  and folded, `ContextIsWhole` and `CallsAreAnswered` flatten and fold messages,
  `SettledIsExact` and `NeverOvercharged` are about sums: what such definitions
  compute takes an induction over data, which the prover does not do.

## 6. What is not modelled, and what is next

* *Two checkout threads on one working copy.*  The lease belongs to a thread;
  `ThreadGitWorkflow` has one thread.  The hazard at `threads.ts:1305` is the one
  no property covers.
* *External services* are what the code relies on, not what they are: Trigger.dev,
  Daytona, E2B, Vault, R2, GitHub and the models may refuse, lose an answer or
  die, and otherwise do what they were asked.
* *Data.*  Contents of files, diffs, messages, prompts, prices, token counts,
  coordinates and names are reduced to what a property tells apart.  Which text
  an edit finds, how a summary is worded and how a cost is computed from a
  duration is left to unit tests.
* *Components without a model:* GitHub sign-in and browsing, thread metadata and
  settings, images and configuration: single writes, requests and build files.
  Of the pages and screens of both clients only what keeps state of its own is
  modelled; rendering is not.
* *Parts left out of modelled components* are named in the notes of
  `PROJECT.json`: among them Daytona's usage, the Grok device flow, the protocol
  of the codex app-server, the list of changed files, and paths that exist
  without being registered with Git.

## 7. How to run it

```
tlc -config ThreadGitCore.cfg MCThreadGitCore     # a run: module and cfg of PROJECT.json
tlc -config ThreadWorktree.cfg ThreadWorktree
tlapm ThreadGitProofs.tla                         # the proofs of a module
```

Every run ends within a few minutes on two workers; the proofs of a
module take two to nine minutes from nothing.  The
community modules (`SequencesExt`, `FiniteSetsExt`, `Functions`, ...) and the
TLAPS library must be on the path.

`PROJECT.json` lists the components with their sources, the runs with their
properties, for every property a mutated definition of the model that violates
it, the lines of the source each definition stands for, the findings, the
hazards with the properties that cover them, and the theorems.
