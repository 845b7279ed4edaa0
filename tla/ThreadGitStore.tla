--------------------------- MODULE ThreadGitStore ---------------------------
(***************************************************************************)
(* The Git part of one thread's document and its gitOperations documents,  *)
(* with the Convex mutations of packages/backend/convex/threads.ts that    *)
(* change them.  A Convex mutation is a serializable transaction, so each  *)
(* is one atomic action over the three store variables.                    *)
(*                                                                         *)
(* Time is abstracted to one bit: the lease is fresh until it is older     *)
(* than GIT_MUTATION_LEASE_MS.  Messages, diagnostics, timestamps, attempt *)
(* numbers and the inputs of a commit or pull request are left out.        *)
(***************************************************************************)
EXTENDS GitWorkflowPhases

CONSTANTS
  OpIds,       \* operation ids minted by clients
  Requests,    \* HTTP requests; each doubles as the uuid of withThreadGitMutation
  None,        \* an undefined id
  Branches,    \* names a workspace branch can have
  MaxCommits   \* bound: commits the workspace branch can be ahead of its base

ASSUME StoreAssumption ==
  /\ OpIds \cap Requests = {}
  /\ None \notin OpIds \cup Requests \cup Branches
  /\ MaxCommits \in Nat

VARIABLES
  lease,   \* gitMutationId and the age of gitMutationStartedAt
  ops,     \* gitOperations by operationId
  thread   \* branch, commit and pull request fields of the thread

storeVars == <<lease, ops, thread>>

-----------------------------------------------------------------------------
(* Documents. *)

LeaseId == OpIds \cup Requests \cup {None}
CommitSha == 0 .. MaxCommits   \* a commit, named by its distance from the base

NoLease == [id |-> None, fresh |-> FALSE]
FreshLease(id) == [id |-> id, fresh |-> TRUE]

LeaseNeverLapses == lease.id # None  \* mutant: no age limit

\* hasActiveMutation / leaseActive
LeaseActive == lease.id # None /\ lease.fresh

Checkpoint == [branch : Branches \cup {None}, commitSha : CommitSha,
               pullRequest : BOOLEAN]
NoCheckpoint == [branch |-> None, commitSha |-> 0, pullRequest |-> FALSE]

Operation ==
  [status        : {"absent", "running", "failed", "succeeded"},
   action        : Action \cup {"none"},
   results       : [Phase -> PhaseStatus],
   currentPhase  : Phase \cup {NoPhase},
   checkpoint    : Checkpoint]

NoOperation ==
  [status |-> "absent", action |-> "none",
   results |-> [p \in Phase |-> "absent"], currentPhase |-> NoPhase,
   checkpoint |-> NoCheckpoint]

ThreadFields ==
  [branch            : Branches \cup {None},
   commitStatus      : {"none", "committed", "pushed"},
   commitBranch      : Branches \cup {None},  \* upstreamBranch once pushed
   commitSha         : CommitSha,
   pullRequestStatus : {"none", "creating", "created", "failed"},
   pullRequestNumber : BOOLEAN]

StoreTypeOK ==
  /\ lease \in [id : LeaseId, fresh : BOOLEAN]
  /\ ops \in [OpIds -> Operation]
  /\ thread \in ThreadFields

StoreInit(branch) ==
  /\ lease = NoLease
  /\ ops = [o \in OpIds |-> NoOperation]
  /\ thread = [branch |-> branch, commitStatus |-> "none",
               commitBranch |-> None, commitSha |-> 0,
               pullRequestStatus |-> "none", pullRequestNumber |-> FALSE]

-----------------------------------------------------------------------------
(* The lease on its own: withThreadGitMutation. *)

BeginGitMutation(r) ==
  /\ ~LeaseActive
  /\ lease' = FreshLease(r)
  /\ UNCHANGED <<ops, thread>>

ReleaseAny(id) == lease' = NoLease  \* mutant: the id is not compared

\* Only the holder's id clears the lease; any other id is a no-op.
ReleaseIfOwn(id) == lease' = IF lease.id = id THEN NoLease ELSE lease

EndGitMutation(r) ==
  /\ ReleaseIfOwn(r)
  /\ UNCHANGED <<ops, thread>>

-----------------------------------------------------------------------------
(* Operations. *)

\* OPERATION_ID_CONFLICT: the id belongs to an operation of another action.
OperationIdConflict(o, a) == ops[o].status # "absent" /\ ops[o].action # a

BeginIgnoresLease(o, a) ==   \* mutant: the lease is not looked at
  OperationIdConflict(o, a) \/ ops[o].status = "succeeded"
BeginReopens(o, a) ==        \* mutant: a finished operation is not recognised
  OperationIdConflict(o, a) \/ LeaseActive

\* The three answers of beginGitOperation that acquire nothing.
BeginRefuses(o, a) ==
  \/ OperationIdConflict(o, a)
  \/ ops[o].status = "succeeded"
  \/ LeaseActive

BeginGitOperation(o, a) ==
  /\ ~BeginRefuses(o, a)
  /\ ops' = [ops EXCEPT ![o].status = "running",
                        ![o].action = a,
                        ![o].currentPhase =
                            NextPhase(a, Completed(ops[o].results))]
  /\ lease' = FreshLease(o)
  /\ UNCHANGED thread

StartGitOperationPhase(o, p) ==
  /\ ops' = [ops EXCEPT ![o].status = "running",
                        ![o].currentPhase = p,
                        ![o].results[p] = "running"]
  /\ UNCHANGED <<lease, thread>>

\* A checkpoint field the caller leaves undefined keeps its stored value.
MergeCheckpoint(old, new) ==
  [branch      |-> IF new.branch # None THEN new.branch ELSE old.branch,
   commitSha   |-> IF new.commitSha # 0 THEN new.commitSha ELSE old.commitSha,
   pullRequest |-> new.pullRequest \/ old.pullRequest]

CompleteGitOperationPhase(o, p, checkpoint) ==
  /\ ops' = [ops EXCEPT
               ![o].results[p] = "done",
               ![o].currentPhase =
                   NextPhase(ops[o].action, Completed(ops[o].results) \cup {p}),
               ![o].checkpoint = MergeCheckpoint(@, checkpoint)]
  /\ UNCHANGED <<lease, thread>>

FailGitOperation(o, p) ==
  /\ ops' = [ops EXCEPT ![o].status = "failed",
                        ![o].currentPhase = p,
                        ![o].results[p] = "failed"]
  /\ ReleaseIfOwn(o)
  /\ UNCHANGED thread

CompleteGitOperation(o) ==
  /\ ops' = [ops EXCEPT ![o].status = "succeeded",
                        ![o].currentPhase = NoPhase]
  /\ ReleaseIfOwn(o)
  /\ UNCHANGED thread

ReleaseGitOperationLease(o) ==
  /\ ReleaseIfOwn(o)
  /\ UNCHANGED <<ops, thread>>

-----------------------------------------------------------------------------
(* Thread metadata. *)

MarkChangesCommitted(status, branch, sha) ==
  /\ thread' = [thread EXCEPT !.commitStatus = status,
                              !.commitBranch = branch, !.commitSha = sha]
  /\ UNCHANGED <<lease, ops>>

MarkPullRequest(status) ==
  /\ thread' = [thread EXCEPT !.pullRequestStatus = status,
                              !.pullRequestNumber = @ \/ status = "created"]
  /\ UNCHANGED <<lease, ops>>

\* The compare-and-set of the generated branch name: a rename is refused once
\* the thread has committed or opened a pull request.
CanUpdateGeneratedFeatureBranch(expected) ==
  /\ thread.branch = expected
  /\ thread.commitStatus = "none"
  /\ ~thread.pullRequestNumber

UpdateGeneratedFeatureBranch(expected, branch) ==
  /\ thread' = IF CanUpdateGeneratedFeatureBranch(expected)
               THEN [thread EXCEPT !.branch = branch]
               ELSE thread
  /\ UNCHANGED <<lease, ops>>
=============================================================================
