-------------------------- MODULE ThreadGitProofs --------------------------
(***************************************************************************)
(* Theorems about ThreadGitWorkflow, for every number of requests,         *)
(* operations, branches and commits, and every choice of MaxFaults: types, *)
(* what is on GitHub, the exclusion that the lease of a thread gives, the  *)
(* branch on record, and what an operation records and reports.            *)
(*                                                                         *)
(* Exclusion is about clients that do not retry an operation while a       *)
(* request still runs it and requests that do not outlive their lease.     *)
(* Without either assumption it is false: the trailing release of a failed *)
(* attempt takes the lease away from a retry of the same operation, which  *)
(* holds it under the same id.  What an operation records rests on it, and *)
(* the report on one assumption more, about the actions                    *)
(* (DeliverableActions), without which it can be wrong.                    *)
(***************************************************************************)
EXTENDS ThreadGitWorkflow, TLAPS

-----------------------------------------------------------------------------
(* Lemmas on phases. *)

\* Of phases that remain one comes first.
LEMMA LeastPhase ==
  ASSUME NEW S \in SUBSET Phase, S # {}
  PROVE  \E p \in S : \A q \in S : Rank[p] <= Rank[q]
<1>1. CASE "branch" \in S
  BY <1>1 DEF Phase, Rank
<1>2. CASE "branch" \notin S /\ "validate" \in S
  BY <1>2 DEF Phase, Rank
<1>3. CASE S \subseteq {"commit", "push", "pull_request"} /\ "commit" \in S
  BY <1>3 DEF Phase, Rank
<1>4. CASE S \subseteq {"push", "pull_request"} /\ "push" \in S
  BY <1>4 DEF Phase, Rank
<1>5. CASE S \subseteq {"pull_request"}
  BY <1>5 DEF Phase, Rank
<1> QED BY <1>1, <1>2, <1>3, <1>4, <1>5 DEF Phase

\* nextGitWorkflowPhase answers a phase of the action that is not complete,
\* and answers nothing exactly when all of them are.
LEMMA NextPhaseRemains ==
  ASSUME NEW a, NEW done
  PROVE  /\ NextPhase(a, done) \in Remaining(a, done) \cup {NoPhase}
         /\ Remaining(a, done) # {} => NextPhase(a, done) \in Remaining(a, done)
<1> DEFINE S == Remaining(a, done)
<1>1. S \subseteq Phase
  BY DEF Remaining, ActionPhases, Phase
<1>2. ASSUME S # {} PROVE \E p \in S : \A q \in S : Rank[p] <= Rank[q]
  BY <1>1, <1>2, LeastPhase
<1>3. ASSUME S # {} PROVE NextPhase(a, done) \in S
  <2>1. NextPhase(a, done) = CHOOSE p \in S : \A q \in S : Rank[p] <= Rank[q]
    BY <1>3 DEF NextPhase
  <2> QED BY <1>2, <1>3, <2>1
<1>4. CASE S = {}
  BY <1>4 DEF NextPhase
<1> QED BY <1>3, <1>4

LEMMA NextPhaseType ==
  ASSUME NEW a, NEW done
  PROVE  NextPhase(a, done) \in Phase \cup {NoPhase}
BY NextPhaseRemains DEF Remaining, ActionPhases, Phase

-----------------------------------------------------------------------------
(* Types.  TypeOK is not inductive: that a commit stays below MaxCommits    *)
(* needs the workspace to be dirty only below it, and that a branch that is *)
(* written is a branch needs the requests to know theirs.                   *)

\* The steps at which a request knows the branch it works on.
KnowsBranch ==
  {"start", "handle", "mark", "prContext", "prCreating", "prFind", "prCreate",
   "prCreated", "complete", "rename", "save", "undo"}

LocalOK(l) ==
  /\ l \in Request
  /\ l.pc \in WorkflowPC => l.op \in OpIds /\ l.action \in Action
  /\ l.pc \in KnowsBranch => l.expected \in Branches
  /\ l.pc \in KnowsBranch \ RenamePC => l.phase \in Phase
  /\ WorkspaceMode = "worktree" /\ l.pc \in {"begin", "precheck"}
       => l.expected \in Branches

TypeInv ==
  /\ TypeOK
  /\ WorkspaceMode = "worktree" => thread.branch \in Branches
  /\ sandbox.dirty => sandbox.head < MaxCommits
  /\ \A r \in Requests : LocalOK(req[r])

LEMMA IdleOK == LocalOK(IdleRequest)
BY StoreAssumption
   DEF LocalOK, IdleRequest, Request, NoCheckpoint, Checkpoint, CommitSha,
       NoPhase, KnowsBranch, WorkflowPC

\* A step of one request leaves the others alone.
LEMMA BecomeOK ==
  ASSUME TypeInv, NEW r \in Requests, NEW l, LocalOK(l), Become(r, l)
  PROVE  /\ req' \in [Requests -> Request]
         /\ \A s \in Requests : LocalOK(req'[s])
<1>1. req \in [Requests -> Request] /\ l \in Request
  BY DEF TypeInv, TypeOK, LocalOK
<1>2. \A s \in Requests : req'[s] = IF s = r THEN l ELSE req[s]
  BY <1>1 DEF Become
<1>3. req' \in [Requests -> Request]
  BY <1>1 DEF Become
<1> QED BY <1>2, <1>3 DEF TypeInv

\* Going on to another step keeps everything else a request knows.
LEMMA ToOK ==
  ASSUME TypeInv, NEW r \in Requests,
         NEW pc \in {"idle"} \cup WorkflowPC \cup RenamePC,
         pc \in WorkflowPC => req[r].op \in OpIds /\ req[r].action \in Action,
         pc \in KnowsBranch => req[r].expected \in Branches,
         pc \in KnowsBranch \ RenamePC => req[r].phase \in Phase,
         pc \notin {"begin", "precheck"}
  PROVE  LocalOK(To(r, pc))
<1>1. req[r] \in Request
  BY DEF TypeInv, TypeOK
<1> QED BY <1>1 DEF To, LocalOK, Request

\* The loop goes on with a phase, or finishes.
LEMMA NextIterationOK ==
  ASSUME NEW l \in Request, l.op \in OpIds, l.action \in Action,
         l.expected \in Branches
  PROVE  LocalOK(NextIteration(l))
<1>1. NextPhase(l.action, l.done) \in Phase \cup {NoPhase}
  BY NextPhaseType
<1>2. NextIteration(l) \in Request
  BY <1>1 DEF NextIteration, Request, WorkflowPC
<1>3. /\ NextIteration(l).pc \in {"start", "finish"}
      /\ NextIteration(l).pc = "start" => NextIteration(l).phase \in Phase
      /\ NextIteration(l).op = l.op
      /\ NextIteration(l).action = l.action
      /\ NextIteration(l).expected = l.expected
  BY <1>1 DEF NextIteration, Request
<1> QED BY <1>2, <1>3 DEF LocalOK, KnowsBranch

\* Every mutation of the store keeps its types, and the branch of a worktree.
StoreKept ==
  /\ StoreTypeOK'
  /\ WorkspaceMode = "worktree" => thread'.branch \in Branches

LEMMA StoreUnchanged ==
  ASSUME TypeInv, UNCHANGED storeVars
  PROVE  StoreKept
BY DEF TypeInv, TypeOK, StoreKept, StoreTypeOK, storeVars

LEMMA LeaseMutations ==
  ASSUME TypeInv, NEW id \in OpIds \cup Requests,
         \/ BeginGitMutation(id)
         \/ EndGitMutation(id)
         \/ ReleaseGitOperationLease(id)
  PROVE  StoreKept
<1>1. lease' \in [id : LeaseId, fresh : BOOLEAN]
  <2>1. id \in LeaseId /\ None \in LeaseId
    BY DEF LeaseId
  <2>2. FreshLease(id) \in [id : LeaseId, fresh : BOOLEAN]
    BY <2>1 DEF FreshLease
  <2>3. NoLease \in [id : LeaseId, fresh : BOOLEAN]
    BY <2>1 DEF NoLease
  <2>4. lease \in [id : LeaseId, fresh : BOOLEAN]
    BY DEF TypeInv, TypeOK, StoreTypeOK
  <2> QED BY <2>2, <2>3, <2>4
    DEF BeginGitMutation, EndGitMutation, ReleaseGitOperationLease, ReleaseIfOwn
<1>2. UNCHANGED <<ops, thread>>
  BY DEF BeginGitMutation, EndGitMutation, ReleaseGitOperationLease
<1> QED BY <1>1, <1>2 DEF TypeInv, TypeOK, StoreKept, StoreTypeOK

LEMMA OperationMutations ==
  ASSUME TypeInv, NEW o \in OpIds, NEW a \in Action, NEW p \in Phase \cup {NoPhase},
         NEW c \in Checkpoint,
         \/ BeginGitOperation(o, a)
         \/ StartGitOperationPhase(o, p)
         \/ CompleteGitOperationPhase(o, p, c)
         \/ FailGitOperation(o, p)
         \/ CompleteGitOperation(o)
  PROVE  StoreKept
<1>1. /\ lease \in [id : LeaseId, fresh : BOOLEAN]
      /\ ops \in [OpIds -> Operation]
      /\ thread \in ThreadFields
      /\ WorkspaceMode = "worktree" => thread.branch \in Branches
  BY DEF TypeInv, TypeOK, StoreTypeOK
<1>2. ops[o] \in Operation
  BY <1>1
<1>3. \A d : NextPhase(a, d) \in Phase \cup {NoPhase}
  BY NextPhaseType
<1>4. \A d : NextPhase(ops[o].action, d) \in Phase \cup {NoPhase}
  BY NextPhaseType
<1>5. CASE BeginGitOperation(o, a)
  <2>1. ops' \in [OpIds -> Operation]
    BY <1>1, <1>2, <1>3, <1>5 DEF BeginGitOperation, Operation
  <2> QED BY <1>1, <1>5, <2>1
    DEF BeginGitOperation, StoreKept, StoreTypeOK, FreshLease, LeaseId
<1>6. CASE StartGitOperationPhase(o, p)
  <2>1. ops' \in [OpIds -> Operation]
    BY <1>1, <1>2, <1>6 DEF StartGitOperationPhase, Operation, PhaseStatus
  <2> QED BY <1>1, <1>6, <2>1 DEF StartGitOperationPhase, StoreKept, StoreTypeOK
<1>7. CASE CompleteGitOperationPhase(o, p, c)
  <2>1. MergeCheckpoint(ops[o].checkpoint, c) \in Checkpoint
    BY <1>2 DEF MergeCheckpoint, Checkpoint, Operation
  <2>2. ops' \in [OpIds -> Operation]
    BY <1>1, <1>2, <1>4, <1>7, <2>1
    DEF CompleteGitOperationPhase, Operation, PhaseStatus
  <2> QED BY <1>1, <1>7, <2>2 DEF CompleteGitOperationPhase, StoreKept, StoreTypeOK
<1>8. CASE FailGitOperation(o, p)
  <2>1. ops' \in [OpIds -> Operation]
    BY <1>1, <1>2, <1>8 DEF FailGitOperation, Operation, PhaseStatus
  <2> QED BY <1>1, <1>8, <2>1
    DEF FailGitOperation, StoreKept, StoreTypeOK, ReleaseIfOwn, NoLease, LeaseId
<1>9. CASE CompleteGitOperation(o)
  <2>1. ops' \in [OpIds -> Operation]
    BY <1>1, <1>2, <1>9 DEF CompleteGitOperation, Operation
  <2> QED BY <1>1, <1>9, <2>1
    DEF CompleteGitOperation, StoreKept, StoreTypeOK, ReleaseIfOwn, NoLease, LeaseId
<1> QED BY <1>5, <1>6, <1>7, <1>8, <1>9

LEMMA ThreadMutations ==
  ASSUME TypeInv, NEW b \in Branches \cup {None}, NEW b2 \in Branches, NEW sha \in CommitSha,
         \/ \E st \in {"committed", "pushed"} : MarkChangesCommitted(st, b, sha)
         \/ \E st \in {"creating", "created", "failed"} : MarkPullRequest(st)
         \/ UpdateGeneratedFeatureBranch(b, b2)
  PROVE  StoreKept
<1>1. /\ lease \in [id : LeaseId, fresh : BOOLEAN]
      /\ ops \in [OpIds -> Operation]
      /\ thread \in ThreadFields
      /\ WorkspaceMode = "worktree" => thread.branch \in Branches
  BY DEF TypeInv, TypeOK, StoreTypeOK
<1> QED BY <1>1 DEF StoreKept, StoreTypeOK, ThreadFields, MarkChangesCommitted,
              MarkPullRequest, UpdateGeneratedFeatureBranch

LEMMA TypeInvariant == Spec => []TypeInv
<1>1. Init => TypeInv
  <2> SUFFICES ASSUME Init PROVE TypeInv
    OBVIOUS
  <2>1. StoreTypeOK /\ (WorkspaceMode = "worktree" => thread.branch \in Branches)
    BY StoreAssumption, WorkflowAssumption
    DEF Init, StoreInit, StoreTypeOK, NoLease, LeaseId, NoOperation, Operation,
        NoCheckpoint, Checkpoint, CommitSha, PhaseStatus, ThreadFields, NoPhase
  <2>2. req \in [Requests -> Request] /\ \A r \in Requests : LocalOK(req[r])
    BY IdleOK DEF Init, LocalOK
  <2>3. /\ sandbox \in Sandbox
        /\ github \in Github
        /\ faults \in 0 .. MaxFaults
        /\ sandbox.dirty => sandbox.head < MaxCommits
    <3>1. InitialBranch \in Branches /\ 0 \in CommitSha
      BY StoreAssumption, WorkflowAssumption DEF InitialBranch, CommitSha
    <3>2. (MaxCommits > 0) \in BOOLEAN
      OBVIOUS
    <3>3. sandbox \in Sandbox
      BY <3>1, <3>2 DEF Init, Sandbox
    <3>4. sandbox.dirty => sandbox.head < MaxCommits
      BY DEF Init
    <3>5. github \in Github /\ faults \in 0 .. MaxFaults
      BY <3>1, WorkflowAssumption DEF Init, Github
    <3> QED BY <3>3, <3>4, <3>5
  <2> QED BY <2>1, <2>2, <2>3 DEF TypeInv, TypeOK
<1>2. TypeInv /\ [Next]_vars => TypeInv'
  <2> SUFFICES ASSUME TypeInv, [Next]_vars PROVE TypeInv'
    OBVIOUS
  <2> USE DEF At
  <2>0. /\ StoreTypeOK
        /\ WorkspaceMode = "worktree" => thread.branch \in Branches
        /\ req \in [Requests -> Request]
        /\ \A r \in Requests : LocalOK(req[r])
        /\ sandbox \in Sandbox
        /\ github \in Github
        /\ faults \in 0 .. MaxFaults
        /\ sandbox.dirty => sandbox.head < MaxCommits
    BY DEF TypeInv, TypeOK
  <2>a. ASSUME NEW r \in Requests, NEW ok, NEW bad, LocalOK(ok), LocalOK(bad),
               Become(r, ok) \/ Become(r, bad),
               StoreKept,
               sandbox' \in Sandbox, github' \in Github,
               sandbox'.dirty => sandbox'.head < MaxCommits,
               UNCHANGED faults \/ \E k \in FaultKinds : Inject(k)
        PROVE  TypeInv'
    <3>1. faults' \in 0 .. MaxFaults
      BY <2>a, <2>0, WorkflowAssumption DEF Inject
    <3>2. req' \in [Requests -> Request] /\ \A s \in Requests : LocalOK(req'[s])
      BY <2>a, BecomeOK
    <3> QED BY <2>0, <2>a, <3>1, <3>2 DEF TypeInv, TypeOK, StoreKept, LocalOK
  <2>b. ASSUME NEW r \in Requests, NEW ok, NEW bad, LocalOK(ok), LocalOK(bad),
               Become(r, ok) \/ Become(r, bad),
               StoreKept, UNCHANGED <<sandbox, github>>,
               UNCHANGED faults \/ \E k \in FaultKinds : Inject(k)
        PROVE  TypeInv'
    BY <2>0, <2>a, <2>b
  <2>c. \A r \in Requests : req[r] \in Request /\ LocalOK(req[r])
    BY <2>0
  <2>d. ASSUME NEW r \in Requests, req[r].pc \in WorkflowPC
        PROVE  /\ req[r].op \in OpIds /\ req[r].action \in Action
               /\ req[r].phase \in Phase \cup {NoPhase}
               /\ req[r].checkpoint \in Checkpoint
    BY <2>c, <2>d DEF LocalOK, Request
  <2>e. ASSUME NEW r \in Requests, req[r].pc \in KnowsBranch \ RenamePC
        PROVE  req[r].phase \in Phase /\ req[r].expected \in Branches
    BY <2>c, <2>e DEF LocalOK
  <2>1. ASSUME NEW r \in Requests, Begin(r) PROVE TypeInv'
    <3>1. req[r] \in Request /\ LocalOK(req[r])
      BY <2>c
    <3>2. req[r].op \in OpIds /\ req[r].action \in Action
      BY <2>1, <2>d DEF Begin, WorkflowPC
    <3>3. LocalOK(Resume(r))
      <4>1. ops[req[r].op] \in Operation
        BY <2>0, <3>2 DEF StoreTypeOK
      <4>2. Resume(r) \in Request
        BY <3>1, <4>1 DEF Resume, Request, Operation, Completed, WorkflowPC
      <4>3. /\ Resume(r).pc = "precheck"
            /\ Resume(r).op = req[r].op
            /\ Resume(r).action = req[r].action
            /\ Resume(r).expected = req[r].expected
        BY <3>1 DEF Resume, Request
      <4> QED BY <2>1, <3>1, <3>2, <4>2, <4>3 DEF Begin, LocalOK, KnowsBranch
    <3>4. CASE BeginRefuses(req[r].op, req[r].action) /\ Become(r, IdleRequest)
                 /\ UNCHANGED <<lease, ops, thread, sandbox, github, faults>>
      BY <3>4, <2>b, IdleOK, StoreUnchanged DEF storeVars
    <3>5. CASE Call(r, BeginGitOperation(req[r].op, req[r].action),
                    Resume(r), IdleRequest)
      <4>1. CASE UNCHANGED storeVars
        BY <3>3, <3>5, <4>1, <2>b, IdleOK, StoreUnchanged DEF Call, FaultKinds
      <4>2. CASE BeginGitOperation(req[r].op, req[r].action)
        <5>1. StoreKept
          <6>1. NoPhase \in Phase \cup {NoPhase} /\ NoCheckpoint \in Checkpoint
            BY StoreAssumption DEF NoCheckpoint, Checkpoint, CommitSha
          <6> QED BY <6>1, <4>2, <3>2, OperationMutations
        <5> QED BY <3>3, <3>5, <5>1, <2>b, IdleOK DEF Call, FaultKinds
      <4> QED BY <3>5, <4>1, <4>2 DEF Call
    <3> QED BY <2>1, <3>4, <3>5 DEF Begin
  <2>2. ASSUME NEW r \in Requests, FailBeforeExecution(r) PROVE TypeInv'
    <3>1. /\ req[r].op \in OpIds /\ req[r].action \in Action
          /\ req[r].phase \in Phase \cup {NoPhase}
          /\ req[r].checkpoint \in Checkpoint
      BY <2>2, <2>d DEF FailBeforeExecution, WorkflowPC
    <3>2. FailGitOperation(req[r].op, req[r].phase) => StoreKept
      BY <3>1, OperationMutations
    <3>3. LocalOK(To(r, "release"))
      BY <3>1, ToOK DEF WorkflowPC, KnowsBranch
    <3> QED BY <2>2, <2>b, <3>2, <3>3, StoreUnchanged
      DEF FailBeforeExecution, Call, FaultKinds
  <2>3. ASSUME NEW r \in Requests, OnPhaseStart(r) PROVE TypeInv'
    <3>1. /\ req[r].op \in OpIds /\ req[r].action \in Action
          /\ req[r].phase \in Phase \cup {NoPhase}
          /\ req[r].checkpoint \in Checkpoint
      BY <2>3, <2>d DEF OnPhaseStart, WorkflowPC
    <3>2. StartGitOperationPhase(req[r].op, req[r].phase) => StoreKept
      BY <3>1, OperationMutations
    <3>3. LocalOK(To(r, IF req[r].phase = "pull_request" THEN "prContext" ELSE "handle"))
      BY <2>3, <2>e, <3>1, ToOK DEF OnPhaseStart, WorkflowPC, KnowsBranch, RenamePC
    <3>4. LocalOK(To(r, "release"))
      BY <3>1, ToOK DEF WorkflowPC, KnowsBranch
    <3> QED BY <2>3, <2>b, <3>2, <3>3, <3>4, StoreUnchanged
      DEF OnPhaseStart, Call, FaultKinds
  <2>4. ASSUME NEW r \in Requests, OnPhaseComplete(r) PROVE TypeInv'
    <3>1. /\ req[r].op \in OpIds /\ req[r].action \in Action
          /\ req[r].phase \in Phase \cup {NoPhase}
          /\ req[r].checkpoint \in Checkpoint
      BY <2>4, <2>d DEF OnPhaseComplete, WorkflowPC
    <3>2. CompleteGitOperationPhase(req[r].op, req[r].phase, req[r].checkpoint) => StoreKept
      BY <3>1, OperationMutations
    <3>3. LocalOK(NextIteration([req[r] EXCEPT !.done = @ \cup {req[r].phase}]))
      <4> DEFINE l == [req[r] EXCEPT !.done = @ \cup {req[r].phase}]
      <4>1. req[r].phase \in Phase /\ req[r].expected \in Branches
        BY <2>4, <2>e DEF OnPhaseComplete, KnowsBranch, RenamePC
      <4>2. l \in Request
        BY <2>c, <4>1 DEF Request
      <4>3. l.op \in OpIds /\ l.action \in Action /\ l.expected \in Branches
        BY <2>c, <3>1, <4>1 DEF Request
      <4> QED BY <4>2, <4>3, NextIterationOK
    <3>4. LocalOK(To(r, "fail"))
      BY <3>1, ToOK DEF WorkflowPC, KnowsBranch
    <3> QED BY <2>4, <2>b, <3>2, <3>3, <3>4, StoreUnchanged
      DEF OnPhaseComplete, Call, FaultKinds
  <2>5. ASSUME NEW r \in Requests, OnPhaseFailure(r) PROVE TypeInv'
    <3>1. /\ req[r].op \in OpIds /\ req[r].action \in Action
          /\ req[r].phase \in Phase \cup {NoPhase}
          /\ req[r].checkpoint \in Checkpoint
      BY <2>5, <2>d DEF OnPhaseFailure, WorkflowPC
    <3>2. FailGitOperation(req[r].op, req[r].phase) => StoreKept
      BY <3>1, OperationMutations
    <3>3. LocalOK(To(r, IF req[r].phase = "pull_request" THEN "prFailed" ELSE "release"))
      BY <3>1, ToOK DEF WorkflowPC, KnowsBranch
    <3>4. LocalOK(To(r, "release"))
      BY <3>1, ToOK DEF WorkflowPC, KnowsBranch
    <3> QED BY <2>5, <2>b, <3>2, <3>3, <3>4, StoreUnchanged
      DEF OnPhaseFailure, Call, FaultKinds
  <2>6. ASSUME NEW r \in Requests, MarkPullRequestFailed(r) PROVE TypeInv'
    <3>1. /\ req[r].op \in OpIds /\ req[r].action \in Action
          /\ req[r].phase \in Phase \cup {NoPhase}
          /\ req[r].checkpoint \in Checkpoint
      BY <2>6, <2>d DEF MarkPullRequestFailed, WorkflowPC
    <3>0. \E b \in Branches : TRUE /\ 0 \in CommitSha
      BY StoreAssumption, WorkflowAssumption DEF CommitSha
    <3>2. MarkPullRequest("failed") => StoreKept
      BY <3>0, ThreadMutations
    <3>3. LocalOK(To(r, "release"))
      BY <3>1, ToOK DEF WorkflowPC, KnowsBranch
    <3> QED BY <2>6, <2>b, <3>2, <3>3, StoreUnchanged
      DEF MarkPullRequestFailed, Call, FaultKinds
  <2>7. ASSUME NEW r \in Requests, Finish(r) PROVE TypeInv'
    <3>1. /\ req[r].op \in OpIds /\ req[r].action \in Action
          /\ req[r].phase \in Phase \cup {NoPhase}
          /\ req[r].checkpoint \in Checkpoint
      BY <2>7, <2>d DEF Finish, WorkflowPC
    <3>2. CompleteGitOperation(req[r].op) => StoreKept
      BY <3>1, OperationMutations
    <3>3. LocalOK(IdleRequest)
      BY IdleOK
    <3>4. LocalOK(To(r, "release"))
      BY <3>1, ToOK DEF WorkflowPC, KnowsBranch
    <3> QED BY <2>7, <2>b, <3>2, <3>3, <3>4, StoreUnchanged
      DEF Finish, Call, FaultKinds
  <2>8. ASSUME NEW r \in Requests, ReleaseOperationLease(r) PROVE TypeInv'
    <3>1. /\ req[r].op \in OpIds /\ req[r].action \in Action
          /\ req[r].phase \in Phase \cup {NoPhase}
          /\ req[r].checkpoint \in Checkpoint
      BY <2>8, <2>d DEF ReleaseOperationLease, WorkflowPC
    <3>2. ReleaseGitOperationLease(req[r].op) => StoreKept
      BY <3>1, LeaseMutations
    <3>3. LocalOK(IdleRequest)
      BY IdleOK
    <3> QED BY <2>8, <2>b, <3>2, <3>3, StoreUnchanged
      DEF ReleaseOperationLease, Call, FaultKinds
  <2>9. ASSUME NEW r \in Requests, MarkCommitted(r) PROVE TypeInv'
    <3>1. /\ req[r].op \in OpIds /\ req[r].action \in Action
          /\ req[r].phase \in Phase \cup {NoPhase}
          /\ req[r].checkpoint \in Checkpoint
      BY <2>9, <2>d DEF MarkCommitted, WorkflowPC
    <3>0. /\ NewBranch \in Branches /\ 0 \in CommitSha
      BY StoreAssumption, WorkflowAssumption DEF CommitSha
    <3>a. WorkBranch(r) \in Branches \cup {None} /\ req[r].checkpoint.commitSha \in CommitSha
      BY <2>c, <3>1 DEF WorkBranch, Checkpoint, Request
    <3>2. MarkChangesCommitted(IF req[r].phase = "push" THEN "pushed" ELSE "committed", WorkBranch(r), req[r].checkpoint.commitSha) => StoreKept
      BY <3>0, <3>a, ThreadMutations
    <3>3. LocalOK(To(r, "complete"))
      BY <2>9, <2>e, <3>1, ToOK DEF MarkCommitted, WorkflowPC, KnowsBranch, RenamePC
    <3>4. LocalOK(To(r, "fail"))
      BY <3>1, ToOK DEF WorkflowPC, KnowsBranch
    <3> QED BY <2>9, <2>b, <3>2, <3>3, <3>4, StoreUnchanged
      DEF MarkCommitted, Call, FaultKinds
  <2>10. ASSUME NEW r \in Requests, MarkPullRequestCreating(r) PROVE TypeInv'
    <3>1. /\ req[r].op \in OpIds /\ req[r].action \in Action
          /\ req[r].phase \in Phase \cup {NoPhase}
          /\ req[r].checkpoint \in Checkpoint
      BY <2>10, <2>d DEF MarkPullRequestCreating, WorkflowPC
    <3>0. /\ NewBranch \in Branches /\ 0 \in CommitSha
      BY StoreAssumption, WorkflowAssumption DEF CommitSha
    <3>2. MarkPullRequest("creating") => StoreKept
      BY <3>0, ThreadMutations
    <3>3. LocalOK(To(r, "prFind"))
      BY <2>10, <2>e, <3>1, ToOK DEF MarkPullRequestCreating, WorkflowPC, KnowsBranch, RenamePC
    <3>4. LocalOK(To(r, "fail"))
      BY <3>1, ToOK DEF WorkflowPC, KnowsBranch
    <3> QED BY <2>10, <2>b, <3>2, <3>3, <3>4, StoreUnchanged
      DEF MarkPullRequestCreating, Call, FaultKinds
  <2>11. ASSUME NEW r \in Requests, MarkPullRequestCreated(r) PROVE TypeInv'
    <3>1. /\ req[r].op \in OpIds /\ req[r].action \in Action
          /\ req[r].phase \in Phase \cup {NoPhase}
          /\ req[r].checkpoint \in Checkpoint
      BY <2>11, <2>d DEF MarkPullRequestCreated, WorkflowPC
    <3>0. /\ NewBranch \in Branches /\ 0 \in CommitSha
      BY StoreAssumption, WorkflowAssumption DEF CommitSha
    <3>2. MarkPullRequest("created") => StoreKept
      BY <3>0, ThreadMutations
    <3>3. LocalOK([req[r] EXCEPT !.pc = "complete", !.checkpoint.pullRequest = TRUE])
      <4>1. req[r].phase \in Phase /\ req[r].expected \in Branches
        BY <2>11, <2>e DEF MarkPullRequestCreated, KnowsBranch, RenamePC
      <4> DEFINE l == [req[r] EXCEPT !.pc = "complete", !.checkpoint.pullRequest = TRUE]
      <4>2. l \in Request
        <5> DEFINE c == [req[r].checkpoint EXCEPT !.pullRequest = TRUE]
        <5>1. c \in Checkpoint
          BY <3>1 DEF Checkpoint
        <5>2. req[r] \in Request
          BY <2>c DEF LocalOK
        <5>3. l = [req[r] EXCEPT !.pc = "complete", !.checkpoint = c]
          BY <5>2 DEF Request
        <5> HIDE DEF c, l
        <5> QED BY <5>1, <5>2, <5>3 DEF Request, WorkflowPC
      <4>3. /\ l.pc = "complete" /\ l.op = req[r].op /\ l.action = req[r].action
            /\ l.expected = req[r].expected /\ l.phase = req[r].phase
        BY <2>c DEF LocalOK, Request
      <4> HIDE DEF l
      <4>4. LocalOK(l)
        BY <3>1, <4>1, <4>2, <4>3 DEF LocalOK, WorkflowPC
      <4> QED BY <4>4 DEF l
    <3>4. LocalOK(To(r, "fail"))
      BY <3>1, ToOK DEF WorkflowPC, KnowsBranch
    <3> QED BY <2>11, <2>b, <3>2, <3>3, <3>4, StoreUnchanged
      DEF MarkPullRequestCreated, Call, FaultKinds
  <2>12. ASSUME NEW r \in Requests, Lock(r) PROVE TypeInv'
    <3>1. BeginGitMutation(r) => StoreKept
      BY LeaseMutations
    <3>2. LocalOK(To(r, "reread"))
      BY ToOK DEF WorkflowPC, KnowsBranch, RenamePC
    <3> QED BY <2>12, <2>b, <3>1, <3>2, IdleOK, StoreUnchanged
      DEF Lock, Call, FaultKinds, storeVars
  <2>13. ASSUME NEW r \in Requests, SaveBranch(r) PROVE TypeInv'
    <3>1. req[r].expected \in Branches /\ NewBranch \in Branches /\ 0 \in CommitSha
      BY <2>13, <2>c, StoreAssumption, WorkflowAssumption
      DEF SaveBranch, LocalOK, KnowsBranch, CommitSha
    <3>2. UpdateGeneratedFeatureBranch(req[r].expected, NewBranch) => StoreKept
      BY <3>1, ThreadMutations
    <3>3. LocalOK(To(r, IF CanUpdateGeneratedFeatureBranch(req[r].expected)
                        THEN "unlock" ELSE "undo"))
      BY <3>1, ToOK DEF WorkflowPC, KnowsBranch, RenamePC
    <3>4. LocalOK(To(r, "unlock")) /\ LocalOK(To(r, "undo"))
      BY <3>1, ToOK DEF WorkflowPC, KnowsBranch, RenamePC
    <3>5. CASE Call(r, UpdateGeneratedFeatureBranch(req[r].expected, NewBranch),
                    To(r, IF CanUpdateGeneratedFeatureBranch(req[r].expected)
                          THEN "unlock" ELSE "undo"),
                    To(r, "unlock"))
      BY <2>b, <3>2, <3>3, <3>4, <3>5, StoreUnchanged DEF Call, FaultKinds
    <3>6. CASE /\ Inject("unready") /\ Goto(r, "undo")
               /\ UNCHANGED <<lease, ops, thread, sandbox, github>>
      BY <2>b, <3>4, <3>6, StoreUnchanged DEF Goto, To, FaultKinds, storeVars
    <3> QED BY <2>13, <3>5, <3>6 DEF SaveBranch
  <2>14. ASSUME NEW r \in Requests, Unlock(r) PROVE TypeInv'
    <3>1. EndGitMutation(r) => StoreKept
      BY LeaseMutations
    <3> QED BY <2>14, <2>b, <3>1, IdleOK, StoreUnchanged DEF Unlock, Call, FaultKinds
  <2>15. ASSUME NEW r \in Requests, NEW o \in OpIds, NEW a \in Actions, Submit(r, o, a) PROVE TypeInv'
    <3> DEFINE l == [IdleRequest EXCEPT
                       !.pc = "begin", !.op = o, !.action = a,
                       !.expected = thread.branch,
                       !.prSeen = thread.pullRequestNumber]
    <3>1. a \in Action
      BY WorkflowAssumption
    <3>2. /\ thread.branch \in Branches \cup {None}
          /\ thread.pullRequestNumber \in BOOLEAN
      BY <2>0 DEF StoreTypeOK, ThreadFields
    <3>3. IdleRequest \in Request
      BY IdleOK DEF LocalOK
    <3>4. LocalOK(l)
      BY <2>0, <3>1, <3>2, <3>3 DEF LocalOK, Request, WorkflowPC, KnowsBranch
    <3> QED BY <2>15, <2>b, <3>4, StoreUnchanged DEF Submit, storeVars
  <2>16. ASSUME NEW r \in Requests, Precheck(r) PROVE TypeInv'
    <3>1. /\ req[r] \in Request
          /\ req[r].op \in OpIds /\ req[r].action \in Action
          /\ WorkspaceMode = "worktree" => req[r].expected \in Branches
      BY <2>16, <2>c, <2>d DEF Precheck, LocalOK, WorkflowPC
    <3> DEFINE l == [req[r] EXCEPT
                       !.expected = IF WorkspaceMode = "checkout"
                                    THEN sandbox.branch ELSE @]
    <3>2. LocalOK(NextIteration(l))
      <4>1. sandbox.branch \in Branches
        BY <2>0 DEF Sandbox
      <4>2. /\ l \in Request /\ l.expected \in Branches
            /\ l.op \in OpIds /\ l.action \in Action
        BY <3>1, <4>1, WorkflowAssumption DEF Request
      <4> QED BY <4>2, NextIterationOK
    <3>3. ASSUME NEW p \in {"branch", "validate"}
          PROVE  LocalOK([req[r] EXCEPT !.pc = "prefail", !.phase = p])
      BY <3>1 DEF LocalOK, Request, WorkflowPC, KnowsBranch, Phase
    <3> QED BY <2>16, <2>b, <3>2, <3>3, StoreUnchanged DEF Precheck, FaultKinds, storeVars
  <2>17. ASSUME NEW r \in Requests, HandlerFails(r) PROVE TypeInv'
    <3>1. req[r].op \in OpIds /\ req[r].action \in Action
      BY <2>17, <2>d DEF HandlerFails, WorkflowPC
    <3>2. req[r].phase \in Phase /\ req[r].expected \in Branches
      BY <2>17, <2>e DEF HandlerFails, KnowsBranch, RenamePC
    <3>3. \A pc \in {"fail"} : LocalOK(To(r, pc))
      BY <3>1, <3>2, ToOK DEF WorkflowPC
    <3> QED BY <2>17, <2>b, <3>3, StoreUnchanged
      DEF HandlerFails, Goto, To, FaultKinds, storeVars
  <2>18. ASSUME NEW r \in Requests, ValidatePhase(r) PROVE TypeInv'
    <3>1. req[r].op \in OpIds /\ req[r].action \in Action
      BY <2>18, <2>d DEF ValidatePhase, InPhase, WorkflowPC
    <3>2. req[r].phase \in Phase /\ req[r].expected \in Branches
      BY <2>18, <2>e DEF ValidatePhase, InPhase, KnowsBranch, RenamePC
    <3>3. \A pc \in {"complete", "fail"} : LocalOK(To(r, pc))
      BY <3>1, <3>2, ToOK DEF WorkflowPC
    <3> QED BY <2>18, <2>b, <3>3, StoreUnchanged
      DEF ValidatePhase, Goto, To, FaultKinds, storeVars
  <2>19. ASSUME NEW r \in Requests, PullRequestContext(r) PROVE TypeInv'
    <3>1. req[r].op \in OpIds /\ req[r].action \in Action
      BY <2>19, <2>d DEF PullRequestContext, WorkflowPC
    <3>2. req[r].phase \in Phase /\ req[r].expected \in Branches
      BY <2>19, <2>e DEF PullRequestContext, KnowsBranch, RenamePC
    <3>3. \A pc \in {"prCreating", "fail"} : LocalOK(To(r, pc))
      BY <3>1, <3>2, ToOK DEF WorkflowPC
    <3> QED BY <2>19, <2>b, <3>3, StoreUnchanged
      DEF PullRequestContext, Goto, To, FaultKinds, storeVars
  <2>20. ASSUME NEW r \in Requests, FindPullRequest(r) PROVE TypeInv'
    <3>1. req[r].op \in OpIds /\ req[r].action \in Action
      BY <2>20, <2>d DEF FindPullRequest, WorkflowPC
    <3>2. req[r].phase \in Phase /\ req[r].expected \in Branches
      BY <2>20, <2>e DEF FindPullRequest, KnowsBranch, RenamePC
    <3>3. \A pc \in {"prCreated", "prCreate"} : LocalOK(To(r, pc))
      BY <3>1, <3>2, ToOK DEF WorkflowPC
    <3> QED BY <2>20, <2>b, <3>3, StoreUnchanged
      DEF FindPullRequest, Goto, To, FaultKinds, storeVars
  <2>21. ASSUME NEW r \in Requests, BranchPhase(r) PROVE TypeInv'
    <3>0. /\ req[r] \in Request
          /\ sandbox.branch \in Branches /\ sandbox.dirty \in BOOLEAN
          /\ sandbox.head \in CommitSha /\ NewBranch \in Branches
          /\ MaxCommits \in Nat
      BY <2>0, <2>c, StoreAssumption, WorkflowAssumption DEF Sandbox
    <3>1. req[r].op \in OpIds /\ req[r].action \in Action
      BY <2>21, <2>d DEF BranchPhase, InPhase, WorkflowPC
    <3>2. req[r].phase \in Phase /\ req[r].expected \in Branches
      BY <2>21, <2>e DEF BranchPhase, InPhase, KnowsBranch, RenamePC
    <3>3. \A pc \in {"fail"} : LocalOK(To(r, pc))
      BY <3>1, <3>2, ToOK DEF WorkflowPC
    <3> DEFINE branch == IF /\ NeedsPullRequest(req[r].action)
                            /\ WorkspaceMode = "checkout"
                            /\ sandbox.branch = BaseBranch
                         THEN NewBranch ELSE sandbox.branch
               done == [req[r] EXCEPT !.pc = "complete",
                                      !.checkpoint.branch = branch]
    <3>4. branch \in Branches
      BY <3>0
    <3> HIDE DEF branch
    <3>5. LocalOK(done)
      BY <3>0, <3>1, <3>2, <3>4 DEF LocalOK, Request, Checkpoint, WorkflowPC
    <3>6. /\ [sandbox EXCEPT !.branch = branch] \in Sandbox
          /\ [sandbox EXCEPT !.branch = branch].dirty = sandbox.dirty
          /\ [sandbox EXCEPT !.branch = branch].head = sandbox.head
      BY <2>0, <3>4 DEF Sandbox
    <3>7. CASE sandbox.branch # req[r].expected /\ Goto(r, "fail")
                 /\ UNCHANGED <<lease, ops, thread, sandbox, github, faults>>
      BY <3>7, <2>b, <3>3, StoreUnchanged DEF Goto, To, storeVars
    <3>8. CASE /\ sandbox' = [sandbox EXCEPT !.branch = branch]
               /\ Answers(r, done)
               /\ UNCHANGED <<lease, ops, thread, github>>
      <4>1. StoreKept
        BY <3>8, StoreUnchanged DEF storeVars
      <4>2. Become(r, done) \/ Become(r, To(r, "fail"))
        BY <3>8 DEF Answers, Goto, To
      <4>3. UNCHANGED faults \/ \E k \in FaultKinds : Inject(k)
        BY <3>8 DEF Answers, FaultKinds
      <4>4. /\ sandbox' \in Sandbox /\ github' \in Github
            /\ sandbox'.dirty => sandbox'.head < MaxCommits
        BY <2>0, <3>6, <3>8
      <4> QED BY <2>a, <3>3, <3>5, <4>1, <4>2, <4>3, <4>4
    <3> QED BY <2>21, <3>7, <3>8 DEF BranchPhase, branch
  <2>22. ASSUME NEW r \in Requests, CommitPhase(r) PROVE TypeInv'
    <3>0. /\ req[r] \in Request
          /\ sandbox.branch \in Branches /\ sandbox.dirty \in BOOLEAN
          /\ sandbox.head \in CommitSha /\ NewBranch \in Branches
          /\ MaxCommits \in Nat
      BY <2>0, <2>c, StoreAssumption, WorkflowAssumption DEF Sandbox
    <3>1. req[r].op \in OpIds /\ req[r].action \in Action
      BY <2>22, <2>d DEF CommitPhase, InPhase, WorkflowPC
    <3>2. req[r].phase \in Phase /\ req[r].expected \in Branches
      BY <2>22, <2>e DEF CommitPhase, InPhase, KnowsBranch, RenamePC
    <3>3. \A pc \in {"fail"} : LocalOK(To(r, pc))
      BY <3>1, <3>2, ToOK DEF WorkflowPC
    <3> DEFINE head == IF sandbox.dirty THEN sandbox.head + 1 ELSE sandbox.head
               done == [req[r] EXCEPT !.pc = "mark",
                                      !.checkpoint.branch = WorkBranch(r),
                                      !.checkpoint.commitSha = head]
    <3>4. head \in CommitSha
      BY <2>0, <3>0 DEF CommitSha
    <3>5. WorkBranch(r) \in Branches \cup {None}
      BY <3>0, <3>2 DEF WorkBranch, Request, Checkpoint
    <3> HIDE DEF head
    <3>6. LocalOK(done)
      BY <3>0, <3>1, <3>2, <3>4, <3>5 DEF LocalOK, Request, Checkpoint, WorkflowPC
    <3>7. sandbox' \in Sandbox /\ ~sandbox'.dirty
      BY <2>22, <2>0, <3>4 DEF CommitPhase, Sandbox, head
    <3>8. Become(r, done) \/ Become(r, To(r, "fail"))
      BY <2>22 DEF CommitPhase, Answers, Goto, To, head
    <3>9. StoreKept
      BY <2>22, StoreUnchanged DEF CommitPhase, storeVars
    <3>10. /\ UNCHANGED faults \/ \E k \in FaultKinds : Inject(k)
           /\ UNCHANGED github
      BY <2>22 DEF CommitPhase, Answers, FaultKinds
    <3> QED BY <2>0, <2>a, <3>3, <3>6, <3>7, <3>8, <3>9, <3>10
  <2>23. ASSUME NEW r \in Requests, PushPhase(r) PROVE TypeInv'
    <3>0. /\ req[r] \in Request
          /\ sandbox.branch \in Branches /\ sandbox.dirty \in BOOLEAN
          /\ sandbox.head \in CommitSha /\ NewBranch \in Branches
          /\ MaxCommits \in Nat
      BY <2>0, <2>c, StoreAssumption, WorkflowAssumption DEF Sandbox
    <3>1. req[r].op \in OpIds /\ req[r].action \in Action
      BY <2>23, <2>d DEF PushPhase, InPhase, WorkflowPC
    <3>2. req[r].phase \in Phase /\ req[r].expected \in Branches
      BY <2>23, <2>e DEF PushPhase, InPhase, KnowsBranch, RenamePC
    <3>3. \A pc \in {"fail"} : LocalOK(To(r, pc))
      BY <3>1, <3>2, ToOK DEF WorkflowPC
    <3> DEFINE done == [req[r] EXCEPT !.pc = "mark",
                                      !.checkpoint.commitSha = sandbox.head]
    <3>4. LocalOK(done)
      BY <3>0, <3>1, <3>2 DEF LocalOK, Request, Checkpoint, WorkflowPC
    <3>5. github' \in Github
      BY <2>23, <2>0, <3>0 DEF PushPhase, Github
    <3>6. Become(r, done) \/ Become(r, To(r, "fail"))
      BY <2>23 DEF PushPhase, Answers, Goto, To
    <3>7. StoreKept
      BY <2>23, StoreUnchanged DEF PushPhase, storeVars
    <3>8. /\ UNCHANGED faults \/ \E k \in FaultKinds : Inject(k)
          /\ UNCHANGED sandbox
      BY <2>23 DEF PushPhase, Answers, FaultKinds
    <3> QED BY <2>0, <2>a, <3>3, <3>4, <3>5, <3>6, <3>7, <3>8
  <2>24. ASSUME NEW r \in Requests, CreatePullRequest(r) PROVE TypeInv'
    <3>0. /\ req[r] \in Request
          /\ sandbox.branch \in Branches /\ sandbox.dirty \in BOOLEAN
          /\ sandbox.head \in CommitSha /\ NewBranch \in Branches
          /\ MaxCommits \in Nat
      BY <2>0, <2>c, StoreAssumption, WorkflowAssumption DEF Sandbox
    <3>1. req[r].op \in OpIds /\ req[r].action \in Action
      BY <2>24, <2>d DEF CreatePullRequest, InPhase, WorkflowPC
    <3>2. req[r].phase \in Phase /\ req[r].expected \in Branches
      BY <2>24, <2>e DEF CreatePullRequest, InPhase, KnowsBranch, RenamePC
    <3>3. \A pc \in {"prCreated", "fail"} : LocalOK(To(r, pc))
      BY <3>1, <3>2, ToOK DEF WorkflowPC
    <3>4. WorkBranch(r) \in Branches
      BY <3>0, <3>2 DEF WorkBranch, Request, Checkpoint
    <3>5. github' \in Github
      BY <2>24, <2>0, <3>4 DEF CreatePullRequest, Github
    <3> QED BY <2>24, <2>0, <2>a, <3>3, <3>5, StoreUnchanged
      DEF CreatePullRequest, Goto, To, storeVars
  <2>25. ASSUME NEW r \in Requests, SubmitRename(r) PROVE TypeInv'
    <3>1. LocalOK([IdleRequest EXCEPT !.pc = "lock"])
      BY IdleOK DEF LocalOK, Request, RenamePC, WorkflowPC, KnowsBranch
    <3> QED BY <2>25, <2>b, <3>1, StoreUnchanged DEF SubmitRename, storeVars
  <2>26. ASSUME NEW r \in Requests, Reread(r) PROVE TypeInv'
    <3> DEFINE renames == /\ WorkspaceMode = "worktree"
                          /\ CanUpdateGeneratedFeatureBranch(ThreadBranch)
               l == [req[r] EXCEPT !.pc = IF renames THEN "rename" ELSE "unlock",
                                   !.expected = thread.branch]
    <3>1. req[r] \in Request /\ thread.branch \in Branches \cup {None}
      BY <2>0, <2>c DEF StoreTypeOK, ThreadFields
    <3>2. renames => thread.branch \in Branches
      BY WorkflowAssumption DEF CanUpdateGeneratedFeatureBranch
    <3> HIDE DEF renames
    <3>3. LocalOK(l)
      <4>1. l \in Request
        BY <3>1 DEF Request, RenamePC
      <4>2. /\ l.pc = IF renames THEN "rename" ELSE "unlock"
            /\ l.expected = thread.branch
        BY <3>1 DEF Request
      <4>3. CASE renames
        BY <4>1, <4>2, <4>3, <3>2 DEF LocalOK, RenamePC, WorkflowPC, KnowsBranch
      <4>4. CASE ~renames
        BY <4>1, <4>2, <4>4 DEF LocalOK, RenamePC, WorkflowPC, KnowsBranch
      <4> QED BY <4>3, <4>4
    <3>4. Become(r, l)
      BY <2>26 DEF Reread, renames
    <3> QED BY <2>26, <2>b, <3>3, <3>4, StoreUnchanged DEF Reread, storeVars
  <2>27. ASSUME NEW r \in Requests, Rename(r) PROVE TypeInv'
    <3>0. /\ req[r] \in Request
          /\ sandbox.branch \in Branches /\ sandbox.dirty \in BOOLEAN
          /\ sandbox.head \in CommitSha /\ NewBranch \in Branches
          /\ MaxCommits \in Nat
      BY <2>0, <2>c, StoreAssumption, WorkflowAssumption DEF Sandbox
    <3>1. req[r].expected \in Branches
      BY <2>27, <2>c DEF Rename, LocalOK, KnowsBranch
    <3>2. LocalOK(To(r, "save")) /\ LocalOK(To(r, "unlock"))
      BY <3>1, ToOK DEF WorkflowPC, RenamePC, KnowsBranch
    <3>3. /\ sandbox' \in Sandbox
          /\ sandbox'.dirty => sandbox'.head < MaxCommits
      BY <2>27, <2>0, <3>0 DEF Rename, Sandbox
    <3>4. Become(r, To(r, "save")) \/ Become(r, To(r, "unlock"))
      BY <2>27 DEF Rename, Goto, To
    <3>5. UNCHANGED faults \/ \E k \in FaultKinds : Inject(k)
      BY <2>27 DEF Rename, FaultKinds
    <3> QED BY <2>27, <2>0, <2>a, <3>2, <3>3, <3>4, <3>5, StoreUnchanged
      DEF Rename, storeVars
  <2>28. ASSUME NEW r \in Requests, UndoRename(r) PROVE TypeInv'
    <3>0. /\ req[r] \in Request
          /\ sandbox.branch \in Branches /\ sandbox.dirty \in BOOLEAN
          /\ sandbox.head \in CommitSha /\ NewBranch \in Branches
          /\ MaxCommits \in Nat
      BY <2>0, <2>c, StoreAssumption, WorkflowAssumption DEF Sandbox
    <3>1. req[r].expected \in Branches
      BY <2>28, <2>c DEF UndoRename, LocalOK, KnowsBranch
    <3>2. LocalOK(To(r, "unlock"))
      BY ToOK DEF WorkflowPC, RenamePC, KnowsBranch
    <3>3. /\ sandbox' \in Sandbox
          /\ sandbox'.dirty => sandbox'.head < MaxCommits
      BY <2>28, <2>0, <3>0, <3>1 DEF UndoRename, Sandbox
    <3>4. Become(r, To(r, "unlock"))
      BY <2>28 DEF UndoRename, Goto, To
    <3>5. UNCHANGED faults \/ \E k \in FaultKinds : Inject(k)
      BY <2>28 DEF UndoRename, FaultKinds
    <3> QED BY <2>28, <2>0, <2>a, <3>2, <3>3, <3>4, <3>5, StoreUnchanged
      DEF UndoRename, storeVars
  <2>29. ASSUME NEW r \in Requests, Crash(r) PROVE TypeInv'
    BY <2>29, <2>b, IdleOK, StoreUnchanged DEF Crash, FaultKinds, storeVars
  <2>30. ASSUME ExpireLease PROVE TypeInv'
    <3>1. lease' \in [id : LeaseId, fresh : BOOLEAN]
      BY <2>30, <2>0 DEF ExpireLease, StoreTypeOK
    <3> QED BY <2>30, <2>0, <3>1 DEF ExpireLease, TypeInv, TypeOK, StoreTypeOK
  <2>31. ASSUME EditWorkspace PROVE TypeInv'
    <3>1. /\ sandbox' \in Sandbox
          /\ sandbox'.dirty => sandbox'.head < MaxCommits
      BY <2>31, <2>0, StoreAssumption DEF EditWorkspace, Sandbox, CommitSha
    <3> QED BY <2>31, <2>0, <3>1 DEF EditWorkspace, TypeInv, TypeOK, StoreTypeOK
  <2>32. ASSUME UNCHANGED vars PROVE TypeInv'
    BY <2>32, <2>0 DEF vars, TypeInv, TypeOK, StoreTypeOK
  <2> QED BY <2>1, <2>2, <2>3, <2>4, <2>5, <2>6, <2>7, <2>8, <2>9, <2>10,
       <2>11, <2>12, <2>13, <2>14, <2>15, <2>16, <2>17, <2>18, <2>19,
       <2>20, <2>21, <2>22, <2>23, <2>24, <2>25, <2>26, <2>27, <2>28,
       <2>29, <2>30, <2>31, <2>32
    DEF Next, Runner, Handlers, Renamer
<1> QED BY <1>1, <1>2, PTL DEF Spec

\* TypeOK holds of every behaviour: a request, the record of an operation, the
\* lease, the thread, the workspace and GitHub keep their types whatever fails.
THEOREM TypeCorrect == Spec => []TypeOK
<1>1. TypeInv => TypeOK
  BY DEF TypeInv
<1> QED BY <1>1, TypeInvariant, PTL

-----------------------------------------------------------------------------
(* A commit the thread reports as pushed is on GitHub.  No assumption is   *)
(* needed: a push is marked with the commit that was pushed, nothing is     *)
(* taken from GitHub, and GitHub is never ahead of the workspace.           *)

OnRemote(sha) == \E b \in Branches : github.remote[b] >= sha

PushInv ==
  /\ \A b \in Branches : github.remote[b] <= sandbox.head
  /\ \A r \in Requests : req[r].pc = "mark" /\ req[r].phase = "push"
                           => OnRemote(req[r].checkpoint.commitSha)
  /\ PushedIsOnRemote

LEMMA PushStep ==
  ASSUME TypeInv, TypeInv', PushInv, NEW r \in Requests, NEW l, Become(r, l),
         sandbox.head <= sandbox'.head,
         \A b \in Branches : /\ github.remote[b] <= github'.remote[b]
                             /\ github'.remote[b] <= sandbox'.head,
         l.pc = "mark" /\ l.phase = "push" =>
           \E b \in Branches : github'.remote[b] >= l.checkpoint.commitSha,
         \/ UNCHANGED <<thread.commitStatus, thread.commitSha>>
         \/ /\ req[r].pc = "mark" /\ thread'.commitSha = req[r].checkpoint.commitSha
            /\ thread'.commitStatus = "pushed" => req[r].phase = "push"
  PROVE  PushInv'
<1>1. \A s \in Requests : req'[s] = IF s = r THEN l ELSE req[s]
  BY DEF Become, TypeInv, TypeOK
<1>2. /\ \A b \in Branches : github.remote[b] \in Nat /\ github'.remote[b] \in Nat
      /\ \A s \in Requests : req[s].checkpoint.commitSha \in Nat
      /\ thread.commitSha \in Nat
  BY DEF TypeInv, TypeOK, StoreTypeOK, ThreadFields, Github, CommitSha, Request, Checkpoint
<1>3. ASSUME NEW sha \in Nat, OnRemote(sha) PROVE OnRemote(sha)'
  BY <1>2, <1>3 DEF OnRemote
<1>4. ASSUME NEW s \in Requests, s # r, req[s].pc = "mark", req[s].phase = "push"
      PROVE  \E b \in Branches : github'.remote[b] >= req[s].checkpoint.commitSha
  BY <1>2, <1>3, <1>4 DEF PushInv, OnRemote
<1>5. PushedIsOnRemote'
  <2>1. CASE UNCHANGED <<thread.commitStatus, thread.commitSha>>
    BY <1>2, <1>3, <2>1 DEF PushInv, PushedIsOnRemote, OnRemote
  <2>2. CASE /\ req[r].pc = "mark" /\ thread'.commitSha = req[r].checkpoint.commitSha
             /\ thread'.commitStatus = "pushed" => req[r].phase = "push"
    BY <1>2, <1>3, <2>2 DEF PushInv, PushedIsOnRemote, OnRemote
  <2> QED BY <2>1, <2>2
<1> QED BY <1>1, <1>4, <1>5 DEF PushInv, OnRemote

\* A step that neither pushes nor touches what the thread says of its commit.
LEMMA NoPush ==
  ASSUME TypeInv, TypeInv', PushInv, NEW r \in Requests, NEW l, Become(r, l),
         l.pc # "mark", UNCHANGED github, sandbox.head <= sandbox'.head,
         UNCHANGED <<thread.commitStatus, thread.commitSha>>
  PROVE  PushInv'
<1>1. \A b \in Branches : /\ github.remote[b] <= github'.remote[b]
                          /\ github'.remote[b] <= sandbox'.head
  BY DEF PushInv, TypeInv, TypeOK, Github, Sandbox, CommitSha
<1> QED BY <1>1, PushStep

LEMMA PushInvariant == Spec => []PushInv
<1>1. Init => PushInv
  BY DEF Init, StoreInit, PushInv, PushedIsOnRemote, IdleRequest
<1>2. TypeInv /\ TypeInv' /\ PushInv /\ [Next]_vars => PushInv'
  <2> SUFFICES ASSUME TypeInv, TypeInv', PushInv, [Next]_vars PROVE PushInv'
    OBVIOUS
  <2> USE DEF At
  <2>a. /\ \A r \in Requests : req[r] \in Request
        /\ sandbox \in Sandbox /\ sandbox.head \in Nat
        /\ thread \in ThreadFields
        /\ \A b \in Branches : github.remote[b] \in Nat
        /\ \A b \in Branches : github.remote[b] <= sandbox.head
    BY DEF PushInv, TypeInv, TypeOK, StoreTypeOK, Github, Sandbox, CommitSha
  \* most steps leave GitHub, the commits and the thread alone
  <2>b. ASSUME NEW r \in Requests, NEW l, Become(r, l), l.pc # "mark",
               UNCHANGED <<sandbox, github, thread>>
        PROVE  PushInv'
    BY <2>a, <2>b, NoPush
  <2>c. ASSUME NEW r \in Requests, NEW pc, pc # "mark"
        PROVE  To(r, pc).pc # "mark" /\ [req[r] EXCEPT !.pc = pc] = To(r, pc)
    BY <2>a, <2>c DEF To, Request
  <2>d. IdleRequest.pc # "mark" /\ \A l \in Request : NextIteration(l).pc # "mark"
    BY DEF IdleRequest, NextIteration, Request
  <2>1. ASSUME NEW r \in Requests, Begin(r) PROVE PushInv'
    <3>1. Resume(r).pc # "mark"
      BY <2>a DEF Resume, Request
    <3> QED BY <2>1, <2>b, <2>d, <3>1 DEF Begin, Call, BeginGitOperation, storeVars
  <2>2. ASSUME NEW r \in Requests, Precheck(r) PROVE PushInv'
    <3>1. ASSUME NEW l, Become(r, l), l.pc # "mark" PROVE PushInv'
      BY <2>2, <2>b, <3>1 DEF Precheck
    <3>2. NextIteration([req[r] EXCEPT !.expected =
            IF WorkspaceMode = "checkout" THEN sandbox.branch ELSE @]).pc # "mark"
      BY <2>a DEF NextIteration, Request
    <3>3. ASSUME NEW p PROVE [req[r] EXCEPT !.pc = "prefail", !.phase = p].pc # "mark"
      BY <2>a DEF Request
    <3> QED BY <2>2, <3>1, <3>2, <3>3 DEF Precheck
  <2>3. ASSUME NEW r \in Requests, OnPhaseComplete(r) PROVE PushInv'
    <3>1. NextIteration([req[r] EXCEPT !.done = @ \cup {req[r].phase}]).pc # "mark"
      BY <2>a DEF NextIteration, Request
    <3> QED BY <2>3, <2>b, <2>c, <3>1
      DEF OnPhaseComplete, Call, CompleteGitOperationPhase, storeVars
  <2>4. ASSUME NEW r \in Requests,
               \/ FailBeforeExecution(r) \/ OnPhaseStart(r) \/ OnPhaseFailure(r)
               \/ Finish(r) \/ ReleaseOperationLease(r)
        PROVE  PushInv'
    BY <2>4, <2>b, <2>c, <2>d
    DEF FailBeforeExecution, OnPhaseStart, OnPhaseFailure, Finish,
        ReleaseOperationLease, Call, storeVars, StartGitOperationPhase,
        FailGitOperation, CompleteGitOperation, ReleaseGitOperationLease
  <2>5. ASSUME NEW r \in Requests,
               \/ HandlerFails(r) \/ ValidatePhase(r) \/ PullRequestContext(r)
               \/ FindPullRequest(r) \/ Crash(r)
        PROVE  PushInv'
    BY <2>5, <2>b, <2>c, <2>d
    DEF HandlerFails, ValidatePhase, PullRequestContext, FindPullRequest, Crash, Goto
  <2>6. ASSUME NEW r \in Requests, NEW pc, Become(r, To(r, pc)), pc # "mark",
               UNCHANGED <<sandbox, github>>,
               UNCHANGED thread \/ \E status : MarkPullRequest(status)
        PROVE  PushInv'
    <3>1. UNCHANGED <<thread.commitStatus, thread.commitSha>>
      BY <2>6, <2>a DEF MarkPullRequest, ThreadFields
    <3> QED BY <2>6, <2>a, <2>c, <3>1, NoPush
  <2>7. ASSUME NEW r \in Requests,
               MarkPullRequestCreating(r) \/ MarkPullRequestFailed(r)
        PROVE  PushInv'
    BY <2>7, <2>6 DEF MarkPullRequestCreating, MarkPullRequestFailed, Call, storeVars
  <2>8. ASSUME NEW r \in Requests, MarkPullRequestCreated(r) PROVE PushInv'
    <3> DEFINE l == [req[r] EXCEPT !.pc = "complete", !.checkpoint.pullRequest = TRUE]
    <3>1. l.pc # "mark"
      BY <2>a DEF Request
    <3>2. /\ UNCHANGED <<sandbox, github>>
          /\ UNCHANGED <<thread.commitStatus, thread.commitSha>>
          /\ Become(r, l) \/ Become(r, To(r, "fail"))
      BY <2>8, <2>a DEF MarkPullRequestCreated, MarkPullRequest, Call, storeVars, ThreadFields
    <3> HIDE DEF l
    <3> QED BY <2>a, <2>c, <3>1, <3>2, NoPush
  <2>9. ASSUME NEW r \in Requests, MarkCommitted(r) PROVE PushInv'
    <3>1. /\ req[r].pc = "mark" /\ UNCHANGED <<sandbox, github>>
          /\ Become(r, To(r, "complete")) \/ Become(r, To(r, "fail"))
          /\ \/ UNCHANGED thread
             \/ /\ thread'.commitSha = req[r].checkpoint.commitSha
                /\ thread'.commitStatus = "pushed" => req[r].phase = "push"
      BY <2>9, <2>a
      DEF MarkCommitted, MarkChangesCommitted, Call, storeVars, ThreadFields
    <3> QED BY <2>a, <2>c, <3>1, PushStep
  <2>10. ASSUME NEW r \in Requests, BranchPhase(r) PROVE PushInv'
    <3> DEFINE l(b) == [req[r] EXCEPT !.pc = "complete", !.checkpoint.branch = b]
    <3>1. \A b : l(b).pc # "mark"
      BY <2>a DEF Request
    <3>2. /\ UNCHANGED <<github, thread>> /\ sandbox'.head = sandbox.head
          /\ Become(r, To(r, "fail")) \/ \E b : Become(r, l(b))
      BY <2>10, <2>a DEF BranchPhase, Answers, Goto, To, Sandbox
    <3> HIDE DEF l
    <3> QED BY <2>a, <2>c, <3>1, <3>2, NoPush
  <2>11. ASSUME NEW r \in Requests, CommitPhase(r) PROVE PushInv'
    <3> DEFINE h == IF sandbox.dirty THEN sandbox.head + 1 ELSE sandbox.head
               l == [req[r] EXCEPT !.pc = "mark", !.checkpoint.branch = WorkBranch(r),
                                   !.checkpoint.commitSha = h]
    <3>1. req[r].phase = "commit" /\ l.phase = "commit"
      <4> HIDE DEF h
      <4> QED BY <2>11, <2>a DEF CommitPhase, InPhase, Request
    <3>2. UNCHANGED <<github, thread>> /\ sandbox'.head = h
      BY <2>11, <2>a DEF CommitPhase, Sandbox
    <3>3. Become(r, To(r, "fail")) \/ Become(r, l)
      BY <2>11 DEF CommitPhase, Answers, Goto, To
    <3> HIDE DEF l
    <3>4. h \in Nat /\ sandbox.head <= h
      BY <2>a
    <3> HIDE DEF h
    <3>5. \A b \in Branches : /\ github.remote[b] <= github'.remote[b]
                              /\ github'.remote[b] <= sandbox'.head
      BY <2>a, <3>2, <3>4
    <3> QED BY <2>a, <2>c, <3>1, <3>2, <3>3, <3>4, <3>5, PushStep
  <2>12. ASSUME NEW r \in Requests, PushPhase(r) PROVE PushInv'
    <3> DEFINE l == [req[r] EXCEPT !.pc = "mark", !.checkpoint.commitSha = sandbox.head]
    <3>1. l.checkpoint.commitSha = sandbox.head
      BY <2>a DEF Request, Checkpoint
    <3>2. UNCHANGED <<sandbox, thread>> /\ (Become(r, To(r, "fail")) \/ Become(r, l))
      BY <2>12 DEF PushPhase, Answers, Goto, To
    <3> HIDE DEF l
    <3>3. \A b \in Branches : github'.remote[b] =
            IF b = sandbox.branch THEN sandbox.head ELSE github.remote[b]
      BY <2>12 DEF PushPhase, TypeInv, TypeOK, Github
    <3>4. \A b \in Branches : /\ github.remote[b] <= github'.remote[b]
                              /\ github'.remote[b] <= sandbox'.head
      BY <2>a, <3>2, <3>3
    <3>5. sandbox.branch \in Branches
      BY <2>a DEF Sandbox
    <3>6. github'.remote[sandbox.branch] >= sandbox.head
      BY <2>a, <3>3, <3>5
    <3>7. CASE Become(r, To(r, "fail"))
      BY <2>a, <2>c, <3>2, <3>4, <3>7, PushStep
    <3>8. CASE Become(r, l)
      BY <2>a, <3>1, <3>2, <3>4, <3>5, <3>6, <3>8, PushStep
    <3> QED BY <3>2, <3>7, <3>8
  <2>13. ASSUME NEW r \in Requests, CreatePullRequest(r) PROVE PushInv'
    <3>1. /\ UNCHANGED <<sandbox, thread>> /\ github'.remote = github.remote
          /\ \E pc \in {"prCreated", "fail"} : Become(r, To(r, pc))
      BY <2>13 DEF CreatePullRequest, Goto, To, TypeInv, TypeOK, Github
    <3> QED BY <2>a, <2>c, <3>1, PushStep
  <2>14. ASSUME NEW r \in Requests, NEW o \in OpIds, NEW a \in Actions, Submit(r, o, a)
         PROVE  PushInv'
    <3>1. [IdleRequest EXCEPT !.pc = "begin", !.op = o, !.action = a,
             !.expected = thread.branch, !.prSeen = thread.pullRequestNumber].pc # "mark"
      BY DEF IdleRequest
    <3> QED BY <2>14, <2>b, <3>1 DEF Submit
  <2>15. ASSUME NEW r \in Requests, SubmitRename(r) \/ Lock(r) \/ Unlock(r)
         PROVE  PushInv'
    <3>1. [IdleRequest EXCEPT !.pc = "lock"].pc # "mark"
      BY DEF IdleRequest
    <3> QED BY <2>15, <2>b, <2>c, <2>d, <3>1
      DEF SubmitRename, Lock, Unlock, BeginGitMutation, EndGitMutation, Call, storeVars
  <2>16. ASSUME NEW r \in Requests, Reread(r) PROVE PushInv'
    <3>1. ASSUME NEW pc, pc # "mark"
          PROVE  [req[r] EXCEPT !.pc = pc, !.expected = thread.branch].pc # "mark"
      BY <2>a, <3>1 DEF Request
    <3> QED BY <2>16, <2>b, <3>1 DEF Reread
  <2>17. ASSUME NEW r \in Requests, Rename(r) \/ UndoRename(r) PROVE PushInv'
    <3>1. /\ UNCHANGED <<github, thread>> /\ sandbox'.head = sandbox.head
          /\ \E pc \in {"save", "unlock"} : Become(r, To(r, pc))
      BY <2>17, <2>a DEF Rename, UndoRename, Goto, To, Sandbox
    <3> QED BY <2>a, <2>c, <3>1, NoPush
  <2>18. ASSUME NEW r \in Requests, SaveBranch(r) PROVE PushInv'
    <3>1. /\ UNCHANGED <<sandbox, github>>
          /\ UNCHANGED <<thread.commitStatus, thread.commitSha>>
          /\ \E pc \in {"undo", "unlock"} : Become(r, To(r, pc))
      BY <2>18, <2>a DEF SaveBranch, UpdateGeneratedFeatureBranch, Call, Goto, To,
                         storeVars, ThreadFields
    <3> QED BY <2>a, <2>c, <3>1, NoPush
  <2>19. CASE ExpireLease \/ EditWorkspace \/ UNCHANGED vars
    <3>1. UNCHANGED <<req, github, thread>> /\ sandbox'.head = sandbox.head
      BY <2>19, <2>a DEF ExpireLease, EditWorkspace, vars, Sandbox
    <3> QED BY <2>a, <3>1 DEF PushInv, OnRemote, PushedIsOnRemote
  <2> QED BY <2>1, <2>2, <2>3, <2>4, <2>5, <2>7, <2>8, <2>9, <2>10, <2>11, <2>12, <2>13,
       <2>14, <2>15, <2>16, <2>17, <2>18, <2>19
    DEF Next, Runner, Handlers, Renamer
<1> QED BY <1>1, <1>2, TypeInvariant, PTL DEF Spec

\* A commit the thread reports as pushed is on GitHub, whatever fails, whichever
\* requests outlive their lease, and however often clients retry.
THEOREM PushedIsOnRemoteHolds == Spec => []PushedIsOnRemote
<1>1. PushInv => PushedIsOnRemote
  BY DEF PushInv
<1> QED BY <1>1, PushInvariant, PTL

-----------------------------------------------------------------------------
(* The lease. *)

\* No two requests run the same operation.
OneRunner ==
  \A r, s \in Requests : req[r].op # None /\ req[r].op = req[s].op => r = s

\* The lease is fresh, and carries the id of whoever relies on it.
HeldLease == \A r \in Requests : Holds(r) => lease = FreshLease(HeldId(r))

LeaseInv == OneRunner /\ HeldLease

-----------------------------------------------------------------------------
HoldPC == (WorkflowPC \ {"begin", "prFailed", "release"}) \cup (RenamePC \ {"lock"})

\* The id under which a request in local state l works.
IdOf(r, l) == IF l.pc \in RenamePC THEN r ELSE l.op

\* What a step of r that leaves it in state l may do to the lease: leave it
\* alone, and rely on it only if r did before; take it when nobody has it; or
\* clear it if it carries the id of r, and rely on it no longer.
KeepsLease(r, l) ==
  /\ lease' = lease
  /\ l.pc \in HoldPC => Holds(r) /\ IdOf(r, l) = HeldId(r)
TakesLease(r, l) ==
  /\ ~LeaseActive
  /\ l.pc \in HoldPC => lease' = FreshLease(IdOf(r, l))
DropsLease(r, l) ==
  /\ l.pc \notin HoldPC
  /\ \/ ReleaseIfOwn(r)
     \/ req[r].op \in OpIds /\ ReleaseIfOwn(req[r].op)

\* Each of these keeps the lease with those who rely on it.
LEMMA LeaseStep ==
  ASSUME TypeInv, LeaseInv, NEW r \in Requests, NEW l, Become(r, l),
         \/ l.op \in {None, req[r].op}
         \/ \A s \in Requests : s # r => req[s].op # l.op,
         KeepsLease(r, l) \/ TakesLease(r, l) \/ DropsLease(r, l)
  PROVE  LeaseInv'
<1>1. \A s \in Requests : req'[s] = IF s = r THEN l ELSE req[s]
  BY DEF Become, TypeInv, TypeOK
<1>2. OneRunner'
  <2> SUFFICES ASSUME NEW s \in Requests, NEW t \in Requests,
                      req'[s].op # None, req'[s].op = req'[t].op
               PROVE  s = t
    BY DEF OneRunner
  <2>1. \A u \in Requests : u # r => req'[u].op = req[u].op
    BY <1>1
  <2>2. \A u, v \in Requests : req[u].op # None /\ req[u].op = req[v].op => u = v
    BY DEF LeaseInv, OneRunner
  <2>3. ASSUME NEW u \in Requests, u # r, l.op # None, l.op = req[u].op
        PROVE  FALSE
    BY <2>2, <2>3
  <2>4. req'[r].op = l.op
    BY <1>1
  <2>5. CASE s = r /\ t # r
    BY <2>1, <2>3, <2>4, <2>5
  <2>6. CASE s # r /\ t = r
    BY <2>1, <2>3, <2>4, <2>6
  <2>7. CASE s # r /\ t # r
    BY <2>1, <2>2, <2>7
  <2> QED BY <2>5, <2>6, <2>7
<1>3. ASSUME NEW s \in Requests, Holds(s)
      PROVE  /\ lease = FreshLease(HeldId(s))
             /\ \/ HeldId(s) = s
                \/ HeldId(s) \in OpIds /\ HeldId(s) = req[s].op
             /\ LeaseActive
  <2>1. lease = FreshLease(HeldId(s))
    BY <1>3 DEF LeaseInv, HeldLease
  <2>2. \/ HeldId(s) = s
        \/ HeldId(s) \in OpIds /\ HeldId(s) = req[s].op
    BY <1>3 DEF TypeInv, LocalOK, Holds, HeldId
  <2> QED BY <2>1, <2>2, StoreAssumption DEF LeaseActive, FreshLease
<1>4. ASSUME NEW s \in Requests, Holds(s)' PROVE (lease = FreshLease(HeldId(s)))'
  <2>1. CASE s = r
    <3>1. l.pc \in HoldPC /\ HeldId(r)' = IdOf(r, l)
      BY <1>1, <1>4, <2>1 DEF Holds, HoldPC, HeldId, IdOf
    <3> QED BY <1>3, <2>1, <3>1 DEF KeepsLease, TakesLease, DropsLease, FreshLease
  <2>2. CASE s # r
    <3>1. Holds(s) /\ HeldId(s)' = HeldId(s)
      BY <1>1, <1>4, <2>2 DEF Holds, HeldId
    <3>2. ~LeaseActive => FALSE
      BY <1>3, <3>1
    <3>3. CASE DropsLease(r, l)
      <4>1. HeldId(s) # r
        BY <1>3, <2>2, <3>1, StoreAssumption
      <4>2. req[r].op \in OpIds => HeldId(s) # req[r].op
        BY <1>3, <2>2, <3>1, StoreAssumption DEF LeaseInv, OneRunner
      <4>3. lease.id = HeldId(s)
        BY <1>3, <3>1 DEF FreshLease
      <4> QED BY <1>3, <3>1, <3>3, <4>1, <4>2, <4>3
        DEF DropsLease, ReleaseIfOwn, FreshLease
    <3> QED BY <1>3, <3>1, <3>2, <3>3 DEF KeepsLease, TakesLease, FreshLease
  <2> QED BY <2>1, <2>2
<1> QED BY <1>2, <1>4 DEF LeaseInv, HeldLease

\* The fields of a request that only moves.
LEMMA ToFields ==
  ASSUME TypeInv, NEW r \in Requests, NEW pc
  PROVE  To(r, pc).pc = pc /\ To(r, pc).op = req[r].op
BY DEF TypeInv, TypeOK, To, Request

\* The steps of HoldPC are those of Holds.
LEMMA HoldsPC ==
  ASSUME NEW r \in Requests
  PROVE  Holds(r) <=> req[r].pc \in HoldPC
BY DEF Holds, HoldPC

\* A step that leaves the lease alone.
LEMMA QuietStep ==
  ASSUME TypeInv, LeaseInv, NEW r \in Requests, NEW l, Become(r, l),
         UNCHANGED lease, l.op = req[r].op,
         l.pc \in HoldPC => /\ Holds(r)
                            /\ l.pc \in RenamePC <=> req[r].pc \in RenamePC
  PROVE  LeaseInv'
<1>1. KeepsLease(r, l)
  BY DEF KeepsLease, IdOf, HeldId
<1> QED BY <1>1, LeaseStep

LEMMA QuietTo ==
  ASSUME TypeInv, LeaseInv, NEW r \in Requests, NEW pc, Become(r, To(r, pc)),
         UNCHANGED lease,
         pc \in HoldPC => /\ Holds(r)
                          /\ pc \in RenamePC <=> req[r].pc \in RenamePC
  PROVE  LeaseInv'
BY ToFields, QuietStep

\* The step that ends a request, with or without its lease.
LEMMA ToIdle ==
  ASSUME TypeInv, LeaseInv, NEW r \in Requests, Become(r, IdleRequest),
         \/ UNCHANGED lease
         \/ ~LeaseActive
         \/ ReleaseIfOwn(r)
         \/ req[r].op \in OpIds /\ ReleaseIfOwn(req[r].op)
  PROVE  LeaseInv'
<1>1. IdleRequest.pc \notin HoldPC /\ IdleRequest.op = None
  BY DEF IdleRequest, HoldPC, WorkflowPC, RenamePC
<1>2. \/ KeepsLease(r, IdleRequest)
      \/ TakesLease(r, IdleRequest)
      \/ DropsLease(r, IdleRequest)
  BY <1>1 DEF KeepsLease, TakesLease, DropsLease
<1> QED BY <1>1, <1>2, LeaseStep

\* A step that gives back the lease of the request.
LEMMA DropTo ==
  ASSUME TypeInv, LeaseInv, NEW r \in Requests, NEW pc, Become(r, To(r, pc)),
         pc \notin HoldPC,
         \/ UNCHANGED lease
         \/ req[r].op \in OpIds /\ ReleaseIfOwn(req[r].op)
  PROVE  LeaseInv'
<1>1. KeepsLease(r, To(r, pc)) \/ DropsLease(r, To(r, pc))
  BY ToFields DEF KeepsLease, DropsLease
<1> QED BY <1>1, ToFields, LeaseStep

LEMMA LeaseInvariant ==
  ASSUME ~RetriesOverlap, ~OutliveLease
  PROVE  Spec => []LeaseInv
<1>1. Init => LeaseInv
  BY DEF Init, LeaseInv, OneRunner, HeldLease, Holds, IdleRequest, WorkflowPC, RenamePC
<1>2. TypeInv /\ LeaseInv /\ [Next]_vars => LeaseInv'
  <2> SUFFICES ASSUME TypeInv, LeaseInv, [Next]_vars PROVE LeaseInv'
    OBVIOUS
  <2> USE HoldsPC DEF At, HoldPC, WorkflowPC, RenamePC
  <2>a. ASSUME NEW r \in Requests, req[r].pc \in WorkflowPC
        PROVE  req[r].op \in OpIds
    BY <2>a DEF TypeInv, LocalOK
  <2>1. ASSUME NEW r \in Requests, Begin(r) PROVE LeaseInv'
    <3>1. req[r].op \in OpIds
      BY <2>1, <2>a DEF Begin
    <3>2. CASE BeginGitOperation(req[r].op, req[r].action)
      <4>1. ~LeaseActive /\ lease' = FreshLease(req[r].op)
        BY <3>2 DEF BeginGitOperation, BeginRefuses
      <4>2. CASE Become(r, IdleRequest)
        BY <4>1, <4>2, ToIdle
      <4>3. CASE Become(r, Resume(r))
        <5>1. Resume(r).pc = "precheck" /\ Resume(r).op = req[r].op
          BY DEF TypeInv, TypeOK, Resume, Request
        <5>2. TakesLease(r, Resume(r))
          BY <4>1, <5>1 DEF TakesLease, IdOf
        <5> QED BY <4>3, <5>1, <5>2, LeaseStep
      <4> QED BY <2>1, <3>2, <4>2, <4>3 DEF Begin, Call, storeVars, BeginGitOperation
    <3>3. CASE Become(r, IdleRequest) /\ UNCHANGED lease
      BY <3>3, ToIdle
    <3> QED BY <2>1, <3>2, <3>3 DEF Begin, Call, storeVars
  <2>2. ASSUME NEW r \in Requests, FailBeforeExecution(r) PROVE LeaseInv'
    <3>1. req[r].op \in OpIds
      BY <2>2, <2>a DEF FailBeforeExecution
    <3>2. Become(r, To(r, "release"))
      BY <2>2 DEF FailBeforeExecution, Call
    <3>3. UNCHANGED lease \/ ReleaseIfOwn(req[r].op)
      BY <2>2 DEF FailBeforeExecution, Call, FailGitOperation, storeVars
    <3> QED BY <3>1, <3>2, <3>3, DropTo
  <2>3. ASSUME NEW r \in Requests, OnPhaseStart(r) PROVE LeaseInv'
    <3>1. UNCHANGED lease /\ Holds(r)
      BY <2>3 DEF OnPhaseStart, Call, StartGitOperationPhase, storeVars
    <3>2. \E pc \in {"prContext", "handle", "release"} : Become(r, To(r, pc))
      BY <2>3 DEF OnPhaseStart, Call
    <3> QED BY <2>3, <3>1, <3>2, QuietTo DEF OnPhaseStart
  <2>4. ASSUME NEW r \in Requests, OnPhaseComplete(r) PROVE LeaseInv'
    <3> DEFINE l == [req[r] EXCEPT !.done = @ \cup {req[r].phase}]
    <3>1. UNCHANGED lease /\ Holds(r)
      BY <2>4 DEF OnPhaseComplete, Call, CompleteGitOperationPhase, storeVars
    <3>2. CASE Become(r, To(r, "fail"))
      BY <2>4, <3>1, <3>2, QuietTo DEF OnPhaseComplete
    <3>3. CASE Become(r, NextIteration(l))
      <4>1. /\ NextIteration(l).pc \in {"start", "finish"}
            /\ NextIteration(l).op = req[r].op
        BY DEF TypeInv, TypeOK, NextIteration, Request
      <4> QED BY <2>4, <3>1, <3>3, <4>1, QuietStep DEF OnPhaseComplete
    <3> QED BY <2>4, <3>2, <3>3 DEF OnPhaseComplete, Call
  <2>5. ASSUME NEW r \in Requests, OnPhaseFailure(r) PROVE LeaseInv'
    <3>1. req[r].op \in OpIds
      BY <2>5, <2>a DEF OnPhaseFailure
    <3>2. \E pc \in {"prFailed", "release"} : Become(r, To(r, pc))
      BY <2>5 DEF OnPhaseFailure, Call
    <3>3. UNCHANGED lease \/ ReleaseIfOwn(req[r].op)
      BY <2>5 DEF OnPhaseFailure, Call, FailGitOperation, storeVars
    <3> QED BY <3>1, <3>2, <3>3, DropTo
  <2>6. ASSUME NEW r \in Requests, MarkPullRequestFailed(r) PROVE LeaseInv'
    <3>1. UNCHANGED lease /\ Become(r, To(r, "release"))
      BY <2>6 DEF MarkPullRequestFailed, Call, MarkPullRequest, storeVars
    <3> QED BY <3>1, QuietTo
  <2>7. ASSUME NEW r \in Requests, Finish(r) PROVE LeaseInv'
    <3>1. req[r].op \in OpIds
      BY <2>7, <2>a DEF Finish
    <3>2. Become(r, IdleRequest) \/ Become(r, To(r, "release"))
      BY <2>7 DEF Finish, Call
    <3>3. UNCHANGED lease \/ ReleaseIfOwn(req[r].op)
      BY <2>7 DEF Finish, Call, CompleteGitOperation, storeVars
    <3> QED BY <3>1, <3>2, <3>3, DropTo, ToIdle
  <2>8. ASSUME NEW r \in Requests, ReleaseOperationLease(r) PROVE LeaseInv'
    <3>1. req[r].op \in OpIds
      BY <2>8, <2>a DEF ReleaseOperationLease
    <3>2. Become(r, IdleRequest)
      BY <2>8 DEF ReleaseOperationLease, Call
    <3>3. UNCHANGED lease \/ ReleaseIfOwn(req[r].op)
      BY <2>8 DEF ReleaseOperationLease, Call, ReleaseGitOperationLease, storeVars
    <3> QED BY <3>1, <3>2, <3>3, ToIdle
  <2>9. ASSUME NEW r \in Requests, MarkCommitted(r) PROVE LeaseInv'
    <3>1. UNCHANGED lease /\ Holds(r)
      BY <2>9 DEF MarkCommitted, Call, MarkChangesCommitted, storeVars
    <3>2. \E pc \in {"complete", "fail"} : Become(r, To(r, pc))
      BY <2>9 DEF MarkCommitted, Call
    <3> QED BY <2>9, <3>1, <3>2, QuietTo DEF MarkCommitted
  <2>10. ASSUME NEW r \in Requests, MarkPullRequestCreating(r) PROVE LeaseInv'
    <3>1. UNCHANGED lease /\ Holds(r)
      BY <2>10 DEF MarkPullRequestCreating, Call, MarkPullRequest, storeVars
    <3>2. \E pc \in {"prFind", "fail"} : Become(r, To(r, pc))
      BY <2>10 DEF MarkPullRequestCreating, Call
    <3> QED BY <2>10, <3>1, <3>2, QuietTo DEF MarkPullRequestCreating
  <2>11. ASSUME NEW r \in Requests, MarkPullRequestCreated(r) PROVE LeaseInv'
    <3> DEFINE l == [req[r] EXCEPT !.pc = "complete", !.checkpoint.pullRequest = TRUE]
    <3>1. UNCHANGED lease /\ Holds(r)
      BY <2>11 DEF MarkPullRequestCreated, Call, MarkPullRequest, storeVars
    <3>2. l.pc = "complete" /\ l.op = req[r].op
      BY DEF TypeInv, TypeOK, Request
    <3>3. Become(r, l) \/ Become(r, To(r, "fail"))
      BY <2>11 DEF MarkPullRequestCreated, Call
    <3> QED BY <2>11, <3>1, <3>2, <3>3, QuietStep, QuietTo DEF MarkPullRequestCreated
  <2>12. ASSUME NEW r \in Requests, HandlerFails(r) PROVE LeaseInv'
    <3>1. UNCHANGED lease /\ Holds(r)
      BY <2>12 DEF HandlerFails
    <3>2. \E pc \in {"fail"} : Become(r, To(r, pc))
      BY <2>12 DEF HandlerFails, Goto, To
    <3> QED BY <2>12, <3>1, <3>2, QuietTo DEF HandlerFails
  <2>13. ASSUME NEW r \in Requests, ValidatePhase(r) PROVE LeaseInv'
    <3>1. UNCHANGED lease /\ Holds(r)
      BY <2>13 DEF ValidatePhase, InPhase
    <3>2. \E pc \in {"complete", "fail"} : Become(r, To(r, pc))
      BY <2>13 DEF ValidatePhase, InPhase, Goto, To
    <3> QED BY <2>13, <3>1, <3>2, QuietTo DEF ValidatePhase, InPhase
  <2>14. ASSUME NEW r \in Requests, PullRequestContext(r) PROVE LeaseInv'
    <3>1. UNCHANGED lease /\ Holds(r)
      BY <2>14 DEF PullRequestContext
    <3>2. \E pc \in {"prCreating", "fail"} : Become(r, To(r, pc))
      BY <2>14 DEF PullRequestContext, Goto, To
    <3> QED BY <2>14, <3>1, <3>2, QuietTo DEF PullRequestContext
  <2>15. ASSUME NEW r \in Requests, FindPullRequest(r) PROVE LeaseInv'
    <3>1. UNCHANGED lease /\ Holds(r)
      BY <2>15 DEF FindPullRequest
    <3>2. \E pc \in {"prCreated", "prCreate"} : Become(r, To(r, pc))
      BY <2>15 DEF FindPullRequest, Goto, To
    <3> QED BY <2>15, <3>1, <3>2, QuietTo DEF FindPullRequest
  <2>16. ASSUME NEW r \in Requests, CreatePullRequest(r) PROVE LeaseInv'
    <3>1. UNCHANGED lease /\ Holds(r)
      BY <2>16 DEF CreatePullRequest
    <3>2. \E pc \in {"prCreated", "fail"} : Become(r, To(r, pc))
      BY <2>16 DEF CreatePullRequest, Goto, To
    <3> QED BY <2>16, <3>1, <3>2, QuietTo DEF CreatePullRequest
  <2>17. ASSUME NEW r \in Requests, Rename(r) PROVE LeaseInv'
    <3>1. UNCHANGED lease /\ Holds(r)
      BY <2>17 DEF Rename
    <3>2. \E pc \in {"save", "unlock"} : Become(r, To(r, pc))
      BY <2>17 DEF Rename, Goto, To
    <3> QED BY <2>17, <3>1, <3>2, QuietTo DEF Rename
  <2>18. ASSUME NEW r \in Requests, UndoRename(r) PROVE LeaseInv'
    <3>1. UNCHANGED lease /\ Holds(r)
      BY <2>18 DEF UndoRename
    <3>2. \E pc \in {"unlock"} : Become(r, To(r, pc))
      BY <2>18 DEF UndoRename, Goto, To
    <3> QED BY <2>18, <3>1, <3>2, QuietTo DEF UndoRename
  <2>19. ASSUME NEW r \in Requests, BranchPhase(r) PROVE LeaseInv'
    <3>1. UNCHANGED lease /\ Holds(r)
      BY <2>19 DEF BranchPhase, InPhase
    <3>2. ASSUME NEW b, NEW h,
                 Become(r, [req[r] EXCEPT !.pc = "complete", !.checkpoint.branch = b])
          PROVE  LeaseInv'
      <4> DEFINE l == [req[r] EXCEPT !.pc = "complete", !.checkpoint.branch = b]
      <4>1. l.pc = "complete" /\ l.op = req[r].op
        BY DEF TypeInv, TypeOK, Request, Checkpoint
      <4> QED BY <2>19, <3>1, <3>2, <4>1, QuietStep DEF BranchPhase, InPhase
    <3>3. CASE Become(r, To(r, "fail"))
      BY <2>19, <3>1, <3>3, QuietTo DEF BranchPhase, InPhase
    <3> QED BY <2>19, <3>2, <3>3 DEF BranchPhase, Answers, Goto, To
  <2>20. ASSUME NEW r \in Requests, CommitPhase(r) PROVE LeaseInv'
    <3>1. UNCHANGED lease /\ Holds(r)
      BY <2>20 DEF CommitPhase, InPhase
    <3>2. ASSUME NEW b, NEW h,
                 Become(r, [req[r] EXCEPT !.pc = "mark", !.checkpoint.branch = b, !.checkpoint.commitSha = h])
          PROVE  LeaseInv'
      <4> DEFINE l == [req[r] EXCEPT !.pc = "mark", !.checkpoint.branch = b, !.checkpoint.commitSha = h]
      <4>1. l.pc = "mark" /\ l.op = req[r].op
        BY DEF TypeInv, TypeOK, Request, Checkpoint
      <4> QED BY <2>20, <3>1, <3>2, <4>1, QuietStep DEF CommitPhase, InPhase
    <3>3. CASE Become(r, To(r, "fail"))
      BY <2>20, <3>1, <3>3, QuietTo DEF CommitPhase, InPhase
    <3> QED BY <2>20, <3>2, <3>3 DEF CommitPhase, Answers, Goto, To
  <2>21. ASSUME NEW r \in Requests, PushPhase(r) PROVE LeaseInv'
    <3>1. UNCHANGED lease /\ Holds(r)
      BY <2>21 DEF PushPhase, InPhase
    <3>2. ASSUME NEW b, NEW h,
                 Become(r, [req[r] EXCEPT !.pc = "mark", !.checkpoint.commitSha = h])
          PROVE  LeaseInv'
      <4> DEFINE l == [req[r] EXCEPT !.pc = "mark", !.checkpoint.commitSha = h]
      <4>1. l.pc = "mark" /\ l.op = req[r].op
        BY DEF TypeInv, TypeOK, Request, Checkpoint
      <4> QED BY <2>21, <3>1, <3>2, <4>1, QuietStep DEF PushPhase, InPhase
    <3>3. CASE Become(r, To(r, "fail"))
      BY <2>21, <3>1, <3>3, QuietTo DEF PushPhase, InPhase
    <3> QED BY <2>21, <3>2, <3>3 DEF PushPhase, Answers, Goto, To
  <2>22. ASSUME NEW r \in Requests, Precheck(r) PROVE LeaseInv'
    <3> DEFINE m == [req[r] EXCEPT !.expected = IF WorkspaceMode = "checkout"
                                                THEN sandbox.branch ELSE @]
    <3>1. UNCHANGED lease /\ Holds(r)
      BY <2>22 DEF Precheck
    <3>2. CASE Become(r, NextIteration(m))
      <4>1. /\ NextIteration(m).pc \in {"start", "finish"}
            /\ NextIteration(m).op = req[r].op
        BY DEF TypeInv, TypeOK, NextIteration, Request
      <4> QED BY <2>22, <3>1, <3>2, <4>1, QuietStep DEF Precheck
    <3>3. ASSUME NEW p, Become(r, [req[r] EXCEPT !.pc = "prefail", !.phase = p])
          PROVE  LeaseInv'
      <4> DEFINE l == [req[r] EXCEPT !.pc = "prefail", !.phase = p]
      <4>1. l.pc = "prefail" /\ l.op = req[r].op
        BY DEF TypeInv, TypeOK, Request
      <4> QED BY <2>22, <3>1, <3>3, <4>1, QuietStep DEF Precheck
    <3> QED BY <2>22, <3>2, <3>3 DEF Precheck
  <2>23. ASSUME NEW r \in Requests, NEW o \in OpIds, NEW a \in Actions, Submit(r, o, a) PROVE LeaseInv'
    <3> DEFINE l == [IdleRequest EXCEPT
                       !.pc = "begin", !.op = o, !.action = a,
                       !.expected = thread.branch,
                       !.prSeen = thread.pullRequestNumber]
    <3>1. l.pc = "begin" /\ l.op = o
      BY DEF IdleRequest
    <3>2. Become(r, l) /\ UNCHANGED lease
      BY <2>23 DEF Submit
    <3>3. \A s \in Requests : s # r => req[s].op # o
      BY <2>23 DEF Submit
    <3>4. KeepsLease(r, l)
      BY <3>1, <3>2 DEF KeepsLease
    <3> QED BY <3>1, <3>2, <3>3, <3>4, LeaseStep
  <2>24. ASSUME NEW r \in Requests, SubmitRename(r) PROVE LeaseInv'
    <3> DEFINE l == [IdleRequest EXCEPT !.pc = "lock"]
    <3>1. l.pc = "lock" /\ l.op = None
      BY DEF IdleRequest
    <3>2. Become(r, l) /\ UNCHANGED lease
      BY <2>24 DEF SubmitRename
    <3>3. KeepsLease(r, l)
      BY <3>1, <3>2 DEF KeepsLease
    <3> QED BY <3>1, <3>2, <3>3, LeaseStep
  <2>25. ASSUME NEW r \in Requests, Lock(r) PROVE LeaseInv'
    <3>1. CASE Become(r, IdleRequest) /\ UNCHANGED lease
      BY <3>1, ToIdle
    <3>2. CASE BeginGitMutation(r)
      <4>1. ~LeaseActive /\ lease' = FreshLease(r)
        BY <3>2 DEF BeginGitMutation
      <4>2. CASE Become(r, IdleRequest)
        BY <4>1, <4>2, ToIdle
      <4>3. CASE Become(r, To(r, "reread"))
        <5>1. TakesLease(r, To(r, "reread"))
          BY <4>1, ToFields DEF TakesLease, IdOf
        <5> QED BY <4>3, <5>1, ToFields, LeaseStep
      <4> QED BY <2>25, <3>2, <4>2, <4>3 DEF Lock, Call
    <3> QED BY <2>25, <3>1, <3>2 DEF Lock, Call, storeVars
  <2>26. ASSUME NEW r \in Requests, Reread(r) PROVE LeaseInv'
    <3>1. UNCHANGED lease /\ Holds(r)
      BY <2>26 DEF Reread
    <3>2. ASSUME NEW pc \in {"rename", "unlock"},
                 Become(r, [req[r] EXCEPT !.pc = pc, !.expected = thread.branch])
          PROVE  LeaseInv'
      <4> DEFINE l == [req[r] EXCEPT !.pc = pc, !.expected = thread.branch]
      <4>1. l.pc = pc /\ l.op = req[r].op
        BY DEF TypeInv, TypeOK, Request
      <4> QED BY <2>26, <3>1, <3>2, <4>1, QuietStep DEF Reread
    <3> QED BY <2>26, <3>2 DEF Reread
  <2>27. ASSUME NEW r \in Requests, SaveBranch(r) PROVE LeaseInv'
    <3>1. UNCHANGED lease /\ Holds(r)
      BY <2>27 DEF SaveBranch, Call, UpdateGeneratedFeatureBranch, storeVars
    <3>2. \E pc \in {"unlock", "undo"} : Become(r, To(r, pc))
      BY <2>27 DEF SaveBranch, Call, Goto, To
    <3> QED BY <2>27, <3>1, <3>2, QuietTo DEF SaveBranch
  <2>28. ASSUME NEW r \in Requests, Unlock(r) PROVE LeaseInv'
    <3>1. Become(r, IdleRequest)
      BY <2>28 DEF Unlock, Call
    <3>2. UNCHANGED lease \/ ReleaseIfOwn(r)
      BY <2>28 DEF Unlock, Call, EndGitMutation, storeVars
    <3> QED BY <3>1, <3>2, ToIdle
  <2>29. ASSUME NEW r \in Requests, Crash(r) PROVE LeaseInv'
    BY <2>29, ToIdle DEF Crash
  <2>30. ASSUME ExpireLease PROVE LeaseInv'
    <3>1. ASSUME NEW r \in Requests, Holds(r) PROVE FALSE
      <4>1. lease.id = HeldId(r)
        BY <3>1 DEF LeaseInv, HeldLease, FreshLease
      <4> QED BY <2>30, <3>1, <4>1 DEF ExpireLease
    <3>2. UNCHANGED req
      BY <2>30 DEF ExpireLease
    <3> QED BY <3>1, <3>2 DEF LeaseInv, OneRunner, HeldLease, Holds
  <2>31. ASSUME EditWorkspace PROVE LeaseInv'
    BY <2>31 DEF EditWorkspace, LeaseInv, OneRunner, HeldLease, Holds, HeldId
  <2>32. ASSUME UNCHANGED vars PROVE LeaseInv'
    BY <2>32 DEF vars, LeaseInv, OneRunner, HeldLease, Holds, HeldId
  <2> QED BY <2>1, <2>2, <2>3, <2>4, <2>5, <2>6, <2>7, <2>8, <2>9, <2>10,
       <2>11, <2>12, <2>13, <2>14, <2>15, <2>16, <2>17, <2>18, <2>19,
       <2>20, <2>21, <2>22, <2>23, <2>24, <2>25, <2>26, <2>27, <2>28,
       <2>29, <2>30, <2>31, <2>32
    DEF Next, Runner, Handlers, Renamer
<1> QED BY <1>1, <1>2, TypeInvariant, PTL DEF Spec

\* Two requests that hold the lease are one.
LEMMA OneHolder ==
  ASSUME TypeInv, LeaseInv, NEW r \in Requests, NEW s \in Requests,
         Holds(r), Holds(s)
  PROVE  r = s
<1>1. HeldId(r) = HeldId(s)
  <2>1. FreshLease(HeldId(r)) = FreshLease(HeldId(s))
    BY DEF LeaseInv, HeldLease
  <2> QED BY <2>1 DEF FreshLease
<1>2. ASSUME NEW t \in Requests, Holds(t)
      PROVE  \/ HeldId(t) = t
             \/ HeldId(t) \in OpIds /\ HeldId(t) = req[t].op
  BY <1>2 DEF TypeInv, LocalOK, Holds, HeldId
<1>3. CASE HeldId(r) \in OpIds /\ HeldId(r) = req[r].op
  <2>1. HeldId(s) = req[s].op
    BY <1>1, <1>2, <1>3, StoreAssumption
  <2> QED BY <1>1, <1>3, <2>1, StoreAssumption DEF LeaseInv, OneRunner
<1>4. CASE HeldId(r) = r
  BY <1>1, <1>2, <1>4, StoreAssumption
<1> QED BY <1>2, <1>3, <1>4

\* While one request holds the lease it acquired, no other request works on
\* the branch: "Another Git operation is already running for this thread".
THEOREM MutualExclusionHolds ==
  ASSUME ~RetriesOverlap, ~OutliveLease
  PROVE  Spec => []MutualExclusion
<1>1. TypeInv /\ LeaseInv => MutualExclusion
  BY OneHolder DEF MutualExclusion
<1> QED BY <1>1, TypeInvariant, LeaseInvariant, PTL

-----------------------------------------------------------------------------
(* The workflow implements ExclusiveWorkspace: what the requests share       *)
(* changes only in the hands of the holder.                                  *)

Shared == <<sandbox.branch, sandbox.head, github, thread.branch,
            thread.commitStatus, thread.commitSha>>

HolderOK ==
  /\ \A r \in Requests : Holds(r) => Holder = r
  /\ (\A r \in Requests : ~Holds(r)) => Holder = None

LEMMA HolderIs == TypeInv /\ LeaseInv => HolderOK
<1> SUFFICES ASSUME TypeInv, LeaseInv PROVE HolderOK
  OBVIOUS
<1>1. ASSUME NEW r \in Requests, Holds(r) PROVE Holder = r
  <2>1. Holder \in Requests /\ Holds(Holder)
    BY <1>1 DEF Holder
  <2> QED BY <1>1, <2>1, OneHolder
<1> QED BY <1>1 DEF Holder, HolderOK

\* A step of one request that leaves the shared state alone, or takes place
\* while the request holds the lease, is a step of ExclusiveWorkspace.
LEMMA ExclusiveStep ==
  ASSUME TypeInv, LeaseInv, TypeInv', LeaseInv', NEW r \in Requests, NEW l, Become(r, l),
         UNCHANGED Shared \/ (Holds(r) /\ l.pc \in HoldPC)
  PROVE  [Exclusive!Next]_Exclusive!vars
<1>1. \A s \in Requests : req'[s] = IF s = r THEN l ELSE req[s]
  BY DEF Become, TypeInv, TypeOK
<1>2. \A s \in Requests : s # r => (Holds(s)' <=> Holds(s))
  BY <1>1 DEF Holds
<1>3. Holds(r)' <=> l.pc \in HoldPC
  BY <1>1 DEF Holds, HoldPC
<1>4. /\ \A s \in Requests : Holds(s) => Holder = s
      /\ (\A s \in Requests : ~Holds(s)) => Holder = None
  BY HolderIs DEF HolderOK
<1>5. /\ \A s \in Requests : Holds(s)' => Holder' = s
      /\ (\A s \in Requests : ~Holds(s)') => Holder' = None
  <2>1. (TypeInv /\ LeaseInv => HolderOK)'
    BY HolderIs, PTL
  <2> QED BY <2>1 DEF HolderOK
<1>6. CASE Holds(r) /\ Holds(r)'
  <2>1. Exclusive!Change(r)
    BY <1>4, <1>5, <1>6 DEF Exclusive!Change
  <2> QED BY <2>1 DEF Exclusive!Next
<1>7. CASE ~Holds(r) /\ Holds(r)'
  <2>1. Holder' = r
    BY <1>5, <1>7
  <2>2. \A s \in Requests : ~Holds(s)
    BY <1>2, <1>5, <1>7, <2>1
  <2>3. Exclusive!Enter(r)
    BY <1>3, <1>4, <1>7, <2>1, <2>2 DEF Exclusive!Enter, Shared
  <2> QED BY <2>3 DEF Exclusive!Next
<1>8. CASE Holds(r) /\ ~Holds(r)'
  <2>1. \A s \in Requests : ~Holds(s)'
    BY <1>2, <1>4, <1>8
  <2>2. Exclusive!Leave(r)
    BY <1>3, <1>4, <1>5, <1>8, <2>1 DEF Exclusive!Leave, Shared
  <2> QED BY <2>2 DEF Exclusive!Next
<1>9. CASE ~Holds(r) /\ ~Holds(r)'
  <2>1. Holder' = Holder
    BY <1>2, <1>4, <1>5, <1>9
  <2> QED BY <1>9, <2>1 DEF Exclusive!vars, Shared
<1> QED BY <1>6, <1>7, <1>8, <1>9

\* The abstract specification of the lease: whoever fails, and whatever the
\* clients do, the workspace changes in the hands of one request at a time.
THEOREM ImplementsExclusiveWorkspaceHolds ==
  ASSUME ~RetriesOverlap, ~OutliveLease
  PROVE  Spec => ImplementsExclusiveWorkspace
<1>1. Init => Exclusive!Init
  BY DEF Init, IdleRequest, Holds, WorkflowPC, RenamePC, Holder, Exclusive!Init
<1>2. /\ TypeInv /\ TypeInv' /\ LeaseInv /\ LeaseInv' /\ [Next]_vars
      => [Exclusive!Next]_Exclusive!vars
  <2> SUFFICES ASSUME TypeInv, TypeInv', LeaseInv, LeaseInv', [Next]_vars
               PROVE  [Exclusive!Next]_Exclusive!vars
    OBVIOUS
  <2> DEFINE Goal == [Exclusive!Next]_Exclusive!vars
  <2> USE DEF At
  <2>0. /\ \A r \in Requests : req[r] \in Request
        /\ thread \in ThreadFields /\ sandbox \in Sandbox
    BY DEF TypeInv, TypeOK, StoreTypeOK
  <2>a. ASSUME NEW r \in Requests, NEW l, Become(r, l),
               UNCHANGED <<sandbox, github, thread>>
        PROVE  Goal
    BY <2>a, ExclusiveStep DEF Shared
  <2>b. ASSUME NEW r \in Requests, NEW pc, Become(r, To(r, pc)), UNCHANGED Shared
        PROVE  Goal
    BY <2>b, ExclusiveStep
  \* a request changes the shared state between two steps at which it holds
  <2>c. ASSUME NEW r \in Requests, NEW l, Become(r, l) \/ Become(r, To(r, "fail")),
               req[r].pc \in {"handle", "mark", "prCreate"}, l.pc \in HoldPC
        PROVE  Goal
    <3>1. Holds(r) /\ To(r, "fail").pc \in HoldPC
      BY <2>c, ToFields DEF Holds, HoldPC, WorkflowPC, RenamePC
    <3> QED BY <2>c, <3>1, ExclusiveStep
  <2>d. ASSUME NEW r \in Requests, NEW pc \in {"save", "unlock", "undo"},
               Become(r, To(r, pc)), req[r].pc \in {"rename", "save", "undo"}
        PROVE  Goal
    <3>1. Holds(r) /\ To(r, pc).pc \in HoldPC
      BY <2>d, ToFields DEF Holds, HoldPC, WorkflowPC, RenamePC
    <3> QED BY <2>d, <3>1, ExclusiveStep
  <2>1. ASSUME NEW r \in Requests,
               \/ \E o \in OpIds, a \in Actions : Submit(r, o, a)
               \/ SubmitRename(r) \/ Crash(r) \/ Lock(r) \/ Reread(r) \/ Unlock(r)
        PROVE  Goal
    BY <2>1, <2>a DEF Submit, SubmitRename, Crash, Lock, Reread, Unlock, Call, storeVars,
                      BeginGitMutation, EndGitMutation
  <2>2. ASSUME NEW r \in Requests,
               \/ Begin(r) \/ Precheck(r) \/ FailBeforeExecution(r)
               \/ OnPhaseStart(r) \/ OnPhaseComplete(r) \/ OnPhaseFailure(r)
               \/ Finish(r) \/ ReleaseOperationLease(r)
        PROVE  Goal
    BY <2>2, <2>a
    DEF Begin, Precheck, FailBeforeExecution, OnPhaseStart, OnPhaseComplete,
        OnPhaseFailure, Finish, ReleaseOperationLease, Call, storeVars,
        BeginGitOperation, StartGitOperationPhase, CompleteGitOperationPhase,
        FailGitOperation, CompleteGitOperation, ReleaseGitOperationLease
  <2>3. ASSUME NEW r \in Requests,
               \/ ValidatePhase(r) \/ PullRequestContext(r) \/ FindPullRequest(r)
               \/ HandlerFails(r)
        PROVE  Goal
    BY <2>3, <2>a
    DEF ValidatePhase, PullRequestContext, FindPullRequest, HandlerFails, Goto
  <2>4. ASSUME NEW r \in Requests,
               \/ MarkPullRequestCreating(r) \/ MarkPullRequestFailed(r)
               \/ MarkPullRequestCreated(r)
        PROVE  Goal
    <3>1. UNCHANGED Shared
      BY <2>4, <2>0
      DEF MarkPullRequestCreating, MarkPullRequestFailed, MarkPullRequestCreated,
          MarkPullRequest, Call, storeVars, ThreadFields, Shared
    <3>2. \E l : Become(r, l)
      BY <2>4 DEF MarkPullRequestCreating, MarkPullRequestFailed,
                  MarkPullRequestCreated, Call
    <3> QED BY <3>1, <3>2, ExclusiveStep
  <2>5. ASSUME NEW r \in Requests, MarkCommitted(r) PROVE Goal
    <3>1. To(r, "complete").pc \in HoldPC
      BY ToFields DEF HoldPC, WorkflowPC
    <3> QED BY <2>5, <2>c, <3>1 DEF MarkCommitted, Call
  <2>6. ASSUME NEW r \in Requests, BranchPhase(r) PROVE Goal
    <3> DEFINE l(b) == [req[r] EXCEPT !.pc = "complete", !.checkpoint.branch = b]
    <3>1. ASSUME NEW b PROVE l(b).pc \in HoldPC
      BY <2>0 DEF Request, HoldPC, WorkflowPC
    <3>2. req[r].pc = "handle"
      BY <2>6 DEF BranchPhase, InPhase
    <3>3. Become(r, To(r, "fail")) \/ \E b : Become(r, l(b))
      BY <2>6 DEF BranchPhase, Answers, Goto, To
    <3> HIDE DEF l
    <3> QED BY <2>c, <3>1, <3>2, <3>3
  <2>7. ASSUME NEW r \in Requests, CommitPhase(r) PROVE Goal
    <3> DEFINE h == IF sandbox.dirty THEN sandbox.head + 1 ELSE sandbox.head
               l == [req[r] EXCEPT !.pc = "mark", !.checkpoint.branch = WorkBranch(r),
                                   !.checkpoint.commitSha = h]
    <3>1. l.pc \in HoldPC
      <4> HIDE DEF h
      <4> QED BY <2>0 DEF Request, HoldPC, WorkflowPC
    <3>2. req[r].pc = "handle"
      BY <2>7 DEF CommitPhase, InPhase
    <3>3. Become(r, To(r, "fail")) \/ Become(r, l)
      BY <2>7 DEF CommitPhase, Answers, Goto, To
    <3> HIDE DEF l
    <3> QED BY <2>c, <3>1, <3>2, <3>3
  <2>8. ASSUME NEW r \in Requests, PushPhase(r) PROVE Goal
    <3> DEFINE l == [req[r] EXCEPT !.pc = "mark", !.checkpoint.commitSha = sandbox.head]
    <3>1. l.pc \in HoldPC
      BY <2>0 DEF Request, HoldPC, WorkflowPC
    <3>2. req[r].pc = "handle"
      BY <2>8 DEF PushPhase, InPhase
    <3>3. Become(r, To(r, "fail")) \/ Become(r, l)
      BY <2>8 DEF PushPhase, Answers, Goto, To
    <3> HIDE DEF l
    <3> QED BY <2>c, <3>1, <3>2, <3>3
  <2>9. ASSUME NEW r \in Requests, CreatePullRequest(r) PROVE Goal
    <3>1. To(r, "prCreated").pc \in HoldPC
      BY ToFields DEF HoldPC, WorkflowPC
    <3> QED BY <2>9, <2>c, <3>1 DEF CreatePullRequest, Goto, To
  <2>10. ASSUME NEW r \in Requests, Rename(r) \/ SaveBranch(r) \/ UndoRename(r)
         PROVE  Goal
    BY <2>10, <2>d DEF Rename, SaveBranch, UndoRename, Call, Goto, To
  <2>11. CASE ExpireLease \/ EditWorkspace \/ UNCHANGED vars
    <3>1. UNCHANGED <<req, github, thread>> /\ UNCHANGED Shared
      BY <2>11, <2>0 DEF ExpireLease, EditWorkspace, vars, Shared, Sandbox
    <3>2. Holder' = Holder
      BY <3>1 DEF Holder, Holds
    <3> QED BY <3>1, <3>2 DEF Exclusive!vars, Shared
  <2> QED BY <2>1, <2>2, <2>3, <2>4, <2>5, <2>6, <2>7, <2>8, <2>9, <2>10, <2>11
    DEF Next, Runner, Handlers, Renamer
<1> QED BY <1>1, <1>2, TypeInvariant, LeaseInvariant, PTL
  DEF Spec, ImplementsExclusiveWorkspace, Exclusive!Spec

-----------------------------------------------------------------------------
(* The branch on record. *)

\* Faults after which a rename may not be able to take itself back.
Fallible == Faults \cap {"handler", "lost"} # {}

\* A rename takes itself back or needs not: no fault leaves it half done, and if a
\* command or an answer may be missing it runs alone in a worktree that is ready.
RenameIsWhole ==
  /\ Faults \cap {"crash", "refused", "timeout"} = {}
  /\ Fallible => ~RetriesOverlap /\ ~OutliveLease /\ "unready" \notin Faults

Half == {"save", "undo"}

\* A request in local state l that renames the branch.
RenamerOK(l) ==
  /\ l.pc \in Half \cup {"rename"} => l.expected = ThreadBranch
  /\ l.pc \in Half => thread.branch = ThreadBranch /\ sandbox.branch = NewBranch
  /\ Fallible => /\ l.pc # "undo"
                 /\ l.pc \in {"rename", "save"} =>
                      CanUpdateGeneratedFeatureBranch(ThreadBranch)

\* One rename is between its halves, or none and the two branches agree.
RenameInv ==
  /\ \A r \in Requests : RenamerOK(req[r])
  /\ \A r, s \in Requests :
       NewBranch # ThreadBranch /\ req[r].pc \in Half /\ req[s].pc \in Half => r = s
  /\ BranchAgrees

\* A step of a request that is between no halves, before or after, and that leaves
\* both branches alone.
LEMMA RenameQuiet ==
  ASSUME TypeInv, RenameInv, NEW r \in Requests, NEW l, Become(r, l),
         sandbox'.branch = sandbox.branch, thread'.branch = thread.branch,
         req[r].pc \notin Half, l.pc \notin Half \cup {"rename"},
         \/ UNCHANGED <<thread.commitStatus, thread.pullRequestNumber>>
         \/ Fallible => \A s \in Requests : s # r => req[s].pc \notin {"rename", "save"}
  PROVE  RenameInv'
<1>1. \A s \in Requests : req'[s] = IF s = r THEN l ELSE req[s]
  BY DEF Become, TypeInv, TypeOK
<1>2. ASSUME NEW s \in Requests PROVE RenamerOK(req[s])'
  BY <1>1 DEF RenameInv, RenamerOK, CanUpdateGeneratedFeatureBranch, Half
<1>3. \A s \in Requests : req'[s].pc \in Half => s # r /\ req[s].pc \in Half
  BY <1>1
<1>4. BranchAgrees'
  BY <1>1 DEF RenameInv, BranchAgrees, Half
<1> QED BY <1>2, <1>3, <1>4, <1>1 DEF RenameInv

\* The steps of the rename.
LEMMA RenamerStep ==
  ASSUME TypeInv, RenameInv, RenameIsWhole, Fallible => LeaseInv,
         NEW r \in Requests, Reread(r) \/ Rename(r) \/ SaveBranch(r) \/ UndoRename(r)
  PROVE  RenameInv'
<1> USE DEF At
<1>a. req[r] \in Request /\ sandbox \in Sandbox /\ thread \in ThreadFields
  BY DEF TypeInv, TypeOK, StoreTypeOK
<1>b. ASSUME NEW pc
      PROVE  /\ To(r, pc).pc = pc /\ To(r, pc).expected = req[r].expected
             /\ [req[r] EXCEPT !.pc = pc] = To(r, pc)
  BY <1>a DEF To, Request
<1>c. Faults \cap {"crash", "refused", "timeout"} = {}
  BY DEF RenameIsWhole
<1>d. ASSUME NEW l, Become(r, l)
      PROVE  \A s \in Requests : req'[s] = IF s = r THEN l ELSE req[s]
  BY <1>d DEF Become, TypeInv, TypeOK
\* if a command may fail, nobody else is at a rename
<1>e. ASSUME Fallible, Holds(r), NEW s \in Requests, s # r
      PROVE  req[s].pc \notin {"rename", "save", "undo"}
  <2>1. ~Holds(s)
    BY <1>e, OneHolder
  <2> QED BY <2>1 DEF Holds, RenamePC
<1>1. CASE Reread(r)
  <2>1. PICK pc \in {"rename", "unlock"} :
          /\ Become(r, [req[r] EXCEPT !.pc = pc, !.expected = thread.branch])
          /\ pc = "rename" => CanUpdateGeneratedFeatureBranch(ThreadBranch)
    BY <1>1 DEF Reread
  <2> DEFINE l == [req[r] EXCEPT !.pc = pc, !.expected = thread.branch]
  <2>2. l.pc = pc /\ l.expected = thread.branch
    BY <1>a DEF Request
  <2>3. UNCHANGED <<thread, sandbox>> /\ req[r].pc = "reread"
    BY <1>1 DEF Reread
  <2>4. \A s \in Requests : req'[s] = IF s = r THEN l ELSE req[s]
    BY <1>d, <2>1
  <2> HIDE DEF l
  <2>5. ASSUME NEW s \in Requests PROVE RenamerOK(req[s])'
    BY <2>1, <2>2, <2>3, <2>4
    DEF RenameInv, RenamerOK, CanUpdateGeneratedFeatureBranch, Half
  <2>6. \A s \in Requests : req'[s].pc \in Half <=> req[s].pc \in Half
    BY <2>2, <2>3, <2>4 DEF Half
  <2>7. \A s, t \in Requests :
          NewBranch # ThreadBranch /\ req'[s].pc \in Half /\ req'[t].pc \in Half => s = t
    BY <2>6 DEF RenameInv
  <2>8. BranchAgrees'
    BY <2>3, <2>6 DEF RenameInv, BranchAgrees, Half
  <2> QED BY <2>5, <2>7, <2>8 DEF RenameInv
<1>2. CASE Rename(r)
  <2>0. /\ req[r].pc = "rename" /\ req[r].expected = ThreadBranch
        /\ UNCHANGED thread /\ Holds(r)
    BY <1>2 DEF Rename, RenameInv, RenamerOK, Holds, RenamePC
  <2>1. CASE /\ sandbox.branch = ThreadBranch
             /\ sandbox' = [sandbox EXCEPT !.branch = NewBranch]
             /\ Become(r, To(r, "save"))
    <3>1. sandbox'.branch = NewBranch
      BY <1>a, <2>1 DEF Sandbox
    <3>2. \A s \in Requests : req'[s] = IF s = r THEN To(r, "save") ELSE req[s]
      BY <1>d, <2>1
    <3>3. \A s \in Requests : req[s].pc \in Half => NewBranch = ThreadBranch
      BY <2>1 DEF RenameInv, RenamerOK
    <3>4. thread.branch = ThreadBranch
      <4>1. CASE \E s \in Requests : req[s].pc \in Half
        BY <4>1 DEF RenameInv, RenamerOK
      <4>2. CASE ~\E s \in Requests : req[s].pc \in Half
        BY <2>1, <4>2 DEF RenameInv, BranchAgrees, Half
      <4> QED BY <4>1, <4>2
    <3>5. ASSUME NEW s \in Requests PROVE RenamerOK(req[s])'
      BY <1>b, <2>0, <3>1, <3>2, <3>4
      DEF RenameInv, RenamerOK, CanUpdateGeneratedFeatureBranch, Half
    <3>6. \A s, t \in Requests :
            NewBranch # ThreadBranch /\ req'[s].pc \in Half /\ req'[t].pc \in Half => s = t
      BY <3>2, <3>3
    <3>7. BranchAgrees'
      BY <1>b, <3>2 DEF BranchAgrees
    <3> QED BY <3>5, <3>6, <3>7 DEF RenameInv
  <2>2. CASE UNCHANGED sandbox /\ Become(r, To(r, "unlock"))
    BY <1>b, <2>0, <2>2, RenameQuiet DEF Half
  <2> QED BY <1>2, <1>b, <1>c, <2>0, <2>1, <2>2 DEF Rename, Goto, Inject
<1>3. CASE SaveBranch(r)
  <2>0. /\ req[r].pc = "save" /\ req[r].expected = ThreadBranch
        /\ thread.branch = ThreadBranch /\ sandbox.branch = NewBranch
        /\ UNCHANGED sandbox /\ Holds(r)
        /\ Fallible => CanUpdateGeneratedFeatureBranch(ThreadBranch)
    BY <1>3 DEF SaveBranch, RenameInv, RenamerOK, Holds, RenamePC, Call, Half
  <2>1. ASSUME NEW s \in Requests, s # r, NewBranch # ThreadBranch
        PROVE  req[s].pc \notin Half
    BY <2>0, <2>1 DEF RenameInv, Half
  \* the thread takes the name
  <2>2. CASE /\ CanUpdateGeneratedFeatureBranch(ThreadBranch)
             /\ thread' = [thread EXCEPT !.branch = NewBranch]
             /\ Become(r, To(r, "unlock"))
    <3>1. thread'.branch = NewBranch
      BY <1>a, <2>2 DEF ThreadFields
    <3>2. \A s \in Requests : req'[s] = IF s = r THEN To(r, "unlock") ELSE req[s]
      BY <1>d, <2>2
    <3>3. ASSUME NEW s \in Requests PROVE RenamerOK(req[s])'
      <4>1. CASE s = r
        BY <1>b, <3>2, <4>1 DEF RenamerOK, Half
      <4>2. CASE s # r
        <5>1. /\ req'[s] = req[s] /\ RenamerOK(req[s])
              /\ Fallible => req[s].pc \notin {"rename", "save", "undo"}
              /\ NewBranch # ThreadBranch => req[s].pc \notin Half
          BY <1>e, <2>0, <2>1, <3>2, <4>2 DEF RenameInv
        <5> QED BY <2>0, <3>1, <5>1 DEF RenamerOK, Half
      <4> QED BY <4>1, <4>2
    <3>4. \A s, t \in Requests :
            NewBranch # ThreadBranch /\ req'[s].pc \in Half /\ req'[t].pc \in Half => s = t
      BY <1>b, <2>1, <3>2 DEF Half
    <3>5. BranchAgrees'
      BY <2>0, <3>1 DEF BranchAgrees
    <3> QED BY <3>3, <3>4, <3>5 DEF RenameInv
  \* the thread has moved on, or the worktree is not ready
  <2>3. CASE ~Fallible /\ UNCHANGED thread /\ Become(r, To(r, "undo"))
    <3>1. \A s \in Requests : req'[s] = IF s = r THEN To(r, "undo") ELSE req[s]
      BY <1>d, <2>3
    <3>2. ASSUME NEW s \in Requests PROVE RenamerOK(req[s])'
      BY <1>b, <2>0, <2>3, <3>1 DEF RenameInv, RenamerOK, Half
    <3>3. \A s, t \in Requests :
            NewBranch # ThreadBranch /\ req'[s].pc \in Half /\ req'[t].pc \in Half => s = t
      BY <1>b, <2>0, <3>1 DEF RenameInv, Half
    <3>4. BranchAgrees'
      BY <1>b, <3>1 DEF BranchAgrees
    <3> QED BY <3>2, <3>3, <3>4 DEF RenameInv
  <2>4. ~Fallible => "lost" \notin Faults
    BY DEF Fallible
  <2>5. Fallible => "unready" \notin Faults
    BY DEF RenameIsWhole
  <2>6. CASE Inject("unready") /\ Goto(r, "undo") /\ UNCHANGED thread
    BY <2>3, <2>5, <2>6, <1>b DEF Inject, Goto
  <2>7. CASE Call(r, UpdateGeneratedFeatureBranch(req[r].expected, NewBranch),
                  To(r, IF CanUpdateGeneratedFeatureBranch(req[r].expected)
                        THEN "unlock" ELSE "undo"),
                  To(r, "unlock"))
    <3>1. /\ UpdateGeneratedFeatureBranch(ThreadBranch, NewBranch)
          /\ \/ Become(r, To(r, IF CanUpdateGeneratedFeatureBranch(ThreadBranch)
                                THEN "unlock" ELSE "undo"))
             \/ Fallible /\ Become(r, To(r, "unlock"))
      BY <1>c, <2>0, <2>4, <2>7 DEF Call, Inject
    <3>2. CASE CanUpdateGeneratedFeatureBranch(ThreadBranch)
      BY <2>2, <3>1, <3>2 DEF UpdateGeneratedFeatureBranch
    <3>3. CASE ~CanUpdateGeneratedFeatureBranch(ThreadBranch)
      BY <2>0, <2>3, <3>1, <3>3 DEF UpdateGeneratedFeatureBranch
    <3> QED BY <3>2, <3>3
  <2> QED BY <1>3, <2>6, <2>7 DEF SaveBranch
<1>4. CASE UndoRename(r)
  <2>0. /\ req[r].pc = "undo" /\ req[r].expected = ThreadBranch /\ ~Fallible
        /\ thread.branch = ThreadBranch /\ sandbox.branch = NewBranch
        /\ UNCHANGED thread /\ Become(r, To(r, "unlock"))
    BY <1>4, <1>b DEF UndoRename, RenameInv, RenamerOK, Half, Goto
  <2>1. sandbox'.branch = ThreadBranch
    <3>1. "handler" \notin Faults
      BY <2>0 DEF Fallible
    <3>2. sandbox' = [sandbox EXCEPT !.branch = ThreadBranch]
      BY <1>4, <2>0, <3>1 DEF UndoRename, Inject
    <3> QED BY <1>a, <3>2 DEF Sandbox
  <2>2. \A s \in Requests : req'[s] = IF s = r THEN To(r, "unlock") ELSE req[s]
    BY <1>d, <2>0
  <2>3. ASSUME NEW s \in Requests, s # r, NewBranch # ThreadBranch
        PROVE  req[s].pc \notin Half
    BY <2>0, <2>3 DEF RenameInv, Half
  <2>4. ASSUME NEW s \in Requests PROVE RenamerOK(req[s])'
    <3>1. CASE s = r
      BY <1>b, <2>2, <3>1 DEF RenamerOK, Half
    <3>2. CASE s # r
      <4>1. /\ req'[s] = req[s] /\ RenamerOK(req[s])
            /\ NewBranch # ThreadBranch => req[s].pc \notin Half
        BY <2>2, <2>3, <3>2 DEF RenameInv
      <4> QED BY <2>0, <2>1, <4>1 DEF RenamerOK
    <3> QED BY <3>1, <3>2
  <2>5. \A s, t \in Requests :
          NewBranch # ThreadBranch /\ req'[s].pc \in Half /\ req'[t].pc \in Half => s = t
    BY <1>b, <2>2, <2>3 DEF Half
  <2>6. BranchAgrees'
    BY <2>0, <2>1 DEF BranchAgrees
  <2> QED BY <2>4, <2>5, <2>6 DEF RenameInv
<1> QED BY <1>1, <1>2, <1>3, <1>4

LEMMA RenameInvariant ==
  ASSUME WorkspaceMode = "worktree", RenameIsWhole
  PROVE  Spec => []RenameInv
<1>1. Init => RenameInv
  BY DEF Init, StoreInit, InitialBranch, RenameInv, RenamerOK, Half, BranchAgrees,
         IdleRequest
<1>2. TypeInv /\ TypeInv' /\ (Fallible => LeaseInv) /\ RenameInv /\ [Next]_vars
      => RenameInv'
  <2> SUFFICES ASSUME TypeInv, TypeInv', Fallible => LeaseInv, RenameInv, [Next]_vars
               PROVE  RenameInv'
    OBVIOUS
  <2> USE DEF At
  <2>a. /\ \A r \in Requests : req[r] \in Request
        /\ sandbox \in Sandbox /\ thread \in ThreadFields
    BY DEF TypeInv, TypeOK, StoreTypeOK
  <2> DEFINE Elsewhere == {"idle", "begin", "precheck", "prefail", "start", "handle", "mark",
                           "prContext", "prCreating", "prFind", "prCreate", "prCreated",
                           "complete", "finish", "fail", "prFailed", "release",
                           "lock", "reread", "unlock"}
  <2>b. ASSUME NEW r \in Requests, NEW l, Become(r, l), l.pc \in Elsewhere,
               req[r].pc \in Elsewhere, UNCHANGED sandbox.branch,
               \/ UNCHANGED thread
               \/ \E status : MarkPullRequest(status) /\ status # "created"
               \/ /\ Holds(r)
                  /\ \/ \E status : MarkPullRequest(status)
                     \/ \E status, branch, sha : MarkChangesCommitted(status, branch, sha)
        PROVE  RenameInv'
    <3>1. thread'.branch = thread.branch
      BY <2>a, <2>b DEF MarkPullRequest, MarkChangesCommitted, ThreadFields
    <3>2. \/ UNCHANGED <<thread.commitStatus, thread.pullRequestNumber>>
          \/ Holds(r)
      BY <2>a, <2>b DEF MarkPullRequest, ThreadFields
    <3>3. ASSUME Holds(r), Fallible
          PROVE  \A s \in Requests : s # r => req[s].pc \notin {"rename", "save"}
      BY <3>3, OneHolder DEF Holds, RenamePC
    <3>4. req[r].pc \notin Half /\ l.pc \notin Half \cup {"rename"}
      BY <2>b DEF Half
    <3> QED BY <2>b, <3>1, <3>2, <3>3, <3>4, RenameQuiet
  <2>c. ASSUME NEW r \in Requests, NEW pc
        PROVE  To(r, pc).pc = pc /\ [req[r] EXCEPT !.pc = pc] = To(r, pc)
    BY <2>a DEF To, Request
  <2>d. /\ IdleRequest.pc \in Elsewhere
        /\ \A l \in Request : NextIteration(l).pc \in Elsewhere
    BY DEF IdleRequest, NextIteration, Request
  <2>1. ASSUME NEW r \in Requests,
               \/ Begin(r) \/ OnPhaseStart(r) \/ FailBeforeExecution(r)
               \/ OnPhaseFailure(r) \/ Finish(r) \/ ReleaseOperationLease(r)
               \/ Lock(r) \/ Unlock(r)
        PROVE  RenameInv'
    <3>1. Resume(r).pc \in Elsewhere
      BY <2>a DEF Resume, Request
    <3>2. \E l : Become(r, l) /\ l.pc \in Elsewhere
      BY <2>1, <2>c, <2>d, <3>1
      DEF Begin, OnPhaseStart, FailBeforeExecution, OnPhaseFailure, Finish,
          ReleaseOperationLease, Lock, Unlock, Call
    <3>3. UNCHANGED <<sandbox, thread>> /\ req[r].pc \in Elsewhere
      BY <2>1
      DEF Begin, OnPhaseStart, FailBeforeExecution, OnPhaseFailure, Finish,
          ReleaseOperationLease, Lock, Unlock, Call, storeVars, BeginGitOperation,
          StartGitOperationPhase, FailGitOperation, CompleteGitOperation,
          ReleaseGitOperationLease, BeginGitMutation, EndGitMutation
    <3> QED BY <2>b, <3>2, <3>3
  <2>2. ASSUME NEW r \in Requests, Precheck(r) PROVE RenameInv'
    <3> DEFINE e == IF WorkspaceMode = "checkout" THEN sandbox.branch ELSE req[r].expected
               k == [req[r] EXCEPT !.expected = e]
    <3>1. k \in Request
      <4>1. e \in Branches \cup {None}
        BY <2>a DEF Request, Sandbox
      <4> HIDE DEF e
      <4> QED BY <2>a, <4>1 DEF Request
    <3>2. ASSUME NEW p
          PROVE  [req[r] EXCEPT !.pc = "prefail", !.phase = p].pc \in Elsewhere
      BY <2>a DEF Request
    <3>3. Become(r, NextIteration(k))
          \/ \E p : Become(r, [req[r] EXCEPT !.pc = "prefail", !.phase = p])
      BY <2>2 DEF Precheck
    <3> HIDE DEF k
    <3>4. \E l : Become(r, l) /\ l.pc \in Elsewhere
      BY <2>d, <3>1, <3>2, <3>3
    <3>5. UNCHANGED <<sandbox, thread>> /\ req[r].pc \in Elsewhere
      BY <2>2 DEF Precheck
    <3> QED BY <2>b, <3>4, <3>5
  <2>3. ASSUME NEW r \in Requests, OnPhaseComplete(r) PROVE RenameInv'
    <3> DEFINE k == [req[r] EXCEPT !.done = @ \cup {req[r].phase}]
    <3>1. k \in Request
      <4>1. req[r].phase \in Phase
        BY <2>3 DEF OnPhaseComplete, TypeInv, LocalOK, KnowsBranch, RenamePC
      <4> QED BY <2>a, <4>1 DEF Request
    <3>2. \E l : Become(r, l) /\ l.pc \in Elsewhere
      <4>1. Become(r, NextIteration(k)) \/ Become(r, To(r, "fail"))
        BY <2>3 DEF OnPhaseComplete, Call
      <4> HIDE DEF k
      <4> QED BY <2>c, <2>d, <3>1, <4>1
    <3>3. UNCHANGED <<sandbox, thread>> /\ req[r].pc \in Elsewhere
      BY <2>3 DEF OnPhaseComplete, Call, storeVars, CompleteGitOperationPhase
    <3> QED BY <2>b, <3>2, <3>3
  <2>4. ASSUME NEW r \in Requests, Handlers(r), UNCHANGED <<sandbox.branch, thread>>
        PROVE  RenameInv'
    <3>1. req[r].pc \in Elsewhere
      BY <2>4 DEF Handlers, HandlerFails, ValidatePhase, PullRequestContext,
         FindPullRequest, BranchPhase, CommitPhase, PushPhase, CreatePullRequest,
         MarkCommitted, MarkPullRequestCreating, MarkPullRequestCreated, InPhase
    <3>2. \E l : Become(r, l) /\ l.pc \in Elsewhere
      <4>a. \A pc \in {"complete", "fail", "prCreating", "prFind", "prCreate", "prCreated"} :
              To(r, pc).pc \in Elsewhere /\ [req[r] EXCEPT !.pc = pc] = To(r, pc)
        BY <2>c
      <4>1. CASE HandlerFails(r) \/ ValidatePhase(r) \/ PullRequestContext(r)
                 \/ FindPullRequest(r) \/ CreatePullRequest(r)
        BY <4>1, <4>a DEF HandlerFails, ValidatePhase, PullRequestContext,
           FindPullRequest, CreatePullRequest, Goto
      <4>2. CASE MarkCommitted(r) \/ MarkPullRequestCreating(r)
        BY <4>2, <4>a DEF MarkCommitted, MarkPullRequestCreating, Call
      <4>3. CASE MarkPullRequestCreated(r)
        <5>1. [req[r] EXCEPT !.pc = "complete", !.checkpoint.pullRequest = TRUE].pc
                \in Elsewhere
          BY <2>a DEF Request
        <5> QED BY <4>3, <4>a, <5>1 DEF MarkPullRequestCreated, Call
      <4>4. CASE BranchPhase(r)
        <5>1. ASSUME NEW b
              PROVE  [req[r] EXCEPT !.pc = "complete", !.checkpoint.branch = b].pc
                       \in Elsewhere
          BY <2>a DEF Request
        <5>2. \/ Become(r, To(r, "fail"))
              \/ \E b : Become(r, [req[r] EXCEPT !.pc = "complete", !.checkpoint.branch = b])
          BY <4>4, <4>a DEF BranchPhase, Answers, Goto
        <5> QED BY <4>a, <5>1, <5>2
      <4>5. CASE CommitPhase(r)
        <5> DEFINE h == IF sandbox.dirty THEN sandbox.head + 1 ELSE sandbox.head
                   l == [req[r] EXCEPT !.pc = "mark", !.checkpoint.branch = WorkBranch(r),
                                       !.checkpoint.commitSha = h]
        <5>1. Become(r, To(r, "fail")) \/ Become(r, l)
          BY <4>5, <4>a DEF CommitPhase, Answers, Goto
        <5>2. l.pc \in Elsewhere
          <6> HIDE DEF h
          <6> QED BY <2>a DEF Request
        <5> HIDE DEF l
        <5> QED BY <4>a, <5>1, <5>2
      <4>6. CASE PushPhase(r)
        <5>1. [req[r] EXCEPT !.pc = "mark", !.checkpoint.commitSha = sandbox.head].pc
                \in Elsewhere
          BY <2>a DEF Request
        <5>2. \/ Become(r, To(r, "fail"))
              \/ Become(r, [req[r] EXCEPT !.pc = "mark",
                                          !.checkpoint.commitSha = sandbox.head])
          BY <4>6, <4>a DEF PushPhase, Answers, Goto
        <5> QED BY <4>a, <5>1, <5>2
      <4> QED BY <2>4, <4>1, <4>2, <4>3, <4>4, <4>5, <4>6 DEF Handlers
    <3> QED BY <2>b, <2>4, <3>1, <3>2
  <2>5. ASSUME NEW r \in Requests,
               \/ HandlerFails(r) \/ ValidatePhase(r) \/ PullRequestContext(r)
               \/ FindPullRequest(r) \/ CreatePullRequest(r) \/ PushPhase(r)
               \/ BranchPhase(r) \/ CommitPhase(r)
        PROVE  RenameInv'
    <3>1. UNCHANGED <<sandbox.branch, thread>>
      BY <2>5, <2>a DEF HandlerFails, ValidatePhase, PullRequestContext,
         FindPullRequest, CreatePullRequest, PushPhase, BranchPhase, CommitPhase, Sandbox
    <3> QED BY <2>4, <2>5, <3>1 DEF Handlers
  <2>6. ASSUME NEW r \in Requests,
               \/ MarkCommitted(r) \/ MarkPullRequestCreating(r)
               \/ MarkPullRequestCreated(r) \/ MarkPullRequestFailed(r)
        PROVE  RenameInv'
    <3>1. UNCHANGED sandbox /\ req[r].pc \in Elsewhere
      BY <2>6 DEF MarkCommitted, MarkPullRequestCreating, MarkPullRequestCreated,
         MarkPullRequestFailed, Call
    <3>2. \/ UNCHANGED thread
          \/ \E status : MarkPullRequest(status) /\ status # "created"
          \/ /\ Holds(r)
             /\ \/ \E status : MarkPullRequest(status)
                \/ \E status, branch, sha : MarkChangesCommitted(status, branch, sha)
      BY <2>6 DEF MarkCommitted, MarkPullRequestCreating, MarkPullRequestCreated,
         MarkPullRequestFailed, Call, storeVars, Holds, WorkflowPC
    <3>3. \E l : Become(r, l) /\ l.pc \in Elsewhere
      <4>1. [req[r] EXCEPT !.pc = "complete", !.checkpoint.pullRequest = TRUE].pc
              \in Elsewhere
        BY <2>a DEF Request
      <4>2. \A pc \in {"complete", "fail", "prFind", "release"} : To(r, pc).pc \in Elsewhere
        BY <2>c
      <4> QED BY <2>6, <4>1, <4>2 DEF MarkCommitted, MarkPullRequestCreating,
           MarkPullRequestCreated, MarkPullRequestFailed, Call
    <3> QED BY <2>b, <3>1, <3>2, <3>3
  <2>7. ASSUME NEW r \in Requests,
               SubmitRename(r) \/ \E o \in OpIds, a \in Actions : Submit(r, o, a)
        PROVE  RenameInv'
    <3>1. UNCHANGED <<sandbox, thread>> /\ req[r].pc \in Elsewhere
      BY <2>7 DEF SubmitRename, Submit
    <3>2. \E l : Become(r, l) /\ l.pc \in Elsewhere
      <4>1. CASE SubmitRename(r)
        <5>1. [IdleRequest EXCEPT !.pc = "lock"].pc \in Elsewhere
          BY DEF IdleRequest
        <5> QED BY <4>1, <5>1 DEF SubmitRename
      <4>2. ASSUME NEW o \in OpIds, NEW a \in Actions, Submit(r, o, a)
            PROVE  \E l : Become(r, l) /\ l.pc \in Elsewhere
        <5>1. [IdleRequest EXCEPT !.pc = "begin", !.op = o, !.action = a,
                 !.expected = thread.branch, !.prSeen = thread.pullRequestNumber].pc
                \in Elsewhere
          BY DEF IdleRequest
        <5> QED BY <4>2, <5>1 DEF Submit
      <4> QED BY <2>7, <4>1, <4>2
    <3> QED BY <2>b, <3>1, <3>2
  <2>8. ASSUME NEW r \in Requests, Crash(r) PROVE RenameInv'
    BY <2>8 DEF Crash, Inject, RenameIsWhole
  <2>9. CASE ExpireLease \/ EditWorkspace \/ UNCHANGED vars
    <3>1. UNCHANGED <<req, thread, sandbox.branch>>
      BY <2>9, <2>a DEF ExpireLease, EditWorkspace, vars, Sandbox
    <3> QED BY <3>1 DEF RenameInv, RenamerOK, BranchAgrees, CanUpdateGeneratedFeatureBranch
  <2> HIDE DEF Elsewhere
  <2> QED BY <2>1, <2>2, <2>3, <2>5, <2>6, <2>7, <2>8, <2>9, RenamerStep
    DEF Next, Runner, Handlers, Renamer
<1>3. CASE Fallible
  <2>1. ~RetriesOverlap /\ ~OutliveLease
    BY <1>3 DEF RenameIsWhole
  <2>2. TypeInv /\ TypeInv' /\ LeaseInv /\ RenameInv /\ [Next]_vars => RenameInv'
    BY <1>2
  <2>3. Spec => []LeaseInv
    BY <2>1, LeaseInvariant
  <2> QED BY <1>1, <2>2, <2>3, TypeInvariant, PTL DEF Spec
<1>4. CASE ~Fallible
  <2>1. TypeInv /\ TypeInv' /\ RenameInv /\ [Next]_vars => RenameInv'
    BY <1>2, <1>4
  <2> QED BY <1>1, <2>1, TypeInvariant, PTL DEF Spec
<1> QED BY <1>3, <1>4

\* The branch the thread names is the branch its worktree is on, but between the two
\* halves of a rename: a rename that is refused by the compare-and-set takes itself
\* back, also when it outlived its lease and others renamed and committed meanwhile.
THEOREM BranchAgreesHolds ==
  ASSUME WorkspaceMode = "worktree", RenameIsWhole
  PROVE  Spec => []BranchAgrees
<1>1. RenameInv => BranchAgrees
  BY DEF RenameInv
<1> QED BY <1>1, RenameInvariant, PTL
-----------------------------------------------------------------------------
(***************************************************************************)
(* The record of an operation and what it delivers *)
(***************************************************************************)
-----------------------------------------------------------------------------
(* A request and its record.  The runner reads the record once and works   *)
(* on with the copy: what it then decides is right because the copy and    *)
(* the record go on in step.                                               *)

LoopPC == WorkflowPC \ {"begin", "precheck", "prefail", "fail", "prFailed", "release"}
RunnerPC == LoopPC \cup {"precheck", "prefail", "fail"}
PhasePC == LoopPC \ {"finish"}

\* A checkpoint that goes on from another.
Extends(new, old) ==
  /\ new.branch = None => old.branch = None
  /\ new.commitSha = 0 => old.commitSha = 0
  /\ old.pullRequest => new.pullRequest

\* A request in local state l that runs the operation recorded as O, when the
\* workspace branch has `head' commits.
RunnerOK(l, O, head) ==
  /\ l.pc \in RunnerPC => l.checkpoint.commitSha <= head
  /\ l.pc \in RunnerPC => O.status = "running" /\ O.action = l.action
  /\ l.pc \in LoopPC \cup {"precheck"} => l.done = Completed(O.results)
  /\ l.pc \in {"precheck", "start", "finish"} => l.checkpoint = O.checkpoint
  /\ l.pc \in LoopPC => Extends(l.checkpoint, O.checkpoint)
  /\ l.pc \in PhasePC \cup {"fail"} =>
       l.phase \in Phase /\ l.phase = NextPhase(l.action, l.done)
  /\ l.pc = "prefail" => l.phase \in {"branch", "validate"}
  /\ l.pc = "finish" => Remaining(l.action, l.done) = {}
  /\ l.pc = "fail" => Completed(O.results) \subseteq l.done \cup {l.phase}

\* A record, when the workspace branch has `head' commits.
RecordOK(O, head) ==
  /\ O.checkpoint.commitSha <= head
  /\ O.status = "succeeded" => ActionPhases(O.action) \subseteq Completed(O.results)

RecordInv ==
  /\ \A o \in OpIds : RecordOK(ops[o], sandbox.head)
  /\ \A r \in Requests :
       req[r].pc \in RunnerPC => RunnerOK(req[r], ops[req[r].op], sandbox.head)

-----------------------------------------------------------------------------
LEMMA RunnerHasOperation ==
  ASSUME TypeInv, NEW r \in Requests, req[r].pc \in WorkflowPC
  PROVE  /\ req[r].op \in OpIds /\ req[r].op # None
         /\ ops[req[r].op] \in Operation
BY StoreAssumption DEF TypeInv, TypeOK, LocalOK, StoreTypeOK

\* A step of one request that changes no record, or its own.
LEMMA RecordStep ==
  ASSUME TypeInv, OneRunner, RecordInv,
         NEW r \in Requests, NEW l, Become(r, l),
         sandbox'.head \in Nat, sandbox.head <= sandbox'.head,
         l.pc \in RunnerPC => l.op = req[r].op /\ RunnerOK(l, ops'[req[r].op], sandbox'.head),
         \/ UNCHANGED ops
         \/ /\ req[r].pc \in WorkflowPC
            /\ RecordOK(ops'[req[r].op], sandbox'.head)
            /\ \A o \in OpIds : o # req[r].op => ops'[o] = ops[o]
  PROVE  RecordInv'
<1>1. /\ \A s \in Requests : req'[s] = IF s = r THEN l ELSE req[s]
      /\ sandbox.head \in Nat
      /\ \A o \in OpIds : ops[o] \in Operation
  BY DEF Become, TypeInv, TypeOK, Sandbox, StoreTypeOK, CommitSha
<1>2. \A o \in OpIds : RecordOK(ops[o], sandbox'.head)
  <2> SUFFICES ASSUME NEW o \in OpIds PROVE RecordOK(ops[o], sandbox'.head)
    OBVIOUS
  <2>1. ops[o].checkpoint.commitSha \in Nat
    BY <1>1 DEF Operation, Checkpoint, CommitSha
  <2> QED BY <1>1, <2>1 DEF RecordInv, RecordOK
<1>3. \A o \in OpIds : RecordOK(ops'[o], sandbox'.head)
  BY <1>2
<1>4. ASSUME NEW s \in Requests, s # r, req[s].pc \in RunnerPC
      PROVE  ops'[req[s].op] = ops[req[s].op]
  <2>1. req[s].pc \in WorkflowPC
    BY <1>4 DEF RunnerPC, LoopPC, WorkflowPC
  <2>2. req[s].op \in OpIds /\ req[s].op # None
    BY <2>1, RunnerHasOperation
  <2>3. req[r].op # req[s].op
    BY <1>4, <2>2 DEF OneRunner
  <2> QED BY <2>2, <2>3
<1>5. ASSUME NEW s \in Requests, req'[s].pc \in RunnerPC
      PROVE  RunnerOK(req'[s], ops'[req'[s].op], sandbox'.head)
  <2>1. CASE s = r
    BY <1>1, <1>5, <2>1
  <2>2. CASE s # r
    <3>1. RunnerOK(req[s], ops[req[s].op], sandbox.head)
      BY <1>1, <1>5, <2>2 DEF RecordInv
    <3>2. req[s].checkpoint.commitSha \in Nat
      BY DEF TypeInv, TypeOK, Request, Checkpoint, CommitSha
    <3> QED BY <1>1, <1>4, <1>5, <2>2, <3>1, <3>2 DEF RunnerOK
  <2> QED BY <2>1, <2>2
<1> QED BY <1>3, <1>5 DEF RecordInv

\* A request that stops relying on its record.
LEMMA Leaves ==
  ASSUME TypeInv, OneRunner, RecordInv, NEW r \in Requests, NEW l, Become(r, l),
         l.pc \notin RunnerPC, UNCHANGED <<ops, sandbox>>
  PROVE  RecordInv'
BY RecordStep DEF TypeInv, TypeOK, Sandbox, CommitSha

LEMMA ToKeeps ==
  ASSUME TypeInv, NEW r \in Requests, NEW pc
  PROVE  /\ To(r, pc).pc = pc
         /\ To(r, pc).op = req[r].op
         /\ To(r, pc).action = req[r].action
         /\ To(r, pc).done = req[r].done
         /\ To(r, pc).phase = req[r].phase
         /\ To(r, pc).checkpoint = req[r].checkpoint
BY DEF TypeInv, TypeOK, To, Request

\* A request that works on in its phase, or gives it up.
LEMMA MovesOn ==
  ASSUME TypeInv, OneRunner, RecordInv, NEW r \in Requests, NEW l, Become(r, l),
         req[r].pc \in PhasePC,
         l.pc \in (PhasePC \ {"start"}) \cup {"fail"},
         l.op = req[r].op, l.action = req[r].action, l.done = req[r].done,
         l.phase = req[r].phase,
         l.pc # "fail" => Extends(l.checkpoint, ops[req[r].op].checkpoint),
         l.checkpoint.commitSha <= sandbox'.head,
         UNCHANGED ops, sandbox'.head \in Nat, sandbox.head <= sandbox'.head
  PROVE  RecordInv'
<1>1. RunnerOK(req[r], ops[req[r].op], sandbox.head)
  BY DEF RecordInv, PhasePC, LoopPC, RunnerPC
<1>2. RunnerOK(l, ops[req[r].op], sandbox'.head)
  BY <1>1 DEF RunnerOK, PhasePC, LoopPC, RunnerPC, WorkflowPC
<1> QED BY <1>2, RecordStep

LEMMA MovesTo ==
  ASSUME TypeInv, OneRunner, RecordInv, NEW r \in Requests, NEW pc,
         Become(r, To(r, pc)), req[r].pc \in PhasePC,
         pc \in (PhasePC \ {"start"}) \cup {"fail"},
         UNCHANGED ops, sandbox'.head \in Nat, sandbox.head <= sandbox'.head
  PROVE  RecordInv'
<1>1. RunnerOK(req[r], ops[req[r].op], sandbox.head)
  BY DEF RecordInv, PhasePC, LoopPC, RunnerPC
<1>2. Extends(req[r].checkpoint, ops[req[r].op].checkpoint)
  BY <1>1 DEF RunnerOK, PhasePC
<1>3. req[r].checkpoint.commitSha <= sandbox'.head
  <2>1. req[r].checkpoint.commitSha \in Nat /\ sandbox.head \in Nat
    BY DEF TypeInv, TypeOK, Request, Checkpoint, Sandbox, CommitSha
  <2> QED BY <1>1, <2>1 DEF RunnerOK, PhasePC, LoopPC, RunnerPC
<1> QED BY <1>2, <1>3, MovesOn, ToKeeps

\* The loop goes on with the phase that comes next, or finishes.
LEMMA NextIterationKnows ==
  ASSUME NEW l \in Request, NEW O \in Operation, NEW head,
         RecordOK(O, head),
         O.status = "running", O.action = l.action,
         l.done = Completed(O.results), l.checkpoint = O.checkpoint
  PROVE  /\ NextIteration(l).pc \in {"start", "finish"}
         /\ NextIteration(l).op = l.op
         /\ RunnerOK(NextIteration(l), O, head)
<1>1. NextPhase(l.action, l.done) \in Phase \cup {NoPhase}
  BY NextPhaseType
<1>2. NextPhase(l.action, l.done) = NoPhase => Remaining(l.action, l.done) = {}
  BY NextPhaseRemains DEF Remaining, ActionPhases, NoPhase
<1>3. /\ NextIteration(l).pc = IF NextPhase(l.action, l.done) = NoPhase
                               THEN "finish" ELSE "start"
      /\ NextIteration(l).phase = NextPhase(l.action, l.done)
      /\ NextIteration(l).op = l.op
      /\ NextIteration(l).action = l.action
      /\ NextIteration(l).done = l.done
      /\ NextIteration(l).checkpoint = l.checkpoint
  BY DEF NextIteration, Request
<1>4. Extends(l.checkpoint, O.checkpoint) /\ O.checkpoint.commitSha <= head
  BY DEF Extends, RecordOK
<1> QED BY <1>1, <1>2, <1>3, <1>4 DEF RunnerOK, RunnerPC, PhasePC, LoopPC, WorkflowPC

-----------------------------------------------------------------------------
(* What the mutations write. *)

\* The records of other operations are left alone.
Only(o) == \A q \in OpIds : q # o => ops'[q] = ops[q]

LEMMA BeginWrites ==
  ASSUME TypeInv, NEW o \in OpIds, NEW a, BeginGitOperation(o, a)
  PROVE  /\ Only(o)
         /\ ops'[o].status = "running" /\ ops'[o].action = a
         /\ ops'[o].results = ops[o].results
         /\ ops'[o].checkpoint = ops[o].checkpoint
         /\ ops[o].status # "succeeded"
         /\ ops[o].status # "absent" => ops[o].action = a
BY DEF TypeInv, TypeOK, StoreTypeOK, Operation, BeginGitOperation, Only,
       BeginRefuses, OperationIdConflict

LEMMA StartWrites ==
  ASSUME TypeInv, NEW o \in OpIds, NEW p \in Phase, StartGitOperationPhase(o, p)
  PROVE  /\ Only(o)
         /\ ops'[o].status = "running" /\ ops'[o].action = ops[o].action
         /\ Completed(ops'[o].results) = Completed(ops[o].results) \ {p}
         /\ ops'[o].checkpoint = ops[o].checkpoint
<1>1. ops \in [OpIds -> Operation]
  BY DEF TypeInv, TypeOK, StoreTypeOK
<1>2. ops'[o].results = [ops[o].results EXCEPT ![p] = "running"]
  BY <1>1 DEF StartGitOperationPhase, Operation
<1>3. ops[o].results \in [Phase -> PhaseStatus]
  BY <1>1 DEF Operation
<1>4. Completed(ops'[o].results) = Completed(ops[o].results) \ {p}
  BY <1>2, <1>3 DEF Completed
<1> QED BY <1>1, <1>4 DEF StartGitOperationPhase, Operation, Only

LEMMA CompleteWrites ==
  ASSUME TypeInv, NEW o \in OpIds, NEW p \in Phase, NEW c,
         CompleteGitOperationPhase(o, p, c)
  PROVE  /\ Only(o)
         /\ ops'[o].status = ops[o].status /\ ops'[o].action = ops[o].action
         /\ Completed(ops'[o].results) = Completed(ops[o].results) \cup {p}
         /\ ops'[o].checkpoint = MergeCheckpoint(ops[o].checkpoint, c)
<1>1. ops \in [OpIds -> Operation]
  BY DEF TypeInv, TypeOK, StoreTypeOK
<1>2. ops'[o].results = [ops[o].results EXCEPT ![p] = "done"]
  BY <1>1 DEF CompleteGitOperationPhase, Operation
<1>3. ops[o].results \in [Phase -> PhaseStatus]
  BY <1>1 DEF Operation
<1>4. Completed(ops'[o].results) = Completed(ops[o].results) \cup {p}
  BY <1>2, <1>3 DEF Completed
<1> QED BY <1>1, <1>4 DEF CompleteGitOperationPhase, Operation, Only

LEMMA FailWrites ==
  ASSUME TypeInv, NEW o \in OpIds, NEW p \in Phase, FailGitOperation(o, p)
  PROVE  /\ Only(o)
         /\ ops'[o].status = "failed" /\ ops'[o].action = ops[o].action
         /\ Completed(ops'[o].results) = Completed(ops[o].results) \ {p}
         /\ ops'[o].checkpoint = ops[o].checkpoint
<1>1. ops \in [OpIds -> Operation]
  BY DEF TypeInv, TypeOK, StoreTypeOK
<1>2. ops'[o].results = [ops[o].results EXCEPT ![p] = "failed"]
  BY <1>1 DEF FailGitOperation, Operation
<1>3. ops[o].results \in [Phase -> PhaseStatus]
  BY <1>1 DEF Operation
<1>4. Completed(ops'[o].results) = Completed(ops[o].results) \ {p}
  BY <1>2, <1>3 DEF Completed
<1> QED BY <1>1, <1>4 DEF FailGitOperation, Operation, Only

LEMMA FinishWrites ==
  ASSUME TypeInv, NEW o \in OpIds, CompleteGitOperation(o)
  PROVE  /\ Only(o)
         /\ ops'[o].status = "succeeded" /\ ops'[o].action = ops[o].action
         /\ ops'[o].results = ops[o].results
         /\ ops'[o].checkpoint = ops[o].checkpoint
BY DEF TypeInv, TypeOK, StoreTypeOK, Operation, CompleteGitOperation, Only

\* A checkpoint that goes on from the recorded one replaces it.
LEMMA MergeExtends ==
  ASSUME NEW old \in Checkpoint, NEW new \in Checkpoint, Extends(new, old)
  PROVE  MergeCheckpoint(old, new) = new
BY DEF Checkpoint, MergeCheckpoint, Extends

-----------------------------------------------------------------------------
LEMMA RecordInvariant ==
  ASSUME ~RetriesOverlap, ~OutliveLease
  PROVE  Spec => []RecordInv
<1>1. Init => RecordInv
  BY DEF Init, StoreInit, NoOperation, NoCheckpoint, IdleRequest, RecordInv,
         RecordOK, RunnerPC, LoopPC, WorkflowPC
<1>2. TypeInv /\ TypeInv' /\ LeaseInv /\ RecordInv /\ [Next]_vars => RecordInv'
  <2> SUFFICES ASSUME TypeInv, TypeInv', LeaseInv, RecordInv, [Next]_vars
               PROVE  RecordInv'
    OBVIOUS
  <2> USE DEF At
  <2>a. /\ OneRunner
        /\ sandbox.head \in Nat /\ sandbox'.head \in Nat
        /\ \A r \in Requests : req[r] \in Request
    BY DEF LeaseInv, TypeInv, TypeOK, Sandbox, CommitSha
  <2>b. ASSUME NEW r \in Requests, NEW pc, Become(r, To(r, pc)), pc \notin RunnerPC,
               UNCHANGED <<ops, sandbox>>
        PROVE  RecordInv'
    BY <2>a, <2>b, ToKeeps, Leaves
  <2>c. ASSUME NEW r \in Requests, req[r].pc \in RunnerPC
        PROVE  /\ req[r].op \in OpIds /\ ops[req[r].op] \in Operation
               /\ RunnerOK(req[r], ops[req[r].op], sandbox.head)
               /\ RecordOK(ops[req[r].op], sandbox.head)
               /\ req[r].pc \in WorkflowPC
    <3>1. req[r].pc \in WorkflowPC
      BY <2>c DEF RunnerPC, LoopPC, WorkflowPC
    <3> QED BY <2>c, <3>1, RunnerHasOperation DEF RecordInv
  <2>d. ASSUME NEW r \in Requests, Become(r, IdleRequest), UNCHANGED <<ops, sandbox>>
        PROVE  RecordInv'
    BY <2>a, <2>d, Leaves DEF IdleRequest, RunnerPC, LoopPC, WorkflowPC
  <2>1. ASSUME NEW r \in Requests, Begin(r) PROVE RecordInv'
    <3> DEFINE o == req[r].op
               a == req[r].action
    <3>1. req[r].pc \in WorkflowPC /\ o \in OpIds /\ ops[o] \in Operation
      BY <2>1, RunnerHasOperation DEF Begin, WorkflowPC
    <3>2. CASE Become(r, IdleRequest) /\ UNCHANGED <<ops, sandbox>>
      BY <2>d, <3>2
    <3>3. CASE BeginGitOperation(o, a) /\ UNCHANGED sandbox
      <4>1. RecordOK(ops'[o], sandbox.head) /\ Only(o)
        BY <3>1, <3>3, BeginWrites DEF RecordInv, RecordOK
      <4>2. CASE Become(r, IdleRequest)
        BY <2>a, <3>1, <3>3, <4>1, <4>2, RecordStep
        DEF Only, IdleRequest, RunnerPC, LoopPC, WorkflowPC
      <4>3. CASE Become(r, Resume(r))
        <5>1. /\ Resume(r).pc = "precheck" /\ Resume(r).op = o
              /\ Resume(r).action = a
              /\ Resume(r).done = Completed(ops[o].results)
              /\ Resume(r).checkpoint = ops[o].checkpoint
          BY <2>a DEF Resume, Request
        <5>2. RunnerOK(Resume(r), ops'[o], sandbox.head)
          BY <3>1, <3>3, <4>1, <5>1, BeginWrites
          DEF RunnerOK, RecordOK, RunnerPC, PhasePC, LoopPC, WorkflowPC
        <5> QED BY <2>a, <3>1, <3>3, <4>1, <4>3, <5>1, <5>2, RecordStep DEF Only
      <4> QED BY <2>1, <3>3, <4>2, <4>3 DEF Begin, Call, IdleRequest, storeVars,
           BeginGitOperation, BeginRefuses
    <3> QED BY <2>1, <3>2, <3>3 DEF Begin, Call, storeVars
  <2>e. ASSUME NEW r \in Requests, req[r].pc \in {"prefail", "fail"},
               UNCHANGED ops \/ FailGitOperation(req[r].op, req[r].phase),
               UNCHANGED sandbox,
               NEW pc, Become(r, To(r, pc)), pc \notin RunnerPC
        PROVE  RecordInv'
    <3>1. req[r].pc \in RunnerPC
      BY <2>e DEF RunnerPC
    <3>2. req[r].phase \in Phase
      BY <2>c, <2>e, <3>1 DEF RunnerOK, PhasePC, Phase
    <3>3. CASE UNCHANGED ops
      BY <2>b, <2>e, <3>3
    <3>4. CASE FailGitOperation(req[r].op, req[r].phase)
      <4>1. RecordOK(ops'[req[r].op], sandbox'.head) /\ Only(req[r].op)
        BY <2>c, <2>e, <3>1, <3>2, <3>4, FailWrites DEF RecordOK
      <4> QED BY <2>a, <2>c, <2>e, <3>1, <4>1, ToKeeps, RecordStep DEF Only
    <3> QED BY <2>e, <3>3, <3>4
  <2>2. ASSUME NEW r \in Requests, FailBeforeExecution(r) PROVE RecordInv'
    BY <2>2, <2>e DEF FailBeforeExecution, Call, storeVars, RunnerPC, LoopPC
  <2>3. ASSUME NEW r \in Requests, OnPhaseFailure(r) PROVE RecordInv'
    BY <2>3, <2>e DEF OnPhaseFailure, Call, storeVars, RunnerPC, LoopPC
  <2>4. ASSUME NEW r \in Requests, MarkPullRequestFailed(r) PROVE RecordInv'
    BY <2>4, <2>b DEF MarkPullRequestFailed, MarkPullRequest, Call, storeVars,
                      RunnerPC, LoopPC
  <2>5. ASSUME NEW r \in Requests, ReleaseOperationLease(r) PROVE RecordInv'
    BY <2>5, <2>d DEF ReleaseOperationLease, ReleaseGitOperationLease, Call, storeVars
  <2>6. ASSUME NEW r \in Requests, Finish(r) PROVE RecordInv'
    <3> DEFINE o == req[r].op
    <3>1. /\ req[r].pc = "finish" /\ req[r].pc \in RunnerPC
          /\ UNCHANGED sandbox
          /\ Become(r, IdleRequest) \/ Become(r, To(r, "release"))
          /\ UNCHANGED ops \/ CompleteGitOperation(o)
      BY <2>6 DEF Finish, Call, storeVars, RunnerPC, LoopPC, WorkflowPC
    <3>2. CASE UNCHANGED ops
      BY <2>b, <2>d, <3>1, <3>2 DEF RunnerPC, LoopPC
    <3>3. CASE CompleteGitOperation(o)
      <4>1. ActionPhases(ops[o].action) \subseteq Completed(ops[o].results)
        BY <2>c, <3>1 DEF RunnerOK, Remaining, LoopPC, WorkflowPC
      <4>2. RecordOK(ops'[o], sandbox'.head) /\ Only(o)
        BY <2>c, <3>1, <3>3, <4>1, FinishWrites DEF RecordOK
      <4> QED BY <2>a, <2>c, <3>1, <4>2, ToKeeps, RecordStep
        DEF Only, IdleRequest, RunnerPC, LoopPC, WorkflowPC
    <3> QED BY <3>1, <3>2, <3>3
  <2>7. ASSUME NEW r \in Requests, OnPhaseStart(r) PROVE RecordInv'
    <3> DEFINE o == req[r].op
               p == req[r].phase
    <3>1. /\ req[r].pc = "start" /\ req[r].pc \in RunnerPC
          /\ UNCHANGED sandbox
          /\ \E pc \in {"prContext", "handle", "release"} : Become(r, To(r, pc))
          /\ \/ UNCHANGED ops /\ Become(r, To(r, "release"))
             \/ StartGitOperationPhase(o, p)
      BY <2>7 DEF OnPhaseStart, Call, storeVars, RunnerPC, LoopPC, WorkflowPC
    <3>2. CASE UNCHANGED ops /\ Become(r, To(r, "release"))
      BY <2>b, <3>1, <3>2 DEF RunnerPC, LoopPC
    <3>3. CASE StartGitOperationPhase(o, p)
      <4>1. RunnerOK(req[r], ops[o], sandbox.head) /\ o \in OpIds
        BY <2>c, <3>1
      <4>2. p \in Phase /\ p \notin Completed(ops[o].results)
        <5>1. p \in Phase /\ p = NextPhase(req[r].action, req[r].done)
          BY <3>1, <4>1 DEF RunnerOK, PhasePC, LoopPC, WorkflowPC
        <5>2. p # NoPhase
          BY <5>1 DEF Phase, NoPhase
        <5>3. p \in Remaining(req[r].action, req[r].done)
          BY <5>1, <5>2, NextPhaseRemains
        <5> QED BY <3>1, <4>1, <5>1, <5>3 DEF Remaining, RunnerOK, LoopPC, WorkflowPC
      <4>3. /\ Only(o)
            /\ ops'[o].status = "running" /\ ops'[o].action = ops[o].action
            /\ Completed(ops'[o].results) = Completed(ops[o].results)
            /\ ops'[o].checkpoint = ops[o].checkpoint
        <5>1. Completed(ops'[o].results) = Completed(ops[o].results) \ {p}
          BY <3>3, <4>1, <4>2, StartWrites
        <5>2. Completed(ops[o].results) \ {p} = Completed(ops[o].results)
          BY <4>2
        <5> QED BY <3>3, <4>1, <4>2, <5>1, <5>2, StartWrites
      <4>4. RecordOK(ops'[o], sandbox'.head)
        BY <2>c, <3>1, <4>3 DEF RecordOK
      <4>5. ASSUME NEW pc \in {"prContext", "handle", "release"},
                   Become(r, To(r, pc))
            PROVE  RecordInv'
        <5>1. pc \in RunnerPC => RunnerOK(To(r, pc), ops'[o], sandbox'.head)
          BY <3>1, <4>1, <4>3, ToKeeps
          DEF RunnerOK, RunnerPC, PhasePC, LoopPC, WorkflowPC
        <5> QED BY <2>a, <2>c, <3>1, <4>3, <4>4, <4>5, <5>1, ToKeeps, RecordStep DEF Only
      <4> QED BY <3>1, <4>5
    <3> QED BY <3>1, <3>2, <3>3
  <2>8. ASSUME NEW r \in Requests, OnPhaseComplete(r) PROVE RecordInv'
    <3> DEFINE o == req[r].op
               p == req[r].phase
               c == req[r].checkpoint
               l == [req[r] EXCEPT !.done = @ \cup {req[r].phase}]
    <3>1. /\ req[r].pc = "complete" /\ req[r].pc \in RunnerPC
          /\ UNCHANGED sandbox
      BY <2>8 DEF OnPhaseComplete, Call, RunnerPC, LoopPC, WorkflowPC
    <3>2. /\ RunnerOK(req[r], ops[o], sandbox.head)
          /\ o \in OpIds /\ ops[o] \in Operation /\ p \in Phase
      BY <2>c, <3>1 DEF RunnerOK, PhasePC, LoopPC, WorkflowPC
    <3>3. CASE UNCHANGED ops /\ Become(r, To(r, "fail"))
      BY <2>a, <3>1, <3>3, MovesTo DEF PhasePC, LoopPC, WorkflowPC
    <3>4. CASE CompleteGitOperationPhase(o, p, c)
      <4>1. /\ Only(o)
            /\ ops'[o].status = "running" /\ ops'[o].action = req[r].action
            /\ Completed(ops'[o].results) = req[r].done \cup {p}
            /\ ops'[o].checkpoint = MergeCheckpoint(ops[o].checkpoint, c)
        BY <3>1, <3>2, <3>4, CompleteWrites DEF RunnerOK, LoopPC, WorkflowPC
      <4>2. ops'[o].checkpoint = c
        <5>1. c \in Checkpoint /\ ops[o].checkpoint \in Checkpoint
          BY <2>a, <3>2 DEF Request, Operation
        <5> QED BY <3>1, <3>2, <4>1, <5>1, MergeExtends DEF RunnerOK, LoopPC, WorkflowPC
      <4>3. RecordOK(ops'[o], sandbox'.head)
        BY <3>1, <3>2, <4>1, <4>2 DEF RecordOK, RunnerOK
      <4>4. CASE Become(r, To(r, "fail"))
        <5>1. RunnerOK(To(r, "fail"), ops'[o], sandbox'.head)
          BY <3>1, <3>2, <4>1, ToKeeps
          DEF RunnerOK, RunnerPC, PhasePC, LoopPC, WorkflowPC
        <5> QED BY <2>a, <2>c, <3>1, <4>1, <4>3, <4>4, <5>1, ToKeeps, RecordStep DEF Only
      <4>5. CASE Become(r, NextIteration(l))
        <5>1. /\ l.op = o /\ l.action = req[r].action /\ l.checkpoint = c
              /\ l.done = req[r].done \cup {p}
              /\ l \in Request
          BY <2>a, <3>2 DEF Request
        <5>2. ops'[o] \in Operation
          BY <3>2 DEF TypeInv, TypeOK, StoreTypeOK
        <5>3. /\ NextIteration(l).op = o
              /\ RunnerOK(NextIteration(l), ops'[o], sandbox'.head)
          BY <4>1, <4>2, <4>3, <5>1, <5>2, NextIterationKnows
        <5> QED BY <2>a, <2>c, <3>1, <4>1, <4>3, <4>5, <5>3, RecordStep DEF Only
      <4> QED BY <2>8, <4>4, <4>5, <3>4 DEF OnPhaseComplete, Call
    <3> QED BY <2>8, <3>3, <3>4 DEF OnPhaseComplete, Call, storeVars
  <2>9. ASSUME NEW r \in Requests, Precheck(r) PROVE RecordInv'
    <3> DEFINE o == req[r].op
               m == [req[r] EXCEPT !.expected = IF WorkspaceMode = "checkout"
                                                THEN sandbox.branch ELSE @]
    <3>1. /\ req[r].pc = "precheck" /\ req[r].pc \in RunnerPC
          /\ UNCHANGED <<ops, sandbox>>
      BY <2>9 DEF Precheck, RunnerPC
    <3>2. /\ RunnerOK(req[r], ops[o], sandbox.head)
          /\ ops[o] \in Operation
          /\ RecordOK(ops[o], sandbox.head)
      BY <2>c, <3>1
    <3>3. CASE Become(r, NextIteration(m))
      <4>1. /\ m.op = o /\ m.action = req[r].action /\ m.done = req[r].done
            /\ m.checkpoint = req[r].checkpoint
            /\ m \in Request
        BY <2>a DEF Request, TypeInv, TypeOK, Sandbox
      <4>2. /\ ops[o].status = "running" /\ ops[o].action = m.action
            /\ m.done = Completed(ops[o].results)
            /\ m.checkpoint = ops[o].checkpoint
        BY <3>1, <3>2, <4>1 DEF RunnerOK
      <4>3. /\ NextIteration(m).op = o
            /\ RunnerOK(NextIteration(m), ops[o], sandbox.head)
        <5> HIDE DEF m
        <5> QED BY <3>2, <4>1, <4>2, NextIterationKnows
      <4> HIDE DEF m
      <4> QED BY <2>a, <3>1, <3>3, <4>3, RecordStep
    <3>4. ASSUME NEW p \in {"branch", "validate"},
                 Become(r, [req[r] EXCEPT !.pc = "prefail", !.phase = p])
          PROVE  RecordInv'
      <4> DEFINE l == [req[r] EXCEPT !.pc = "prefail", !.phase = p]
      <4>1. /\ l.pc = "prefail" /\ l.op = o /\ l.phase = p
            /\ l.action = req[r].action /\ l.checkpoint = req[r].checkpoint
        BY <2>a DEF Request
      <4>2. RunnerOK(l, ops[o], sandbox.head)
        BY <3>1, <3>2, <4>1 DEF RunnerOK, RunnerPC, PhasePC, LoopPC
      <4>3. Become(r, l)
        BY <3>4
      <4> HIDE DEF l
      <4> QED BY <2>a, <3>1, <4>1, <4>2, <4>3, RecordStep
    <3> QED BY <2>9, <3>3, <3>4 DEF Precheck
  <2>10. ASSUME NEW r \in Requests, MarkCommitted(r) PROVE RecordInv'
    <3>1. /\ req[r].pc \in PhasePC
          /\ \E pc \in (PhasePC \ {"start"}) \cup {"fail"} : Become(r, To(r, pc))
          /\ UNCHANGED <<ops, sandbox>>
      BY <2>10 DEF MarkCommitted, MarkChangesCommitted, Call, storeVars, PhasePC, LoopPC, WorkflowPC
    <3> QED BY <2>a, <3>1, MovesTo
  <2>11. ASSUME NEW r \in Requests, MarkPullRequestCreating(r) PROVE RecordInv'
    <3>1. /\ req[r].pc \in PhasePC
          /\ \E pc \in (PhasePC \ {"start"}) \cup {"fail"} : Become(r, To(r, pc))
          /\ UNCHANGED <<ops, sandbox>>
      BY <2>11 DEF MarkPullRequestCreating, MarkPullRequest, Call, storeVars, PhasePC, LoopPC, WorkflowPC
    <3> QED BY <2>a, <3>1, MovesTo
  <2>12. ASSUME NEW r \in Requests, HandlerFails(r) PROVE RecordInv'
    <3>1. /\ req[r].pc \in PhasePC
          /\ \E pc \in (PhasePC \ {"start"}) \cup {"fail"} : Become(r, To(r, pc))
          /\ UNCHANGED <<ops, sandbox>>
      BY <2>12 DEF HandlerFails, Goto, To, PhasePC, LoopPC, WorkflowPC
    <3> QED BY <2>a, <3>1, MovesTo
  <2>13. ASSUME NEW r \in Requests, ValidatePhase(r) PROVE RecordInv'
    <3>1. /\ req[r].pc \in PhasePC
          /\ \E pc \in (PhasePC \ {"start"}) \cup {"fail"} : Become(r, To(r, pc))
          /\ UNCHANGED <<ops, sandbox>>
      BY <2>13 DEF ValidatePhase, InPhase, Goto, To, PhasePC, LoopPC, WorkflowPC
    <3> QED BY <2>a, <3>1, MovesTo
  <2>14. ASSUME NEW r \in Requests, PullRequestContext(r) PROVE RecordInv'
    <3>1. /\ req[r].pc \in PhasePC
          /\ \E pc \in (PhasePC \ {"start"}) \cup {"fail"} : Become(r, To(r, pc))
          /\ UNCHANGED <<ops, sandbox>>
      BY <2>14 DEF PullRequestContext, Goto, To, PhasePC, LoopPC, WorkflowPC
    <3> QED BY <2>a, <3>1, MovesTo
  <2>15. ASSUME NEW r \in Requests, FindPullRequest(r) PROVE RecordInv'
    <3>1. /\ req[r].pc \in PhasePC
          /\ \E pc \in (PhasePC \ {"start"}) \cup {"fail"} : Become(r, To(r, pc))
          /\ UNCHANGED <<ops, sandbox>>
      BY <2>15 DEF FindPullRequest, Goto, To, PhasePC, LoopPC, WorkflowPC
    <3> QED BY <2>a, <3>1, MovesTo
  <2>16. ASSUME NEW r \in Requests, CreatePullRequest(r) PROVE RecordInv'
    <3>1. /\ req[r].pc \in PhasePC
          /\ \E pc \in (PhasePC \ {"start"}) \cup {"fail"} : Become(r, To(r, pc))
          /\ UNCHANGED <<ops, sandbox>>
      BY <2>16 DEF CreatePullRequest, Goto, To, PhasePC, LoopPC, WorkflowPC
    <3> QED BY <2>a, <3>1, MovesTo
  <2>17. ASSUME NEW r \in Requests, MarkPullRequestCreated(r) PROVE RecordInv'
    <3> DEFINE l == [req[r] EXCEPT !.pc = "complete", !.checkpoint.pullRequest = TRUE]
    <3>1. /\ req[r].pc = "prCreated" /\ req[r].pc \in RunnerPC
          /\ UNCHANGED <<ops, sandbox>>
          /\ Become(r, l) \/ Become(r, To(r, "fail"))
      BY <2>17 DEF MarkPullRequestCreated, MarkPullRequest, Call, storeVars,
                   RunnerPC, LoopPC, WorkflowPC
    <3>2. CASE Become(r, To(r, "fail"))
      BY <2>a, <3>1, <3>2, MovesTo DEF PhasePC, LoopPC, WorkflowPC
    <3>3. CASE Become(r, l)
      <4>1. /\ l.pc = "complete" /\ l.op = req[r].op /\ l.action = req[r].action
            /\ l.done = req[r].done /\ l.phase = req[r].phase
            /\ l.checkpoint.branch = req[r].checkpoint.branch
            /\ l.checkpoint.commitSha = req[r].checkpoint.commitSha
            /\ l.checkpoint.pullRequest
        BY <2>a DEF Request, Checkpoint
      <4>2. /\ Extends(req[r].checkpoint, ops[req[r].op].checkpoint)
            /\ req[r].checkpoint.commitSha <= sandbox.head
        BY <2>c, <3>1 DEF RunnerOK, LoopPC, WorkflowPC
      <4>3. Extends(l.checkpoint, ops[req[r].op].checkpoint)
        BY <4>1, <4>2 DEF Extends
      <4> HIDE DEF l
      <4> QED BY <2>a, <3>1, <3>3, <4>1, <4>2, <4>3, MovesOn DEF PhasePC, LoopPC, WorkflowPC
    <3> QED BY <3>1, <3>2, <3>3
  <2>18. ASSUME NEW r \in Requests, BranchPhase(r) PROVE RecordInv'
    <3>1. /\ req[r].pc = "handle" /\ req[r].pc \in RunnerPC
          /\ UNCHANGED ops /\ sandbox'.head = sandbox.head
      BY <2>18 DEF BranchPhase, InPhase, RunnerPC, LoopPC, WorkflowPC, TypeInv,
                   TypeOK, Sandbox
    <3>2. CASE Become(r, To(r, "fail"))
      BY <2>a, <3>1, <3>2, MovesTo DEF PhasePC, LoopPC, WorkflowPC
    <3>3. ASSUME NEW b \in Branches,
                 Become(r, [req[r] EXCEPT !.pc = "complete", !.checkpoint.branch = b])
          PROVE  RecordInv'
      <4> DEFINE l == [req[r] EXCEPT !.pc = "complete", !.checkpoint.branch = b]
      <4>1. /\ l.pc = "complete" /\ l.op = req[r].op /\ l.action = req[r].action
            /\ l.done = req[r].done /\ l.phase = req[r].phase
            /\ l.checkpoint.branch = b
            /\ l.checkpoint.commitSha = req[r].checkpoint.commitSha
            /\ l.checkpoint.pullRequest = req[r].checkpoint.pullRequest
        BY <2>a DEF Request, Checkpoint
      <4>2. /\ Extends(req[r].checkpoint, ops[req[r].op].checkpoint)
            /\ req[r].checkpoint.commitSha <= sandbox.head
        BY <2>c, <3>1 DEF RunnerOK, LoopPC, WorkflowPC
      <4>3. Extends(l.checkpoint, ops[req[r].op].checkpoint)
        BY <4>1, <4>2, StoreAssumption DEF Extends
      <4>4. Become(r, l)
        BY <3>3
      <4> HIDE DEF l
      <4> QED BY <2>a, <3>1, <4>1, <4>2, <4>3, <4>4, MovesOn DEF PhasePC, LoopPC, WorkflowPC
    <3>4. sandbox.branch \in Branches /\ NewBranch \in Branches
      BY WorkflowAssumption DEF TypeInv, TypeOK, Sandbox
    <3> QED BY <2>18, <3>2, <3>3, <3>4 DEF BranchPhase, Answers, Goto, To
  <2>19. ASSUME NEW r \in Requests, CommitPhase(r) PROVE RecordInv'
    <3> DEFINE h == IF sandbox.dirty THEN sandbox.head + 1 ELSE sandbox.head
               L(b, n) == [req[r] EXCEPT !.pc = "mark", !.checkpoint.branch = b,
                                         !.checkpoint.commitSha = n]
               l == L(WorkBranch(r), h)
    <3>1. /\ req[r].pc = "handle" /\ req[r].pc \in RunnerPC
          /\ UNCHANGED ops /\ sandbox'.head = h /\ sandbox.head <= h
          /\ Become(r, l) \/ Become(r, To(r, "fail"))
      BY <2>19, <2>a
      DEF CommitPhase, InPhase, Answers, Goto, To, RunnerPC, LoopPC, WorkflowPC,
          TypeInv, TypeOK, Sandbox
    <3>2. CASE Become(r, To(r, "fail"))
      BY <2>a, <3>1, <3>2, MovesTo DEF PhasePC, LoopPC, WorkflowPC
    <3>3. CASE Become(r, l)
      <4>1. /\ l.pc = "mark" /\ l.op = req[r].op /\ l.action = req[r].action
            /\ l.done = req[r].done /\ l.phase = req[r].phase
            /\ l.checkpoint.branch = WorkBranch(r)
            /\ l.checkpoint.commitSha = h
            /\ l.checkpoint.pullRequest = req[r].checkpoint.pullRequest
        <5>1. ASSUME NEW b, NEW n
              PROVE  /\ L(b, n).pc = "mark" /\ L(b, n).op = req[r].op
                     /\ L(b, n).action = req[r].action
                     /\ L(b, n).done = req[r].done
                     /\ L(b, n).phase = req[r].phase
          BY <2>a DEF Request
        <5>2. ASSUME NEW b, NEW n
              PROVE  /\ L(b, n).checkpoint.branch = b
                     /\ L(b, n).checkpoint.commitSha = n
                     /\ L(b, n).checkpoint.pullRequest = req[r].checkpoint.pullRequest
          <6> DEFINE k == [req[r] EXCEPT !.pc = "mark", !.checkpoint.branch = b]
          <6>1. req[r].checkpoint \in Checkpoint /\ req[r] \in Request
            BY <2>a DEF Request
          <6>2. /\ DOMAIN k = DOMAIN req[r] /\ "checkpoint" \in DOMAIN k
                /\ k.checkpoint = [req[r].checkpoint EXCEPT !.branch = b]
            BY <6>1 DEF Request
          <6>3. L(b, n) = [k EXCEPT !.checkpoint = [@ EXCEPT !.commitSha = n]]
            OBVIOUS
          <6>4. L(b, n).checkpoint = [[req[r].checkpoint EXCEPT !.branch = b]
                                        EXCEPT !.commitSha = n]
            BY <6>2, <6>3
          <6> QED BY <6>1, <6>4 DEF Checkpoint
        <5> HIDE DEF L, h
        <5> QED BY <5>1, <5>2
      <4>2. /\ Extends(req[r].checkpoint, ops[req[r].op].checkpoint)
            /\ ops[req[r].op].checkpoint.commitSha <= sandbox.head
            /\ ops[req[r].op].checkpoint.commitSha \in Nat
        BY <2>c, <3>1
        DEF RunnerOK, RecordOK, LoopPC, WorkflowPC, Operation, Checkpoint, CommitSha
      <4>3. WorkBranch(r) # None
        BY <3>1, StoreAssumption
        DEF WorkBranch, TypeInv, LocalOK, KnowsBranch
      <4>4. h = 0 => sandbox.head = 0
        BY <2>a
      <4>5. Extends(l.checkpoint, ops[req[r].op].checkpoint)
        BY <2>a, <4>1, <4>2, <4>3, <4>4 DEF Extends
      <4>6. sandbox.head <= sandbox'.head /\ l.checkpoint.commitSha <= sandbox'.head
        BY <2>a, <3>1, <4>1
      <4> HIDE DEF l
      <4> QED BY <2>a, <3>1, <3>3, <4>1, <4>5, <4>6, MovesOn DEF PhasePC, LoopPC, WorkflowPC
    <3> QED BY <3>1, <3>2, <3>3
  <2>20. ASSUME NEW r \in Requests, PushPhase(r) PROVE RecordInv'
    <3> DEFINE l == [req[r] EXCEPT !.pc = "mark", !.checkpoint.commitSha = sandbox.head]
    <3>1. /\ req[r].pc = "handle" /\ req[r].pc \in RunnerPC
          /\ UNCHANGED <<ops, sandbox>>
          /\ Become(r, l) \/ Become(r, To(r, "fail"))
      BY <2>20
      DEF PushPhase, InPhase, Answers, Goto, To, RunnerPC, LoopPC, WorkflowPC
    <3>2. CASE Become(r, To(r, "fail"))
      BY <2>a, <3>1, <3>2, MovesTo DEF PhasePC, LoopPC, WorkflowPC
    <3>3. CASE Become(r, l)
      <4>1. /\ l.pc = "mark" /\ l.op = req[r].op /\ l.action = req[r].action
            /\ l.done = req[r].done /\ l.phase = req[r].phase
            /\ l.checkpoint.branch = req[r].checkpoint.branch
            /\ l.checkpoint.commitSha = sandbox.head
            /\ l.checkpoint.pullRequest = req[r].checkpoint.pullRequest
        BY <2>a DEF Request, Checkpoint
      <4>2. /\ Extends(req[r].checkpoint, ops[req[r].op].checkpoint)
            /\ ops[req[r].op].checkpoint.commitSha <= sandbox.head
            /\ ops[req[r].op].checkpoint.commitSha \in Nat
        BY <2>c, <3>1
        DEF RunnerOK, RecordOK, LoopPC, WorkflowPC, Operation, Checkpoint, CommitSha
      <4>3. Extends(l.checkpoint, ops[req[r].op].checkpoint)
        BY <2>a, <4>1, <4>2 DEF Extends
      <4>4. l.checkpoint.commitSha <= sandbox'.head
        BY <2>a, <3>1, <4>1
      <4> HIDE DEF l
      <4> QED BY <2>a, <3>1, <3>3, <4>1, <4>3, <4>4, MovesOn DEF PhasePC, LoopPC, WorkflowPC
    <3> QED BY <3>1, <3>2, <3>3
  <2>21. ASSUME NEW r \in Requests, NEW o \in OpIds, NEW a \in Actions, Submit(r, o, a)
         PROVE  RecordInv'
    <3> DEFINE l == [IdleRequest EXCEPT !.pc = "begin", !.op = o, !.action = a,
                       !.expected = thread.branch, !.prSeen = thread.pullRequestNumber]
    <3>1. l.pc \notin RunnerPC
      BY DEF IdleRequest, RunnerPC, LoopPC
    <3> QED BY <2>21, <2>a, <3>1, Leaves DEF Submit
  <2>22. ASSUME NEW r \in Requests, Lock(r) \/ Unlock(r) \/ Crash(r)
         PROVE  RecordInv'
    BY <2>22, <2>b, <2>d DEF Lock, Unlock, Crash, BeginGitMutation, EndGitMutation,
         Call, storeVars, RunnerPC, LoopPC, WorkflowPC
  <2>23. ASSUME NEW r \in Requests, SubmitRename(r) PROVE RecordInv'
    <3> DEFINE l == [IdleRequest EXCEPT !.pc = "lock"]
    <3>1. l.pc \notin RunnerPC
      BY DEF IdleRequest, RunnerPC, LoopPC, WorkflowPC
    <3> QED BY <2>23, <2>a, <3>1, Leaves DEF SubmitRename
  <2>24. ASSUME NEW r \in Requests, Reread(r) PROVE RecordInv'
    <3>1. ASSUME NEW pc \in {"rename", "unlock"},
                 Become(r, [req[r] EXCEPT !.pc = pc, !.expected = thread.branch])
          PROVE  RecordInv'
      <4> DEFINE l == [req[r] EXCEPT !.pc = pc, !.expected = thread.branch]
      <4>1. l.pc \notin RunnerPC
        BY <2>a DEF Request, RunnerPC, LoopPC, WorkflowPC
      <4> QED BY <2>24, <2>a, <3>1, <4>1, Leaves DEF Reread
    <3> QED BY <2>24, <3>1 DEF Reread
  <2>25. ASSUME NEW r \in Requests, Rename(r) \/ SaveBranch(r) \/ UndoRename(r)
         PROVE  RecordInv'
    <3>1. /\ \E pc \in {"save", "unlock", "undo"} : Become(r, To(r, pc))
          /\ UNCHANGED ops /\ sandbox'.head = sandbox.head
      BY <2>25 DEF Rename, SaveBranch, UndoRename, UpdateGeneratedFeatureBranch, Call,
           storeVars, Goto, To, TypeInv, TypeOK, Sandbox
    <3> QED BY <2>a, <3>1, ToKeeps, RecordStep DEF RunnerPC, LoopPC, WorkflowPC
  <2>26. ASSUME EditWorkspace \/ ExpireLease \/ UNCHANGED vars PROVE RecordInv'
    <3>1. UNCHANGED <<req, ops>> /\ sandbox'.head = sandbox.head
      BY <2>26 DEF EditWorkspace, ExpireLease, vars, TypeInv, TypeOK, Sandbox
    <3> QED BY <3>1 DEF RecordInv
  <2> QED BY <2>1, <2>2, <2>3, <2>4, <2>5, <2>6, <2>7, <2>8, <2>9, <2>10, <2>11, <2>12,
       <2>13, <2>14, <2>15, <2>16, <2>17, <2>18, <2>19, <2>20, <2>21, <2>22, <2>23,
       <2>24, <2>25, <2>26
    DEF Next, Runner, Handlers, Renamer
<1> QED BY <1>1, <1>2, TypeInvariant, LeaseInvariant, PTL DEF Spec

-----------------------------------------------------------------------------
\* executeResumableGitWorkflow decides what to skip from a copy taken when the
\* operation began: for as long as the request runs, the copy is the record.
THEOREM RunnerKnowsTheRecordHolds ==
  ASSUME ~RetriesOverlap, ~OutliveLease
  PROVE  Spec => []RunnerKnowsTheRecord
<1>1. RecordInv => RunnerKnowsTheRecord
  BY DEF RecordInv, RunnerOK, RunnerKnowsTheRecord, InLoop, RunnerPC, LoopPC
<1> QED BY <1>1, RecordInvariant, PTL

\* completeGitOperation trusts the caller: an operation is recorded as
\* succeeded only when every phase of its action is recorded as complete.
THEOREM SucceededIsCompleteHolds ==
  ASSUME ~RetriesOverlap, ~OutliveLease
  PROVE  Spec => []SucceededIsComplete
<1>1. RecordInv => SucceededIsComplete
  BY DEF RecordInv, RecordOK, SucceededIsComplete
<1> QED BY <1>1, RecordInvariant, PTL

\* A step writes at most one record, and never that of a succeeded operation.
LEMMA Writes ==
  ASSUME TypeInv, RecordInv, [Next]_vars
  PROVE  \/ UNCHANGED ops
         \/ \E o \in OpIds : ops[o].status # "succeeded" /\ Only(o)
<1> USE DEF At
<1>1. ASSUME NEW r \in Requests, req[r].pc \in RunnerPC
      PROVE  /\ req[r].op \in OpIds /\ ops[req[r].op].status # "succeeded"
             /\ req[r].pc \in PhasePC \cup {"prefail", "fail"} => req[r].phase \in Phase
  <2>1. RunnerOK(req[r], ops[req[r].op], sandbox.head) /\ req[r].pc \in WorkflowPC
    BY <1>1 DEF RecordInv, RunnerPC, LoopPC, WorkflowPC
  <2> QED BY <1>1, <2>1, RunnerHasOperation DEF RunnerOK, Phase
<1>2. ASSUME NEW r \in Requests, Begin(r), ~UNCHANGED ops
      PROVE  \E o \in OpIds : ops[o].status # "succeeded" /\ Only(o)
  <2>1. req[r].op \in OpIds
    BY <1>2, RunnerHasOperation DEF Begin, WorkflowPC
  <2>2. BeginGitOperation(req[r].op, req[r].action)
    BY <1>2 DEF Begin, Call, storeVars
  <2> QED BY <2>1, <2>2, BeginWrites
<1>3. ASSUME NEW r \in Requests, ~UNCHANGED ops,
             \/ FailBeforeExecution(r) \/ OnPhaseStart(r) \/ OnPhaseComplete(r)
             \/ OnPhaseFailure(r) \/ Finish(r)
      PROVE  \E o \in OpIds : ops[o].status # "succeeded" /\ Only(o)
  <2>1. req[r].pc \in {"prefail", "start", "complete", "fail", "finish"}
    BY <1>3 DEF FailBeforeExecution, OnPhaseStart, OnPhaseComplete, OnPhaseFailure, Finish
  <2>2. /\ req[r].op \in OpIds /\ ops[req[r].op].status # "succeeded"
        /\ req[r].pc # "finish" => req[r].phase \in Phase
    BY <1>1, <2>1 DEF RunnerPC, PhasePC, LoopPC, WorkflowPC
  <2>3. CASE FailBeforeExecution(r) \/ OnPhaseFailure(r)
    <3>1. FailGitOperation(req[r].op, req[r].phase) /\ req[r].pc # "finish"
      BY <1>3, <2>3 DEF FailBeforeExecution, OnPhaseFailure, Call, storeVars
    <3> QED BY <2>2, <3>1, FailWrites
  <2>4. CASE OnPhaseStart(r)
    <3>1. StartGitOperationPhase(req[r].op, req[r].phase) /\ req[r].pc # "finish"
      BY <1>3, <2>4 DEF OnPhaseStart, Call, storeVars
    <3> QED BY <2>2, <3>1, StartWrites
  <2>5. CASE OnPhaseComplete(r)
    <3>1. /\ CompleteGitOperationPhase(req[r].op, req[r].phase, req[r].checkpoint)
          /\ req[r].pc # "finish"
      BY <1>3, <2>5 DEF OnPhaseComplete, Call, storeVars
    <3> QED BY <2>2, <3>1, CompleteWrites
  <2>6. CASE Finish(r)
    <3>1. CompleteGitOperation(req[r].op)
      BY <1>3, <2>6 DEF Finish, Call, storeVars
    <3> QED BY <2>2, <3>1, FinishWrites
  <2> QED BY <1>3, <2>3, <2>4, <2>5, <2>6
<1>4. ASSUME NEW r \in Requests,
             \/ Handlers(r) \/ Renamer(r) \/ Crash(r) \/ SubmitRename(r)
             \/ \E o \in OpIds, a \in Actions : Submit(r, o, a)
             \/ Precheck(r) \/ MarkPullRequestFailed(r) \/ ReleaseOperationLease(r)
      PROVE  UNCHANGED ops
  <2>1. CASE Handlers(r)
    BY <2>1 DEF Handlers, BranchPhase, ValidatePhase, CommitPhase, PushPhase,
         MarkCommitted, PullRequestContext, MarkPullRequestCreating, FindPullRequest,
         CreatePullRequest, MarkPullRequestCreated, HandlerFails, Call, storeVars,
         MarkChangesCommitted, MarkPullRequest
  <2>2. CASE Renamer(r)
    BY <2>2 DEF Renamer, Lock, Reread, Rename, SaveBranch, UndoRename, Unlock, Call,
         storeVars, BeginGitMutation, EndGitMutation, UpdateGeneratedFeatureBranch
  <2>3. CASE Precheck(r) \/ MarkPullRequestFailed(r) \/ ReleaseOperationLease(r)
    BY <2>3 DEF Precheck, MarkPullRequestFailed, ReleaseOperationLease, Call,
         storeVars, MarkPullRequest, ReleaseGitOperationLease
  <2> QED BY <1>4, <2>1, <2>2, <2>3 DEF Crash, SubmitRename, Submit
<1>5. ASSUME ExpireLease \/ EditWorkspace \/ UNCHANGED vars PROVE UNCHANGED ops
  BY <1>5 DEF ExpireLease, EditWorkspace, vars
<1> QED BY <1>2, <1>3, <1>4, <1>5 DEF Next, Runner

\* A succeeded operation is never reopened: a late or repeated request for it
\* leaves its record alone.
THEOREM SucceededIsFinalHolds ==
  ASSUME ~RetriesOverlap, ~OutliveLease
  PROVE  Spec => SucceededIsFinal
<1>1. TypeInv /\ RecordInv /\ [Next]_vars
        => [\A o \in OpIds : ops[o].status = "succeeded" => ops'[o] = ops[o]]_vars
  BY Writes DEF Only
<1> QED BY <1>1, TypeInvariant, RecordInvariant, PTL DEF Spec, SucceededIsFinal

-----------------------------------------------------------------------------
(* What succeeded was delivered. *)

\* In a worktree an action that pushes also commits.  A push alone leaves the
\* thread without a commit while its mark is missing (a crash, a refused
\* call): the branch may then be renamed, and the resumed operation pushes to
\* the new name and opens its pull request for the old one.
DeliverableActions ==
  WorkspaceMode = "checkout" \/ \A a \in Actions : RunsPush(a) => NeedsCommit(a)

-----------------------------------------------------------------------------
(* The workspace, GitHub and the thread, as one value. *)

World == [sandbox |-> sandbox, github |-> github, thread |-> thread]
Worlds == [sandbox : Sandbox, github : Github, thread : ThreadFields]

Dirty(w) == w.sandbox.dirty \/ w.sandbox.head >= 1
Marked(w) == w.thread.commitStatus # "none"
Pushed(w, sha) == \E b \in Branches : w.github.remote[b] >= sha

\* Nothing is on GitHub that is not in the workspace, a pull request is one of
\* the branch of the workspace, and a worktree with something on GitHub is
\* past the renaming of its branch.
WorldOK(w) ==
  /\ \A b \in Branches : w.github.remote[b] <= w.sandbox.head
  /\ \A b \in w.github.pulls : w.github.remote[b] > 0 /\ b = w.sandbox.branch
  /\ w.thread.pullRequestNumber => w.github.pulls # {}
  /\ WorkspaceMode = "worktree" =>
       \A b \in Branches : w.github.remote[b] > 0 => b = w.sandbox.branch /\ Marked(w)
  /\ WorkspaceMode = "checkout" =>
       /\ w.sandbox.branch \in {BaseBranch, NewBranch}
       /\ w.github.pulls \subseteq {NewBranch}

\* The phases D of an action were done in the order of their ranks.
InOrder(D, a) ==
  /\ "push" \in D /\ NeedsCommit(a) => "commit" \in D
  /\ "pull_request" \in D => "push" \in D

\* What the phases D of action a did, with checkpoint c, holds in w.
Did(D, c, a, w) ==
  /\ InOrder(D, a)
  /\ "branch" \in D => c.branch # None
  /\ WorkspaceMode = "checkout" /\ NeedsPullRequest(a) /\ c.branch # None
       => c.branch = NewBranch /\ w.sandbox.branch = NewBranch
  /\ "validate" \in D /\ NeedsCommit(a) => Dirty(w)
  /\ "commit" \in D => c.commitSha >= 1 /\ Marked(w)
  /\ "push" \in D =>
       /\ Pushed(w, c.commitSha)
       /\ NeedsPullRequest(a) => /\ c.branch # None
                                 /\ w.github.remote[w.sandbox.branch] >= c.commitSha
  /\ "pull_request" \in D => c.pullRequest /\ w.thread.pullRequestNumber

PullRequestPC == {"prContext", "prCreating", "prFind", "prCreate", "prCreated"}

\* A request in local state l.
RequestDid(l, w) ==
  /\ l.prSeen => w.thread.pullRequestNumber
  /\ l.pc \in WorkflowPC => l.action \in Actions
  /\ l.pc \in LoopPC => Did(l.done, l.checkpoint, l.action, w)
  /\ l.pc = "fail" => InOrder(l.done, l.action)
  /\ l.pc = "mark" =>
       /\ l.phase \in {"commit", "push"}
       /\ l.phase = "commit" => l.checkpoint.commitSha >= 1
       /\ l.phase = "push" => Did(l.done \cup {"push"}, l.checkpoint, l.action, w)
  /\ l.pc \in PullRequestPC => l.phase = "pull_request"
  /\ l.pc = "prCreated" => w.github.pulls # {}
  /\ l.pc = "complete" => Did(l.done \cup {l.phase}, l.checkpoint, l.action, w)

\* A record.
RecordDid(O, w) ==
  /\ O.status = "absent" => Completed(O.results) = {} /\ O.checkpoint = NoCheckpoint
  /\ O.status # "absent" =>
       /\ O.action \in Actions
       /\ Did(Completed(O.results), O.checkpoint, O.action, w)

\* Who renames the branch does so before the thread has a commit.
RenamesInTime ==
  \A r \in Requests : req[r].pc \in {"rename", "save", "undo"} =>
    WorkspaceMode = "worktree" /\ thread.commitStatus = "none"

DeliveryInv ==
  /\ WorldOK(World)
  /\ RenamesInTime
  /\ \A o \in OpIds : RecordDid(ops[o], World)
  /\ \A r \in Requests : RequestDid(req[r], World)

-----------------------------------------------------------------------------
(* Lemmas on phases and on the world. *)

\* The phases before the one that comes next are done.
LEMMA EarlierAreDone ==
  ASSUME NEW a, NEW D, NextPhase(a, D) \in Phase
  PROVE  /\ NextPhase(a, D) \in ActionPhases(a) /\ NextPhase(a, D) \notin D
         /\ \A q \in ActionPhases(a) : Rank[q] < Rank[NextPhase(a, D)] => q \in D
<1> DEFINE p == NextPhase(a, D)
<1>1. p # NoPhase
  BY DEF Phase, NoPhase
<1>2. p \in Remaining(a, D) /\ Remaining(a, D) # {}
  BY <1>1, NextPhaseRemains
<1>3. p = CHOOSE x \in Remaining(a, D) : \A q \in Remaining(a, D) : Rank[x] <= Rank[q]
  BY <1>2 DEF NextPhase
<1>4. \E x \in Remaining(a, D) : \A q \in Remaining(a, D) : Rank[x] <= Rank[q]
  BY <1>2, LeastPhase DEF Remaining, ActionPhases, Phase
<1>5. \A q \in Remaining(a, D) : Rank[p] <= Rank[q]
  BY <1>3, <1>4
<1>6. \A q \in Phase : Rank[q] \in Nat
  BY DEF Phase, Rank
<1>7. ActionPhases(a) \subseteq Phase
  BY DEF ActionPhases, Phase
<1> QED BY <1>2, <1>5, <1>6, <1>7 DEF Remaining

\* A pull request is opened after the push, and a push after the commit.
LEMMA PushFirst ==
  ASSUME NEW a, NEW p \in ActionPhases(a), NEW D,
         \A q \in ActionPhases(a) : Rank[q] < Rank[p] => q \in D
  PROVE  /\ p # "branch" => "branch" \in D
         /\ p = "pull_request" => NeedsPullRequest(a) /\ "push" \in D
         /\ p = "push" => RunsPush(a) /\ (NeedsCommit(a) => "commit" \in D)
         /\ p = "commit" => NeedsCommit(a) /\ "validate" \in D
<1>1. /\ Rank["branch"] = 1 /\ Rank["validate"] = 2 /\ Rank["commit"] = 3
      /\ Rank["push"] = 4 /\ Rank["pull_request"] = 5
  BY DEF Rank, Phase
<1>2. /\ p \in Phase
      /\ {"branch", "validate"} \subseteq ActionPhases(a)
      /\ p = "commit" => NeedsCommit(a)
      /\ p = "push" => RunsPush(a)
      /\ p = "pull_request" => NeedsPullRequest(a) /\ RunsPush(a)
      /\ NeedsCommit(a) => "commit" \in ActionPhases(a)
      /\ RunsPush(a) => "push" \in ActionPhases(a)
  BY DEF ActionPhases, Phase, NeedsPullRequest, RunsPush
<1> QED BY <1>1, <1>2 DEF Phase

\* Changes of the world under which what was done stays done.
Grows(w, v) ==
  /\ w.thread.pullRequestNumber => v.thread.pullRequestNumber
  /\ Marked(w) => Marked(v)
  /\ Dirty(w) => Dirty(v)
  /\ \A b \in Branches : w.github.remote[b] <= v.github.remote[b]
  /\ w.github.pulls # {} => v.github.pulls # {}
  /\ \/ v.sandbox.branch = w.sandbox.branch
     \/ WorkspaceMode = "worktree" /\ ~Marked(w)
     \/ /\ WorkspaceMode = "checkout" /\ v.sandbox.branch = NewBranch
        /\ w.sandbox.branch \in {BaseBranch, NewBranch}

LEMMA DidGrows ==
  ASSUME DeliverableActions, NEW w \in Worlds, NEW v \in Worlds, Grows(w, v),
         NEW D \in SUBSET Phase, NEW c \in Checkpoint, NEW a \in Actions,
         Did(D, c, a, w)
  PROVE  Did(D, c, a, v)
<1>1. /\ c.commitSha \in Nat
      /\ \A b \in Branches : w.github.remote[b] \in Nat /\ v.github.remote[b] \in Nat
      /\ w.sandbox.branch \in Branches /\ v.sandbox.branch \in Branches
  BY DEF Checkpoint, CommitSha, Worlds, Github, Sandbox
<1>2. Pushed(w, c.commitSha) => Pushed(v, c.commitSha)
  BY <1>1 DEF Pushed, Grows
<1>3. ASSUME "push" \in D, NeedsPullRequest(a)
      PROVE  /\ c.branch # None
             /\ v.github.remote[v.sandbox.branch] >= c.commitSha
  <2>1. c.branch # None /\ w.github.remote[w.sandbox.branch] >= c.commitSha
    BY <1>3 DEF Did
  <2>2. v.sandbox.branch = w.sandbox.branch
    <3>1. CASE WorkspaceMode = "worktree"
      <4>1. NeedsCommit(a)
        BY <1>3, <3>1 DEF DeliverableActions, RunsPush, NeedsPullRequest
      <4>2. Marked(w)
        BY <1>3, <4>1 DEF Did, InOrder
      <4> QED BY <3>1, <4>2 DEF Grows
    <3>2. CASE WorkspaceMode # "worktree"
      BY <1>3, <2>1, <3>2, WorkflowAssumption DEF Grows, Did
    <3> QED BY <3>1, <3>2
  <2> QED BY <1>1, <2>1, <2>2 DEF Grows
<1>4. WorkspaceMode = "checkout" /\ NeedsPullRequest(a) /\ c.branch # None
        => v.sandbox.branch = NewBranch
  BY DEF Did, Grows
<1> QED BY <1>2, <1>3, <1>4 DEF Did, Grows

LEMMA WorldType ==
  ASSUME TypeInv, TypeInv'
  PROVE  World \in Worlds /\ World' \in Worlds
<1>1. World \in Worlds
  BY DEF TypeInv, TypeOK, StoreTypeOK, World, Worlds
<1>2. World' \in Worlds
  BY DEF TypeInv, TypeOK, StoreTypeOK, World, Worlds, Github, Sandbox
<1> QED BY <1>1, <1>2

LEMMA NoGrowth == ASSUME NEW w \in Worlds PROVE Grows(w, w)
BY DEF Grows, Worlds, Github, CommitSha

\* What other requests did, and what is recorded, stays done.
LEMMA RequestDidGrows ==
  ASSUME DeliverableActions, NEW w \in Worlds, NEW v \in Worlds, Grows(w, v),
         NEW l \in Request, LocalOK(l), RequestDid(l, w)
  PROVE  RequestDid(l, v)
<1>1. /\ l.checkpoint \in Checkpoint
      /\ l.done \in SUBSET Phase
      /\ l.phase = "push" => l.done \cup {"push"} \in SUBSET Phase
      /\ l.pc = "complete" => l.done \cup {l.phase} \in SUBSET Phase
      /\ l.pc \in LoopPC \cup {"mark", "complete"} => l.action \in Actions
  <2>1. l.pc = "complete" => l.phase \in Phase
    BY DEF LocalOK, KnowsBranch, RenamePC
  <2>2. l.pc \in LoopPC \cup {"mark", "complete"} => l.action \in Actions
    BY DEF RequestDid, LoopPC, WorkflowPC
  <2> QED BY <2>1, <2>2 DEF Request, Phase
<1>2. l.pc \in LoopPC => Did(l.done, l.checkpoint, l.action, v)
  BY <1>1, DidGrows DEF RequestDid
<1>3. l.pc = "mark" /\ l.phase = "push"
        => Did(l.done \cup {"push"}, l.checkpoint, l.action, v)
  BY <1>1, DidGrows DEF RequestDid
<1>4. l.pc = "complete" => Did(l.done \cup {l.phase}, l.checkpoint, l.action, v)
  BY <1>1, DidGrows DEF RequestDid
<1> QED BY <1>2, <1>3, <1>4 DEF RequestDid, Grows

LEMMA RecordDidGrows ==
  ASSUME DeliverableActions, NEW w \in Worlds, NEW v \in Worlds, Grows(w, v),
         NEW O \in Operation, RecordDid(O, w)
  PROVE  RecordDid(O, v)
<1>1. O.checkpoint \in Checkpoint /\ Completed(O.results) \in SUBSET Phase
  BY DEF Operation, Completed
<1> QED BY <1>1, DidGrows DEF RecordDid

-----------------------------------------------------------------------------
(* Steps. *)

RenamingPC == {"rename", "save", "undo"}

\* A step of one request: the world goes on, the request and its record are as
\* they should be, and no renamer is surprised.
LEMMA DeliveryStep ==
  ASSUME DeliverableActions, TypeInv, TypeInv', DeliveryInv,
         NEW r \in Requests, NEW l, Become(r, l),
         Grows(World, World'), WorldOK(World'), RequestDid(l, World'),
         \/ UNCHANGED ops
         \/ /\ req[r].op \in OpIds /\ Only(req[r].op)
            /\ RecordDid(ops'[req[r].op], World'),
         l.pc \in RenamingPC =>
           WorkspaceMode = "worktree" /\ thread'.commitStatus = "none",
         \A s \in Requests : s # r /\ req[s].pc \in RenamingPC =>
           thread'.commitStatus = thread.commitStatus
  PROVE  DeliveryInv'
<1>1. World \in Worlds /\ World' \in Worlds
  BY WorldType
<1>2. \A s \in Requests : req'[s] = IF s = r THEN l ELSE req[s]
  BY DEF Become, TypeInv, TypeOK
<1>3. ASSUME NEW s \in Requests PROVE RequestDid(req'[s], World')
  <2>1. req[s] \in Request /\ LocalOK(req[s]) /\ RequestDid(req[s], World)
    BY DEF TypeInv, TypeOK, DeliveryInv
  <2>2. RequestDid(req[s], World')
    BY <1>1, <2>1, RequestDidGrows
  <2> QED BY <1>2, <2>2
<1>4. ASSUME NEW o \in OpIds PROVE RecordDid(ops'[o], World')
  <2>1. ops[o] \in Operation /\ RecordDid(ops[o], World)
    BY DEF TypeInv, TypeOK, StoreTypeOK, DeliveryInv
  <2>2. RecordDid(ops[o], World')
    BY <1>1, <2>1, RecordDidGrows
  <2> QED BY <2>2 DEF Only
<1>5. RenamesInTime'
  BY <1>2 DEF RenamesInTime, DeliveryInv, RenamingPC
<1> QED BY <1>3, <1>4, <1>5 DEF DeliveryInv

\* A step that leaves the world alone.
LEMMA QuietDelivery ==
  ASSUME DeliverableActions, TypeInv, TypeInv', DeliveryInv,
         UNCHANGED <<sandbox, github, thread>>,
         NEW r \in Requests, NEW l, Become(r, l), RequestDid(l, World),
         \/ UNCHANGED ops
         \/ /\ req[r].op \in OpIds /\ Only(req[r].op)
            /\ RecordDid(ops'[req[r].op], World),
         l.pc \in RenamingPC =>
           WorkspaceMode = "worktree" /\ thread.commitStatus = "none"
  PROVE  DeliveryInv'
<1>1. World' = World
  BY DEF World
<1>2. Grows(World, World') /\ WorldOK(World')
  BY <1>1, WorldType, NoGrowth DEF DeliveryInv
<1>3. RequestDid(l, World')
  BY <1>1
<1>4. RecordDid(ops'[req[r].op], World) => RecordDid(ops'[req[r].op], World')
  BY <1>1
<1> QED BY <1>2, <1>3, <1>4, DeliveryStep

\* A step of the environment.
LEMMA EnvironmentStep ==
  ASSUME DeliverableActions, TypeInv, TypeInv', DeliveryInv,
         UNCHANGED <<req, ops, thread>>, Grows(World, World'), WorldOK(World')
  PROVE  DeliveryInv'
<1>1. World \in Worlds /\ World' \in Worlds
  BY WorldType
<1>2. ASSUME NEW s \in Requests PROVE RequestDid(req'[s], World')
  <2>1. req[s] \in Request /\ LocalOK(req[s]) /\ RequestDid(req[s], World)
    BY DEF TypeInv, TypeOK, DeliveryInv
  <2> QED BY <1>1, <2>1, RequestDidGrows
<1>3. ASSUME NEW o \in OpIds PROVE RecordDid(ops'[o], World')
  <2>1. ops[o] \in Operation /\ RecordDid(ops[o], World)
    BY DEF TypeInv, TypeOK, StoreTypeOK, DeliveryInv
  <2> QED BY <1>1, <2>1, RecordDidGrows
<1>4. RenamesInTime'
  BY DEF RenamesInTime, DeliveryInv
<1> QED BY <1>2, <1>3, <1>4 DEF DeliveryInv

\* A request that no longer relies on what was done.
LEMMA DidTo ==
  ASSUME TypeInv, NEW r \in Requests, NEW pc, NEW w, RequestDid(req[r], w),
         pc \notin LoopPC \cup {"fail"},
         pc \in WorkflowPC => req[r].pc \in WorkflowPC
  PROVE  RequestDid(To(r, pc), w)
<1>1. /\ To(r, pc).pc = pc /\ To(r, pc).action = req[r].action
      /\ To(r, pc).prSeen = req[r].prSeen
  BY DEF TypeInv, TypeOK, To, Request
<1> QED BY <1>1 DEF RequestDid, LoopPC, WorkflowPC, PullRequestPC

LEMMA IdleDid == ASSUME NEW w PROVE RequestDid(IdleRequest, w)
BY DEF RequestDid, IdleRequest, LoopPC, WorkflowPC, PullRequestPC

\* A request that works on in its phase.
LEMMA DidMoves ==
  ASSUME TypeInv, NEW r \in Requests, NEW w, RequestDid(req[r], w),
         req[r].pc \in LoopPC, NEW pc \in LoopPC \ {"mark"},
         pc = "complete" =>
           Did(req[r].done \cup {req[r].phase}, req[r].checkpoint, req[r].action, w),
         pc \in PullRequestPC => req[r].phase = "pull_request",
         pc = "prCreated" => w.github.pulls # {}
  PROVE  RequestDid(To(r, pc), w)
<1>1. /\ To(r, pc).pc = pc /\ To(r, pc).action = req[r].action
      /\ To(r, pc).prSeen = req[r].prSeen
      /\ To(r, pc).done = req[r].done
      /\ To(r, pc).phase = req[r].phase
      /\ To(r, pc).checkpoint = req[r].checkpoint
  BY DEF TypeInv, TypeOK, To, Request
<1>2. req[r].pc \in WorkflowPC
  BY DEF LoopPC
<1>3. /\ Did(req[r].done, req[r].checkpoint, req[r].action, w)
      /\ req[r].action \in Actions
      /\ req[r].prSeen => w.thread.pullRequestNumber
  BY <1>2 DEF RequestDid
<1>4. pc # "fail" /\ pc # "mark"
  BY DEF LoopPC
<1> QED BY <1>1, <1>3, <1>4 DEF RequestDid

\* A phase that is given up.
LEMMA DidFail ==
  ASSUME TypeInv, NEW r \in Requests, req[r].pc \in LoopPC, NEW w,
         RequestDid(req[r], w)
  PROVE  RequestDid(To(r, "fail"), w)
<1>1. /\ To(r, "fail").pc = "fail" /\ To(r, "fail").action = req[r].action
      /\ To(r, "fail").done = req[r].done
      /\ To(r, "fail").prSeen = req[r].prSeen
  BY DEF TypeInv, TypeOK, To, Request
<1> QED BY <1>1 DEF RequestDid, Did, LoopPC, WorkflowPC, PullRequestPC

\* A phase that is no longer recorded as complete.
LEMMA DidWithout ==
  ASSUME NEW D, NEW p, NEW c, NEW a, NEW w, Did(D, c, a, w), InOrder(D \ {p}, a)
  PROVE  Did(D \ {p}, c, a, w)
BY DEF Did

\* What a request keeps when it has committed.
LEMMA CommitLocal ==
  ASSUME NEW k \in Request, NEW b, NEW n
  PROVE  LET l == [k EXCEPT !.pc = "mark", !.checkpoint.branch = b,
                            !.checkpoint.commitSha = n]
         IN  /\ l.pc = "mark" /\ l.action = k.action /\ l.done = k.done
             /\ l.phase = k.phase /\ l.prSeen = k.prSeen
             /\ l.checkpoint = [k.checkpoint EXCEPT !.branch = b, !.commitSha = n]
<1> DEFINE j == [k EXCEPT !.pc = "mark", !.checkpoint.branch = b]
           l == [k EXCEPT !.pc = "mark", !.checkpoint.branch = b,
                          !.checkpoint.commitSha = n]
<1>1. /\ j.checkpoint = [k.checkpoint EXCEPT !.branch = b]
      /\ "checkpoint" \in DOMAIN j
  BY DEF Request
<1>2. l = [j EXCEPT !.checkpoint = [@ EXCEPT !.commitSha = n]]
  OBVIOUS
<1>3. l.checkpoint = [[k.checkpoint EXCEPT !.branch = b] EXCEPT !.commitSha = n]
  BY <1>1, <1>2
<1>4. /\ l.pc = "mark" /\ l.action = k.action /\ l.done = k.done
      /\ l.phase = k.phase /\ l.prSeen = k.prSeen
  BY DEF Request
<1> QED BY <1>3, <1>4

-----------------------------------------------------------------------------
LEMMA DeliveryInvariant ==
  ASSUME ~RetriesOverlap, ~OutliveLease, DeliverableActions
  PROVE  Spec => []DeliveryInv
<1>1. Init => DeliveryInv
  <2> SUFFICES ASSUME Init PROVE DeliveryInv
    OBVIOUS
  <2>1. WorldOK(World)
    <3>1. /\ sandbox.head = 0 /\ sandbox.branch = InitialBranch
          /\ \A b \in Branches : github.remote[b] = 0
          /\ github.pulls = {} /\ ~thread.pullRequestNumber
      BY DEF Init, StoreInit
    <3>2. WorkspaceMode = "checkout" => InitialBranch = BaseBranch
      BY DEF InitialBranch
    <3> QED BY <3>1, <3>2 DEF WorldOK, World
  <2>2. \A o \in OpIds : RecordDid(ops[o], World)
    BY DEF Init, StoreInit, NoOperation, Completed, RecordDid
  <2>3. \A r \in Requests : req[r] = IdleRequest
    BY DEF Init
  <2>4. RenamesInTime
    BY <2>3 DEF RenamesInTime, IdleRequest
  <2> QED BY <2>1, <2>2, <2>3, <2>4, IdleDid DEF DeliveryInv
<1>2. /\ TypeInv /\ TypeInv' /\ LeaseInv /\ RecordInv /\ DeliveryInv
      /\ [Next]_vars
      => DeliveryInv'
  <2> SUFFICES ASSUME TypeInv, TypeInv', LeaseInv, RecordInv, DeliveryInv, [Next]_vars
               PROVE  DeliveryInv'
    OBVIOUS
  <2> USE DEF At
  <2> DEFINE w == World
             v == World'
  <2>a. /\ World \in Worlds /\ World' \in Worlds
        /\ WorldOK(World) /\ RenamesInTime
        /\ \A o \in OpIds : RecordDid(ops[o], World) /\ ops[o] \in Operation
        /\ \A r \in Requests : /\ RequestDid(req[r], World)
                               /\ req[r] \in Request /\ LocalOK(req[r])
    BY WorldType DEF DeliveryInv, TypeInv, TypeOK, StoreTypeOK
  <2>b. ASSUME NEW r \in Requests, req[r].pc \in RunnerPC
        PROVE  /\ req[r].pc \in WorkflowPC
               /\ req[r].op \in OpIds
               /\ RunnerOK(req[r], ops[req[r].op], sandbox.head)
               /\ req[r].action \in Actions
               /\ RecordDid(ops[req[r].op], World)
               /\ ops[req[r].op].status = "running"
               /\ ops[req[r].op].action = req[r].action
    <3>1. req[r].pc \in WorkflowPC
      BY <2>b DEF RunnerPC, LoopPC, WorkflowPC
    <3>2. req[r].op \in OpIds /\ RunnerOK(req[r], ops[req[r].op], sandbox.head)
      BY <2>b, <3>1, RunnerHasOperation DEF RecordInv
    <3> QED BY <2>a, <2>b, <3>1, <3>2 DEF RequestDid, RunnerOK
  \* a request in a phase
  <2>c. ASSUME NEW r \in Requests, req[r].pc \in PhasePC
        PROVE  /\ req[r].phase \in Phase
               /\ req[r].phase \in ActionPhases(req[r].action)
               /\ req[r].phase \notin req[r].done
               /\ \A q \in ActionPhases(req[r].action) :
                    Rank[q] < Rank[req[r].phase] => q \in req[r].done
               /\ Did(req[r].done, req[r].checkpoint, req[r].action, World)
               /\ req[r].done \in SUBSET Phase
               /\ req[r].checkpoint \in Checkpoint
               /\ req[r].pc \in LoopPC /\ req[r].pc \in RunnerPC
    <3>1. req[r].pc \in LoopPC /\ req[r].pc \in RunnerPC
      BY <2>c DEF PhasePC, RunnerPC
    <3>2. req[r].phase \in Phase /\ req[r].phase = NextPhase(req[r].action, req[r].done)
      BY <2>b, <2>c, <3>1 DEF RunnerOK
    <3>3. /\ Did(req[r].done, req[r].checkpoint, req[r].action, World)
          /\ req[r].done \in SUBSET Phase
          /\ req[r].checkpoint \in Checkpoint
      BY <2>a, <3>1 DEF RequestDid, Request
    <3> QED BY <3>1, <3>2, <3>3, EarlierAreDone
  <2>d. ASSUME NEW r \in Requests, Become(r, IdleRequest), UNCHANGED ops,
               UNCHANGED <<sandbox, github, thread>>
        PROVE  DeliveryInv'
    BY <2>d, IdleDid, QuietDelivery DEF IdleRequest, RenamingPC
  <2>e. ASSUME NEW r \in Requests, NEW pc, Become(r, To(r, pc)),
               pc \notin LoopPC \cup RenamingPC \cup {"fail"},
               pc \in WorkflowPC => req[r].pc \in WorkflowPC,
               UNCHANGED <<sandbox, github, thread>>,
               \/ UNCHANGED ops
               \/ /\ req[r].op \in OpIds /\ Only(req[r].op)
                  /\ RecordDid(ops'[req[r].op], World)
        PROVE  DeliveryInv'
    BY <2>a, <2>e, DidTo, ToKeeps, QuietDelivery
  <2>f. ASSUME NEW r \in Requests, Become(r, To(r, "fail")), req[r].pc \in LoopPC,
               UNCHANGED <<sandbox, github, thread>>,
               \/ UNCHANGED ops
               \/ /\ req[r].op \in OpIds /\ Only(req[r].op)
                  /\ RecordDid(ops'[req[r].op], World)
        PROVE  DeliveryInv'
    BY <2>a, <2>f, DidFail, ToKeeps, QuietDelivery DEF RenamingPC
  <2>1. ASSUME NEW r \in Requests, Begin(r) PROVE DeliveryInv'
    <3> DEFINE o == req[r].op
               a == req[r].action
    <3>1. /\ req[r].pc = "begin" /\ req[r].pc \in WorkflowPC
          /\ UNCHANGED <<sandbox, github>>
          /\ o \in OpIds
      BY <2>1, RunnerHasOperation DEF Begin, Call, WorkflowPC
    <3>2. CASE Become(r, IdleRequest) /\ UNCHANGED <<ops, thread>>
      BY <2>d, <3>1, <3>2
    <3>3. CASE BeginGitOperation(o, a)
      <4>1. /\ UNCHANGED thread /\ Only(o)
            /\ ops'[o].status = "running" /\ ops'[o].action = a
            /\ ops'[o].results = ops[o].results
            /\ ops'[o].checkpoint = ops[o].checkpoint
            /\ ops[o].status # "absent" => ops[o].action = a
        BY <3>1, <3>3, BeginWrites DEF BeginGitOperation
      <4>2. a \in Actions
        BY <2>a, <3>1 DEF RequestDid
      <4>3. Did(Completed(ops[o].results), ops[o].checkpoint, a, World)
        <5>1. CASE ops[o].status = "absent"
          <6>1. Completed(ops[o].results) = {} /\ ops[o].checkpoint = NoCheckpoint
            BY <2>a, <3>1, <5>1 DEF RecordDid
          <6>2. Did({}, NoCheckpoint, a, World)
            BY DEF Did, InOrder, NoCheckpoint
          <6> QED BY <6>1, <6>2
        <5>2. CASE ops[o].status # "absent"
          BY <2>a, <3>1, <4>1, <5>2 DEF RecordDid
        <5> QED BY <5>1, <5>2
      <4>4. RecordDid(ops'[o], World)
        BY <4>1, <4>2, <4>3 DEF RecordDid
      <4>5. CASE Become(r, IdleRequest)
        BY <3>1, <4>1, <4>4, <4>5, IdleDid, QuietDelivery DEF IdleRequest, RenamingPC
      <4>6. CASE Become(r, Resume(r))
        <5>1. /\ Resume(r).pc = "precheck" /\ Resume(r).action = a
              /\ Resume(r).prSeen = req[r].prSeen
          BY <2>a DEF Resume, Request
        <5>2. RequestDid(Resume(r), World)
          BY <2>a, <4>2, <5>1 DEF RequestDid, LoopPC, WorkflowPC, PullRequestPC
        <5> QED BY <3>1, <4>1, <4>4, <4>6, <5>1, <5>2, QuietDelivery DEF RenamingPC
      <4> QED BY <2>1, <3>3, <4>5, <4>6 DEF Begin, BeginGitOperation, Call, storeVars
    <3> QED BY <2>1, <3>2, <3>3 DEF Begin, Call, storeVars
  <2>2. ASSUME NEW r \in Requests, Precheck(r) PROVE DeliveryInv'
    <3> DEFINE m == [req[r] EXCEPT !.expected = IF WorkspaceMode = "checkout"
                                                THEN sandbox.branch ELSE @]
    <3>1. /\ req[r].pc = "precheck" /\ req[r].pc \in RunnerPC
          /\ UNCHANGED <<ops, thread, sandbox, github>>
      BY <2>2 DEF Precheck, RunnerPC
    <3>2. /\ req[r].done = Completed(ops[req[r].op].results)
          /\ req[r].checkpoint = ops[req[r].op].checkpoint
          /\ req[r].action \in Actions
          /\ Did(req[r].done, req[r].checkpoint, req[r].action, World)
      BY <2>b, <3>1 DEF RunnerOK, RecordDid
    <3>3. CASE Become(r, NextIteration(m))
      <4>1. /\ NextIteration(m).pc \in {"start", "finish"}
            /\ NextIteration(m).action = req[r].action
            /\ NextIteration(m).done = req[r].done
            /\ NextIteration(m).checkpoint = req[r].checkpoint
            /\ NextIteration(m).prSeen = req[r].prSeen
        BY <2>a DEF NextIteration, Request
      <4>2. RequestDid(NextIteration(m), World)
        BY <2>a, <3>2, <4>1 DEF RequestDid, PullRequestPC
      <4> HIDE DEF m
      <4> QED BY <3>1, <3>3, <4>1, <4>2, QuietDelivery DEF RenamingPC
    <3>4. ASSUME NEW p, Become(r, [req[r] EXCEPT !.pc = "prefail", !.phase = p])
          PROVE  DeliveryInv'
      <4> DEFINE l == [req[r] EXCEPT !.pc = "prefail", !.phase = p]
      <4>1. /\ l.pc = "prefail" /\ l.action = req[r].action
            /\ l.prSeen = req[r].prSeen
        BY <2>a DEF Request
      <4>2. RequestDid(l, World)
        BY <2>a, <3>2, <4>1 DEF RequestDid, PullRequestPC, LoopPC
      <4>3. Become(r, l)
        BY <3>4
      <4> HIDE DEF l
      <4> QED BY <3>1, <4>1, <4>2, <4>3, QuietDelivery DEF RenamingPC
    <3> QED BY <2>2, <3>3, <3>4 DEF Precheck
  <2>3. ASSUME NEW r \in Requests, FailBeforeExecution(r) PROVE DeliveryInv'
    <3> DEFINE o == req[r].op
               p == req[r].phase
    <3>1. /\ req[r].pc = "prefail" /\ req[r].pc \in RunnerPC
          /\ Become(r, To(r, "release")) /\ UNCHANGED <<sandbox, github>>
      BY <2>3 DEF FailBeforeExecution, Call, RunnerPC
    <3>2. CASE UNCHANGED <<ops, thread>>
      BY <2>b, <2>e, <3>1, <3>2 DEF LoopPC, WorkflowPC, RenamingPC
    <3>3. CASE FailGitOperation(o, p)
      <4>1. p \in {"branch", "validate"} /\ p \in Phase
        BY <2>b, <3>1 DEF RunnerOK, Phase
      <4>2. /\ Only(o)
            /\ ops'[o].status = "failed" /\ ops'[o].action = ops[o].action
            /\ Completed(ops'[o].results) = Completed(ops[o].results) \ {p}
            /\ ops'[o].checkpoint = ops[o].checkpoint
        BY <2>b, <3>1, <3>3, <4>1, FailWrites
      <4>3. UNCHANGED thread
        BY <3>3 DEF FailGitOperation
      <4>4. RecordDid(ops'[o], World)
        <5>1. Did(Completed(ops[o].results), ops[o].checkpoint, ops[o].action, World)
          BY <2>b, <3>1 DEF RecordDid
        <5>2. InOrder(Completed(ops[o].results) \ {p}, ops[o].action)
          BY <4>1, <5>1 DEF Did, InOrder
        <5> QED
          <6>0. Did(Completed(ops[o].results) \ {p}, ops[o].checkpoint, ops[o].action, World)
            BY <5>1, <5>2, DidWithout
          <6>1. Did(Completed(ops'[o].results), ops'[o].checkpoint, ops'[o].action, World)
            BY <4>2, <6>0
          <6>2. ops'[o].action \in Actions
            BY <2>b, <3>1, <4>2
          <6> QED BY <4>2, <6>1, <6>2 DEF RecordDid
      <4> QED BY <2>b, <2>e, <3>1, <4>2, <4>3, <4>4 DEF LoopPC, WorkflowPC, RenamingPC
    <3> QED BY <2>3, <3>2, <3>3 DEF FailBeforeExecution, Call, storeVars
  <2>4. ASSUME NEW r \in Requests, OnPhaseFailure(r) PROVE DeliveryInv'
    <3> DEFINE o == req[r].op
               p == req[r].phase
               D == Completed(ops[o].results)
    <3>1. /\ req[r].pc = "fail" /\ req[r].pc \in RunnerPC
          /\ \E pc \in {"prFailed", "release"} : Become(r, To(r, pc))
          /\ UNCHANGED <<sandbox, github>>
      BY <2>4 DEF OnPhaseFailure, Call, RunnerPC
    <3>2. CASE UNCHANGED <<ops, thread>>
      BY <2>b, <2>e, <3>1, <3>2 DEF LoopPC, WorkflowPC, RenamingPC
    <3>3. CASE FailGitOperation(o, p)
      <4>1. /\ p \in Phase /\ p = NextPhase(req[r].action, req[r].done)
            /\ D \subseteq req[r].done \cup {p}
        BY <2>b, <3>1 DEF RunnerOK
      <4>2. /\ Only(o)
            /\ ops'[o].status = "failed" /\ ops'[o].action = ops[o].action
            /\ Completed(ops'[o].results) = D \ {p}
            /\ ops'[o].checkpoint = ops[o].checkpoint
        BY <2>b, <3>1, <3>3, <4>1, FailWrites
      <4>3. UNCHANGED thread
        BY <3>3 DEF FailGitOperation
      <4>4. RecordDid(ops'[o], World)
        <5>1. Did(D, ops[o].checkpoint, ops[o].action, World)
          BY <2>b, <3>1 DEF RecordDid
        <5>2. InOrder(D \ {p}, ops[o].action)
          <6>1. InOrder(req[r].done, req[r].action) /\ p \notin req[r].done
            <7>1. InOrder(req[r].done, req[r].action)
              BY <2>a, <3>1 DEF RequestDid
            <7> QED BY <4>1, <7>1, EarlierAreDone
          <6> QED BY <2>b, <3>1, <4>1, <5>1, <6>1 DEF Did, InOrder
        <5> QED
          <6>0. Did(D \ {p}, ops[o].checkpoint, ops[o].action, World)
            BY <5>1, <5>2, DidWithout
          <6>1. Did(Completed(ops'[o].results), ops'[o].checkpoint, ops'[o].action, World)
            BY <4>2, <6>0
          <6>2. ops'[o].action \in Actions
            BY <2>b, <3>1, <4>2
          <6> QED BY <4>2, <6>1, <6>2 DEF RecordDid
      <4> QED BY <2>b, <2>e, <3>1, <4>2, <4>3, <4>4 DEF LoopPC, WorkflowPC, RenamingPC
    <3> QED BY <2>4, <3>2, <3>3 DEF OnPhaseFailure, Call, storeVars
  <2>5. ASSUME NEW r \in Requests, OnPhaseStart(r) PROVE DeliveryInv'
    <3> DEFINE o == req[r].op
               p == req[r].phase
    <3>1. /\ req[r].pc = "start" /\ req[r].pc \in PhasePC
          /\ UNCHANGED <<sandbox, github>>
      BY <2>5 DEF OnPhaseStart, Call, PhasePC, LoopPC, WorkflowPC
    <3>2. CASE UNCHANGED <<ops, thread>> /\ Become(r, To(r, "release"))
      BY <2>b, <2>c, <2>e, <3>1, <3>2 DEF LoopPC, WorkflowPC, RenamingPC
    <3>3. CASE StartGitOperationPhase(o, p)
      <4>1. /\ o \in OpIds /\ p \in Phase
            /\ RunnerOK(req[r], ops[o], sandbox.head)
            /\ p \notin Completed(ops[o].results)
        BY <2>b, <2>c, <3>1 DEF RunnerOK
      <4>2. /\ Only(o)
            /\ ops'[o].status = "running" /\ ops'[o].action = ops[o].action
            /\ Completed(ops'[o].results) = Completed(ops[o].results) \ {p}
            /\ ops'[o].checkpoint = ops[o].checkpoint
        BY <3>3, <4>1, StartWrites
      <4>3. Completed(ops'[o].results) = Completed(ops[o].results)
        BY <4>1, <4>2
      <4>4. RecordDid(ops[o], World) /\ ops[o].status = "running"
        BY <2>b, <2>c, <3>1
      <4>5. RecordDid(ops'[o], World)
        BY <4>2, <4>3, <4>4 DEF RecordDid
      <4>6. UNCHANGED thread
        BY <3>3 DEF StartGitOperationPhase
      <4>7. ASSUME NEW pc \in {"prContext", "handle"}, Become(r, To(r, pc)),
                   pc = "prContext" => p = "pull_request"
            PROVE  DeliveryInv'
        <5>1. RequestDid(To(r, pc), World)
          BY <2>a, <2>c, <3>1, <4>7, DidMoves DEF LoopPC, WorkflowPC, PullRequestPC
        <5> QED BY <3>1, <4>1, <4>2, <4>5, <4>6, <4>7, <5>1, ToKeeps, QuietDelivery
          DEF RenamingPC
      <4>8. CASE Become(r, To(r, "release"))
        BY <2>b, <2>c, <2>e, <3>1, <4>1, <4>2, <4>5, <4>6, <4>8
        DEF LoopPC, WorkflowPC, RenamingPC
      <4> QED BY <2>5, <4>7, <4>8 DEF OnPhaseStart, Call
    <3> QED BY <2>5, <3>2, <3>3 DEF OnPhaseStart, Call, storeVars
  <2>6. ASSUME NEW r \in Requests, OnPhaseComplete(r) PROVE DeliveryInv'
    <3> DEFINE o == req[r].op
               p == req[r].phase
               c == req[r].checkpoint
               l == [req[r] EXCEPT !.done = @ \cup {req[r].phase}]
    <3>1. /\ req[r].pc = "complete" /\ req[r].pc \in PhasePC
          /\ UNCHANGED <<sandbox, github>>
      BY <2>6 DEF OnPhaseComplete, Call, PhasePC, LoopPC, WorkflowPC
    <3>2. CASE UNCHANGED <<ops, thread>> /\ Become(r, To(r, "fail"))
      BY <2>c, <2>f, <3>1, <3>2
    <3>3. CASE CompleteGitOperationPhase(o, p, c)
      <4>1. /\ o \in OpIds /\ p \in Phase
            /\ RunnerOK(req[r], ops[o], sandbox.head)
            /\ ops[o].status = "running" /\ ops[o].action = req[r].action
            /\ req[r].action \in Actions
            /\ ops[o].checkpoint \in Checkpoint /\ c \in Checkpoint
        BY <2>a, <2>b, <2>c, <3>1 DEF Operation
      <4>2. /\ Only(o)
            /\ ops'[o].status = ops[o].status /\ ops'[o].action = ops[o].action
            /\ Completed(ops'[o].results) = Completed(ops[o].results) \cup {p}
            /\ ops'[o].checkpoint = MergeCheckpoint(ops[o].checkpoint, c)
        BY <3>3, <4>1, CompleteWrites
      <4>3. /\ Completed(ops[o].results) = req[r].done
            /\ MergeCheckpoint(ops[o].checkpoint, c) = c
        BY <3>1, <4>1, MergeExtends DEF RunnerOK, LoopPC, WorkflowPC
      <4>4. Did(req[r].done \cup {p}, c, req[r].action, World)
        BY <2>a, <3>1 DEF RequestDid
      <4>5. RecordDid(ops'[o], World)
        BY <4>1, <4>2, <4>3, <4>4 DEF RecordDid
      <4>6. UNCHANGED thread
        BY <3>3 DEF CompleteGitOperationPhase
      <4>7. CASE Become(r, To(r, "fail"))
        BY <2>c, <2>f, <3>1, <4>1, <4>2, <4>5, <4>6, <4>7
      <4>8. CASE Become(r, NextIteration(l))
        <5>1. /\ NextIteration(l).pc \in {"start", "finish"}
              /\ NextIteration(l).action = req[r].action
              /\ NextIteration(l).done = req[r].done \cup {p}
              /\ NextIteration(l).checkpoint = c
              /\ NextIteration(l).prSeen = req[r].prSeen
          BY <2>a DEF NextIteration, Request
        <5>2. RequestDid(NextIteration(l), World)
          BY <2>a, <4>1, <4>4, <5>1 DEF RequestDid, PullRequestPC
        <5> HIDE DEF l
        <5> QED BY <3>1, <4>1, <4>2, <4>5, <4>6, <4>8, <5>1, <5>2, QuietDelivery
          DEF RenamingPC
      <4> QED BY <2>6, <4>7, <4>8 DEF OnPhaseComplete, Call
    <3> QED BY <2>6, <3>2, <3>3 DEF OnPhaseComplete, Call, storeVars
  <2>7. ASSUME NEW r \in Requests, Finish(r) PROVE DeliveryInv'
    <3> DEFINE o == req[r].op
    <3>1. /\ req[r].pc = "finish" /\ req[r].pc \in RunnerPC
          /\ UNCHANGED <<sandbox, github>>
          /\ Become(r, IdleRequest) \/ Become(r, To(r, "release"))
      BY <2>7 DEF Finish, Call, RunnerPC, LoopPC, WorkflowPC
    <3>2. CASE UNCHANGED <<ops, thread>>
      BY <2>b, <2>d, <2>e, <3>1, <3>2 DEF LoopPC, WorkflowPC, RenamingPC
    <3>3. CASE CompleteGitOperation(o)
      <4>1. /\ o \in OpIds /\ RecordDid(ops[o], World) /\ ops[o].status = "running"
        BY <2>b, <3>1
      <4>2. /\ Only(o)
            /\ ops'[o].status = "succeeded" /\ ops'[o].action = ops[o].action
            /\ ops'[o].results = ops[o].results
            /\ ops'[o].checkpoint = ops[o].checkpoint
        BY <3>3, <4>1, FinishWrites
      <4>3. RecordDid(ops'[o], World)
        BY <4>1, <4>2 DEF RecordDid
      <4>4. UNCHANGED thread
        BY <3>3 DEF CompleteGitOperation
      <4>5. CASE Become(r, IdleRequest)
        BY <3>1, <4>1, <4>2, <4>3, <4>4, <4>5, IdleDid, QuietDelivery
        DEF IdleRequest, RenamingPC
      <4>6. CASE Become(r, To(r, "release"))
        BY <2>b, <2>e, <3>1, <4>1, <4>2, <4>3, <4>4, <4>6
        DEF LoopPC, WorkflowPC, RenamingPC
      <4> QED BY <3>1, <4>5, <4>6
    <3> QED BY <2>7, <3>2, <3>3 DEF Finish, Call, storeVars
  <2>8. ASSUME NEW r \in Requests, ReleaseOperationLease(r) \/ Crash(r)
        PROVE  DeliveryInv'
    BY <2>8, <2>d DEF ReleaseOperationLease, Crash, ReleaseGitOperationLease, Call, storeVars
  <2>9. ASSUME NEW r \in Requests, HandlerFails(r) PROVE DeliveryInv'
    BY <2>9, <2>f DEF HandlerFails, Goto, To, LoopPC, WorkflowPC
  <2>10. ASSUME NEW r \in Requests, ValidatePhase(r) PROVE DeliveryInv'
    <3>1. /\ req[r].pc = "handle" /\ req[r].phase = "validate" /\ req[r].pc \in PhasePC
          /\ UNCHANGED <<lease, ops, thread, sandbox, github, faults>>
      BY <2>10 DEF ValidatePhase, InPhase, PhasePC, LoopPC, WorkflowPC
    <3>2. CASE Become(r, To(r, "fail"))
      BY <2>c, <2>f, <3>1, <3>2
    <3>3. CASE Become(r, To(r, "complete")) /\ (NeedsCommit(req[r].action) => sandbox.dirty)
      <4>1. Did(req[r].done \cup {"validate"}, req[r].checkpoint, req[r].action, World)
        BY <2>c, <3>1, <3>3 DEF Did, InOrder, Dirty, World
      <4>2. RequestDid(To(r, "complete"), World)
        BY <2>a, <2>c, <3>1, <4>1, DidMoves DEF LoopPC, WorkflowPC, PullRequestPC
      <4> QED BY <3>1, <3>3, <4>2, ToKeeps, QuietDelivery DEF RenamingPC
    <3> QED BY <2>10, <3>2, <3>3 DEF ValidatePhase, InPhase, Goto, To
  <2>11. ASSUME NEW r \in Requests, PullRequestContext(r) PROVE DeliveryInv'
    <3>1. /\ req[r].pc = "prContext" /\ req[r].pc \in PhasePC
          /\ UNCHANGED <<lease, ops, thread, sandbox, github, faults>>
          /\ Become(r, To(r, "prCreating")) \/ Become(r, To(r, "fail"))
      BY <2>11 DEF PullRequestContext, Goto, To, PhasePC, LoopPC, WorkflowPC
    <3>2. CASE Become(r, To(r, "fail"))
      BY <2>c, <2>f, <3>1, <3>2
    <3>3. CASE Become(r, To(r, "prCreating"))
      <4>1. req[r].phase = "pull_request"
        BY <2>a, <3>1 DEF RequestDid, PullRequestPC
      <4>2. RequestDid(To(r, "prCreating"), World)
        BY <2>a, <2>c, <3>1, <4>1, DidMoves DEF LoopPC, WorkflowPC
      <4> QED BY <3>1, <3>3, <4>2, ToKeeps, QuietDelivery DEF RenamingPC
    <3> QED BY <3>1, <3>2, <3>3
  <2>12. ASSUME NEW r \in Requests, FindPullRequest(r) PROVE DeliveryInv'
    <3>1. /\ req[r].pc = "prFind" /\ req[r].pc \in PhasePC
          /\ UNCHANGED <<lease, ops, thread, sandbox, github, faults>>
      BY <2>12 DEF FindPullRequest, PhasePC, LoopPC, WorkflowPC
    <3>2. ASSUME NEW pc \in {"prCreated", "prCreate"}, Become(r, To(r, pc)),
                 pc = "prCreated" => github.pulls # {}
          PROVE  DeliveryInv'
      <4>1. req[r].phase = "pull_request"
        BY <2>a, <3>1 DEF RequestDid, PullRequestPC
      <4>2. RequestDid(To(r, pc), World)
        BY <2>a, <2>c, <3>1, <3>2, <4>1, DidMoves DEF LoopPC, WorkflowPC, World
      <4> QED BY <3>1, <3>2, <4>2, ToKeeps, QuietDelivery DEF RenamingPC
    <3>3. req[r].prSeen => github.pulls # {}
      BY <2>a DEF RequestDid, WorldOK, World
    <3> QED BY <2>12, <3>2, <3>3 DEF FindPullRequest, Goto, To
  <2>13. ASSUME NEW r \in Requests, NEW o \in OpIds, NEW a \in Actions, Submit(r, o, a)
         PROVE  DeliveryInv'
    <3> DEFINE l == [IdleRequest EXCEPT !.pc = "begin", !.op = o, !.action = a,
                       !.expected = thread.branch, !.prSeen = thread.pullRequestNumber]
    <3>1. l.pc = "begin" /\ l.action = a /\ l.prSeen = thread.pullRequestNumber
      BY DEF IdleRequest
    <3>2. RequestDid(l, World)
      BY <3>1 DEF RequestDid, World, LoopPC, WorkflowPC, PullRequestPC
    <3>3. Become(r, l) /\ UNCHANGED <<ops, thread, sandbox, github>>
      BY <2>13 DEF Submit
    <3>4. l.pc \notin RenamingPC
      BY <3>1 DEF RenamingPC
    <3> HIDE DEF l
    <3> QED BY <3>2, <3>3, <3>4, QuietDelivery DEF RenamingPC
  <2>14. ASSUME NEW r \in Requests, SubmitRename(r) PROVE DeliveryInv'
    <3> DEFINE l == [IdleRequest EXCEPT !.pc = "lock"]
    <3>1. l.pc = "lock" /\ ~l.prSeen
      BY DEF IdleRequest
    <3>2. RequestDid(l, World)
      BY <3>1 DEF RequestDid, World, LoopPC, WorkflowPC, PullRequestPC
    <3>3. Become(r, l) /\ UNCHANGED <<ops, thread, sandbox, github>>
      BY <2>14 DEF SubmitRename
    <3>4. l.pc \notin RenamingPC
      BY <3>1 DEF RenamingPC
    <3> HIDE DEF l
    <3> QED BY <3>2, <3>3, <3>4, QuietDelivery DEF RenamingPC
  <2>15. ASSUME NEW r \in Requests, Lock(r) \/ Unlock(r) PROVE DeliveryInv'
    BY <2>15, <2>d, <2>e DEF Lock, Unlock, BeginGitMutation, EndGitMutation, Call,
         storeVars, LoopPC, WorkflowPC, RenamingPC
  <2>16. ASSUME NEW r \in Requests, Reread(r) PROVE DeliveryInv'
    <3>1. ASSUME NEW pc \in {"rename", "unlock"},
                 Become(r, [req[r] EXCEPT !.pc = pc, !.expected = thread.branch]),
                 pc = "rename" => /\ WorkspaceMode = "worktree"
                                  /\ thread.commitStatus = "none"
          PROVE  DeliveryInv'
      <4> DEFINE l == [req[r] EXCEPT !.pc = pc, !.expected = thread.branch]
      <4>1. l.pc = pc /\ l.prSeen = req[r].prSeen
        BY <2>a DEF Request
      <4>2. RequestDid(l, World)
        BY <2>a, <4>1 DEF RequestDid, LoopPC, WorkflowPC, PullRequestPC
      <4>3. Become(r, l) /\ UNCHANGED <<ops, thread, sandbox, github>>
        BY <2>16, <3>1 DEF Reread
      <4> HIDE DEF l
      <4> QED BY <3>1, <4>1, <4>2, <4>3, QuietDelivery DEF RenamingPC
    <3> QED BY <2>16, <3>1 DEF Reread, CanUpdateGeneratedFeatureBranch
  \* a phase given up, or a request that leaves, after a step that changed the world
  <2>g. ASSUME NEW r \in Requests, NEW pc, Become(r, To(r, pc)),
               UNCHANGED ops, Grows(World, World'), WorldOK(World'),
               \/ pc = "fail" /\ req[r].pc \in LoopPC
               \/ /\ pc \notin LoopPC \cup {"rename", "save", "fail"}
                  /\ pc \in WorkflowPC => req[r].pc \in WorkflowPC
                  /\ pc = "undo" => req[r].pc \in RenamingPC,
               thread'.commitStatus = thread.commitStatus \/ req[r].pc = "mark"
        PROVE  DeliveryInv'
    <3>1. RequestDid(req[r], World')
      BY <2>a, <2>g, RequestDidGrows
    <3>2. RequestDid(To(r, pc), World')
      BY <2>g, <3>1, DidFail, DidTo
    <3>3. ASSUME req[r].pc = "mark", NEW s \in Requests, s # r, req[s].pc \in RenamingPC
          PROVE  FALSE
      BY <3>3, OneHolder, HoldsPC DEF HoldPC, RenamingPC, WorkflowPC, RenamePC
    <3>4. To(r, pc).pc = pc
      BY ToKeeps
    <3>5. pc \in RenamingPC => /\ WorkspaceMode = "worktree"
                               /\ thread'.commitStatus = "none"
      BY <2>a, <2>g DEF RenamingPC, RenamesInTime
    <3> QED BY <2>g, <3>2, <3>3, <3>4, <3>5, DeliveryStep
  <2>17. ASSUME NEW r \in Requests, MarkCommitted(r) PROVE DeliveryInv'
    <3> DEFINE status == IF req[r].phase = "push" THEN "pushed" ELSE "committed"
    <3>1. /\ req[r].pc = "mark" /\ req[r].pc \in PhasePC
          /\ UNCHANGED <<ops, sandbox, github>>
          /\ Become(r, To(r, "complete")) \/ Become(r, To(r, "fail"))
      BY <2>17 DEF MarkCommitted, MarkChangesCommitted, Call, storeVars, PhasePC,
           LoopPC, WorkflowPC
    <3>2. CASE UNCHANGED thread /\ Become(r, To(r, "fail"))
      BY <2>c, <2>f, <3>1, <3>2
    <3>3. CASE MarkChangesCommitted(status, WorkBranch(r), req[r].checkpoint.commitSha)
      <4>1. /\ thread'.commitStatus = status /\ status # "none"
            /\ thread'.pullRequestNumber = thread.pullRequestNumber
        BY <3>3 DEF MarkChangesCommitted, TypeInv, TypeOK, StoreTypeOK, ThreadFields
      <4>2. Grows(World, World') /\ WorldOK(World') /\ Marked(World')
        BY <2>a, <3>1, <4>1, NoGrowth DEF Grows, WorldOK, World, Marked, Dirty
      <4>3. CASE Become(r, To(r, "fail"))
        BY <2>c, <2>g, <3>1, <4>2, <4>3
      <4>4. CASE Become(r, To(r, "complete"))
        <5>1. RequestDid(req[r], World')
          BY <2>a, <4>2, RequestDidGrows
        <5>2. Did(req[r].done \cup {req[r].phase}, req[r].checkpoint,
                  req[r].action, World')
          <6>1. /\ req[r].phase \in {"commit", "push"}
                /\ Did(req[r].done, req[r].checkpoint, req[r].action, World')
                /\ req[r].phase = "commit" => req[r].checkpoint.commitSha >= 1
            BY <2>c, <3>1, <5>1 DEF RequestDid
          <6>2. CASE req[r].phase = "push"
            BY <3>1, <5>1, <6>2 DEF RequestDid
          <6>3. CASE req[r].phase = "commit"
            BY <4>2, <6>1, <6>3 DEF Did, InOrder
          <6> QED BY <6>1, <6>2, <6>3
        <5>3. RequestDid(To(r, "complete"), World')
          BY <2>c, <3>1, <5>1, <5>2, DidMoves DEF LoopPC, WorkflowPC, PullRequestPC
        <5>4. ASSUME NEW s \in Requests, s # r, req[s].pc \in RenamingPC
              PROVE  FALSE
          BY <3>1, <5>4, OneHolder, HoldsPC DEF HoldPC, RenamingPC, WorkflowPC, RenamePC
        <5>5. To(r, "complete").pc \notin RenamingPC
          BY ToKeeps DEF RenamingPC
        <5> QED BY <3>1, <4>2, <4>4, <5>3, <5>4, <5>5, DeliveryStep
      <4> QED BY <3>1, <4>3, <4>4
    <3> QED BY <2>17, <3>1, <3>2, <3>3 DEF MarkCommitted, Call, storeVars
  <2>18. ASSUME NEW r \in Requests,
                MarkPullRequestCreating(r) \/ MarkPullRequestFailed(r)
         PROVE  DeliveryInv'
    <3>1. /\ UNCHANGED <<ops, sandbox, github>>
          /\ thread'.commitStatus = thread.commitStatus
          /\ thread'.pullRequestNumber = thread.pullRequestNumber
          /\ \/ /\ req[r].pc = "prCreating"
                /\ Become(r, To(r, "prFind")) \/ Become(r, To(r, "fail"))
             \/ req[r].pc = "prFailed" /\ Become(r, To(r, "release"))
      BY <2>18 DEF MarkPullRequestCreating, MarkPullRequestFailed, MarkPullRequest,
           Call, storeVars, TypeInv, TypeOK, StoreTypeOK, ThreadFields
    <3>2. Grows(World, World') /\ WorldOK(World')
      BY <2>a, <3>1, NoGrowth DEF Grows, WorldOK, World, Marked, Dirty
    <3>3. CASE req[r].pc = "prCreating" /\ Become(r, To(r, "prFind"))
      <4>1. req[r].pc \in PhasePC
        BY <3>3 DEF PhasePC, LoopPC, WorkflowPC
      <4>2. RequestDid(req[r], World') /\ req[r].phase = "pull_request"
        BY <2>a, <3>2, <3>3, RequestDidGrows DEF RequestDid, PullRequestPC
      <4>3. RequestDid(To(r, "prFind"), World')
        BY <2>c, <4>1, <4>2, DidMoves DEF LoopPC, WorkflowPC
      <4>4. To(r, "prFind").pc \notin RenamingPC
        BY ToKeeps DEF RenamingPC
      <4> QED BY <3>1, <3>2, <3>3, <4>3, <4>4, DeliveryStep
    <3>4. CASE req[r].pc = "prCreating" /\ Become(r, To(r, "fail"))
      BY <2>g, <3>1, <3>2, <3>4 DEF LoopPC, WorkflowPC
    <3>5. CASE req[r].pc = "prFailed" /\ Become(r, To(r, "release"))
      BY <2>g, <3>1, <3>2, <3>5 DEF LoopPC, WorkflowPC
    <3> QED BY <3>1, <3>3, <3>4, <3>5
  <2>19. ASSUME NEW r \in Requests, MarkPullRequestCreated(r) PROVE DeliveryInv'
    <3> DEFINE c == req[r].checkpoint
               d == [c EXCEPT !.pullRequest = TRUE]
               l == [req[r] EXCEPT !.pc = "complete", !.checkpoint = d]
    <3>1. /\ req[r].pc = "prCreated" /\ req[r].pc \in PhasePC
          /\ UNCHANGED <<ops, sandbox, github>>
          /\ Become(r, l) \/ Become(r, To(r, "fail"))
      BY <2>19 DEF MarkPullRequestCreated, MarkPullRequest, Call, storeVars, PhasePC,
         LoopPC, WorkflowPC
    <3>2. CASE UNCHANGED thread /\ Become(r, To(r, "fail"))
      BY <2>c, <2>f, <3>1, <3>2
    <3>3. CASE MarkPullRequest("created")
      <4>1. /\ thread'.commitStatus = thread.commitStatus
            /\ thread'.pullRequestNumber
        BY <3>3 DEF MarkPullRequest, TypeInv, TypeOK, StoreTypeOK, ThreadFields
      <4>2. github.pulls # {} /\ req[r].phase = "pull_request"
        BY <2>a, <3>1 DEF RequestDid, World, PullRequestPC
      <4>3. Grows(World, World') /\ WorldOK(World')
        BY <2>a, <3>1, <4>1, <4>2, NoGrowth DEF Grows, WorldOK, World, Marked, Dirty
      <4>4. CASE Become(r, To(r, "fail"))
        BY <2>c, <2>g, <3>1, <4>1, <4>3, <4>4
      <4>5. CASE Become(r, l)
        <5>1. RequestDid(req[r], World')
          BY <2>a, <4>3, RequestDidGrows
        <5>2. /\ d.branch = c.branch /\ d.commitSha = c.commitSha /\ d.pullRequest
          BY <2>c, <3>1 DEF Checkpoint
        <5>3. "push" \in req[r].done
          BY <2>c, <3>1, <4>2, PushFirst
        <5>4. Did(req[r].done, c, req[r].action, World')
          BY <2>c, <3>1, <5>1 DEF RequestDid
        <5>5. Did(req[r].done \cup {"pull_request"}, d, req[r].action, World')
          BY <4>1, <5>2, <5>3, <5>4 DEF Did, InOrder, Pushed, World
        <5> HIDE DEF d
        <5>6. /\ l.pc = "complete" /\ l.phase = "pull_request"
              /\ l.action = req[r].action /\ l.done = req[r].done
              /\ l.prSeen = req[r].prSeen /\ l.checkpoint = d
          BY <2>a, <4>2 DEF Request
        <5> HIDE DEF l, c
        <5>7. Did(req[r].done, d, req[r].action, World')
          BY <4>1, <5>2, <5>4 DEF Did, InOrder, Pushed, World
        <5>8. RequestDid(l, World')
          BY <2>b, <2>c, <3>1, <5>1, <5>5, <5>6, <5>7 DEF RequestDid, PullRequestPC
        <5> QED BY <3>1, <4>1, <4>3, <4>5, <5>6, <5>8, DeliveryStep DEF RenamingPC
      <4> QED BY <3>1, <4>4, <4>5
    <3> QED BY <2>19, <3>1, <3>2, <3>3 DEF MarkPullRequestCreated, Call, storeVars
  <2>20. ASSUME NEW r \in Requests, SaveBranch(r) PROVE DeliveryInv'
    <3>1. /\ req[r].pc = "save"
          /\ UNCHANGED <<ops, sandbox, github>>
          /\ thread'.commitStatus = thread.commitStatus
          /\ thread'.pullRequestNumber = thread.pullRequestNumber
          /\ Become(r, To(r, "unlock")) \/ Become(r, To(r, "undo"))
      BY <2>20 DEF SaveBranch, Goto, To, UpdateGeneratedFeatureBranch, Call, storeVars,
         TypeInv, TypeOK, StoreTypeOK, ThreadFields
    <3>2. Grows(World, World') /\ WorldOK(World')
      BY <2>a, <3>1, NoGrowth DEF Grows, WorldOK, World, Marked, Dirty
    <3> QED BY <2>g, <3>1, <3>2 DEF RenamingPC, LoopPC, WorkflowPC
  <2>21. ASSUME NEW r \in Requests, BranchPhase(r) PROVE DeliveryInv'
    <3> DEFINE creates == /\ NeedsPullRequest(req[r].action)
                          /\ WorkspaceMode = "checkout"
                          /\ sandbox.branch = BaseBranch
               b == IF creates THEN NewBranch ELSE sandbox.branch
               c == req[r].checkpoint
               d == [c EXCEPT !.branch = b]
               l == [req[r] EXCEPT !.pc = "complete", !.checkpoint = d]
    <3>1. /\ req[r].pc = "handle" /\ req[r].phase = "branch" /\ req[r].pc \in PhasePC
          /\ UNCHANGED <<ops, thread, github>>
      BY <2>21 DEF BranchPhase, InPhase, PhasePC, LoopPC, WorkflowPC
    <3>2. CASE Become(r, To(r, "fail")) /\ UNCHANGED sandbox
      BY <2>c, <2>f, <3>1, <3>2
    <3>3. CASE sandbox' = [sandbox EXCEPT !.branch = b]
      <4>1. /\ sandbox'.branch = b /\ sandbox'.dirty = sandbox.dirty
            /\ sandbox'.head = sandbox.head
            /\ b \in Branches /\ b # None
        BY <3>3, StoreAssumption, WorkflowAssumption DEF TypeInv, TypeOK, Sandbox
      <4>2. Grows(World, World')
        BY <2>a, <3>1, <4>1, NoGrowth DEF Grows, WorldOK, World, Marked, Dirty
      <4>3. WorldOK(World')
        BY <2>a, <3>1, <4>1 DEF WorldOK, World, Marked
      <4>4. CASE Become(r, To(r, "fail"))
        BY <2>c, <2>g, <3>1, <4>2, <4>3, <4>4
      <4>5. CASE Become(r, l)
        <5>1. RequestDid(req[r], World')
          BY <2>a, <4>2, RequestDidGrows
        <5>2. /\ d.branch = b /\ d.commitSha = c.commitSha
              /\ d.pullRequest = c.pullRequest
          BY <2>c, <3>1 DEF Checkpoint
        <5>3. Did(req[r].done, c, req[r].action, World')
          BY <2>c, <3>1, <5>1 DEF RequestDid
        <5>4. WorkspaceMode = "checkout" /\ NeedsPullRequest(req[r].action)
                => b = NewBranch /\ World'.sandbox.branch = NewBranch
          BY <2>a, <4>1 DEF WorldOK, World
        <5> HIDE DEF d, b
        <5>5. /\ Did(req[r].done, d, req[r].action, World')
              /\ Did(req[r].done \cup {"branch"}, d, req[r].action, World')
          BY <4>1, <5>2, <5>3, <5>4 DEF Did, InOrder, Pushed
        <5>6. /\ l.pc = "complete" /\ l.phase = "branch"
              /\ l.action = req[r].action /\ l.done = req[r].done
              /\ l.prSeen = req[r].prSeen /\ l.checkpoint = d
          BY <2>a, <3>1 DEF Request
        <5> HIDE DEF l, c
        <5>7. RequestDid(l, World')
          BY <2>b, <2>c, <3>1, <5>1, <5>5, <5>6 DEF RequestDid, PullRequestPC
        <5> QED BY <3>1, <4>2, <4>3, <4>5, <5>6, <5>7, DeliveryStep DEF RenamingPC
      <4> HIDE DEF l, b
      <4> QED
        <5>1. Become(r, l) \/ Become(r, To(r, "fail"))
          <6>1. Answers(r, l) \/ Become(r, To(r, "fail"))
            BY <2>21, <3>1 DEF BranchPhase, Goto, To, l, b
          <6> QED BY <6>1 DEF Answers, Goto, To
        <5> QED BY <4>4, <4>5, <5>1
    <3> HIDE DEF l
    <3> QED BY <2>21, <3>2, <3>3 DEF BranchPhase, Goto, To
  <2>22. ASSUME NEW r \in Requests, CommitPhase(r) PROVE DeliveryInv'
    <3> DEFINE h == IF sandbox.dirty THEN sandbox.head + 1 ELSE sandbox.head
               c == req[r].checkpoint
               l == [req[r] EXCEPT !.pc = "mark", !.checkpoint.branch = WorkBranch(r),
                                   !.checkpoint.commitSha = h]
    <3>1. /\ req[r].pc = "handle" /\ req[r].phase = "commit" /\ req[r].pc \in PhasePC
          /\ UNCHANGED <<ops, thread, github>>
          /\ sandbox'.branch = sandbox.branch /\ sandbox'.head = h
          /\ Become(r, l) \/ Become(r, To(r, "fail"))
      BY <2>22, <2>a DEF CommitPhase, InPhase, Answers, Goto, To, PhasePC, LoopPC,
         WorkflowPC, Worlds, World, Sandbox
    <3>2. /\ sandbox.head \in Nat /\ h \in Nat /\ sandbox.head <= h
          /\ Dirty(World) => h >= 1
      BY DEF Dirty, World, TypeInv, TypeOK, Sandbox, CommitSha
    <3>3. Grows(World, World') /\ WorldOK(World')
      <4>1. \A b \in Branches : github.remote[b] \in Nat
        BY DEF TypeInv, TypeOK, Github, CommitSha
      <4> HIDE DEF h
      <4> QED BY <2>a, <3>1, <3>2, <4>1 DEF Grows, WorldOK, World, Marked, Dirty
    <3>4. CASE Become(r, To(r, "fail"))
      BY <2>c, <2>g, <3>1, <3>3, <3>4
    <3>5. CASE Become(r, l)
      <4>1. /\ l.pc = "mark" /\ l.action = req[r].action /\ l.done = req[r].done
            /\ l.phase = "commit" /\ l.prSeen = req[r].prSeen
            /\ l.checkpoint = [c EXCEPT !.branch = WorkBranch(r), !.commitSha = h]
        <5> HIDE DEF h
        <5> QED BY <2>a, <3>1, CommitLocal
      <4>2. /\ l.checkpoint.branch = WorkBranch(r) /\ l.checkpoint.commitSha = h
            /\ l.checkpoint.pullRequest = c.pullRequest
        <5>1. c \in Checkpoint
          BY <2>c, <3>1
        <5> HIDE DEF h, l, c
        <5> QED BY <4>1, <5>1 DEF Checkpoint
      <4>3. RequestDid(req[r], World')
        BY <2>a, <3>3, RequestDidGrows
      <4>4. /\ "branch" \in req[r].done /\ "validate" \in req[r].done
            /\ NeedsCommit(req[r].action) /\ "commit" \notin req[r].done
        BY <2>c, <3>1, PushFirst
      <4>5. h >= 1
        BY <2>c, <3>1, <3>2, <4>4 DEF Did
      <4>6. WorkBranch(r) = c.branch /\ c.branch # None
        BY <2>c, <3>1, <4>4 DEF Did, WorkBranch
      <4> HIDE DEF h, c, l
      <4>7. Did(req[r].done, req[r].checkpoint, req[r].action, World')
        BY <2>c, <3>1, <4>3 DEF RequestDid
      <4>8. Did(l.done, l.checkpoint, l.action, World')
        BY <4>1, <4>2, <4>4, <4>6, <4>7 DEF Did, InOrder, c
      <4>9. RequestDid(l, World')
        BY <2>b, <2>c, <3>1, <4>1, <4>2, <4>3, <4>5, <4>8
        DEF RequestDid, PullRequestPC
      <4> QED BY <3>1, <3>3, <3>5, <4>1, <4>9, DeliveryStep DEF RenamingPC
    <3> QED BY <3>1, <3>4, <3>5
  <2>23. ASSUME NEW r \in Requests, PushPhase(r) PROVE DeliveryInv'
    <3> DEFINE c == req[r].checkpoint
               d == [c EXCEPT !.commitSha = sandbox.head]
               l == [req[r] EXCEPT !.pc = "mark", !.checkpoint = d]
               a == req[r].action
    <3>1. /\ req[r].pc = "handle" /\ req[r].phase = "push" /\ req[r].pc \in PhasePC
          /\ UNCHANGED <<ops, thread, sandbox>>
          /\ github' = [github EXCEPT !.remote[sandbox.branch] = sandbox.head]
          /\ Become(r, l) \/ Become(r, To(r, "fail"))
      BY <2>23 DEF PushPhase, InPhase, Answers, Goto, To, PhasePC, LoopPC, WorkflowPC
    <3>2. /\ "branch" \in req[r].done /\ "push" \notin req[r].done
          /\ RunsPush(a) /\ (NeedsCommit(a) => "commit" \in req[r].done)
      BY <2>c, <3>1, PushFirst
    <3>3. /\ \A b \in Branches : github.remote[b] \in Nat
          /\ sandbox.head \in Nat /\ sandbox.branch \in Branches
          /\ github.pulls \subseteq Branches
          /\ \A b \in Branches : github'.remote[b] =
               IF b = sandbox.branch THEN sandbox.head ELSE github.remote[b]
          /\ github'.pulls = github.pulls
      BY <3>1 DEF TypeInv, TypeOK, Github, CommitSha, Sandbox
    <3>4. c.commitSha \in Nat /\ c.commitSha <= sandbox.head
      BY <2>b, <2>c, <3>1 DEF RunnerOK, Checkpoint, CommitSha
    <3>5. WorkspaceMode = "worktree" => Marked(World)
      <4>1. ASSUME WorkspaceMode = "worktree" PROVE NeedsCommit(a)
        BY <2>b, <2>c, <3>1, <3>2, <4>1 DEF DeliverableActions
      <4> QED BY <2>c, <3>1, <3>2, <4>1 DEF Did
    <3>6. Grows(World, World') /\ WorldOK(World')
      <4>1. \A b \in Branches : github.remote[b] <= sandbox.head
        BY <2>a DEF WorldOK, World
      <4>2. \A b \in Branches : github.remote[b] <= github'.remote[b]
        BY <3>3, <4>1
      <4>3. Grows(World, World')
        BY <3>1, <3>3, <4>2 DEF Grows, World, Marked, Dirty
      <4>4. \A b \in github'.pulls : github'.remote[b] > 0 /\ b = sandbox.branch
        <5> SUFFICES ASSUME NEW b \in github.pulls
                     PROVE  github'.remote[b] > 0 /\ b = sandbox.branch
          BY <3>3
        <5>1. b \in Branches /\ github.remote[b] > 0 /\ b = sandbox.branch
          BY <2>a, <3>3 DEF WorldOK, World
        <5> QED BY <3>3, <4>2, <5>1
      <4>5. WorkspaceMode = "worktree" =>
              \A b \in Branches : github'.remote[b] > 0 => b = sandbox.branch
        BY <2>a, <3>3 DEF WorldOK, World
      <4>6. \A b \in Branches : github'.remote[b] <= sandbox.head
        BY <3>3, <4>1
      <4>7. WorkspaceMode = "worktree" => Marked(World')
        BY <3>1, <3>5 DEF World, Marked
      <4>8. WorldOK(World')
        BY <2>a, <3>1, <3>3, <4>4, <4>5, <4>6, <4>7 DEF WorldOK, World
      <4> QED BY <4>3, <4>8
    <3>7. CASE Become(r, To(r, "fail"))
      BY <2>c, <2>g, <3>1, <3>6, <3>7
    <3>8. CASE Become(r, l)
      <4>1. /\ d.branch = c.branch /\ d.commitSha = sandbox.head
            /\ d.pullRequest = c.pullRequest
        BY <2>c, <3>1 DEF Checkpoint
      <4>2. /\ l.pc = "mark" /\ l.action = a /\ l.done = req[r].done
            /\ l.phase = "push" /\ l.prSeen = req[r].prSeen /\ l.checkpoint = d
        <5> HIDE DEF d
        <5> QED BY <2>a, <3>1 DEF Request
      <4>3. RequestDid(req[r], World')
        BY <2>a, <3>6, RequestDidGrows
      <4>4. Did(req[r].done, c, a, World')
        BY <2>c, <3>1, <4>3 DEF RequestDid
      <4>5. World'.github.remote[World'.sandbox.branch] = sandbox.head
        BY <3>1, <3>3 DEF World
      <4> HIDE DEF l, d, c
      <4>6. Did(req[r].done, d, a, World') /\ Did(req[r].done \cup {"push"}, d, a, World')
        BY <3>1, <3>2, <3>3, <3>4, <4>1, <4>4, <4>5 DEF Did, InOrder, Pushed, World
      <4>7. RequestDid(l, World')
        BY <2>b, <2>c, <3>1, <4>2, <4>3, <4>6 DEF RequestDid, PullRequestPC
      <4> QED BY <3>1, <3>6, <3>8, <4>2, <4>7, DeliveryStep DEF RenamingPC
    <3> HIDE DEF l
    <3> QED BY <3>1, <3>7, <3>8
  <2>24. ASSUME NEW r \in Requests, CreatePullRequest(r) PROVE DeliveryInv'
    <3>1. /\ req[r].pc = "prCreate" /\ req[r].pc \in PhasePC
          /\ UNCHANGED <<ops, thread, sandbox>>
          /\ req[r].phase = "pull_request"
      BY <2>24, <2>a DEF CreatePullRequest, PhasePC, LoopPC, WorkflowPC, RequestDid,
         PullRequestPC
    <3>2. CASE Become(r, To(r, "fail")) /\ UNCHANGED github
      BY <2>c, <2>f, <3>1, <3>2
    <3>3. CASE /\ github' = [github EXCEPT !.pulls = @ \cup {WorkBranch(r)}]
               /\ github.remote[WorkBranch(r)] > 0
               /\ Become(r, To(r, "prCreated"))
      <4>1. /\ github'.pulls = github.pulls \cup {WorkBranch(r)}
            /\ github'.remote = github.remote
            /\ \A b \in Branches : github.remote[b] \in Nat
        BY <3>3 DEF TypeInv, TypeOK, Github, CommitSha
      <4>2. "branch" \in req[r].done /\ NeedsPullRequest(req[r].action)
        BY <2>c, <3>1, PushFirst
      <4>3. /\ WorkBranch(r) = req[r].checkpoint.branch /\ WorkBranch(r) \in Branches
            /\ WorkspaceMode = "checkout"
                 => WorkBranch(r) = NewBranch /\ sandbox.branch = NewBranch
        BY <2>c, <3>1, <4>2 DEF Did, WorkBranch, Checkpoint, World
      <4>4. WorkBranch(r) = sandbox.branch
        BY <2>a, <3>3, <4>3, WorkflowAssumption DEF WorldOK, World
      <4>5. Grows(World, World') /\ WorldOK(World')
        <5>1. Grows(World, World')
          BY <3>1, <4>1 DEF Grows, World, Marked, Dirty
        <5>2. github'.pulls # {} /\ github.pulls \subseteq github'.pulls
          BY <4>1
        <5> QED BY <2>a, <3>1, <3>3, <4>1, <4>3, <4>4, <5>1, <5>2 DEF WorldOK, World, Marked
      <4>6. RequestDid(req[r], World')
        BY <2>a, <4>5, RequestDidGrows
      <4>7. RequestDid(To(r, "prCreated"), World')
        BY <2>c, <3>1, <4>1, <4>6, DidMoves DEF World, LoopPC, WorkflowPC
      <4>8. To(r, "prCreated").pc \notin RenamingPC
        BY ToKeeps DEF RenamingPC
      <4> QED BY <3>1, <3>3, <4>5, <4>7, <4>8, DeliveryStep
    <3> QED BY <2>24, <3>2, <3>3 DEF CreatePullRequest, Goto, To
  <2>25. ASSUME NEW r \in Requests, Rename(r) \/ UndoRename(r) PROVE DeliveryInv'
    <3>1. /\ req[r].pc \in RenamingPC
          /\ UNCHANGED <<ops, thread, github>>
          /\ Become(r, To(r, "save")) \/ Become(r, To(r, "unlock"))
      BY <2>25 DEF Rename, UndoRename, RenamingPC, Goto, To
    <3>2. /\ WorkspaceMode = "worktree" /\ WorkspaceMode # "checkout" /\ ~Marked(World)
          /\ \A b \in Branches : ~(github.remote[b] > 0)
          /\ github.pulls = {}
      <4>1. WorkspaceMode = "worktree" /\ ~Marked(World)
        BY <2>a, <3>1 DEF RenamesInTime, RenamingPC, Marked, World
      <4>2. \A b \in Branches : ~(github.remote[b] > 0)
        BY <2>a, <4>1 DEF WorldOK, World
      <4>3. github.pulls \subseteq Branches
        BY DEF TypeInv, TypeOK, Github
      <4> QED BY <2>a, <4>1, <4>2, <4>3 DEF WorldOK, World
    <3>3. sandbox'.head = sandbox.head /\ sandbox'.dirty = sandbox.dirty
      BY <2>25 DEF Rename, UndoRename, TypeInv, TypeOK, Sandbox
    <3>4. Grows(World, World')
      BY <2>a, <3>1, <3>2, <3>3, NoGrowth DEF Grows, World, Marked, Dirty
    <3>5. WorldOK(World')
      BY <2>a, <3>1, <3>2, <3>3 DEF WorldOK, World, Marked
    <3>6. CASE Become(r, To(r, "unlock"))
      BY <2>g, <3>1, <3>4, <3>5, <3>6 DEF LoopPC, WorkflowPC
    <3>7. CASE Become(r, To(r, "save"))
      <4>1. RequestDid(req[r], World')
        BY <2>a, <3>4, RequestDidGrows
      <4>2. RequestDid(To(r, "save"), World')
        BY <4>1, DidTo DEF LoopPC, WorkflowPC
      <4>3. thread'.commitStatus = "none"
        BY <2>a, <3>1 DEF RenamesInTime, RenamingPC
      <4> QED BY <3>1, <3>2, <3>4, <3>5, <3>7, <4>2, <4>3, DeliveryStep
    <3> QED BY <3>1, <3>6, <3>7
  <2>26. CASE EditWorkspace
    <3>1. /\ UNCHANGED <<req, ops, thread, github>>
          /\ sandbox'.branch = sandbox.branch /\ sandbox'.head = sandbox.head
          /\ sandbox'.dirty
      BY <2>26 DEF EditWorkspace, TypeInv, TypeOK, Sandbox
    <3>2. Grows(World, World') /\ WorldOK(World')
      BY <2>a, <3>1, NoGrowth DEF Grows, WorldOK, World, Marked, Dirty
    <3> QED BY <3>1, <3>2, EnvironmentStep
  <2>27. CASE ExpireLease \/ UNCHANGED vars
    <3>1. UNCHANGED <<req, ops, thread, sandbox, github>>
      BY <2>27 DEF ExpireLease, vars
    <3>2. World' = World
      BY <3>1 DEF World
    <3>3. Grows(World, World') /\ WorldOK(World')
      BY <2>a, <3>2, NoGrowth
    <3> QED BY <3>1, <3>3, EnvironmentStep
  <2> QED BY <2>1, <2>2, <2>3, <2>4, <2>5, <2>6, <2>7, <2>8, <2>9, <2>10, <2>11, <2>12,
       <2>13, <2>14, <2>15, <2>16, <2>17, <2>18, <2>19, <2>20, <2>21, <2>22, <2>23,
       <2>24, <2>25, <2>26, <2>27
    DEF Next, Runner, Handlers, Renamer
<1> QED BY <1>1, <1>2, TypeInvariant, LeaseInvariant, RecordInvariant, PTL DEF Spec

-----------------------------------------------------------------------------
\* What a succeeded operation reports has really happened: the commit it names
\* is in the workspace, on GitHub if it pushed, and behind an open pull request
\* that the thread knows if it opened one - also when its phases were done by
\* different attempts, some of which ended in errors.
THEOREM SucceededIsDeliveredHolds ==
  ASSUME ~RetriesOverlap, ~OutliveLease, DeliverableActions
  PROVE  Spec => []SucceededIsDelivered
<1>1. TypeInv /\ RecordInv /\ DeliveryInv => SucceededIsDelivered
  <2> SUFFICES ASSUME TypeInv, RecordInv, DeliveryInv,
                      NEW o \in OpIds, ops[o].status = "succeeded"
               PROVE  LET c == ops[o].checkpoint  a == ops[o].action
                      IN  /\ NeedsCommit(a) => c.commitSha \in 1 .. sandbox.head
                          /\ RunsPush(a) => \E b \in Branches : github.remote[b] >= c.commitSha
                          /\ NeedsPullRequest(a) =>
                               /\ c.pullRequest
                               /\ \E b \in github.pulls : github.remote[b] >= c.commitSha
                               /\ thread.pullRequestNumber
    BY DEF SucceededIsDelivered
  <2> DEFINE c == ops[o].checkpoint
             a == ops[o].action
             D == Completed(ops[o].results)
  <2>1. /\ Did(D, c, a, World) /\ WorldOK(World)
        /\ ActionPhases(a) \subseteq D /\ c.commitSha <= sandbox.head
    BY DEF DeliveryInv, RecordDid, RecordInv, RecordOK
  <2>2. /\ NeedsCommit(a) => "commit" \in D
        /\ RunsPush(a) => "push" \in D
        /\ NeedsPullRequest(a) => "push" \in D /\ "pull_request" \in D
    BY <2>1 DEF ActionPhases, NeedsPullRequest, RunsPush
  <2>3. c.commitSha \in Nat /\ sandbox.head \in Nat
    BY DEF TypeInv, TypeOK, StoreTypeOK, Operation, Checkpoint, CommitSha, Sandbox
  <2>4. NeedsCommit(a) => c.commitSha \in 1 .. sandbox.head
    BY <2>1, <2>2, <2>3 DEF Did
  <2>5. RunsPush(a) => \E b \in Branches : github.remote[b] >= c.commitSha
    BY <2>1, <2>2 DEF Did, Pushed, World
  <2>6. ASSUME NeedsPullRequest(a)
        PROVE  /\ c.pullRequest /\ thread.pullRequestNumber
               /\ \E b \in github.pulls : github.remote[b] >= c.commitSha
    <3>1. /\ c.pullRequest /\ thread.pullRequestNumber
          /\ github.remote[sandbox.branch] >= c.commitSha
      BY <2>1, <2>2, <2>6 DEF Did, World
    <3>2. github.pulls # {} /\ \A b \in github.pulls : b = sandbox.branch
      BY <2>1, <3>1 DEF WorldOK, World
    <3> QED BY <3>1, <3>2
  <2> QED BY <2>4, <2>5, <2>6
<1> QED BY <1>1, TypeInvariant, RecordInvariant, DeliveryInvariant, PTL

\* What an operation records and reports is what was done: a resumed request knows
\* the record, and "succeeded" means complete and delivered.
THEOREM ReportIsTrueHolds ==
  ASSUME ~RetriesOverlap, ~OutliveLease, DeliverableActions
  PROVE  Spec => []ReportIsTrue
BY RunnerKnowsTheRecordHolds, SucceededIsCompleteHolds, SucceededIsDeliveredHolds, PTL
   DEF ReportIsTrue

-----------------------------------------------------------------------------
(* Whoever runs an operation. *)

\* The steps of a request that runs an operation.
RunningPC == WorkflowPC \ {"begin", "prFailed", "release"}

RunnerInv ==
  \A o \in OpIds : ops[o].status = "running" =>
    \E r \in Requests : req[r].pc \in RunningPC /\ req[r].op = o

\* A step of r, to local state l, after which its operation runs only if r runs it.
LEMMA RunsOn ==
  ASSUME TypeInv, RunnerInv, NEW r \in Requests, NEW l, Become(r, l),
         Only(req[r].op),
         \/ l.pc \in RunningPC /\ l.op = req[r].op
         \/ req[r].op \in OpIds => ops'[req[r].op].status # "running"
         \/ req[r].pc \notin RunningPC /\ UNCHANGED ops
  PROVE  RunnerInv'
<1>1. \A s \in Requests : req'[s] = IF s = r THEN l ELSE req[s]
  BY DEF Become, TypeInv, TypeOK
<1>2. SUFFICES ASSUME NEW o \in OpIds, ops'[o].status = "running"
               PROVE  \E s \in Requests : req'[s].pc \in RunningPC /\ req'[s].op = o
  BY DEF RunnerInv
<1>3. CASE o # req[r].op
  <2>1. PICK s \in Requests : req[s].pc \in RunningPC /\ req[s].op = o
    BY <1>2, <1>3 DEF RunnerInv, Only
  <2> QED BY <1>1, <1>3, <2>1
<1>4. CASE o = req[r].op /\ l.pc \in RunningPC /\ l.op = req[r].op
  BY <1>1, <1>4
<1>5. CASE req[r].pc \notin RunningPC /\ UNCHANGED ops
  <2>1. PICK s \in Requests : req[s].pc \in RunningPC /\ req[s].op = o
    BY <1>2, <1>5 DEF RunnerInv
  <2> QED BY <1>1, <1>5, <2>1
<1> QED BY <1>2, <1>3, <1>4, <1>5

\* A call whose answer is neither lost nor refused.
LEMMA Answered ==
  ASSUME Faults \cap {"lost", "refused"} = {},
         NEW r, NEW mutation, NEW ok, NEW bad, Call(r, mutation, ok, bad)
  PROVE  mutation /\ Become(r, ok) /\ UNCHANGED <<sandbox, github>>
BY DEF Call, Inject

LEMMA RunnerInvariant ==
  ASSUME Faults \cap {"crash", "lost", "refused"} = {}
  PROVE  Spec => []RunnerInv
<1>0. Faults \cap {"lost", "refused"} = {} /\ "crash" \notin Faults
  OBVIOUS
<1>1. Init => RunnerInv
  BY DEF Init, StoreInit, NoOperation, RunnerInv
<1>2. TypeInv /\ TypeInv' /\ RunnerInv /\ [Next]_vars => RunnerInv'
  <2> SUFFICES ASSUME TypeInv, TypeInv', RunnerInv, [Next]_vars PROVE RunnerInv'
    OBVIOUS
  <2> USE DEF At
  <2>a. \A r \in Requests : req[r] \in Request
    BY DEF TypeInv, TypeOK
  \* a request that runs on, and one that runs nothing, leave the records alone
  <2>b. ASSUME NEW r \in Requests, NEW l, Become(r, l), UNCHANGED ops,
               \/ l.pc \in RunningPC /\ l.op = req[r].op
               \/ req[r].pc \notin RunningPC
        PROVE  RunnerInv'
    BY <2>b, RunsOn DEF Only
  <2>c. ASSUME NEW r \in Requests, NEW pc
        PROVE  /\ To(r, pc).pc = pc /\ To(r, pc).op = req[r].op
               /\ [req[r] EXCEPT !.pc = pc] = To(r, pc)
    BY <2>a DEF To, Request
  <2>d. ASSUME NEW l \in Request
        PROVE  NextIteration(l).pc \in RunningPC /\ NextIteration(l).op = l.op
    BY <2>d DEF NextIteration, Request, RunningPC, WorkflowPC
  <2>e. ASSUME NEW r \in Requests, req[r].pc \in WorkflowPC
        PROVE  req[r].op \in OpIds
    BY <2>e DEF TypeInv, LocalOK
  <2>1. ASSUME NEW r \in Requests, Begin(r) PROVE RunnerInv'
    <3>1. req[r].op \in OpIds /\ req[r].pc = "begin"
      BY <2>1, <2>e DEF Begin, WorkflowPC
    <3>2. CASE Become(r, IdleRequest) /\ UNCHANGED ops
      BY <2>b, <3>1, <3>2 DEF RunningPC
    <3>3. CASE BeginGitOperation(req[r].op, req[r].action) /\ Become(r, Resume(r))
      <4>1. Only(req[r].op)
        BY <3>1, <3>3, BeginWrites
      <4>2. Resume(r).pc \in RunningPC /\ Resume(r).op = req[r].op
        BY <2>a DEF Resume, Request, RunningPC, WorkflowPC
      <4> QED BY <3>3, <4>1, <4>2, RunsOn
    <3> QED BY <1>0, <2>1, <3>2, <3>3, Answered DEF Begin
  <2>2. ASSUME NEW r \in Requests, Precheck(r) PROVE RunnerInv'
    <3>1. ASSUME NEW l, Become(r, l), l.pc \in RunningPC, l.op = req[r].op
          PROVE  RunnerInv'
      BY <2>2, <2>b, <3>1 DEF Precheck
    <3> DEFINE e == IF WorkspaceMode = "checkout" THEN sandbox.branch ELSE req[r].expected
               k == [req[r] EXCEPT !.expected = e]
    <3>2. CASE Become(r, NextIteration(k))
      <4>1. k \in Request /\ k.op = req[r].op
        <5>1. e \in Branches \cup {None}
          BY <2>a DEF Request, TypeInv, TypeOK, Sandbox
        <5> HIDE DEF e
        <5> QED BY <2>a, <5>1 DEF Request
      <4> HIDE DEF k
      <4> QED BY <2>d, <3>1, <3>2, <4>1
    <3>3. ASSUME NEW p, Become(r, [req[r] EXCEPT !.pc = "prefail", !.phase = p])
          PROVE  RunnerInv'
      <4>1. /\ [req[r] EXCEPT !.pc = "prefail", !.phase = p].pc \in RunningPC
            /\ [req[r] EXCEPT !.pc = "prefail", !.phase = p].op = req[r].op
        BY <2>a DEF Request, RunningPC, WorkflowPC
      <4> QED BY <3>1, <3>3, <4>1
    <3> QED BY <2>2, <3>2, <3>3 DEF Precheck
  <2>3. ASSUME NEW r \in Requests, FailBeforeExecution(r) \/ OnPhaseFailure(r)
        PROVE  RunnerInv'
    <3>1. req[r].op \in OpIds
      BY <2>3, <2>e DEF FailBeforeExecution, OnPhaseFailure, WorkflowPC
    <3>2. /\ FailGitOperation(req[r].op, req[r].phase)
          /\ \E pc : Become(r, To(r, pc))
      BY <1>0, <2>3, Answered DEF FailBeforeExecution, OnPhaseFailure
    <3>3. Only(req[r].op) /\ ops'[req[r].op].status # "running"
      BY <3>1, <3>2 DEF FailGitOperation, Only, TypeInv, TypeOK, StoreTypeOK, Operation
    <3> QED BY <3>2, <3>3, RunsOn
  <2>4. ASSUME NEW r \in Requests, OnPhaseStart(r) PROVE RunnerInv'
    <3>1. req[r].op \in OpIds
      BY <2>4, <2>e DEF OnPhaseStart, WorkflowPC
    <3>2. /\ StartGitOperationPhase(req[r].op, req[r].phase)
          /\ \E pc \in {"prContext", "handle"} : Become(r, To(r, pc))
      BY <1>0, <2>4, Answered DEF OnPhaseStart
    <3>3. Only(req[r].op)
      BY <3>1, <3>2 DEF StartGitOperationPhase, Only, TypeInv, TypeOK, StoreTypeOK, Operation
    <3> QED BY <2>c, <3>2, <3>3, RunsOn DEF RunningPC, WorkflowPC
  <2>5. ASSUME NEW r \in Requests, OnPhaseComplete(r) PROVE RunnerInv'
    <3> DEFINE k == [req[r] EXCEPT !.done = @ \cup {req[r].phase}]
    <3>1. req[r].op \in OpIds /\ req[r].phase \in Phase
      BY <2>5, <2>e DEF OnPhaseComplete, WorkflowPC, TypeInv, LocalOK, KnowsBranch, RenamePC
    <3>2. k \in Request /\ k.op = req[r].op
      BY <2>a, <3>1 DEF Request
    <3>3. /\ CompleteGitOperationPhase(req[r].op, req[r].phase, req[r].checkpoint)
          /\ Become(r, NextIteration(k))
      BY <1>0, <2>5, Answered DEF OnPhaseComplete
    <3> HIDE DEF k
    <3>4. Only(req[r].op)
      BY <3>1, <3>3, CompleteWrites
    <3> QED BY <2>d, <3>2, <3>3, <3>4, RunsOn
  <2>6. ASSUME NEW r \in Requests, Finish(r) PROVE RunnerInv'
    <3>1. req[r].op \in OpIds
      BY <2>6, <2>e DEF Finish, WorkflowPC
    <3>2. CompleteGitOperation(req[r].op) /\ Become(r, IdleRequest)
      BY <1>0, <2>6, Answered DEF Finish
    <3>3. Only(req[r].op) /\ ops'[req[r].op].status # "running"
      BY <3>1, <3>2, FinishWrites
    <3> QED BY <3>2, <3>3, RunsOn
  <2>7. ASSUME NEW r \in Requests, MarkPullRequestFailed(r) \/ ReleaseOperationLease(r)
        PROVE  RunnerInv'
    <3>1. req[r].pc \notin RunningPC /\ UNCHANGED ops /\ \E l : Become(r, l)
      BY <2>7 DEF MarkPullRequestFailed, ReleaseOperationLease, Call, storeVars,
         MarkPullRequest, ReleaseGitOperationLease, RunningPC
    <3> QED BY <2>b, <3>1
  <2>8. ASSUME NEW r \in Requests, Handlers(r) PROVE RunnerInv'
    <3>1. UNCHANGED ops
      BY <2>8 DEF Handlers, HandlerFails, ValidatePhase, PullRequestContext,
         FindPullRequest, BranchPhase, CommitPhase, PushPhase, CreatePullRequest,
         MarkCommitted, MarkPullRequestCreating, MarkPullRequestCreated, Call,
         storeVars, MarkChangesCommitted, MarkPullRequest
    <3>2. \E l : Become(r, l) /\ l.pc \in RunningPC /\ l.op = req[r].op
      <4>a. \A pc \in {"complete", "fail", "prCreating", "prFind", "prCreate", "prCreated"} :
              /\ To(r, pc).pc \in RunningPC /\ To(r, pc).op = req[r].op
              /\ [req[r] EXCEPT !.pc = pc] = To(r, pc)
        BY <2>c DEF RunningPC, WorkflowPC
      <4>1. CASE HandlerFails(r) \/ ValidatePhase(r) \/ PullRequestContext(r)
                 \/ FindPullRequest(r) \/ CreatePullRequest(r)
        BY <4>1, <4>a DEF HandlerFails, ValidatePhase, PullRequestContext,
           FindPullRequest, CreatePullRequest, Goto
      <4>2. CASE MarkCommitted(r) \/ MarkPullRequestCreating(r)
        BY <4>2, <4>a DEF MarkCommitted, MarkPullRequestCreating, Call
      <4>3. CASE MarkPullRequestCreated(r)
        <5>1. /\ [req[r] EXCEPT !.pc = "complete", !.checkpoint.pullRequest = TRUE].pc
                   \in RunningPC
              /\ [req[r] EXCEPT !.pc = "complete", !.checkpoint.pullRequest = TRUE].op
                   = req[r].op
          BY <2>a DEF Request, RunningPC, WorkflowPC
        <5> QED BY <4>3, <4>a, <5>1 DEF MarkPullRequestCreated, Call
      <4>4. CASE BranchPhase(r)
        <5>1. ASSUME NEW b
              PROVE  /\ [req[r] EXCEPT !.pc = "complete", !.checkpoint.branch = b].pc
                          \in RunningPC
                     /\ [req[r] EXCEPT !.pc = "complete", !.checkpoint.branch = b].op
                          = req[r].op
          BY <2>a DEF Request, RunningPC, WorkflowPC
        <5>2. \/ Become(r, To(r, "fail"))
              \/ \E b : Become(r, [req[r] EXCEPT !.pc = "complete", !.checkpoint.branch = b])
          BY <4>4, <4>a DEF BranchPhase, Answers, Goto
        <5> QED BY <4>a, <5>1, <5>2
      <4>5. CASE CommitPhase(r)
        <5> DEFINE h == IF sandbox.dirty THEN sandbox.head + 1 ELSE sandbox.head
                   l == [req[r] EXCEPT !.pc = "mark", !.checkpoint.branch = WorkBranch(r),
                                       !.checkpoint.commitSha = h]
        <5>1. Become(r, To(r, "fail")) \/ Become(r, l)
          BY <4>5, <4>a DEF CommitPhase, Answers, Goto
        <5>2. l.pc \in RunningPC /\ l.op = req[r].op
          <6> HIDE DEF h
          <6> QED BY <2>a DEF Request, RunningPC, WorkflowPC
        <5> HIDE DEF l
        <5> QED BY <4>a, <5>1, <5>2
      <4>6. CASE PushPhase(r)
        <5>1. ASSUME NEW h
              PROVE  /\ [req[r] EXCEPT !.pc = "mark", !.checkpoint.commitSha = h].pc
                          \in RunningPC
                     /\ [req[r] EXCEPT !.pc = "mark", !.checkpoint.commitSha = h].op
                          = req[r].op
          BY <2>a DEF Request, RunningPC, WorkflowPC
        <5>2. \/ Become(r, To(r, "fail"))
              \/ Become(r, [req[r] EXCEPT !.pc = "mark",
                                          !.checkpoint.commitSha = sandbox.head])
          BY <4>6, <4>a DEF PushPhase, Answers, Goto
        <5> QED BY <4>a, <5>1, <5>2
      <4> QED BY <2>8, <4>1, <4>2, <4>3, <4>4, <4>5, <4>6 DEF Handlers
    <3> QED BY <2>b, <3>1, <3>2
  <2>9. ASSUME NEW r \in Requests, Renamer(r) \/ SubmitRename(r) PROVE RunnerInv'
    <3>1. req[r].pc \notin RunningPC
      BY <2>9 DEF Renamer, SubmitRename, Lock, Reread, Rename, SaveBranch, UndoRename,
         Unlock, RunningPC, WorkflowPC
    <3>2. UNCHANGED ops
      BY <2>9 DEF Renamer, SubmitRename, Lock, Reread, Rename, SaveBranch, UndoRename,
         Unlock, Call, storeVars, BeginGitMutation, EndGitMutation,
         UpdateGeneratedFeatureBranch
    <3>3. \E l : Become(r, l)
      BY <2>9 DEF Renamer, SubmitRename, Lock, Reread, Rename, SaveBranch, UndoRename,
         Unlock, Call, Goto
    <3> QED BY <2>b, <3>1, <3>2, <3>3
  <2>10. ASSUME NEW r \in Requests, NEW o \in OpIds, NEW a \in Actions, Submit(r, o, a)
         PROVE  RunnerInv'
    <3>1. req[r].pc \notin RunningPC /\ UNCHANGED ops /\ \E l : Become(r, l)
      BY <2>10 DEF Submit, RunningPC, WorkflowPC
    <3> QED BY <2>b, <3>1
  <2>11. ASSUME NEW r \in Requests, Crash(r) PROVE RunnerInv'
    BY <1>0, <2>11 DEF Crash, Inject
  <2>12. CASE ExpireLease \/ EditWorkspace \/ UNCHANGED vars
    BY <2>12 DEF ExpireLease, EditWorkspace, vars, RunnerInv
  <2> QED BY <2>1, <2>2, <2>3, <2>4, <2>5, <2>6, <2>7, <2>8, <2>9, <2>10, <2>11, <2>12
    DEF Next, Runner
<1> QED BY <1>1, <1>2, TypeInvariant, PTL DEF Spec

\* "Another Git operation is already running": while the store answers and nothing
\* crashes, an operation shown as running, which stops every other one, has a
\* request that is at work on it, however clients retry and leases lapse.
THEOREM RunningHasRunnerHolds ==
  ASSUME Faults \cap {"crash", "lost", "refused"} = {}
  PROVE  Spec => []RunningHasRunner
<1>1. RunnerInv => RunningHasRunner
  BY DEF RunnerInv, RunningHasRunner, Holds, RunningPC
<1> QED BY <1>1, RunnerInvariant, PTL
=============================================================================
