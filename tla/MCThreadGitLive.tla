-------------------------- MODULE MCThreadGitLive --------------------------
(* What happens to the Git operations of a thread in the end, on three     *)
(* instances of ThreadGitWorkflow that share nothing, checked in one run:  *)
(* "settling", where checks and commands fail but the store answers and    *)
(* nothing crashes; "recovering", where everything may fail and a client   *)
(* may retry an operation that still runs; and "outliving", where nothing  *)
(* fails but a request may work on after its lease has lapsed.             *)
EXTENDS GitWorkflowPhases

CONSTANTS o1, r1, r2, None, base, temp, named

VARIABLES part, lease, ops, thread, req, sandbox, github, faults

OpIds == {o1}
Requests == {r1, r2}
Branches == {base, temp, named}
BaseBranch == base
ThreadBranch == temp
NewBranch == named
WorkspaceMode == "worktree"

Settling == INSTANCE ThreadGitWorkflow
  WITH Actions <- {"commit_push_create_pr"}, MaxCommits <- 2, MaxFaults <- 2,
       Faults <- {"precheck", "handler"}, RetriesOverlap <- FALSE,
       OutliveLease <- FALSE

Recovering == INSTANCE ThreadGitWorkflow
  WITH Actions <- {"commit_push"}, MaxCommits <- 1, MaxFaults <- 1,
       Faults <- {"crash", "lost", "refused", "precheck", "handler", "timeout"},
       RetriesOverlap <- TRUE, OutliveLease <- FALSE

Outliving == INSTANCE ThreadGitWorkflow
  WITH Actions <- {"commit_push_create_pr"}, MaxCommits <- 2, MaxFaults <- 0,
       Faults <- {}, RetriesOverlap <- FALSE, OutliveLease <- TRUE

vars == <<part, lease, ops, thread, req, sandbox, github, faults>>

In(p, A) == part = p /\ A /\ UNCHANGED part

Init ==
  \/ part = "settling" /\ Settling!Init
  \/ part = "recovering" /\ Recovering!Init
  \/ part = "outliving" /\ Outliving!Init

Next ==
  \/ In("settling", Settling!Next)
  \/ In("recovering", Recovering!Next)
  \/ In("outliving", Outliving!Next)

Works(r) ==
  \/ In("settling", Settling!Runner(r) \/ Settling!Handlers(r) \/ Settling!Renamer(r))
  \/ In("recovering", Recovering!Runner(r) \/ Recovering!Handlers(r) \/ Recovering!Renamer(r))
  \/ In("outliving", Outliving!Runner(r) \/ Outliving!Handlers(r) \/ Outliving!Renamer(r))

Lapses ==
  \/ In("settling", Settling!ExpireLease)
  \/ In("recovering", Recovering!ExpireLease)
  \/ In("outliving", Outliving!ExpireLease)

\* The fairness of ThreadGitWorkflow: requests go on and the lease lapses.
FairSpec ==
  /\ Init /\ [][Next]_vars
  /\ \A r \in Requests : WF_vars(Works(r))
  /\ WF_vars(Lapses)

\* What the thread says is true while the store answers: an operation shown as
\* running is run by a request that holds the lease, and the branch on record
\* is the branch of the workspace whatever a racing operation has renamed. A
\* rename that outlived its lease takes itself back when another operation has
\* moved the branch on meanwhile.
RecordIsTrue ==
  /\ part = "settling" => Settling!RunningHasRunner /\ Settling!BranchAgrees
  /\ part = "outliving" => Outliving!BranchAgrees /\ Outliving!PushedIsOnRemote

\* ... and an operation shown as running, which stops every other one, comes to
\* an end.
RunningSettles == part = "settling" => Settling!RunningSettles

\* After crashes, lost answers, overlapping retries and outlived leases the
\* lease of the thread is free again, and every request has returned.
LeaseComesBack ==
  /\ part = "recovering" => Recovering!LeaseComesBack /\ Recovering!RequestsReturn
  /\ part = "outliving" => Outliving!LeaseComesBack /\ Outliving!RequestsReturn
=============================================================================
