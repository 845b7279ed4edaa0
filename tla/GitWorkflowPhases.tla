------------------------- MODULE GitWorkflowPhases -------------------------
(***************************************************************************)
(* The phase tables of packages/backend/convex/lib/gitWorkflow.ts: which   *)
(* phases a requested Git action runs, in which order, and which one comes *)
(* next once some of them are recorded as complete.                        *)
(*                                                                         *)
(* Every action runs its phases in the order of gitWorkflowPhases, so an   *)
(* action is a set of phases and the order is the rank of a phase.         *)
(***************************************************************************)
EXTENDS Naturals

Phase == {"branch", "validate", "commit", "push", "pull_request"}

\* "none" stands for the absent phase (undefined in the code).
NoPhase == "none"

Rank == [p \in Phase |->
           CASE p = "branch"       -> 1
             [] p = "validate"     -> 2
             [] p = "commit"       -> 3
             [] p = "push"         -> 4
             [] p = "pull_request" -> 5]

Action == {"commit", "push", "create_pr", "commit_push", "push_create_pr",
           "commit_push_create_pr"}

NeedsCommit(a) == a \in {"commit", "commit_push", "commit_push_create_pr"}

NeedsPullRequest(a) ==
  a \in {"create_pr", "push_create_pr", "commit_push_create_pr"}

\* Opening a pull request always pushes first: only a plain commit does not.
RunsPush(a) == a # "commit"

ActionPhases(a) ==
  {"branch", "validate"}
    \cup {p \in {"commit"} : NeedsCommit(a)}
    \cup {p \in {"push"} : RunsPush(a)}
    \cup {p \in {"pull_request"} : NeedsPullRequest(a)}

Remaining(a, done) == ActionPhases(a) \ done

\* nextGitWorkflowPhase: the first phase of the action that is not complete.
NextPhase(a, done) ==
  IF Remaining(a, done) = {}
  THEN NoPhase
  ELSE CHOOSE p \in Remaining(a, done) :
         \A q \in Remaining(a, done) : Rank[p] <= Rank[q]

PhaseStatus == {"absent", "running", "done", "failed"}

\* The phases a record of results counts as complete. "done" is the code's
\* "succeeded" and "skipped", which it never tells apart when it resumes.
Completed(results) == {p \in Phase : results[p] = "done"}
=============================================================================
