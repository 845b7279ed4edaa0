-------------------------- MODULE MCThreadGitCore --------------------------
(* The Git operations of a thread with every fault, and beside them its    *)
(* Git status: ThreadGitWorkflow, and three instances of GitStatus that    *)
(* share no state with it or with each other.  part says which of them a   *)
(* behaviour is of: "workflow"; "reading", with overlapping reads and no   *)
(* actions; "acting", where an action is chosen on a status in the web     *)
(* app; or "away", the same in the mobile app, with faults.                *)
EXTENDS ThreadGitWorkflow, TLC

CONSTANTS g1, g2

VARIABLES part, repo, version, row, unsaid, read, page, op, left

\* A branch that is new, and the branches an action may be chosen on: with and
\* without an upstream, edits, commits on either side and a pull request.
NewBranches ==
  [branch : {"own"}, dirty : {FALSE}, upstream : {FALSE}, ahead : {0}, behind : {0},
   tracked : {0}, ofBase : {0}, pr : {FALSE}]
AnyBranches ==
  {b \in [branch : {"own"}, dirty : BOOLEAN, upstream : BOOLEAN, ahead : 0 .. 1,
          behind : 0 .. 1, tracked : {0}, ofBase : 0 .. 1, pr : BOOLEAN] :
     /\ b.upstream \/ (b.ahead = 0 /\ b.behind = 0 /\ ~b.pr)
     /\ b.pr => b.ofBase = 1}

Reading == INSTANCE GitStatus
  WITH Reads <- {g1, g2}, Clients <- {"web"}, Initial <- NewBranches,
       Unrecorded <- FALSE, MaxChanges <- 1, MaxActions <- 0, MaxReads <- 2, MaxFaults <- 1

Acting == INSTANCE GitStatus
  WITH Reads <- {g1}, Clients <- {"web"}, Initial <- AnyBranches, Unrecorded <- TRUE,
       MaxChanges <- 1, MaxActions <- 1, MaxReads <- 1, MaxFaults <- 0

Away == INSTANCE GitStatus
  WITH Reads <- {g1}, Clients <- {"mobile"}, Initial <- AnyBranches, Unrecorded <- TRUE,
       MaxChanges <- 1, MaxActions <- 1, MaxReads <- 1, MaxFaults <- 1

Symmetry == Permutations(Requests) \cup Permutations(OpIds)

status == <<repo, version, row, unsaid, read, page, op, left>>
all == <<part, vars, status>>

Works(A) == part = "workflow" /\ A /\ UNCHANGED <<part, status>>
Reads(A) == part = "reading" /\ A /\ UNCHANGED <<part, vars>>
Acts(A) == part = "acting" /\ A /\ UNCHANGED <<part, vars>>
ActsAway(A) == part = "away" /\ A /\ UNCHANGED <<part, vars>>
\* The parts about the status end when their bounds are used up.
AtRest == part # "workflow" /\ UNCHANGED all

InitAll ==
  /\ Init /\ part \in {"workflow", "reading", "acting", "away"}
  /\ CASE part = "acting" -> Acting!Init
       [] part = "away"   -> Away!Init
       [] OTHER           -> Reading!Init

NextAll ==
  \/ Works(Next)
  \/ Reads(Reading!Next) \/ Reads(Reading!Fails(g1))
  \/ Acts(Acting!Discover(g1)) \/ Acts(Acting!Start(g1)) \/ Acts(Acting!Look(g1))
  \/ Acts(Acting!Fetch(g1)) \/ Acts(Acting!Relook(g1)) \/ Acts(Acting!ReadCounts(g1))
  \/ Acts(Acting!Save(g1)) \/ Acts(Acting!Answer(g1))
  \/ Acts(Acting!Ask("web", g1))
  \/ \E a \in Acting!GitActions : Acts(Acting!Choose("web", a))
  \/ \E a \in {"agent", "operation"} : Acts(Acting!Invalidate(a))
  \/ Acts(Acting!AgentChanges) \/ Acts(Acting!OthersChange) \/ Acts(Acting!RowArrives)
  \/ Acts(Acting!Validate) \/ Acts(Acting!Commit) \/ Acts(Acting!Push)
  \/ Acts(Acting!OpenPullRequest) \/ Acts(Acting!Pull) \/ Acts(Acting!Settle(g1))
  \/ ActsAway(Away!Next)
  \/ AtRest

SpecAll == InitAll /\ [][NextAll]_all

\* A status the row does not call outdated and an answer to the web app are as
\* new as the changes they were told of, and an action that was offered is
\* refused only when the repository has changed since, or for what the offer
\* does not look at.
StatusIsTrue ==
  /\ part = "reading" =>
       Reading!TypeOK /\ Reading!KeptStatusIsCurrent /\ Reading!AnswerIsCurrent
  /\ part = "acting" =>
       /\ Acting!TypeOK /\ Acting!KeptStatusIsCurrent /\ Acting!AnswerIsCurrent
       /\ Acting!RefusedWhenChanged
  /\ part = "away" => Away!TypeOK /\ Away!KeptStatusIsCurrent /\ Away!RefusedWhenChanged
=============================================================================
