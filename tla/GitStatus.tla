----------------------------- MODULE GitStatus -----------------------------
(***************************************************************************)
(* The Git status of a thread: how the server reads it from the working     *)
(* copy (thread-git-status-server.ts and the thread's route), how the       *)
(* thread's row keeps it and calls it outdated (threads.ts), how the web    *)
(* and the mobile app hold it, which actions they offer on it, and what     *)
(* becomes of an action that was chosen from a status.                      *)
(*                                                                          *)
(* The working copy is on the branch of the thread, on another one or on    *)
(* none.  Time is the number of changes recorded so far, which is all that  *)
(* checkedAt and gitStatusInvalidatedAt are compared for: the clocks of     *)
(* Convex and of the server are taken to agree.                             *)
(***************************************************************************)
EXTENDS Naturals

CONSTANTS
  Reads,       \* status requests that may be under way at a time
  Clients,     \* of "web" and "mobile"
  None,
  Initial,     \* the repositories to begin with
  Unrecorded,  \* whether there are changes that nobody records
  MaxChanges,  \* bound: changes of the repository besides those of actions
  MaxActions,  \* bound: actions that are chosen
  MaxReads,    \* bound: requests for the status
  MaxFaults    \* bound: fetches and requests that fail

VARIABLES
  repo,     \* the working copy and its branch on GitHub, see TypeOK
  version,  \* changes of it so far
  row,      \* the thread's row
  unsaid,   \* per actor, the change it has not recorded yet
  read,     \* the status requests on the server
  page,     \* what each client holds
  op,       \* the action under way and what it was chosen from
  left      \* what the bounds leave of each

vars == <<repo, version, row, unsaid, read, page, op, left>>

GitActions == {"commit", "push", "create_pr", "commit_push", "push_create_pr",
            "commit_push_create_pr", "pull"}
Commits == {"commit", "commit_push", "commit_push_create_pr"}
Pushes == {"push", "commit_push", "push_create_pr", "commit_push_create_pr"}
Opens == {"create_pr", "push_create_pr", "commit_push_create_pr"}

Count == 0 .. MaxChanges + MaxActions + 1
Repos ==
  [branch : {"own", "other", "detached"}, dirty : BOOLEAN, upstream : BOOLEAN,
   ahead : Count, behind : Count,   \* of its branch on GitHub
   tracked : Count,                 \* how far behind the last fetch found it
   ofBase : Count, pr : BOOLEAN]
Parsed ==
  [branch : {"own", "other", "detached"}, dirty : BOOLEAN, upstream : BOOLEAN,
   ahead : Count, behind : Count]
Statuses ==
  [branch : {"own", "other", "detached"}, dirty : BOOLEAN, upstream : BOOLEAN,
   available : BOOLEAN, ahead : Count, behind : Count, ofBase : Count,
   pushed : BOOLEAN, pr : BOOLEAN, checkedAt : Nat,
   first : Nat, last : Nat]  \* the versions that were read, first and last

TypeOK ==
  /\ repo \in Repos /\ version \in Nat
  /\ row.status \in Statuses \cup {None} /\ row.pr \in BOOLEAN
  /\ row.invalidatedAt \in 0 .. row.now /\ row.recorded \in 0 .. version
  /\ unsaid \in [{"agent", "operation"} -> 0 .. version]
  /\ \A g \in Reads :
       /\ read[g].step \in {"free", "discover", "start", "look", "fetch", "relook", "count",
                           "save", "answer"}
       /\ read[g].client \in Clients \cup {None} /\ read[g].parsed \in Parsed \cup {None}
       /\ read[g].status \in Statuses \cup {None}
  /\ \A c \in Clients :
       /\ page[c].key \in 0 .. row.now /\ page[c].knows \in 0 .. row.recorded
       /\ page[c].data \in Statuses \cup {None}
       /\ page[c].answered \in BOOLEAN
  /\ op.step \in {"idle", "validate", "commit", "push", "pr", "pull", "settled", "refused"}
  /\ left \in [{"changes", "actions", "reads", "faults"} -> Nat]

Free == [step |-> "free", client |-> None, key |-> 0, pr |-> FALSE, checkedAt |-> 0,
         first |-> 0, parsed |-> None, available |-> TRUE, status |-> None]

\* The web app asks anew for every invalidation it learns of, and begins with
\* the status of the row; the mobile app keeps one answer.
WebKey == row.invalidatedAt
MobileKey == 0
FirstKey(c) == IF c = "web" THEN WebKey ELSE MobileKey

Init ==
  /\ repo \in Initial
  /\ version = 0
  /\ row = [status |-> None, invalidatedAt |-> 0, recorded |-> 0, pr |-> FALSE, now |-> 0]
  /\ unsaid = [a \in {"agent", "operation"} |-> 0]
  /\ read = [g \in Reads |-> Free]
  /\ page = [c \in Clients |-> [key |-> FirstKey(c), knows |-> 0, data |-> None, answered |-> FALSE]]
  /\ op = [step |-> "idle", action |-> None, client |-> None, from |-> None, own |-> 0]
  /\ left = [changes |-> MaxChanges, actions |-> MaxActions, reads |-> MaxReads, faults |-> MaxFaults]

Change(new) == version' = version + 1 /\ repo' = new
Uses(what) == left[what] > 0 /\ left' = [left EXCEPT ![what] = @ - 1]
Fault == Uses("faults")

-----------------------------------------------------------------------------
(* Who changes the repository. *)

\* The agent of the thread, who may move the branch on and leave edits.
AgentChanges ==
  /\ \/ Change([repo EXCEPT !.dirty = TRUE])
     \/ Change([repo EXCEPT !.ahead = @ + 1, !.ofBase = @ + 1])
  /\ unsaid' = [unsaid EXCEPT !["agent"] = version'] /\ Uses("changes")
  /\ UNCHANGED <<row, read, page, op>>

\* From a terminal, or on GitHub: nobody records it.
OthersChange ==
  /\ Unrecorded
  /\ \/ \E b \in {"own", "other", "detached"} \ {repo.branch} :
          Change([repo EXCEPT !.branch = b])
     \/ repo.upstream /\ Change([repo EXCEPT !.behind = @ + 1])
     \/ Change([repo EXCEPT !.ahead = @ + 1])  \* a newer base was merged
  /\ Uses("changes")
  /\ UNCHANGED <<row, unsaid, read, page, op>>

\* invalidateGitStatus, and what marks a run finished, a commit, a push or a
\* pull request and invalidates the status with it.
Invalidate(a) ==
  /\ unsaid[a] # 0 /\ unsaid' = [unsaid EXCEPT ![a] = 0]
  /\ row' = [row EXCEPT !.now = @ + 1, !.invalidatedAt = row.now + 1,
                        !.recorded = IF unsaid[a] > @ THEN unsaid[a] ELSE @,
                        !.pr = @ \/ (a = "operation" /\ repo.pr)]
  /\ UNCHANGED <<repo, version, read, page, op, left>>

-----------------------------------------------------------------------------
(* The route that reads the status. *)

At(g, step) == read[g].step = step

\* The pull request on record, or else the one GitHub has.
Discover(g) ==
  /\ At(g, "discover")
  /\ \/ read' = [read EXCEPT ![g].step = "start", ![g].pr = row.pr \/ repo.pr] /\ UNCHANGED left
     \/ read' = [read EXCEPT ![g].step = "start", ![g].pr = row.pr] /\ Fault
  /\ UNCHANGED <<repo, version, row, unsaid, page, op>>

\* checkedAt is taken before anything is read.
Start(g) ==
  /\ At(g, "start")
  /\ read' = [read EXCEPT ![g].step = "look", ![g].checkedAt = row.now]
  /\ UNCHANGED <<repo, version, row, unsaid, page, op, left>>

\* git status --porcelain=v2 --branch: the counts of the upstream, as the last
\* fetch left it.  No count is given without one, which is read as 0.
Porcelain ==
  [branch |-> repo.branch, dirty |-> repo.dirty, upstream |-> repo.upstream,
   ahead |-> IF repo.upstream THEN repo.ahead ELSE 0,
   behind |-> IF repo.upstream THEN repo.tracked ELSE 0]

\* readPorcelainStatus
Look(g) ==
  /\ At(g, "look")
  /\ read' = [read EXCEPT ![g].step = "fetch", ![g].parsed = Porcelain, ![g].first = version]
  /\ UNCHANGED <<repo, version, row, unsaid, page, op, left>>

\* git fetch --prune: what was read before a failed one is kept.
Fetch(g) ==
  /\ At(g, "fetch")
  /\ \/ /\ repo' = [repo EXCEPT !.tracked = repo.behind]
        /\ read' = [read EXCEPT ![g].step = "relook", ![g].first = version] /\ UNCHANGED left
     \/ /\ read' = [read EXCEPT ![g].step = "count", ![g].available = FALSE]
        /\ Fault /\ UNCHANGED repo
  /\ UNCHANGED <<version, row, unsaid, page, op>>

Relook(g) ==
  /\ At(g, "relook")
  /\ read' = [read EXCEPT ![g].step = "count", ![g].parsed = Porcelain]
  /\ UNCHANGED <<repo, version, row, unsaid, page, op, left>>

\* The last commands: the upstream's commit and the count above the base.  An
\* unknown count is read as 0 by everything that uses it.
StatusOf(r) ==
  LET known == r.parsed.upstream /\ r.available
  IN [branch |-> r.parsed.branch, dirty |-> r.parsed.dirty, upstream |-> r.parsed.upstream,
      available |-> r.available,
      ahead |-> IF known THEN r.parsed.ahead ELSE 0,
      behind |-> IF known THEN r.parsed.behind ELSE 0,
      ofBase |-> IF r.available THEN repo.ofBase ELSE 0,
      pushed |-> known /\ r.parsed.ahead = 0 /\ repo.ahead = 0 /\ repo.tracked = 0,
      pr |-> r.pr, checkedAt |-> r.checkedAt, first |-> r.first, last |-> version]
ReadCounts(g) ==
  /\ At(g, "count")
  /\ read' = [read EXCEPT ![g].step = "save", ![g].status = StatusOf(read[g]), ![g].parsed = None]
  /\ UNCHANGED <<repo, version, row, unsaid, page, op, left>>

\* updateGitStatus: whichever read is saved last is kept.
SaveAsNew(g) ==  \* mutant: checkedAt is the time of the end
  /\ At(g, "save")
  /\ row' = [row EXCEPT !.status = [read[g].status EXCEPT !.checkedAt = row.now]]
  /\ read' = [read EXCEPT ![g].step = "answer"]
  /\ UNCHANGED <<repo, version, unsaid, page, op, left>>
Save(g) ==
  /\ At(g, "save")
  /\ row' = [row EXCEPT !.status = read[g].status]
  /\ read' = [read EXCEPT ![g].step = "answer"]
  /\ UNCHANGED <<repo, version, unsaid, page, op, left>>

Fails(g) ==
  /\ read[g].step \notin {"free", "answer"} /\ Fault
  /\ read' = [read EXCEPT ![g] = Free]
  /\ UNCHANGED <<repo, version, row, unsaid, page, op>>

-----------------------------------------------------------------------------
(* The clients. *)

RowArrives ==
  LET p == page["web"]
      fresh == WebKey # p.key
  IN /\ "web" \in Clients /\ p.knows # row.recorded
     /\ page' = [page EXCEPT !["web"] =
          [key |-> WebKey, knows |-> row.recorded,
           data |-> IF fresh \/ p.data = None THEN row.status ELSE p.data,
           answered |-> IF fresh THEN FALSE ELSE p.answered]]
     /\ UNCHANGED <<repo, version, row, unsaid, read, op, left>>

\* A new request takes the place of the one under way for the same key.
Asked(c, g) ==
  [h \in Reads |->
     IF h = g THEN [Free EXCEPT !.step = "discover", !.client = c, !.key = page[c].key]
     ELSE IF read[h].client = c /\ read[h].key = page[c].key THEN [read[h] EXCEPT !.client = None]
     ELSE read[h]]
Ask(c, g) ==
  /\ At(g, "free") /\ read' = Asked(c, g) /\ Uses("reads")
  /\ UNCHANGED <<repo, version, row, unsaid, page, op>>

Answer(g) ==
  LET c == read[g].client
  IN /\ At(g, "answer") /\ read' = [read EXCEPT ![g] = Free]
     /\ page' = IF c # None /\ read[g].key = page[c].key
                THEN [page EXCEPT ![c].data = read[g].status, ![c].answered = TRUE]
                ELSE page
     /\ UNCHANGED <<repo, version, row, unsaid, op, left>>

\* resolveThreadGitActions: the actions a client offers on a status.
LocalCommits(s) == s.ahead > 0 \/ (~s.upstream /\ s.ofBase > 0)
Pushable(s) == s.behind = 0 /\ s.available
Offered(s) ==
  IF s = None \/ s.branch = "detached" \/ (s.ahead > 0 /\ s.behind > 0) THEN {}
  ELSE {a \in GitActions :
          /\ a \in Commits => s.dirty /\ s.behind = 0
          /\ a \in Pushes => Pushable(s)
          /\ a \in {"push", "push_create_pr"} => LocalCommits(s)
          /\ a \in Opens => ~s.pr
          /\ a = "create_pr" => /\ ~s.dirty /\ ~LocalCommits(s) /\ s.pushed
                                /\ s.ofBase > 0 /\ Pushable(s)
          /\ a = "pull" => s.behind > 0 /\ ~s.dirty /\ s.upstream /\ s.available}

-----------------------------------------------------------------------------
(* An action, from the click to its end. *)

Choose(c, a) ==
  /\ op.step = "idle" /\ a \in Offered(page[c].data)
  /\ op' = [step |-> "validate", action |-> a, client |-> c, from |-> page[c].data, own |-> 0]
  /\ Uses("actions")
  /\ UNCHANGED <<repo, version, row, unsaid, read, page>>

Goes(step) == op' = [op EXCEPT !.step = step, !.own = @ + (version' - version)]
InTurn(step) == op.step = step /\ unsaid["operation"] = 0
Records == unsaid' = [unsaid EXCEPT !["operation"] = version']

\* The phases branch and validate, and where the workflow goes from there.
Validate ==
  LET valid == repo.branch = "own" /\ (op.action \in Commits <=> repo.dirty)
  IN /\ op.step = "validate" /\ op.action # "pull"
     /\ UNCHANGED <<repo, version, row, unsaid, read, page, left>>
     /\ Goes(CASE ~valid                -> "refused"
               [] op.action \in Commits -> "commit"
               [] op.action \in Pushes  -> "push"
               [] OTHER                 -> "pr")

\* The working copy may have been cleaned up meanwhile: the phase commits
\* nothing then, and its commit is recorded all the same.
Commit ==
  /\ InTurn("commit")
  /\ IF repo.dirty
     THEN Change([repo EXCEPT !.dirty = FALSE, !.ahead = @ + 1, !.ofBase = @ + 1])
     ELSE UNCHANGED <<repo, version>>
  /\ Records /\ Goes(IF op.action \in Pushes THEN "push" ELSE "settled")
  /\ UNCHANGED <<row, read, page, left>>

Push ==
  /\ InTurn("push")
  /\ \/ /\ repo.behind = 0
        /\ IF repo.ahead = 0 /\ repo.upstream THEN UNCHANGED <<repo, version>>
           ELSE Change([repo EXCEPT !.ahead = 0, !.tracked = 0, !.upstream = TRUE])
        /\ Records /\ Goes(IF op.action \in Opens THEN "pr" ELSE "settled")
     \/ repo.behind > 0 /\ UNCHANGED <<repo, version, unsaid>> /\ Goes("refused")
  /\ UNCHANGED <<row, read, page, left>>

\* readProjectSandboxPullRequestContext counts the commits above the base; a pull
\* request that exists is taken over.
OpenPullRequest ==
  /\ InTurn("pr")
  /\ \/ /\ repo.ofBase > 0
        /\ IF repo.pr THEN UNCHANGED <<repo, version>> ELSE Change([repo EXCEPT !.pr = TRUE])
        /\ Records /\ Goes("settled")
     \/ repo.ofBase = 0 /\ UNCHANGED <<repo, version, unsaid>> /\ Goes("refused")
  /\ UNCHANGED <<row, read, page, left>>

\* pullProjectSandboxBranch: fetch and merge --ff-only.
Pull ==
  /\ op.step = "validate" /\ op.action = "pull"
  /\ IF repo.branch = "own" /\ repo.upstream /\ (repo.behind = 0 \/ repo.ahead = 0)
     THEN /\ IF repo.behind = 0 THEN UNCHANGED <<repo, version>>
             ELSE Change([repo EXCEPT !.behind = 0, !.tracked = 0])
          /\ Records /\ Goes("settled")
     ELSE /\ repo' = IF repo.branch = "own" THEN [repo EXCEPT !.tracked = repo.behind] ELSE repo
          /\ UNCHANGED <<version, unsaid>> /\ Goes("refused")
  /\ UNCHANGED <<row, read, page, left>>

\* Whatever came of the action, its client asks for the status again.
Settle(g) ==
  /\ InTurn("settled") \/ InTurn("refused")
  /\ At(g, "free") /\ read' = Asked(op.client, g)
  /\ op' = [step |-> "idle", action |-> None, client |-> None, from |-> None, own |-> 0]
  /\ UNCHANGED <<repo, version, row, unsaid, page, left>>

-----------------------------------------------------------------------------
Next ==
  \/ AgentChanges \/ OthersChange \/ RowArrives
  \/ \E a \in {"agent", "operation"} : Invalidate(a)
  \/ \E g \in Reads :
       \/ Discover(g) \/ Start(g) \/ Look(g) \/ Fetch(g) \/ Relook(g) \/ ReadCounts(g)
       \/ Save(g) \/ Fails(g) \/ Answer(g) \/ Settle(g)
       \/ \E c \in Clients : Ask(c, g)
  \/ \E c \in Clients, a \in GitActions : Choose(c, a)
  \/ Validate \/ Commit \/ Push \/ OpenPullRequest \/ Pull

Spec == Init /\ [][Next]_vars

-----------------------------------------------------------------------------
\* A status the row does not call outdated was read after every change that has
\* been recorded, however its read was interleaved with others and with the
\* changes; its pull request is looked up before and may be older.
KeptStatusIsCurrent ==
  row.status # None /\ row.status.checkedAt >= row.invalidatedAt
    => row.status.first >= row.recorded

\* Once the web app has an answer, it shows the changes it has been told of.
AnswerIsCurrent ==
  "web" \in Clients /\ page["web"].answered
    => page["web"].data.first >= page["web"].knows

\* An action that was offered is refused only when the repository has changed
\* since its status was read, or for one of three things the offer does not look
\* at: the branch is not the thread's, a push leaves edits behind, a pull request
\* would have no commits.
NotLookedAt ==
  \/ op.from.branch # "own"
  \/ op.action \in {"push", "push_create_pr"} /\ op.from.dirty
  \/ op.action \in Opens /\ repo.ofBase = 0
RefusedWhenChanged ==
  op.step = "refused" => op.from.first # version - op.own \/ op.from.last # version - op.own \/ NotLookedAt
=============================================================================
