--------------------------- MODULE WorkspaceProofs ---------------------------
(***************************************************************************)
(* Theorems about the worktree of a thread and about its Git status.       *)
(*                                                                         *)
(* ThreadWorktree: for every number of attempts to prepare the worktree,   *)
(* of requests that open a pull request and of removals, and for every     *)
(* bound on slow attempts and failures.                                    *)
(*                                                                         *)
(* GitStatus, below GitState!: for every number of changes, of status      *)
(* requests that overlap and of actions that are chosen, any clients and   *)
(* any repositories to begin with.                                         *)
(***************************************************************************)
EXTENDS ThreadWorktree, TLAPS

CONSTANTS Reads, Clients, Initial, Unrecorded, MaxChanges, MaxActions, MaxReads  \* GitStatus

VARIABLES repo, version, row, unsaid, read, page, op, left  \* GitStatus

GitState == INSTANCE GitStatus

-----------------------------------------------------------------------------
(* Types. *)

PC == ProvisionPC \cup OpeningPC \cup RemovalPC \cup {"new", "over"}
Request == [pc : PC, branch : Branch,
            plan : {"none", "create", "existing", "ready", "conflict"},
            deletes : BOOLEAN]
Status == {"pending", "provisioning", "ready", "failed", "cleaned"}
Thread == [exists : BOOLEAN, pull : BOOLEAN, branch : Branch, status : Status,
           attempt : Provisions \cup {None}, stale : BOOLEAN]

\* TypeOK, with one name for each part that an action keeps or changes.
ThreadOK == thread \in Thread /\ (thread.status = "provisioning" <=> thread.attempt # None)
SandboxOK ==
  /\ worktree \in Branch \cup {None}
  /\ branches \subseteq Branch /\ worktree \in branches \cup {None}
  /\ dirty \in BOOLEAN /\ (dirty => worktree # None)
  /\ fetched \in BOOLEAN
CountsOK == taken \in BOOLEAN /\ slow \in 0 .. MaxSlow /\ faults \in 0 .. MaxFaults

LEMMA TypeParts ==
  TypeOK <=> ThreadOK /\ SandboxOK /\ req \in [Requests -> Request] /\ CountsOK
BY DEF TypeOK, ThreadOK, SandboxOK, CountsOK, Request, PC, Thread, Status

\* The step of a request that only moves on.
LEMMA GotoIs ==
  ASSUME req \in [Requests -> Request], NEW r \in Requests, NEW pc \in PC, Goto(r, pc)
  PROVE  /\ req' \in [Requests -> Request]
         /\ req'[r].pc = pc
         /\ pc \notin {"idle", "over"} => req'[r].branch = req[r].branch
         /\ \A s \in Requests : s # r => req'[s] = req[s]
<1> DEFINE l == IF pc \in {"idle", "over"} THEN Blank(pc) ELSE [req[r] EXCEPT !.pc = pc]
<1>1. req' = [req EXCEPT ![r] = l]
  BY DEF Goto
<1>2. /\ l \in Request /\ l.pc = pc
      /\ pc \notin {"idle", "over"} => l.branch = req[r].branch
  BY DEF Request, Blank, Branch
<1> HIDE DEF l
<1> QED BY <1>1, <1>2

\* What a settled thread is.
LEMMA SettledIs ==
  ASSUME ThreadOK, NEW status \in Status \ {"provisioning"}
  PROVE  /\ Settled(status) \in Thread
         /\ Settled(status).status = status /\ Settled(status).attempt = None
         /\ Settled(status).exists = thread.exists
         /\ Settled(status).pull = thread.pull
         /\ Settled(status).branch = thread.branch
BY DEF ThreadOK, Settled, Thread

\* A request stays among the steps of its own kind.
KindOK(r, pc) ==
  /\ pc \in ProvisionPC => r \in Provisions
  /\ pc \in OpeningPC => r \in Openings
  /\ pc \in RemovalPC => r \in Removals

TypeInv == TypeOK /\ \A r \in Requests : KindOK(r, req[r].pc)

LEMMA TypeInvariant == Spec => []TypeInv
<1> USE DEF At
<1>p. /\ ProvisionPC \subseteq PC /\ OpeningPC \subseteq PC /\ RemovalPC \subseteq PC
      /\ {"new", "over"} \subseteq PC
      /\ ProvisionPC = {"idle", "reserve", "inspect", "check", "add", "reread", "head",
                        "markReady", "markFailed"}
      /\ OpeningPC = {"list", "fetch", "branch", "addPull", "upstream", "headPull",
                      "complete", "fail"}
      /\ RemovalPC = {"registered", "status", "remove", "mark", "delete"}
  BY DEF PC, ProvisionPC, OpeningPC, RemovalPC
<1>1. Init => TypeInv
  <2> SUFFICES ASSUME Init PROVE TypeInv
    OBVIOUS
  <2>1. ThreadOK
    <3>1. PICK p \in BOOLEAN :
            thread = [exists |-> TRUE, pull |-> p,
                      branch |-> IF p THEN "pull" ELSE "own", status |-> "pending",
                      attempt |-> None, stale |-> FALSE]
      BY DEF Init
    <3>2. (IF p THEN "pull" ELSE "own") \in Branch
      BY DEF Branch
    <3> QED BY <3>1, <3>2 DEF ThreadOK, Thread, Status
  <2>2. SandboxOK /\ CountsOK
    <3>1. worktree = None /\ branches = {} /\ dirty = FALSE /\ fetched = FALSE
      BY DEF Init
    <3>2. SandboxOK
      BY <3>1 DEF SandboxOK
    <3>3. 0 \in 0 .. MaxSlow /\ 0 \in 0 .. MaxFaults
      BY WorktreeAssumption
    <3>4. CountsOK
      BY <3>3 DEF Init, CountsOK
    <3> QED BY <3>2, <3>4
  <2>3. /\ req \in [Requests -> Request]
        /\ \A r \in Requests :
             (req[r].pc = "idle" /\ r \in Provisions) \/ req[r].pc = "new"
    BY <1>p DEF Init, Blank, Request, Branch
  <2> QED BY <1>p, <2>1, <2>2, <2>3, TypeParts DEF TypeInv, KindOK
<1>2. TypeInv /\ [Next]_vars => TypeInv'
  <2> SUFFICES ASSUME TypeInv, [Next]_vars PROVE TypeInv'
    OBVIOUS
  <2>0. /\ ThreadOK /\ SandboxOK /\ req \in [Requests -> Request] /\ CountsOK
        /\ \A r \in Requests : KindOK(r, req[r].pc)
        /\ \A r \in Requests : req[r] \in Request /\ req[r].branch \in Branch
    BY TypeParts DEF TypeInv, Request
  <2>q. (TypeOK <=> ThreadOK /\ SandboxOK /\ req \in [Requests -> Request] /\ CountsOK)'
    BY TypeParts, PTL
  \* a request that moves on, and what it may change
  <2>a. ASSUME NEW r \in Requests, NEW pc \in PC, Goto(r, pc), KindOK(r, pc),
               ThreadOK', SandboxOK', CountsOK'
        PROVE  TypeInv'
    BY <2>0, <2>q, <2>a, GotoIs DEF TypeInv
  <2>b. ASSUME NEW r \in Requests, NEW l \in Request, req' = [req EXCEPT ![r] = l],
               KindOK(r, l.pc), ThreadOK', SandboxOK', CountsOK'
        PROVE  TypeInv'
    BY <2>0, <2>q, <2>b DEF TypeInv
  <2>t. UNCHANGED thread => ThreadOK'
    BY <2>0 DEF ThreadOK
  <2>s. UNCHANGED sandbox => SandboxOK'
    BY <2>0 DEF SandboxOK, sandbox
  <2>c. UNCHANGED <<taken, slow, faults>> => CountsOK'
    BY <2>0 DEF CountsOK
  <2>w. ASSUME NEW b \in Branch, worktree = None, AddWorktree(b) PROVE SandboxOK'
    BY <2>0, <2>w DEF SandboxOK, AddWorktree
  <2>u. ASSUME NEW status \in Status \ {"provisioning"}, thread' = Settled(status)
        PROVE  ThreadOK'
    BY <2>0, <2>u, SettledIs DEF ThreadOK
  <2>1. CASE EditWorktree
    BY <2>0, <2>1, <2>t, <2>c, <2>q DEF EditWorktree, SandboxOK, TypeInv
  <2>2. CASE Outlast
    <3>1. ThreadOK'
      BY <2>0, <2>2 DEF Outlast, ThreadOK, Thread
    <3>2. CountsOK'
      BY <2>0, <2>2, WorktreeAssumption DEF Outlast, CountsOK
    <3> QED BY <2>0, <2>2, <2>s, <2>q, <3>1, <3>2 DEF Outlast, TypeInv
  <2>3. ASSUME NEW r \in Requests, Ask(r) PROVE TypeInv'
    <3> DEFINE l == [req[r] EXCEPT !.pc = "reserve", !.branch = thread.branch]
    <3>1. l \in Request /\ l.pc = "reserve"
      BY <1>p, <2>0 DEF ThreadOK, Thread, Request
    <3>2. KindOK(r, "reserve")
      BY <1>p, <2>3 DEF Ask, KindOK
    <3> QED BY <2>3, <2>b, <2>t, <2>s, <2>c, <3>1, <3>2 DEF Ask
  <2>4. ASSUME NEW r \in Requests, Reserve(r) PROVE TypeInv'
    <3>0. r \in Provisions
      BY <1>p, <2>0, <2>4 DEF Reserve, KindOK
    <3>1. ThreadOK'
      <4>1. CASE MayReserve(r)
        BY <2>0, <2>4, <3>0, <4>1, WorktreeAssumption DEF Reserve, ThreadOK, Thread, Status
      <4>2. CASE ~MayReserve(r)
        BY <2>4, <2>t, <4>2 DEF Reserve
      <4> QED BY <4>1, <4>2
    <3>2. KindOK(r, "inspect") /\ KindOK(r, "idle")
      BY <1>p, <3>0 DEF KindOK
    <3> QED BY <1>p, <2>4, <2>a, <2>s, <2>c, <3>1, <3>2 DEF Reserve
  <2>5. ASSUME NEW r \in Requests, Inspect(r) PROVE TypeInv'
    <3> DEFINE plan == Decide(req[r].branch)
               l == [req[r] EXCEPT !.plan = plan,
                       !.pc = CASE plan = "conflict" -> "markFailed"
                                [] plan = "ready"    -> "head"
                                [] OTHER             -> "check"]
    <3>1. plan \in {"create", "existing", "ready", "conflict"}
      BY DEF Decide
    <3> HIDE DEF plan
    <3>2. l \in Request /\ l.pc \in {"markFailed", "head", "check"}
      BY <1>p, <2>0, <3>1 DEF Request
    <3>3. KindOK(r, l.pc)
      BY <1>p, <2>0, <2>5, <3>2 DEF Inspect, KindOK
    <3>4. req' = [req EXCEPT ![r] = l]
      BY <2>5 DEF Inspect, plan
    <3> HIDE DEF l
    <3> QED BY <2>5, <2>b, <2>t, <2>s, <2>c, <3>2, <3>3, <3>4 DEF Inspect
  \* the steps of an attempt that leave the document alone
  <2>6. ASSUME NEW r \in Requests, Check(r) \/ Reread(r) \/ ReadHead(r) PROVE TypeInv'
    <3>1. \E pc \in {"add", "markFailed", "head", "markReady"} : Goto(r, pc)
      BY <2>6 DEF Check, Reread, ReadHead, Command
    <3>2. r \in Provisions
      BY <1>p, <2>0, <2>6 DEF Check, Reread, ReadHead, KindOK
    <3>3. ThreadOK' /\ SandboxOK' /\ CountsOK'
      BY <2>6, <2>t, <2>s, <2>c DEF Check, Reread, ReadHead
    <3> QED BY <1>p, <2>a, <3>1, <3>2, <3>3 DEF KindOK
  <2>7. ASSUME NEW r \in Requests, Add(r) PROVE TypeInv'
    <3>1. \E pc \in {"head", "reread"} : Goto(r, pc)
      BY <2>7 DEF Add, Command
    <3>2. r \in Provisions
      BY <1>p, <2>0, <2>7 DEF Add, KindOK
    <3>3. SandboxOK'
      BY <2>0, <2>7, <2>s, <2>w DEF Add, CanAdd
    <3> QED BY <1>p, <2>a, <2>7, <2>t, <2>c, <3>1, <3>2, <3>3 DEF Add, KindOK
  <2>8. ASSUME NEW r \in Requests, MarkReady(r) \/ MarkFailed(r) PROVE TypeInv'
    <3>1. \E pc \in {"idle", "markFailed"} : Goto(r, pc)
      BY <2>8 DEF MarkReady, MarkFailed
    <3>2. r \in Provisions
      BY <1>p, <2>0, <2>8 DEF MarkReady, MarkFailed, KindOK
    <3>3. ThreadOK'
      BY <2>8, <2>t, <2>u DEF MarkReady, MarkFailed, Status
    <3>4. SandboxOK' /\ CountsOK'
      BY <2>8, <2>s, <2>c DEF MarkReady, MarkFailed
    <3> QED BY <1>p, <2>a, <3>1, <3>2, <3>3, <3>4 DEF KindOK
  <2>9. ASSUME NEW r \in Requests, Open(r) PROVE TypeInv'
    <3>1. ThreadOK'
      <4> DEFINE t == Settled("pending")
      <4>1. /\ t \in Thread /\ t.status = "pending" /\ t.attempt = None
        BY <2>0, SettledIs DEF Status
      <4>2. [t EXCEPT !.pull = TRUE, !.branch = "pull"] \in Thread
        BY <4>1 DEF Thread, Branch
      <4> HIDE DEF t
      <4>3. /\ [t EXCEPT !.pull = TRUE, !.branch = "pull"].status = "pending"
            /\ [t EXCEPT !.pull = TRUE, !.branch = "pull"].attempt = None
        BY <4>1 DEF Thread
      <4> QED BY <2>0, <2>9, <4>2, <4>3 DEF Open, ThreadOK, t
    <3>2. KindOK(r, "list")
      BY <1>p, <2>9 DEF Open, KindOK
    <3> QED BY <1>p, <2>9, <2>a, <2>s, <2>c, <3>1, <3>2 DEF Open
  <2>10. ASSUME NEW r \in Requests, Opening(r) PROVE TypeInv'
    <3>1. r \in Openings
      BY <1>p, <2>0, <2>10
      DEF Opening, ListForPull, FetchPull, BranchPull, AddPull, SetUpstream,
          ReadPullHead, Complete, FailOpening, KindOK
    <3>2. \E pc \in OpeningPC \cup {"over"} : Goto(r, pc)
      BY <1>p, <2>10
      DEF Opening, ListForPull, FetchPull, BranchPull, AddPull, SetUpstream,
          ReadPullHead, Complete, FailOpening, Command
    <3>3. ThreadOK'
      BY <2>10, <2>t, <2>u
      DEF Opening, ListForPull, FetchPull, BranchPull, AddPull, SetUpstream,
          ReadPullHead, Complete, FailOpening, Status
    <3>4. CountsOK'
      BY <2>10, <2>c
      DEF Opening, ListForPull, FetchPull, BranchPull, AddPull, SetUpstream,
          ReadPullHead, Complete, FailOpening
    <3>5. SandboxOK'
      <4>1. CASE AddPull(r)
        <5>1. "pull" \in Branch
          BY DEF Branch
        <5>2. CASE CanAdd("pull", "existing")
          <6>1. worktree = None /\ AddWorktree("pull")
            BY <4>1, <5>2 DEF AddPull, CanAdd
          <6> QED BY <2>w, <5>1, <6>1
        <5>3. CASE ~CanAdd("pull", "existing")
          BY <2>s, <4>1, <5>3 DEF AddPull
        <5> QED BY <5>2, <5>3
      <4>2. CASE FetchPull(r) \/ BranchPull(r) \/ SetUpstream(r)
        <5>1. fetched' \in BOOLEAN
          BY <2>0, <4>2 DEF FetchPull, BranchPull, SetUpstream, SandboxOK
        <5>2. /\ worktree' = worktree /\ dirty' = dirty
              /\ branches' = branches \/ branches' = branches \cup {"pull"}
          BY <4>2 DEF FetchPull, BranchPull, SetUpstream
        <5>3. "pull" \in Branch
          BY DEF Branch
        <5> QED BY <2>0, <5>1, <5>2, <5>3 DEF SandboxOK
      <4>3. CASE ListForPull(r) \/ ReadPullHead(r)
        BY <2>s, <4>3 DEF ListForPull, ReadPullHead
      <4>4. CASE Complete(r) \/ FailOpening(r)
        BY <2>s, <4>4 DEF Complete, FailOpening
      <4> QED BY <2>10, <4>1, <4>2, <4>3, <4>4 DEF Opening
    <3> QED BY <1>p, <2>a, <3>1, <3>2, <3>3, <3>4, <3>5 DEF KindOK
  <2>11. ASSUME NEW r \in Requests, NEW deletes \in BOOLEAN, CleanUp(r, deletes)
         PROVE  TypeInv'
    <3> DEFINE l == [req[r] EXCEPT !.pc = "registered", !.deletes = deletes]
    <3>1. l \in Request /\ l.pc = "registered"
      BY <1>p, <2>0 DEF Request
    <3>2. KindOK(r, "registered")
      BY <1>p, <2>11 DEF CleanUp, KindOK
    <3> QED BY <2>11, <2>b, <2>t, <2>s, <2>c, <3>1, <3>2 DEF CleanUp
  <2>12. ASSUME NEW r \in Requests, Removal(r) PROVE TypeInv'
    <3>1. r \in Removals
      BY <1>p, <2>0, <2>12
      DEF Removal, ListForRemoval, ReadStatus, RemoveWorktree, MarkCleaned, DeleteThread,
          KindOK
    <3>2. \E pc \in RemovalPC \cup {"over"} : Goto(r, pc)
      BY <1>p, <2>12
      DEF Removal, ListForRemoval, ReadStatus, RemoveWorktree, MarkCleaned, DeleteThread,
          Command
    <3>3. ThreadOK'
      <4>1. CASE DeleteThread(r)
        <5> DEFINE t == Settled("cleaned")
        <5>1. t \in Thread /\ t.status = "cleaned" /\ t.attempt = None
          BY <2>0, SettledIs DEF Status
        <5>2. thread' = [t EXCEPT !.exists = FALSE]
          BY <4>1 DEF DeleteThread
        <5> HIDE DEF t
        <5> QED BY <5>1, <5>2 DEF ThreadOK, Thread
      <4> QED BY <2>12, <2>t, <2>u, <4>1
        DEF Removal, ListForRemoval, ReadStatus, RemoveWorktree, MarkCleaned, Status
    <3>4. CountsOK'
      BY <2>0, <2>12, <2>c
      DEF Removal, ListForRemoval, ReadStatus, RemoveWorktree, MarkCleaned, DeleteThread,
          CountsOK
    <3>5. SandboxOK'
      <4>1. CASE RemoveWorktree(r)
        BY <2>0, <4>1 DEF RemoveWorktree, CanRemove, SandboxOK
      <4> QED BY <2>12, <2>s, <4>1
        DEF Removal, ListForRemoval, ReadStatus, MarkCleaned, DeleteThread
    <3> QED BY <1>p, <2>a, <3>1, <3>2, <3>3, <3>4, <3>5 DEF KindOK
  <2>13. ASSUME NEW r \in Requests, Fail(r) PROVE TypeInv'
    <3>1. CountsOK' /\ ThreadOK' /\ SandboxOK'
      BY <2>0, <2>13, <2>t, <2>s, WorktreeAssumption DEF Fail, CountsOK
    <3>2. \E pc \in PC : Goto(r, pc) /\ KindOK(r, pc)
      <4>1. CASE Goto(r, Handler(req[r].pc))
        <5>1. Handler(req[r].pc) \in {"markFailed", "reread", "idle", "fail", "over"}
          BY DEF Handler
        <5>2. /\ Handler(req[r].pc) \in {"markFailed", "reread", "idle"} =>
                   req[r].pc \in ProvisionPC
              /\ Handler(req[r].pc) = "fail" => req[r].pc \in OpeningPC
          BY <1>p DEF Handler
        <5> QED BY <1>p, <2>0, <4>1, <5>1, <5>2 DEF KindOK
      <4>2. CASE Goto(r, IF r \in Provisions THEN "idle" ELSE "over")
        BY <1>p, <4>2 DEF KindOK
      <4> QED BY <2>13, <4>1, <4>2 DEF Fail
    <3> QED BY <2>a, <3>1, <3>2
  <2>14. CASE UNCHANGED vars
    BY <2>0, <2>14, <2>t, <2>s, <2>c, <2>q DEF vars, sandbox, TypeInv
  <2> QED BY <2>1, <2>2, <2>3, <2>4, <2>5, <2>6, <2>7, <2>8, <2>9, <2>10, <2>11, <2>12,
       <2>13, <2>14
    DEF Next, Step, Provision
<1> QED BY <1>1, <1>2, PTL DEF Spec

\* TypeOK holds of every behaviour: the thread names an attempt exactly while
\* it is provisioning, and only a worktree that is there has changes in it.
THEOREM WorktreeTypeCorrect == Spec => []TypeOK
<1>1. TypeInv => TypeOK
  BY DEF TypeInv
<1> QED BY <1>1, TypeInvariant, PTL

-----------------------------------------------------------------------------
(* The worktree of a ready thread. *)

\* What the place l of request r says of the document and of the sandbox.
RequestOK(r, l) ==
  /\ l.pc \in OpeningPC => thread.pull
  /\ ~taken /\ l.pc \in {"upstream", "headPull", "complete"} => worktree = "pull"
  /\ ~taken /\ IsCurrent(r) /\ l.pc \in {"head", "markReady"} => worktree = l.branch
  /\ IsCurrent(r) /\ l.pc \in ProvisionPC \ {"idle", "reserve"} => l.branch = thread.branch

BranchOK == thread.branch = IF thread.pull THEN "pull" ELSE "own"
ReadyOK == ~taken /\ thread.exists /\ thread.status = "ready" => worktree = thread.branch
Apart == \A o, d \in Requests : ~(req[o].pc \in OpeningPC /\ req[d].pc \in RemovalPC)

\* ReadyHasWorktree, made inductive: as long as no removal has taken the
\* worktree, an attempt that is about to report it, and is not replaced, has
\* it on the branch it reserved; so has an opening that got that far.  Openings
\* and removals keep apart.
WorktreeInv ==
  /\ BranchOK /\ ReadyOK /\ Apart
  /\ \A r \in Requests : RequestOK(r, req[r])

\* What a step of s leaves of the places of the others: the worktree stays, is
\* added where there was none, or is taken; no other attempt becomes current.
LEMMA OthersKept ==
  ASSUME TypeOK, WorktreeInv, NEW s \in Requests,
         \A r \in Requests : r # s => req'[r] = req[r],
         taken' \/ (~taken /\ (worktree' = worktree \/ worktree = None)),
         thread.pull => thread'.pull,
         \A r \in Requests : r # s /\ thread'.exists /\ thread'.attempt = r =>
           IsCurrent(r) /\ thread'.branch = thread.branch
  PROVE  \A r \in Requests : r # s => RequestOK(r, req[r])'
<1> SUFFICES ASSUME NEW r \in Requests, r # s
             PROVE  RequestOK(r, req[r])'
  OBVIOUS
<1>1. RequestOK(r, req[r]) /\ req'[r] = req[r] /\ req[r].branch \in Branch
  BY TypeParts DEF WorktreeInv, Request
<1>2. None # "pull" /\ None \notin Branch
  BY WorktreeAssumption DEF Branch
<1>3. IsCurrent(r)' => IsCurrent(r) /\ thread'.branch = thread.branch
  BY DEF IsCurrent
<1> QED BY <1>1, <1>2, <1>3 DEF RequestOK

\* The kind of step a request is at, when it differs, is free to be entered.
NoneAt(S) == \A r \in Requests : req[r].pc \notin S

LEMMA MoveKeeps ==
  ASSUME TypeOK, WorktreeInv, NEW s \in Requests,
         \A r \in Requests : r # s => req'[r] = req[r],
         taken' \/ (~taken /\ (worktree' = worktree \/ worktree = None)),
         thread.pull => thread'.pull,
         \A r \in Requests : r # s /\ thread'.exists /\ thread'.attempt = r =>
           IsCurrent(r) /\ thread'.branch = thread.branch,
         BranchOK', ReadyOK', RequestOK(s, req[s])',
         req'[s].pc \in OpeningPC => req[s].pc \in OpeningPC \/ NoneAt(RemovalPC),
         req'[s].pc \in RemovalPC => req[s].pc \in RemovalPC \/ NoneAt(OpeningPC)
  PROVE  WorktreeInv'
<1>1. \A r \in Requests : RequestOK(r, req[r])'
  BY OthersKept
<1>2. Apart'
  <2>1. OpeningPC \cap RemovalPC = {}
    BY DEF OpeningPC, RemovalPC
  <2> QED BY <2>1 DEF Apart, NoneAt, WorktreeInv
<1> QED BY <1>1, <1>2 DEF WorktreeInv

\* A step of a request that leaves the document alone, and adds a worktree at
\* most where there is none.
LEMMA QuietKeeps ==
  ASSUME TypeOK, WorktreeInv, NEW s \in Requests,
         \A r \in Requests : r # s => req'[r] = req[r],
         thread' = thread, taken' = taken, worktree' = worktree \/ worktree = None,
         RequestOK(s, req[s])',
         req'[s].pc \in OpeningPC => req[s].pc \in OpeningPC \/ NoneAt(RemovalPC),
         req'[s].pc \in RemovalPC => req[s].pc \in RemovalPC \/ NoneAt(OpeningPC)
  PROVE  WorktreeInv'
<1>1. taken \in BOOLEAN /\ thread.branch \in Branch /\ None \notin Branch
  BY TypeParts, WorktreeAssumption DEF CountsOK, ThreadOK, Thread, Branch
<1>2. BranchOK' /\ ReadyOK'
  BY <1>1 DEF WorktreeInv, BranchOK, ReadyOK
<1>3. taken' \/ (~taken /\ (worktree' = worktree \/ worktree = None))
  BY <1>1
<1>4. \A r \in Requests : r # s /\ thread'.exists /\ thread'.attempt = r =>
        IsCurrent(r) /\ thread'.branch = thread.branch
  BY DEF IsCurrent
<1> QED BY <1>2, <1>3, <1>4, MoveKeeps

\* A step of a request that settles the document, or leaves it alone, and
\* leaves the worktree alone.
LEMMA SettleKeeps ==
  ASSUME TypeOK, WorktreeInv, NEW s \in Requests,
         \A r \in Requests : r # s => req'[r] = req[r],
         NEW status \in Status \ {"provisioning"},
         thread' = Settled(status) \/ thread' = thread,
         taken' = taken, worktree' = worktree,
         thread' # thread /\ status = "ready" /\ ~taken => worktree = thread.branch,
         RequestOK(s, req[s])',
         req'[s].pc \in OpeningPC => req[s].pc \in OpeningPC \/ NoneAt(RemovalPC),
         req'[s].pc \in RemovalPC => req[s].pc \in RemovalPC \/ NoneAt(OpeningPC)
  PROVE  WorktreeInv'
<1>1. CASE thread' = thread
  BY <1>1, QuietKeeps
<1>2. CASE thread' # thread /\ thread' = Settled(status)
  <2>0. ThreadOK /\ taken \in BOOLEAN
    BY TypeParts DEF CountsOK
  <2>1. /\ thread'.status = status /\ thread'.attempt = None
        /\ thread'.exists = thread.exists /\ thread'.pull = thread.pull
        /\ thread'.branch = thread.branch
    BY <1>2, <2>0, SettledIs
  <2>2. BranchOK' /\ ReadyOK'
    BY <1>2, <2>1 DEF WorktreeInv, BranchOK, ReadyOK
  <2>3. \A r \in Requests : r # s /\ thread'.exists /\ thread'.attempt = r =>
          IsCurrent(r) /\ thread'.branch = thread.branch
    <3> SUFFICES ASSUME NEW r \in Requests, r # s, thread'.exists, thread'.attempt = r
                 PROVE  IsCurrent(r)
      BY <2>1
    <3> QED BY <2>1, WorktreeAssumption DEF IsCurrent, Requests
  <2>4. taken' \/ (~taken /\ (worktree' = worktree \/ worktree = None))
    BY <2>0
  <2> QED BY <2>1, <2>2, <2>3, <2>4, MoveKeeps
<1> QED BY <1>1, <1>2

LEMMA WorktreeInvInit == Init => WorktreeInv
<1> SUFFICES ASSUME Init PROVE WorktreeInv
  OBVIOUS
<1>1. PICK p \in BOOLEAN :
        thread = [exists |-> TRUE, pull |-> p,
                  branch |-> IF p THEN "pull" ELSE "own", status |-> "pending",
                  attempt |-> None, stale |-> FALSE]
  BY DEF Init
<1>2. BranchOK /\ ReadyOK
  BY <1>1 DEF BranchOK, ReadyOK
<1>3. \A r \in Requests : req[r].pc \in {"idle", "new"}
  BY DEF Init, Blank
<1>4. Apart
  BY <1>3 DEF Apart, OpeningPC
<1>5. \A r \in Requests : RequestOK(r, req[r])
  BY <1>3 DEF RequestOK, OpeningPC, ProvisionPC
<1> QED BY <1>2, <1>4, <1>5 DEF WorktreeInv

LEMMA WorktreeInvStep ==
  ASSUME ~OpenWhileRemoving
  PROVE  TypeInv /\ WorktreeInv /\ [Next]_vars => WorktreeInv'
<1> USE DEF At
<1> SUFFICES ASSUME TypeInv, WorktreeInv, [Next]_vars PROVE WorktreeInv'
  OBVIOUS
<1>p. /\ ProvisionPC \subseteq PC /\ OpeningPC \subseteq PC /\ RemovalPC \subseteq PC
      /\ {"new", "over"} \subseteq PC
      /\ ProvisionPC = {"idle", "reserve", "inspect", "check", "add", "reread", "head",
                        "markReady", "markFailed"}
      /\ OpeningPC = {"list", "fetch", "branch", "addPull", "upstream", "headPull",
                      "complete", "fail"}
      /\ RemovalPC = {"registered", "status", "remove", "mark", "delete"}
  BY DEF PC, ProvisionPC, OpeningPC, RemovalPC
<1>0. /\ TypeOK /\ ThreadOK /\ SandboxOK /\ req \in [Requests -> Request] /\ CountsOK
      /\ taken \in BOOLEAN /\ thread \in Thread /\ worktree \in Branch \cup {None}
      /\ \A r \in Requests :
           /\ KindOK(r, req[r].pc) /\ RequestOK(r, req[r])
           /\ req[r] \in Request /\ req[r].branch \in Branch
      /\ None \notin Requests /\ None \notin Branch
  BY TypeParts, WorktreeAssumption
  DEF TypeInv, WorktreeInv, Request, CountsOK, ThreadOK, SandboxOK, Requests, Branch
\* where Goto takes a request, and what it leaves
<1>g. ASSUME NEW r \in Requests, NEW pc \in PC, Goto(r, pc)
      PROVE  /\ req'[r].pc = pc
             /\ pc \notin {"idle", "over"} => req'[r].branch = req[r].branch
             /\ \A s \in Requests : s # r => req'[s] = req[s]
  BY <1>0, <1>g, GotoIs
\* a step of a request within its kind that leaves the document alone
<1>k. ASSUME NEW r \in Requests, NEW pc \in PC, Goto(r, pc),
             thread' = thread, taken' = taken, worktree' = worktree \/ worktree = None,
             pc \in OpeningPC => req[r].pc \in OpeningPC,
             pc \in RemovalPC => req[r].pc \in RemovalPC,
             pc \in {"upstream", "headPull", "complete"} /\ ~taken => worktree' = "pull",
             pc \in {"head", "markReady"} /\ ~taken /\ IsCurrent(r) =>
               worktree' = req[r].branch,
             pc \in ProvisionPC \ {"idle", "reserve"} =>
               req[r].pc \in ProvisionPC \ {"idle", "reserve"}
      PROVE  WorktreeInv'
  <2>1. RequestOK(r, req[r])'
    <3>1. /\ req'[r].pc = pc
          /\ pc \notin {"idle", "over"} => req'[r].branch = req[r].branch
      BY <1>k, <1>g
    <3>2. IsCurrent(r)' = IsCurrent(r)
      BY <1>k DEF IsCurrent
    <3> QED BY <1>0, <1>k, <1>p, <3>1, <3>2 DEF RequestOK
  <2>2. req'[r].pc = pc /\ \A s \in Requests : s # r => req'[s] = req[s]
    BY <1>k, <1>g
  <2> QED BY <1>0, <1>k, <2>1, <2>2, QuietKeeps
\* a request that ends as it settles the document
<1>s. ASSUME NEW r \in Requests, NEW pc \in {"idle", "over"}, Goto(r, pc),
             NEW status \in Status \ {"provisioning"}, thread' = Settled(status),
             taken' = taken, worktree' = worktree,
             status = "ready" /\ ~taken => worktree = thread.branch
      PROVE  WorktreeInv'
  <2>1. req'[r].pc = pc /\ \A s \in Requests : s # r => req'[s] = req[s]
    BY <1>p, <1>s, <1>g
  <2>2. RequestOK(r, req[r])'
    BY <1>p, <2>1 DEF RequestOK
  <2> QED BY <1>0, <1>p, <1>s, <2>1, <2>2, SettleKeeps
<1>1. CASE EditWorktree
  BY <1>1 DEF EditWorktree, WorktreeInv, BranchOK, ReadyOK, Apart, RequestOK, IsCurrent
<1>2. CASE Outlast
  <2>1. /\ thread'.exists = thread.exists /\ thread'.pull = thread.pull
        /\ thread'.branch = thread.branch /\ thread'.status = thread.status
        /\ thread'.attempt = thread.attempt
    BY <1>0, <1>2 DEF Outlast, Thread
  <2>2. UNCHANGED <<worktree, req, taken>>
    BY <1>2 DEF Outlast, sandbox
  <2> QED BY <2>1, <2>2 DEF WorktreeInv, BranchOK, ReadyOK, Apart, RequestOK, IsCurrent
<1>3. ASSUME NEW r \in Requests, Ask(r) PROVE WorktreeInv'
  <2> DEFINE l == [req[r] EXCEPT !.pc = "reserve", !.branch = thread.branch]
  <2>1. l.pc = "reserve" /\ req' = [req EXCEPT ![r] = l]
    BY <1>0, <1>3 DEF Ask, Request
  <2> HIDE DEF l
  <2>2. req'[r].pc = "reserve" /\ \A s \in Requests : s # r => req'[s] = req[s]
    BY <1>0, <2>1
  <2>3. thread' = thread /\ taken' = taken /\ worktree' = worktree
    BY <1>3 DEF Ask, sandbox
  <2>4. RequestOK(r, req[r])'
    BY <1>p, <2>2 DEF RequestOK
  <2> QED BY <1>0, <1>p, <2>2, <2>3, <2>4, QuietKeeps
<1>4. ASSUME NEW r \in Requests, Reserve(r) PROVE WorktreeInv'
  <2>1. CASE ~MayReserve(r)
    BY <1>4, <1>k, <1>p, <2>1 DEF Reserve, sandbox
  <2>2. CASE MayReserve(r)
    <3>1. /\ thread'.exists = thread.exists /\ thread'.pull = thread.pull
          /\ thread'.branch = thread.branch /\ thread'.status = "provisioning"
          /\ thread'.attempt = r
      BY <1>0, <1>4, <2>2 DEF Reserve, Thread
    <3>2. req'[r].pc = "inspect" /\ req'[r].branch = req[r].branch
      BY <1>4, <1>g, <1>p, <2>2 DEF Reserve
    <3>3. \A s \in Requests : s # r => req'[s] = req[s]
      BY <1>4, <1>g, <1>p, <2>2 DEF Reserve
    <3>4. taken' = taken /\ worktree' = worktree /\ thread.branch = req[r].branch
      BY <1>4, <2>2 DEF Reserve, sandbox, MayReserve
    <3>5. BranchOK' /\ ReadyOK'
      BY <3>1 DEF WorktreeInv, BranchOK, ReadyOK
    <3>6. RequestOK(r, req[r])'
      BY <1>p, <3>1, <3>2, <3>4 DEF RequestOK
    <3>7. taken' \/ (~taken /\ (worktree' = worktree \/ worktree = None))
      BY <1>0, <3>4
    <3> QED BY <1>0, <1>p, <3>1, <3>2, <3>3, <3>5, <3>6, <3>7, MoveKeeps
  <2> QED BY <2>1, <2>2
<1>5. ASSUME NEW r \in Requests, Inspect(r) PROVE WorktreeInv'
  <2> DEFINE plan == Decide(req[r].branch)
             l == [req[r] EXCEPT !.plan = plan,
                     !.pc = CASE plan = "conflict" -> "markFailed"
                              [] plan = "ready"    -> "head"
                              [] OTHER             -> "check"]
  <2>1. plan = "ready" => worktree = req[r].branch
    BY DEF Decide
  <2>2. req' = [req EXCEPT ![r] = l]
    BY <1>5 DEF Inspect
  <2> HIDE DEF plan
  <2>3. /\ l.pc \in {"markFailed", "head", "check"} /\ l.branch = req[r].branch
        /\ l.pc = "head" => worktree = req[r].branch
    BY <1>0, <2>1 DEF Request
  <2> HIDE DEF l
  <2>4. req'[r] = l /\ \A s \in Requests : s # r => req'[s] = req[s]
    BY <1>0, <2>2
  <2>5. thread' = thread /\ taken' = taken /\ worktree' = worktree /\ req[r].pc = "inspect"
    BY <1>5 DEF Inspect, sandbox
  <2>6. RequestOK(r, req[r])'
    BY <1>0, <1>p, <2>3, <2>4, <2>5 DEF RequestOK, IsCurrent
  <2>7. req'[r].pc \notin OpeningPC \cup RemovalPC
    BY <1>p, <2>3, <2>4
  <2> QED BY <1>0, <2>4, <2>5, <2>6, <2>7, QuietKeeps
<1>6. ASSUME NEW r \in Requests, Check(r) \/ Reread(r) \/ ReadHead(r) PROVE WorktreeInv'
  <2>1. thread' = thread /\ taken' = taken /\ worktree' = worktree
    BY <1>6 DEF Check, Reread, ReadHead, sandbox
  <2>2. CASE Check(r)
    <3>1. \E pc \in {"add", "markFailed"} : Goto(r, pc)
      BY <2>2 DEF Check, Command
    <3> QED BY <1>k, <1>p, <2>1, <2>2, <3>1 DEF Check
  <2>3. CASE Reread(r)
    <3>1. \/ Goto(r, "markFailed")
          \/ Goto(r, "head") /\ worktree = req[r].branch
      BY <2>3 DEF Reread, Command, Decide
    <3> QED BY <1>k, <1>p, <2>1, <2>3, <3>1 DEF Reread
  <2>4. CASE ReadHead(r)
    <3>1. \E pc \in {"markReady", "markFailed"} : Goto(r, pc)
      BY <2>4 DEF ReadHead, Command
    <3>2. req[r].pc = "head" /\ RequestOK(r, req[r])
      BY <1>0, <2>4 DEF ReadHead
    <3>3. ~taken /\ IsCurrent(r) => worktree = req[r].branch
      BY <3>2 DEF RequestOK
    <3> QED BY <1>k, <1>p, <2>1, <3>1, <3>2, <3>3
  <2> QED BY <1>6, <2>2, <2>3, <2>4
<1>7. ASSUME NEW r \in Requests, Add(r) PROVE WorktreeInv'
  <2>1. thread' = thread /\ taken' = taken /\ req[r].pc = "add"
    BY <1>7 DEF Add
  <2>2. CASE CanAdd(req[r].branch, req[r].plan)
    <3>1. Goto(r, "head") /\ worktree = None /\ worktree' = req[r].branch
      BY <1>7, <2>2 DEF Add, Command, AddWorktree, CanAdd
    <3> QED BY <1>k, <1>p, <2>1, <3>1
  <2>3. CASE ~CanAdd(req[r].branch, req[r].plan)
    <3>1. Goto(r, "reread") /\ worktree' = worktree
      BY <1>7, <2>3 DEF Add, Command, sandbox
    <3> QED BY <1>k, <1>p, <2>1, <3>1
  <2> QED BY <2>2, <2>3
<1>8. ASSUME NEW r \in Requests, MarkReady(r) PROVE WorktreeInv'
  <2>1. taken' = taken /\ worktree' = worktree /\ req[r].pc = "markReady"
    BY <1>8 DEF MarkReady, sandbox
  <2>2. CASE IsCurrent(r)
    <3>1. Goto(r, "idle") /\ thread' = Settled("ready")
      BY <1>8, <2>2 DEF MarkReady
    <3>2. ~taken => worktree = thread.branch
      BY <1>0, <1>p, <2>1, <2>2 DEF RequestOK
    <3>3. "ready" \in Status \ {"provisioning"}
      BY DEF Status
    <3> QED BY <1>s, <2>1, <3>1, <3>2, <3>3
  <2>3. CASE ~IsCurrent(r)
    <3>1. Goto(r, "markFailed") /\ thread' = thread
      BY <1>8, <2>3 DEF MarkReady
    <3> QED BY <1>k, <1>p, <2>1, <3>1
  <2> QED BY <2>2, <2>3
<1>9. ASSUME NEW r \in Requests, MarkFailed(r) PROVE WorktreeInv'
  <2>1. taken' = taken /\ worktree' = worktree /\ Goto(r, "idle")
    BY <1>9 DEF MarkFailed, sandbox
  <2>2. thread' = Settled("failed") \/ thread' = thread
    BY <1>9 DEF MarkFailed
  <2>3. "failed" \in Status \ {"provisioning"}
    BY DEF Status
  <2> QED BY <1>k, <1>s, <1>p, <2>1, <2>2, <2>3
<1>10. ASSUME NEW r \in Requests, Open(r) PROVE WorktreeInv'
  <2>1. Goto(r, "list") /\ taken' = taken /\ worktree' = worktree
    BY <1>10 DEF Open, sandbox
  <2>2. req'[r].pc = "list" /\ \A s \in Requests : s # r => req'[s] = req[s]
    BY <1>g, <1>p, <2>1
  <2>3. NoneAt(RemovalPC)
    <3>1. \A d \in Removals : ~InFlight(d)
      BY <1>10 DEF Open
    <3> QED BY <1>0, <1>p, <3>1 DEF NoneAt, KindOK, InFlight
  <2>4. CASE thread.pull
    <3>1. thread' = thread
      BY <1>10, <2>4 DEF Open
    <3>2. RequestOK(r, req[r])'
      BY <1>p, <2>2, <2>4, <3>1 DEF RequestOK
    <3> QED BY <1>0, <1>p, <2>1, <2>2, <2>3, <3>1, <3>2, QuietKeeps
  <2>5. CASE ~thread.pull
    <3> DEFINE t == Settled("pending")
    <3>1. t \in Thread /\ t.status = "pending" /\ t.attempt = None
      BY <1>0, SettledIs DEF Status
    <3>2. thread' = [t EXCEPT !.pull = TRUE, !.branch = "pull"]
      BY <1>10, <2>5 DEF Open
    <3> HIDE DEF t
    <3>3. /\ thread'.pull /\ thread'.branch = "pull" /\ thread'.status = "pending"
          /\ thread'.attempt = None
      BY <3>1, <3>2 DEF Thread
    <3>4. BranchOK' /\ ReadyOK'
      BY <3>3 DEF BranchOK, ReadyOK
    <3>5. RequestOK(r, req[r])'
      BY <1>p, <2>2, <3>3 DEF RequestOK
    <3>6. taken' \/ (~taken /\ (worktree' = worktree \/ worktree = None))
      BY <1>0, <2>1
    <3>7. \A s \in Requests : thread'.attempt # s
      BY <1>0, <3>3
    <3> QED BY <1>0, <1>p, <2>2, <2>3, <3>3, <3>4, <3>5, <3>6, <3>7, MoveKeeps
  <2> QED BY <2>4, <2>5
\* an opening is on a thread of the pull request
<1>o. ASSUME NEW r \in Requests, req[r].pc \in OpeningPC
      PROVE  /\ thread.pull /\ thread.branch = "pull"
             /\ ~taken /\ req[r].pc \in {"upstream", "headPull", "complete"} =>
                  worktree = "pull"
  BY <1>0, <1>o DEF RequestOK, WorktreeInv, BranchOK
<1>11. ASSUME NEW r \in Requests, Opening(r) PROVE WorktreeInv'
  <2>1. CASE ListForPull(r)
    <3>1. \/ \E pc \in {"fail", "addPull", "fetch"} : Goto(r, pc)
          \/ Goto(r, "upstream") /\ worktree = "pull"
      BY <2>1 DEF ListForPull, Decide
    <3>2. thread' = thread /\ taken' = taken /\ worktree' = worktree /\ req[r].pc = "list"
      BY <2>1 DEF ListForPull, sandbox
    <3> QED BY <1>k, <1>p, <3>1, <3>2
  <2>2. CASE FetchPull(r) \/ BranchPull(r)
    <3>1. \E pc \in {"branch", "fail", "addPull"} : Goto(r, pc)
      BY <2>2 DEF FetchPull, BranchPull, Command
    <3>2. /\ thread' = thread /\ taken' = taken /\ worktree' = worktree
          /\ req[r].pc \in {"fetch", "branch"}
      BY <2>2 DEF FetchPull, BranchPull
    <3> QED BY <1>k, <1>p, <3>1, <3>2
  <2>3. CASE AddPull(r)
    <3>1. thread' = thread /\ taken' = taken /\ req[r].pc = "addPull"
      BY <2>3 DEF AddPull
    <3>2. CASE CanAdd("pull", "existing")
      <4>1. Goto(r, "upstream") /\ worktree = None /\ worktree' = "pull"
        BY <2>3, <3>2 DEF AddPull, Command, AddWorktree, CanAdd
      <4> QED BY <1>k, <1>p, <3>1, <4>1
    <3>3. CASE ~CanAdd("pull", "existing")
      <4>1. Goto(r, "fail") /\ worktree' = worktree
        BY <2>3, <3>3 DEF AddPull, Command, sandbox
      <4> QED BY <1>k, <1>p, <3>1, <4>1
    <3> QED BY <3>2, <3>3
  <2>4. CASE SetUpstream(r) \/ ReadPullHead(r)
    <3>1. \E pc \in {"headPull", "complete", "fail"} : Goto(r, pc)
      BY <2>4 DEF SetUpstream, ReadPullHead, Command
    <3>2. /\ thread' = thread /\ taken' = taken /\ worktree' = worktree
          /\ req[r].pc \in {"upstream", "headPull"}
      BY <2>4 DEF SetUpstream, ReadPullHead, sandbox
    <3>3. ~taken => worktree = "pull"
      BY <1>o, <1>p, <3>2
    <3> QED BY <1>k, <1>p, <3>1, <3>2, <3>3
  <2>5. CASE Complete(r)
    <3>1. taken' = taken /\ worktree' = worktree /\ req[r].pc = "complete"
      BY <2>5 DEF Complete, sandbox
    <3>2. CASE thread.exists
      <4>1. Goto(r, "over") /\ thread' = Settled("ready")
        BY <2>5, <3>2 DEF Complete
      <4>2. ~taken => worktree = thread.branch
        BY <1>o, <1>p, <3>1
      <4>3. "ready" \in Status \ {"provisioning"}
        BY DEF Status
      <4> QED BY <1>s, <3>1, <4>1, <4>2, <4>3
    <3>3. CASE ~thread.exists
      <4>1. Goto(r, "fail") /\ thread' = thread
        BY <2>5, <3>3 DEF Complete
      <4> QED BY <1>k, <1>p, <3>1, <4>1
    <3> QED BY <3>2, <3>3
  <2>6. CASE FailOpening(r)
    <3>1. taken' = taken /\ worktree' = worktree /\ Goto(r, "over")
      BY <2>6 DEF FailOpening, sandbox
    <3>2. thread' = Settled("failed") \/ thread' = thread
      BY <2>6 DEF FailOpening
    <3>3. "failed" \in Status \ {"provisioning"}
      BY DEF Status
    <3> QED BY <1>k, <1>s, <1>p, <3>1, <3>2, <3>3
  <2> QED BY <1>11, <2>1, <2>2, <2>3, <2>4, <2>5, <2>6 DEF Opening
<1>12. ASSUME NEW r \in Requests, NEW deletes \in BOOLEAN, CleanUp(r, deletes)
       PROVE  WorktreeInv'
  <2> DEFINE l == [req[r] EXCEPT !.pc = "registered", !.deletes = deletes]
  <2>1. l.pc = "registered" /\ req' = [req EXCEPT ![r] = l]
    BY <1>0, <1>12 DEF CleanUp, Request
  <2> HIDE DEF l
  <2>2. req'[r].pc = "registered" /\ \A s \in Requests : s # r => req'[s] = req[s]
    BY <1>0, <2>1
  <2>3. thread' = thread /\ taken' = taken /\ worktree' = worktree
    BY <1>12 DEF CleanUp, sandbox
  <2>4. NoneAt(OpeningPC)
    <3>1. \A o \in Openings : ~InFlight(o)
      BY <1>12 DEF CleanUp
    <3> QED BY <1>0, <1>p, <3>1 DEF NoneAt, KindOK, InFlight
  <2>5. RequestOK(r, req[r])'
    BY <1>p, <2>2 DEF RequestOK
  <2> QED BY <1>0, <1>p, <2>2, <2>3, <2>4, <2>5, QuietKeeps
<1>13. ASSUME NEW r \in Requests, Removal(r) PROVE WorktreeInv'
  <2>1. CASE ListForRemoval(r) \/ ReadStatus(r)
    <3>1. \E pc \in {"mark", "status", "remove", "over"} : Goto(r, pc)
      BY <2>1 DEF ListForRemoval, ReadStatus, Command
    <3>2. /\ thread' = thread /\ taken' = taken /\ worktree' = worktree
          /\ req[r].pc \in {"registered", "status"}
      BY <2>1 DEF ListForRemoval, ReadStatus, sandbox
    <3> QED BY <1>k, <1>p, <3>1, <3>2
  <2>2. CASE RemoveWorktree(r)
    <3>1. thread' = thread /\ req[r].pc = "remove"
      BY <2>2 DEF RemoveWorktree
    <3>2. CASE ~CanRemove
      <4>1. Goto(r, "over") /\ taken' = taken /\ worktree' = worktree
        BY <1>0, <2>2, <3>2 DEF RemoveWorktree, Command
      <4> QED BY <1>k, <1>p, <3>1, <4>1
    <3>3. CASE CanRemove
      <4>1. Goto(r, "mark") /\ taken'
        BY <2>2, <3>3 DEF RemoveWorktree, Command
      <4>2. req'[r].pc = "mark" /\ \A s \in Requests : s # r => req'[s] = req[s]
        BY <1>g, <1>p, <4>1
      <4>3. BranchOK' /\ ReadyOK'
        BY <3>1, <4>1 DEF WorktreeInv, BranchOK, ReadyOK
      <4>4. RequestOK(r, req[r])'
        BY <1>p, <4>2 DEF RequestOK
      <4>5. \A s \in Requests : thread'.exists /\ thread'.attempt = s =>
              IsCurrent(s) /\ thread'.branch = thread.branch
        BY <3>1 DEF IsCurrent
      <4> QED BY <1>0, <1>p, <3>1, <4>1, <4>2, <4>3, <4>4, <4>5, MoveKeeps
    <3> QED BY <3>2, <3>3
  \* the one step after which a worktree that was taken counts again: the
  \* document says so, no attempt is current, and no opening is under way
  <2>3. CASE MarkCleaned(r)
    <3>1. req[r].pc = "mark" /\ worktree' = worktree /\ ~taken'
      BY <2>3 DEF MarkCleaned, sandbox
    <3>2. \E pc \in {"delete", "over"} : Goto(r, pc)
      BY <2>3 DEF MarkCleaned
    <3>3. /\ req'[r].pc \in {"delete", "over"}
          /\ \A s \in Requests : s # r => req'[s] = req[s]
      BY <1>g, <1>p, <3>2
    <3>4. NoneAt(OpeningPC)
      BY <1>p, <3>1 DEF NoneAt, WorktreeInv, Apart
    <3>5. /\ thread'.pull = thread.pull /\ thread'.branch = thread.branch
          /\ thread'.exists => thread'.status = "cleaned" /\ thread'.attempt = None
      <4>1. CASE thread.exists
        <5>1. thread' = Settled("cleaned") /\ "cleaned" \in Status \ {"provisioning"}
          BY <2>3, <4>1 DEF MarkCleaned, Status
        <5> QED BY <1>0, <5>1, SettledIs
      <4>2. CASE ~thread.exists
        BY <2>3, <4>2 DEF MarkCleaned
      <4> QED BY <4>1, <4>2
    <3>6. \A s \in Requests : ~(thread'.exists /\ thread'.attempt = s)
      BY <1>0, <3>5
    <3>7. \A s \in Requests : RequestOK(s, req[s])'
      BY <1>p, <3>3, <3>4, <3>6 DEF RequestOK, NoneAt, IsCurrent
    <3>8. BranchOK' /\ ReadyOK'
      BY <3>5 DEF WorktreeInv, BranchOK, ReadyOK
    <3>9. Apart'
      BY <1>p, <3>3, <3>4 DEF Apart, NoneAt
    <3> QED BY <3>7, <3>8, <3>9 DEF WorktreeInv
  <2>4. CASE DeleteThread(r)
    <3> DEFINE t == Settled("cleaned")
    <3>1. t \in Thread /\ t.pull = thread.pull /\ t.branch = thread.branch
      BY <1>0, SettledIs DEF Status
    <3>2. thread' = [t EXCEPT !.exists = FALSE]
      BY <2>4 DEF DeleteThread
    <3> HIDE DEF t
    <3>3. ~thread'.exists /\ thread'.pull = thread.pull /\ thread'.branch = thread.branch
      BY <3>1, <3>2 DEF Thread
    <3>4. Goto(r, "over") /\ taken' = taken /\ worktree' = worktree
      BY <2>4 DEF DeleteThread, sandbox
    <3>5. req'[r].pc = "over" /\ \A s \in Requests : s # r => req'[s] = req[s]
      BY <1>g, <1>p, <3>4
    <3>6. BranchOK' /\ ReadyOK'
      BY <3>3 DEF WorktreeInv, BranchOK, ReadyOK
    <3>7. RequestOK(r, req[r])'
      BY <1>p, <3>5 DEF RequestOK
    <3>8. taken' \/ (~taken /\ (worktree' = worktree \/ worktree = None))
      BY <1>0, <3>4
    <3> QED BY <1>0, <1>p, <3>3, <3>5, <3>6, <3>7, <3>8, MoveKeeps
  <2> QED BY <1>13, <2>1, <2>2, <2>3, <2>4 DEF Removal
<1>14. ASSUME NEW r \in Requests, Fail(r) PROVE WorktreeInv'
  <2>1. thread' = thread /\ taken' = taken /\ worktree' = worktree
    BY <1>14 DEF Fail, sandbox
  <2>2. CASE Goto(r, Handler(req[r].pc))
    <3>1. /\ Handler(req[r].pc) \in {"markFailed", "reread", "idle", "fail", "over"}
          /\ Handler(req[r].pc) \in {"markFailed", "reread"} =>
               req[r].pc \in ProvisionPC \ {"idle", "reserve"}
          /\ Handler(req[r].pc) = "fail" => req[r].pc \in OpeningPC
      BY <1>p DEF Handler
    <3> QED BY <1>k, <1>p, <2>1, <2>2, <3>1
  <2>3. CASE Goto(r, IF r \in Provisions THEN "idle" ELSE "over")
    <3>1. \E pc \in {"idle", "over"} : Goto(r, pc)
      BY <2>3
    <3> QED BY <1>k, <1>p, <2>1, <3>1
  <2> QED BY <1>14, <2>2, <2>3 DEF Fail
<1>15. CASE UNCHANGED vars
  BY <1>15 DEF vars, sandbox, WorktreeInv, BranchOK, ReadyOK, Apart, RequestOK, IsCurrent
<1> QED BY <1>1, <1>2, <1>3, <1>4, <1>5, <1>6, <1>7, <1>8, <1>9, <1>10, <1>11, <1>12, <1>13,
     <1>14, <1>15
  DEF Next, Step, Provision

\* The inductive invariant holds of every behaviour in which openings and
\* removals keep apart.
LEMMA WorktreeInvariant == ASSUME ~OpenWhileRemoving PROVE Spec => []WorktreeInv
<1>1. TypeInv /\ WorktreeInv /\ [Next]_vars => WorktreeInv'
  BY WorktreeInvStep
<1> QED BY <1>1, WorktreeInvInit, TypeInvariant, PTL DEF Spec

\* A thread shown as ready has its worktree, on its branch, unless a removal
\* took it and has not yet said so, when no pull request is opened on a thread
\* that is being removed; for any number of attempts, replaced or failed at any
\* of their steps, and of removals.
THEOREM ReadyHasWorktreeHolds ==
  ASSUME ~OpenWhileRemoving PROVE Spec => []ReadyHasWorktree
<1>1. TypeInv /\ WorktreeInv => ReadyHasWorktree
  <2> SUFFICES ASSUME TypeInv, WorktreeInv, thread.exists, thread.status = "ready",
                      worktree # thread.branch
               PROVE  taken
    BY DEF ReadyHasWorktree
  <2> QED BY DEF WorktreeInv, ReadyOK
<1> QED BY <1>1, TypeInvariant, WorktreeInvariant, PTL

-----------------------------------------------------------------------------
(* The Git status of a thread. *)

Branches == {"own", "other", "detached"}
Repo == [branch : Branches, dirty : BOOLEAN, upstream : BOOLEAN, ahead : Nat, behind : Nat,
         tracked : Nat, ofBase : Nat, pr : BOOLEAN]
Porcelains == [branch : Branches, dirty : BOOLEAN, upstream : BOOLEAN, ahead : Nat, behind : Nat]
ReadStatuses == [branch : Branches, dirty : BOOLEAN, upstream : BOOLEAN, available : BOOLEAN,
                 ahead : Nat, behind : Nat, ofBase : Nat, pushed : BOOLEAN, pr : BOOLEAN,
                 checkedAt : Nat, first : Nat, last : Nat]
ReadSteps == {"free", "discover", "start", "look", "fetch", "relook", "count", "save", "answer"}
StatusReads == [step : ReadSteps, client : Clients \cup {None}, key : Nat, pr : BOOLEAN,
                checkedAt : Nat, first : Nat, parsed : Porcelains \cup {None},
                available : BOOLEAN, status : ReadStatuses \cup {None}]
ActionSteps == {"idle", "validate", "commit", "push", "pr", "pull", "settled", "refused"}

\* Without a branch on GitHub there is nothing to be behind of.
StatusBounds ==
  /\ None \notin Clients
  /\ Initial \subseteq {b \in Repo : b.upstream \/ b.behind = 0}
  /\ MaxChanges \in Nat /\ MaxActions \in Nat /\ MaxReads \in Nat /\ MaxFaults \in Nat

\* The repository, the row and what the actors have yet to record.
RecordsOK ==
  /\ repo \in Repo /\ (repo.upstream \/ repo.behind = 0)
  /\ version \in Nat
  /\ row \in [status : ReadStatuses \cup {None}, invalidatedAt : Nat, recorded : Nat,
              pr : BOOLEAN, now : Nat]
  /\ row.recorded <= version /\ row.invalidatedAt <= row.now
  /\ unsaid \in [{"agent", "operation"} -> Nat]
  /\ \A a \in {"agent", "operation"} : unsaid[a] <= version
  /\ left \in [{"changes", "actions", "reads", "faults"} -> Nat]

\* A status that was read between two versions: it is new enough unless the row calls it
\* outdated, and tells what the repository is as long as nothing has changed.
Agrees(s) ==
  /\ s.branch = repo.branch /\ s.dirty = repo.dirty /\ s.upstream = repo.upstream
AgreesWithGitHub(s) == s.upstream => s.ahead = repo.ahead /\ s.behind = repo.behind
Sound ==
  {s \in ReadStatuses :
     /\ s.checkedAt <= row.now /\ s.first <= s.last /\ s.last <= version
     /\ s.checkedAt >= row.invalidatedAt => s.first >= row.recorded
     /\ s.first = version => Agrees(s) /\ (s.available => AgreesWithGitHub(s))}

\* A request for the status, between two of its commands.
SoundReads ==
  {r \in StatusReads :
     /\ r.step \in {"look", "fetch", "relook", "count"} => r.checkedAt <= row.now
     /\ r.step \in {"fetch", "relook", "count"} =>
          /\ r.first <= version
          /\ r.checkedAt >= row.invalidatedAt => r.first >= row.recorded
     /\ r.step \in {"fetch", "count"} =>
          r.parsed \in Porcelains /\ (r.first = version => Agrees(r.parsed))
     /\ r.step = "relook" /\ r.first = version => repo.tracked = repo.behind
     /\ r.step = "count" /\ r.first = version /\ r.available => AgreesWithGitHub(r.parsed)
     /\ r.step \in {"save", "answer"} => r.status \in Sound}

\* A request of the web app is for an invalidation the app has learnt of, and for the
\* last of them it is new enough.
AskedByWeb(r) ==
  r.client = "web" /\ "web" \in Clients =>
    /\ r.key <= page["web"].key
    /\ r.key = page["web"].key =>
         /\ r.step \in {"fetch", "relook", "count"} => r.first >= page["web"].knows
         /\ r.step \in {"save", "answer"} => r.status.first >= page["web"].knows

\* What a client holds.
Pages == [key : Nat, knows : Nat, data : ReadStatuses \cup {None}, answered : BOOLEAN]
SoundPages ==
  {p \in Pages :
     /\ p.key <= row.invalidatedAt /\ p.knows <= row.recorded
     /\ p.key = row.invalidatedAt => p.knows = row.recorded
     /\ p.data \in Sound \cup {None}
     /\ p.answered => p.data \in Sound}

\* The action under way was offered on a status that is as old as the action, apart from
\* the changes that are its own; while nothing else has changed it can be pushed.
Undisturbed == op.from.first + op.own = version
ActionOK ==
  /\ op \in [step : ActionSteps, action : GitState!GitActions \cup {None},
             client : Clients \cup {None}, from : ReadStatuses \cup {None}, own : Nat]
  /\ op.step # "idle" => /\ op.action \in GitState!GitActions /\ op.client \in Clients
                         /\ op.from \in Sound /\ op.from.last + op.own <= version
  /\ op.step = "validate" => op.own = 0 /\ op.action \in GitState!Offered(op.from)
  /\ op.step = "commit" => op.action \in GitState!Commits
  /\ op.step = "push" => op.action \in GitState!Pushes
  /\ op.step \in {"commit", "push"} /\ Undisturbed /\ op.action \in GitState!Pushes
       => repo.behind = 0
  /\ op.step = "pr" => op.action \in GitState!Opens
  /\ op.step = "refused" /\ Undisturbed => GitState!NotLookedAt

StatusInv ==
  /\ RecordsOK
  /\ row.status \in Sound \cup {None}
  /\ read \in [Reads -> StatusReads]
  /\ \A g \in Reads : read[g] \in SoundReads /\ AskedByWeb(read[g])
  /\ page \in [Clients -> Pages]
  /\ \A c \in Clients : page[c] \in SoundPages
  /\ GitState!AnswerIsCurrent
  /\ ActionOK

\* What a step may do to the repository, to the row and to time.
StatusFrame ==
  /\ version' >= version
  /\ version' = version =>
       /\ repo'.branch = repo.branch /\ repo'.dirty = repo.dirty /\ repo'.upstream = repo.upstream
       /\ repo'.ahead = repo.ahead /\ repo'.behind = repo.behind
       /\ repo'.tracked \in {repo.tracked, repo.behind}
  /\ row'.now >= row.now /\ row'.recorded >= row.recorded
  /\ \/ row'.invalidatedAt = row.invalidatedAt /\ row'.recorded = row.recorded
     \/ row'.invalidatedAt > row.now

\* What was sound stays so.
LEMMA SoundStays ==
  ASSUME RecordsOK, RecordsOK', StatusFrame
  PROVE  Sound \subseteq Sound' /\ SoundReads \subseteq SoundReads' /\ SoundPages \subseteq SoundPages'
<1>1. /\ version \in Nat /\ version' \in Nat /\ version' >= version
      /\ row.now \in Nat /\ row'.now \in Nat /\ row'.now >= row.now
      /\ row.invalidatedAt \in Nat /\ row'.invalidatedAt \in Nat
      /\ row.recorded \in Nat /\ row'.recorded \in Nat /\ row'.recorded >= row.recorded
      /\ row.invalidatedAt <= row.now /\ row'.invalidatedAt <= row'.now
  BY DEF RecordsOK, StatusFrame
<1>2. \/ row'.invalidatedAt = row.invalidatedAt /\ row'.recorded = row.recorded
      \/ row'.invalidatedAt > row.now
  BY DEF StatusFrame
<1>3. version' = version =>
        /\ repo'.branch = repo.branch /\ repo'.dirty = repo.dirty /\ repo'.upstream = repo.upstream
        /\ repo'.ahead = repo.ahead /\ repo'.behind = repo.behind
        /\ repo'.tracked = repo.tracked \/ repo'.tracked = repo.behind
  BY DEF StatusFrame
<1>4. ASSUME NEW s \in Sound PROVE s \in Sound'
  <2>1. /\ s \in ReadStatuses /\ s.checkedAt \in Nat /\ s.first \in Nat /\ s.last \in Nat
        /\ s.checkedAt <= row.now /\ s.first <= s.last /\ s.last <= version
        /\ s.checkedAt >= row.invalidatedAt => s.first >= row.recorded
        /\ s.first = version => Agrees(s) /\ (s.available => AgreesWithGitHub(s))
    BY DEF Sound, ReadStatuses
  <2>2. /\ s.checkedAt <= row'.now /\ s.last <= version'
        /\ s.checkedAt >= row'.invalidatedAt => s.first >= row'.recorded
        /\ s.first = version' => version' = version
    BY <1>1, <1>2, <2>1
  <2>3. s.first = version' =>
          /\ s.branch = repo'.branch /\ s.dirty = repo'.dirty /\ s.upstream = repo'.upstream
          /\ s.available /\ s.upstream => s.ahead = repo'.ahead /\ s.behind = repo'.behind
    BY <1>3, <2>1, <2>2 DEF Agrees, AgreesWithGitHub
  <2> QED BY <2>1, <2>2, <2>3 DEF Sound, Agrees, AgreesWithGitHub
<1>5. ASSUME NEW r \in SoundReads PROVE r \in SoundReads'
  <2>1. /\ r \in StatusReads /\ r.checkedAt \in Nat /\ r.first \in Nat
        /\ r.step \in {"look", "fetch", "relook", "count"} => r.checkedAt <= row.now
        /\ r.step \in {"fetch", "relook", "count"} =>
             /\ r.first <= version
             /\ r.checkedAt >= row.invalidatedAt => r.first >= row.recorded
        /\ r.step \in {"fetch", "count"} =>
             r.parsed \in Porcelains /\ (r.first = version => Agrees(r.parsed))
        /\ r.step = "relook" /\ r.first = version => repo.tracked = repo.behind
        /\ r.step = "count" /\ r.first = version /\ r.available => AgreesWithGitHub(r.parsed)
        /\ r.step \in {"save", "answer"} => r.status \in Sound
    BY DEF SoundReads, StatusReads
  <2>2. /\ r.step \in {"look", "fetch", "relook", "count"} => r.checkedAt <= row'.now
        /\ r.step \in {"fetch", "relook", "count"} =>
             /\ r.first <= version' /\ (r.first = version' => r.first = version)
             /\ r.checkedAt >= row'.invalidatedAt => r.first >= row'.recorded
    BY <1>1, <1>2, <2>1
  <2>3. /\ r.step \in {"fetch", "count"} /\ r.first = version' =>
             /\ r.parsed.branch = repo'.branch /\ r.parsed.dirty = repo'.dirty
             /\ r.parsed.upstream = repo'.upstream
        /\ r.step = "relook" /\ r.first = version' => repo'.tracked = repo'.behind
        /\ r.step = "count" /\ r.first = version' /\ r.available /\ r.parsed.upstream =>
             r.parsed.ahead = repo'.ahead /\ r.parsed.behind = repo'.behind
    BY <1>3, <2>1, <2>2 DEF Agrees, AgreesWithGitHub
  <2>4. r.step \in {"save", "answer"} => r.status \in Sound'
    BY <1>4, <2>1
  <2> QED BY <2>1, <2>2, <2>3, <2>4 DEF SoundReads, Agrees, AgreesWithGitHub
<1>6. ASSUME NEW p \in SoundPages PROVE p \in SoundPages'
  <2>1. /\ p \in Pages /\ p.key \in Nat /\ p.knows \in Nat
        /\ p.key <= row.invalidatedAt /\ p.knows <= row.recorded
        /\ p.key = row.invalidatedAt => p.knows = row.recorded
        /\ p.data \in Sound \cup {None} /\ (p.answered => p.data \in Sound)
    BY DEF SoundPages, Pages
  <2>2. /\ p.key <= row'.invalidatedAt /\ p.knows <= row'.recorded
        /\ p.key = row'.invalidatedAt => p.knows = row'.recorded
    BY <1>1, <1>2, <2>1
  <2>3. p.data \in Sound' \cup {None} /\ (p.answered => p.data \in Sound')
    BY <1>4, <2>1
  <2> QED BY <2>1, <2>2, <2>3 DEF SoundPages
<1> QED BY <1>4, <1>5, <1>6

\* So a step that touches nothing else keeps the invariant, the action under way apart.
LEMMA RestStays ==
  ASSUME StatusInv, RecordsOK', StatusFrame, row'.status = row.status, UNCHANGED <<read, page>>
  PROVE  ActionOK' => StatusInv'
<1>1. Sound \subseteq Sound' /\ SoundReads \subseteq SoundReads' /\ SoundPages \subseteq SoundPages'
  BY SoundStays DEF StatusInv
<1>2. row'.status \in Sound' \cup {None}
  BY <1>1 DEF StatusInv
<1>3. \A g \in Reads : read'[g] \in SoundReads' /\ AskedByWeb(read[g])'
  <2> TAKE g \in Reads
  <2>1. read[g] \in SoundReads /\ AskedByWeb(read[g])
    BY DEF StatusInv
  <2>2. AskedByWeb(read[g])' <=> AskedByWeb(read[g])
    BY DEF AskedByWeb
  <2> QED BY <1>1, <2>1, <2>2
<1>4. \A c \in Clients : page'[c] \in SoundPages'
  BY <1>1 DEF StatusInv
<1>5. GitState!AnswerIsCurrent'
  BY DEF StatusInv, GitState!AnswerIsCurrent
<1> QED BY <1>2, <1>3, <1>4, <1>5 DEF StatusInv

\* What an action that another actor's step leaves alone keeps.
LEMMA ActionStays ==
  ASSUME StatusInv, RecordsOK', StatusFrame, UNCHANGED op,
         version' = version => repo'.ofBase = repo.ofBase
  PROVE  ActionOK'
<1>1. Sound \subseteq Sound'
  BY SoundStays DEF StatusInv
<1>2. version \in Nat /\ version' \in Nat /\ version' >= version
  BY DEF StatusInv, RecordsOK, StatusFrame
<1>3. /\ op \in [step : ActionSteps, action : GitState!GitActions \cup {None},
                 client : Clients \cup {None}, from : ReadStatuses \cup {None}, own : Nat]
      /\ op.step # "idle" =>
           /\ op.action \in GitState!GitActions /\ op.client \in Clients
           /\ op.from \in Sound /\ op.from.last + op.own <= version
      /\ op.step = "validate" => op.own = 0 /\ op.action \in GitState!Offered(op.from)
      /\ op.step = "commit" => op.action \in GitState!Commits
      /\ op.step = "push" => op.action \in GitState!Pushes
      /\ op.step \in {"commit", "push"} /\ Undisturbed /\ op.action \in GitState!Pushes
           => repo.behind = 0
      /\ op.step = "pr" => op.action \in GitState!Opens
      /\ op.step = "refused" /\ Undisturbed => GitState!NotLookedAt
  BY DEF StatusInv, ActionOK
<1>4. op.own \in Nat /\ (op.from \in Sound => op.from.first \in Nat /\ op.from.last \in Nat
                                             /\ op.from.first <= op.from.last)
  BY <1>3 DEF Sound, ReadStatuses
<1>5. op.step # "idle" => /\ op.from.last + op.own <= version'
                          /\ op.from.first + op.own = version' =>
                               version' = version /\ Undisturbed
  BY <1>2, <1>3, <1>4 DEF Undisturbed
<1>6. op.step \in {"commit", "push"} /\ op.from.first + op.own = version'
        /\ op.action \in GitState!Pushes => repo'.behind = 0
  BY <1>3, <1>5 DEF StatusFrame
<1>7. op.step = "refused" /\ op.from.first + op.own = version' => GitState!NotLookedAt'
  <2> HAVE op.step = "refused" /\ op.from.first + op.own = version'
  <2>1. GitState!NotLookedAt /\ version' = version
    BY <1>3, <1>5
  <2> QED BY <2>1 DEF GitState!NotLookedAt
<1> QED BY <1>1, <1>3, <1>5, <1>6, <1>7 DEF ActionOK, Undisturbed

Left == [{"changes", "actions", "reads", "faults"} -> Nat]
LEMMA UsesIs ==
  ASSUME left \in Left, NEW what \in {"changes", "actions", "reads", "faults"}, GitState!Uses(what)
  PROVE  left' \in Left
BY DEF Left, GitState!Uses

\* The repository changes: nothing that was read before is of its last version.
LEMMA ChangeIsFrame ==
  ASSUME StatusInv, version' = version + 1, UNCHANGED row
  PROVE  StatusFrame /\ version' \in Nat /\ version' # version
<1>1. /\ version \in Nat /\ row.now \in Nat /\ row.recorded \in Nat
  BY DEF StatusInv, RecordsOK
<1> QED BY <1>1 DEF StatusFrame

LEMMA StillIsFrame ==
  ASSUME StatusInv, UNCHANGED <<version, row>>,
         \/ UNCHANGED repo
         \/ repo' = [repo EXCEPT !.tracked = repo.behind]
  PROVE  StatusFrame /\ repo'.ofBase = repo.ofBase /\ repo' \in Repo /\ (repo'.upstream \/ repo'.behind = 0)
<1>1. /\ version \in Nat /\ row.now \in Nat /\ row.recorded \in Nat /\ repo \in Repo
      /\ repo.upstream \/ repo.behind = 0
  BY DEF StatusInv, RecordsOK
<1>2. /\ repo'.branch = repo.branch /\ repo'.dirty = repo.dirty /\ repo'.upstream = repo.upstream
      /\ repo'.ahead = repo.ahead /\ repo'.behind = repo.behind /\ repo'.ofBase = repo.ofBase
      /\ repo'.tracked \in {repo.tracked, repo.behind} /\ repo' \in Repo
  BY <1>1 DEF Repo
<1> QED BY <1>1, <1>2 DEF StatusFrame

LEMMA AgentChangesStep ==
  ASSUME StatusInv, GitState!AgentChanges
  PROVE  StatusInv'
<1>1. /\ repo \in Repo /\ (repo.upstream \/ repo.behind = 0) /\ version \in Nat
      /\ unsaid \in [{"agent", "operation"} -> Nat] /\ left \in Left
  BY DEF StatusInv, RecordsOK, Left
<1>2. version' = version + 1 /\ UNCHANGED <<row, read, page, op>>
  BY DEF GitState!AgentChanges, GitState!Change
<1>3. repo' \in Repo /\ (repo'.upstream \/ repo'.behind = 0)
  <2>1. CASE repo' = [repo EXCEPT !.dirty = TRUE]
    BY <1>1, <2>1 DEF Repo
  <2>2. CASE repo' = [repo EXCEPT !.ahead = @ + 1, !.ofBase = @ + 1]
    <3> DEFINE a == repo.ahead + 1
               b == repo.ofBase + 1
    <3>1. a \in Nat /\ b \in Nat
      BY <1>1 DEF Repo
    <3>2. repo' = [repo EXCEPT !.ahead = a, !.ofBase = b]
      BY <2>2
    <3> HIDE DEF a, b
    <3> QED BY <1>1, <3>1, <3>2 DEF Repo
  <2> QED BY <2>1, <2>2 DEF GitState!AgentChanges, GitState!Change
<1>4. left' \in Left
  BY <1>1, UsesIs DEF GitState!AgentChanges
<1>5. unsaid' = [unsaid EXCEPT !["agent"] = version']
  BY DEF GitState!AgentChanges
<1>6. RecordsOK'
  BY <1>1, <1>2, <1>3, <1>4, <1>5 DEF StatusInv, RecordsOK, Left
<1>7. StatusFrame /\ version' # version
  BY <1>2, ChangeIsFrame
<1> QED BY <1>2, <1>6, <1>7, RestStays, ActionStays

LEMMA OthersChangeStep ==
  ASSUME StatusInv, GitState!OthersChange
  PROVE  StatusInv'
<1>1. /\ repo \in Repo /\ (repo.upstream \/ repo.behind = 0) /\ version \in Nat
      /\ left \in Left
  BY DEF StatusInv, RecordsOK, Left
<1>2. version' = version + 1 /\ UNCHANGED <<row, unsaid, read, page, op>>
  BY DEF GitState!OthersChange, GitState!Change
<1>3. repo' \in Repo /\ (repo'.upstream \/ repo'.behind = 0)
  <2>1. ASSUME NEW b \in Branches, repo' = [repo EXCEPT !.branch = b]
        PROVE  repo' \in Repo /\ (repo'.upstream \/ repo'.behind = 0)
    BY <1>1, <2>1 DEF Repo
  <2>2. CASE repo.upstream /\ repo' = [repo EXCEPT !.behind = @ + 1]
    BY <1>1, <2>2 DEF Repo
  <2>3. CASE repo' = [repo EXCEPT !.ahead = @ + 1]
    BY <1>1, <2>3 DEF Repo
  <2> QED BY <2>1, <2>2, <2>3 DEF GitState!OthersChange, GitState!Change, Branches
<1>4. left' \in Left
  BY <1>1, UsesIs DEF GitState!OthersChange
<1>5. RecordsOK'
  BY <1>1, <1>2, <1>3, <1>4 DEF StatusInv, RecordsOK, Left
<1>6. StatusFrame /\ version' # version
  BY <1>2, ChangeIsFrame
<1> QED BY <1>2, <1>5, <1>6, RestStays, ActionStays

\* A change is recorded: the row calls every status outdated that was begun before.
LEMMA InvalidateStep ==
  ASSUME StatusInv, NEW a \in {"agent", "operation"}, GitState!Invalidate(a)
  PROVE  StatusInv'
<1>1. /\ row \in [status : ReadStatuses \cup {None}, invalidatedAt : Nat, recorded : Nat,
                  pr : BOOLEAN, now : Nat]
      /\ unsaid \in [{"agent", "operation"} -> Nat] /\ repo \in Repo /\ version \in Nat
      /\ row.recorded <= version /\ unsaid[a] <= version /\ row.invalidatedAt <= row.now
  BY DEF StatusInv, RecordsOK
<1>2. UNCHANGED <<repo, version, read, page, op, left>>
  BY DEF GitState!Invalidate
<1>3. PICK to \in Nat, pr \in BOOLEAN, now \in Nat :
        /\ to >= row.recorded /\ to <= version /\ now = row.now + 1
        /\ row' = [row EXCEPT !.now = now, !.invalidatedAt = now, !.recorded = to, !.pr = pr]
  <2> DEFINE to == IF unsaid[a] > row.recorded THEN unsaid[a] ELSE row.recorded
             pr == row.pr \/ (a = "operation" /\ repo.pr)
             now == row.now + 1
  <2>1. to \in Nat /\ to >= row.recorded /\ to <= version /\ now \in Nat
    BY <1>1
  <2>2. pr \in BOOLEAN
    BY <1>1 DEF Repo
  <2>3. row' = [row EXCEPT !.now = now, !.invalidatedAt = now, !.recorded = to, !.pr = pr]
    BY <1>1 DEF GitState!Invalidate
  <2>4. now = row.now + 1
    OBVIOUS
  <2> HIDE DEF to, pr, now
  <2> QED BY <2>1, <2>2, <2>3, <2>4
<1>4. /\ row' \in [status : ReadStatuses \cup {None}, invalidatedAt : Nat, recorded : Nat,
                   pr : BOOLEAN, now : Nat]
      /\ row'.status = row.status /\ row'.now = row.now + 1 /\ row'.invalidatedAt = row.now + 1
      /\ row'.recorded = to
  BY <1>1, <1>3
<1>5. unsaid' \in [{"agent", "operation"} -> Nat] /\ \A b \in {"agent", "operation"} : unsaid'[b] <= version
  BY <1>1 DEF GitState!Invalidate, StatusInv, RecordsOK
<1>6. RecordsOK'
  BY <1>1, <1>2, <1>3, <1>4, <1>5 DEF StatusInv, RecordsOK
<1>7. StatusFrame
  BY <1>1, <1>2, <1>3, <1>4 DEF StatusFrame
<1> QED BY <1>2, <1>4, <1>6, <1>7, RestStays, ActionStays

\* The web app learns of it: it has not seen this invalidation, or there would be nothing
\* to learn, and it waits for a new answer.
LEMMA RowArrivesStep ==
  ASSUME StatusInv, GitState!RowArrives
  PROVE  StatusInv'
<1>1. /\ "web" \in Clients /\ page["web"].knows # row.recorded
      /\ UNCHANGED <<repo, version, row, unsaid, read, op, left>>
  BY DEF GitState!RowArrives
<1>2. page["web"] \in SoundPages /\ page \in [Clients -> Pages]
  BY <1>1 DEF StatusInv
<1>3. /\ page["web"].key \in Nat /\ row.invalidatedAt \in Nat /\ row.recorded \in Nat
      /\ page["web"].key < row.invalidatedAt
  BY <1>1, <1>2 DEF SoundPages, Pages, StatusInv, RecordsOK
<1> DEFINE new == [key |-> row.invalidatedAt, knows |-> row.recorded, data |-> row.status,
                   answered |-> FALSE]
<1>4. page' = [page EXCEPT !["web"] = new]
  <2>1. GitState!WebKey = row.invalidatedAt /\ GitState!WebKey # page["web"].key
    BY <1>3 DEF GitState!WebKey
  <2> QED BY <2>1 DEF GitState!RowArrives
<1>5. row.status \in Sound \cup {None} /\ row.status \in ReadStatuses \cup {None}
  BY DEF StatusInv, Sound
<1>6. new \in SoundPages /\ new \in Pages /\ new.key = row.invalidatedAt /\ ~new.answered
  BY <1>3, <1>5 DEF SoundPages, Pages
<1> HIDE DEF new
<1>7. /\ page' \in [Clients -> Pages] /\ \A c \in Clients : page'[c] \in SoundPages
      /\ page'["web"] = new
  BY <1>1, <1>2, <1>4, <1>6 DEF StatusInv
<1>8. RecordsOK' /\ StatusFrame
  <2>1. RecordsOK'
    BY <1>1 DEF StatusInv, RecordsOK
  <2> QED BY <1>1, <2>1, StillIsFrame
<1>9. Sound \subseteq Sound' /\ SoundReads \subseteq SoundReads' /\ SoundPages \subseteq SoundPages'
  BY <1>8, SoundStays DEF StatusInv
<1>10. \A g \in Reads : AskedByWeb(read[g])'
  <2> TAKE g \in Reads
  <2>1. AskedByWeb(read[g]) /\ read[g] \in StatusReads
    BY DEF StatusInv
  <2>2. read[g].client = "web" => read[g].key < page'["web"].key
    BY <1>1, <1>3, <1>6, <1>7, <2>1 DEF AskedByWeb, StatusReads
  <2>3. read[g].key \in Nat /\ page'["web"].key \in Nat
    BY <1>3, <1>6, <1>7, <2>1 DEF StatusReads
  <2> QED BY <1>1, <2>2, <2>3 DEF AskedByWeb
<1>11. ActionOK'
  BY <1>1, <1>8, ActionStays
<1>12. GitState!AnswerIsCurrent'
  BY <1>6, <1>7 DEF GitState!AnswerIsCurrent
<1> QED BY <1>1, <1>7, <1>8, <1>9, <1>10, <1>11, <1>12 DEF StatusInv

\* One request for the status moves on.
LEMMA ReadStep ==
  ASSUME StatusInv, NEW g \in Reads, NEW new, new \in SoundReads', AskedByWeb(new),
         read' = [read EXCEPT ![g] = new], RecordsOK', StatusFrame,
         repo'.ofBase = repo.ofBase, row'.status \in Sound' \cup {None}, UNCHANGED <<page, op>>
  PROVE  StatusInv'
<1>1. Sound \subseteq Sound' /\ SoundReads \subseteq SoundReads' /\ SoundPages \subseteq SoundPages'
  BY SoundStays DEF StatusInv
<1>2. new \in StatusReads
  BY DEF SoundReads
<1>3. read' \in [Reads -> StatusReads]
  BY <1>2 DEF StatusInv
<1>4. \A h \in Reads : read'[h] \in SoundReads' /\ AskedByWeb(read'[h])
  <2> TAKE h \in Reads
  <2>1. CASE h = g
    <3>1. read'[h] = new
      BY <2>1 DEF StatusInv
    <3> QED BY <3>1
  <2>2. CASE h # g
    <3>1. read'[h] = read[h]
      BY <2>2 DEF StatusInv
    <3> QED BY <1>1, <3>1 DEF StatusInv
  <2> QED BY <2>1, <2>2
<1>5. \A h \in Reads : AskedByWeb(read[h])'
  <2> TAKE h \in Reads
  <2>1. AskedByWeb(read'[h])
    BY <1>4
  <2> QED BY <2>1 DEF AskedByWeb
<1>6. ActionOK'
  BY ActionStays
<1>7. GitState!AnswerIsCurrent' /\ (\A c \in Clients : page'[c] \in SoundPages')
  BY <1>1 DEF StatusInv, GitState!AnswerIsCurrent
<1>8. page' \in [Clients -> Pages]
  BY DEF StatusInv
<1> QED BY <1>3, <1>4, <1>5, <1>6, <1>7, <1>8 DEF StatusInv

\* What one of its commands that changes neither the repository nor the row comes to.
LEMMA LocalStep ==
  ASSUME StatusInv, NEW g \in Reads, NEW new \in StatusReads,
         read' = [read EXCEPT ![g] = new], new \in SoundReads, AskedByWeb(new),
         UNCHANGED <<repo, version, row, unsaid, page, op>>, left' \in Left
  PROVE  StatusInv'
<1>1. RecordsOK'
  BY DEF StatusInv, RecordsOK, Left
<1>2. StatusFrame
  BY StillIsFrame
<1>3. Sound \subseteq Sound' /\ SoundReads \subseteq SoundReads'
  BY <1>1, <1>2, SoundStays DEF StatusInv
<1> QED BY <1>1, <1>2, <1>3, ReadStep DEF StatusInv

\* What is known of a request, and of the Git status as it is now.
LEMMA ReadIs ==
  ASSUME StatusInv, NEW g \in Reads
  PROVE  /\ read \in [Reads -> StatusReads] /\ read[g] \in StatusReads
         /\ read[g] \in SoundReads /\ AskedByWeb(read[g])
         /\ left \in Left /\ version \in Nat /\ row.now \in Nat /\ row.recorded \in Nat
         /\ row.invalidatedAt \in Nat /\ row.invalidatedAt <= row.now /\ row.recorded <= version
         /\ repo \in Repo /\ row.pr \in BOOLEAN
         /\ "web" \in Clients => page["web"].knows \in Nat /\ page["web"].knows <= row.recorded
BY DEF StatusInv, RecordsOK, Left, SoundPages, Pages

LEMMA DiscoverStep ==
  ASSUME StatusInv, NEW g \in Reads, GitState!Discover(g)
  PROVE  StatusInv'
<1>1. PICK pr \in BOOLEAN : read' = [read EXCEPT ![g].step = "start", ![g].pr = pr]
  BY ReadIs DEF GitState!Discover, Repo
<1>2. left' \in Left
  BY ReadIs, UsesIs DEF GitState!Discover, GitState!Fault
<1> DEFINE new == [read[g] EXCEPT !.step = "start", !.pr = pr]
<1>3. read' = [read EXCEPT ![g] = new]
  BY <1>1, ReadIs
<1>4. new \in StatusReads /\ new.step = "start" /\ new.key = read[g].key /\ new.client = read[g].client
  BY ReadIs DEF StatusReads, ReadSteps
<1> HIDE DEF new
<1>5. new \in SoundReads /\ AskedByWeb(new)
  BY <1>4, ReadIs DEF SoundReads, AskedByWeb
<1> QED BY <1>2, <1>3, <1>4, <1>5, LocalStep DEF GitState!Discover

LEMMA StartStep ==
  ASSUME StatusInv, NEW g \in Reads, GitState!Start(g)
  PROVE  StatusInv'
<1> DEFINE new == [read[g] EXCEPT !.step = "look", !.checkedAt = row.now]
<1>1. read' = [read EXCEPT ![g] = new]
  BY ReadIs DEF GitState!Start
<1>2. new \in StatusReads /\ new.step = "look" /\ new.checkedAt = row.now
      /\ new.key = read[g].key /\ new.client = read[g].client
  BY ReadIs DEF StatusReads, ReadSteps
<1> HIDE DEF new
<1>3. new \in SoundReads /\ AskedByWeb(new)
  BY <1>2, ReadIs DEF SoundReads, AskedByWeb
<1>4. left' \in Left
  BY ReadIs DEF GitState!Start
<1> QED BY <1>1, <1>2, <1>3, <1>4, LocalStep DEF GitState!Start

LEMMA PorcelainIs ==
  ASSUME repo \in Repo
  PROVE  /\ GitState!Porcelain \in Porcelains /\ Agrees(GitState!Porcelain)
         /\ repo.tracked = repo.behind => AgreesWithGitHub(GitState!Porcelain)
<1>1. /\ repo.branch \in Branches /\ repo.dirty \in BOOLEAN /\ repo.upstream \in BOOLEAN
      /\ repo.ahead \in Nat /\ repo.tracked \in Nat
  BY DEF Repo
<1> QED BY <1>1 DEF GitState!Porcelain, Porcelains, Agrees, AgreesWithGitHub

\* The first look comes after checkedAt was taken: it is of a version that has everything
\* the row had then.
LEMMA LookStep ==
  ASSUME StatusInv, NEW g \in Reads, GitState!Look(g)
  PROVE  StatusInv'
<1>1. GitState!Porcelain \in Porcelains /\ Agrees(GitState!Porcelain)
  BY ReadIs, PorcelainIs
<1> DEFINE parsed == GitState!Porcelain
<1>2. read' = [read EXCEPT ![g].step = "fetch", ![g].parsed = parsed, ![g].first = version]
  BY DEF GitState!Look
<1>3. parsed \in Porcelains /\ Agrees(parsed)
  BY <1>1
<1> HIDE DEF parsed
<1> DEFINE new == [read[g] EXCEPT !.step = "fetch", !.parsed = parsed, !.first = version]
<1>4. read' = [read EXCEPT ![g] = new]
  BY <1>2, ReadIs
<1>5. /\ new \in StatusReads /\ new.step = "fetch" /\ new.parsed = parsed /\ new.first = version
      /\ new.checkedAt = read[g].checkedAt
      /\ new.key = read[g].key /\ new.client = read[g].client
  BY <1>3, ReadIs DEF StatusReads, ReadSteps
<1> HIDE DEF new
<1>6. read[g].checkedAt <= row.now
  BY ReadIs DEF SoundReads, GitState!Look, GitState!At
<1>7. new \in SoundReads
  <2>1. new.first <= version /\ new.first >= row.recorded /\ new.checkedAt <= row.now
    BY <1>5, <1>6, ReadIs
  <2>2. new.parsed \in Porcelains /\ Agrees(new.parsed)
    BY <1>3, <1>5
  <2> QED BY <1>5, <2>1, <2>2 DEF SoundReads
<1>8. AskedByWeb(new)
  <2>1. "web" \in Clients => version >= page["web"].knows
    BY ReadIs
  <2> QED BY <1>5, <2>1, ReadIs DEF AskedByWeb
<1>9. left' \in Left
  BY ReadIs DEF GitState!Look
<1> QED BY <1>4, <1>5, <1>7, <1>8, <1>9, LocalStep DEF GitState!Look

\* What was read before a fetch that failed is kept, and after one that did not it is read
\* anew.
LEMMA FetchStep ==
  ASSUME StatusInv, NEW g \in Reads, GitState!Fetch(g)
  PROVE  StatusInv'
<1>1. /\ read[g].step = "fetch" /\ read[g].checkedAt <= row.now
      /\ read[g].first <= version
      /\ read[g].checkedAt >= row.invalidatedAt => read[g].first >= row.recorded
      /\ read[g].parsed \in Porcelains /\ (read[g].first = version => Agrees(read[g].parsed))
      /\ UNCHANGED <<version, row, unsaid, page, op>>
  BY ReadIs DEF SoundReads, GitState!Fetch, GitState!At
<1>2. CASE /\ repo' = [repo EXCEPT !.tracked = repo.behind] /\ UNCHANGED left
           /\ read' = [read EXCEPT ![g].step = "relook", ![g].first = version]
  <2> DEFINE new == [read[g] EXCEPT !.step = "relook", !.first = version]
  <2>1. read' = [read EXCEPT ![g] = new]
    BY <1>2, ReadIs
  <2>2. /\ new \in StatusReads /\ new.step = "relook" /\ new.first = version
        /\ new.checkedAt = read[g].checkedAt
        /\ new.key = read[g].key /\ new.client = read[g].client
    BY ReadIs DEF StatusReads, ReadSteps
  <2> HIDE DEF new
  <2>3. /\ StatusFrame /\ repo'.ofBase = repo.ofBase /\ repo' \in Repo
        /\ repo'.upstream \/ repo'.behind = 0
    BY <1>1, <1>2, StillIsFrame
  <2>4. RecordsOK'
    BY <1>1, <1>2, <2>3 DEF StatusInv, RecordsOK
  <2>5. repo'.tracked = repo'.behind
    BY <1>2, ReadIs DEF Repo
  <2>6. new \in SoundReads'
    <3>1. new.first <= version' /\ new.first >= row'.recorded /\ new.checkedAt <= row'.now
      BY <1>1, <2>2, ReadIs
    <3> QED BY <2>2, <2>5, <3>1 DEF SoundReads
  <2>7. AskedByWeb(new)
    <3>1. "web" \in Clients => version >= page["web"].knows
      BY ReadIs
    <3> QED BY <2>2, <3>1, ReadIs DEF AskedByWeb
  <2>8. row'.status \in Sound' \cup {None}
    BY <1>1, <2>3, <2>4, SoundStays DEF StatusInv
  <2> QED BY <1>1, <2>1, <2>3, <2>4, <2>6, <2>7, <2>8, ReadStep
<1>3. CASE /\ read' = [read EXCEPT ![g].step = "count", ![g].available = FALSE]
           /\ GitState!Fault /\ UNCHANGED repo
  <2> DEFINE new == [read[g] EXCEPT !.step = "count", !.available = FALSE]
  <2>1. read' = [read EXCEPT ![g] = new]
    BY <1>3, ReadIs
  <2>2. /\ new \in StatusReads /\ new.step = "count" /\ new.first = read[g].first
        /\ new.checkedAt = read[g].checkedAt /\ ~new.available /\ new.parsed = read[g].parsed
        /\ new.key = read[g].key /\ new.client = read[g].client
    BY ReadIs DEF StatusReads, ReadSteps
  <2> HIDE DEF new
  <2>3. new \in SoundReads
    BY <1>1, <2>2, ReadIs DEF SoundReads
  <2>4. AskedByWeb(new)
    BY <1>1, <2>2, ReadIs DEF AskedByWeb
  <2>5. left' \in Left
    BY <1>3, ReadIs, UsesIs DEF GitState!Fault
  <2> QED BY <1>1, <1>3, <2>1, <2>2, <2>3, <2>4, <2>5, LocalStep
<1> QED BY <1>2, <1>3 DEF GitState!Fetch

LEMMA RelookStep ==
  ASSUME StatusInv, NEW g \in Reads, GitState!Relook(g)
  PROVE  StatusInv'
<1> DEFINE parsed == GitState!Porcelain
<1>1. read' = [read EXCEPT ![g].step = "count", ![g].parsed = parsed]
  BY DEF GitState!Relook
<1>2. /\ parsed \in Porcelains /\ Agrees(parsed)
      /\ repo.tracked = repo.behind => AgreesWithGitHub(parsed)
  BY ReadIs, PorcelainIs
<1> HIDE DEF parsed
<1> DEFINE new == [read[g] EXCEPT !.step = "count", !.parsed = parsed]
<1>3. read' = [read EXCEPT ![g] = new]
  BY <1>1, ReadIs
<1>4. /\ new \in StatusReads /\ new.step = "count" /\ new.parsed = parsed
      /\ new.first = read[g].first /\ new.checkedAt = read[g].checkedAt
      /\ new.key = read[g].key /\ new.client = read[g].client
  BY <1>2, ReadIs DEF StatusReads, ReadSteps
<1> HIDE DEF new
<1>5. /\ read[g].step = "relook" /\ read[g].checkedAt <= row.now /\ read[g].first <= version
      /\ read[g].checkedAt >= row.invalidatedAt => read[g].first >= row.recorded
      /\ read[g].first = version => repo.tracked = repo.behind
  BY ReadIs DEF SoundReads, GitState!Relook, GitState!At
<1>6. new \in SoundReads
  BY <1>2, <1>4, <1>5, ReadIs DEF SoundReads
<1>7. AskedByWeb(new)
  BY <1>4, <1>5, ReadIs DEF AskedByWeb
<1>8. left' \in Left
  BY ReadIs DEF GitState!Relook
<1> QED BY <1>3, <1>4, <1>6, <1>7, <1>8, LocalStep DEF GitState!Relook

\* A status is made of what was read from the first look to the last command.
LEMMA ReadCountsStep ==
  ASSUME StatusInv, NEW g \in Reads, GitState!ReadCounts(g)
  PROVE  StatusInv'
<1>1. /\ read[g].step = "count" /\ read[g].checkedAt <= row.now /\ read[g].first <= version
      /\ read[g].checkedAt >= row.invalidatedAt => read[g].first >= row.recorded
      /\ read[g].parsed \in Porcelains /\ (read[g].first = version => Agrees(read[g].parsed))
      /\ read[g].first = version /\ read[g].available => AgreesWithGitHub(read[g].parsed)
  BY ReadIs DEF SoundReads, GitState!ReadCounts, GitState!At
<1> DEFINE s == GitState!StatusOf(read[g])
<1>2. read' = [read EXCEPT ![g].step = "save", ![g].status = s, ![g].parsed = None]
  BY DEF GitState!ReadCounts
<1>3. /\ read[g].parsed.branch \in Branches /\ read[g].parsed.dirty \in BOOLEAN
      /\ read[g].parsed.upstream \in BOOLEAN /\ read[g].parsed.ahead \in Nat
      /\ read[g].parsed.behind \in Nat /\ read[g].available \in BOOLEAN /\ read[g].pr \in BOOLEAN
      /\ read[g].checkedAt \in Nat /\ read[g].first \in Nat /\ repo.ofBase \in Nat
  BY <1>1, ReadIs DEF Porcelains, StatusReads, Repo
<1>4. /\ s.branch = read[g].parsed.branch /\ s.dirty = read[g].parsed.dirty
      /\ s.upstream = read[g].parsed.upstream /\ s.available = read[g].available
      /\ s.available /\ s.upstream => /\ s.ahead = read[g].parsed.ahead
                                      /\ s.behind = read[g].parsed.behind
      /\ s.checkedAt = read[g].checkedAt /\ s.first = read[g].first /\ s.last = version
  BY <1>3 DEF GitState!StatusOf
<1>5. s \in ReadStatuses
  BY <1>3, ReadIs DEF GitState!StatusOf, ReadStatuses
<1> HIDE DEF s
<1>6. s \in Sound
  BY <1>1, <1>4, <1>5, ReadIs DEF Sound, Agrees, AgreesWithGitHub
<1> DEFINE new == [read[g] EXCEPT !.step = "save", !.status = s, !.parsed = None]
<1>7. read' = [read EXCEPT ![g] = new]
  BY <1>2, ReadIs
<1>8. /\ new \in StatusReads /\ new.step = "save" /\ new.status = s
      /\ new.key = read[g].key /\ new.client = read[g].client
  BY <1>5, ReadIs DEF StatusReads, ReadSteps
<1> HIDE DEF new
<1>9. new \in SoundReads /\ AskedByWeb(new)
  BY <1>1, <1>4, <1>6, <1>8, ReadIs DEF SoundReads, AskedByWeb
<1>10. left' \in Left
  BY ReadIs DEF GitState!ReadCounts
<1> QED BY <1>7, <1>8, <1>9, <1>10, LocalStep DEF GitState!ReadCounts

\* Whichever status is saved last, it is one that was read.
LEMMA SaveStep ==
  ASSUME StatusInv, NEW g \in Reads, GitState!Save(g)
  PROVE  StatusInv'
<1>1. /\ read[g].step = "save" /\ read[g].status \in Sound
      /\ UNCHANGED <<repo, version, unsaid, page, op, left>>
  BY ReadIs DEF SoundReads, GitState!Save, GitState!At
<1> DEFINE s == read[g].status
           new == [read[g] EXCEPT !.step = "answer"]
<1>2. row' = [row EXCEPT !.status = s] /\ read' = [read EXCEPT ![g] = new]
  BY ReadIs DEF GitState!Save
<1>3. s \in Sound /\ s \in ReadStatuses
  BY <1>1 DEF Sound
<1>4. /\ new \in StatusReads /\ new.step = "answer" /\ new.status = s
      /\ new.key = read[g].key /\ new.client = read[g].client
  BY ReadIs DEF StatusReads, ReadSteps
<1> HIDE DEF s, new
<1>5. /\ row \in [status : ReadStatuses \cup {None}, invalidatedAt : Nat, recorded : Nat,
                  pr : BOOLEAN, now : Nat]
  BY DEF StatusInv, RecordsOK
<1>6. /\ row' \in [status : ReadStatuses \cup {None}, invalidatedAt : Nat, recorded : Nat,
                   pr : BOOLEAN, now : Nat]
      /\ row'.status = s /\ row'.now = row.now /\ row'.invalidatedAt = row.invalidatedAt
      /\ row'.recorded = row.recorded
  BY <1>2, <1>3, <1>5
<1>7. RecordsOK'
  BY <1>1, <1>6 DEF StatusInv, RecordsOK
<1>8. StatusFrame
  BY <1>1, <1>6, ReadIs DEF StatusFrame
<1>9. Sound \subseteq Sound' /\ SoundReads \subseteq SoundReads'
  BY <1>7, <1>8, SoundStays DEF StatusInv
<1>10. new \in SoundReads /\ AskedByWeb(new)
  BY <1>1, <1>3, <1>4, ReadIs DEF SoundReads, AskedByWeb, s
<1> QED BY <1>1, <1>2, <1>3, <1>6, <1>7, <1>8, <1>9, <1>10, ReadStep

LEMMA FreeIs ==
  ASSUME None \notin Clients
  PROVE  /\ GitState!Free \in StatusReads /\ GitState!Free \in SoundReads
         /\ AskedByWeb(GitState!Free) /\ GitState!Free.step = "free" /\ GitState!Free.client = None
BY DEF GitState!Free, StatusReads, ReadSteps, SoundReads, AskedByWeb

LEMMA FailsStep ==
  ASSUME StatusBounds, StatusInv, NEW g \in Reads, GitState!Fails(g)
  PROVE  StatusInv'
<1>1. left' \in Left
  BY ReadIs, UsesIs DEF GitState!Fails, GitState!Fault
<1> DEFINE new == GitState!Free
<1>2. read' = [read EXCEPT ![g] = new]
  BY DEF GitState!Fails
<1>3. new \in StatusReads /\ new \in SoundReads /\ AskedByWeb(new)
  BY FreeIs DEF StatusBounds
<1> HIDE DEF new
<1> QED BY <1>1, <1>2, <1>3, LocalStep DEF GitState!Fails

\* A client asks: the request that was under way for the same answer is given up.
LEMMA AskedIs ==
  ASSUME StatusBounds, StatusInv, NEW g \in Reads, NEW c \in Clients, read' = GitState!Asked(c, g)
  PROVE  /\ read' \in [Reads -> StatusReads]
         /\ \A h \in Reads : read'[h] \in SoundReads /\ AskedByWeb(read'[h])
<1>1. page[c].key \in Nat /\ (c = "web" => page["web"].key \in Nat)
  BY DEF StatusInv, Pages
<1>2. None \notin Clients
  BY DEF StatusBounds
<1>3. ASSUME NEW h \in Reads
      PROVE  read'[h] \in StatusReads /\ read'[h] \in SoundReads /\ AskedByWeb(read'[h])
  <2>1. CASE h = g
    <3> DEFINE new == [GitState!Free EXCEPT !.step = "discover", !.client = c, !.key = page[c].key]
    <3>1. read'[h] = new
      BY <2>1 DEF GitState!Asked
    <3>2. new \in StatusReads /\ new.step = "discover" /\ new.client = c /\ new.key = page[c].key
      BY <1>1, <1>2, FreeIs DEF StatusReads, ReadSteps
    <3> HIDE DEF new
    <3>3. new \in SoundReads /\ AskedByWeb(new)
      BY <1>1, <3>2 DEF SoundReads, AskedByWeb
    <3> QED BY <3>1, <3>2, <3>3
  <2>2. CASE h # g /\ read[h].client = c /\ read[h].key = page[c].key
    <3> DEFINE new == [read[h] EXCEPT !.client = None]
    <3>1. read'[h] = new
      BY <2>2 DEF GitState!Asked
    <3>2. read[h] \in StatusReads /\ read[h] \in SoundReads
      BY ReadIs
    <3>3. /\ new \in StatusReads /\ new.client = None
          /\ new.step = read[h].step /\ new.checkedAt = read[h].checkedAt
          /\ new.first = read[h].first /\ new.parsed = read[h].parsed
          /\ new.available = read[h].available /\ new.status = read[h].status
      BY <3>2 DEF StatusReads
    <3> HIDE DEF new
    <3>4. new \in SoundReads
      BY <3>2, <3>3 DEF SoundReads
    <3>5. AskedByWeb(new)
      BY <1>2, <3>3 DEF AskedByWeb
    <3> QED BY <3>1, <3>3, <3>4, <3>5
  <2>3. CASE h # g /\ ~(read[h].client = c /\ read[h].key = page[c].key)
    <3>1. read'[h] = read[h]
      BY <2>3 DEF GitState!Asked
    <3> QED BY <3>1, ReadIs
  <2> QED BY <2>1, <2>2, <2>3
<1>4. read' = [h \in Reads |-> read'[h]]
  BY DEF GitState!Asked
<1> QED BY <1>3, <1>4

\* Nothing but the requests and the action under way changes.
LEMMA AskingStep ==
  ASSUME StatusInv, read' \in [Reads -> StatusReads],
         \A h \in Reads : read'[h] \in SoundReads /\ AskedByWeb(read'[h]),
         UNCHANGED <<repo, version, row, unsaid, page>>, left' \in Left, ActionOK'
  PROVE  StatusInv'
<1>1. RecordsOK'
  BY DEF StatusInv, RecordsOK, Left
<1>2. StatusFrame
  BY StillIsFrame
<1>3. Sound \subseteq Sound' /\ SoundReads \subseteq SoundReads' /\ SoundPages \subseteq SoundPages'
  BY <1>1, <1>2, SoundStays DEF StatusInv
<1>4. \A g \in Reads : read'[g] \in SoundReads' /\ AskedByWeb(read[g])'
  <2> TAKE g \in Reads
  <2>1. AskedByWeb(read'[g]) /\ read'[g] \in SoundReads
    OBVIOUS
  <2> QED BY <1>3, <2>1 DEF AskedByWeb
<1>5. /\ row'.status \in Sound' \cup {None} /\ page' \in [Clients -> Pages]
      /\ \A c \in Clients : page'[c] \in SoundPages'
  BY <1>3 DEF StatusInv
<1>6. GitState!AnswerIsCurrent'
  BY DEF StatusInv, GitState!AnswerIsCurrent
<1> QED BY <1>1, <1>4, <1>5, <1>6 DEF StatusInv

LEMMA StillActionStays ==
  ASSUME StatusInv, UNCHANGED <<repo, version, row, unsaid, op>>, left' \in Left
  PROVE  ActionOK' /\ RecordsOK' /\ StatusFrame
<1>1. RecordsOK'
  BY DEF StatusInv, RecordsOK, Left
<1>2. StatusFrame
  BY StillIsFrame
<1> QED BY <1>1, <1>2, ActionStays

LEMMA AskStep ==
  ASSUME StatusBounds, StatusInv, NEW g \in Reads, NEW c \in Clients, GitState!Ask(c, g)
  PROVE  StatusInv'
<1>1. /\ read' \in [Reads -> StatusReads]
      /\ \A h \in Reads : read'[h] \in SoundReads /\ AskedByWeb(read'[h])
  BY AskedIs DEF GitState!Ask
<1>2. UNCHANGED <<repo, version, row, unsaid, page, op>>
  BY DEF GitState!Ask
<1>3. left' \in Left
  BY ReadIs, UsesIs DEF GitState!Ask
<1> QED BY <1>1, <1>2, <1>3, StillActionStays, AskingStep

Idle == [step |-> "idle", action |-> None, client |-> None, from |-> None, own |-> 0]
LEMMA SettleStep ==
  ASSUME StatusBounds, StatusInv, NEW g \in Reads, GitState!Settle(g)
  PROVE  StatusInv'
<1>1. op' = Idle /\ UNCHANGED <<repo, version, row, unsaid, page, left>>
  BY DEF GitState!Settle, Idle
<1>2. op.client \in Clients
  BY DEF GitState!Settle, GitState!InTurn, StatusInv, ActionOK
<1>3. /\ read' \in [Reads -> StatusReads]
      /\ \A h \in Reads : read'[h] \in SoundReads /\ AskedByWeb(read'[h])
  BY <1>2, AskedIs DEF GitState!Settle
<1>4. ActionOK'
  BY <1>1 DEF ActionOK, Idle, ActionSteps
<1>5. left' \in Left
  BY <1>1, ReadIs
<1> QED BY <1>1, <1>3, <1>4, <1>5, AskingStep

\* Only the answer to what a client asked last is shown.
LEMMA AnswerStep ==
  ASSUME StatusBounds, StatusInv, NEW g \in Reads, GitState!Answer(g)
  PROVE  StatusInv'
<1>1. /\ read[g].step = "answer" /\ read' = [read EXCEPT ![g] = GitState!Free]
      /\ UNCHANGED <<repo, version, row, unsaid, op, left>>
  BY DEF GitState!Answer, GitState!At
<1>2. ActionOK' /\ RecordsOK' /\ StatusFrame
  BY <1>1, ReadIs, StillActionStays
<1>3. Sound \subseteq Sound' /\ SoundReads \subseteq SoundReads' /\ SoundPages \subseteq SoundPages'
  BY <1>2, SoundStays DEF StatusInv
<1> DEFINE c == read[g].client
           s == read[g].status
<1>4. /\ c \in Clients \cup {None} /\ s \in Sound /\ s \in ReadStatuses
      /\ c = "web" /\ "web" \in Clients /\ read[g].key = page["web"].key =>
           s.first >= page["web"].knows
  BY <1>1, ReadIs DEF SoundReads, StatusReads, AskedByWeb, Sound
<1>5. /\ page' \in [Clients -> Pages] /\ (\A d \in Clients : page'[d] \in SoundPages)
      /\ \A d \in Clients : page'[d].key = page[d].key /\ page'[d].knows = page[d].knows
      /\ GitState!AnswerIsCurrent'
  <2>1. CASE c # None /\ read[g].key = page[c].key
    <3>1. page' = [page EXCEPT ![c].data = s, ![c].answered = TRUE]
      BY <2>1 DEF GitState!Answer
    <3>2. c \in Clients /\ page \in [Clients -> Pages] /\ page[c] \in SoundPages
      BY <1>4, <2>1 DEF StatusInv
    <3> HIDE DEF c, s
    <3> DEFINE new == [page[c] EXCEPT !.data = s, !.answered = TRUE]
    <3>3. page' = [page EXCEPT ![c] = new]
      BY <3>1, <3>2
    <3>4. /\ new \in Pages /\ new.key = page[c].key /\ new.knows = page[c].knows
          /\ new.data = s /\ new.answered
      BY <1>4, <3>2 DEF Pages
    <3> HIDE DEF new
    <3>5. new \in SoundPages
      BY <1>4, <3>2, <3>4 DEF SoundPages
    <3>6. /\ page' \in [Clients -> Pages] /\ page'[c] = new
          /\ \A d \in Clients : d # c => page'[d] = page[d]
      BY <3>2, <3>3, <3>4
    <3>7. \A d \in Clients : /\ page'[d] \in SoundPages
                             /\ page'[d].key = page[d].key /\ page'[d].knows = page[d].knows
      BY <3>4, <3>5, <3>6 DEF StatusInv
    <3>8. ASSUME "web" \in Clients, page'["web"].answered
          PROVE  page'["web"].data.first >= page'["web"].knows
      <4>1. CASE c = "web"
        BY <1>4, <2>1, <3>4, <3>6, <3>8, <4>1 DEF c, s
      <4>2. CASE c # "web"
        BY <3>6, <3>8, <4>2 DEF StatusInv, GitState!AnswerIsCurrent
      <4> QED BY <4>1, <4>2
    <3> QED BY <3>6, <3>7, <3>8 DEF GitState!AnswerIsCurrent
  <2>2. CASE ~(c # None /\ read[g].key = page[c].key)
    <3>1. page' = page
      BY <2>2 DEF GitState!Answer
    <3> QED BY <3>1 DEF StatusInv, GitState!AnswerIsCurrent
  <2> QED BY <2>1, <2>2
<1>6. /\ GitState!Free \in StatusReads /\ GitState!Free \in SoundReads
      /\ GitState!Free.client = None /\ None \notin Clients
  BY FreeIs DEF StatusBounds
<1>7. read' \in [Reads -> StatusReads]
  BY <1>1, <1>6, ReadIs
<1>8. \A h \in Reads : read'[h] \in SoundReads' /\ AskedByWeb(read[h])'
  <2> TAKE h \in Reads
  <2>1. CASE h = g
    <3>1. read'[h] = GitState!Free
      BY <1>1, <2>1, ReadIs
    <3>2. AskedByWeb(read[h])'
      BY <1>6, <3>1 DEF AskedByWeb
    <3> QED BY <1>3, <1>6, <3>1, <3>2
  <2>2. CASE h # g
    <3>1. read'[h] = read[h] /\ read[h] \in SoundReads /\ AskedByWeb(read[h])
      BY <1>1, <2>2, ReadIs
    <3>2. AskedByWeb(read[h])'
      BY <1>5, <3>1 DEF AskedByWeb
    <3> QED BY <1>3, <3>1, <3>2
  <2> QED BY <2>1, <2>2
<1>9. row'.status \in Sound' \cup {None} /\ \A d \in Clients : page'[d] \in SoundPages'
  BY <1>1, <1>3, <1>5 DEF StatusInv
<1> QED BY <1>2, <1>5, <1>7, <1>8, <1>9 DEF StatusInv

\* An action is chosen among those that are offered on what is shown.
LEMMA ChooseStep ==
  ASSUME StatusInv, NEW c \in Clients, NEW a \in GitState!GitActions, GitState!Choose(c, a)
  PROVE  StatusInv'
<1>1. /\ a \in GitState!Offered(page[c].data) /\ UNCHANGED <<repo, version, row, unsaid, read, page>>
      /\ op' = [step |-> "validate", action |-> a, client |-> c, from |-> page[c].data, own |-> 0]
  BY DEF GitState!Choose
<1>2. page[c].data \in Sound
  BY <1>1 DEF GitState!Offered, StatusInv, SoundPages
<1>3. left' \in Left
  BY UsesIs DEF GitState!Choose, StatusInv, RecordsOK, Left
<1>4. RecordsOK'
  BY <1>1, <1>3 DEF StatusInv, RecordsOK, Left
<1>5. StatusFrame
  BY <1>1, StillIsFrame
<1>6. Sound \subseteq Sound'
  BY <1>4, <1>5, SoundStays DEF StatusInv
<1>7. op'.from \in Sound' /\ op'.from \in ReadStatuses /\ op'.from.last + 0 <= version'
  <2>1. op'.from \in Sound /\ op'.from \in Sound'
    BY <1>1, <1>2, <1>6
  <2>2. op'.from \in ReadStatuses /\ op'.from.last <= version /\ op'.from.last \in Nat
    BY <2>1 DEF Sound, ReadStatuses
  <2> QED BY <1>1, <2>1, <2>2
<1>8. /\ op'.step = "validate" /\ op'.own = 0 /\ op'.action = a /\ op'.client = c
      /\ a \in GitState!Offered(op'.from)
  BY <1>1
<1>9. ActionOK'
  <2>1. op' \in [step : ActionSteps, action : GitState!GitActions \cup {None},
                 client : Clients \cup {None}, from : ReadStatuses \cup {None}, own : Nat]
    BY <1>1, <1>7 DEF ActionSteps
  <2>2. a \in GitState!Offered(op.from)'
    BY <1>8
    DEF GitState!Offered, GitState!LocalCommits, GitState!Pushable, GitState!GitActions,
       GitState!Commits, GitState!Pushes, GitState!Opens
  <2> QED BY <1>7, <1>8, <2>1, <2>2 DEF ActionOK
<1> QED BY <1>1, <1>4, <1>5, <1>9, RestStays

\* What the action under way takes along to its next step: its own changes do not count
\* as disturbing it.
LEMMA GoesIs ==
  ASSUME StatusInv, RecordsOK', StatusFrame, op.step # "idle", NEW step \in ActionSteps,
         GitState!Goes(step)
  PROVE  /\ op' \in [step : ActionSteps, action : GitState!GitActions \cup {None},
                     client : Clients \cup {None}, from : ReadStatuses \cup {None}, own : Nat]
         /\ op'.step = step /\ op'.action = op.action /\ op'.client = op.client
         /\ op'.from = op.from /\ op'.from \in Sound'
         /\ op'.action \in GitState!GitActions /\ op'.client \in Clients
         /\ op'.from.last + op'.own <= version'
         /\ Undisturbed' <=> Undisturbed
<1>1. /\ version \in Nat /\ version' \in Nat /\ version' >= version
  BY DEF StatusInv, RecordsOK, StatusFrame
<1>2. /\ op \in [step : ActionSteps, action : GitState!GitActions \cup {None},
                 client : Clients \cup {None}, from : ReadStatuses \cup {None}, own : Nat]
      /\ op.action \in GitState!GitActions /\ op.client \in Clients
      /\ op.from \in Sound /\ op.from.last + op.own <= version
  BY DEF StatusInv, ActionOK
<1>3. op.own \in Nat /\ op.from.first \in Nat /\ op.from.last \in Nat
  BY <1>2 DEF Sound, ReadStatuses
<1> DEFINE own == op.own + (version' - version)
<1>4. own \in Nat /\ own + version = op.own + version'
  BY <1>1, <1>3
<1>5. op' = [op EXCEPT !.step = step, !.own = own]
  BY DEF GitState!Goes
<1> HIDE DEF own
<1>6. /\ op' \in [step : ActionSteps, action : GitState!GitActions \cup {None},
                  client : Clients \cup {None}, from : ReadStatuses \cup {None}, own : Nat]
      /\ op'.step = step /\ op'.action = op.action /\ op'.client = op.client
      /\ op'.from = op.from /\ op'.own = own
  BY <1>2, <1>4, <1>5
<1>7. op'.from \in Sound'
  BY <1>2, <1>6, SoundStays DEF StatusInv
<1>8. op.from.last + own <= version' /\ (op.from.first + own = version' <=> op.from.first + op.own = version)
  BY <1>1, <1>2, <1>3, <1>4
<1> QED BY <1>2, <1>6, <1>7, <1>8 DEF Undisturbed

\* Why an action that was offered on a status can go on: as long as nothing has changed,
\* the repository is what the status says.
LEMMA OfferedIs ==
  ASSUME StatusInv, op.step = "validate"
  PROVE  /\ op.own = 0 /\ op.action \in GitState!Offered(op.from) /\ op.from \in Sound
         /\ op.action \in GitState!GitActions /\ op.from \in ReadStatuses
         /\ Undisturbed => Agrees(op.from) /\ (op.from.available => AgreesWithGitHub(op.from))
<1>1. op.own = 0 /\ op.action \in GitState!Offered(op.from) /\ op.from \in Sound
      /\ op.action \in GitState!GitActions
  BY DEF StatusInv, ActionOK
<1>2. op.from \in ReadStatuses /\ op.from.first \in Nat
  BY <1>1 DEF Sound, ReadStatuses
<1>3. Undisturbed => op.from.first = version
  BY <1>1, <1>2 DEF Undisturbed
<1> QED BY <1>1, <1>2, <1>3 DEF Sound

LEMMA OfferIs ==
  ASSUME NEW s \in ReadStatuses, NEW a \in GitState!GitActions, a \in GitState!Offered(s)
  PROVE  /\ ~(s.ahead > 0 /\ s.behind > 0)
         /\ a \in GitState!Commits => s.dirty
         /\ a \in GitState!Pushes => s.behind = 0 /\ s.available
         /\ a = "create_pr" => ~s.dirty
         /\ a = "pull" => s.behind > 0 /\ s.upstream /\ s.available
BY DEF GitState!Offered, GitState!Pushable

LEMMA ValidateStep ==
  ASSUME StatusInv, GitState!Validate
  PROVE  StatusInv'
<1> DEFINE valid == repo.branch = "own" /\ (op.action \in GitState!Commits <=> repo.dirty)
           step == CASE ~valid                         -> "refused"
                     [] op.action \in GitState!Commits -> "commit"
                     [] op.action \in GitState!Pushes  -> "push"
                     [] OTHER                          -> "pr"
<1>1. /\ op.step = "validate" /\ op.action # "pull" /\ GitState!Goes(step)
      /\ UNCHANGED <<repo, version, row, unsaid, read, page, left>>
  BY DEF GitState!Validate
<1>2. /\ step \in ActionSteps
      /\ step \in {"refused", "commit", "push", "pr"}
      /\ step = "refused" => ~valid
      /\ step = "commit" => op.action \in GitState!Commits
      /\ step = "push" => op.action \in GitState!Pushes
      /\ step = "pr" => op.action \notin GitState!Commits /\ op.action \notin GitState!Pushes
  BY DEF ActionSteps
<1> HIDE DEF step
<1>3. RecordsOK' /\ StatusFrame
  <2>1. RecordsOK'
    BY <1>1 DEF StatusInv, RecordsOK
  <2> QED BY <1>1, <2>1, StillIsFrame
<1>4. /\ op' \in [step : ActionSteps, action : GitState!GitActions \cup {None},
                  client : Clients \cup {None}, from : ReadStatuses \cup {None}, own : Nat]
      /\ op'.step = step /\ op'.action = op.action /\ op'.client = op.client
      /\ op'.from = op.from /\ op'.from \in Sound'
      /\ op'.action \in GitState!GitActions /\ op'.client \in Clients
      /\ op'.from.last + op'.own <= version'
      /\ Undisturbed' <=> Undisturbed
  BY <1>1, <1>2, <1>3, GoesIs
<1>5. /\ op.action \in GitState!GitActions /\ op.from \in ReadStatuses
      /\ Undisturbed => Agrees(op.from) /\ (op.from.available => AgreesWithGitHub(op.from))
      /\ op.action \in GitState!Commits => op.from.dirty
      /\ op.action \in GitState!Pushes => op.from.behind = 0 /\ op.from.available
      /\ op.action = "create_pr" => ~op.from.dirty
  BY <1>1, OfferedIs, OfferIs
<1>6. Undisturbed /\ op.action \in GitState!Pushes => repo.behind = 0
  BY <1>5 DEF Agrees, AgreesWithGitHub, StatusInv, RecordsOK
<1>7. step = "pr" => op.action \in GitState!Opens
  BY <1>1, <1>2, <1>5
  DEF GitState!GitActions, GitState!Commits, GitState!Pushes, GitState!Opens
<1>8. step = "refused" /\ Undisturbed =>
        op.from.branch # "own" \/ (op.action \in {"push", "push_create_pr"} /\ op.from.dirty)
  <2> SUFFICES ASSUME step = "refused", Undisturbed, op.from.branch = "own"
               PROVE  op.action \in {"push", "push_create_pr"} /\ op.from.dirty
    OBVIOUS
  <2>1. repo.branch = "own" /\ op.from.dirty = repo.dirty
    BY <1>5 DEF Agrees
  <2>2. op.action \notin GitState!Commits /\ repo.dirty
    BY <1>2, <1>5, <2>1
  <2> QED BY <1>1, <1>5, <2>1, <2>2 DEF GitState!GitActions, GitState!Commits
<1>9. ActionOK'
  BY <1>1, <1>2, <1>4, <1>6, <1>7, <1>8 DEF ActionOK, GitState!NotLookedAt
<1> QED BY <1>1, <1>3, <1>9, RestStays

\* The phases of an action: what each leaves of the repository, and where it goes.
LEMMA RecordsStay ==
  ASSUME StatusInv, GitState!Records, version' \in Nat, version' >= version
  PROVE  /\ unsaid' \in [{"agent", "operation"} -> Nat]
         /\ \A a \in {"agent", "operation"} : unsaid'[a] <= version'
BY DEF StatusInv, RecordsOK, GitState!Records

LEMMA PhaseStep ==
  ASSUME StatusInv, UNCHANGED <<row, read, page, left>>,
         repo' \in Repo, repo'.upstream \/ repo'.behind = 0,
         \/ version' = version + 1
         \/ version' = version /\ (\/ UNCHANGED repo
                                   \/ repo' = [repo EXCEPT !.tracked = repo.behind]),
         GitState!Records \/ UNCHANGED unsaid
  PROVE  RecordsOK' /\ StatusFrame
<1>1. version \in Nat /\ version' \in Nat /\ version' >= version /\ row.recorded \in Nat
  BY DEF StatusInv, RecordsOK
<1>2. /\ unsaid' \in [{"agent", "operation"} -> Nat]
      /\ \A a \in {"agent", "operation"} : unsaid'[a] <= version'
  <2>1. CASE GitState!Records
    BY <1>1, <2>1, RecordsStay
  <2>2. CASE UNCHANGED unsaid
    <3>1. /\ unsaid \in [{"agent", "operation"} -> Nat]
          /\ \A a \in {"agent", "operation"} : unsaid[a] <= version /\ unsaid[a] \in Nat
      BY DEF StatusInv, RecordsOK
    <3> QED BY <1>1, <2>2, <3>1
  <2> QED BY <2>1, <2>2
<1>3. RecordsOK'
  BY <1>1, <1>2 DEF StatusInv, RecordsOK
<1>4. StatusFrame
  BY ChangeIsFrame, StillIsFrame
<1> QED BY <1>3, <1>4

LEMMA CommitStep ==
  ASSUME StatusInv, GitState!Commit
  PROVE  StatusInv'
<1>1. /\ op.step = "commit" /\ UNCHANGED <<row, read, page, left>> /\ GitState!Records
      /\ GitState!Goes(IF op.action \in GitState!Pushes THEN "push" ELSE "settled")
  BY DEF GitState!Commit, GitState!InTurn
<1>2. repo \in Repo /\ (repo.upstream \/ repo.behind = 0) /\ version \in Nat
  BY DEF StatusInv, RecordsOK
<1>3. /\ repo' \in Repo /\ repo'.upstream = repo.upstream /\ repo'.behind = repo.behind
      /\ version' = version + 1 \/ (version' = version /\ UNCHANGED repo)
  <2>1. CASE repo.dirty
    <3> DEFINE ahead == repo.ahead + 1
               ofBase == repo.ofBase + 1
    <3>1. ahead \in Nat /\ ofBase \in Nat
      BY <1>2 DEF Repo
    <3>2. repo' = [repo EXCEPT !.dirty = FALSE, !.ahead = ahead, !.ofBase = ofBase]
          /\ version' = version + 1
      BY <2>1 DEF GitState!Commit, GitState!Change
    <3> HIDE DEF ahead, ofBase
    <3> QED BY <1>2, <3>1, <3>2 DEF Repo
  <2>2. CASE ~repo.dirty
    BY <1>2, <2>2 DEF GitState!Commit
  <2> QED BY <2>1, <2>2
<1>4. RecordsOK' /\ StatusFrame
  BY <1>1, <1>2, <1>3, PhaseStep
<1>5. PICK step \in ActionSteps :
        /\ GitState!Goes(step) /\ step \in {"push", "settled"}
        /\ step = "push" => op.action \in GitState!Pushes
  BY <1>1 DEF ActionSteps
<1>6. /\ op' \in [step : ActionSteps, action : GitState!GitActions \cup {None},
                  client : Clients \cup {None}, from : ReadStatuses \cup {None}, own : Nat]
      /\ op'.step = step /\ op'.action = op.action /\ op'.client = op.client
      /\ op'.from = op.from /\ op'.from \in Sound'
      /\ op'.action \in GitState!GitActions /\ op'.client \in Clients
      /\ op'.from.last + op'.own <= version'
      /\ Undisturbed' <=> Undisturbed
  BY <1>1, <1>4, <1>5, GoesIs
<1>7. Undisturbed /\ op.action \in GitState!Pushes => repo'.behind = 0
  BY <1>1, <1>3 DEF StatusInv, ActionOK
<1>8. ActionOK'
  BY <1>5, <1>6, <1>7 DEF ActionOK
<1> QED BY <1>1, <1>4, <1>8, RestStays

\* A push is refused only after commits on GitHub that nobody has seen.
LEMMA PushStep ==
  ASSUME StatusInv, GitState!Push
  PROVE  StatusInv'
<1>1. op.step = "push" /\ UNCHANGED <<row, read, page, left>>
  BY DEF GitState!Push, GitState!InTurn
<1>2. repo \in Repo /\ (repo.upstream \/ repo.behind = 0) /\ version \in Nat
  BY DEF StatusInv, RecordsOK
<1>3. PICK step \in ActionSteps :
        /\ GitState!Goes(step) /\ step \in {"pr", "settled", "refused"}
        /\ step = "pr" => op.action \in GitState!Opens
        /\ step = "refused" => repo.behind > 0
        /\ repo' \in Repo /\ (repo'.upstream \/ repo'.behind = 0)
        /\ version' = version + 1 \/ (version' = version /\ UNCHANGED repo)
        /\ GitState!Records \/ UNCHANGED unsaid
  <2>1. CASE /\ repo.behind = 0
             /\ IF repo.ahead = 0 /\ repo.upstream THEN UNCHANGED <<repo, version>>
                ELSE GitState!Change([repo EXCEPT !.ahead = 0, !.tracked = 0, !.upstream = TRUE])
             /\ GitState!Records
             /\ GitState!Goes(IF op.action \in GitState!Opens THEN "pr" ELSE "settled")
    <3>1. /\ repo' \in Repo /\ (repo'.upstream \/ repo'.behind = 0)
          /\ version' = version + 1 \/ (version' = version /\ UNCHANGED repo)
      <4>1. CASE UNCHANGED <<repo, version>>
        BY <1>2, <4>1
      <4>2. CASE GitState!Change([repo EXCEPT !.ahead = 0, !.tracked = 0, !.upstream = TRUE])
        BY <1>2, <4>2 DEF GitState!Change, Repo
      <4> QED BY <2>1, <4>1, <4>2
    <3> QED BY <2>1, <3>1 DEF ActionSteps
  <2>2. CASE repo.behind > 0 /\ UNCHANGED <<repo, version, unsaid>> /\ GitState!Goes("refused")
    BY <1>2, <2>2 DEF ActionSteps
  <2> QED BY <2>1, <2>2 DEF GitState!Push
<1>4. RecordsOK' /\ StatusFrame
  BY <1>1, <1>3, PhaseStep
<1>5. /\ op' \in [step : ActionSteps, action : GitState!GitActions \cup {None},
                  client : Clients \cup {None}, from : ReadStatuses \cup {None}, own : Nat]
      /\ op'.step = step /\ op'.action = op.action /\ op'.client = op.client
      /\ op'.from = op.from /\ op'.from \in Sound'
      /\ op'.action \in GitState!GitActions /\ op'.client \in Clients
      /\ op'.from.last + op'.own <= version'
      /\ Undisturbed' <=> Undisturbed
  BY <1>1, <1>3, <1>4, GoesIs
<1>6. step = "refused" => ~Undisturbed
  BY <1>1, <1>2, <1>3 DEF StatusInv, ActionOK
<1>7. ActionOK'
  BY <1>3, <1>5, <1>6 DEF ActionOK
<1> QED BY <1>1, <1>4, <1>7, RestStays

LEMMA OpenPullRequestStep ==
  ASSUME StatusInv, GitState!OpenPullRequest
  PROVE  StatusInv'
<1>1. op.step = "pr" /\ op.action \in GitState!Opens /\ UNCHANGED <<row, read, page, left>>
  BY DEF GitState!OpenPullRequest, GitState!InTurn, StatusInv, ActionOK
<1>2. repo \in Repo /\ (repo.upstream \/ repo.behind = 0) /\ version \in Nat
  BY DEF StatusInv, RecordsOK
<1>3. PICK step \in ActionSteps :
        /\ GitState!Goes(step) /\ step \in {"settled", "refused"}
        /\ step = "refused" => repo'.ofBase = 0
        /\ repo' \in Repo /\ (repo'.upstream \/ repo'.behind = 0)
        /\ version' = version + 1 \/ (version' = version /\ UNCHANGED repo)
        /\ GitState!Records \/ UNCHANGED unsaid
  <2>1. CASE /\ IF repo.pr THEN UNCHANGED <<repo, version>>
                ELSE GitState!Change([repo EXCEPT !.pr = TRUE])
             /\ GitState!Records /\ GitState!Goes("settled")
    BY <1>2, <2>1 DEF ActionSteps, GitState!Change, Repo
  <2>2. CASE repo.ofBase = 0 /\ UNCHANGED <<repo, version, unsaid>> /\ GitState!Goes("refused")
    BY <1>2, <2>2 DEF ActionSteps
  <2> QED BY <2>1, <2>2 DEF GitState!OpenPullRequest
<1>4. RecordsOK' /\ StatusFrame
  BY <1>1, <1>3, PhaseStep
<1>5. /\ op' \in [step : ActionSteps, action : GitState!GitActions \cup {None},
                  client : Clients \cup {None}, from : ReadStatuses \cup {None}, own : Nat]
      /\ op'.step = step /\ op'.action = op.action /\ op'.client = op.client
      /\ op'.from = op.from /\ op'.from \in Sound'
      /\ op'.action \in GitState!GitActions /\ op'.client \in Clients
      /\ op'.from.last + op'.own <= version'
  BY <1>1, <1>3, <1>4, GoesIs
<1>6. ActionOK'
  BY <1>1, <1>3, <1>5 DEF ActionOK, GitState!NotLookedAt
<1> QED BY <1>1, <1>4, <1>6, RestStays

\* A pull that was offered can be refused only on another branch, or after commits that
\* the status did not show.
LEMMA PullStep ==
  ASSUME StatusInv, GitState!Pull
  PROVE  StatusInv'
<1>1. op.step = "validate" /\ op.action = "pull" /\ UNCHANGED <<row, read, page, left>>
  BY DEF GitState!Pull
<1>2. /\ repo \in Repo /\ (repo.upstream \/ repo.behind = 0) /\ version \in Nat
      /\ repo.ahead \in Nat /\ repo.behind \in Nat
  BY DEF StatusInv, RecordsOK, Repo
<1>3. PICK step \in ActionSteps :
        /\ GitState!Goes(step) /\ step \in {"settled", "refused"}
        /\ step = "refused" =>
             ~(repo.branch = "own" /\ repo.upstream /\ (repo.behind = 0 \/ repo.ahead = 0))
        /\ repo' \in Repo /\ (repo'.upstream \/ repo'.behind = 0)
        /\ \/ version' = version + 1
           \/ version' = version /\ (\/ UNCHANGED repo
                                     \/ repo' = [repo EXCEPT !.tracked = repo.behind])
        /\ GitState!Records \/ UNCHANGED unsaid
  <2>1. CASE repo.branch = "own" /\ repo.upstream /\ (repo.behind = 0 \/ repo.ahead = 0)
    <3>1. /\ IF repo.behind = 0 THEN UNCHANGED <<repo, version>>
             ELSE GitState!Change([repo EXCEPT !.behind = 0, !.tracked = 0])
          /\ GitState!Records /\ GitState!Goes("settled")
      BY <2>1 DEF GitState!Pull
    <3>2. CASE UNCHANGED <<repo, version>>
      BY <1>2, <3>1, <3>2 DEF ActionSteps
    <3>3. CASE GitState!Change([repo EXCEPT !.behind = 0, !.tracked = 0])
      <4>1. repo' \in Repo /\ repo'.behind = 0 /\ version' = version + 1
        BY <1>2, <3>3 DEF GitState!Change, Repo
      <4> QED BY <3>1, <4>1 DEF ActionSteps
    <3> QED BY <3>1, <3>2, <3>3
  <2>2. CASE ~(repo.branch = "own" /\ repo.upstream /\ (repo.behind = 0 \/ repo.ahead = 0))
    <3>1. /\ repo' = IF repo.branch = "own" THEN [repo EXCEPT !.tracked = repo.behind] ELSE repo
          /\ UNCHANGED <<version, unsaid>> /\ GitState!Goes("refused")
      BY <2>2 DEF GitState!Pull
    <3> QED BY <1>2, <2>2, <3>1 DEF ActionSteps, Repo
  <2> QED BY <2>1, <2>2
<1>4. RecordsOK' /\ StatusFrame
  BY <1>1, <1>3, PhaseStep
<1>5. /\ op' \in [step : ActionSteps, action : GitState!GitActions \cup {None},
                  client : Clients \cup {None}, from : ReadStatuses \cup {None}, own : Nat]
      /\ op'.step = step /\ op'.action = op.action /\ op'.client = op.client
      /\ op'.from = op.from /\ op'.from \in Sound'
      /\ op'.action \in GitState!GitActions /\ op'.client \in Clients
      /\ op'.from.last + op'.own <= version'
      /\ Undisturbed' <=> Undisturbed
  BY <1>1, <1>3, <1>4, GoesIs
<1>6. /\ op.from \in ReadStatuses
      /\ Undisturbed => Agrees(op.from) /\ (op.from.available => AgreesWithGitHub(op.from))
      /\ ~(op.from.ahead > 0 /\ op.from.behind > 0)
      /\ op.from.behind > 0 /\ op.from.upstream /\ op.from.available
  BY <1>1, OfferedIs, OfferIs
<1>7. step = "refused" /\ Undisturbed => op.from.branch # "own"
  BY <1>2, <1>3, <1>6 DEF Agrees, AgreesWithGitHub
<1>8. ActionOK'
  BY <1>3, <1>5, <1>7 DEF ActionOK, GitState!NotLookedAt
<1> QED BY <1>1, <1>4, <1>8, RestStays

LEMMA StatusStep ==
  ASSUME StatusBounds, StatusInv, [GitState!Next]_GitState!vars
  PROVE  StatusInv'
<1>1. CASE UNCHANGED GitState!vars
  <2>1. UNCHANGED <<repo, version, row, unsaid, read, page, op, left>>
    BY <1>1 DEF GitState!vars
  <2>2. ActionOK' /\ RecordsOK' /\ StatusFrame
    BY <2>1, ReadIs, StillActionStays DEF StatusInv, RecordsOK, Left
  <2> QED BY <2>1, <2>2, RestStays
<1>2. CASE GitState!AgentChanges \/ GitState!OthersChange \/ GitState!RowArrives
  BY <1>2, AgentChangesStep, OthersChangeStep, RowArrivesStep
<1>3. ASSUME NEW a \in {"agent", "operation"}, GitState!Invalidate(a) PROVE StatusInv'
  BY <1>3, InvalidateStep
<1>4. ASSUME NEW g \in Reads,
             \/ GitState!Discover(g) \/ GitState!Start(g) \/ GitState!Look(g)
             \/ GitState!Fetch(g) \/ GitState!Relook(g) \/ GitState!ReadCounts(g)
      PROVE  StatusInv'
  BY <1>4, DiscoverStep, StartStep, LookStep, FetchStep, RelookStep, ReadCountsStep
<1>5. ASSUME NEW g \in Reads,
             \/ GitState!Save(g) \/ GitState!Fails(g) \/ GitState!Answer(g)
             \/ GitState!Settle(g) \/ \E c \in Clients : GitState!Ask(c, g)
      PROVE  StatusInv'
  BY <1>5, SaveStep, FailsStep, AnswerStep, SettleStep, AskStep
<1>6. ASSUME NEW c \in Clients, NEW a \in GitState!GitActions, GitState!Choose(c, a)
      PROVE  StatusInv'
  BY <1>6, ChooseStep
<1>7. CASE \/ GitState!Validate \/ GitState!Commit \/ GitState!Push \/ GitState!OpenPullRequest
           \/ GitState!Pull
  BY <1>7, ValidateStep, CommitStep, PushStep, OpenPullRequestStep, PullStep
<1> QED BY <1>1, <1>2, <1>3, <1>4, <1>5, <1>6, <1>7 DEF GitState!Next

\* StatusIsTrue: a status the row does not call outdated was read after every change that
\* has been recorded, the web app's answer is as new as the changes it has been told of,
\* and an action that was offered is refused only when the repository has changed since its
\* status was read, or for what the offer does not look at.
THEOREM StatusIsTrueHolds ==
  ASSUME StatusBounds
  PROVE  GitState!Spec => [](/\ GitState!KeptStatusIsCurrent
                             /\ GitState!AnswerIsCurrent
                             /\ GitState!RefusedWhenChanged)
<1>1. GitState!Init => StatusInv
  <2> SUFFICES ASSUME GitState!Init PROVE StatusInv
    OBVIOUS
  <2>1. /\ repo \in Repo /\ (repo.upstream \/ repo.behind = 0) /\ version = 0
        /\ row = [status |-> None, invalidatedAt |-> 0, recorded |-> 0, pr |-> FALSE, now |-> 0]
        /\ unsaid = [a \in {"agent", "operation"} |-> 0]
        /\ read = [g \in Reads |-> GitState!Free]
        /\ page = [c \in Clients |-> [key |-> 0, knows |-> 0, data |-> None, answered |-> FALSE]]
        /\ op = Idle
        /\ left \in Left
    BY
    DEF GitState!Init, StatusBounds, GitState!FirstKey, GitState!WebKey, GitState!MobileKey,
       Idle, Left
  <2>2. RecordsOK /\ row.status \in Sound \cup {None}
    BY <2>1 DEF RecordsOK, Left
  <2>3. /\ read \in [Reads -> StatusReads]
        /\ \A g \in Reads : read[g] \in SoundReads /\ AskedByWeb(read[g])
    BY <2>1, FreeIs DEF StatusBounds
  <2>4. /\ page \in [Clients -> Pages] /\ (\A c \in Clients : page[c] \in SoundPages)
        /\ GitState!AnswerIsCurrent
    BY <2>1 DEF Pages, SoundPages, GitState!AnswerIsCurrent
  <2>5. ActionOK
    BY <2>1 DEF ActionOK, Idle, ActionSteps
  <2> QED BY <2>2, <2>3, <2>4, <2>5 DEF StatusInv
<1>2. StatusInv /\ [GitState!Next]_GitState!vars => StatusInv'
  BY StatusStep
<1>3. StatusInv => /\ GitState!KeptStatusIsCurrent /\ GitState!AnswerIsCurrent
                   /\ GitState!RefusedWhenChanged
  <2> SUFFICES ASSUME StatusInv
               PROVE  /\ GitState!KeptStatusIsCurrent /\ GitState!AnswerIsCurrent
                      /\ GitState!RefusedWhenChanged
    OBVIOUS
  <2>1. GitState!KeptStatusIsCurrent
    BY DEF StatusInv, Sound, GitState!KeptStatusIsCurrent
  <2>2. GitState!RefusedWhenChanged
    <3> SUFFICES ASSUME op.step = "refused", op.from.first = version - op.own
                 PROVE  GitState!NotLookedAt
      BY DEF GitState!RefusedWhenChanged
    <3>1. op.from \in Sound /\ op.own \in Nat /\ version \in Nat
      BY DEF StatusInv, ActionOK, RecordsOK
    <3>2. op.from.first \in Nat
      BY <3>1 DEF Sound, ReadStatuses
    <3>3. Undisturbed
      BY <3>1, <3>2 DEF Undisturbed
    <3> QED BY <3>3 DEF StatusInv, ActionOK
  <2> QED BY <2>1, <2>2 DEF StatusInv
<1> QED BY <1>1, <1>2, <1>3, PTL DEF GitState!Spec
=============================================================================
