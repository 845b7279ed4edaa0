--------------------------- MODULE AgentRunProofs ---------------------------
(***************************************************************************)
(* Theorems about the runs of a thread and about the composer of its page. *)
(*                                                                         *)
(* AgentRun: for every number of turns, of POSTs and of requests that read *)
(* or stop a run, and for every bound on failures.                         *)
(*                                                                         *)
(* ThreadComposer, below Composer!: for every number of messages, with or  *)
(* without images, of runs of other clients, of changes of the demo        *)
(* setting and of requests that fail.                                      *)
(***************************************************************************)
EXTENDS AgentRun, TLAPS

CONSTANTS Messages, Images, Others, MaxToggles                      \* ThreadComposer
VARIABLES draft, upload, page, server, seen, stop, toggles, requestFaults

Composer == INSTANCE ThreadComposer WITH message <- draft, faults <- requestFaults

-----------------------------------------------------------------------------
(* Types. *)

Threads == [current : Turns \cup {None}, issue : Turns \cup {None}, root : BOOLEAN]
Message == [token : Posts \cup {None}, parts : {"absent", "empty", "partial", "full"}]
Run == [status : {"none", "executing", "completed", "failed", "cancelled"},
        pc : TaskPC, token : Posts \cup {None}, visible : BOOLEAN, finish : BOOLEAN,
        broke : BOOLEAN, aborted : BOOLEAN, reported : BOOLEAN]
Grants == {"none", "live", "gone"}
Post == [pc : {"new", "lookup", "reconcile", "turn", "trigger", "mark", "release", "end"},
         turn : Turns \cup {None}, seen : Turns \cup {None}, verdict : Verdict]
Reader == [pc : {"idle", "open", "read", "look", "cancel", "patch", "reconcile"},
           turn : Turns \cup {None}, seen : Turns \cup {None}, verdict : Verdict]

LEMMA TypeParts ==
  TypeOK <=> /\ thread \in Threads /\ message \in [Turns -> Message]
             /\ run \in [Turns -> Run] /\ grant \in [Posts -> Grants]
             /\ post \in [Posts -> Post] /\ reader \in [Readers -> Reader]
             /\ faults \in 0 .. MaxFaults
BY DEF TypeOK, Threads, Message, Run, Grants, Post, Reader

-----------------------------------------------------------------------------
(* The inductive invariant. *)

\* What the thread's document says of runs.
ThreadInv ==
  /\ thread.current # None => thread.issue = None /\ run[thread.current].status # "none"
  /\ thread.issue # None => run[thread.issue].broke
  /\ thread.root => thread.issue # None

\* What a run k, whose message has these parts, has behind it: a task that
\* reports has failed, one that settles the run has ended its stream or failed.
RunIs(k, parts) ==
  /\ k.status = "none" => k = NoRun
  /\ k.status = "failed" => k.broke
  /\ k.status = "cancelled" => k.aborted
  /\ k.pc = "mark" => k.finish
  /\ k.pc \in {"report", "close", "hook"} => k.broke
  /\ k.pc = "remark" => k.finish \/ k.broke
  /\ k.pc \in {"cancel", "cancelMark"} => k.aborted
  /\ k.status # "none" /\ ~VisibilityLag => k.visible
  /\ k.finish \/ k.pc \in {"finish", "mark"} => k.broke \/ k.aborted \/ parts = "full"
RunOK(m) == RunIs(run[m], message[m].parts)

\* The verdict a request took away from Trigger.dev stays true of the run; a
\* run it found unknown may be live only when new runs are not visible at once.
Ended(k) == \/ k.finish \/ k.broke \/ k.aborted
            \/ k.status \in {"completed", "failed", "cancelled"} \/ k.pc = "done"
Seen(m, verdict) ==
  /\ ~VisibilityLag => Ended(run[m])
  /\ verdict = "failed" => run[m].broke

PostIs(l) ==
  /\ l.pc # "new" => l.turn \in Turns
  /\ l.pc \in {"lookup", "reconcile"} => l.seen \in Turns /\ run[l.seen].status # "none"
  /\ l.pc = "reconcile" => Seen(l.seen, l.verdict)
  /\ l.pc = "mark" => run[l.turn].status # "none"
ReaderIs(l) ==
  /\ l.pc # "idle" => l.turn \in Turns /\ run[l.turn].status # "none"
  /\ l.pc = "patch" => Terminal(l.turn)
  /\ l.pc = "reconcile" => Seen(l.turn, l.verdict)

AgentInv ==
  /\ TypeOK /\ ThreadInv
  /\ \A m \in Turns : RunOK(m)
  /\ \A p \in Posts : PostIs(post[p])
  /\ \A r \in Readers : ReaderIs(reader[r])

-----------------------------------------------------------------------------
(* What every step does. *)

\* A step leaves the thread alone, marks a run that was made as started, or
\* settles a run that ended, or reports one that failed.
ThreadDoes ==
  \/ UNCHANGED thread
  \/ \E m \in Turns :
       \/ run[m].status # "none" /\ MarkRunStarted(m)
       \/ (~VisibilityLag => Ended(run[m])) /\ ApplyRunFinished(m)
       \/ \E root \in BOOLEAN : run[m].broke /\ ApplyRunIssue(m, root)

\* What is said of a run stays true.
Later(k, l) ==
  k.status # "none" =>
    /\ l.status # "none" /\ l.token = k.token
    /\ (k.broke => l.broke) /\ (Ended(k) => Ended(l))
    /\ k.status \in {"completed", "failed", "cancelled"} =>
         l.status \in {"completed", "failed", "cancelled"}
RunsGrow == \A m \in Turns : Later(run[m], run'[m])

LEMMA ThreadTypes ==
  ASSUME AgentRunAssumption, thread \in Threads, ThreadDoes
  PROVE  thread' \in Threads
<1>1. CASE UNCHANGED thread
  BY <1>1
<1>2. ASSUME NEW m \in Turns, MarkRunStarted(m) PROVE thread' \in Threads
  BY <1>2 DEF MarkRunStarted, Threads
<1>3. ASSUME NEW m \in Turns, ApplyRunFinished(m) PROVE thread' \in Threads
  BY <1>3 DEF ApplyRunFinished, Threads
<1>4. ASSUME NEW m \in Turns, NEW root \in BOOLEAN, ApplyRunIssue(m, root)
      PROVE  thread' \in Threads
  BY <1>4 DEF ApplyRunIssue, Threads
<1> QED BY <1>1, <1>2, <1>3, <1>4 DEF ThreadDoes

LEMMA ThreadKept ==
  ASSUME AgentRunAssumption, AgentInv, ThreadDoes, RunsGrow
  PROVE  ThreadInv'
<1>0. /\ thread \in Threads /\ ThreadInv /\ None \notin Turns
      /\ \A m \in Turns : /\ run[m].status # "none" =>
                               run'[m].status # "none" /\ (run[m].broke => run'[m].broke)
                          /\ run[m].broke => run[m].status # "none"
  BY TypeParts DEF AgentInv, AgentRunAssumption, RunsGrow, Later, RunOK, RunIs, NoRun
<1>1. CASE UNCHANGED thread
  BY <1>0, <1>1 DEF ThreadInv, Threads
<1>2. ASSUME NEW m \in Turns, run[m].status # "none", MarkRunStarted(m) PROVE ThreadInv'
  <2>1. CASE thread.issue = m
    BY <1>0, <1>2, <2>1 DEF MarkRunStarted, ThreadInv, Threads
  <2>2. CASE thread.issue # m
    BY <1>0, <1>2, <2>2 DEF MarkRunStarted, ThreadInv, Threads
  <2> QED BY <2>1, <2>2
<1>3. ASSUME NEW m \in Turns, ApplyRunFinished(m) PROVE ThreadInv'
  BY <1>0, <1>3 DEF ApplyRunFinished, ThreadInv, Threads
<1>4. ASSUME NEW m \in Turns, NEW root \in BOOLEAN, run[m].broke, ApplyRunIssue(m, root)
      PROVE  ThreadInv'
  BY <1>0, <1>4 DEF ApplyRunIssue, ThreadInv, Threads
<1> QED BY <1>1, <1>2, <1>3, <1>4 DEF ThreadDoes

\* What a request knows of runs is still true after a step of another.
LEMMA RequestsKept ==
  ASSUME RunsGrow
  PROVE  /\ \A l \in Post : PostIs(l) => PostIs(l)'
         /\ \A l \in Reader : ReaderIs(l) => ReaderIs(l)'
<1> QED BY DEF RunsGrow, Later, PostIs, ReaderIs, Seen, Terminal

\* A step keeps the invariant when what it changes is as it should be.
LEMMA InvKept ==
  ASSUME AgentRunAssumption, AgentInv, TypeOK', ThreadDoes, RunsGrow,
         \A m \in Turns : RunOK(m)',
         \A p \in Posts : post'[p] = post[p] \/ PostIs(post[p])',
         \A r \in Readers : reader'[r] = reader[r] \/ ReaderIs(reader[r])'
  PROVE  AgentInv'
<1>1. /\ \A p \in Posts : post[p] \in Post /\ PostIs(post[p])
      /\ \A r \in Readers : reader[r] \in Reader /\ ReaderIs(reader[r])
  BY TypeParts DEF AgentInv
<1>2. \A p \in Posts : PostIs(post[p])'
  BY <1>1, RequestsKept
<1>3. \A r \in Readers : ReaderIs(reader[r])'
  BY <1>1, RequestsKept
<1> QED BY <1>2, <1>3, ThreadKept DEF AgentInv

-----------------------------------------------------------------------------
(* The task. *)

\* Where a run k stands after a step that only moves its task.
Moved(k, l, pc, broke, finish) ==
  /\ l \in Run /\ l.pc = pc /\ l.status = k.status /\ l.token = k.token
  /\ l.visible = k.visible /\ l.aborted = k.aborted
  /\ l.broke = broke /\ l.finish = finish

LEMMA TaskMoves ==
  ASSUME NEW m \in Turns, run[m] \in Run, NEW pc \in TaskPC
  PROVE  /\ Moved(run[m], Task(m, pc), pc, run[m].broke, run[m].finish)
         /\ Moved(run[m], Broken(m, pc), pc, TRUE, run[m].finish)
         /\ \A b \in BOOLEAN : Moved(run[m], [Task(m, pc) EXCEPT !.finish = b], pc, run[m].broke, b)
         /\ \A b \in BOOLEAN : Moved(run[m], [Task(m, pc) EXCEPT !.reported = b], pc,
                                     run[m].broke, run[m].finish)
BY DEF Moved, Task, Broken, Run

\* Where a step of its task may take run k, whose message then has these parts.
StepTo(k, l, parts) ==
  /\ k.pc # "done" /\ l \in Run /\ l.status = k.status /\ l.token = k.token
  /\ l.visible = k.visible /\ l.aborted = k.aborted
  /\ (k.broke => l.broke) /\ (k.finish => l.finish) /\ l.pc # "boot"
  /\ l.pc = "mark" => l.finish
  /\ l.pc \in {"report", "close", "hook"} => l.broke
  /\ l.pc = "remark" => l.finish \/ l.broke
  /\ l.pc \in {"cancel", "cancelMark"} => l.aborted
  /\ l.finish \/ l.pc \in {"finish", "mark"} => l.broke \/ l.aborted \/ parts = "full"

\* What such a step leaves, or does to the rest.
Around(m) ==
  /\ \/ UNCHANGED grant
     \/ run[m].pc = "boot" /\ grant' = [grant EXCEPT ![run[m].token] = "gone"]
  /\ message' \in [Turns -> Message]
  /\ \A n \in Turns \ {m} : message'[n] = message[n]
  /\ ThreadDoes /\ faults' \in 0 .. MaxFaults
  /\ UNCHANGED <<post, reader>>

\* A step of the task of run m, or of Trigger.dev on it, takes the run to l.
TaskDoes(m, l) ==
  /\ l \in Run /\ run' = [run EXCEPT ![m] = l]
  /\ Later(run[m], l) /\ RunIs(l, message'[m].parts)
  /\ run[m].status # "none" /\ (l.pc = "boot" => run[m].pc = "boot" /\ UNCHANGED grant)
  /\ Around(m)

LEMMA InjectType ==
  ASSUME AgentRunAssumption, faults \in 0 .. MaxFaults, NEW kind, Inject(kind)
  PROVE  faults' \in 0 .. MaxFaults
BY DEF AgentRunAssumption, Inject

LEMMA TaskKept ==
  ASSUME AgentRunAssumption, AgentInv, NEW m \in Turns, NEW l, TaskDoes(m, l)
  PROVE  AgentInv'
<1>0. /\ thread \in Threads /\ run \in [Turns -> Run] /\ grant \in [Posts -> Grants]
      /\ post \in [Posts -> Post] /\ reader \in [Readers -> Reader]
  BY TypeParts DEF AgentInv
<1>1. /\ run' \in [Turns -> Run] /\ run'[m] = l
      /\ \A n \in Turns \ {m} : run'[n] = run[n]
  BY <1>0 DEF TaskDoes, Around
<1>2. thread' \in Threads
  BY <1>0, ThreadTypes DEF TaskDoes, Around
<1>3. grant' \in [Posts -> Grants]
  BY <1>0 DEF TaskDoes, Around, Grants
<1>4. post' = post /\ reader' = reader
  BY DEF TaskDoes, Around
<1>5. TypeOK'
  <2>1. (TypeOK <=> /\ thread \in Threads /\ message \in [Turns -> Message]
                    /\ run \in [Turns -> Run] /\ grant \in [Posts -> Grants]
                    /\ post \in [Posts -> Post] /\ reader \in [Readers -> Reader]
                    /\ faults \in 0 .. MaxFaults)'
    BY TypeParts, PTL
  <2> QED BY <1>0, <1>1, <1>2, <1>3, <1>4, <2>1 DEF TaskDoes, Around
<1>6. RunsGrow
  BY <1>1 DEF TaskDoes, Around, RunsGrow, Later
<1>7. \A n \in Turns : RunOK(n)'
  BY <1>1 DEF TaskDoes, Around, RunOK, AgentInv
<1> QED BY <1>4, <1>5, <1>6, <1>7, InvKept DEF TaskDoes, Around

\* An authorised call of the task and what it leaves of the messages.
LEMMA TaskMessages ==
  ASSUME NEW m \in Turns, message \in [Turns -> Message]
  PROVE  /\ [message EXCEPT ![m].token = None] \in [Turns -> Message]
         /\ [message EXCEPT ![m].token = None][m].parts = message[m].parts
         /\ \A n \in Turns \ {m} : [message EXCEPT ![m].token = None][n] = message[n]
         /\ [message EXCEPT ![m].parts = "full"] \in [Turns -> Message]
         /\ [message EXCEPT ![m].parts = "full"][m].parts = "full"
         /\ \A n \in Turns \ {m} : [message EXCEPT ![m].parts = "full"][n] = message[n]
BY DEF Message

\* Every step of the task of a run that keeps what is said of the run.
LEMMA TaskSteps ==
  ASSUME AgentRunAssumption, AgentInv, NEW m \in Turns, TaskStep(m)
  PROVE  \E l \in Run : TaskDoes(m, l)
<1> DEFINE k == run[m]
<1>0. /\ thread \in Threads /\ run \in [Turns -> Run] /\ grant \in [Posts -> Grants]
      /\ post \in [Posts -> Post] /\ reader \in [Readers -> Reader]
      /\ message \in [Turns -> Message] /\ faults \in 0 .. MaxFaults
      /\ k \in Run /\ RunIs(k, message[m].parts)
  BY TypeParts DEF AgentInv, RunOK
<1>t. /\ TaskPC = {"boot", "stream", "persist", "finish", "mark", "report", "close",
                  "remark", "hook", "cancel", "cancelMark", "done"}
      /\ TRUE \in BOOLEAN
  BY DEF TaskPC
\* a step of the task
<1>q. ASSUME NEW l, StepTo(k, l, message'[m].parts), run' = [run EXCEPT ![m] = l], Around(m)
      PROVE  \E r \in Run : TaskDoes(m, r)
  <2>1. l \in Run /\ l.status # "none" /\ k.status # "none"
    BY <1>0, <1>q DEF StepTo, RunIs, NoRun
  <2>2. Later(k, l)
    BY <1>q, <2>1 DEF Later, StepTo, Ended
  <2>3. RunIs(l, message'[m].parts)
    BY <1>0, <1>q, <2>1 DEF RunIs, StepTo
  <2>4. TaskDoes(m, l)
    BY <1>q, <2>1, <2>2, <2>3 DEF TaskDoes, StepTo
  <2> QED BY <2>1, <2>4
\* the calls that settle the thread
<1>c. ASSUME NEW ok, NEW denied, NEW bad,
             \/ Ended(k) /\ TaskCall(m, FinishFromAgent(m), ok, denied, bad)
             \/ k.broke /\ TaskCall(m, IssueFromAgent(m), ok, denied, bad)
      PROVE  /\ Around(m) /\ message'[m].parts = message[m].parts
             /\ \E l \in {ok, denied, bad} : run' = [run EXCEPT ![m] = l]
  <2>1. faults' \in 0 .. MaxFaults
    BY <1>0, <1>c, InjectType DEF TaskCall
  <2>2. \/ UNCHANGED message
        \/ message' = [message EXCEPT ![m].token = None]
    BY <1>c DEF TaskCall, FinishFromAgent, IssueFromAgent
  <2>3. ThreadDoes
    BY <1>c DEF TaskCall, FinishFromAgent, IssueFromAgent, ThreadDoes
  <2>4. /\ grant' = grant /\ UNCHANGED <<post, reader>>
        /\ \E l \in {ok, denied, bad} : run' = [run EXCEPT ![m] = l]
    BY <1>c DEF TaskCall
  <2>5. /\ message' \in [Turns -> Message] /\ message'[m].parts = message[m].parts
        /\ \A n \in Turns \ {m} : message'[n] = message[n]
    BY <1>0, <2>2, TaskMessages
  <2> QED BY <2>1, <2>3, <2>4, <2>5 DEF Around
\* the steps that leave thread and messages alone
<1>a. ASSUME thread' = thread, message' = message, UNCHANGED <<post, reader>>,
             \/ grant' = grant
             \/ k.pc = "boot" /\ grant' = [grant EXCEPT ![k.token] = "gone"],
             faults' = faults \/ \E kind \in FaultKinds : Inject(kind)
      PROVE  Around(m) /\ message'[m].parts = message[m].parts
  <2>1. faults' \in 0 .. MaxFaults
    BY <1>0, <1>a, InjectType
  <2> QED BY <1>0, <1>a, <2>1 DEF Around, ThreadDoes
<1>m. \A pc \in TaskPC :
        /\ Moved(k, Task(m, pc), pc, k.broke, k.finish)
        /\ Moved(k, Broken(m, pc), pc, TRUE, k.finish)
        /\ \A b \in BOOLEAN : Moved(k, [Task(m, pc) EXCEPT !.finish = b], pc, k.broke, b)
        /\ \A b \in BOOLEAN :
             Moved(k, [Task(m, pc) EXCEPT !.reported = b], pc, k.broke, k.finish)
  BY <1>0, TaskMoves
<1>b. /\ k.broke \in BOOLEAN /\ k.finish \in BOOLEAN
      /\ k.pc = "mark" => k.finish
      /\ k.pc \in {"report", "close", "hook"} => k.broke
      /\ k.pc = "remark" => k.finish \/ k.broke
      /\ k.pc \in {"cancel", "cancelMark"} => k.aborted
      /\ k.finish \/ k.pc \in {"finish", "mark"} =>
           k.broke \/ k.aborted \/ message[m].parts = "full"
      /\ k.pc \in {"mark", "remark", "cancelMark"} => Ended(k)
  BY <1>0 DEF Run, RunIs, Ended
<1>i. "error" \in FaultKinds
  BY DEF FaultKinds
<1>1. CASE RedeemGrant(m)
  <2>1. /\ thread' = thread /\ message' = message /\ UNCHANGED <<post, reader>>
        /\ k.pc = "boot" /\ grant' = [grant EXCEPT ![k.token] = "gone"]
        /\ faults' = faults \/ Inject("error")
    BY <1>1 DEF RedeemGrant, TaskAt
  <2>2. PICK l \in {Task(m, "stream"), Broken(m, "report"), Broken(m, "hook")} :
          run' = [run EXCEPT ![m] = l]
    BY <1>1 DEF RedeemGrant
  <2>3. Around(m) /\ message'[m].parts = message[m].parts
    BY <1>a, <1>i, <2>1
  <2>4. \/ Moved(k, l, "stream", k.broke, k.finish)
        \/ Moved(k, l, "report", TRUE, k.finish) \/ Moved(k, l, "hook", TRUE, k.finish)
    BY <1>t, <1>m, <2>2
  <2>5. StepTo(k, l, message'[m].parts)
    BY <1>b, <2>1, <2>3, <2>4 DEF Moved, StepTo
  <2> QED BY <1>q, <2>2, <2>3, <2>5
<1>2. CASE Stream(m)
  <2>1. /\ thread' = thread /\ message' = message /\ grant' = grant
        /\ UNCHANGED <<post, reader>> /\ k.pc = "stream"
        /\ faults' = faults \/ Inject("error")
    BY <1>2 DEF Stream, TaskAt
  <2>2. PICK l \in {Task(m, "persist"), Broken(m, "report")} : run' = [run EXCEPT ![m] = l]
    BY <1>2 DEF Stream
  <2>3. Around(m) /\ message'[m].parts = message[m].parts
    BY <1>a, <1>i, <2>1
  <2>4. \/ Moved(k, l, "persist", k.broke, k.finish)
        \/ Moved(k, l, "report", TRUE, k.finish)
    BY <1>t, <1>m, <2>2
  <2>5. StepTo(k, l, message'[m].parts)
    BY <1>b, <2>1, <2>3, <2>4 DEF Moved, StepTo
  <2> QED BY <1>q, <2>2, <2>3, <2>5
<1>3. CASE PersistReply(m)
  <2>1. /\ thread' = thread /\ grant' = grant /\ UNCHANGED <<post, reader>>
        /\ k.pc = "persist"
    BY <1>3 DEF PersistReply, TaskCall, PatchFromAgent, TaskAt
  <2>2. PICK l \in {Task(m, "finish"), Broken(m, "report")} :
          /\ run' = [run EXCEPT ![m] = l]
          /\ \/ message' = [message EXCEPT ![m].parts = "full"]
             \/ message' = message /\ l = Broken(m, "report")
    BY <1>3 DEF PersistReply, TaskCall, PatchFromAgent
  <2>3. /\ message' \in [Turns -> Message]
        /\ \A n \in Turns \ {m} : message'[n] = message[n]
        /\ message'[m].parts = "full" \/ l = Broken(m, "report")
    BY <1>0, <2>2, TaskMessages
  <2>4. faults' \in 0 .. MaxFaults
    BY <1>0, <1>3, InjectType DEF PersistReply, TaskCall
  <2>5. Around(m)
    BY <2>1, <2>3, <2>4 DEF Around, ThreadDoes
  <2>6. \/ Moved(k, l, "finish", k.broke, k.finish) /\ message'[m].parts = "full"
        \/ Moved(k, l, "report", TRUE, k.finish)
    BY <1>t, <1>m, <2>2, <2>3
  <2>7. StepTo(k, l, message'[m].parts)
    BY <1>b, <2>1, <2>6 DEF Moved, StepTo
  <2> QED BY <1>q, <2>2, <2>5, <2>7
<1>4. CASE StreamFinish(m)
  <2> DEFINE l == [Task(m, "mark") EXCEPT !.finish = TRUE]
  <2>1. /\ thread' = thread /\ message' = message /\ grant' = grant /\ faults' = faults
        /\ UNCHANGED <<post, reader>> /\ k.pc = "finish"
        /\ run' = [run EXCEPT ![m] = l]
    BY <1>4 DEF StreamFinish, TaskAt
  <2>2. Moved(k, l, "mark", k.broke, TRUE)
    BY <1>t, <1>m
  <2> HIDE DEF l
  <2>3. Around(m) /\ message'[m].parts = message[m].parts
    BY <1>a, <2>1
  <2>4. StepTo(k, l, message'[m].parts)
    BY <1>b, <2>1, <2>2, <2>3 DEF Moved, StepTo
  <2> QED BY <1>q, <2>1, <2>3, <2>4
<1>5. CASE MarkFinished(m)
  <2>1. /\ k.pc = "mark" /\ Ended(k)
        /\ TaskCall(m, FinishFromAgent(m), Task(m, "done"), Task(m, "remark"),
                    Broken(m, "report"))
    BY <1>5, <1>b DEF MarkFinished, TaskAt
  <2>2. PICK l \in {Task(m, "done"), Task(m, "remark"), Broken(m, "report")} :
          run' = [run EXCEPT ![m] = l]
    BY <1>c, <2>1
  <2>3. Around(m) /\ message'[m].parts = message[m].parts
    BY <1>c, <2>1
  <2>4. \/ Moved(k, l, "done", k.broke, k.finish) \/ Moved(k, l, "remark", k.broke, k.finish)
        \/ Moved(k, l, "report", TRUE, k.finish)
    BY <1>t, <1>m, <2>2
  <2>5. StepTo(k, l, message'[m].parts)
    BY <1>b, <2>1, <2>3, <2>4 DEF Moved, StepTo
  <2> QED BY <1>q, <2>2, <2>3, <2>5
<1>6. CASE Report(m)
  <2>1. /\ k.pc = "report" /\ k.broke
        /\ TaskCall(m, IssueFromAgent(m), [Task(m, "close") EXCEPT !.reported = TRUE],
                    Task(m, "close"), Task(m, "close"))
    BY <1>6, <1>b DEF Report, TaskAt
  <2>2. PICK l \in {[Task(m, "close") EXCEPT !.reported = TRUE], Task(m, "close")} :
          run' = [run EXCEPT ![m] = l]
    BY <1>c, <2>1
  <2>3. Around(m) /\ message'[m].parts = message[m].parts
    BY <1>c, <2>1
  <2>4. Moved(k, l, "close", k.broke, k.finish)
    BY <1>t, <1>m, <2>2
  <2>5. StepTo(k, l, message'[m].parts)
    BY <1>b, <2>1, <2>3, <2>4 DEF Moved, StepTo
  <2> QED BY <1>q, <2>2, <2>3, <2>5
<1>7. CASE CloseStream(m)
  <2> DEFINE pc == IF k.reported THEN "hook" ELSE "remark"
             finish == k.finish \/ ~k.aborted
             l == [Task(m, pc) EXCEPT !.finish = finish]
  <2>1. /\ thread' = thread /\ message' = message /\ grant' = grant /\ faults' = faults
        /\ UNCHANGED <<post, reader>> /\ k.pc = "close"
    BY <1>7 DEF CloseStream, TaskAt
  <2>2. pc \in {"hook", "remark"} /\ finish \in BOOLEAN /\ (k.finish => finish)
    <3>1. finish \in BOOLEAN
      BY Zenon
    <3>2. pc \in {"hook", "remark"}
      OBVIOUS
    <3>3. k.finish => finish
      OBVIOUS
    <3> QED BY <3>1, <3>2, <3>3
  <2> HIDE DEF pc, finish
  <2>3. Task(m, pc).finish = k.finish
    <3>1. Moved(k, Task(m, pc), pc, k.broke, k.finish)
      BY <1>t, <1>m, <2>2
    <3> QED BY <3>1 DEF Moved
  <2>4. run' = [run EXCEPT ![m] = l]
    BY <1>7, <2>3 DEF CloseStream, pc, finish
  <2>5. Moved(k, l, pc, k.broke, finish)
    BY <1>t, <1>m, <2>2
  <2> HIDE DEF l
  <2>6. Around(m) /\ message'[m].parts = message[m].parts
    BY <1>a, <2>1
  <2>7. StepTo(k, l, message'[m].parts)
    BY <1>b, <2>1, <2>2, <2>5, <2>6 DEF Moved, StepTo
  <2> QED BY <1>q, <2>4, <2>6, <2>7
<1>8. CASE MarkFinishedAfterwards(m)
  <2> DEFINE pc == IF k.broke THEN "hook" ELSE "done"
             next == Task(m, pc)
             bad == IF k.aborted THEN next ELSE Broken(m, "hook")
  <2>1. /\ k.pc = "remark" /\ Ended(k)
        /\ TaskCall(m, FinishFromAgent(m), next, next, bad)
    BY <1>8, <1>b DEF MarkFinishedAfterwards, TaskAt
  <2>2. PICK l \in {next, Broken(m, "hook")} : run' = [run EXCEPT ![m] = l]
    BY <1>c, <2>1
  <2>3. Around(m) /\ message'[m].parts = message[m].parts
    BY <1>c, <2>1
  <2>4. pc \in {"hook", "done"} /\ (pc = "hook" => k.broke)
    OBVIOUS
  <2> HIDE DEF pc
  <2>5. Moved(k, l, pc, k.broke, k.finish) \/ Moved(k, l, "hook", TRUE, k.finish)
    BY <1>t, <1>m, <2>2, <2>4
  <2>6. StepTo(k, l, message'[m].parts)
    BY <1>b, <2>1, <2>3, <2>4, <2>5 DEF Moved, StepTo
  <2> QED BY <1>q, <2>2, <2>3, <2>6
\* the steps that end the task
<1>d. ASSUME run' = [run EXCEPT ![m] = Task(m, "done")], Around(m), k.pc # "done",
             message'[m].parts = message[m].parts
      PROVE  \E r \in Run : TaskDoes(m, r)
  <2> DEFINE l == Task(m, "done")
  <2>1. Moved(k, l, "done", k.broke, k.finish)
    BY <1>t, <1>m
  <2> HIDE DEF l
  <2>2. StepTo(k, l, message'[m].parts)
    BY <1>b, <1>d, <2>1 DEF Moved, StepTo
  <2> QED BY <1>d, <1>q, <2>2 DEF l
<1>9. CASE OnFailure(m)
  <2>1. k.pc = "hook" /\ k.broke
    BY <1>9, <1>b DEF OnFailure, TaskAt
  <2>2. CASE k.aborted
    <3>1. /\ thread' = thread /\ message' = message /\ grant' = grant /\ faults' = faults
          /\ UNCHANGED <<post, reader>> /\ run' = [run EXCEPT ![m] = Task(m, "done")]
      BY <1>9, <2>2 DEF OnFailure
    <3> QED BY <1>a, <1>d, <2>1, <3>1
  <2>3. CASE ~k.aborted
    <3>1. TaskCall(m, IssueFromAgent(m), Task(m, "done"), Task(m, "done"), Task(m, "done"))
      BY <1>9, <2>3 DEF OnFailure
    <3> QED BY <1>c, <1>d, <2>1, <3>1
  <2> QED BY <2>2, <2>3
<1>10. CASE Abort(m)
  <2>1. /\ thread' = thread /\ message' = message /\ grant' = grant /\ faults' = faults
        /\ UNCHANGED <<post, reader>> /\ k.aborted /\ k.pc # "done"
        /\ run' = [run EXCEPT ![m] = Task(m, "cancel")]
    BY <1>10 DEF Abort
  <2>2. Moved(k, Task(m, "cancel"), "cancel", k.broke, k.finish)
    BY <1>t, <1>m
  <2>3. Around(m) /\ message'[m].parts = message[m].parts
    BY <1>a, <2>1
  <2>4. StepTo(k, Task(m, "cancel"), message'[m].parts)
    BY <1>b, <2>1, <2>2, <2>3 DEF Moved, StepTo
  <2> QED BY <1>q, <2>1, <2>3, <2>4
<1>11. CASE OnCancel(m)
  <2> DEFINE l == [Task(m, "cancelMark") EXCEPT !.finish = TRUE]
  <2>1. /\ thread' = thread /\ message' = message /\ grant' = grant /\ faults' = faults
        /\ UNCHANGED <<post, reader>> /\ k.pc = "cancel"
        /\ run' = [run EXCEPT ![m] = l]
    BY <1>11 DEF OnCancel, TaskAt
  <2>2. Moved(k, l, "cancelMark", k.broke, TRUE)
    BY <1>t, <1>m
  <2> HIDE DEF l
  <2>3. Around(m) /\ message'[m].parts = message[m].parts
    BY <1>a, <2>1
  <2>4. StepTo(k, l, message'[m].parts)
    BY <1>b, <2>1, <2>2, <2>3 DEF Moved, StepTo
  <2> QED BY <1>q, <2>1, <2>3, <2>4
<1>12. CASE OnCancelMark(m)
  <2>1. /\ k.pc = "cancelMark" /\ Ended(k)
        /\ TaskCall(m, FinishFromAgent(m), Task(m, "done"), Task(m, "done"), Task(m, "done"))
    BY <1>12, <1>b DEF OnCancelMark, TaskAt
  <2> QED BY <1>c, <1>d, <2>1
<1> QED BY <1>1, <1>2, <1>3, <1>4, <1>5, <1>6, <1>7, <1>8, <1>9, <1>10, <1>11, <1>12
  DEF TaskStep

\* What Trigger.dev does to a run, and the death of a worker.
LEMMA RunSteps ==
  ASSUME AgentRunAssumption, AgentInv, NEW m \in Turns,
         WorkerDies(m) \/ RunEnds(m) \/ BecomeVisible(m)
  PROVE  \E l \in Run : TaskDoes(m, l)
<1> DEFINE k == run[m]
<1>0. /\ run \in [Turns -> Run] /\ grant \in [Posts -> Grants]
      /\ message \in [Turns -> Message] /\ faults \in 0 .. MaxFaults
      /\ k \in Run /\ RunIs(k, message[m].parts)
  BY TypeParts DEF AgentInv, RunOK
<1>1. /\ thread' = thread /\ message' = message /\ grant' = grant
      /\ UNCHANGED <<post, reader>>
  BY DEF WorkerDies, RunEnds, BecomeVisible
<1>2. faults' \in 0 .. MaxFaults
  BY <1>0, InjectType DEF WorkerDies, RunEnds, BecomeVisible
<1>3. Around(m) /\ message'[m].parts = message[m].parts
  BY <1>0, <1>1, <1>2 DEF Around, ThreadDoes
<1>4. CASE WorkerDies(m)
  <2> DEFINE broke == k.broke \/ ~k.aborted
             l == [Task(m, "done") EXCEPT !.broke = broke]
  <2>1. "done" \in TaskPC /\ k.pc # "done" /\ k.status # "none"
    BY <1>4 DEF WorkerDies, Active, TaskAt, TaskPC
  <2>2. Moved(k, Task(m, "done"), "done", k.broke, k.finish)
    BY <1>0, <2>1, TaskMoves
  <2>3. broke \in BOOLEAN
    BY Zenon
  <2>4. run' = [run EXCEPT ![m] = l]
    <3>1. Task(m, "done").broke = k.broke
      BY <2>2 DEF Moved
    <3> QED BY <1>4, <3>1 DEF WorkerDies
  <2>5. k.broke => broke
    OBVIOUS
  <2> HIDE DEF broke
  <2>6. /\ l \in Run /\ l.pc = "done" /\ l.status = k.status /\ l.token = k.token
        /\ l.visible = k.visible /\ l.aborted = k.aborted /\ l.finish = k.finish
        /\ l.broke = broke
    BY <2>2, <2>3 DEF Moved, Run
  <2> HIDE DEF l
  <2>7. StepTo(k, l, message'[m].parts)
    BY <1>0, <1>3, <2>1, <2>5, <2>6 DEF StepTo, RunIs
  <2>8. Later(k, l)
    BY <2>1, <2>7 DEF Later, StepTo, Ended
  <2>9. RunIs(l, message'[m].parts)
    BY <1>0, <2>1, <2>7 DEF RunIs, StepTo
  <2> QED BY <1>3, <2>1, <2>4, <2>6, <2>8, <2>9 DEF TaskDoes
<1>5. CASE RunEnds(m)
  <2> DEFINE status == IF k.broke THEN "failed" ELSE "completed"
             l == [k EXCEPT !.status = status]
  <2>1. /\ run' = [run EXCEPT ![m] = l] /\ k.status = "executing"
        /\ k.pc \in {"hook", "done"}
    BY <1>0, <1>5 DEF RunEnds
  <2>2. status \in {"failed", "completed"} /\ (status = "failed" => k.broke)
    OBVIOUS
  <2> HIDE DEF status
  <2>3. /\ l \in Run /\ l.pc = k.pc /\ l.status = status /\ l.token = k.token
        /\ l.visible = k.visible /\ l.aborted = k.aborted /\ l.finish = k.finish
        /\ l.broke = k.broke
    BY <1>0, <2>2 DEF Run
  <2> HIDE DEF l
  <2>4. Later(k, l) /\ RunIs(l, message'[m].parts)
    BY <1>0, <1>3, <2>1, <2>2, <2>3 DEF Later, RunIs, Ended
  <2> QED BY <1>3, <2>1, <2>2, <2>3, <2>4 DEF TaskDoes
<1>6. CASE BecomeVisible(m)
  <2> DEFINE l == [k EXCEPT !.visible = TRUE]
  <2>1. run' = [run EXCEPT ![m] = l] /\ k.status # "none"
    BY <1>0, <1>6 DEF BecomeVisible
  <2>2. /\ l \in Run /\ l.pc = k.pc /\ l.status = k.status /\ l.token = k.token
        /\ l.visible /\ l.aborted = k.aborted /\ l.finish = k.finish
        /\ l.broke = k.broke
    BY <1>0 DEF Run
  <2> HIDE DEF l
  <2>3. Later(k, l) /\ RunIs(l, message'[m].parts)
    BY <1>0, <1>3, <2>1, <2>2 DEF Later, RunIs, Ended
  <2> QED BY <1>1, <1>3, <2>1, <2>2, <2>3 DEF TaskDoes
<1> QED BY <1>4, <1>5, <1>6

-----------------------------------------------------------------------------
(* The requests. *)

\* A verdict on a run that ended, as far as Trigger.dev tells, is right.
LEMMA VerdictIs ==
  ASSUME AgentInv, NEW m \in Turns, run[m].status # "none"
  PROVE  /\ VerdictOf(m) \in Verdict
         /\ Terminal(m) \/ ~Found(m) => Seen(m, VerdictOf(m))
         /\ run[m].finish => Seen(m, "finished")
         /\ ~Found(m) => Seen(m, "finished")
<1>1. RunIs(run[m], message[m].parts)
  BY DEF AgentInv, RunOK
<1> QED BY <1>1 DEF VerdictOf, Terminal, Found, Seen, Ended, RunIs, Verdict

LEMMA ReconcileDoes ==
  ASSUME NEW m \in Turns, NEW verdict, Seen(m, verdict), Reconcile(m, verdict)
  PROVE  ThreadDoes
BY DEF Reconcile, Seen, ThreadDoes

\* A step of a POST that makes no run.
LEMMA PostKept ==
  ASSUME AgentRunAssumption, AgentInv, NEW p \in Posts, NEW l \in Post,
         post' = [post EXCEPT ![p] = l], PostIs(l), UNCHANGED <<run, reader>>,
         message' \in [Turns -> Message], grant' \in [Posts -> Grants],
         \A m \in Turns : message'[m] = message[m] \/ message[m].parts = "absent",
         ThreadDoes, faults' \in 0 .. MaxFaults
  PROVE  AgentInv'
<1>0. /\ thread \in Threads /\ run \in [Turns -> Run] /\ post \in [Posts -> Post]
      /\ reader \in [Readers -> Reader] /\ \A m \in Turns : RunOK(m)
  BY TypeParts DEF AgentInv
<1>1. thread' \in Threads
  BY <1>0, ThreadTypes
<1>2. TypeOK'
  <2>1. (TypeOK <=> /\ thread \in Threads /\ message \in [Turns -> Message]
                    /\ run \in [Turns -> Run] /\ grant \in [Posts -> Grants]
                    /\ post \in [Posts -> Post] /\ reader \in [Readers -> Reader]
                    /\ faults \in 0 .. MaxFaults)'
    BY TypeParts, PTL
  <2> QED BY <1>0, <1>1, <2>1
<1>3. RunsGrow
  BY DEF RunsGrow, Later
<1>4. \A m \in Turns : RunOK(m)'
  BY <1>0 DEF RunOK, RunIs
<1>5. PostIs(l)'
  BY DEF PostIs, Seen
<1>6. \A q \in Posts : post'[q] = post[q] \/ PostIs(post[q])'
  BY <1>0, <1>5
<1> QED BY <1>2, <1>3, <1>4, <1>6, InvKept

\* A step of a request that reads or stops a run, except the cancel itself.
LEMMA ReaderKept ==
  ASSUME AgentRunAssumption, AgentInv, NEW r \in Readers, NEW l \in Reader,
         reader' = [reader EXCEPT ![r] = l], ReaderIs(l), UNCHANGED <<run, post, grant>>,
         message' \in [Turns -> Message],
         \A m \in Turns : message'[m] = message[m] \/ run[m].aborted,
         ThreadDoes, faults' \in 0 .. MaxFaults
  PROVE  AgentInv'
<1>0. /\ thread \in Threads /\ run \in [Turns -> Run] /\ post \in [Posts -> Post]
      /\ grant \in [Posts -> Grants]
      /\ reader \in [Readers -> Reader] /\ \A m \in Turns : RunOK(m)
  BY TypeParts DEF AgentInv
<1>1. thread' \in Threads
  BY <1>0, ThreadTypes
<1>2. TypeOK'
  <2>1. (TypeOK <=> /\ thread \in Threads /\ message \in [Turns -> Message]
                    /\ run \in [Turns -> Run] /\ grant \in [Posts -> Grants]
                    /\ post \in [Posts -> Post] /\ reader \in [Readers -> Reader]
                    /\ faults \in 0 .. MaxFaults)'
    BY TypeParts, PTL
  <2> QED BY <1>0, <1>1, <2>1
<1>3. RunsGrow
  BY DEF RunsGrow, Later
<1>4. \A m \in Turns : RunOK(m)'
  BY <1>0 DEF RunOK, RunIs
<1>5. ReaderIs(l)'
  BY DEF ReaderIs, Seen, Terminal
<1>6. \A q \in Readers : reader'[q] = reader[q] \/ ReaderIs(reader[q])'
  BY <1>0, <1>5
<1> QED BY <1>2, <1>3, <1>4, <1>6, InvKept

LEMMA PostSteps ==
  ASSUME AgentRunAssumption, AgentInv, NEW p \in Posts,
         \/ \E m \in Turns : Submit(p, m)
         \/ PostStep(p) \/ PostDies(p)
  PROVE  AgentInv'
<1>0. /\ thread \in Threads /\ message \in [Turns -> Message] /\ run \in [Turns -> Run]
      /\ grant \in [Posts -> Grants] /\ post \in [Posts -> Post]
      /\ reader \in [Readers -> Reader] /\ faults \in 0 .. MaxFaults
      /\ \A m \in Turns : RunOK(m)
      /\ post[p] \in Post /\ PostIs(post[p]) /\ ThreadInv
      /\ post[p].pc # "new" => post[p].turn \in Turns
  BY TypeParts DEF AgentInv, PostIs
\* a step to a place where nothing is known of a run
<1>g. ASSUME NEW pc \in {"turn", "release", "trigger", "end"}, PostGoto(p, pc),
             post[p].pc # "new", UNCHANGED <<run, reader>>,
             message' \in [Turns -> Message], grant' \in [Posts -> Grants],
             \A m \in Turns : message'[m] = message[m] \/ message[m].parts = "absent",
             ThreadDoes, faults' \in 0 .. MaxFaults
      PROVE  AgentInv'
  <2> DEFINE l == [post[p] EXCEPT !.pc = pc]
  <2>1. l \in Post /\ l.pc = pc /\ l.turn = post[p].turn /\ post' = [post EXCEPT ![p] = l]
    BY <1>0, <1>g DEF PostGoto, Post
  <2> HIDE DEF l
  <2>2. PostIs(l)
    BY <1>0, <1>g, <2>1 DEF PostIs
  <2> QED BY <1>g, <2>1, <2>2, PostKept
<1>1. ASSUME NEW m \in Turns, Submit(p, m) PROVE AgentInv'
  <2> DEFINE pc == IF thread.current = None THEN "turn" ELSE "lookup"
             s == [post[p] EXCEPT !.pc = pc, !.turn = m, !.seen = thread.current]
  <2>1. pc \in {"turn", "lookup"} /\ (pc = "lookup" => thread.current # None)
    OBVIOUS
  <2>2. /\ post' = [post EXCEPT ![p] = s] /\ UNCHANGED <<run, reader>>
        /\ UNCHANGED <<thread, message, grant, faults>>
    BY <1>0, <1>1 DEF Submit
  <2> HIDE DEF pc
  <2>3. s \in Post /\ s.pc = pc /\ s.turn = m /\ s.seen = thread.current
    BY <1>0, <2>1 DEF Post, Threads
  <2> HIDE DEF s
  <2>4. PostIs(s)
    BY <1>0, <2>1, <2>3 DEF PostIs, ThreadInv, Threads
  <2> QED BY <1>0, <2>2, <2>3, <2>4, PostKept DEF ThreadDoes
<1>2. CASE Lookup(p)
  <2> DEFINE looked == post[p].seen
             s == [post[p] EXCEPT !.pc = "reconcile", !.verdict = VerdictOf(looked)]
  <2>1. /\ post[p].pc = "lookup" /\ UNCHANGED <<thread, message, run, grant, reader, faults>>
    BY <1>2 DEF Lookup, PostAt
  <2>2. looked \in Turns /\ run[looked].status # "none"
    BY <1>0, <2>1 DEF PostIs
  <2>3. CASE Found(looked) /\ ~Terminal(looked)
    <3>1. PostGoto(p, "end")
      BY <1>2, <2>3 DEF Lookup
    <3> QED BY <1>0, <1>g, <2>1, <3>1 DEF ThreadDoes
  <2>4. CASE ~(Found(looked) /\ ~Terminal(looked))
    <3>1. post' = [post EXCEPT ![p] = s]
      BY <1>0, <1>2, <2>4 DEF Lookup
    <3>2. VerdictOf(looked) \in Verdict /\ Seen(looked, VerdictOf(looked))
      <4>1. /\ VerdictOf(looked) \in Verdict
            /\ Terminal(looked) \/ ~Found(looked) => Seen(looked, VerdictOf(looked))
        BY <2>2, VerdictIs
      <4> QED BY <2>4, <4>1
    <3>3. /\ s \in Post /\ s.pc = "reconcile" /\ s.turn = post[p].turn /\ s.seen = looked
          /\ s.verdict = VerdictOf(looked)
      BY <1>0, <3>2 DEF Post
    <3> HIDE DEF s, looked
    <3>4. PostIs(s)
      BY <1>0, <2>1, <2>2, <3>2, <3>3 DEF PostIs
    <3> QED BY <1>0, <2>1, <3>1, <3>3, <3>4, PostKept DEF ThreadDoes
  <2> QED BY <2>3, <2>4
<1>3. CASE ReconcileSeen(p)
  <2>1. post[p].pc = "reconcile" /\ UNCHANGED <<message, run, grant, reader>>
    BY <1>3 DEF ReconcileSeen, PostAt
  <2>2. PICK pc \in {"turn", "end"} : PostGoto(p, pc)
    BY <1>3 DEF ReconcileSeen
  <2>3. faults' \in 0 .. MaxFaults
    BY <1>0, <1>3, InjectType DEF ReconcileSeen
  <2>4. Reconcile(post[p].seen, post[p].verdict) \/ UNCHANGED thread
    BY <1>3 DEF ReconcileSeen
  <2>5. ThreadDoes
    <3>1. post[p].seen \in Turns /\ Seen(post[p].seen, post[p].verdict)
      BY <1>0, <2>1 DEF PostIs
    <3> QED BY <2>4, <3>1, ReconcileDoes DEF ThreadDoes
  <2> QED BY <1>0, <1>g, <2>1, <2>2, <2>3, <2>5
<1>4. CASE CreateTurn(p)
  <2> DEFINE m == post[p].turn
             t == [token |-> p, parts |-> "empty"]
  <2>1. /\ post[p].pc = "turn" /\ UNCHANGED <<thread, run, reader>>
        /\ grant' = [grant EXCEPT ![p] = "live"]
    BY <1>4 DEF CreateTurn, PostAt
  <2>2. PICK pc \in {"trigger", "release"} : PostGoto(p, pc)
    BY <1>4 DEF CreateTurn
  <2>3. faults' \in 0 .. MaxFaults
    BY <1>0, <1>4, InjectType DEF CreateTurn
  <2>4. \/ message' = message
        \/ message[m].parts = "absent" /\ message' = [message EXCEPT ![m] = t]
    BY <1>4 DEF CreateTurn
  <2>5. t \in Message /\ grant' \in [Posts -> Grants]
    BY <1>0, <2>1 DEF Message, Grants
  <2> HIDE DEF t, m
  <2>6. /\ message' \in [Turns -> Message]
        /\ \A n \in Turns : message'[n] = message[n] \/ message[n].parts = "absent"
    BY <1>0, <2>4, <2>5
  <2> QED BY <1>0, <1>g, <2>1, <2>2, <2>3, <2>5, <2>6 DEF ThreadDoes
<1>5. CASE TriggerRun(p)
  <2> DEFINE m == post[p].turn
             k == [NoRun EXCEPT !.status = "executing", !.pc = "boot", !.token = p,
                                !.visible = ~VisibilityLag]
  <2>1. post[p].pc = "trigger" /\ UNCHANGED <<thread, message, grant, reader>> /\ m \in Turns
    BY <1>0, <1>5 DEF TriggerRun, PostAt
  <2>2. faults' \in 0 .. MaxFaults
    BY <1>0, <1>5, InjectType DEF TriggerRun
  <2>3. PICK pc \in {"mark", "release"} :
          PostGoto(p, pc) /\ (Created(p) \/ (pc = "release" /\ UNCHANGED run))
    <3>1. \/ Created(p) /\ PostGoto(p, "mark")
          \/ Created(p) /\ PostGoto(p, "release")
          \/ UNCHANGED run /\ PostGoto(p, "release")
      BY <1>5 DEF TriggerRun
    <3> QED BY <3>1
  <2>4. /\ k \in Run /\ k.status = "executing" /\ k.pc = "boot" /\ k.token = p
        /\ k.visible = ~VisibilityLag /\ k.finish = FALSE
    BY DEF NoRun, Run, TaskPC
  <2>5. Created(p) => IF run[m].status = "none" THEN run' = [run EXCEPT ![m] = k]
                                                ELSE run' = run
    BY DEF Created
  <2> HIDE DEF k
  <2>6. /\ run' \in [Turns -> Run] /\ RunsGrow /\ \A n \in Turns : RunOK(n)'
        /\ Created(p) => run'[m].status # "none"
    <3>1. CASE run' = run
      <4>1. Created(p) => run'[m].status # "none"
        BY <1>0, <2>1, <2>4, <2>5, <3>1
      <4> QED BY <1>0, <2>1, <3>1, <4>1 DEF RunsGrow, Later, RunOK
    <3>2. CASE run[m].status = "none" /\ run' = [run EXCEPT ![m] = k]
      <4>1. run'[m] = k /\ \A n \in Turns \ {m} : run'[n] = run[n]
        BY <1>0, <2>1, <3>2
      <4>2. run' \in [Turns -> Run]
        BY <1>0, <2>1, <2>4, <3>2
      <4>3. RunsGrow
        BY <2>1, <3>2, <4>1 DEF RunsGrow, Later
      <4>4. \A n \in Turns : RunOK(n)'
        BY <1>0, <2>1, <2>4, <4>1 DEF RunOK, RunIs
      <4> QED BY <2>4, <4>1, <4>2, <4>3, <4>4
    <3> QED BY <2>3, <2>5, <3>1, <3>2
  <2> DEFINE l == [post[p] EXCEPT !.pc = pc]
  <2>7. l \in Post /\ l.pc = pc /\ l.turn = m /\ post' = [post EXCEPT ![p] = l]
    BY <1>0, <2>3 DEF PostGoto, Post
  <2> HIDE DEF l
  <2>8. /\ post' \in [Posts -> Post] /\ post'[p] = l
        /\ \A q \in Posts \ {p} : post'[q] = post[q]
    BY <1>0, <2>7
  <2>9. PostIs(post[p])'
    BY <2>1, <2>3, <2>6, <2>7, <2>8 DEF PostIs
  <2>10. TypeOK'
    <3>1. (TypeOK <=> /\ thread \in Threads /\ message \in [Turns -> Message]
                      /\ run \in [Turns -> Run] /\ grant \in [Posts -> Grants]
                      /\ post \in [Posts -> Post] /\ reader \in [Readers -> Reader]
                      /\ faults \in 0 .. MaxFaults)'
      BY TypeParts, PTL
    <3> QED BY <1>0, <2>1, <2>2, <2>6, <2>8, <3>1
  <2> QED BY <2>1, <2>6, <2>8, <2>9, <2>10, InvKept DEF ThreadDoes
<1>6. CASE MarkStarted(p)
  <2>1. post[p].pc = "mark" /\ UNCHANGED <<message, run, grant, reader>> /\ PostGoto(p, "end")
    BY <1>6 DEF MarkStarted, PostAt
  <2>2. faults' \in 0 .. MaxFaults
    BY <1>0, <1>6, InjectType DEF MarkStarted
  <2>3. post[p].turn \in Turns /\ run[post[p].turn].status # "none"
    BY <1>0, <2>1 DEF PostIs
  <2>4. ThreadDoes
    BY <1>6, <2>3 DEF MarkStarted, ThreadDoes
  <2> QED BY <1>0, <1>g, <2>1, <2>2, <2>4
<1>7. CASE ReleaseGrant(p)
  <2>1. /\ post[p].pc = "release" /\ PostGoto(p, "end")
        /\ UNCHANGED <<thread, message, run, reader, faults>>
        /\ grant' = [grant EXCEPT ![p] = "gone"]
    BY <1>7 DEF ReleaseGrant, PostAt
  <2>2. grant' \in [Posts -> Grants]
    BY <1>0, <2>1 DEF Grants
  <2> QED BY <1>0, <1>g, <2>1, <2>2 DEF ThreadDoes
<1>8. CASE PostDies(p)
  <2>1. /\ post[p].pc # "new" /\ PostGoto(p, "end")
        /\ UNCHANGED <<thread, message, run, grant, reader>>
    BY <1>8 DEF PostDies
  <2>2. faults' \in 0 .. MaxFaults
    BY <1>0, <1>8, InjectType DEF PostDies
  <2> QED BY <1>0, <1>g, <2>1, <2>2 DEF ThreadDoes
<1> QED BY <1>1, <1>2, <1>3, <1>4, <1>5, <1>6, <1>7, <1>8 DEF PostStep

LEMMA ReaderSteps ==
  ASSUME AgentRunAssumption, AgentInv, NEW r \in Readers,
         OpenStream(r) \/ RequestStop(r) \/ ReaderStep(r) \/ ReaderDies(r)
  PROVE  AgentInv'
<1> DEFINE m == reader[r].turn
<1>0. /\ thread \in Threads /\ message \in [Turns -> Message] /\ run \in [Turns -> Run]
      /\ grant \in [Posts -> Grants] /\ post \in [Posts -> Post]
      /\ reader \in [Readers -> Reader] /\ faults \in 0 .. MaxFaults
      /\ \A n \in Turns : RunOK(n)
      /\ reader[r] \in Reader /\ ReaderIs(reader[r]) /\ ThreadInv
      /\ reader[r].pc # "idle" => m \in Turns /\ run[m].status # "none"
  BY TypeParts DEF AgentInv, ReaderIs
<1>i. IdleReader \in Reader /\ IdleReader.pc = "idle" /\ ReaderIs(IdleReader)
  BY DEF IdleReader, Reader, Verdict, ReaderIs
\* a step that keeps the thread and the messages
<1>g. ASSUME NEW l \in Reader, reader' = [reader EXCEPT ![r] = l], ReaderIs(l),
             UNCHANGED <<thread, message, run, grant, post, faults>>
      PROVE  AgentInv'
  BY <1>0, <1>g, ReaderKept DEF ThreadDoes
<1>w. ASSUME NEW verdict \in Verdict, ReconcileWith(r, verdict), Seen(m, verdict),
             reader[r].pc # "idle"
      PROVE  \E l \in Reader : reader' = [reader EXCEPT ![r] = l] /\ ReaderIs(l)
  <2> DEFINE l == [reader[r] EXCEPT !.pc = "reconcile", !.verdict = verdict]
  <2>1. /\ l \in Reader /\ l.pc = "reconcile" /\ l.turn = m /\ l.verdict = verdict
        /\ reader' = [reader EXCEPT ![r] = l]
    BY <1>0, <1>w DEF ReconcileWith, Reader
  <2> HIDE DEF l
  <2>2. ReaderIs(l)
    BY <1>0, <1>w, <2>1 DEF ReaderIs
  <2> QED BY <2>1, <2>2
<1>1. CASE OpenStream(r) \/ RequestStop(r)
  <2>1. PICK pc \in {"open", "look"} :
          reader' = [reader EXCEPT ![r] = [pc |-> pc, turn |-> thread.current,
                                           seen |-> None, verdict |-> "finished"]]
    BY <1>1 DEF OpenStream, RequestStop
  <2> DEFINE l == [pc |-> pc, turn |-> thread.current, seen |-> None, verdict |-> "finished"]
  <2>2. /\ thread.current # None /\ UNCHANGED <<thread, message, run, grant, post, faults>>
        /\ reader' = [reader EXCEPT ![r] = l]
    BY <1>1, <2>1 DEF OpenStream, RequestStop
  <2>3. thread.current \in Turns /\ run[thread.current].status # "none"
    BY <1>0, <2>2 DEF ThreadInv, Threads
  <2>4. l \in Reader /\ l.pc \in {"open", "look"} /\ l.turn = thread.current
    BY <2>3 DEF Reader, Verdict
  <2> HIDE DEF l
  <2>5. ReaderIs(l)
    BY <2>3, <2>4 DEF ReaderIs
  <2> QED BY <1>g, <2>2, <2>4, <2>5
<1>2. CASE LoadThread(r)
  <2> DEFINE l == [reader[r] EXCEPT !.pc = "read", !.seen = thread.current]
  <2>1. /\ reader[r].pc = "open" /\ UNCHANGED <<thread, message, run, grant, post, faults>>
        /\ reader' = [reader EXCEPT ![r] = l]
    BY <1>0, <1>2 DEF LoadThread, ReaderAt
  <2>2. l \in Reader /\ l.pc = "read" /\ l.turn = m
    BY <1>0 DEF Reader, Threads
  <2> HIDE DEF l
  <2>3. ReaderIs(l)
    BY <1>0, <2>1, <2>2 DEF ReaderIs
  <2> QED BY <1>g, <2>1, <2>2, <2>3
\* a step to a place where nothing is known of the run but that it was made
<1>o. ASSUME NEW pc \in {"idle", "cancel"}, ReaderGoto(r, pc), reader[r].pc # "idle"
      PROVE  \E l \in Reader : reader' = [reader EXCEPT ![r] = l] /\ ReaderIs(l)
  <2> DEFINE l == [reader[r] EXCEPT !.pc = pc]
  <2>1. l \in Reader /\ l.pc = pc /\ l.turn = m /\ reader' = [reader EXCEPT ![r] = l]
    BY <1>0, <1>o DEF ReaderGoto, Reader
  <2> HIDE DEF l
  <2>2. ReaderIs(l)
    BY <1>0, <1>o, <2>1 DEF ReaderIs
  <2> QED BY <2>1, <2>2
<1>3. CASE ReadStream(r)
  <2>1. reader[r].pc = "read" /\ UNCHANGED <<thread, message, run, grant, post, faults>>
    BY <1>3 DEF ReadStream, ReaderAt
  <2>2. /\ VerdictOf(m) \in Verdict /\ "finished" \in Verdict
        /\ Terminal(m) \/ ~Found(m) => Seen(m, VerdictOf(m))
        /\ run[m].finish => Seen(m, "finished")
        /\ ~Found(m) => Seen(m, "finished")
    BY <1>0, <2>1, VerdictIs DEF Verdict
  <2>3. \/ ReaderGoto(r, "idle")
        \/ ReconcileWith(r, "finished") /\ Seen(m, "finished")
        \/ ReconcileWith(r, VerdictOf(m)) /\ Seen(m, VerdictOf(m))
    BY <1>3, <2>2 DEF ReadStream
  <2>4. PICK l \in Reader : reader' = [reader EXCEPT ![r] = l] /\ ReaderIs(l)
    BY <1>o, <1>w, <2>1, <2>2, <2>3
  <2> QED BY <1>g, <2>1, <2>4
<1>4. CASE LookBeforeCancel(r)
  <2>1. reader[r].pc = "look" /\ UNCHANGED <<thread, message, run, grant, post, faults>>
    BY <1>4 DEF LookBeforeCancel, ReaderAt
  <2>2. /\ VerdictOf(m) \in Verdict
        /\ Terminal(m) \/ ~Found(m) => Seen(m, VerdictOf(m))
    BY <1>0, <2>1, VerdictIs
  <2>3. \/ ReaderGoto(r, "cancel")
        \/ ReconcileWith(r, VerdictOf(m)) /\ Seen(m, VerdictOf(m))
    BY <1>4, <2>2 DEF LookBeforeCancel
  <2>4. PICK l \in Reader : reader' = [reader EXCEPT ![r] = l] /\ ReaderIs(l)
    BY <1>o, <1>w, <2>1, <2>2, <2>3
  <2> QED BY <1>g, <2>1, <2>4
<1>5. CASE CancelRun(r)
  <2> DEFINE k == [run[m] EXCEPT !.status = "cancelled", !.aborted = TRUE]
             l == [reader[r] EXCEPT !.pc = "patch"]
  <2>1. /\ reader[r].pc = "cancel" /\ UNCHANGED <<thread, message, grant, post, faults>>
        /\ m \in Turns /\ run[m].status # "none" /\ run[m] \in Run
    BY <1>0, <1>5 DEF CancelRun, ReaderAt
  <2>2. l \in Reader /\ l.pc = "patch" /\ l.turn = m /\ reader' = [reader EXCEPT ![r] = l]
    BY <1>0, <1>5 DEF CancelRun, ReaderGoto, Reader
  <2> HIDE DEF l
  <2>3. run' = IF run[m].status = "executing" THEN [run EXCEPT ![m] = k] ELSE run
    BY <1>0, <1>5, <2>1 DEF CancelRun
  <2>4. /\ k \in Run /\ k.status = "cancelled" /\ k.aborted /\ k.pc = run[m].pc
        /\ k.token = run[m].token /\ k.visible = run[m].visible
        /\ k.finish = run[m].finish /\ k.broke = run[m].broke
    BY <2>1 DEF Run
  <2> HIDE DEF k
  <2>5. /\ run' \in [Turns -> Run] /\ RunsGrow /\ \A n \in Turns : RunOK(n)'
        /\ run'[m].status \in {"completed", "failed", "cancelled"}
    <3>1. CASE run[m].status = "executing"
      <4>1. /\ run' = [run EXCEPT ![m] = k] /\ run'[m] = k
            /\ \A n \in Turns \ {m} : run'[n] = run[n]
        BY <1>0, <2>1, <2>3, <3>1
      <4>2. run' \in [Turns -> Run]
        BY <1>0, <2>1, <2>4, <4>1
      <4>3. RunsGrow
        BY <2>4, <3>1, <4>1 DEF RunsGrow, Later, Ended
      <4>4. \A n \in Turns : RunOK(n)'
        BY <1>0, <2>1, <2>4, <4>1 DEF RunOK, RunIs
      <4> QED BY <2>4, <4>1, <4>2, <4>3, <4>4
    <3>2. CASE run[m].status # "executing"
      <4>1. run[m].status \in {"completed", "failed", "cancelled"}
        BY <2>1, <3>2 DEF Run
      <4> QED BY <1>0, <2>1, <2>3, <3>2, <4>1 DEF RunsGrow, Later, RunOK
    <3> QED BY <3>1, <3>2
  <2>6. /\ reader' \in [Readers -> Reader] /\ reader'[r] = l
        /\ \A q \in Readers \ {r} : reader'[q] = reader[q]
    BY <1>0, <2>2
  <2>7. ReaderIs(reader[r])'
    BY <2>1, <2>2, <2>5, <2>6 DEF ReaderIs, Terminal
  <2>8. TypeOK'
    <3>1. (TypeOK <=> /\ thread \in Threads /\ message \in [Turns -> Message]
                      /\ run \in [Turns -> Run] /\ grant \in [Posts -> Grants]
                      /\ post \in [Posts -> Post] /\ reader \in [Readers -> Reader]
                      /\ faults \in 0 .. MaxFaults)'
      BY TypeParts, PTL
    <3> QED BY <1>0, <2>1, <2>5, <2>6, <3>1
  <2> QED BY <2>1, <2>5, <2>6, <2>7, <2>8, InvKept DEF ThreadDoes
<1>6. CASE PatchStopped(r)
  <2> DEFINE t == [message[m] EXCEPT !.parts = "partial"]
  <2>1. /\ reader[r].pc = "patch" /\ UNCHANGED <<thread, run, grant, post, faults>>
        /\ m \in Turns /\ ReconcileWith(r, VerdictOf(m))
    BY <1>0, <1>6 DEF PatchStopped, ReaderAt
  <2>2. VerdictOf(m) \in Verdict /\ Seen(m, VerdictOf(m))
    <3>1. Terminal(m) /\ run[m].status # "none"
      BY <1>0, <2>1 DEF ReaderIs
    <3> QED BY <2>1, <3>1, VerdictIs
  <2>3. PICK l \in Reader : reader' = [reader EXCEPT ![r] = l] /\ ReaderIs(l)
    BY <1>w, <2>1, <2>2
  <2>4. \/ message' = message
        \/ run[m].status = "cancelled" /\ message' = [message EXCEPT ![m] = t]
    BY <1>0, <1>6, <2>1 DEF PatchStopped
  <2>5. t \in Message /\ (run[m].status = "cancelled" => run[m].aborted)
    BY <1>0, <2>1 DEF Message, RunOK, RunIs
  <2> HIDE DEF t
  <2>6. /\ message' \in [Turns -> Message]
        /\ \A n \in Turns : message'[n] = message[n] \/ run[n].aborted
    BY <1>0, <2>1, <2>4, <2>5
  <2> QED BY <1>0, <2>1, <2>3, <2>6, ReaderKept DEF ThreadDoes
<1>7. CASE ReconcileRead(r)
  <2>1. /\ reader[r].pc = "reconcile" /\ UNCHANGED <<message, run, grant, post>>
        /\ reader' = [reader EXCEPT ![r] = IdleReader]
    BY <1>7 DEF ReconcileRead, ReaderAt
  <2>2. faults' \in 0 .. MaxFaults
    BY <1>0, <1>7, InjectType DEF ReconcileRead
  <2>3. Reconcile(m, reader[r].verdict) \/ UNCHANGED thread
    BY <1>7 DEF ReconcileRead
  <2>4. ThreadDoes
    <3>1. m \in Turns /\ Seen(m, reader[r].verdict)
      BY <1>0, <2>1 DEF ReaderIs
    <3> QED BY <2>3, <3>1, ReconcileDoes DEF ThreadDoes
  <2> QED BY <1>0, <1>i, <2>1, <2>2, <2>4, ReaderKept
<1>8. CASE ReaderDies(r)
  <2>1. /\ UNCHANGED <<thread, message, run, grant, post>>
        /\ reader' = [reader EXCEPT ![r] = IdleReader]
    BY <1>8 DEF ReaderDies
  <2>2. faults' \in 0 .. MaxFaults
    BY <1>0, <1>8, InjectType DEF ReaderDies
  <2> QED BY <1>0, <1>i, <2>1, <2>2, ReaderKept DEF ThreadDoes
<1> QED BY <1>1, <1>2, <1>3, <1>4, <1>5, <1>6, <1>7, <1>8 DEF ReaderStep

-----------------------------------------------------------------------------
(* Every behaviour. *)

LEMMA AgentInvInit == ASSUME AgentRunAssumption PROVE Init => AgentInv
<1> SUFFICES ASSUME Init PROVE AgentInv
  OBVIOUS
<1>1. /\ thread = [current |-> None, issue |-> None, root |-> FALSE]
      /\ message = [m \in Turns |-> [token |-> None, parts |-> "absent"]]
      /\ run = [m \in Turns |-> NoRun] /\ grant = [p \in Posts |-> "none"]
      /\ post = [p \in Posts |-> [pc |-> "new", turn |-> None, seen |-> None,
                                  verdict |-> "finished"]]
      /\ reader = [r \in Readers |-> IdleReader] /\ faults = 0
  BY DEF Init
<1>2. /\ NoRun \in Run /\ NoRun.status = "none" /\ NoRun.pc = "done"
      /\ ~NoRun.finish /\ ~NoRun.broke
  BY DEF NoRun, Run, TaskPC
<1>3. TypeOK
  <2>1. thread \in Threads /\ message \in [Turns -> Message]
    BY <1>1 DEF Threads, Message
  <2>2. run \in [Turns -> Run] /\ grant \in [Posts -> Grants]
    BY <1>1, <1>2 DEF Grants
  <2>3. post \in [Posts -> Post] /\ reader \in [Readers -> Reader]
    BY <1>1 DEF Post, Reader, IdleReader, Verdict
  <2>4. faults \in 0 .. MaxFaults
    BY <1>1 DEF AgentRunAssumption
  <2> QED BY <2>1, <2>2, <2>3, <2>4, TypeParts
<1>4. ThreadInv
  BY <1>1 DEF ThreadInv
<1>5. \A m \in Turns : RunOK(m)
  BY <1>1, <1>2 DEF RunOK, RunIs
<1>6. \A p \in Posts : PostIs(post[p])
  BY <1>1 DEF PostIs
<1>7. \A r \in Readers : ReaderIs(reader[r])
  BY <1>1 DEF ReaderIs, IdleReader
<1> QED BY <1>3, <1>4, <1>5, <1>6, <1>7 DEF AgentInv

\* A step of a POST, of a request that reads or stops a run, or of a run.
LEMMA Steps ==
  Next => \/ \E p \in Posts : \/ \E m \in Turns : Submit(p, m)
                              \/ PostStep(p) \/ PostDies(p)
          \/ \E m \in Turns : TaskStep(m)
          \/ \E m \in Turns : WorkerDies(m) \/ RunEnds(m) \/ BecomeVisible(m)
          \/ \E r \in Readers : OpenStream(r) \/ RequestStop(r) \/ ReaderStep(r) \/ ReaderDies(r)
BY DEF Next

LEMMA RunDoes ==
  ASSUME AgentRunAssumption, AgentInv, NEW m \in Turns,
         TaskStep(m) \/ WorkerDies(m) \/ RunEnds(m) \/ BecomeVisible(m)
  PROVE  \E l \in Run : TaskDoes(m, l)
BY TaskSteps, RunSteps

LEMMA AgentInvStep ==
  ASSUME AgentRunAssumption PROVE AgentInv /\ [Next]_vars => AgentInv'
<1> SUFFICES ASSUME AgentInv, [Next]_vars PROVE AgentInv'
  OBVIOUS
<1>1. ASSUME NEW m \in Turns,
             TaskStep(m) \/ WorkerDies(m) \/ RunEnds(m) \/ BecomeVisible(m)
      PROVE  AgentInv'
  <2>1. PICK l \in Run : TaskDoes(m, l)
    BY <1>1, RunDoes
  <2> QED BY <2>1, TaskKept
<1>2. ASSUME NEW p \in Posts, (\E m \in Turns : Submit(p, m)) \/ PostStep(p) \/ PostDies(p)
      PROVE  AgentInv'
  BY <1>2, PostSteps
<1>3. ASSUME NEW r \in Readers,
             OpenStream(r) \/ RequestStop(r) \/ ReaderStep(r) \/ ReaderDies(r)
      PROVE  AgentInv'
  BY <1>3, ReaderSteps
<1>4. CASE UNCHANGED vars
  <2>1. UNCHANGED <<thread, message, run, grant, post, reader, faults>>
    BY <1>4 DEF vars
  <2>2. TypeOK'
    BY <2>1 DEF AgentInv, TypeOK
  <2>3. RunsGrow /\ ThreadDoes
    BY <2>1 DEF RunsGrow, Later, ThreadDoes
  <2>4. \A m \in Turns : RunOK(m)'
    BY <2>1 DEF AgentInv, RunOK
  <2> QED BY <2>1, <2>2, <2>3, <2>4, InvKept
<1> QED BY <1>1, <1>2, <1>3, <1>4, Steps

LEMMA AgentInvariant == ASSUME AgentRunAssumption PROVE Spec => []AgentInv
<1>1. Init => AgentInv
  BY AgentInvInit
<1>2. AgentInv /\ [Next]_vars => AgentInv'
  BY AgentInvStep
<1> QED BY <1>1, <1>2, PTL DEF Spec

\* TypeOK holds of every behaviour.
THEOREM AgentTypeCorrect == ASSUME AgentRunAssumption PROVE Spec => []TypeOK
<1>1. AgentInv => TypeOK
  BY DEF AgentInv
<1> QED BY <1>1, AgentInvariant, PTL

\* Every step of a behaviour does to the thread what ThreadDoes says.
LEMMA EveryThreadStep ==
  ASSUME AgentRunAssumption PROVE AgentInv /\ [Next]_vars => ThreadDoes
<1> SUFFICES ASSUME AgentInv, [Next]_vars PROVE ThreadDoes
  OBVIOUS
<1>u. UNCHANGED thread => ThreadDoes
  BY DEF ThreadDoes
<1>1. ASSUME NEW m \in Turns,
             TaskStep(m) \/ WorkerDies(m) \/ RunEnds(m) \/ BecomeVisible(m)
      PROVE  ThreadDoes
  BY <1>1, RunDoes DEF TaskDoes, Around
<1>2. ASSUME NEW p \in Posts, (\E m \in Turns : Submit(p, m)) \/ PostStep(p) \/ PostDies(p)
      PROVE  ThreadDoes
  <2>0. PostIs(post[p])
    BY DEF AgentInv
  <2>1. CASE ReconcileSeen(p)
    <3>1. post[p].seen \in Turns /\ Seen(post[p].seen, post[p].verdict)
      BY <2>0, <2>1 DEF ReconcileSeen, PostAt, PostIs
    <3>2. Reconcile(post[p].seen, post[p].verdict) \/ UNCHANGED thread
      BY <2>1 DEF ReconcileSeen
    <3> QED BY <1>u, <3>1, <3>2, ReconcileDoes
  <2>2. CASE MarkStarted(p)
    <3>1. post[p].turn \in Turns /\ run[post[p].turn].status # "none"
      BY <2>0, <2>2 DEF MarkStarted, PostAt, PostIs
    <3> QED BY <2>2, <3>1 DEF MarkStarted, ThreadDoes
  <2> QED BY <1>2, <1>u, <2>1, <2>2
    DEF PostStep, Submit, Lookup, CreateTurn, TriggerRun, ReleaseGrant, PostDies
<1>3. ASSUME NEW r \in Readers,
             OpenStream(r) \/ RequestStop(r) \/ ReaderStep(r) \/ ReaderDies(r)
      PROVE  ThreadDoes
  <2>1. CASE ReconcileRead(r)
    <3>1. reader[r].turn \in Turns /\ Seen(reader[r].turn, reader[r].verdict)
      BY <2>1 DEF AgentInv, ReconcileRead, ReaderAt, ReaderIs
    <3>2. Reconcile(reader[r].turn, reader[r].verdict) \/ UNCHANGED thread
      BY <2>1 DEF ReconcileRead
    <3> QED BY <1>u, <3>1, <3>2, ReconcileDoes
  <2> QED BY <1>3, <1>u, <2>1
    DEF OpenStream, RequestStop, ReaderStep, LoadThread, ReadStream, LookBeforeCancel,
        CancelRun, PatchStopped, ReaderDies
<1> QED BY <1>1, <1>2, <1>3, <1>u, Steps DEF vars

\* When runs are visible as soon as they are made, a run that has not ended,
\* failed or been stopped stays the thread's current run unless a newer start
\* takes its place: no stale lookup and no report of another run makes the
\* thread look idle.
THEOREM LiveRunStaysCurrentHolds ==
  ASSUME AgentRunAssumption, ~VisibilityLag PROVE Spec => LiveRunStaysCurrent
<1>1. AgentInv /\ [Next]_vars => [LiveRunStays]_vars
  <2> SUFFICES ASSUME AgentInv, [Next]_vars, NEW m \in Turns, thread.current = m,
                      ~Ended(run[m])
               PROVE  thread'.current # None
    BY DEF LiveRunStays, HasEnded, Ended, Terminal, TaskAt
  <2>0. thread \in Threads /\ ThreadInv /\ None \notin Turns /\ thread.issue = None
    BY TypeParts DEF AgentInv, AgentRunAssumption, ThreadInv
  <2>1. ThreadDoes
    BY EveryThreadStep
  <2>2. ASSUME NEW n \in Turns, MarkRunStarted(n) PROVE thread'.current # None
    BY <2>0, <2>2 DEF MarkRunStarted
  <2>3. ASSUME NEW n \in Turns, Ended(run[n]), ApplyRunFinished(n)
        PROVE  thread'.current # None
    BY <2>0, <2>3 DEF ApplyRunFinished, MaySettle
  <2>4. ASSUME NEW n \in Turns, NEW root \in BOOLEAN, run[n].broke, ApplyRunIssue(n, root)
        PROVE  thread'.current # None
    BY <2>0, <2>4 DEF ApplyRunIssue, MaySettle, Ended
  <2> QED BY <2>0, <2>1, <2>2, <2>3, <2>4 DEF ThreadDoes
<1>2. Spec => []AgentInv
  BY AgentInvariant
<1> QED BY <1>1, <1>2, PTL DEF Spec, LiveRunStaysCurrent

\* The root exception a task reported is not replaced by a generic failure of
\* the same run, and an issue goes only when another run starts; whatever the
\* order in which the POST, the task and the readers report.
THEOREM IssueIsKeptHolds == ASSUME AgentRunAssumption PROVE Spec => IssueIsKept
<1>1. AgentInv /\ [Next]_vars => [RootCauseStays /\ IssueStays]_vars
  <2> SUFFICES ASSUME AgentInv, [Next]_vars PROVE RootCauseStays /\ IssueStays
    OBVIOUS
  <2>0. thread \in Threads /\ ThreadInv /\ None \notin Turns
    BY TypeParts DEF AgentInv, AgentRunAssumption
  <2>1. ThreadDoes
    BY EveryThreadStep
  <2>2. CASE UNCHANGED thread
    BY <2>2 DEF RootCauseStays, IssueStays
  <2>3. ASSUME NEW n \in Turns, MarkRunStarted(n) PROVE RootCauseStays /\ IssueStays
    <3>1. CASE thread.issue = n
      BY <2>0, <2>3, <3>1 DEF MarkRunStarted, Threads, RootCauseStays, IssueStays
    <3>2. CASE thread.issue # n
      BY <2>0, <2>3, <3>2
      DEF MarkRunStarted, Threads, ThreadInv, RootCauseStays, IssueStays
    <3> QED BY <3>1, <3>2
  <2>4. ASSUME NEW n \in Turns, ApplyRunFinished(n) PROVE RootCauseStays /\ IssueStays
    BY <2>0, <2>4 DEF ApplyRunFinished, Threads, RootCauseStays, IssueStays
  <2>5. ASSUME NEW n \in Turns, NEW root \in BOOLEAN, ApplyRunIssue(n, root)
        PROVE  RootCauseStays /\ IssueStays
    BY <2>0, <2>5 DEF ApplyRunIssue, Threads, RootCauseStays, IssueStays
  <2> QED BY <2>1, <2>2, <2>3, <2>4, <2>5 DEF ThreadDoes
<1>2. Spec => []AgentInv
  BY AgentInvariant
<1> QED BY <1>1, <1>2, PTL DEF Spec, IssueIsKept

\* The thread shows an issue only of a run that failed by itself, and the reply
\* of a run that ended its stream, and neither failed nor was stopped, is in the
\* message; whatever fails, and whether or not runs are visible at once.
THEOREM IssuesAndRepliesHold ==
  ASSUME AgentRunAssumption PROVE Spec => [](IssueIsAFailure /\ FinishedReplyIsPersisted)
<1>1. AgentInv => IssueIsAFailure /\ FinishedReplyIsPersisted
  BY DEF AgentInv, ThreadInv, RunOK, RunIs, IssueIsAFailure, FinishedReplyIsPersisted
<1> QED BY <1>1, AgentInvariant, PTL

-----------------------------------------------------------------------------
(* The credentials of a run. *)

\* A run holds the token of the POST that made it, which has transferred its
\* grant or may still mark the run as started; until then the grant is there.
GrantInv ==
  /\ \A m \in Turns : run[m].status # "none" =>
       /\ run[m].token \in Posts /\ post[run[m].token].turn = m
       /\ post[run[m].token].pc \in {"mark", "end"}
  /\ \A p \in Posts : post[p].pc = "trigger" => grant[p] = "live"
  /\ RunCanStart

LEMMA GrantInvStep ==
  ASSUME AgentRunAssumption, "no_answer" \notin Faults
  PROVE  AgentInv /\ GrantInv /\ [Next]_vars => GrantInv'
<1> SUFFICES ASSUME AgentInv, GrantInv, [Next]_vars PROVE GrantInv'
  OBVIOUS
<1>0. /\ run \in [Turns -> Run] /\ grant \in [Posts -> Grants] /\ post \in [Posts -> Post]
      /\ \A m \in Turns : RunOK(m) /\ (run[m].pc = "boot" => run[m].status # "none")
      /\ \A p \in Posts : PostIs(post[p])
  BY TypeParts DEF AgentInv, RunOK, RunIs, NoRun
<1>g. /\ \A m \in Turns : run[m].status # "none" =>
           /\ run[m].token \in Posts /\ post[run[m].token].turn = m
           /\ post[run[m].token].pc \in {"mark", "end"}
      /\ \A p \in Posts : post[p].pc = "trigger" => grant[p] = "live"
      /\ \A m \in Turns : run[m].pc = "boot" => grant[run[m].token] = "live"
  BY DEF GrantInv, RunCanStart, TaskAt
<1>1. ASSUME NEW m \in Turns,
             TaskStep(m) \/ WorkerDies(m) \/ RunEnds(m) \/ BecomeVisible(m)
      PROVE  GrantInv'
  <2>1. PICK l \in Run : TaskDoes(m, l)
    BY <1>1, RunDoes
  <2>2. /\ run'[m] = l /\ (\A n \in Turns \ {m} : run'[n] = run[n]) /\ post' = post
        /\ l.token = run[m].token /\ run[m].status # "none"
        /\ l.pc = "boot" => run[m].pc = "boot" /\ grant' = grant
    BY <1>0, <2>1 DEF TaskDoes, Around, Later
  <2>3. \/ grant' = grant
        \/ l.pc # "boot" /\ run[m].pc = "boot"
           /\ \A p \in Posts \ {run[m].token} : grant'[p] = grant[p]
    <3>1. \/ grant' = grant
          \/ run[m].pc = "boot" /\ grant' = [grant EXCEPT ![run[m].token] = "gone"]
      BY <2>1 DEF TaskDoes, Around
    <3> QED BY <1>0, <2>2, <3>1
  <2>4. \A n \in Turns : run'[n].status # "none" =>
          /\ run'[n].token \in Posts /\ post'[run'[n].token].turn = n
          /\ post'[run'[n].token].pc \in {"mark", "end"}
    BY <1>g, <2>2
  <2>5. \A p \in Posts : post'[p].pc = "trigger" => grant'[p] = "live"
    BY <1>g, <2>2, <2>3
  <2>6. \A n \in Turns : run'[n].pc = "boot" => grant'[run'[n].token] = "live"
    BY <1>0, <1>g, <2>2, <2>3
  <2> QED BY <2>4, <2>5, <2>6 DEF GrantInv, RunCanStart, TaskAt
\* a step of a POST whose token no run holds, or that keeps its grant
<1>p. ASSUME NEW p \in Posts, run' = run, \A q \in Posts \ {p} : post'[q] = post[q],
             \A q \in Posts \ {p} : grant'[q] = grant[q],
             \/ post[p].pc \notin {"mark", "end"}
             \/ /\ post'[p].pc \in {"mark", "end"} /\ post'[p].turn = post[p].turn
                /\ grant'[p] = grant[p],
             post'[p].pc = "trigger" => grant'[p] = "live"
      PROVE  GrantInv'
  <2>1. \A n \in Turns : run'[n].status # "none" =>
          /\ run'[n].token \in Posts /\ post'[run'[n].token].turn = n
          /\ post'[run'[n].token].pc \in {"mark", "end"}
    BY <1>g, <1>p
  <2>2. \A n \in Turns : run'[n].pc = "boot" => grant'[run'[n].token] = "live"
    BY <1>0, <1>g, <1>p
  <2>3. \A q \in Posts : post'[q].pc = "trigger" => grant'[q] = "live"
    BY <1>g, <1>p
  <2> QED BY <2>1, <2>2, <2>3 DEF GrantInv, RunCanStart, TaskAt
<1>t. ASSUME NEW p \in Posts, NEW pc, PostGoto(p, pc)
      PROVE  /\ \A q \in Posts \ {p} : post'[q] = post[q]
             /\ post'[p].pc = pc /\ post'[p].turn = post[p].turn
  BY <1>0, <1>t DEF PostGoto, Post
<1>2. ASSUME NEW p \in Posts, NEW m \in Turns, Submit(p, m) PROVE GrantInv'
  <2>1. /\ post[p].pc = "new" /\ run' = run /\ grant' = grant
        /\ \A q \in Posts \ {p} : post'[q] = post[q]
    BY <1>0, <1>2 DEF Submit, PostAt
  <2>2. post'[p].pc # "trigger"
    BY <1>0, <1>2 DEF Submit, Post
  <2> QED BY <1>p, <2>1, <2>2
<1>3. ASSUME NEW p \in Posts, Lookup(p) PROVE GrantInv'
  <2>1. /\ post[p].pc = "lookup" /\ run' = run /\ grant' = grant
        /\ \A q \in Posts \ {p} : post'[q] = post[q]
    BY <1>0, <1>3 DEF Lookup, PostAt, PostGoto
  <2>2. post'[p].pc \in {"end", "reconcile"}
    BY <1>0, <1>3 DEF Lookup, PostGoto, Post
  <2> QED BY <1>p, <2>1, <2>2
<1>4. ASSUME NEW p \in Posts, ReconcileSeen(p) PROVE GrantInv'
  <2>1. post[p].pc = "reconcile" /\ run' = run /\ grant' = grant
    BY <1>4 DEF ReconcileSeen, PostAt
  <2>2. PICK pc \in {"turn", "end"} : PostGoto(p, pc)
    BY <1>4 DEF ReconcileSeen
  <2> QED BY <1>p, <1>t, <2>1, <2>2
<1>5. ASSUME NEW p \in Posts, CreateTurn(p) PROVE GrantInv'
  <2>1. post[p].pc = "turn" /\ run' = run /\ grant' = [grant EXCEPT ![p] = "live"]
    BY <1>5 DEF CreateTurn, PostAt
  <2>2. PICK pc \in {"trigger", "release"} : PostGoto(p, pc)
    BY <1>5 DEF CreateTurn
  <2>3. grant'[p] = "live" /\ \A q \in Posts \ {p} : grant'[q] = grant[q]
    BY <1>0, <2>1
  <2> QED BY <1>p, <1>t, <2>1, <2>2, <2>3
\* tasks.trigger answers when it made the run
<1>6. ASSUME NEW p \in Posts, TriggerRun(p) PROVE GrantInv'
  <2> DEFINE m == post[p].turn
             k == [NoRun EXCEPT !.status = "executing", !.pc = "boot", !.token = p,
                                !.visible = ~VisibilityLag]
  <2>1. post[p].pc = "trigger" /\ grant' = grant /\ m \in Turns
    BY <1>0, <1>6 DEF TriggerRun, PostAt, PostIs
  <2>2. CASE run' = run
    <3>1. PICK pc \in {"mark", "release"} : PostGoto(p, pc)
      BY <1>6 DEF TriggerRun
    <3> QED BY <1>p, <1>t, <2>1, <2>2, <3>1
  <2>3. CASE run' # run
    <3>1. PostGoto(p, "mark") /\ run[m].status = "none" /\ run' = [run EXCEPT ![m] = k]
      BY <1>6, <2>3 DEF TriggerRun, Created, Inject
    <3>2. k.token = p
      BY DEF NoRun
    <3> HIDE DEF k
    <3>3. run'[m] = k /\ \A n \in Turns \ {m} : run'[n] = run[n]
      BY <1>0, <2>1, <3>1
    <3>4. /\ \A q \in Posts \ {p} : post'[q] = post[q]
          /\ post'[p].pc = "mark" /\ post'[p].turn = m
      BY <1>t, <3>1
    <3>5. \A n \in Turns : run'[n].status # "none" =>
            /\ run'[n].token \in Posts /\ post'[run'[n].token].turn = n
            /\ post'[run'[n].token].pc \in {"mark", "end"}
      BY <1>g, <2>1, <3>2, <3>3, <3>4
    <3>6. \A q \in Posts : post'[q].pc = "trigger" => grant'[q] = "live"
      BY <1>g, <2>1, <3>4
    <3>7. \A n \in Turns : run'[n].pc = "boot" => grant'[run'[n].token] = "live"
      BY <1>g, <2>1, <3>2, <3>3
    <3> QED BY <3>5, <3>6, <3>7 DEF GrantInv, RunCanStart, TaskAt
  <2> QED BY <2>2, <2>3
<1>7. ASSUME NEW p \in Posts, MarkStarted(p) PROVE GrantInv'
  <2>1. post[p].pc = "mark" /\ run' = run /\ grant' = grant /\ PostGoto(p, "end")
    BY <1>7 DEF MarkStarted, PostAt
  <2> QED BY <1>p, <1>t, <2>1
<1>8. ASSUME NEW p \in Posts, ReleaseGrant(p) PROVE GrantInv'
  <2>1. /\ post[p].pc = "release" /\ run' = run /\ PostGoto(p, "end")
        /\ \A q \in Posts \ {p} : grant'[q] = grant[q]
    BY <1>0, <1>8 DEF ReleaseGrant, PostAt
  <2> QED BY <1>p, <1>t, <2>1
<1>9. ASSUME NEW p \in Posts, PostDies(p) PROVE GrantInv'
  <2>1. run' = run /\ grant' = grant /\ PostGoto(p, "end")
    BY <1>9 DEF PostDies
  <2> QED BY <1>p, <1>t, <2>1
<1>10. ASSUME NEW r \in Readers,
              OpenStream(r) \/ RequestStop(r) \/ ReaderStep(r) \/ ReaderDies(r)
       PROVE  GrantInv'
  <2>1. post' = post /\ grant' = grant
    BY <1>10
    DEF OpenStream, RequestStop, ReaderStep, LoadThread, ReadStream, LookBeforeCancel,
        CancelRun, PatchStopped, ReconcileRead, ReaderDies
  <2>2. \A n \in Turns : /\ run'[n].token = run[n].token /\ run'[n].pc = run[n].pc
                         /\ run'[n].status # "none" => run[n].status # "none"
    <3>1. CASE CancelRun(r)
      <4> DEFINE m == reader[r].turn
                 k == [run[m] EXCEPT !.status = "cancelled", !.aborted = TRUE]
      <4>1. m \in Turns
        BY <3>1 DEF AgentInv, CancelRun, ReaderAt, ReaderIs
      <4>2. \/ run' = run
            \/ run[m].status = "executing" /\ run' = [run EXCEPT ![m] = k]
        BY <1>0, <3>1, <4>1 DEF CancelRun
      <4>3. k.token = run[m].token /\ k.pc = run[m].pc
        BY <1>0, <4>1 DEF Run
      <4> HIDE DEF k, m
      <4> QED BY <1>0, <4>1, <4>2, <4>3
    <3>2. CASE run' = run
      BY <3>2
    <3> QED BY <1>10, <3>1, <3>2
      DEF OpenStream, RequestStop, ReaderStep, LoadThread, ReadStream, LookBeforeCancel,
          PatchStopped, ReconcileRead, ReaderDies
  <2> QED BY <1>g, <2>1, <2>2 DEF GrantInv, RunCanStart, TaskAt
<1>11. CASE UNCHANGED vars
  BY <1>11 DEF vars, GrantInv, RunCanStart, TaskAt
<1> QED BY <1>1, <1>2, <1>3, <1>4, <1>5, <1>6, <1>7, <1>8, <1>9, <1>10, <1>11, Steps DEF PostStep

\* What a turn is told, given and left with, when tasks.trigger answers for the
\* runs it makes: its run finds its credentials, its reply is there when its
\* stream says so, and only a failure is an issue; whatever else fails, and
\* however POSTs, tasks, readers and stops interleave.
THEOREM TurnIsServedHolds ==
  ASSUME AgentRunAssumption, "no_answer" \notin Faults PROVE Spec => []TurnIsServed
<1>1. Init => GrantInv
  BY DEF Init, GrantInv, RunCanStart, TaskAt, NoRun
<1>2. AgentInv /\ GrantInv /\ [Next]_vars => GrantInv'
  BY GrantInvStep
<1>3. AgentInv /\ GrantInv => TurnIsServed
  BY DEF AgentInv, ThreadInv, RunOK, RunIs, IssueIsAFailure, FinishedReplyIsPersisted,
         GrantInv, TurnIsServed
<1>4. Spec => []AgentInv
  BY AgentInvariant
<1> QED BY <1>1, <1>2, <1>3, <1>4, PTL DEF Spec

-----------------------------------------------------------------------------
(* The composer of a thread. *)

\* A run is of a message or of another client, and is neither a setting nor none.
ComposerBounds ==
  /\ Images \subseteq Messages /\ Messages \cap Others = {}
  /\ None \notin Composer!Runs \cup BOOLEAN
  /\ MaxToggles \in Nat /\ MaxFaults \in Nat

MessageRecord == [step : Composer!Steps, demo : BOOLEAN \cup {None}, given : BOOLEAN \cup {None},
                  waits : Composer!Runs \cup {None}, stopped : SUBSET Composer!Runs,
                  by : Composer!Runs \cup {None}]
PageRecord == [status : {"ready", "submitted", "streaming", "error"},
               active : Composer!Runs \cup {None}, resumed : SUBSET Composer!Runs,
               pendingStop : Composer!Runs \cup {None}, choice : BOOLEAN \cup {None},
               saving : BOOLEAN]
ServerRecord == [run : Composer!Runs \cup {None}, demo : BOOLEAN, had : SUBSET Composer!Runs]

\* The demo setting: what is shown while nothing is saved is what the thread has, and a
\* message that was decided on since has it.
DemoOK ==
  /\ page.saving => page.choice # None
  /\ ~page.saving => page.choice \in {None, server.demo}
DecidedWell ==
  {l \in MessageRecord :
     /\ l.given # None => l.step \in {"accepted", "sent"}
     /\ l.given = None /\ l.demo # None => ~page.saving /\ l.demo = server.demo
     /\ l.given # None => l.demo = None \/ l.demo = l.given}

\* Runs that are over stay so; one whose stop is being asked for is the only one the page
\* may ask to stop, and its answer has not come.
Over(r) == r \in server.had /\ server.run # r
Stopping(r) == server.run = r /\ stop[r] = "asked"
RunsOK ==
  /\ server.run # None => server.run \in server.had
  /\ page.active # None => page.active \in server.had
  /\ seen # None => seen \in server.had /\ page.active = seen
  /\ \A r \in Composer!Runs : /\ stop[r] # "none" => r \in server.had
                              /\ stop[r] = "done" => Over(r)
StoppingOK ==
  \A r \in Composer!Runs : Stopping(r) =>
    /\ page.pendingStop = r /\ page.active \in {None, r}
    /\ \A m \in Messages : draft[m].step # "accepted"

\* A message that was submitted after a stop meets the run only while it waits for it.
Unposted == {"draft", "converting", "awaitStop", "awaitDemo", "images", "posting", "left"}
StoppedBefore(m) ==
  {l \in MessageRecord :
     /\ l.step \in Unposted => m \notin server.had /\ l.by = None
     /\ l.step \in {"accepted", "sent"} => m \in server.had
     /\ l.step = "draft" => l.stopped = {}
     /\ l.step = "converting" => \A r \in l.stopped : Over(r) \/ Stopping(r)
     /\ l.step = "awaitStop" => \A r \in l.stopped : Over(r) \/ (Stopping(r) /\ l.waits = r)
     /\ l.step \notin {"converting", "awaitStop"} => \A r \in l.stopped : Over(r)
     /\ l.by \notin l.stopped}

ComposerInv ==
  /\ Composer!TypeOK
  /\ DemoOK /\ RunsOK /\ StoppingOK
  /\ \A m \in Messages : draft[m] \in DecidedWell /\ draft[m] \in StoppedBefore(m)

LEMMA ComposerIs ==
  ASSUME ComposerInv
  PROVE  /\ draft \in [Messages -> MessageRecord] /\ page \in PageRecord
         /\ server \in ServerRecord /\ seen \in Composer!Runs \cup {None}
         /\ stop \in [Composer!Runs -> {"none", "asked", "done", "failed"}]
         /\ upload \in [Images -> {"uploading", "uploaded", "error"}]
         /\ toggles \in 0 .. MaxToggles /\ requestFaults \in 0 .. MaxFaults
         /\ \A m \in Messages : /\ draft[m] \in MessageRecord
                                /\ draft[m] \in DecidedWell /\ draft[m] \in StoppedBefore(m)
BY DEF ComposerInv, Composer!TypeOK, MessageRecord, PageRecord, ServerRecord

LEMMA ComposerTyped ==
  Composer!TypeOK <=> /\ draft \in [Messages -> MessageRecord] /\ page \in PageRecord
                      /\ server \in ServerRecord /\ seen \in Composer!Runs \cup {None}
                      /\ stop \in [Composer!Runs -> {"none", "asked", "done", "failed"}]
                      /\ upload \in [Images -> {"uploading", "uploaded", "error"}]
                      /\ toggles \in 0 .. MaxToggles /\ requestFaults \in 0 .. MaxFaults
BY DEF Composer!TypeOK, MessageRecord, PageRecord, ServerRecord

LEMMA RenderedIs ==
  ASSUME NEW p \in PageRecord, NEW id \in Composer!Runs \cup {None}
  PROVE  LET new == Composer!Rendered(p, id)
         IN /\ new \in PageRecord /\ new.saving = p.saving /\ new.choice = p.choice
            /\ new.pendingStop = p.pendingStop /\ new.status = p.status
            /\ new.active = IF id = None THEN p.active ELSE id
BY DEF Composer!Rendered, PageRecord

\* What a step of the runs and of the setting keeps of a message that it leaves alone.
StopFrame ==
  /\ server.had \subseteq server'.had
  /\ \A r \in Composer!Runs : /\ Over(r) => Over(r)'
                              /\ Stopping(r) => Stopping(r)' \/ Over(r)'
LEMMA StoppedBeforeStays ==
  ASSUME NEW m \in Messages, StopFrame, m \in server'.had => m \in server.had
  PROVE  StoppedBefore(m) \subseteq StoppedBefore(m)'
<1> SUFFICES ASSUME NEW l \in StoppedBefore(m) PROVE l \in StoppedBefore(m)'
  OBVIOUS
<1>1. /\ l \in MessageRecord /\ l.stopped \subseteq Composer!Runs
  BY DEF StoppedBefore, MessageRecord
<1>2. \A r \in l.stopped : /\ Over(r) => Over(r)'
                           /\ Stopping(r) => Stopping(r)' \/ Over(r)'
  BY <1>1 DEF StopFrame
<1>3. /\ l.step = "converting" => \A r \in l.stopped : Over(r)' \/ Stopping(r)'
      /\ l.step = "awaitStop" => \A r \in l.stopped : Over(r)' \/ (Stopping(r)' /\ l.waits = r)
      /\ l.step \notin {"converting", "awaitStop"} => \A r \in l.stopped : Over(r)'
  BY <1>2 DEF StoppedBefore
<1>4. /\ l.step \in {"accepted", "sent"} => m \in server'.had
      /\ l.step \in Unposted => m \notin server'.had /\ l.by = None
      /\ l.step = "draft" => l.stopped = {}
      /\ l.by \notin l.stopped
  BY DEF StoppedBefore, StopFrame
<1> QED BY <1>1, <1>3, <1>4 DEF StoppedBefore

LEMMA SameRuns ==
  ASSUME UNCHANGED <<server, stop>>
  PROVE  /\ StopFrame
         /\ \A r \in Composer!Runs : (Over(r)' <=> Over(r)) /\ (Stopping(r)' <=> Stopping(r))
         /\ \A m \in Messages : StoppedBefore(m) \subseteq StoppedBefore(m)'
<1>1. \A r \in Composer!Runs : (Over(r)' <=> Over(r)) /\ (Stopping(r)' <=> Stopping(r))
  BY DEF Over, Stopping
<1>2. StopFrame
  BY <1>1 DEF StopFrame
<1> QED BY <1>1, <1>2, StoppedBeforeStays

LEMMA DecidedWellStays ==
  ASSUME page'.saving = page.saving, server'.demo = server.demo
  PROVE  DecidedWell \subseteq DecidedWell'
BY DEF DecidedWell

\* The runs and the page, when only the page changes.
LEMMA PageIs ==
  ASSUME ComposerInv, UNCHANGED <<server, stop>>,
         page'.saving = page.saving, page'.choice = page.choice,
         page'.active # None => page'.active \in server.had,
         seen' # None => seen' \in server.had /\ page'.active = seen'
  PROVE  DemoOK' /\ RunsOK'
<1>1. DemoOK'
  BY DEF ComposerInv, DemoOK
<1>2. RunsOK'
  BY SameRuns DEF ComposerInv, RunsOK
<1> QED BY <1>1, <1>2

\* One message moves on, and the page with it.
LEMMA MessageStep ==
  ASSUME ComposerInv, NEW m \in Messages, NEW new,
         draft' = [draft EXCEPT ![m] = new],
         new \in MessageRecord, new \in DecidedWell, new \in StoppedBefore(m),
         new.step # "accepted",
         UNCHANGED <<upload, server, seen, stop, toggles>>, requestFaults' \in 0 .. MaxFaults,
         page' \in PageRecord, page'.saving = page.saving, page'.choice = page.choice,
         page'.active # None => page'.active \in server.had,
         seen # None => page'.active = seen,
         \A r \in Composer!Runs :
           Stopping(r) => page'.pendingStop = r /\ page'.active \in {None, r}
  PROVE  ComposerInv'
<1>1. /\ draft' \in [Messages -> MessageRecord] /\ draft'[m] = new
      /\ \A n \in Messages : n # m => draft'[n] = draft[n]
  BY ComposerIs
<1>2. Composer!TypeOK'
  BY <1>1, ComposerIs, ComposerTyped
  DEF Composer!TypeOK, MessageRecord, PageRecord, ServerRecord
<1>3. DemoOK' /\ RunsOK'
  BY PageIs DEF ComposerInv, RunsOK
<1>4. StoppingOK'
  <2> SUFFICES ASSUME NEW r \in Composer!Runs, Stopping(r)'
               PROVE  /\ page'.pendingStop = r /\ page'.active \in {None, r}
                      /\ \A n \in Messages : draft'[n].step # "accepted"
    BY DEF StoppingOK
  <2>1. Stopping(r)
    BY SameRuns
  <2>2. \A n \in Messages : draft[n].step # "accepted"
    BY <2>1 DEF ComposerInv, StoppingOK
  <2> QED BY <1>1, <2>1, <2>2
<1>5. ASSUME NEW n \in Messages
      PROVE  draft'[n] \in DecidedWell' /\ draft'[n] \in StoppedBefore(n)'
  <2>1. draft'[n] \in DecidedWell /\ draft'[n] \in StoppedBefore(n)
    BY <1>1, ComposerIs
  <2> QED BY <2>1, DecidedWellStays, SameRuns
<1> QED BY <1>2, <1>3, <1>4, <1>5 DEF ComposerInv

\* The page and what it sees of the thread.
LEMMA PageStep ==
  ASSUME ComposerInv, UNCHANGED <<draft, upload, server, stop, toggles, requestFaults>>,
         seen' \in Composer!Runs \cup {None},
         page' \in PageRecord, page'.saving = page.saving, page'.choice = page.choice,
         page'.active # None => page'.active \in server.had,
         seen' # None => seen' \in server.had /\ page'.active = seen',
         \A r \in Composer!Runs :
           Stopping(r) => page'.pendingStop = r /\ page'.active \in {None, r}
  PROVE  ComposerInv'
<1>1. Composer!TypeOK'
  BY ComposerIs, ComposerTyped DEF Composer!TypeOK, MessageRecord, PageRecord, ServerRecord
<1>2. DemoOK' /\ RunsOK'
  BY PageIs
<1>3. StoppingOK'
  BY SameRuns DEF ComposerInv, StoppingOK
<1>4. \A m \in Messages : draft'[m] \in DecidedWell' /\ draft'[m] \in StoppedBefore(m)'
  BY ComposerIs, DecidedWellStays, SameRuns
<1> QED BY <1>1, <1>2, <1>3, <1>4 DEF ComposerInv

LEMMA UploadEndsStep ==
  ASSUME ComposerBounds, ComposerInv, NEW i \in Images, Composer!UploadEnds(i)
  PROVE  ComposerInv'
<1>1. /\ upload' \in [Images -> {"uploading", "uploaded", "error"}]
      /\ requestFaults' \in 0 .. MaxFaults /\ UNCHANGED <<draft, page, server, seen, stop, toggles>>
  BY ComposerIs DEF Composer!UploadEnds, Composer!Fault, ComposerBounds
<1>2. Composer!TypeOK'
  BY <1>1, ComposerIs, ComposerTyped
  DEF Composer!TypeOK, MessageRecord, PageRecord, ServerRecord
<1>3. DemoOK' /\ RunsOK'
  BY <1>1, PageIs DEF ComposerInv, RunsOK
<1>4. StoppingOK'
  BY <1>1, SameRuns DEF ComposerInv, StoppingOK
<1>5. \A m \in Messages : draft'[m] \in DecidedWell' /\ draft'[m] \in StoppedBefore(m)'
  BY <1>1, ComposerIs, DecidedWellStays, SameRuns
<1> QED BY <1>2, <1>3, <1>4, <1>5 DEF ComposerInv

\* What is known of the page while a run's stop is asked for, and of what it names.
LEMMA PageNow ==
  ASSUME ComposerInv
  PROVE  /\ page.active # None => page.active \in server.had
         /\ seen # None => seen \in server.had /\ page.active = seen
         /\ server.run # None => server.run \in server.had
         /\ \A r \in Composer!Runs :
              Stopping(r) => /\ page.pendingStop = r /\ page.active \in {None, r}
                             /\ seen \in {None, r}
BY DEF ComposerInv, RunsOK, StoppingOK

\* Enter: the runs whose stop was asked for are over or about to be.
LEMMA SubmitStep ==
  ASSUME ComposerBounds, ComposerInv, NEW m \in Messages, Composer!Submit(m)
  PROVE  ComposerInv'
<1> DEFINE stopped == {r \in Composer!Runs : stop[r] \in {"asked", "done"}}
           new == [draft[m] EXCEPT !.step = "converting", !.stopped = stopped]
<1>1. draft[m].step = "draft" /\ UNCHANGED <<upload, page, server, seen, stop, toggles, requestFaults>>
  BY DEF Composer!Submit, Composer!At
<1>2. draft' = [draft EXCEPT ![m] = new]
  BY ComposerIs DEF Composer!Submit
<1>3. \A r \in stopped : Over(r) \/ Stopping(r)
  BY DEF ComposerInv, RunsOK, Over, Stopping
<1>4. stopped \in SUBSET Composer!Runs
  OBVIOUS
<1> HIDE DEF stopped
<1>5. /\ new \in MessageRecord /\ new.step = "converting" /\ new.stopped = stopped
      /\ new.by = draft[m].by /\ new.given = draft[m].given /\ new.demo = draft[m].demo
  BY <1>4, ComposerIs DEF MessageRecord, Composer!Steps
<1> HIDE DEF new
<1>6. new \in DecidedWell
  BY <1>1, <1>5, ComposerIs DEF DecidedWell
<1>7. draft[m].by = None /\ m \notin server.had
  BY <1>1, ComposerIs DEF StoppedBefore, Unposted
<1>8. new \in StoppedBefore(m)
  <2>1. new.by \notin stopped
    BY <1>4, <1>5, <1>7 DEF ComposerBounds
  <2> QED BY <1>3, <1>5, <1>7, <2>1 DEF StoppedBefore, Unposted
<1> QED BY <1>1, <1>2, <1>5, <1>6, <1>8, ComposerIs, PageNow, MessageStep

LEMMA OnceDecidedIs ==
  ASSUME ComposerInv, NEW l \in MessageRecord, l.given = None
  PROVE  LET new == Composer!OnceDecided(l)
         IN /\ new \in MessageRecord /\ new.step = "images" /\ new.given = None
            /\ new.demo = Composer!Shown /\ new.stopped = l.stopped /\ new.by = l.by
            /\ ~page.saving => new.demo = server.demo
<1>1. Composer!Shown \in BOOLEAN \cup {None} /\ (~page.saving => Composer!Shown = server.demo)
  BY ComposerIs DEF Composer!Shown, PageRecord, ServerRecord, ComposerInv, DemoOK
<1> DEFINE shown == Composer!Shown
           new == [l EXCEPT !.step = "images", !.demo = shown]
<1>2. Composer!OnceDecided(l) = new
  BY DEF Composer!OnceDecided
<1> HIDE DEF shown
<1>3. shown \in BOOLEAN \cup {None} /\ (~page.saving => shown = server.demo)
  BY <1>1 DEF shown
<1>4. /\ new \in MessageRecord /\ new.step = "images" /\ new.given = None
      /\ new.demo = shown /\ new.stopped = l.stopped /\ new.by = l.by
  BY <1>3 DEF MessageRecord, Composer!Steps
<1> QED BY <1>2, <1>3, <1>4 DEF shown

\* After the stop: a message waits for the setting that is being saved, or has the one
\* that is shown.
LEMMA OnceStoppedIs ==
  ASSUME ComposerInv, NEW l \in DecidedWell, l.given = None
  PROVE  LET new == Composer!OnceStopped(l)
         IN /\ new \in MessageRecord /\ new \in DecidedWell
            /\ new.step \in {"awaitDemo", "images"} /\ new.stopped = l.stopped /\ new.by = l.by
<1>1. l \in MessageRecord
  BY DEF DecidedWell
<1>2. CASE page.saving
  <2> DEFINE new == [l EXCEPT !.step = "awaitDemo"]
  <2>1. Composer!OnceStopped(l) = new
    BY <1>2 DEF Composer!OnceStopped
  <2>2. /\ new \in MessageRecord /\ new.step = "awaitDemo" /\ new.given = None
        /\ new.demo = l.demo /\ new.stopped = l.stopped /\ new.by = l.by
    BY <1>1 DEF MessageRecord, Composer!Steps
  <2> HIDE DEF new
  <2>3. new \in DecidedWell
    BY <1>2, <2>2 DEF DecidedWell
  <2> QED BY <2>1, <2>2, <2>3
<1>3. CASE ~page.saving
  <2> DEFINE new == Composer!OnceDecided(l)
  <2>1. Composer!OnceStopped(l) = new
    BY <1>3 DEF Composer!OnceStopped
  <2>2. /\ new \in MessageRecord /\ new.step = "images" /\ new.given = None
        /\ new.stopped = l.stopped /\ new.by = l.by /\ new.demo = server.demo
    BY <1>1, <1>3, OnceDecidedIs
  <2> HIDE DEF new
  <2>3. new \in DecidedWell
    BY <1>3, <2>2 DEF DecidedWell
  <2> QED BY <2>1, <2>2, <2>3
<1> QED BY <1>2, <1>3

\* A step of one message before it is posted leaves what is known of its stops.
LEMMA StillBefore ==
  ASSUME NEW m \in Messages, NEW l \in StoppedBefore(m), NEW new \in MessageRecord,
         l.step \in Unposted, new.step \in Unposted \cup {"dropped"},
         new.step \notin {"draft", "converting", "awaitStop"},
         new.stopped = l.stopped, new.by = l.by, \A r \in l.stopped : Over(r)
  PROVE  new \in StoppedBefore(m)
BY DEF StoppedBefore, Unposted

\* submitMessage: while a stop is under way its run is the one that is waited for.
LEMMA SubmitMessageStep ==
  ASSUME ComposerBounds, ComposerInv, NEW m \in Messages, Composer!SubmitMessage(m)
  PROVE  ComposerInv'
<1>1. /\ draft[m].step = "converting"
      /\ UNCHANGED <<upload, page, server, seen, stop, toggles, requestFaults>>
  BY DEF Composer!SubmitMessage, Composer!At
<1>2. /\ draft[m] \in MessageRecord /\ draft[m] \in DecidedWell
      /\ draft[m] \in StoppedBefore(m) /\ draft[m].given = None
      /\ \A r \in draft[m].stopped : Over(r) \/ Stopping(r)
      /\ draft[m].stopped \subseteq Composer!Runs
      /\ m \notin server.had /\ draft[m].by = None /\ draft[m].by \notin draft[m].stopped
  BY <1>1, ComposerIs DEF StoppedBefore, DecidedWell, MessageRecord, Unposted
<1>3. \A r \in draft[m].stopped : Over(r) \/ (Stopping(r) /\ page.pendingStop = r)
  BY <1>2, PageNow
<1>4. CASE page.pendingStop # None
  <2> DEFINE new == [draft[m] EXCEPT !.step = "awaitStop", !.waits = page.pendingStop]
  <2>1. draft' = [draft EXCEPT ![m] = new]
    BY <1>4, ComposerIs DEF Composer!SubmitMessage
  <2>2. /\ new \in MessageRecord /\ new.step = "awaitStop" /\ new.waits = page.pendingStop
        /\ new.stopped = draft[m].stopped /\ new.by = draft[m].by
        /\ new.given = draft[m].given /\ new.demo = draft[m].demo
    BY <1>2, ComposerIs DEF MessageRecord, PageRecord, Composer!Steps
  <2> HIDE DEF new
  <2>3. new \in DecidedWell
    BY <1>2, <2>2 DEF DecidedWell
  <2>4. \A r \in new.stopped : Over(r) \/ (Stopping(r) /\ new.waits = r)
    BY <1>3, <2>2
  <2>5. new \in StoppedBefore(m)
    BY <1>2, <2>2, <2>4 DEF StoppedBefore, Unposted
  <2> QED BY <1>1, <2>1, <2>2, <2>3, <2>5, ComposerIs, PageNow, MessageStep
<1>5. CASE page.pendingStop = None
  <2> DEFINE new == Composer!OnceStopped(draft[m])
  <2>1. draft' = [draft EXCEPT ![m] = new]
    BY <1>5, ComposerIs DEF Composer!SubmitMessage
  <2>2. /\ new \in MessageRecord /\ new \in DecidedWell
        /\ new.step \in {"awaitDemo", "images"}
        /\ new.stopped = draft[m].stopped /\ new.by = draft[m].by
    BY <1>2, OnceStoppedIs
  <2> HIDE DEF new
  <2>3. \A r \in draft[m].stopped : Over(r)
    BY <1>2, <1>3, <1>5 DEF ComposerBounds
  <2>4. new \in StoppedBefore(m)
    BY <1>1, <1>2, <2>2, <2>3, StillBefore DEF Unposted
  <2> QED BY <1>1, <2>1, <2>2, <2>4, ComposerIs, PageNow, MessageStep
<1> QED BY <1>4, <1>5

\* The message is sent, or lost with an image that was not uploaded.
LEMMA SendMessageStep ==
  ASSUME ComposerBounds, ComposerInv, NEW m \in Messages, Composer!SendMessage(m)
  PROVE  ComposerInv'
<1>1. /\ draft[m].step = "images" /\ UNCHANGED <<upload, server, seen, stop, toggles, requestFaults>>
  BY DEF Composer!SendMessage, Composer!At
<1>2. /\ draft[m] \in MessageRecord /\ draft[m] \in DecidedWell
      /\ draft[m] \in StoppedBefore(m) /\ draft[m].given = None
      /\ \A r \in draft[m].stopped : Over(r)
  BY <1>1, ComposerIs DEF StoppedBefore, DecidedWell, MessageRecord
<1>3. PICK step \in {"posting", "dropped"} :
        /\ draft' = [draft EXCEPT ![m].step = step]
        /\ \/ page' = Composer!Rendered([page EXCEPT !.status = "submitted"], seen)
           \/ page' = page
  BY DEF Composer!SendMessage, Composer!Goes
<1> DEFINE new == [draft[m] EXCEPT !.step = step]
<1>4. draft' = [draft EXCEPT ![m] = new]
  BY <1>3, ComposerIs
<1>5. /\ new \in MessageRecord /\ new.step = step /\ new.given = None /\ new.demo = draft[m].demo
      /\ new.stopped = draft[m].stopped /\ new.by = draft[m].by
  BY <1>2 DEF MessageRecord, Composer!Steps
<1> HIDE DEF new
<1>6. new \in DecidedWell
  BY <1>2, <1>5 DEF DecidedWell
<1>7. new \in StoppedBefore(m)
  BY <1>1, <1>2, <1>5, StillBefore DEF Unposted
<1>8. /\ page' \in PageRecord /\ page'.saving = page.saving /\ page'.choice = page.choice
      /\ page'.pendingStop = page.pendingStop
      /\ page'.active = page.active \/ (seen # None /\ page'.active = seen)
  <2> DEFINE p == [page EXCEPT !.status = "submitted"]
  <2>1. /\ p \in PageRecord /\ p.saving = page.saving /\ p.choice = page.choice
        /\ p.pendingStop = page.pendingStop /\ p.active = page.active
    BY ComposerIs DEF PageRecord
  <2> HIDE DEF p
  <2>2. page' = Composer!Rendered(p, seen) \/ page' = page
    BY <1>3 DEF p
  <2> QED BY <2>1, <2>2, ComposerIs, RenderedIs
<1>9. /\ page'.active # None => page'.active \in server.had
      /\ seen # None => page'.active = seen
      /\ \A r \in Composer!Runs : Stopping(r) => page'.pendingStop = r /\ page'.active \in {None, r}
  BY <1>8, PageNow
<1> QED BY <1>1, <1>4, <1>5, <1>6, <1>7, <1>8, <1>9, ComposerIs, MessageStep

\* A run begins that was never there: nobody has asked for its stop.
LEMMA BeginsIs ==
  ASSUME ComposerBounds, ComposerInv, NEW r \in Composer!Runs \ server.had, server.run = None,
         server' = [server EXCEPT !.run = r, !.had = @ \cup {r}], UNCHANGED stop
  PROVE  /\ server' \in ServerRecord /\ server'.run = r /\ server'.demo = server.demo
         /\ server'.had = server.had \cup {r} /\ StopFrame
         /\ \A q \in Composer!Runs : ~Stopping(q)'
<1>1. /\ server' \in ServerRecord /\ server'.run = r /\ server'.demo = server.demo
      /\ server'.had = server.had \cup {r}
  BY ComposerIs DEF ServerRecord
<1>2. \A q \in Composer!Runs : ~Stopping(q)' /\ ~Stopping(q)
  BY <1>1 DEF Stopping, ComposerInv, RunsOK, ComposerBounds
<1>3. \A q \in Composer!Runs : Over(q) => Over(q)'
  BY <1>1 DEF Over
<1> QED BY <1>1, <1>2, <1>3 DEF StopFrame

LEMMA ComposerPostStep ==
  ASSUME ComposerBounds, ComposerInv, NEW m \in Messages, Composer!Post(m)
  PROVE  ComposerInv'
<1>1. /\ draft[m].step \in {"posting", "left"}
      /\ UNCHANGED <<upload, seen, stop, toggles, requestFaults>>
  BY DEF Composer!Post
<1>2. /\ draft[m] \in MessageRecord /\ draft[m] \in DecidedWell
      /\ draft[m] \in StoppedBefore(m) /\ draft[m].given = None
      /\ m \notin server.had /\ draft[m].by = None
      /\ draft[m].stopped \subseteq Composer!Runs
      /\ \A r \in draft[m].stopped : Over(r)
  BY <1>1, ComposerIs DEF StoppedBefore, DecidedWell, MessageRecord, Unposted
<1>3. m \in Composer!Runs
  BY DEF Composer!Runs
<1>4. CASE /\ server.run = None
           /\ draft' = [draft EXCEPT ![m].step = IF @ = "left" THEN "sent" ELSE "accepted",
                                         ![m].given = server.demo]
           /\ server' = [server EXCEPT !.run = m, !.had = @ \cup {m}]
           /\ UNCHANGED page
  <2>1. PICK step \in {"sent", "accepted"} :
          draft' = [draft EXCEPT ![m].step = step, ![m].given = server.demo]
    <3>1. CASE draft[m].step = "left"
      BY <1>4, <3>1, ComposerIs
    <3>2. CASE draft[m].step # "left"
      BY <1>4, <3>2, ComposerIs
    <3> QED BY <3>1, <3>2
  <2> DEFINE new == [draft[m] EXCEPT !.step = step, !.given = server.demo]
  <2>2. draft' = [draft EXCEPT ![m] = new]
    BY <2>1, ComposerIs
  <2>3. /\ new \in MessageRecord /\ new.step = step /\ new.given = server.demo
        /\ new.demo = draft[m].demo
        /\ new.stopped = draft[m].stopped /\ new.by = draft[m].by
    BY <1>2, ComposerIs DEF MessageRecord, Composer!Steps, ServerRecord
  <2> HIDE DEF new
  <2>4. /\ server' \in ServerRecord /\ server'.run = m /\ server'.demo = server.demo
        /\ server'.had = server.had \cup {m} /\ StopFrame
        /\ \A q \in Composer!Runs : ~Stopping(q)'
    BY <1>1, <1>2, <1>3, <1>4, BeginsIs
  <2>5. /\ draft' \in [Messages -> MessageRecord] /\ draft'[m] = new
        /\ \A n \in Messages : n # m => draft'[n] = draft[n]
    BY <2>2, <2>3, ComposerIs
  <2>6. Composer!TypeOK'
    BY <1>1, <1>4, <2>4, <2>5, ComposerIs, ComposerTyped
    DEF Composer!TypeOK, MessageRecord, PageRecord, ServerRecord
  <2>7. DemoOK'
    BY <1>4, <2>4 DEF ComposerInv, DemoOK
  <2>8. RunsOK'
    <3>1. \A r \in Composer!Runs : Over(r) => Over(r)'
      BY <2>4 DEF StopFrame
    <3> QED BY <1>1, <1>4, <2>4, <3>1 DEF ComposerInv, RunsOK
  <2>9. StoppingOK'
    BY <2>4 DEF StoppingOK
  <2>10. ASSUME NEW n \in Messages
         PROVE  draft'[n] \in DecidedWell' /\ draft'[n] \in StoppedBefore(n)'
    <3>1. CASE n = m
      <4>1. new \in DecidedWell'
        BY <1>2, <2>3, <2>4, ComposerIs DEF DecidedWell, ServerRecord, ComposerBounds
      <4>2. \A r \in new.stopped : Over(r)'
        BY <1>2, <2>3, <2>4 DEF StopFrame
      <4>3. new.by \notin new.stopped
        BY <1>2, <2>3 DEF ComposerBounds
      <4>4. new \in StoppedBefore(m)'
        BY <2>3, <2>4, <4>2, <4>3 DEF StoppedBefore, Unposted
      <4> QED BY <2>5, <3>1, <4>1, <4>4
    <3>2. CASE n # m
      <4>1. draft'[n] \in DecidedWell /\ draft'[n] \in StoppedBefore(n)
        BY <2>5, <3>2, ComposerIs
      <4>2. n \in server'.had => n \in server.had
        BY <2>4, <3>2
      <4> QED BY <1>4, <2>4, <4>1, <4>2, DecidedWellStays, StoppedBeforeStays
    <3> QED BY <3>1, <3>2
  <2> QED BY <2>6, <2>7, <2>8, <2>9, <2>10 DEF ComposerInv
<1>5. CASE /\ server.run # None
           /\ draft' = [draft EXCEPT ![m].step = "refused", ![m].by = server.run]
           /\ page' = IF draft[m].step = "left" THEN page
                      ELSE Composer!Rendered([page EXCEPT !.status = "error"], seen)
           /\ UNCHANGED server
  <2> DEFINE new == [draft[m] EXCEPT !.step = "refused", !.by = server.run]
  <2>1. draft' = [draft EXCEPT ![m] = new]
    BY <1>5, ComposerIs
  <2>2. /\ new \in MessageRecord /\ new.step = "refused" /\ new.by = server.run
        /\ new.given = None /\ new.demo = draft[m].demo /\ new.stopped = draft[m].stopped
    BY <1>2, ComposerIs DEF MessageRecord, Composer!Steps, ServerRecord
  <2> HIDE DEF new
  <2>3. new \in DecidedWell
    BY <1>2, <2>2 DEF DecidedWell
  <2>4. new \in StoppedBefore(m)
    BY <1>2, <2>2 DEF StoppedBefore, Unposted, Over
  <2>5. /\ page' \in PageRecord /\ page'.saving = page.saving /\ page'.choice = page.choice
        /\ page'.pendingStop = page.pendingStop
        /\ page'.active = page.active \/ (seen # None /\ page'.active = seen)
    <3> DEFINE p == [page EXCEPT !.status = "error"]
    <3>1. /\ p \in PageRecord /\ p.saving = page.saving /\ p.choice = page.choice
          /\ p.pendingStop = page.pendingStop /\ p.active = page.active
      BY ComposerIs DEF PageRecord
    <3> HIDE DEF p
    <3>2. page' = Composer!Rendered(p, seen) \/ page' = page
      BY <1>5 DEF p
    <3> QED BY <3>1, <3>2, ComposerIs, RenderedIs
  <2>6. /\ page'.active # None => page'.active \in server.had
        /\ seen # None => page'.active = seen
        /\ \A r \in Composer!Runs : Stopping(r) => page'.pendingStop = r /\ page'.active \in {None, r}
    BY <2>5, PageNow
  <2> QED BY <1>1, <1>5, <2>1, <2>2, <2>3, <2>4, <2>5, <2>6, ComposerIs, MessageStep
<1> QED BY <1>4, <1>5 DEF Composer!Post, Composer!At

\* The answer names the run: nobody can have asked for its stop before.
LEMMA AnsweredStep ==
  ASSUME ComposerBounds, ComposerInv, NEW m \in Messages, Composer!Answered(m)
  PROVE  ComposerInv'
<1>1. /\ draft[m].step = "accepted" /\ UNCHANGED <<upload, server, seen, stop, toggles, requestFaults>>
      /\ draft' = [draft EXCEPT ![m].step = "sent"]
  BY DEF Composer!Answered, Composer!At, Composer!Goes
<1>2. /\ draft[m] \in MessageRecord /\ draft[m] \in DecidedWell
      /\ draft[m] \in StoppedBefore(m) /\ m \in server.had
  BY <1>1, ComposerIs DEF StoppedBefore
<1>3. \A r \in Composer!Runs : ~Stopping(r)
  BY <1>1 DEF ComposerInv, StoppingOK
<1> DEFINE new == [draft[m] EXCEPT !.step = "sent"]
<1>4. draft' = [draft EXCEPT ![m] = new]
  BY <1>1, ComposerIs
<1>5. /\ new \in MessageRecord /\ new.step = "sent" /\ new.given = draft[m].given
      /\ new.demo = draft[m].demo /\ new.stopped = draft[m].stopped /\ new.by = draft[m].by
  BY <1>2 DEF MessageRecord, Composer!Steps
<1> HIDE DEF new
<1>6. new \in DecidedWell
  BY <1>2, <1>5 DEF DecidedWell
<1>7. new \in StoppedBefore(m)
  BY <1>1, <1>2, <1>5 DEF StoppedBefore, Unposted
<1>8. /\ page' \in PageRecord /\ page'.saving = page.saving /\ page'.choice = page.choice
      /\ page'.active = IF seen = None THEN m ELSE seen
  <2> DEFINE resumed == page.resumed \cup {m}
             p == [page EXCEPT !.status = "streaming", !.active = m, !.resumed = resumed]
  <2>1. resumed \in SUBSET Composer!Runs /\ m \in Composer!Runs
    BY ComposerIs DEF PageRecord, Composer!Runs
  <2>2. page' = Composer!Rendered(p, seen)
    BY DEF Composer!Answered
  <2> HIDE DEF resumed
  <2>3. p \in PageRecord /\ p.saving = page.saving /\ p.choice = page.choice /\ p.active = m
    BY <2>1, ComposerIs DEF PageRecord
  <2> HIDE DEF p
  <2> QED BY <2>2, <2>3, ComposerIs, RenderedIs
<1>9. /\ page'.active # None => page'.active \in server.had
      /\ seen # None => page'.active = seen
  BY <1>2, <1>8, PageNow
<1> QED BY <1>1, <1>3, <1>4, <1>5, <1>6, <1>7, <1>8, <1>9, ComposerIs, MessageStep

\* The thread's runs begin and end on their own.
LEMMA ServerStep ==
  ASSUME ComposerBounds, ComposerInv, Composer!OtherPosts \/ Composer!RunEnds
  PROVE  ComposerInv'
<1>1. UNCHANGED <<draft, upload, page, seen, stop, toggles, requestFaults>>
  BY DEF Composer!OtherPosts, Composer!RunEnds
<1>2. /\ server' \in ServerRecord /\ server'.demo = server.demo /\ StopFrame
      /\ \A r \in Composer!Runs : Stopping(r)' => Stopping(r)
      /\ \A m \in Messages : m \in server'.had => m \in server.had
      /\ server'.run # None => server'.run \in server'.had
  <2>1. CASE Composer!OtherPosts
    <3>1. PICK r \in Others \ server.had : server' = [server EXCEPT !.run = r, !.had = @ \cup {r}]
      BY <2>1 DEF Composer!OtherPosts
    <3>2. server.run = None /\ r \in Composer!Runs \ server.had
      BY <2>1, <3>1 DEF Composer!OtherPosts, Composer!Runs
    <3>3. /\ server' \in ServerRecord /\ server'.run = r /\ server'.demo = server.demo
          /\ server'.had = server.had \cup {r} /\ StopFrame
          /\ \A q \in Composer!Runs : ~Stopping(q)'
      BY <1>1, <3>1, <3>2, BeginsIs
    <3> QED BY <3>1, <3>3 DEF ComposerBounds
  <2>2. CASE Composer!RunEnds
    <3>1. /\ server' \in ServerRecord /\ server'.run = None /\ server'.demo = server.demo
          /\ server'.had = server.had
      BY <2>2, ComposerIs DEF Composer!RunEnds, ServerRecord
    <3>2. server.run # None => server.run \in server.had
      BY PageNow
    <3>3. \A r \in Composer!Runs : /\ ~Stopping(r)'
                                   /\ Over(r) => Over(r)'
                                   /\ Stopping(r) => Over(r)'
      BY <3>1, <3>2 DEF Stopping, Over, ComposerBounds
    <3> QED BY <3>1, <3>3 DEF StopFrame
  <2> QED BY <2>1, <2>2
<1>3. Composer!TypeOK'
  BY <1>1, <1>2, ComposerIs, ComposerTyped
  DEF Composer!TypeOK, MessageRecord, PageRecord, ServerRecord
<1>4. DemoOK'
  BY <1>1, <1>2 DEF ComposerInv, DemoOK
<1>5. RunsOK'
  BY <1>1, <1>2 DEF ComposerInv, RunsOK, StopFrame
<1>6. StoppingOK'
  BY <1>1, <1>2 DEF ComposerInv, StoppingOK
<1>7. \A m \in Messages : draft'[m] \in DecidedWell' /\ draft'[m] \in StoppedBefore(m)'
  BY <1>1, <1>2, ComposerIs, DecidedWellStays, StoppedBeforeStays
<1> QED BY <1>3, <1>4, <1>5, <1>6, <1>7 DEF ComposerInv

\* The page follows the thread's row and the streams of its runs.
LEMMA FollowStep ==
  ASSUME ComposerBounds, ComposerInv,
         Composer!RowArrives \/ Composer!Resume \/ Composer!StreamEnds
  PROVE  ComposerInv'
<1>1. UNCHANGED <<draft, upload, server, stop, toggles, requestFaults>>
  BY DEF Composer!RowArrives, Composer!Resume, Composer!StreamEnds
<1>2. CASE Composer!RowArrives
  <2>1. seen' = server.run /\ page' = Composer!Rendered(page, server.run)
    BY <1>2 DEF Composer!RowArrives
  <2>2. /\ page' \in PageRecord /\ page'.saving = page.saving /\ page'.choice = page.choice
        /\ page'.pendingStop = page.pendingStop
        /\ page'.active = IF server.run = None THEN page.active ELSE server.run
        /\ seen' \in Composer!Runs \cup {None}
    BY <2>1, ComposerIs, RenderedIs DEF ServerRecord
  <2>3. /\ page'.active # None => page'.active \in server.had
        /\ seen' # None => seen' \in server.had /\ page'.active = seen'
    BY <2>1, <2>2, PageNow
  <2>4. \A r \in Composer!Runs : Stopping(r) => page'.pendingStop = r /\ page'.active \in {None, r}
    BY <2>2, PageNow DEF Stopping
  <2> QED BY <1>1, <2>2, <2>3, <2>4, PageStep
<1>3. CASE Composer!Resume
  <2>1. PICK status \in {"ready", "streaming"} :
          page' = [page EXCEPT !.status = status, !.resumed = @ \cup {seen}]
    BY <1>3 DEF Composer!Resume
  <2>2. seen # None /\ seen' = seen
    BY <1>3 DEF Composer!Resume
  <2> DEFINE resumed == page.resumed \cup {seen}
  <2>3. resumed \in SUBSET Composer!Runs /\ page' = [page EXCEPT !.status = status, !.resumed = resumed]
    BY <2>1, <2>2, ComposerIs DEF PageRecord
  <2> HIDE DEF resumed
  <2>4. /\ page' \in PageRecord /\ page'.saving = page.saving /\ page'.choice = page.choice
        /\ page'.pendingStop = page.pendingStop /\ page'.active = page.active
    BY <2>3, ComposerIs DEF PageRecord
  <2> QED BY <1>1, <2>2, <2>4, ComposerIs, PageNow, PageStep
<1>4. CASE Composer!StreamEnds
  <2> DEFINE p == [page EXCEPT !.status = "ready", !.active = None]
  <2>1. page' = Composer!Rendered(p, seen) /\ seen' = seen
    BY <1>4 DEF Composer!StreamEnds
  <2>2. /\ p \in PageRecord /\ p.saving = page.saving /\ p.choice = page.choice
        /\ p.pendingStop = page.pendingStop /\ p.active = None
    BY ComposerIs DEF PageRecord
  <2> HIDE DEF p
  <2>3. /\ page' \in PageRecord /\ page'.saving = page.saving /\ page'.choice = page.choice
        /\ page'.pendingStop = page.pendingStop
        /\ page'.active = IF seen = None THEN None ELSE seen
    BY <2>1, <2>2, ComposerIs, RenderedIs
  <2>4. /\ page'.active # None => page'.active \in server.had
        /\ seen # None => seen \in server.had /\ page'.active = seen
        /\ \A r \in Composer!Runs : Stopping(r) => page'.pendingStop = r /\ page'.active \in {None, r}
    BY <2>3, PageNow
  <2> QED BY <1>1, <2>1, <2>3, <2>4, ComposerIs, PageStep
<1> QED BY <1>2, <1>3, <1>4

\* All messages and the page change with the stops.
LEMMA AllStep ==
  ASSUME ComposerInv, NEW new \in [Messages -> MessageRecord], draft' = new,
         UNCHANGED <<upload, seen>>, toggles' \in 0 .. MaxToggles, requestFaults' \in 0 .. MaxFaults,
         server' \in ServerRecord, page' \in PageRecord,
         stop' \in [Composer!Runs -> {"none", "asked", "done", "failed"}],
         DemoOK', RunsOK', StoppingOK',
         \A m \in Messages : new[m] \in DecidedWell' /\ new[m] \in StoppedBefore(m)'
  PROVE  ComposerInv'
<1>1. Composer!TypeOK'
  BY ComposerIs, ComposerTyped DEF Composer!TypeOK, MessageRecord, PageRecord, ServerRecord
<1> QED BY <1>1 DEF ComposerInv

\* stopGeneration: the run that is asked to stop is the one the page knows, and no message
\* is left that a run may still be named for.
LEMMA StopGenerationStep ==
  ASSUME ComposerBounds, ComposerInv, Composer!StopGeneration
  PROVE  ComposerInv'
<1> DEFINE r == page.active
           new == [m \in Messages |->
                    [draft[m] EXCEPT !.step = CASE @ = "posting" -> "left" [] @ = "accepted" -> "sent"
                                                  [] OTHER -> @]]
           p == [page EXCEPT !.status = "ready", !.active = None,
                             !.pendingStop = IF r = None THEN @ ELSE r]
<1>1. /\ draft' = new /\ page' = Composer!Rendered(p, seen)
      /\ stop' = IF r = None THEN stop ELSE [stop EXCEPT ![r] = "asked"]
      /\ UNCHANGED <<upload, server, seen, requestFaults, toggles>>
  BY DEF Composer!StopGeneration
<1>2. r \in Composer!Runs \cup {None}
  BY ComposerIs DEF PageRecord
<1>3. ASSUME NEW m \in Messages
      PROVE  /\ new[m] \in MessageRecord /\ new[m] \in DecidedWell /\ new[m] \in StoppedBefore(m)
             /\ new[m].step # "accepted"
  <2> DEFINE l == draft[m]
  <2>1. l \in MessageRecord /\ l \in DecidedWell /\ l \in StoppedBefore(m)
    BY ComposerIs
  <2>2. CASE l.step \notin {"posting", "accepted"}
    <3>1. new[m] = l
      BY <2>1, <2>2 DEF MessageRecord
    <3> QED BY <2>1, <2>2, <3>1
  <2>3. ASSUME NEW step, \/ l.step = "posting" /\ step = "left"
                         \/ l.step = "accepted" /\ step = "sent"
        PROVE  LET s == [l EXCEPT !.step = step]
               IN /\ s \in MessageRecord /\ s \in DecidedWell /\ s \in StoppedBefore(m)
                  /\ s.step # "accepted"
    <3> DEFINE s == [l EXCEPT !.step = step]
    <3>1. /\ s \in MessageRecord /\ s.step = step /\ s.given = l.given /\ s.demo = l.demo
          /\ s.stopped = l.stopped /\ s.by = l.by
      BY <2>1, <2>3 DEF MessageRecord, Composer!Steps
    <3> HIDE DEF s, l
    <3>2. s \in DecidedWell
      BY <2>1, <2>3, <3>1 DEF DecidedWell
    <3>3. /\ \A q \in l.stopped : Over(q)
          /\ l.by \notin l.stopped
          /\ l.step = "posting" => m \notin server.had /\ l.by = None
          /\ l.step = "accepted" => m \in server.had
      BY <2>1, <2>3 DEF StoppedBefore, Unposted
    <3> HIDE DEF new, p, r
    <3>4. /\ \A q \in s.stopped : Over(q)
          /\ s.by \notin s.stopped
          /\ s.step = "left" => m \notin server.had /\ s.by = None
          /\ s.step = "sent" => m \in server.had
          /\ s.step \in {"left", "sent"}
      BY <2>3, <3>1, <3>3
    <3>5. s \in StoppedBefore(m)
      BY <3>1, <3>4 DEF StoppedBefore, Unposted
    <3> QED BY <2>3, <3>1, <3>2, <3>5 DEF s
  <2>4. CASE l.step = "posting"
    <3>1. new[m] = [l EXCEPT !.step = "left"]
      BY <2>4
    <3> QED BY <2>3, <2>4, <3>1
  <2>5. CASE l.step = "accepted"
    <3>1. new[m] = [l EXCEPT !.step = "sent"]
      BY <2>5
    <3> QED BY <2>3, <2>5, <3>1
  <2> QED BY <2>2, <2>4, <2>5
<1>4. new \in [Messages -> MessageRecord]
  BY <1>3
<1> HIDE DEF new
<1>5. /\ p \in PageRecord /\ p.saving = page.saving /\ p.choice = page.choice
      /\ p.active = None /\ p.pendingStop = IF r = None THEN page.pendingStop ELSE r
  <2> DEFINE pending == IF r = None THEN page.pendingStop ELSE r
  <2>1. pending \in Composer!Runs \cup {None} /\ p = [page EXCEPT !.status = "ready", !.active = None,
                                                      !.pendingStop = pending]
    BY ComposerIs DEF PageRecord
  <2> HIDE DEF pending, r
  <2>2. /\ p \in PageRecord /\ p.saving = page.saving /\ p.choice = page.choice
        /\ p.active = None /\ p.pendingStop = pending
    BY <2>1, ComposerIs DEF PageRecord
  <2> QED BY <2>2 DEF pending
<1> HIDE DEF p
<1>6. /\ page' \in PageRecord /\ page'.saving = page.saving /\ page'.choice = page.choice
      /\ page'.active = IF seen = None THEN None ELSE seen
      /\ page'.pendingStop = IF r = None THEN page.pendingStop ELSE r
  BY <1>1, <1>5, ComposerIs, RenderedIs
<1>7. /\ stop' \in [Composer!Runs -> {"none", "asked", "done", "failed"}]
      /\ \A q \in Composer!Runs : stop'[q] = IF q = r THEN "asked" ELSE stop[q]
  BY <1>1, <1>2, ComposerIs DEF ComposerBounds
<1>8. \A q \in Composer!Runs : /\ Over(q)' <=> Over(q)
                               /\ Stopping(q) => Stopping(q)'
                               /\ Stopping(q)' => server.run = q /\ (q = r \/ Stopping(q))
  BY <1>1, <1>7 DEF Over, Stopping
<1>9. DemoOK'
  BY <1>1, <1>6 DEF ComposerInv, DemoOK
<1>10. RunsOK'
  <2>1. \A q \in Composer!Runs : /\ stop'[q] # "none" => q \in server.had
                                 /\ stop'[q] = "done" => Over(q)'
    BY <1>7, <1>8, PageNow DEF ComposerInv, RunsOK, ComposerBounds
  <2>2. /\ page'.active # None => page'.active \in server.had
        /\ seen # None => seen \in server.had /\ page'.active = seen
        /\ server.run # None => server.run \in server.had
    BY <1>6, PageNow
  <2> QED BY <1>1, <2>1, <2>2 DEF RunsOK
<1>11. StoppingOK'
  <2> SUFFICES ASSUME NEW q \in Composer!Runs, Stopping(q)'
               PROVE  /\ page'.pendingStop = q /\ page'.active \in {None, q}
                      /\ \A m \in Messages : draft'[m].step # "accepted"
    BY DEF StoppingOK
  <2>1. server.run = q /\ (q = r \/ Stopping(q))
    BY <1>8
  <2>2. CASE q = r
    BY <1>1, <1>3, <1>6, <2>2, PageNow DEF ComposerBounds
  <2>3. CASE q # r
    BY <1>1, <1>3, <1>6, <2>1, <2>3, PageNow
  <2> QED BY <2>2, <2>3
<1>12. ASSUME NEW m \in Messages PROVE new[m] \in DecidedWell' /\ new[m] \in StoppedBefore(m)'
  <2>1. StopFrame /\ (m \in server'.had => m \in server.had)
    BY <1>1, <1>8 DEF StopFrame
  <2>2. StoppedBefore(m) \subseteq StoppedBefore(m)'
    BY <2>1, StoppedBeforeStays
  <2> QED BY <1>1, <1>3, <1>6, <2>2, DecidedWellStays
<1> QED BY <1>1, <1>4, <1>6, <1>7, <1>9, <1>10, <1>11, <1>12, ComposerIs, AllStep

\* The stop of a run is answered or has failed: what that does to the runs and the page.
LEMMA StopOverIs ==
  ASSUME ComposerBounds, ComposerInv, NEW r \in Composer!Runs, NEW how \in {"done", "failed"},
         stop[r] = "asked", stop' = [stop EXCEPT ![r] = how], UNCHANGED seen,
         server' = server \/ (server.run = r /\ server' = [server EXCEPT !.run = None]),
         how = "done" => server'.run # r,
         page' = [page EXCEPT !.pendingStop = IF @ = r THEN None ELSE @]
  PROVE  /\ server' \in ServerRecord /\ server'.had = server.had
         /\ page' \in PageRecord /\ page'.saving = page.saving /\ page'.choice = page.choice
         /\ stop' \in [Composer!Runs -> {"none", "asked", "done", "failed"}]
         /\ DemoOK' /\ RunsOK' /\ DecidedWell \subseteq DecidedWell'
         /\ (\A m \in Messages : draft[m].step # "accepted" => draft'[m].step # "accepted")
              => StoppingOK'
         /\ \A q \in Composer!Runs : /\ Over(q) => Over(q)'
                                     /\ q # r => (Stopping(q)' <=> Stopping(q))
         /\ how = "done" => Over(r)'
<1>1. /\ server' \in ServerRecord /\ server'.had = server.had /\ server'.demo = server.demo
      /\ server'.run = server.run \/ (server.run = r /\ server'.run = None)
  BY ComposerIs DEF ServerRecord
<1>2. /\ page' \in PageRecord /\ page'.saving = page.saving /\ page'.choice = page.choice
      /\ page'.active = page.active
      /\ page'.pendingStop = IF page.pendingStop = r THEN None ELSE page.pendingStop
  <2> DEFINE pending == IF page.pendingStop = r THEN None ELSE page.pendingStop
  <2>1. pending \in Composer!Runs \cup {None} /\ page' = [page EXCEPT !.pendingStop = pending]
    BY ComposerIs DEF PageRecord
  <2> HIDE DEF pending
  <2>2. /\ page' \in PageRecord /\ page'.saving = page.saving /\ page'.choice = page.choice
        /\ page'.active = page.active /\ page'.pendingStop = pending
    BY <2>1, ComposerIs DEF PageRecord
  <2> QED BY <2>2 DEF pending
<1>3. /\ stop' \in [Composer!Runs -> {"none", "asked", "done", "failed"}]
      /\ \A q \in Composer!Runs : stop'[q] = IF q = r THEN how ELSE stop[q]
  BY ComposerIs
<1>4. r \in server.had
  BY DEF ComposerInv, RunsOK
<1>5. \A q \in Composer!Runs : /\ Over(q) => Over(q)'
                               /\ q # r => (Stopping(q)' <=> Stopping(q))
                               /\ ~Stopping(r)'
  BY <1>1, <1>3 DEF Over, Stopping, ComposerBounds
<1>6. how = "done" => Over(r)'
  BY <1>1, <1>4 DEF Over
<1>7. DemoOK' /\ DecidedWell \subseteq DecidedWell'
  BY <1>1, <1>2, DecidedWellStays DEF ComposerInv, DemoOK
<1>8. RunsOK'
  <2>1. \A q \in Composer!Runs : /\ stop'[q] # "none" => q \in server'.had
                                 /\ stop'[q] = "done" => Over(q)'
    BY <1>1, <1>3, <1>4, <1>5, <1>6 DEF ComposerInv, RunsOK
  <2> QED BY <1>1, <1>2, <2>1, PageNow DEF RunsOK
<1>9. ASSUME \A m \in Messages : draft[m].step # "accepted" => draft'[m].step # "accepted"
      PROVE  StoppingOK'
  <2> SUFFICES ASSUME NEW q \in Composer!Runs, Stopping(q)'
               PROVE  /\ page'.pendingStop = q /\ page'.active \in {None, q}
                      /\ \A m \in Messages : draft'[m].step # "accepted"
    BY DEF StoppingOK
  <2>1. q # r /\ Stopping(q)
    BY <1>5
  <2> QED BY <1>2, <1>9, <2>1 DEF ComposerInv, StoppingOK
<1> QED BY <1>1, <1>2, <1>3, <1>5, <1>6, <1>7, <1>8, <1>9

\* Whoever waited for the stop goes on.
LEMMA AfterIs ==
  ASSUME ComposerInv, NEW m \in Messages, NEW r \in Composer!Runs
  PROVE  LET new == Composer!After(m, r)
         IN /\ new \in MessageRecord /\ new \in DecidedWell
            /\ new.stopped = draft[m].stopped /\ new.by = draft[m].by
            /\ \/ new = draft[m] /\ ~(draft[m].step = "awaitStop" /\ draft[m].waits = r)
               \/ /\ draft[m].step = "awaitStop" /\ draft[m].waits = r
                  /\ new.step \in {"awaitDemo", "images"}
<1>1. draft[m] \in MessageRecord /\ draft[m] \in DecidedWell
  BY ComposerIs
<1>2. CASE draft[m].step = "awaitStop" /\ draft[m].waits = r
  <2> DEFINE new == Composer!OnceStopped(draft[m])
  <2>1. Composer!After(m, r) = new
    BY <1>2 DEF Composer!After, Composer!At
  <2>2. draft[m].given = None
    BY <1>1, <1>2 DEF DecidedWell
  <2>3. /\ new \in MessageRecord /\ new \in DecidedWell
        /\ new.step \in {"awaitDemo", "images"}
        /\ new.stopped = draft[m].stopped /\ new.by = draft[m].by
    BY <1>1, <2>2, OnceStoppedIs
  <2> HIDE DEF new
  <2> QED BY <1>2, <2>1, <2>3
<1>3. CASE ~(draft[m].step = "awaitStop" /\ draft[m].waits = r)
  BY <1>1, <1>3 DEF Composer!After, Composer!At
<1> QED BY <1>2, <1>3

LEMMA StopAnsweredStep ==
  ASSUME ComposerBounds, ComposerInv, NEW r \in Composer!Runs, Composer!StopAnswered(r)
  PROVE  ComposerInv'
<1> DEFINE new == [m \in Messages |-> Composer!After(m, r)]
<1>1. /\ stop[r] = "asked" /\ stop' = [stop EXCEPT ![r] = "done"] /\ draft' = new
      /\ server' = server \/ (server.run = r /\ server' = [server EXCEPT !.run = None])
      /\ server'.run # r
      /\ page' = [page EXCEPT !.pendingStop = IF @ = r THEN None ELSE @]
      /\ UNCHANGED <<upload, seen, requestFaults, toggles>>
  <2>1. server'.run # r
    BY ComposerIs DEF Composer!StopAnswered, ServerRecord, ComposerBounds
  <2> QED BY <2>1 DEF Composer!StopAnswered
<1>2. ASSUME NEW m \in Messages
      PROVE  /\ new[m] \in MessageRecord /\ new[m] \in DecidedWell
             /\ new[m].stopped = draft[m].stopped /\ new[m].by = draft[m].by
             /\ \/ new[m] = draft[m] /\ ~(draft[m].step = "awaitStop" /\ draft[m].waits = r)
                \/ /\ draft[m].step = "awaitStop" /\ draft[m].waits = r
                   /\ new[m].step \in {"awaitDemo", "images"}
  <2>1. new[m] = Composer!After(m, r)
    OBVIOUS
  <2> HIDE DEF new
  <2> QED BY <2>1, AfterIs
<1>3. new = [m \in Messages |-> new[m]]
  OBVIOUS
<1> HIDE DEF new
<1>4. new \in [Messages -> MessageRecord]
  BY <1>2, <1>3
<1>5. /\ server' \in ServerRecord /\ server'.had = server.had
      /\ page' \in PageRecord
      /\ stop' \in [Composer!Runs -> {"none", "asked", "done", "failed"}]
      /\ DemoOK' /\ RunsOK' /\ DecidedWell \subseteq DecidedWell'
      /\ (\A m \in Messages : draft[m].step # "accepted" => draft'[m].step # "accepted")
           => StoppingOK'
      /\ \A q \in Composer!Runs : /\ Over(q) => Over(q)'
                                  /\ q # r => (Stopping(q)' <=> Stopping(q))
      /\ Over(r)'
  BY <1>1, StopOverIs
<1>6. StoppingOK'
  <2>1. \A m \in Messages : draft[m].step # "accepted" => draft'[m].step # "accepted"
    BY <1>1, <1>2
  <2> QED BY <1>5, <2>1
<1>7. StopFrame
  BY <1>5 DEF StopFrame
<1>8. ASSUME NEW m \in Messages PROVE new[m] \in DecidedWell' /\ new[m] \in StoppedBefore(m)'
  <2>1. draft[m] \in StoppedBefore(m) /\ draft[m] \in StoppedBefore(m)'
    BY <1>5, <1>7, ComposerIs, StoppedBeforeStays
  <2>2. CASE new[m] = draft[m]
    BY <1>2, <1>5, <2>1, <2>2
  <2>3. CASE /\ draft[m].step = "awaitStop" /\ draft[m].waits = r
             /\ new[m].step \in {"awaitDemo", "images"}
    <3>1. /\ draft[m].stopped \subseteq Composer!Runs /\ m \notin server.had
          /\ draft[m].by = None
          /\ \A q \in draft[m].stopped : Over(q) \/ q = r
      BY <2>1, <2>3 DEF StoppedBefore, MessageRecord, Unposted
    <3>2. \A q \in draft[m].stopped : Over(q)'
      BY <1>5, <3>1
    <3>3. /\ new[m].stopped = draft[m].stopped /\ new[m].by = None /\ m \notin server'.had
          /\ new[m].by \notin new[m].stopped
      BY <1>2, <1>5, <3>1 DEF ComposerBounds
    <3>4. new[m] \in StoppedBefore(m)'
      BY <1>2, <2>3, <3>2, <3>3 DEF StoppedBefore, Unposted
    <3> QED BY <1>2, <1>5, <3>4
  <2> QED BY <1>2, <2>2, <2>3
<1> QED BY <1>1, <1>4, <1>5, <1>6, <1>8, ComposerIs, AllStep

\* A stop that failed is none.
LEMMA StopFailsStep ==
  ASSUME ComposerBounds, ComposerInv, NEW r \in Composer!Runs, Composer!StopFails(r)
  PROVE  ComposerInv'
<1> DEFINE new == [m \in Messages |-> [Composer!After(m, r) EXCEPT !.stopped = @ \ {r}]]
<1>1. /\ stop[r] = "asked" /\ stop' = [stop EXCEPT ![r] = "failed"] /\ draft' = new
      /\ server' = server \/ (server.run = r /\ server' = [server EXCEPT !.run = None])
      /\ page' = [page EXCEPT !.pendingStop = IF @ = r THEN None ELSE @]
      /\ UNCHANGED <<upload, seen, toggles>> /\ requestFaults' \in 0 .. MaxFaults
  BY ComposerIs DEF Composer!StopFails, Composer!Fault, ComposerBounds
<1>2. ASSUME NEW m \in Messages
      PROVE  /\ new[m] \in MessageRecord /\ new[m] \in DecidedWell
             /\ new[m].stopped = draft[m].stopped \ {r} /\ new[m].by = draft[m].by
             /\ \/ /\ new[m].step = draft[m].step /\ new[m].waits = draft[m].waits
                   /\ ~(draft[m].step = "awaitStop" /\ draft[m].waits = r)
                \/ /\ draft[m].step = "awaitStop" /\ draft[m].waits = r
                   /\ new[m].step \in {"awaitDemo", "images"}
  <2> DEFINE a == Composer!After(m, r)
             s == [a EXCEPT !.stopped = a.stopped \ {r}]
  <2>1. new[m] = s
    OBVIOUS
  <2>2. /\ a \in MessageRecord /\ a \in DecidedWell
        /\ a.stopped = draft[m].stopped /\ a.by = draft[m].by
        /\ \/ a = draft[m] /\ ~(draft[m].step = "awaitStop" /\ draft[m].waits = r)
           \/ /\ draft[m].step = "awaitStop" /\ draft[m].waits = r
              /\ a.step \in {"awaitDemo", "images"}
    BY AfterIs
  <2> HIDE DEF new, a
  <2>3. /\ s \in MessageRecord /\ s.stopped = draft[m].stopped \ {r} /\ s.by = a.by
        /\ s.step = a.step /\ s.waits = a.waits /\ s.given = a.given /\ s.demo = a.demo
    BY <2>2 DEF MessageRecord
  <2> HIDE DEF s
  <2>4. s \in DecidedWell
    BY <2>2, <2>3 DEF DecidedWell
  <2> QED BY <2>1, <2>2, <2>3, <2>4
<1>3. new = [m \in Messages |-> new[m]]
  OBVIOUS
<1> HIDE DEF new
<1>4. new \in [Messages -> MessageRecord]
  BY <1>2, <1>3
<1>5. /\ server' \in ServerRecord /\ server'.had = server.had
      /\ page' \in PageRecord
      /\ stop' \in [Composer!Runs -> {"none", "asked", "done", "failed"}]
      /\ DemoOK' /\ RunsOK' /\ DecidedWell \subseteq DecidedWell'
      /\ (\A m \in Messages : draft[m].step # "accepted" => draft'[m].step # "accepted")
           => StoppingOK'
      /\ \A q \in Composer!Runs : /\ Over(q) => Over(q)'
                                  /\ q # r => (Stopping(q)' <=> Stopping(q))
  BY <1>1, StopOverIs
<1>6. StoppingOK'
  <2>1. \A m \in Messages : draft[m].step # "accepted" => draft'[m].step # "accepted"
    BY <1>1, <1>2
  <2> QED BY <1>5, <2>1
<1>7. ASSUME NEW m \in Messages PROVE new[m] \in DecidedWell' /\ new[m] \in StoppedBefore(m)'
  <2> DEFINE l == draft[m]
             s == new[m]
  <2>1. /\ l.stopped \subseteq Composer!Runs
        /\ l.step \in Unposted => m \notin server.had /\ l.by = None
        /\ l.step \in {"accepted", "sent"} => m \in server.had
        /\ l.step = "draft" => l.stopped = {}
        /\ l.step = "converting" => \A q \in l.stopped : Over(q) \/ Stopping(q)
        /\ l.step = "awaitStop" => \A q \in l.stopped : Over(q) \/ (Stopping(q) /\ l.waits = q)
        /\ l.step \notin {"converting", "awaitStop"} => \A q \in l.stopped : Over(q)
        /\ l.by \notin l.stopped
    BY ComposerIs DEF StoppedBefore, MessageRecord
  <2>2. /\ s \in MessageRecord /\ s \in DecidedWell
        /\ s.stopped = l.stopped \ {r} /\ s.by = l.by
        /\ \/ /\ s.step = l.step /\ s.waits = l.waits
              /\ ~(l.step = "awaitStop" /\ l.waits = r)
           \/ /\ l.step = "awaitStop" /\ l.waits = r
              /\ s.step \in {"awaitDemo", "images"}
    BY <1>2
  <2> HIDE DEF l, s
  <2>3. s.stopped \subseteq l.stopped /\ r \notin s.stopped /\ s.by \notin s.stopped
    BY <2>1, <2>2
  <2>4. /\ s.step = "converting" => \A q \in s.stopped : Over(q)' \/ Stopping(q)'
        /\ s.step = "awaitStop" => \A q \in s.stopped : Over(q)' \/ (Stopping(q)' /\ s.waits = q)
        /\ s.step \notin {"converting", "awaitStop"} => \A q \in s.stopped : Over(q)'
    BY <1>5, <2>1, <2>2, <2>3
  <2>5. /\ s.step \in Unposted => m \notin server'.had /\ s.by = None
        /\ s.step \in {"accepted", "sent"} => m \in server'.had
        /\ s.step = "draft" => s.stopped = {}
    BY <1>5, <2>1, <2>2, <2>3 DEF Unposted
  <2>6. s \in StoppedBefore(m)'
    BY <2>2, <2>3, <2>4, <2>5 DEF StoppedBefore
  <2> QED BY <1>5, <2>2, <2>6 DEF s
<1> QED BY <1>1, <1>4, <1>5, <1>6, <1>7, ComposerIs, AllStep

\* toggleDemoEnabled: the messages that are past their wait may have either setting.
LEMMA ToggleDemoStep ==
  ASSUME ComposerBounds, ComposerInv, Composer!ToggleDemo
  PROVE  ComposerInv'
<1> DEFINE new == [m \in Messages |->
                    [draft[m] EXCEPT !.demo = IF draft[m].given = None THEN None ELSE @]]
<1>1. draft' = new /\ UNCHANGED <<upload, server, seen, stop, requestFaults>> /\ ~page.saving
  BY DEF Composer!ToggleDemo
<1>2. PICK choice \in BOOLEAN : page' = [page EXCEPT !.choice = choice, !.saving = TRUE]
  BY DEF Composer!ToggleDemo
<1>3. /\ page' \in PageRecord /\ page'.choice = choice /\ page'.saving
      /\ page'.active = page.active /\ page'.pendingStop = page.pendingStop
  BY <1>2, ComposerIs DEF PageRecord
<1>4. toggles' \in 0 .. MaxToggles
  BY ComposerIs DEF Composer!ToggleDemo, ComposerBounds
<1>5. ASSUME NEW m \in Messages
      PROVE  /\ new[m] \in MessageRecord /\ new[m] \in DecidedWell' /\ new[m] \in StoppedBefore(m)
             /\ new[m].step = draft[m].step
  <2> DEFINE demo == IF draft[m].given = None THEN None ELSE draft[m].demo
             s == [draft[m] EXCEPT !.demo = demo]
  <2>1. new[m] = s
    OBVIOUS
  <2>2. /\ draft[m] \in MessageRecord /\ draft[m] \in DecidedWell
        /\ draft[m] \in StoppedBefore(m)
    BY ComposerIs
  <2>3. demo \in BOOLEAN \cup {None}
    BY <2>2 DEF MessageRecord
  <2>4. draft[m].given = None => demo = None
    OBVIOUS
  <2>5. draft[m].given # None => demo = draft[m].demo
    OBVIOUS
  <2> HIDE DEF new, demo
  <2>6. /\ s \in MessageRecord /\ s.demo = demo /\ s.given = draft[m].given
        /\ s.step = draft[m].step /\ s.stopped = draft[m].stopped
        /\ s.by = draft[m].by /\ s.waits = draft[m].waits
    BY <2>2, <2>3 DEF MessageRecord
  <2> HIDE DEF s
  <2>7. s \in DecidedWell'
    BY <2>2, <2>4, <2>5, <2>6 DEF DecidedWell
  <2>8. s \in StoppedBefore(m)
    BY <2>2, <2>6 DEF StoppedBefore
  <2> QED BY <2>1, <2>6, <2>7, <2>8
<1>6. new = [m \in Messages |-> new[m]]
  OBVIOUS
<1> HIDE DEF new
<1>7. new \in [Messages -> MessageRecord]
  BY <1>5, <1>6
<1>8. DemoOK'
  BY <1>3 DEF DemoOK, ComposerBounds
<1>9. RunsOK'
  BY <1>1, <1>3, SameRuns DEF ComposerInv, RunsOK
<1>10. StoppingOK'
  BY <1>1, <1>3, <1>5, SameRuns DEF ComposerInv, StoppingOK
<1>11. \A m \in Messages : new[m] \in DecidedWell' /\ new[m] \in StoppedBefore(m)'
  BY <1>1, <1>5, SameRuns
<1> QED BY <1>1, <1>3, <1>4, <1>7, <1>8, <1>9, <1>10, <1>11, ComposerIs, AllStep

\* The save is answered: the setting is what was shown while it was saved, or is shown as
\* it is again.
LEMMA DemoAnsweredStep ==
  ASSUME ComposerBounds, ComposerInv, Composer!DemoSaved \/ Composer!DemoNotSaved
  PROVE  ComposerInv'
<1>1. /\ page.saving /\ page.choice \in BOOLEAN /\ page.choice # None
      /\ UNCHANGED <<upload, seen, stop, toggles>>
  BY ComposerIs
  DEF Composer!DemoSaved, Composer!DemoNotSaved, ComposerInv, DemoOK, PageRecord
<1>2. ASSUME NEW m \in Messages
      PROVE  /\ draft[m] \in MessageRecord /\ draft[m] \in DecidedWell
             /\ draft[m] \in StoppedBefore(m)
             /\ draft[m].given = None => draft[m].demo = None
             /\ draft[m].step = "awaitDemo" =>
                  /\ draft[m].given = None /\ \A r \in draft[m].stopped : Over(r)
  BY <1>1, ComposerIs DEF DecidedWell, StoppedBefore
<1>3. /\ server' \in ServerRecord /\ server'.run = server.run /\ server'.had = server.had
      /\ page' \in PageRecord /\ ~page'.saving /\ page'.choice \in {None, server'.demo}
      /\ page'.active = page.active /\ page'.pendingStop = page.pendingStop
      /\ requestFaults' \in 0 .. MaxFaults
  <2>1. CASE Composer!DemoSaved
    <3>1. /\ server' = [server EXCEPT !.demo = page.choice] /\ requestFaults' = requestFaults
          /\ page' = [page EXCEPT !.saving = FALSE]
      BY <2>1 DEF Composer!DemoSaved
    <3>2. /\ server' \in ServerRecord /\ server'.run = server.run /\ server'.had = server.had
          /\ server'.demo = page.choice
      BY <1>1, <3>1, ComposerIs DEF ServerRecord
    <3>3. /\ page' \in PageRecord /\ ~page'.saving /\ page'.choice = page.choice
          /\ page'.active = page.active /\ page'.pendingStop = page.pendingStop
      BY <3>1, ComposerIs DEF PageRecord
    <3> QED BY <3>1, <3>2, <3>3, ComposerIs
  <2>2. CASE Composer!DemoNotSaved
    <3>1. page' = [page EXCEPT !.saving = FALSE, !.choice = None] /\ UNCHANGED server
      BY <2>2 DEF Composer!DemoNotSaved
    <3>2. /\ page' \in PageRecord /\ ~page'.saving /\ page'.choice = None
          /\ page'.active = page.active /\ page'.pendingStop = page.pendingStop
      BY <3>1, ComposerIs DEF PageRecord
    <3>3. requestFaults' \in 0 .. MaxFaults
      BY <2>2, ComposerIs DEF Composer!DemoNotSaved, Composer!Fault, ComposerBounds
    <3> QED BY <3>1, <3>2, <3>3, ComposerIs
  <2> QED BY <2>1, <2>2
<1>4. /\ \A r \in Composer!Runs : (Over(r)' <=> Over(r)) /\ (Stopping(r)' <=> Stopping(r))
      /\ StopFrame
  <2>1. \A r \in Composer!Runs : (Over(r)' <=> Over(r)) /\ (Stopping(r)' <=> Stopping(r))
    BY <1>1, <1>3 DEF Over, Stopping
  <2> QED BY <1>3, <2>1 DEF StopFrame
<1>5. \A m \in Messages : StoppedBefore(m) \subseteq StoppedBefore(m)'
  BY <1>3, <1>4, StoppedBeforeStays
<1>6. ASSUME NEW m \in Messages, draft[m].step # "awaitDemo"
      PROVE  draft[m] \in DecidedWell'
  BY <1>2, <1>6 DEF DecidedWell
<1>7. ASSUME NEW m \in Messages
      PROVE  /\ draft'[m] \in MessageRecord /\ draft'[m] \in DecidedWell'
             /\ draft'[m] \in StoppedBefore(m)'
             /\ draft[m].step # "accepted" => draft'[m].step # "accepted"
  <2>1. CASE draft[m].step # "awaitDemo"
    <3>1. draft'[m] = draft[m]
      BY <2>1 DEF Composer!DemoSaved, Composer!DemoNotSaved, Composer!At
    <3> QED BY <1>2, <1>5, <1>6, <2>1, <3>1
  <2>2. CASE draft[m].step = "awaitDemo" /\ Composer!DemoSaved
    <3> DEFINE s == Composer!OnceDecided(draft[m])
    <3>1. draft'[m] = s /\ server' = [server EXCEPT !.demo = page.choice]
      BY <2>2 DEF Composer!DemoSaved, Composer!At
    <3>2. Composer!Shown = page.choice
      BY <1>1 DEF Composer!Shown
    <3>3. /\ s \in MessageRecord /\ s.step = "images" /\ s.given = None
          /\ s.demo = page.choice /\ s.stopped = draft[m].stopped /\ s.by = draft[m].by
      BY <1>2, <2>2, <3>2, OnceDecidedIs
    <3> HIDE DEF s
    <3>4. server'.demo = page.choice
      BY <3>1, ComposerIs DEF ServerRecord
    <3>5. s \in DecidedWell'
      BY <1>3, <3>3, <3>4 DEF DecidedWell
    <3>6. s \in StoppedBefore(m)
      BY <1>2, <2>2, <3>3, StillBefore DEF Unposted
    <3> QED BY <1>5, <3>1, <3>3, <3>5, <3>6
  <2>3. CASE draft[m].step = "awaitDemo" /\ Composer!DemoNotSaved
    <3> DEFINE s == [draft[m] EXCEPT !.step = "dropped"]
    <3>1. draft'[m] = s
      BY <2>3 DEF Composer!DemoNotSaved, Composer!At
    <3>2. /\ s \in MessageRecord /\ s.step = "dropped" /\ s.given = draft[m].given
          /\ s.demo = draft[m].demo /\ s.stopped = draft[m].stopped /\ s.by = draft[m].by
      BY <1>2 DEF MessageRecord, Composer!Steps
    <3> HIDE DEF s
    <3>3. s \in DecidedWell'
      BY <1>2, <2>3, <3>2 DEF DecidedWell
    <3>4. s \in StoppedBefore(m)
      BY <1>2, <2>3, <3>2, StillBefore DEF Unposted
    <3> QED BY <1>5, <3>1, <3>2, <3>3, <3>4
  <2> QED BY <2>1, <2>2, <2>3
<1>8. draft' = [m \in Messages |-> draft'[m]]
  BY DEF Composer!DemoSaved, Composer!DemoNotSaved
<1>9. draft' \in [Messages -> MessageRecord]
  BY <1>7, <1>8
<1>10. DemoOK'
  BY <1>3 DEF DemoOK
<1>11. RunsOK'
  BY <1>1, <1>3, <1>4 DEF ComposerInv, RunsOK
<1>12. StoppingOK'
  BY <1>3, <1>4, <1>7 DEF ComposerInv, StoppingOK
<1>13. Composer!TypeOK'
  BY <1>1, <1>3, <1>9, ComposerIs, ComposerTyped
  DEF Composer!TypeOK, MessageRecord, PageRecord, ServerRecord
<1> QED BY <1>7, <1>10, <1>11, <1>12, <1>13 DEF ComposerInv

\* ComposerKeepsItsWord: a run records a demo exactly when the composer said so as its
\* message was sent, unless the setting was changed after that, and a message is not refused
\* for a run the user had stopped before submitting it, unless that request failed.
THEOREM ComposerKeepsItsWordHolds ==
  ASSUME ComposerBounds
  PROVE  Composer!Spec => [](Composer!TypeOK /\ Composer!SentAsShown /\ Composer!StopComesFirst)
<1>1. Composer!Init => ComposerInv
  <2> SUFFICES ASSUME Composer!Init PROVE ComposerInv
    OBVIOUS
  <2> DEFINE unsent == [step |-> "draft", demo |-> None, given |-> None, waits |-> None,
                       stopped |-> {}, by |-> None]
  <2>1. /\ draft = [m \in Messages |-> unsent]
        /\ upload = [m \in Images |-> "uploading"]
        /\ page = [status |-> "ready", active |-> None, resumed |-> {}, pendingStop |-> None,
                   choice |-> None, saving |-> FALSE]
        /\ server = [run |-> None, demo |-> FALSE, had |-> {}] /\ seen = None
        /\ stop = [r \in Composer!Runs |-> "none"] /\ toggles = 0 /\ requestFaults = 0
    BY DEF Composer!Init
  <2>2. unsent \in MessageRecord /\ unsent \in DecidedWell /\ \A m \in Messages : unsent \in StoppedBefore(m)
    BY <2>1 DEF MessageRecord, Composer!Steps, DecidedWell, StoppedBefore, Unposted
  <2> HIDE DEF unsent
  <2>3. page \in PageRecord /\ server \in ServerRecord /\ toggles \in 0 .. MaxToggles
        /\ requestFaults \in 0 .. MaxFaults
    BY <2>1 DEF PageRecord, ServerRecord, ComposerBounds
  <2>4. Composer!TypeOK
    BY <2>1, <2>2, <2>3, ComposerTyped
  <2>5. DemoOK /\ RunsOK /\ StoppingOK
    BY <2>1 DEF DemoOK, RunsOK, StoppingOK, Stopping, ComposerBounds
  <2> QED BY <2>1, <2>2, <2>4, <2>5 DEF ComposerInv
<1>2. ComposerBounds /\ ComposerInv /\ [Composer!Next]_Composer!vars => ComposerInv'
  <2> SUFFICES ASSUME ComposerInv, [Composer!Next]_Composer!vars PROVE ComposerInv'
    OBVIOUS
  <2>1. CASE UNCHANGED Composer!vars
    <3>1. UNCHANGED <<draft, upload, page, server, seen, stop, toggles, requestFaults>>
      BY <2>1 DEF Composer!vars
    <3> QED BY <3>1, ComposerIs, PageNow, PageStep
  <2>2. ASSUME NEW m \in Messages,
               \/ Composer!Submit(m) \/ Composer!SubmitMessage(m)
               \/ Composer!SendMessage(m) \/ Composer!Post(m) \/ Composer!Answered(m)
        PROVE  ComposerInv'
    BY <2>2, SubmitStep, SubmitMessageStep, SendMessageStep, ComposerPostStep, AnsweredStep
  <2>3. ASSUME NEW m \in Images, Composer!UploadEnds(m) PROVE ComposerInv'
    BY <2>3, UploadEndsStep
  <2>4. ASSUME NEW r \in Composer!Runs, Composer!StopAnswered(r) \/ Composer!StopFails(r)
        PROVE  ComposerInv'
    BY <2>4, StopAnsweredStep, StopFailsStep
  <2> QED BY <2>1, <2>2, <2>3, <2>4, ServerStep, FollowStep, StopGenerationStep, ToggleDemoStep,
       DemoAnsweredStep DEF Composer!Next
<1>3. ComposerInv => Composer!TypeOK /\ Composer!SentAsShown /\ Composer!StopComesFirst
  BY
  DEF ComposerInv, DecidedWell, StoppedBefore, Composer!SentAsShown, Composer!StopComesFirst
<1> QED BY <1>1, <1>2, <1>3, PTL DEF Composer!Spec
=============================================================================
