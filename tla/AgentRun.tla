------------------------------ MODULE AgentRun ------------------------------
(***************************************************************************)
(* Agent runs of one thread over the task transport.  Four kinds of        *)
(* process change the thread, none of which waits for another:             *)
(*   - the POST that starts a run (routes/.../thread/$threadId/agent.ts);  *)
(*   - the Trigger.dev task that executes it (trigger/agent.ts);           *)
(*   - requests that read a run's stream or stop it (agent/$runId/*.ts),   *)
(*     which reconcile the thread with what Trigger.dev says of the run;   *)
(*   - Trigger.dev, which creates, cancels and ends runs.                  *)
(*                                                                         *)
(* A turn is a user message.  createTurn gives it one assistant message,   *)
(* and the idempotency key of that message one run, so the turn names all  *)
(* three; an expired key (2 h) and the session transport are left out.     *)
(* isLive and currentRunId are always written together: thread.current.    *)
(***************************************************************************)
EXTENDS Naturals

CONSTANTS
  Turns,          \* user messages
  Posts,          \* agent POSTs; each names its persistence token and grant
  Readers,        \* requests that read the stream of a run, or stop it
  None,
  VisibilityLag,  \* may a created run be unknown to runs.retrieve for a while?
  Faults,         \* kinds of failures the environment may inject
  MaxFaults       \* bound: failures injected in one behaviour

\* refused, lost: a Convex call fails, before or after it took effect;
\* no_run, no_answer: tasks.trigger fails, before or after it made the run;
\* error: the agent fails; worker, crash: the worker, a web process dies.
FaultKinds ==
  {"refused", "lost", "no_run", "no_answer", "error", "worker", "crash"}

AgentRunAssumption ==
  /\ None \notin Turns \cup Posts
  /\ VisibilityLag \in BOOLEAN
  /\ Faults \subseteq FaultKinds
  /\ MaxFaults \in Nat

VARIABLES
  thread,   \* currentRunId and agentRunIssue of the thread
  message,  \* the assistant message of each turn
  run,      \* the Trigger.dev run of each turn, with its task
  grant,    \* the model credential grant each POST puts into the vault
  post,     \* the local state of each POST
  reader,   \* the local state of each stream or stop request
  faults    \* failures injected so far

vars == <<thread, message, run, grant, post, reader, faults>>

-----------------------------------------------------------------------------
TaskPC == {"boot", "stream", "persist", "finish", "mark", "report", "close",
           "remark", "hook", "cancel", "cancelMark", "done"}
Verdict == {"finished", "failed"}

\* finish: its stream has the finish marker; broke: the task threw or its
\* worker died; reported: its failure is on record.
NoRun == [status |-> "none", pc |-> "done", token |-> None, visible |-> FALSE,
          finish |-> FALSE, broke |-> FALSE, aborted |-> FALSE,
          reported |-> FALSE]

TypeOK ==
  /\ thread \in [current : Turns \cup {None}, issue : Turns \cup {None},
                 root : BOOLEAN]
  /\ message \in [Turns -> [token : Posts \cup {None},
                            parts : {"absent", "empty", "partial", "full"}]]
  /\ run \in [Turns -> [status : {"none", "executing", "completed", "failed",
                                  "cancelled"},
                        pc : TaskPC, token : Posts \cup {None},
                        visible : BOOLEAN, finish : BOOLEAN, broke : BOOLEAN,
                        aborted : BOOLEAN, reported : BOOLEAN]]
  /\ grant \in [Posts -> {"none", "live", "gone"}]
  /\ post \in [Posts -> [pc : {"new", "lookup", "reconcile", "turn", "trigger",
                               "mark", "release", "end"},
                         turn : Turns \cup {None}, seen : Turns \cup {None},
                         verdict : Verdict]]
  /\ reader \in [Readers -> [pc : {"idle", "open", "read", "look", "cancel",
                                   "patch", "reconcile"},
                             turn : Turns \cup {None},
                             seen : Turns \cup {None}, verdict : Verdict]]
  /\ faults \in 0 .. MaxFaults

IdleReader == [pc |-> "idle", turn |-> None, seen |-> None, verdict |-> "finished"]

Init ==
  /\ thread = [current |-> None, issue |-> None, root |-> FALSE]
  /\ message = [m \in Turns |-> [token |-> None, parts |-> "absent"]]
  /\ run = [m \in Turns |-> NoRun]
  /\ grant = [p \in Posts |-> "none"]
  /\ post = [p \in Posts |-> [pc |-> "new", turn |-> None, seen |-> None,
                              verdict |-> "finished"]]
  /\ reader = [r \in Readers |-> IdleReader]
  /\ faults = 0

Inject(kind) ==
  /\ kind \in Faults
  /\ faults < MaxFaults
  /\ faults' = faults + 1

-----------------------------------------------------------------------------
(* Convex mutations on the thread. *)

\* A run that already reported its failure is not marked live again.
MarkRunStarted(m) ==
  thread' = IF thread.issue = m
            THEN [thread EXCEPT !.current = None]
            ELSE [current |-> m, issue |-> None, root |-> FALSE]

\* Only the current run, or any run when none is current, settles the thread.
MaySettle(m) == thread.current \in {None, m}

SettleAnyRun(m) ==  \* mutant: the current run is not compared
  thread' = [thread EXCEPT !.current = None]
ApplyRunFinished(m) ==
  thread' = IF MaySettle(m) THEN [thread EXCEPT !.current = None] ELSE thread

IssueOfToken(m, root) ==  \* mutant: the issue names the wrong thing
  thread' = [current |-> None, issue |-> run[m].token, root |-> root]
\* The task's own report replaces a generic one of the same run.
ApplyRunIssue(m, root) ==
  thread' = IF MaySettle(m) /\ (thread.issue = m => root)
            THEN [current |-> None, issue |-> m, root |-> root]
            ELSE thread

\* reconcileThreadWithTriggerRun
Reconcile(m, verdict) ==
  IF verdict = "failed" THEN ApplyRunIssue(m, FALSE) ELSE ApplyRunFinished(m)

-----------------------------------------------------------------------------
(* What Trigger.dev says of a run. *)

Found(m) == run[m].status # "none" /\ run[m].visible
Terminal(m) == run[m].status \in {"completed", "failed", "cancelled"}

\* A cancelled run counts as failed with Trigger.dev, but not with the code.
VerdictOf(m) ==
  IF Found(m) /\ run[m].status = "failed" THEN "failed" ELSE "finished"

-----------------------------------------------------------------------------
(* The POST that starts a run. *)

PostAt(p, pc) == post[p].pc = pc
PostGoto(p, pc) == post' = [post EXCEPT ![p].pc = pc]

\* The thread is loaded once, before anything else.
Submit(p, m) ==
  /\ PostAt(p, "new")
  /\ post' = [post EXCEPT ![p].pc = IF thread.current = None THEN "turn" ELSE "lookup",
                          ![p].turn = m, ![p].seen = thread.current]
  /\ UNCHANGED <<thread, message, run, grant, reader, faults>>

\* A live run answers the POST: accepted if it is this turn's, else refused.
Lookup(p) ==
  LET seen == post[p].seen
  IN  /\ PostAt(p, "lookup")
      /\ IF Found(seen) /\ ~Terminal(seen)
         THEN PostGoto(p, "end")
         ELSE post' = [post EXCEPT ![p].pc = "reconcile",
                                   ![p].verdict = VerdictOf(seen)]
      /\ UNCHANGED <<thread, message, run, grant, reader, faults>>

ReconcileSeen(p) ==
  /\ PostAt(p, "reconcile")
  /\ \/ Reconcile(post[p].seen, post[p].verdict)
        /\ PostGoto(p, "turn") /\ UNCHANGED faults
     \/ Reconcile(post[p].seen, post[p].verdict)
        /\ PostGoto(p, "end") /\ Inject("lost")
     \/ UNCHANGED thread /\ PostGoto(p, "end") /\ Inject("refused")
  /\ UNCHANGED <<message, run, grant, reader>>

\* createAgentModelOptions puts a grant into the vault, then createTurn makes
\* the assistant message; a turn that has one keeps it, with its token.
CreateTurn(p) ==
  LET m == post[p].turn
      created == message' = IF message[m].parts = "absent"
                            THEN [message EXCEPT ![m] = [token |-> p, parts |-> "empty"]]
                            ELSE message
  IN  /\ PostAt(p, "turn")
      /\ grant' = [grant EXCEPT ![p] = "live"]
      /\ \/ created /\ PostGoto(p, "trigger") /\ UNCHANGED faults
         \/ created /\ PostGoto(p, "release") /\ Inject("lost")
         \/ UNCHANGED message /\ PostGoto(p, "release") /\ Inject("refused")
      /\ UNCHANGED <<thread, run, reader>>

\* tasks.trigger: the idempotency key of a turn that has a run finds that run.
Created(p) ==
  LET m == post[p].turn
  IN  IF run[m].status = "none"
      THEN run' = [run EXCEPT ![m] = [NoRun EXCEPT
                     !.status = "executing", !.pc = "boot", !.token = p,
                     !.visible = ~VisibilityLag]]
      ELSE UNCHANGED run

TriggerRun(p) ==
  /\ PostAt(p, "trigger")
  /\ \/ Created(p) /\ PostGoto(p, "mark") /\ UNCHANGED faults
     \/ Created(p) /\ PostGoto(p, "release") /\ Inject("no_answer")
     \/ UNCHANGED run /\ PostGoto(p, "release") /\ Inject("no_run")
  /\ UNCHANGED <<thread, message, grant, reader>>

\* The grant was transferred: an error here releases nothing.
MarkStarted(p) ==
  /\ PostAt(p, "mark")
  /\ \/ MarkRunStarted(post[p].turn) /\ UNCHANGED faults
     \/ MarkRunStarted(post[p].turn) /\ Inject("lost")
     \/ UNCHANGED thread /\ Inject("refused")
  /\ PostGoto(p, "end")
  /\ UNCHANGED <<message, run, grant, reader>>

\* grantLifecycle.release after an error before the transfer.
ReleaseGrant(p) ==
  /\ PostAt(p, "release")
  /\ grant' = [grant EXCEPT ![p] = "gone"]
  /\ PostGoto(p, "end")
  /\ UNCHANGED <<thread, message, run, reader, faults>>

PostDies(p) ==
  /\ post[p].pc \notin {"new", "end"}
  /\ Inject("crash")
  /\ PostGoto(p, "end")
  /\ UNCHANGED <<thread, message, run, grant, reader>>

-----------------------------------------------------------------------------
(* The task: runAgentTask and the hooks of agentTask. *)

TaskAt(m, pc) == run[m].pc = pc
Active(m) == run[m].status # "none" /\ ~TaskAt(m, "done")

\* The calls of the task are authorised by the token the message holds.
Authorised(m) == message[m].token = run[m].token

\* An authorised call consumes the token and settles the thread.
FinishFromAgent(m) ==
  /\ ApplyRunFinished(m)
  /\ message' = [message EXCEPT ![m].token = None]
IssueFromAgent(m) ==
  /\ ApplyRunIssue(m, TRUE)
  /\ message' = [message EXCEPT ![m].token = None]
PatchFromAgent(m) ==
  /\ message' = [message EXCEPT ![m].parts = "full"]
  /\ UNCHANGED thread

\* A call answers and the task becomes ok; it is unauthorised and the task
\* becomes denied; or it fails, applied or not, and the task becomes bad.
TaskCall(m, call, ok, denied, bad) ==
  /\ \/ /\ Authorised(m) /\ call
        /\ \/ run' = [run EXCEPT ![m] = ok] /\ UNCHANGED faults
           \/ run' = [run EXCEPT ![m] = bad] /\ Inject("lost")
     \/ /\ ~Authorised(m) /\ UNCHANGED <<thread, message>>
        /\ run' = [run EXCEPT ![m] = denied] /\ UNCHANGED faults
     \/ /\ UNCHANGED <<thread, message>>
        /\ run' = [run EXCEPT ![m] = bad] /\ Inject("refused")
  /\ UNCHANGED <<grant, post, reader>>

Task(m, pc) == [run[m] EXCEPT !.pc = pc]
Broken(m, pc) == [run[m] EXCEPT !.pc = pc, !.broke = TRUE]

\* The model is created with the vaulted credentials, which are taken out;
\* before that the task may fail to open its stream, outside of any try.
RedeemGrant(m) ==
  /\ TaskAt(m, "boot")
  /\ grant' = [grant EXCEPT ![run[m].token] = "gone"]
  /\ \/ /\ run' = [run EXCEPT ![m] = IF grant[run[m].token] = "live"
                                     THEN Task(m, "stream") ELSE Broken(m, "report")]
        /\ UNCHANGED faults
     \/ run' = [run EXCEPT ![m] = Broken(m, "hook")] /\ Inject("error")
  /\ UNCHANGED <<thread, message, post, reader>>

Stream(m) ==
  /\ TaskAt(m, "stream")
  /\ \/ run' = [run EXCEPT ![m] = Task(m, "persist")] /\ UNCHANGED faults
     \/ run' = [run EXCEPT ![m] = Broken(m, "report")] /\ Inject("error")
  /\ UNCHANGED <<thread, message, grant, post, reader>>

FinishBeforePersist(m) ==  \* mutant: finish is not withheld
  /\ TaskAt(m, "persist")
  /\ run' = [run EXCEPT ![m] = [Task(m, "mark") EXCEPT !.finish = TRUE]]
  /\ UNCHANGED <<thread, message, grant, post, reader, faults>>
\* finalizeAgentUIMessageStream persists the reply before it ends the stream.
PersistReply(m) ==
  /\ TaskAt(m, "persist")
  /\ TaskCall(m, PatchFromAgent(m),
              Task(m, "finish"), Broken(m, "report"), Broken(m, "report"))

StreamFinish(m) ==
  /\ TaskAt(m, "finish")
  /\ run' = [run EXCEPT ![m] = [Task(m, "mark") EXCEPT !.finish = TRUE]]
  /\ UNCHANGED <<thread, message, grant, post, reader, faults>>

MarkFinished(m) ==
  /\ TaskAt(m, "mark")
  /\ TaskCall(m, FinishFromAgent(m),
              Task(m, "done"), Task(m, "remark"), Broken(m, "report"))

\* catch: reportAgentFailure never throws.
Report(m) ==
  /\ TaskAt(m, "report")
  /\ TaskCall(m, IssueFromAgent(m),
              [Task(m, "close") EXCEPT !.reported = TRUE],
              Task(m, "close"), Task(m, "close"))

\* finally: end the stream of a run that was not aborted, and settle the run
\* unless its report did.
CloseStream(m) ==
  /\ TaskAt(m, "close")
  /\ run' = [run EXCEPT ![m] =
               [Task(m, IF run[m].reported THEN "hook" ELSE "remark")
                  EXCEPT !.finish = @ \/ ~run[m].aborted]]
  /\ UNCHANGED <<thread, message, grant, post, reader, faults>>

MarkFinishedAfterwards(m) ==
  LET next == Task(m, IF run[m].broke THEN "hook" ELSE "done")
  IN  /\ TaskAt(m, "remark")
      /\ TaskCall(m, FinishFromAgent(m), next, next,
                  IF run[m].aborted THEN next ELSE Broken(m, "hook"))

\* onFailure reports once more, unless the run was aborted.
OnFailure(m) ==
  /\ TaskAt(m, "hook")
  /\ IF run[m].aborted
     THEN /\ run' = [run EXCEPT ![m] = Task(m, "done")]
          /\ UNCHANGED <<thread, message, grant, post, reader, faults>>
     ELSE TaskCall(m, IssueFromAgent(m),
                   Task(m, "done"), Task(m, "done"), Task(m, "done"))

\* The abort signal reaches the task; what it had under way may still happen.
Abort(m) ==
  /\ run[m].aborted
  /\ run[m].pc \notin {"hook", "cancel", "cancelMark", "done"}
  /\ run' = [run EXCEPT ![m] = Task(m, "cancel")]
  /\ UNCHANGED <<thread, message, grant, post, reader, faults>>

\* onCancel: close the stream, settle the run.
OnCancel(m) ==
  /\ TaskAt(m, "cancel")
  /\ run' = [run EXCEPT ![m] = [Task(m, "cancelMark") EXCEPT !.finish = TRUE]]
  /\ UNCHANGED <<thread, message, grant, post, reader, faults>>

OnCancelMark(m) ==
  /\ TaskAt(m, "cancelMark")
  /\ TaskCall(m, FinishFromAgent(m),
              Task(m, "done"), Task(m, "done"), Task(m, "done"))

TaskStep(m) ==
  \/ RedeemGrant(m) \/ Stream(m) \/ PersistReply(m) \/ StreamFinish(m)
  \/ MarkFinished(m) \/ Report(m) \/ CloseStream(m) \/ MarkFinishedAfterwards(m)
  \/ OnFailure(m) \/ Abort(m) \/ OnCancel(m) \/ OnCancelMark(m)

\* The worker dies: no hook runs.
WorkerDies(m) ==
  /\ Active(m)
  /\ Inject("worker")
  /\ run' = [run EXCEPT ![m] = [Task(m, "done") EXCEPT
                                  !.broke = @ \/ ~run[m].aborted]]
  /\ UNCHANGED <<thread, message, grant, post, reader>>

\* Trigger.dev records how a run ended, before or after its hook.
RunEnds(m) ==
  /\ run[m].status = "executing"
  /\ run[m].pc \in {"hook", "done"}
  /\ run' = [run EXCEPT ![m].status = IF run[m].broke THEN "failed" ELSE "completed"]
  /\ UNCHANGED <<thread, message, grant, post, reader, faults>>

\* A created run becomes visible to other requests.
BecomeVisible(m) ==
  /\ run[m].status # "none" /\ ~run[m].visible
  /\ run' = [run EXCEPT ![m].visible = TRUE]
  /\ UNCHANGED <<thread, message, grant, post, reader, faults>>

-----------------------------------------------------------------------------
(* Requests that read the stream of a run, and requests that stop one. *)

ReaderAt(r, pc) == reader[r].pc = pc
ReaderGoto(r, pc) == reader' = [reader EXCEPT ![r].pc = pc]
ReconcileWith(r, verdict) ==
  reader' = [reader EXCEPT ![r].pc = "reconcile", ![r].verdict = verdict]

\* A client attaches to the run of the thread, or stops it.
OpenStream(r) ==
  /\ ReaderAt(r, "idle")
  /\ thread.current # None
  /\ reader' = [reader EXCEPT ![r] = [pc |-> "open", turn |-> thread.current,
                                      seen |-> None, verdict |-> "finished"]]
  /\ UNCHANGED <<thread, message, run, grant, post, faults>>
RequestStop(r) ==
  /\ ReaderAt(r, "idle")
  /\ thread.current # None
  /\ reader' = [reader EXCEPT ![r] = [pc |-> "look", turn |-> thread.current,
                                      seen |-> None, verdict |-> "finished"]]
  /\ UNCHANGED <<thread, message, run, grant, post, faults>>

\* The route loads the thread for itself.
LoadThread(r) ==
  /\ ReaderAt(r, "open")
  /\ reader' = [reader EXCEPT ![r].pc = "read", ![r].seen = thread.current]
  /\ UNCHANGED <<thread, message, run, grant, post, faults>>

WaitForever(r) ==  \* mutant: a stream without its finish is never settled
  LET m == reader[r].turn
  IN  /\ ReaderAt(r, "read")
      /\ IF Found(m) /\ run[m].finish THEN ReconcileWith(r, "finished")
                                      ELSE ReaderGoto(r, "idle")
      /\ UNCHANGED <<thread, message, run, grant, post, faults>>

\* A run that is not visible yet keeps its client attached for as long as the
\* thread names it; a stream that ended without a finish asks for the status.
ReadStream(r) ==
  LET m == reader[r].turn
  IN  /\ ReaderAt(r, "read")
      /\ \/ /\ ~Found(m) /\ reader[r].seen = m
            /\ ReaderGoto(r, "idle")
         \/ /\ ~Found(m) /\ reader[r].seen # m
            /\ ReconcileWith(r, "finished")
         \/ /\ Found(m) /\ run[m].finish
            /\ ReconcileWith(r, "finished")
         \/ /\ Found(m) /\ ~run[m].finish
            /\ IF Terminal(m) THEN ReconcileWith(r, VerdictOf(m))
                              ELSE ReaderGoto(r, "idle")
      /\ UNCHANGED <<thread, message, run, grant, post, faults>>

\* The cancel route looks the run up before and after it cancels it.
LookBeforeCancel(r) ==
  LET m == reader[r].turn
  IN  /\ ReaderAt(r, "look")
      /\ IF Found(m) /\ ~Terminal(m) THEN ReaderGoto(r, "cancel")
                                     ELSE ReconcileWith(r, VerdictOf(m))
      /\ UNCHANGED <<thread, message, run, grant, post, faults>>

CancelRun(r) ==
  LET m == reader[r].turn
  IN  /\ ReaderAt(r, "cancel")
      /\ run' = IF run[m].status = "executing"
                THEN [run EXCEPT ![m].status = "cancelled", ![m].aborted = TRUE]
                ELSE run
      /\ ReaderGoto(r, "patch")
      /\ UNCHANGED <<thread, message, grant, post, faults>>

\* What the client had seen of the reply is kept; whatever happens to that
\* call, the route goes on to reconcile.
PatchStopped(r) ==
  LET m == reader[r].turn
  IN  /\ ReaderAt(r, "patch")
      /\ \/ UNCHANGED message
         \/ /\ run[m].status = "cancelled"
            /\ message' = [message EXCEPT ![m].parts = "partial"]
      /\ ReconcileWith(r, VerdictOf(m))
      /\ UNCHANGED <<thread, run, grant, post, faults>>

ReconcileRead(r) ==
  /\ ReaderAt(r, "reconcile")
  /\ \/ Reconcile(reader[r].turn, reader[r].verdict) /\ UNCHANGED faults
     \/ Reconcile(reader[r].turn, reader[r].verdict) /\ Inject("lost")
     \/ UNCHANGED thread /\ Inject("refused")
  /\ reader' = [reader EXCEPT ![r] = IdleReader]
  /\ UNCHANGED <<message, run, grant, post>>

ReaderDies(r) ==
  /\ ~ReaderAt(r, "idle")
  /\ Inject("crash")
  /\ reader' = [reader EXCEPT ![r] = IdleReader]
  /\ UNCHANGED <<thread, message, run, grant, post>>

ReaderStep(r) ==
  \/ LoadThread(r) \/ ReadStream(r) \/ LookBeforeCancel(r) \/ CancelRun(r)
  \/ PatchStopped(r) \/ ReconcileRead(r)

-----------------------------------------------------------------------------
PostStep(p) ==
  \/ Lookup(p) \/ ReconcileSeen(p) \/ CreateTurn(p) \/ TriggerRun(p)
  \/ MarkStarted(p) \/ ReleaseGrant(p)

Next ==
  \/ \E p \in Posts : \/ \E m \in Turns : Submit(p, m)
                      \/ PostStep(p) \/ PostDies(p)
  \/ \E m \in Turns : TaskStep(m) \/ WorkerDies(m) \/ RunEnds(m) \/ BecomeVisible(m)
  \/ \E r \in Readers : \/ OpenStream(r) \/ RequestStop(r)
                        \/ ReaderStep(r) \/ ReaderDies(r)

Spec == Init /\ [][Next]_vars

\* Web processes, workers and Trigger.dev go on with what they have begun, and
\* a client that has the thread open stays attached to the run it names.
\* Submitting, stopping and failing are owed by nobody.
FairSpec ==
  /\ Spec
  /\ \A p \in Posts : WF_vars(PostStep(p))
  /\ \A m \in Turns : WF_vars(TaskStep(m) \/ RunEnds(m)) /\ WF_vars(BecomeVisible(m))
  /\ \A r \in Readers : WF_vars(OpenStream(r)) /\ WF_vars(ReaderStep(r))

-----------------------------------------------------------------------------
(* Properties. *)

\* "A user-requested stop must not become a run issue": the thread shows an
\* issue only of a run that failed by itself.
IssueIsAFailure == thread.issue # None => run[thread.issue].broke

\* "The terminal marker follows final metadata and persistence.  Readers may
\* settle the run as soon as they receive that marker": the reply of a run
\* that ended its stream without failing or being stopped is in the message.
FinishedReplyIsPersisted ==
  \A m \in Turns : run[m].finish /\ ~run[m].broke /\ ~run[m].aborted
    => message[m].parts = "full"

\* A grant belongs to the POST until it is transferred, then to the run: the
\* run finds the credentials it was given.
RunCanStart ==
  \A m \in Turns : TaskAt(m, "boot") => grant[run[m].token] = "live"

\* What a turn is told, given and left with: its run finds its credentials, its
\* reply is there when its stream says so, and only a failure is an issue.
TurnIsServed == IssueIsAFailure /\ FinishedReplyIsPersisted /\ RunCanStart

\* A run that has not ended, failed or been stopped stays the thread's current
\* run, unless a newer start takes its place: stale lookups and the reports of
\* other runs do not make the thread look idle.
HasEnded(m) == \/ run[m].finish \/ run[m].broke \/ run[m].aborted \/ Terminal(m)
               \/ TaskAt(m, "done")
LiveRunStays ==
  \A m \in Turns : thread.current = m /\ ~HasEnded(m) => thread'.current # None
LiveRunStaysCurrent == [][LiveRunStays]_vars

\* The root exception a task reported is not replaced by the generic failure
\* of the same run that a reader saw.
RootCauseStays == thread.root /\ thread'.issue = thread.issue => thread'.root

\* "An agent run is already active for this thread": one run at a time.
OneActiveRun ==
  \A m, n \in Turns : run[m].pc \in {"boot", "stream"} /\ run[n].pc \in {"boot", "stream"}
    => m = n

\* The issue on the thread goes only when another run starts: a POST that
\* marks its run started late does not wipe the failure of that run.
IssueStays ==
  thread.issue # None /\ thread'.issue = None => thread'.current \notin {None, thread.issue}

\* The first cause of a failure stays on the thread until another run starts.
IssueIsKept == [][RootCauseStays /\ IssueStays]_vars

\* "A durable run settles through the stream route": the thread does not stay
\* live for ever, whatever the task could or could not record of its end.
ThreadSettles == []<>(thread.current = None)
=============================================================================
