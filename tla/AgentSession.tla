----------------------------- MODULE AgentSession -----------------------------
(***************************************************************************)
(* The turns of a thread over a durable chat session: the route that mints  *)
(* the credentials of a message and appends it (trigger-agent-chat-         *)
(* server.ts, trigger-session-append.ts), the grants Convex keeps for the   *)
(* session (threads.ts) and the task that takes the messages one by one     *)
(* (agent-chat.ts, messages.ts).                                            *)
(*                                                                          *)
(* A post is a message a client sends, or the start of the session.  It has *)
(* a model grant in the vault and a persistence grant in the thread, both   *)
(* named by the post.  Trigger.dev's sessions and WorkOS Vault are external.*)
(***************************************************************************)
EXTENDS Naturals, Sequences, FiniteSets, SequencesExt

CONSTANTS
  Posts, None,
  MaxGrants,    \* MAX_AGENT_SESSION_PERSISTENCE_GRANTS, 16 in the code
  MaxAttempts,  \* MAX_APPEND_ATTEMPTS, 4 in the code
  MaxFaults     \* bound: requests that fail or are not answered, runs that die

VARIABLES
  posts,     \* the handling of each post: pc, attempts, and the answer
  vault,     \* the posts whose model grant is in the vault
  grants,    \* agentSessionPersistenceTokenHashes
  issued,    \* every persistence grant in the order they were added
  current,   \* currentRunId of the thread: the post of the turn, or None
  inbox,     \* the input of the session, in order
  taken,     \* how many of them its run has taken
  turn,      \* the turn of the session's run
  replies,   \* the posts whose reply is persisted
  ran,       \* how often each post reached the model
  faults

vars == <<posts, vault, grants, issued, current, inbox, taken, turn, replies, ran, faults>>
thread == <<grants, current>>
session == <<inbox, taken, turn, replies, ran>>

Free == [post |-> None, pc |-> "idle"]
Fault == faults < MaxFaults /\ faults' = faults + 1

TypeOK ==
  /\ \A p \in Posts :
       /\ posts[p].pc \in {"new", "model", "grant", "append", "revoke", "start", "mark", "answered"}
       /\ posts[p].attempts \in 0 .. MaxAttempts /\ posts[p].answer \in {"none", "ok", "failed"}
  /\ vault \subseteq Posts /\ Range(grants) \subseteq Range(issued)
  /\ issued \in Seq(Posts) /\ Len(issued) <= Cardinality(Posts) /\ Len(grants) <= MaxGrants
  /\ current \in Posts \cup {None} /\ inbox \in Seq(Posts)
  /\ turn \in [post : Posts \cup {None},
               pc : {"idle", "hydrate", "begin", "prepare", "model", "complete", "revoke"}]
  /\ taken \in 0 .. Len(inbox) /\ replies \subseteq Posts /\ faults \in 0 .. MaxFaults
  /\ \A p \in Posts : ran[p] \in 0 .. 2

Init ==
  /\ posts = [p \in Posts |-> [pc |-> "new", attempts |-> 0, answer |-> "none"]]
  /\ vault = {} /\ grants = <<>> /\ issued = <<>> /\ current = None
  /\ inbox = <<>> /\ taken = 0 /\ turn = Free /\ replies = {}
  /\ ran = [p \in Posts |-> 0] /\ faults = 0

-----------------------------------------------------------------------------
(* The route. *)

At(p, pc) == posts[p].pc = pc
Goes(p, pc) == posts' = [posts EXCEPT ![p].pc = pc]
Answers(p, answer) == posts' = [posts EXCEPT ![p].pc = "answered", ![p].answer = answer]

\* createTrustedClientData: the model's grant is issued first; when the rest
\* fails the grant is left to expire.
IssueModel(p) ==
  /\ At(p, "new")
  /\ \/ vault' = vault \cup {p} /\ Goes(p, "grant") /\ UNCHANGED faults
     \/ vault' \in {vault, vault \cup {p}} /\ Fault /\ Answers(p, "failed")
  /\ UNCHANGED <<thread, issued, session>>

AllStay(s) == s  \* mutant
\* addAgentSessionPersistenceGrant
Newest(s) == SubSeq(s, IF Len(s) > MaxGrants THEN Len(s) - MaxGrants + 1 ELSE 1, Len(s))
\* A post of kind "start" continues with the session, the others are appended.
\* The code filters the old list, in which a grant is once.
AddGrant(p) ==
  /\ At(p, "grant")
  /\ \/ /\ grants' = Newest(Append(RemoveFirst(grants, p), p))
        /\ issued' = Append(issued, p)
        /\ \E pc \in {"append", "start"} : Goes(p, pc)
        /\ UNCHANGED faults
     \/ Fault /\ Answers(p, "failed") /\ UNCHANGED <<grants, issued>>
  /\ UNCHANGED <<vault, current, session>>

AcceptAgain(p) == inbox' = Append(inbox, p)  \* mutant: each attempt has a part id of its own
\* Trigger.dev takes a part id once.
Accept(p) == inbox' = IF p \in Range(inbox) THEN inbox ELSE Append(inbox, p)

\* The last attempt failed, or the failure is not one to retry.
GivenUp(p, retryable) == ~retryable \/ posts[p].attempts + 1 = MaxAttempts
Attempt(p) ==
  /\ At(p, "append")
  /\ \/ /\ Accept(p) /\ Answers(p, "ok") /\ UNCHANGED faults
     \/ \E retryable \in BOOLEAN, accepted \in BOOLEAN :
          /\ Fault /\ (accepted => retryable)
          /\ posts' = [posts EXCEPT ![p].attempts = @ + 1,
                         ![p].pc = IF GivenUp(p, retryable) THEN "revoke" ELSE "append"]
          /\ IF accepted THEN Accept(p) ELSE UNCHANGED inbox
  /\ UNCHANGED <<vault, thread, issued, taken, turn, replies, ran>>

\* startAgentChatSession and markAgentSessionCreated.  The session's run is
\* started and waits for messages; the grants of a start are used by no turn.
StartSession(p) ==
  /\ At(p, "start")
  /\ \/ Goes(p, "mark") /\ UNCHANGED faults
     \/ Fault /\ Goes(p, "revoke")
  /\ UNCHANGED <<vault, thread, issued, session>>
MarkCreated(p) ==
  /\ At(p, "mark")
  /\ \/ Answers(p, "ok") /\ UNCHANGED faults
     \/ Fault /\ Goes(p, "revoke")
  /\ UNCHANGED <<vault, thread, issued, session>>
\* revokeAgentModelOptions, whose failure is ignored.
RevokeModel(p) ==
  /\ At(p, "revoke") /\ Answers(p, "failed")
  /\ \/ vault' = vault \ {p} /\ UNCHANGED faults
     \/ Fault /\ UNCHANGED vault
  /\ UNCHANGED <<thread, issued, session>>

-----------------------------------------------------------------------------
(* The session's run: one turn after the other. *)

In(pc) == turn.pc = pc
Turns(pc) == turn' = [turn EXCEPT !.pc = pc]
Granted == turn.post \in Range(grants)
Route == <<posts, issued>>

Take ==
  /\ In("idle") /\ taken < Len(inbox) /\ taken' = taken + 1
  /\ turn' = [post |-> inbox[taken + 1], pc |-> "hydrate"]
  /\ UNCHANGED <<Route, vault, thread, inbox, replies, ran, faults>>
\* hydrateMessages and onTurnStart: Convex refuses a turn whose grant is gone,
\* and the turn ends with an error.
Hydrate ==
  /\ In("hydrate")
  /\ \/ Granted /\ Turns("begin") /\ UNCHANGED faults
     \/ ~Granted /\ Turns("complete") /\ UNCHANGED faults
     \/ Fault /\ Turns("complete")
  /\ UNCHANGED <<Route, vault, thread, inbox, taken, replies, ran>>
\* markAgentSessionTurnStartedInternal
BeginTurn ==
  /\ In("begin")
  /\ \/ Granted /\ current' = turn.post /\ Turns("prepare") /\ UNCHANGED faults
     \/ ~Granted /\ Turns("complete") /\ UNCHANGED <<current, faults>>
     \/ Fault /\ Turns("complete") /\ UNCHANGED current
  /\ UNCHANGED <<Route, vault, grants, inbox, taken, replies, ran>>
\* createAgentResponseModels takes the grant out of the vault; then the model
\* runs.
RunModel ==
  /\ In("prepare") /\ Turns("complete")
  /\ \/ /\ turn.post \in vault /\ vault' = vault \ {turn.post}
        /\ ran' = [ran EXCEPT ![turn.post] = @ + 1] /\ UNCHANGED faults
     \/ turn.post \notin vault /\ UNCHANGED <<vault, ran, faults>>
     \/ Fault /\ UNCHANGED <<vault, ran>>
  /\ UNCHANGED <<Route, thread, inbox, taken, replies>>
\* completeAgentSessionTurnFromAgent: the reply, or the failure, is persisted,
\* the thread is no longer live, whatever its current run, and the grant is spent.
CompleteTurn ==
  /\ In("complete") /\ Turns("revoke")
  /\ \/ /\ Granted /\ current' = None
        /\ grants' = RemoveFirst(grants, turn.post)
        /\ replies' = replies \cup {turn.post} /\ UNCHANGED faults
     \/ ~Granted /\ UNCHANGED <<thread, replies, faults>>
     \/ Fault /\ UNCHANGED <<thread, replies>>
  /\ UNCHANGED <<Route, vault, inbox, taken, ran>>
\* revokeAgentModelGrant
EndTurn ==
  /\ In("revoke") /\ turn' = Free
  /\ \/ vault' = vault \ {turn.post} /\ UNCHANGED faults
     \/ Fault /\ UNCHANGED vault
  /\ UNCHANGED <<Route, thread, inbox, taken, replies, ran>>
\* The run is killed; the session goes on with the next message in a new run.
RunDies ==
  /\ ~In("idle") /\ Fault /\ turn' = Free
  /\ UNCHANGED <<Route, vault, thread, inbox, taken, replies, ran>>

-----------------------------------------------------------------------------
Next ==
  \/ \E p \in Posts :
       \/ IssueModel(p) \/ AddGrant(p) \/ Attempt(p)
       \/ StartSession(p) \/ MarkCreated(p) \/ RevokeModel(p)
  \/ Take \/ Hydrate \/ BeginTurn \/ RunModel \/ CompleteTurn \/ EndTurn \/ RunDies
Spec == Init /\ [][Next]_vars

-----------------------------------------------------------------------------
Waits(p) == \/ p \in Range(SubSeq(inbox, taken + 1, Len(inbox)))
            \/ turn.post = p /\ turn.pc \in {"hydrate", "begin", "prepare"}
NewerThan(p) == {q \in Range(issued) : \E i, j \in DOMAIN issued :
                   i < j /\ issued[i] = p /\ issued[j] = q}
\* Its grant went to make room for newer ones.
PushedOut(p) == Cardinality(NewerThan(p)) >= MaxGrants
\* A message the client was told is accepted runs: it is in the session once, its
\* credentials are in the vault until its turn takes them, and its grant is valid
\* unless MaxGrants newer ones were issued (trigger-agent-chat-server.ts:266,
\* trigger-session-append.ts:81, threads.ts:890).
AcceptedMessageRuns ==
  \A p \in Posts :
    /\ ran[p] <= 1 /\ Cardinality({i \in DOMAIN inbox : inbox[i] = p}) <= 1
    /\ posts[p].answer = "ok" /\ Waits(p) => p \in vault /\ (p \in Range(grants) \/ PushedOut(p))

\* When no request failed, a turn whose grant was not pushed out leaves its reply
\* and nothing else: its grants are spent and the thread is live exactly while it
\* runs (messages.ts:855).
TurnSpendsItsGrants ==
  faults = 0 =>
    /\ \A i \in 1 .. taken :
         LET p == inbox[i]
         IN  p # turn.post => /\ p \notin vault /\ p \notin Range(grants)
                              /\ p \in replies \/ PushedOut(p)
    /\ current # None => turn.post = current \/ PushedOut(current)
=============================================================================
