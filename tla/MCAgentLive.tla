---------------------------- MODULE MCAgentLive ----------------------------
(* What the parts that serve an agent's turn owe in the end.  Four parts   *)
(* that share no state, checked in one run: the queue of the file tools    *)
(* (FileMutationQueue), the runs of a thread (AgentRun), the stream of a   *)
(* reply (ChatStream) and the composer of the web app (ThreadComposer),    *)
(* which is checked with two messages of one page and with one message     *)
(* beside a run of another client.  part says which of them a behaviour is *)
(* of; the variables of the others stay as they begin.                     *)
EXTENDS FileMutationQueue

CONSTANTS m1, p1, p2, d1, i1, i2, o1

VARIABLES
  part,
  thread, message, run, grant, post, reader, runFaults,
  kind, log, agent, stored, idleThread, client, view, row, idle, chatFaults,
  draft, upload, page, server, seen, stop, toggles, requestFaults

Thread == INSTANCE AgentRun
  WITH Turns <- {m1}, Posts <- {p1, p2}, Readers <- {d1}, VisibilityLag <- TRUE,
       Faults <- {"refused", "lost", "no_run", "no_answer", "error", "worker", "crash"},
       MaxFaults <- 1, faults <- runFaults

Chat == INSTANCE ChatStream
  WITH NumParts <- 2, MaxDeltas <- 1, MaxFaults <- 2,
       run <- agent, settled <- idleThread, faults <- chatFaults

Composing == INSTANCE ThreadComposer
  WITH Messages <- {i1, i2}, Images <- {i2}, Others <- {}, MaxToggles <- 1, MaxFaults <- 1,
       message <- draft, faults <- requestFaults

Sharing == INSTANCE ThreadComposer
  WITH Messages <- {i1}, Images <- {i1}, Others <- {o1}, MaxToggles <- 1, MaxFaults <- 1,
       message <- draft, faults <- requestFaults

runs == <<thread, message, run, grant, post, reader, runFaults>>
streams == <<kind, log, agent, stored, idleThread, client, view, row, idle, chatFaults>>
composer == <<draft, upload, page, server, seen, stop, toggles, requestFaults>>
all == <<part, vars, runs, streams, composer>>

Queue(A) == part = "queue" /\ A /\ UNCHANGED <<part, runs, streams, composer>>
Runs(A) == part = "thread" /\ A /\ UNCHANGED <<part, vars, streams, composer>>
Streams(A) == part = "chat" /\ A /\ UNCHANGED <<part, vars, runs, composer>>
Composes(A) == part = "composing" /\ A /\ UNCHANGED <<part, vars, runs, streams>>
Shares(A) == part = "sharing" /\ A /\ UNCHANGED <<part, vars, runs, streams>>

ASSUME Thread!AgentRunAssumption

InitAll ==
  /\ Init /\ Thread!Init
  /\ part \in {"queue", "thread", "chat", "composing", "sharing"}
  /\ Chat!Init /\ (part # "chat" => kind = "web")
  /\ IF part = "sharing" THEN Sharing!Init ELSE Composing!Init

NextAll ==
  \/ Queue(Next)
  \/ Runs(Thread!Next)
  \/ \E chunk \in Chat!Chunks : Streams(Chat!Write(chunk))
  \/ Streams(Chat!Store) \/ Streams(Chat!Complete) \/ Streams(Chat!Die)
  \/ Streams(Chat!RowArrives) \/ Streams(Chat!BecomesIdle)
  \/ Streams(Chat!Attach) \/ Streams(Chat!Connect) \/ Streams(Chat!Reconnect)
  \/ Streams(Chat!Receive) \/ Streams(Chat!Expire) \/ Streams(Chat!CloseStream)
  \/ Streams(Chat!StartOver) \/ Streams(Chat!Cut) \/ Streams(Chat!Refused)
  \/ Streams(Chat!Reopen)
  \/ \E m \in {i1, i2} :
       \/ Composes(Composing!Submit(m)) \/ Composes(Composing!SubmitMessage(m))
       \/ Composes(Composing!SendMessage(m)) \/ Composes(Composing!Post(m))
       \/ Composes(Composing!Answered(m))
       \/ Composes(Composing!StopAnswered(m)) \/ Composes(Composing!StopFails(m))
  \/ Composes(Composing!UploadEnds(i2))
  \/ Composes(Composing!RunEnds) \/ Composes(Composing!RowArrives)
  \/ Composes(Composing!Resume) \/ Composes(Composing!StreamEnds)
  \/ Composes(Composing!StopGeneration) \/ Composes(Composing!ToggleDemo)
  \/ Composes(Composing!DemoSaved) \/ Composes(Composing!DemoNotSaved)
  \/ Shares(Sharing!OtherPosts)
  \/ Shares(Sharing!Next)

\* The fairness each of the three modules states.
QueueIsFair ==
  \A c \in Calls :
    /\ WF_all(Queue(Register(c))) /\ WF_all(Queue(Chain(c)))
    /\ WF_all(Queue(Acquire(c) \/ WaitTimeout(c))) /\ WF_all(Queue(RunTimeout(c)))
RunsAreFair ==
  /\ \A p \in {p1, p2} : WF_all(Runs(Thread!PostStep(p)))
  /\ WF_all(Runs(Thread!TaskStep(m1) \/ Thread!RunEnds(m1)))
  /\ WF_all(Runs(Thread!BecomeVisible(m1)))
  /\ WF_all(Runs(Thread!OpenStream(d1))) /\ WF_all(Runs(Thread!ReaderStep(d1)))
StreamsAreFair == WF_all(Streams(Chat!Client))

SpecAll == InitAll /\ [][NextAll]_all /\ QueueIsFair /\ RunsAreFair /\ StreamsAreFair

\* "A durable run settles through the stream route": the thread does not stay
\* live for ever, whatever the task could or could not record of its end.
ThreadSettles == Thread!ThreadSettles

\* What the client shows is the reply: each delta reaches the AI SDK once, in
\* order and inside its part however often the connection is lost, and a client
\* at rest shows the row's parts or the streamed ones, the row whenever that has
\* more parts, and the words of the reply if it read its whole stream.
ReplyIsShown == Chat!TypeOK /\ Chat!ShownOnce /\ Chat!RestShowsReply

\* What the composer says of a message before it is sent is what its run does:
\* it records a demo when the switch said so, and a message does not meet the
\* run the user stopped before submitting it.
ComposerKeepsItsWord ==
  /\ part = "composing" => Composing!TypeOK /\ Composing!SentAsShown /\ Composing!StopComesFirst
  /\ part = "sharing" => Sharing!TypeOK /\ Sharing!SentAsShown /\ Sharing!StopComesFirst

\* A client does not stay attached to a run that is over.
StreamEnds == Chat!StreamEnds
=============================================================================
