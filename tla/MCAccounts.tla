---------------------------- MODULE MCAccounts ----------------------------
(* What a user's account is charged, connected to and told: components that *)
(* share no state, each on a small instance and checked in one run; some on *)
(* two that do not depend on each other.  part says whose behaviour it is,  *)
(* and v1, v2, ... stand for the variables of that component.               *)
EXTENDS Naturals, TLC

CONSTANTS i1, i2, i3, x1, x2, y, fst, snd, short, None, Unavailable, Failed

VARIABLES part, v1, v2, v3, v4, v5, v6, v7, v8, v9, v10, v11, v12, v13, v14

Three == {i1, i2, i3}
Two == {x1, x2}
Symmetry == Permutations(Three) \cup Permutations(Two)

Squeeze == <<3, 2>>

\* x1 and x2 are served by one process, y by another.
Process == [k \in {x1, x2, y} |-> IF k = y THEN snd ELSE fst]

\* Two syncs overlap, and the user stops and removes the sandbox; in Resumes one sync
\* runs at a time, the user may also start it again and the provider pause or kill it.
Usage == INSTANCE SandboxUsage
  WITH Syncs <- Two, Interval <- 1, Window <- 2, Lag <- 1,
       Measured <- {TRUE}, MaxRuns <- 1, MaxTime <- 2, now <- v1,
       box <- v2, log <- v3, measured <- v4, row <- v5, sync <- v6,
       control <- v7

Resumes == INSTANCE SandboxUsage
  WITH Syncs <- {y}, Interval <- 1, Window <- 2, Lag <- 1,
       Measured <- {FALSE}, MaxRuns <- 2, MaxTime <- 2, now <- v1,
       box <- v2, log <- v3, measured <- v4, row <- v5, sync <- v6,
       control <- v7

Sessions == INSTANCE AgentSession
  WITH Posts <- Three, MaxGrants <- 2, MaxAttempts <- 2, MaxFaults <- 2,
       posts <- v1, vault <- v2, grants <- v3, issued <- v4, current <- v5,
       inbox <- v6, taken <- v7, turn <- v8, replies <- v9, ran <- v10,
       faults <- v11

\* Three saves may replace one another; in Loads a client has two requests under way.
Parts == INSTANCE AssistantParts
  WITH Long <- Two, Short <- {short}, Saves <- Three, Reads <- {fst},
       MaxFaults <- 1, row <- v1, objects <- v2, save <- v3, seen <- v4,
       read <- v5, cache <- v6, faults <- v7, risked <- v8

Loads == INSTANCE AssistantParts
  WITH Long <- Three, Short <- {short}, Saves <- Two, Reads <- {fst, snd},
       MaxFaults <- 1, row <- v1, objects <- v2, save <- v3, seen <- v4,
       read <- v5, cache <- v6, faults <- v7, risked <- v8

Reads == INSTANCE Transcript
  WITH MaxSteps <- 2, MaxSaid <- 3, RetryLimit <- 1, told <- v1,
       phase <- v2, row <- v3, idle <- v4, tapes <- v5, card <- v6

Grok == INSTANCE GrokCredentials
  WITH Calls <- Two \cup {y}, Processes <- {fst, snd},
       ProcessOf <- Process, OutliveLease <- FALSE, MaxTokens <- 3,
       MaxTries <- 2, MaxExpiries <- 1, MaxFaults <- 1, object <- v1,
       issued <- v2, good <- v3, origin <- v4, connection <- v5, call <- v6,
       shared <- v7, expiries <- v8, faults <- v9, lost <- v10

Vault == INSTANCE VaultStore
  WITH Clients <- Three \cup {y}, MaxAttempts <- 3, MaxExpiries <- 1,
       MaxFaults <- 1, use <- v1, object <- v2, ids <- v3, client <- v4,
       gone <- v5, expiries <- v6, faults <- v7

ChatGPT == INSTANCE ChatGPTSession
  WITH Requests <- Three, MaxCodes <- 2, MaxTokens <- 3, MaxExpiries <- 1,
       session <- v1, codes <- v2, lapsed <- v3, approved <- v4,
       issued <- v5, good <- v6, request <- v7, inflight <- v8,
       overlap <- v9, expiries <- v10

Realtime == INSTANCE RealtimeSessions
  WITH Starts <- Three, Closes <- Two, Confirms <- {}, MaxFaults <- 1,
       start <- v1, close <- v2, queue <- v3, managed <- v4, process <- v5,
       closing <- v6, signedIn <- v7, late <- v8, pending <- v9,
       confirm <- v10, faults <- v11, replaces <- v12

Confirmation == INSTANCE RealtimeSessions
  WITH Starts <- {}, Closes <- {}, Confirms <- Three, MaxFaults <- 2,
       start <- v1, close <- v2, queue <- v3, managed <- v4, process <- v5,
       closing <- v6, signedIn <- v7, late <- v8, pending <- v9,
       confirm <- v10, faults <- v11, replaces <- v12

Call == INSTANCE RealtimeCall
  WITH Calls <- {y}, MaxQueued <- 2, MaxMessages <- 1, MaxToggles <- 1,
       MaxFaults <- 1, phase <- v1, peer <- v2, voice <- v3, ending <- v4,
       inbox <- v5, signal <- v6, known <- v7, delete <- v8, session <- v9,
       managed <- v10, events <- v11, call <- v12, tally <- v13,
       left <- v14

Context == INSTANCE AgentContext
  WITH Usable <- 6, Keep <- 3, Cap <- 2, Budgets <- Squeeze,
       FailureLimit <- 2, ResultLimit <- 2, MaxSubAgents <- 1,
       Outputs <- {1, 3}, MaxSteps <- 4, MaxCalls <- 1, MaxTurns <- 1,
       MaxFaults <- 1, history <- v1, checkpoint <- v2, phase <- v3,
       prompt <- v4, attempt <- v5, stream <- v6, shown <- v7, calls <- v8,
       agents <- v9, loop <- v10, steps <- v11, reply <- v12, turns <- v13,
       faults <- v14

Turns == INSTANCE AgentContext
  WITH Usable <- 6, Keep <- 3, Cap <- 2, Budgets <- Squeeze,
       FailureLimit <- 2, ResultLimit <- 2, MaxSubAgents <- 1,
       Outputs <- {1, 3}, MaxSteps <- 1, MaxCalls <- 2, MaxTurns <- 2,
       MaxFaults <- 2, history <- v1, checkpoint <- v2, phase <- v3,
       prompt <- v4, attempt <- v5, stream <- v6, shown <- v7, calls <- v8,
       agents <- v9, loop <- v10, steps <- v11, reply <- v12, turns <- v13,
       faults <- v14

vars == <<part, v1, v2, v3, v4, v5, v6, v7, v8, v9, v10, v11, v12, v13, v14>>

Unused == 0
Init ==
  \/ part = "usage" /\ Usage!Init /\ v8 = Unused /\ v9 = Unused
       /\ v10 = Unused /\ v11 = Unused /\ v12 = Unused /\ v13 = Unused
       /\ v14 = Unused
  \/ part = "resumes" /\ Resumes!Init /\ v8 = Unused /\ v9 = Unused
       /\ v10 = Unused /\ v11 = Unused /\ v12 = Unused /\ v13 = Unused
       /\ v14 = Unused
  \/ part = "sessions" /\ Sessions!Init /\ v12 = Unused /\ v13 = Unused
       /\ v14 = Unused
  \/ part = "parts" /\ Parts!Init /\ v9 = Unused
       /\ v10 = Unused /\ v11 = Unused /\ v12 = Unused /\ v13 = Unused
       /\ v14 = Unused
  \/ part = "loads" /\ Loads!Init /\ v9 = Unused
       /\ v10 = Unused /\ v11 = Unused /\ v12 = Unused /\ v13 = Unused
       /\ v14 = Unused
  \/ part = "reads" /\ Reads!Init /\ v7 = Unused /\ v8 = Unused
       /\ v9 = Unused /\ v10 = Unused /\ v11 = Unused /\ v12 = Unused
       /\ v13 = Unused /\ v14 = Unused
  \/ part = "grok" /\ Grok!Init /\ v11 = Unused /\ v12 = Unused
       /\ v13 = Unused /\ v14 = Unused
  \/ part = "vault" /\ Vault!Init /\ v8 = Unused /\ v9 = Unused
       /\ v10 = Unused /\ v11 = Unused /\ v12 = Unused /\ v13 = Unused
       /\ v14 = Unused
  \/ part = "chatgpt" /\ ChatGPT!Init /\ v11 = Unused /\ v12 = Unused
       /\ v13 = Unused /\ v14 = Unused
  \/ part = "realtime" /\ Realtime!Init /\ v13 = Unused /\ v14 = Unused
  \/ part = "confirmation" /\ Confirmation!Init /\ v13 = Unused
       /\ v14 = Unused
  \/ part = "call" /\ Call!Init
  \/ part = "context" /\ Context!Init
  \/ part = "turns" /\ Turns!Init

UsageDoes(A) == part = "usage" /\ A /\ UNCHANGED <<part, v8, v9, v10, v11, v12, v13, v14>>
ResumesDoes(A) == part = "resumes" /\ A /\ UNCHANGED <<part, v8, v9, v10, v11, v12, v13, v14>>
SessionsDoes(A) == part = "sessions" /\ A /\ UNCHANGED <<part, v12, v13, v14>>
PartsDoes(A) == part = "parts" /\ A /\ UNCHANGED <<part, v9, v10, v11, v12, v13, v14>>
LoadsDoes(A) == part = "loads" /\ A /\ UNCHANGED <<part, v9, v10, v11, v12, v13, v14>>
ReadsDoes(A) == part = "reads" /\ A /\ UNCHANGED <<part, v7, v8, v9, v10, v11, v12, v13, v14>>
GrokDoes(A) == part = "grok" /\ A /\ UNCHANGED <<part, v11, v12, v13, v14>>
VaultDoes(A) == part = "vault" /\ A /\ UNCHANGED <<part, v8, v9, v10, v11, v12, v13, v14>>
ChatGPTDoes(A) == part = "chatgpt" /\ A /\ UNCHANGED <<part, v11, v12, v13, v14>>
RealtimeDoes(A) == part = "realtime" /\ A /\ UNCHANGED <<part, v13, v14>>
ConfirmationDoes(A) == part = "confirmation" /\ A /\ UNCHANGED <<part, v13, v14>>
CallDoes(A) == part = "call" /\ A /\ UNCHANGED <<part>>
ContextDoes(A) == part = "context" /\ A /\ UNCHANGED <<part>>
TurnsDoes(A) == part = "turns" /\ A /\ UNCHANGED <<part>>

\* Whatever pauses or kills the sandbox but the user is left to Resumes.
UsageNext ==
  \/ \E s \in Two : Usage!Begin(s) \/ Usage!FailSync(s) \/ Usage!SyncStep(s)
  \/ Usage!Tick \/ Usage!Stop \/ Usage!ScheduleSync \/ Usage!MarkPending \/ Usage!Delete

\* One length of thoughts, and no "point": it shows as a "list" without recordings does.
ReadsNext ==
  \/ \E size \in 1 .. 2 : Reads!Speaks("text", size)
  \/ Reads!Speaks("think", 1)
  \/ \E tool \in Reads!Tools \ {"point"} : Reads!Calls(tool)
  \/ \E i \in Reads!Places : Reads!Ends(i) \/ Reads!Fails(i) \/ Reads!Answers(i)
  \/ Reads!BeginsStep \/ Reads!Finish \/ Reads!Stop \/ Reads!Die
  \/ Reads!RowArrives \/ Reads!BecomesIdle
  \/ Reads!Mounts \/ Reads!Prepared \/ Reads!NotYet \/ Reads!AsksAgain \/ Reads!Retry

Next ==
  \/ UsageDoes(UsageNext)
  \/ ResumesDoes(Resumes!Next)
  \/ SessionsDoes(Sessions!Next)
  \/ PartsDoes(Parts!Next)
  \/ LoadsDoes(Loads!Next)
  \/ ReadsDoes(ReadsNext)
  \/ GrokDoes(Grok!Next)
  \/ VaultDoes(Vault!Next)
  \/ ChatGPTDoes(ChatGPT!Next)
  \/ RealtimeDoes(Realtime!Next)
  \/ ConfirmationDoes(Confirmation!Next)
  \/ CallDoes(Call!Next)
  \/ ContextDoes(Context!Next)
  \/ TurnsDoes(Turns!Next)

Spec == Init /\ [][Next]_vars

ASSUME Usage!UsageAssumption /\ Resumes!UsageAssumption
ASSUME Grok!GrokAssumption /\ Vault!VaultAssumption
ASSUME Context!ContextAssumption /\ Turns!ContextAssumption

TypeOK ==
  /\ part = "usage" => Usage!TypeOK
  /\ part = "resumes" => Resumes!TypeOK
  /\ part = "sessions" => Sessions!TypeOK
  /\ part = "parts" => Parts!TypeOK
  /\ part = "loads" => Loads!TypeOK
  /\ part = "reads" => Reads!TypeOK
  /\ part = "grok" => Grok!TypeOK
  /\ part = "vault" => Vault!TypeOK
  /\ part = "chatgpt" => ChatGPT!TypeOK
  /\ part = "realtime" => Realtime!TypeOK
  /\ part = "confirmation" => Confirmation!TypeOK
  /\ part = "call" => Call!TypeOK
  /\ part = "context" => Context!TypeOK
  /\ part = "turns" => Turns!TypeOK

\* A sandbox is charged for the time it ran: exactly once nobody will look at it
\* again, never more before, and for good once the provider said it was killed.
ChargeIsRight ==
  /\ [](part = "usage" => Usage!SettledIsExact /\ Usage!NeverOvercharged)
  /\ [](part = "resumes" => Resumes!SettledIsExact /\ Resumes!NeverOvercharged)
  /\ [][(part = "usage" => Usage!StaysFinal) /\ (part = "resumes" => Resumes!StaysFinal)]_vars

\* A message a client was told is accepted runs once, with valid credentials, and
\* its turn leaves none of its grants behind.
AcceptedMessageRuns ==
  part = "sessions" => Sessions!AcceptedMessageRuns /\ Sessions!TurnSpendsItsGrants

\* A reply that refers to an object in R2 can be read, unless the patch that names it
\* took effect and answered with an error or a save of a content saved before crossed
\* another, and no object is left; and what is shown of a reply is what was told, on
\* both surfaces, now and when it is reopened.
ReplyIsReadable ==
  /\ part = "parts" => Parts!ReplyIsReadable /\ Parts!NoObjectIsLeft
  /\ part = "loads" => Loads!ReplyIsReadable /\ Loads!NoObjectIsLeft
  /\ part = "reads" => Reads!TranscriptIsTrue

\* The vault loses no acknowledged write and hands a grant to one run.
NothingLostOrRedeemedTwice == part = "vault" => Vault!NothingLostOrRedeemedTwice

\* Using the tokens of Grok from several processes, or of ChatGPT in overlapping
\* requests, does not lose the connection, and no refresh brings back one that
\* was replaced.
ConnectionsAreKept ==
  /\ part = "grok" => Grok!NoTokenIsReused /\ Grok!ConnectionIsKept
  /\ part = "chatgpt" => ChatGPT!CallsKeepTheSession

\* A login has one open realtime session, and an action is confirmed once; a call
\* gives back what it took, is heard as the user chose, and shows the events of its
\* session in their order.
LiveSessionIsSound ==
  /\ part = "realtime" => Realtime!OneLiveSession
  /\ part = "confirmation" => Confirmation!ConfirmedOnce
  /\ part = "call" => Call!CallIsSound

\* A model is sent the whole conversation, each call with its result, and is shown
\* for what it answered to one attempt.
ContextIsKept ==
  /\ part = "context" => Context!ContextIsKept
  /\ part = "turns" => Turns!ContextIsKept
=============================================================================
