----------------------------- MODULE Transcript -----------------------------
(***************************************************************************)
(* What a reader is shown of a reply: the parts the AI SDK builds from the  *)
(* stream (told), the parts the thread keeps of it (row: what the task made *)
(* of the response messages, or what a client sent when it stopped the run),*)
(* and how the web (thread-messages.tsx, tool.tsx) and the app              *)
(* (ThreadMessage.tsx, lib/messages.ts) turn either into an account of the  *)
(* work, the text and the recordings.  One card asks for a recording until  *)
(* it can be played.                                                        *)
(*                                                                          *)
(* "read" stands for every tool but edit, write, bash and computer; "edit"  *)
(* for edit, write and bash; the others are actions of computer, "point"    *)
(* one that has nothing to do with recordings.  The stream is that of       *)
(* ChatStream, here without faults.                                         *)
(***************************************************************************)
EXTENDS Naturals, Sequences, SequencesExt, FiniteSets

CONSTANTS
  MaxSteps, MaxSaid,  \* bounds: steps of the reply; texts, thoughts and calls in it
  RetryLimit          \* RECORDING_PREPARE_RETRY_LIMIT

VARIABLES
  told,    \* the parts the client has of the stream
  phase,   \* the run: "running", then "finished", "stopped" or "dead"
  row,     \* the parts of the message as the client's query has it, or Nothing
  idle,    \* the thread is no longer live for the client
  tapes,   \* the recordings that were started, each TRUE once it was stopped
  card     \* the card of the first recording

vars == <<told, phase, row, idle, tapes, card>>
Nothing == <<>>
Places == 1 .. MaxSteps + MaxSaid

Spoken == {"text", "think"}
Computer == {"point", "start", "stop", "list"}
Tools == {"read", "edit"} \cup Computer
\* id stands for the content or the toolCallId, tapes for the recordings of the output.
Part(kind, tool, id, size) ==
  [kind |-> kind, tool |-> tool, id |-> id, size |-> size, state |-> "open", tapes |-> {}]
Step == [Part("step", "none", 0, 0) EXCEPT !.state = "done"]
Said(parts) == SelectSeq(parts, LAMBDA p : p.kind # "step")
Open(p) == p.state = "open"  \* streaming, input-streaming or input-available
Call(p) == p.kind = "call"

NoCard == [pc |-> "none", attempt |-> 0]
TypeOK ==
  /\ phase \in {"running", "finished", "stopped", "dead"} /\ idle \in BOOLEAN
  /\ Len(told) <= MaxSteps + MaxSaid /\ Len(row) <= Len(told)
  /\ \A p \in Range(told) \cup Range(row) :
       /\ p.kind \in Spoken \cup {"call", "step"} /\ p.tool \in Tools \cup {"none"}
       /\ p.id \in 0 .. MaxSaid /\ p.size \in 0 .. 2
       /\ p.state \in {"open", "done", "failed"} /\ p.tapes \subseteq DOMAIN tapes
  /\ tapes \in Seq(BOOLEAN)
  /\ card.pc \in {"none", "asks", "waits", "plays", "gaveUp"} /\ card.attempt \in 0 .. RetryLimit

Init ==
  /\ told = <<Step>> /\ phase = "running" /\ row = Nothing /\ idle = FALSE
  /\ tapes = <<>> /\ card = NoCard

-----------------------------------------------------------------------------
(* How the web shows a list of parts. *)

Explores(p) == Call(p) /\ p.tool \notin {"edit"} \cup Computer
\* Consecutive explore tools are one item; a step-start stands between them too.
Grouped(parts) ==
  FoldLeft(LAMBDA items, p :
             IF Explores(p) /\ items # <<>> /\ Explores(Last(items)[1])
             THEN [items EXCEPT ![Len(items)] = Append(@, p)]
             ELSE Append(items, <<p>>),
           <<>>, parts)
OfComputer(p) == Call(p) /\ p.tool \in Computer
IsRecording(item) ==
  LET p == item[1] IN
  /\ OfComputer(p)
  /\ CASE p.tool = "start" -> p.state # "done"
       [] p.tool = "stop" -> TRUE
       [] OTHER -> p.tapes # {}
IsDetail(item) ==
  LET p == item[1] IN
  ~IsRecording(item) /\ (p.kind = "think" \/ (Call(p) /\ ~OfComputer(p)))
IsMain(item) == ~IsRecording(item) /\ ~IsDetail(item)

Flat(items) == FlattenSeq(items)
\* How a row of the work reads: a call by its header and its status.
Says(p) == CASE Open(p) -> "running" [] p.state = "failed" -> "failed" [] OTHER -> "done"
\* The title of a group of explored things, or of a single row.
ItemSays(item) == IF \E p \in Range(item) : Open(p) THEN "running" ELSE Says(Last(item))
\* What is behind a row that can be opened.
Result(p) ==
  IF Explores(p) \/ Open(p) THEN "none" ELSE IF p.state = "failed" THEN "error" ELSE "output"
WebRow(p) == [id |-> p.id, says |-> Says(p), result |-> Result(p)]
WebWork(parts) ==
  LET rows == Flat(SelectSeq(Grouped(parts), IsDetail)) IN [i \in DOMAIN rows |-> WebRow(rows[i])]
\* What is left to the main column, of which only text renders anything.
WebText(parts) ==
  SelectSeq(Flat(SelectSeq(Grouped(parts), IsMain)), LAMBDA p : p.kind = "text")
\* A card for each recording of the output of a call that has one.
WebCards(parts) ==
  LET items == SelectSeq(Grouped(parts), IsRecording)
  IN  [i \in DOMAIN items |-> items[i][1].tapes]
WebShows(parts) == <<SelectSeq(Grouped(parts), IsDetail), WebText(parts), WebCards(parts)>>

(* How the app shows it: it does not see step-starts, shows the last thought *)
(* of a reply that is live as going on, and finds the recordings only in the *)
(* form in which an output is saved.                                         *)
AppParts(parts) == SelectSeq(parts, LAMBDA p : p.kind = "think" \/ Call(p))
AppActivities(parts) == Grouped(AppParts(parts))
AppSays(p, isLast) ==
  IF p.kind = "think" THEN IF isLast /\ ~idle THEN "running" ELSE "done" ELSE Says(p)
AppDetails(p) ==
  {"input"} \cup IF p.state = "done" THEN {"output"} ELSE IF p.state = "failed" THEN {"error"} ELSE {}
AppResult(p) ==
  IF Explores(p) \/ Open(p) THEN "none" ELSE CHOOSE what \in AppDetails(p) \ {"input"} : TRUE
AppWork(parts) ==
  LET rows == Flat(AppActivities(parts))
  IN  [i \in DOMAIN rows |-> [id |-> rows[i].id, says |-> AppSays(rows[i], i = Len(rows)),
                              result |-> AppResult(rows[i])]]
AppText(parts) == SelectSeq(parts, LAMBDA p : p.kind = "text")
AppTapes(saved) == UNION {p.tapes : p \in Range(saved)}

-----------------------------------------------------------------------------
(* What is saved. *)

\* responseMessagesToAssistantParts: a step-start between the messages, none before.
Reply(parts) == Tail(parts)
\* sanitizeStoppedAssistantParts: calls without a result go, then the
\* step-starts nothing follows.
Ended(p) == IF p.kind \in Spoken THEN [p EXCEPT !.state = "done"] ELSE p
Trimmed(parts) ==
  LET last == {i \in DOMAIN parts : parts[i].kind # "step"}
  IN  IF last = {} THEN <<>> ELSE SubSeq(parts, 1, CHOOSE i \in last : \A j \in last : j <= i)
Stopped(parts) ==
  LET kept == SelectSeq(parts, LAMBDA p : ~(Call(p) /\ Open(p)))
  IN  Trimmed([i \in DOMAIN kept |-> Ended(kept[i])])
Saved ==
  CASE phase = "finished" -> Reply(told)
    [] phase = "stopped" -> Stopped(told)
    [] OTHER -> Nothing

\* mergePersistedAssistantParts: calls are compared by id, the rest by place.
Settles(current, persisted) ==
  \/ Open(current) /\ ~Open(persisted) /\ (Call(persisted) \/ current.kind \in Spoken)
  \/ /\ {current.kind, persisted.kind} \subseteq Spoken
     /\ persisted.id # current.id /\ persisted.size >= current.size
MoreComplete(current, persisted) ==
  \E i \in DOMAIN persisted : LET p == persisted[i] IN
    IF Call(p) THEN \E c \in Range(current) : Call(c) /\ c.id = p.id /\ Settles(c, p)
    ELSE p.kind \in Spoken /\ Settles(current[i], p)
Unfinished(parts) == \E p \in Range(parts) : Call(p) /\ Open(p)
Merged(current, persisted) ==
  IF /\ persisted # <<>>
     /\ \/ Len(persisted) > Len(current)
        \/ MoreComplete(current, persisted)
        \/ /\ idle /\ Len(persisted) < Len(current)
           /\ Unfinished(current) /\ ~Unfinished(persisted)
  THEN persisted ELSE current
Shown == Merged(told, row)

-----------------------------------------------------------------------------
(* The run. *)

Running == phase = "running"
NothingOpen == \A p \in Range(told) : ~Open(p)
InStep == SubSeq(told, 1 + CHOOSE i \in DOMAIN told :
                             /\ told[i].kind = "step"
                             /\ \A j \in i + 1 .. Len(told) : told[j].kind # "step",
                 Len(told))
Called == \E p \in Range(InStep) : Call(p)
Id == Len(Said(told)) + 1

\* The model speaks, thinks and calls; the calls of a step run together.
Speaks(kind, size) ==
  /\ Running /\ Id <= MaxSaid /\ \A p \in Range(told) : p.kind \in Spoken => ~Open(p)
  /\ told' = Append(told, Part(kind, "none", Id, size))
  /\ UNCHANGED <<phase, row, idle, tapes, card>>
Calls(tool) ==
  /\ Running /\ Id <= MaxSaid /\ \A p \in Range(told) : p.kind \in Spoken => ~Open(p)
  /\ told' = Append(told, Part("call", tool, Id, 0))
  /\ UNCHANGED <<phase, row, idle, tapes, card>>
Ends(i) ==
  /\ Running /\ i \in DOMAIN told /\ told[i].kind \in Spoken /\ Open(told[i])
  /\ told' = [told EXCEPT ![i].state = "done"]
  /\ UNCHANGED <<phase, row, idle, tapes, card>>
Fails(i) ==
  /\ Running /\ i \in DOMAIN told /\ Call(told[i]) /\ Open(told[i])
  /\ told' = [told EXCEPT ![i].state = "failed"]
  /\ UNCHANGED <<phase, row, idle, tapes, card>>
\* What an answer holds, and the recordings after it.
Outcomes(tool) ==
  CASE tool = "start" -> {<<{Len(tapes) + 1}, Append(tapes, FALSE)>>}
    [] tool = "stop" -> {<<{t}, [tapes EXCEPT ![t] = TRUE]>> : t \in {u \in DOMAIN tapes : ~tapes[u]}}
    [] tool = "list" -> {<<DOMAIN tapes, tapes>>}
    [] OTHER -> {<<{}, tapes>>}
Answers(i) ==
  /\ Running /\ i \in DOMAIN told /\ Call(told[i]) /\ Open(told[i])
  /\ \E outcome \in Outcomes(told[i].tool) :
       /\ told' = [told EXCEPT ![i].state = "done", ![i].tapes = outcome[1]]
       /\ tapes' = outcome[2]
  /\ UNCHANGED <<phase, row, idle, card>>
BeginsStep ==
  /\ Running /\ NothingOpen /\ Called /\ Len(SelectSeq(told, LAMBDA p : p.kind = "step")) < MaxSteps
  /\ Id <= MaxSaid
  /\ told' = Append(told, Step)
  /\ UNCHANGED <<phase, row, idle, tapes, card>>
Finish ==
  /\ Running /\ NothingOpen /\ ~Called /\ InStep # <<>> /\ phase' = "finished"
  /\ UNCHANGED <<told, row, idle, tapes, card>>
\* The reader stops it: the client reads no further and sends what it has.
Stop ==
  /\ Running /\ phase' = "stopped"
  /\ UNCHANGED <<told, row, idle, tapes, card>>
Die ==
  /\ Running /\ phase' = "dead"
  /\ UNCHANGED <<told, row, idle, tapes, card>>

\* A card belongs to a part: another part in its place mounts another card.
Remounts == IF Shown' # Shown THEN NoCard ELSE card
RowArrives ==
  /\ ~Running /\ row = Nothing /\ Saved # Nothing
  /\ row' = Saved /\ UNCHANGED <<told, phase, idle, tapes>> /\ card' = Remounts
BecomesIdle ==
  /\ ~Running /\ ~idle
  /\ idle' = TRUE /\ UNCHANGED <<told, phase, row, tapes>> /\ card' = Remounts

-----------------------------------------------------------------------------
(* The card of a recording (DemoRecordingCard). *)

Offered == \E i \in DOMAIN WebCards(Shown) : 1 \in WebCards(Shown)[i]
Card(pc, attempt) ==
  /\ card' = [pc |-> pc, attempt |-> attempt]
  /\ UNCHANGED <<told, phase, row, idle, tapes>>
Mounts == card.pc = "none" /\ Offered /\ Card("asks", 0)
\* The route looks for the recording in what the thread has saved, then has it
\* uploaded (RecordingUpload), which may fail.
Found == \E p \in Range(Saved) : 1 \in p.tapes
Prepared == card.pc = "asks" /\ Found /\ Card("plays", card.attempt)
NotYet ==
  /\ card.pc = "asks"
  /\ IF card.attempt < RetryLimit THEN Card("waits", card.attempt) ELSE Card("gaveUp", card.attempt)
AsksAgain == card.pc = "waits" /\ Card("asks", card.attempt + 1)
\* The reader presses "Retry preview", or the video could not be loaded.
Retry == card.pc \in {"gaveUp", "plays"} /\ Card("asks", 0)

Next ==
  \/ \E kind \in Spoken, size \in 1 .. 2 : Speaks(kind, size)
  \/ \E tool \in Tools : Calls(tool)
  \/ \E i \in Places : Ends(i) \/ Fails(i) \/ Answers(i)
  \/ BeginsStep \/ Finish \/ Stop \/ Die
  \/ RowArrives \/ BecomesIdle
  \/ Mounts \/ Prepared \/ NotYet \/ AsksAgain \/ Retry
Spec == Init /\ [][Next]_vars

-----------------------------------------------------------------------------
\* Both have what was saved, and the run is over for the client.
AtRest == row # Nothing /\ idle

\* Nothing is shown as going on once the reply is saved.
NothingRuns ==
  AtRest => /\ \A item \in Range(Grouped(Shown)) : ItemSays(item) # "running"
            /\ \A entry \in Range(AppWork(Shown)) : entry.says # "running"
\* To open the thread again changes nothing of what the web shows of it.
ReopenShowsTheSame == AtRest => WebShows(Shown) = WebShows(row)
\* A conversation reads the same on both surfaces (toolPresentation.ts:2): the same
\* text and, but for the calls of the desktop, the same work in the same order, with
\* the same failures; and the web offers no recording that the app does not have.
OfDesktop(parts) == {p.id : p \in {q \in Range(parts) : OfComputer(q)}}
ReadsTheSame ==
  /\ AtRest => WebWork(Shown) = SelectSeq(AppWork(Shown), LAMBDA r : r.id \notin OfDesktop(Shown))
  /\ WebText(Shown) = AppText(Shown)
  /\ UNION Range(WebCards(row)) \subseteq AppTapes(row)
\* At every moment the web shows each text, thought and call but those of the
\* desktop once, in the order in which they were said.
EverythingIsShown ==
  Flat(SelectSeq(Grouped(Shown), LAMBDA i : IsDetail(i) \/ (IsMain(i) /\ i[1].kind = "text")))
    = SelectSeq(Shown, LAMBDA p : p.kind # "step" /\ ~OfComputer(p))
\* What the reader was told is not taken back, but for calls that were cut.
NothingToldIsLost ==
  AtRest => {p.id : p \in {q \in Range(Said(told)) : ~(Call(q) /\ Open(q))}}
              = {p.id : p \in Range(Said(row))}
\* A recording that was stopped is offered by a saved reply, and a card only plays one
\* that is saved.
StoppedIsOffered ==
  /\ AtRest => {t \in DOMAIN tapes : tapes[t]} \subseteq UNION Range(WebCards(row))
  /\ card.pc = "plays" => 1 \in AppTapes(Saved)
TranscriptIsTrue ==
  /\ NothingRuns /\ ReopenShowsTheSame /\ ReadsTheSame
  /\ EverythingIsShown /\ NothingToldIsLost /\ StoppedIsOffered
=============================================================================
