----------------------------- MODULE ChatStream -----------------------------
(***************************************************************************)
(* A client that shows the reply of a run while it is written: the indexed  *)
(* stream of chunks a task run appends to, the route that serves it, the    *)
(* transports that read it across lost connections (web:                    *)
(* trigger-chat-transport.ts, mobile: agentStream.ts), the repair of text   *)
(* parts on the web (ui-message-stream-protocol.ts) and the merge of what   *)
(* was streamed with the row Convex holds (chat-messages.ts,                *)
(* threadStreamState.ts).                                                   *)
(*                                                                          *)
(* A reply is a sequence of text parts, each a number of deltas, in one or   *)
(* more steps; tool parts and metadata are left out, and so is the stop,    *)
(* which AgentRun has.                                                      *)
(* Trigger.dev's stream and the AI SDK's parser are external.               *)
(***************************************************************************)
EXTENDS Naturals, Sequences, FiniteSets, SequencesExt

CONSTANTS
  NumParts, MaxDeltas,  \* bounds: the parts of the reply and their deltas
  MaxFaults             \* bound: connections cut or refused, and reopenings

VARIABLES
  kind,    \* the client: "web" or "mobile"
  log,     \* the chunks of the run's stream
  run,     \* executing, completed or failed
  stored,  \* Convex holds the whole reply
  settled, \* the thread is no longer live
  client,  \* the attachment: pc, index, and the parser's parts
  view,    \* web: the parts of the message in useChat's state
  row,     \* the client has received the row with the reply
  idle,    \* web: the merge ran since the client and the thread became idle
  faults

vars == <<kind, log, run, stored, settled, client, view, row, idle, faults>>
server == <<kind, log, run, stored, settled>>

Parts == 1 .. NumParts
Chunk(type, p) == [type |-> type, part |-> p]
Finish == Chunk("finish", 0)
StartStep == Chunk("start-step", 0)
Chunks == [type : {"start", "delta", "end"}, part : Parts] \cup {StartStep, Finish}
In(s, type, p) == Chunk(type, p) \in Range(s)
Deltas(s) == SelectSeq(s, LAMBDA c : c.type = "delta")
Text(s, p) == Len(SelectSeq(s, LAMBDA c : c = Chunk("delta", p)))
\* The parts a sequence of chunks has built: a step-start part for each step, and
\* the text parts.
StepStart == [type |-> "step-start", part |-> 0, text |-> 0, done |-> FALSE]
PartsOf(s) ==
  LET begun == SelectSeq(s, LAMBDA c : c.type \in {"start", "start-step"})
  IN  [i \in DOMAIN begun |->
         LET p == begun[i].part
         IN  IF begun[i] = StartStep THEN StepStart
             ELSE [type |-> "text", part |-> p, text |-> Text(s, p), done |-> In(s, "end", p)]]
\* The reply as the task stores it: a step-start only between two steps, where
\* the stream has one before the first.
Reply ==
  LET parts == PartsOf(log)
  IN  [i \in 1 .. Len(parts) - 1 |-> [parts[i + 1] EXCEPT !.done = parts[i + 1] # StepStart]]

Detached == [pc |-> "off", index |-> 0, open |-> {}, pend |-> {}, out |-> <<>>]

TypeOK ==
  /\ kind \in {"web", "mobile"} /\ run \in {"executing", "completed", "failed"}
  /\ log \in Seq(Chunks) /\ Len(log) <= NumParts * (MaxDeltas + 3) + 1
  /\ {stored, settled, row, idle} \subseteq BOOLEAN
  /\ client.pc \in {"off", "connect", "read", "expired", "wait", "broken", "ended", "failed"}
  /\ client.index \in 0 .. Len(log) /\ client.pend \subseteq client.open
  /\ client.open \subseteq Parts /\ client.out \in Seq(Chunks)
  /\ faults \in 0 .. MaxFaults

Init ==
  /\ kind \in {"web", "mobile"}
  /\ log = <<>> /\ run = "executing" /\ stored = FALSE /\ settled = FALSE
  /\ client = Detached /\ view = <<>> /\ row = FALSE /\ idle = FALSE
  /\ faults = 0

-----------------------------------------------------------------------------
(* The run. *)

\* A step begins before the first part, and may begin before any other.  A part is
\* text-start, deltas and text-end; a provider may deliver the last delta right
\* after text-end.
MayFollow(c) ==
  LET p == c.part IN
  CASE c = StartStep -> log # <<>> => /\ Last(log) # StartStep
                                      /\ \E q \in Parts : ~In(log, "start", q)
                                      /\ \A q \in Parts : In(log, "start", q) => In(log, "end", q)
    [] c.type = "start" -> /\ log # <<>> /\ ~In(log, "start", p)
                           /\ \A q \in Parts : q < p => In(log, "end", q)
    [] c.type = "delta" -> /\ In(log, "start", p) /\ Text(log, p) < MaxDeltas
                           /\ In(log, "end", p) => Last(log) = Chunk("end", p)
    [] c.type = "end" -> In(log, "start", p) /\ ~In(log, "end", p)
    [] OTHER -> FALSE

Write(c) ==
  /\ run = "executing" /\ ~stored /\ MayFollow(c)
  /\ log' = Append(log, c)
  /\ UNCHANGED <<kind, run, stored, settled, client, view, row, idle, faults>>
Store ==
  /\ run = "executing" /\ ~stored /\ log # <<>> /\ Last(log) # StartStep
  /\ \A p \in Parts : In(log, "start", p) => In(log, "end", p)
  /\ stored' = TRUE
  /\ UNCHANGED <<kind, log, run, settled, client, view, row, idle, faults>>
Complete ==
  /\ run = "executing" /\ stored
  /\ run' = "completed" /\ log' = Append(log, Finish)
  /\ settled' \in BOOLEAN  \* markRunFinished may fail: the stream route settles then
  /\ UNCHANGED <<kind, stored, client, view, row, idle, faults>>
Die ==
  /\ run = "executing" /\ run' = "failed"
  /\ UNCHANGED <<kind, log, stored, settled, client, view, row, idle, faults>>

-----------------------------------------------------------------------------
(* The merge of the row into what the client shows. *)

\* Parts are compared where they stand, whatever they are.
MoreComplete(current, persisted) ==
  /\ current.type = "text" /\ persisted.type = "text"
  /\ \/ ~current.done
     \/ <<persisted.part, persisted.text>> # <<current.part, current.text>>
        /\ persisted.text >= current.text
\* Mutant: each part that the row has more of is taken by itself.
MergeByPart(current, persisted) ==
  [i \in 1 .. Max({Len(current), Len(persisted)}) |->
     IF i \in DOMAIN persisted /\ (i \in DOMAIN current => MoreComplete(current[i], persisted[i]))
     THEN persisted[i] ELSE current[i]]
Merge(current, persisted) ==
  IF /\ persisted # <<>>
     /\ \/ Len(persisted) > Len(current)
        \/ \E i \in DOMAIN persisted : MoreComplete(current[i], persisted[i])
  THEN persisted ELSE current
Row == IF row THEN Reply ELSE <<>>
\* The web keeps the merged message; mobile merges whenever it renders.
Shown == IF kind = "web" THEN view ELSE Merge(PartsOf(client.out), Row)

Busy == client.pc \notin {"off", "ended", "failed"}
RowArrives ==
  /\ stored /\ ~row /\ row' = TRUE
  /\ view' = Merge(view, Reply)
  /\ UNCHANGED <<server, client, idle, faults>>
\* useChat is ready and the run is gone: allowPersistedPartRemoval turns true
\* and the effect merges again.
BecomesIdle ==
  /\ ~Busy /\ settled /\ ~idle /\ idle' = TRUE
  /\ view' = Merge(view, Row)
  /\ UNCHANGED <<server, client, row, faults>>

-----------------------------------------------------------------------------
(* The client. *)

Goes(pc) == client' = [client EXCEPT !.pc = pc]
At(pc) == client.pc = pc
Rests == UNCHANGED <<server, view, row, idle, faults>>
Fault == faults < MaxFaults /\ faults' = faults + 1

\* The web does not replay a message that has persisted parts.
Attach ==
  /\ At("off") /\ ~settled
  /\ kind = "web" => ~row
  /\ Goes("connect") /\ idle' = FALSE
  /\ UNCHANGED <<server, view, row, faults>>
\* Another page, or the app comes back: what was streamed is forgotten.
Reopen ==
  /\ ~At("off") /\ Fault
  /\ client' = Detached /\ view' = Merge(<<>>, Row) /\ idle' = FALSE
  /\ UNCHANGED <<server, row>>

Connect == At("connect") /\ Goes("read") /\ Rests
\* A connection is refused or cut, and tried again from the same chunk.
Cut ==
  /\ client.pc \in {"connect", "read"} /\ Fault /\ Goes("wait")
  /\ UNCHANGED <<server, view, row, idle>>
\* The status says that trying again is of no use.
Refused ==
  /\ At("connect") /\ Fault /\ Goes(IF kind = "web" THEN "failed" ELSE "broken")
  /\ UNCHANGED <<server, view, row, idle>>
Reconnect == At("wait") /\ Goes("connect") /\ Rests

\* flushPendingTextEnds, except for the part kept open.
Flush(st, keep) ==
  LET ended == st.pend \ keep
  IN  [st EXCEPT !.out = @ \o SetToSeq({Chunk("end", p) : p \in ended}),
                 !.open = @ \ ended, !.pend = @ \cap keep]
\* repairUIMessageStreamProtocol
Repair(st, c) ==
  LET flushed == Flush(st, IF c.type = "delta" THEN {c.part} ELSE {})
      begun == [flushed EXCEPT !.out = IF c.part \in flushed.open THEN @
                                       ELSE Append(@, Chunk("start", c.part)),
                               !.open = @ \cup {c.part}]
  IN  CASE c.type = "end" -> IF c.part \in st.open THEN [st EXCEPT !.pend = @ \cup {c.part}] ELSE st
        [] c.type = "delta" -> [begun EXCEPT !.out = Append(@, c)]
        [] c.type = "start" -> [flushed EXCEPT !.out = Append(@, c), !.open = @ \cup {c.part}]
        [] OTHER -> [flushed EXCEPT !.out = IF c = Finish THEN @ ELSE Append(@, c)]
\* Without the repair the AI SDK takes a delta of an ended part for an error.
Parse(st, c) ==
  CASE c.type = "start" -> [st EXCEPT !.out = Append(@, c), !.open = @ \cup {c.part}]
    [] c.type = "delta" /\ c.part \notin st.open -> [st EXCEPT !.pc = "broken"]
    [] c.type = "delta" -> [st EXCEPT !.out = Append(@, c)]
    [] c.type = "end" -> [st EXCEPT !.out = Append(@, c), !.open = @ \ {c.part}]
    [] OTHER -> [st EXCEPT !.out = IF c = Finish THEN @ ELSE Append(@, c)]

Feed(c, counted) ==
  LET counts == [client EXCEPT !.index = @ + counted, !.pc = IF c = Finish THEN "ended" ELSE @]
  IN  /\ client' = IF kind = "web" THEN Repair(counts, c) ELSE Parse(counts, c)
      /\ view' = IF client'.out = client.out THEN view ELSE PartsOf(client'.out)
Receive ==
  /\ At("read") /\ client.index < Len(log)
  /\ Feed(log[client.index + 1], 1)
  \* The route settles a thread whose stream has finished.
  /\ settled' = (settled \/ log[client.index + 1] = Finish)
  /\ UNCHANGED <<kind, log, run, stored, row, idle, faults>>

\* The upstream read reaches its end or its timeout; the route then asks whether
\* the run is over, and if so ends the stream in its place.
Expire ==
  /\ At("read") /\ client.index = Len(log)
  /\ Goes("expired") /\ Rests
CloseWithoutFinish ==  \* mutant: the route does not ask for the run
  /\ At("expired") /\ Goes("wait") /\ Rests
CloseStream ==
  /\ At("expired")
  /\ IF run = "executing"
     THEN Goes("wait") /\ UNCHANGED <<settled, view>>
     ELSE Feed(Finish, 0) /\ settled' = TRUE
  /\ UNCHANGED <<kind, log, run, stored, row, idle, faults>>

\* Mobile starts over when its stream failed and the run is still live.
StartOver ==
  /\ At("broken")
  /\ client' = IF settled THEN [client EXCEPT !.pc = "failed"]
               ELSE [Detached EXCEPT !.pc = "connect"]
  /\ Rests

-----------------------------------------------------------------------------
Client ==
  \/ Attach \/ Connect \/ Reconnect \/ Receive \/ Expire \/ CloseStream \/ StartOver
Next ==
  \/ \E c \in Chunks : Write(c)
  \/ Store \/ Complete \/ Die \/ RowArrives \/ BecomesIdle
  \/ Client \/ Cut \/ Refused \/ Reopen

\* The browser reads and reconnects by itself; whatever else may never happen.
Fairness == WF_vars(Client)
Spec == Init /\ [][Next]_vars /\ Fairness

-----------------------------------------------------------------------------
WellFormed(s) ==
  \A i \in DOMAIN s :
    LET before == SubSeq(s, 1, i - 1)
    IN  IF s[i].type = "start" THEN ~In(before, "start", s[i].part)
        ELSE s[i] # StartStep => /\ In(before, "start", s[i].part)
                                 /\ ~In(before, "end", s[i].part)
\* What reaches the AI SDK is what the run streamed, each delta once and in order
\* and inside its part, however often the connection was lost and although a
\* delta may come late (trigger-chat-transport.ts:181, ui-message-stream-
\* protocol.ts:17).
ShownOnce ==
  /\ WellFormed(client.out)
  /\ client.pc \in {"broken", "failed"} \/ Deltas(client.out) = Deltas(SubSeq(log, 1, client.index))

Words(parts) ==
  LET texts == SelectSeq(parts, LAMBDA p : p.type = "text")
  IN  [i \in DOMAIN texts |-> <<texts[i].part, texts[i].text>>]
\* A client that has come to rest with the row shows the row's parts or those it
\* was streamed, never a mixture; the row whenever that has more parts; and the
\* words of the reply if it read the whole stream (chat-messages.ts:399,
\* threadStreamState.ts:110).  One that was streamed less may be left with less:
\* <<step-start, "Hel">> is as long as <<"Hello">>, and no text stands against another.
RestShowsReply ==
  LET streamed == PartsOf(client.out)
  IN  row /\ (kind = "web" => idle) /\ ~Busy =>
        /\ Shown \in {Reply, streamed}
        /\ Len(streamed) < Len(Reply) => Shown = Reply
        /\ At("ended") /\ client.index = Len(log) => Words(Shown) = Words(Reply)

\* A client does not stay attached to a run that is over: its stream ends, if
\* need be in place of the run (trigger-agent-stream-server.ts:38).  Mobile, which
\* starts over after a delta it cannot parse, needs the thread to be settled.
StreamEnds == (Busy /\ run # "executing" /\ (kind = "web" \/ settled)) ~> ~Busy
=============================================================================
