---------------------------- MODULE RealtimeCall ----------------------------
(***************************************************************************)
(* One live voice call: the WebRTC connection of the browser                *)
(* (realtime-browser.ts), the session on the server it is signalled through *)
(* and closed with (realtime-app-server-browser.ts), the stream of events   *)
(* the server keeps for it (realtime-app-server-routes.ts), and the tools   *)
(* the session runs, some of which wait for the user (realtime-app-server). *)
(* That a login has one session at a time is in RealtimeSessions.           *)
(*                                                                          *)
(* The page brings neither a microphone stream nor a connection of its own, *)
(* and a message of the data channel is what it says about the call.        *)
(***************************************************************************)
EXTENDS Naturals, Sequences, FiniteSets, SequencesExt

CONSTANTS
  Calls,        \* tool calls of the session
  MaxQueued,    \* MAX_QUEUED_EVENTS
  MaxMessages,  \* bound: messages of the data channel
  MaxToggles,   \* bound: times the user mutes or unmutes
  MaxFaults     \* bound: what fails, on either side or between

VARIABLES
  phase,    \* of connectChatGPTRealtimeAppServer, see TypeOK
  peer,     \* [mic, channel]: the tracks, and the data channel with its connection
  voice,    \* [state, muted, outputMuted, restore]: what is heard
  ending,   \* [closed, goodbye, aborted]: how the call came to its end, if it did
  inbox,    \* messages that are being decoded
  signal,   \* the POST that starts the session
  known,    \* the page has the session's id
  delete,   \* the DELETE that closes it
  session,  \* the session on the server: "none", "running", "closing" or "over"
  managed,  \* the routes know it
  events,   \* [queued, stream, sent, seen, all]: the events and where they are
  call,     \* the step of each tool call
  tally,    \* per call: the answers to the session, how often the application is
            \* being asked to do what was confirmed, and how often it was done
  left      \* what the bounds leave of each

vars == <<phase, peer, voice, ending, inbox, signal, known, delete, session, managed, events,
          call, tally, left>>
client == <<phase, peer, voice, ending, inbox, known>>
server == <<session, managed, call, tally>>

Messages == {"speaking", "goodbye"}
Event == {<<"started">>, <<"closed">>} \cup ({"running", "waiting", "completed", "failed"} \X Calls)
Uses(what) == left[what] > 0 /\ left' = [left EXCEPT ![what] = @ - 1]
Fault == Uses("faults")

TypeOK ==
  /\ phase \in {"new", "ice", "signaling", "answered", "opening", "connected", "over"}
  /\ peer \in [mic : BOOLEAN, channel : {"none", "connecting", "open", "closed"}]
  /\ voice \in [state : {"connecting", "listening", "speaking", "halted"}, muted : BOOLEAN,
                outputMuted : BOOLEAN, restore : BOOLEAN]
  /\ ending \in [closed : BOOLEAN, goodbye : BOOLEAN, aborted : BOOLEAN]
  /\ inbox \subseteq Messages /\ {known, managed} \subseteq BOOLEAN
  /\ signal \in {"no", "sent", "served", "refused", "over"}
  /\ delete \in {"no", "sent", "done", "failed"}
  /\ session \in {"none", "running", "closing", "over"}
  /\ events.stream \in {"no", "asked", "open", "over"}
  /\ {events.queued, events.sent, events.seen, events.all} \subseteq Seq(Event)
  /\ Len(events.queued) <= MaxQueued
  /\ call \in [Calls -> {"none", "running", "waiting", "confirming", "completed", "failed"}]
  /\ tally \in [Calls -> [answers : Nat, asked : Nat, done : Nat]]
  /\ left \in [{"messages", "toggles", "faults"} -> Nat]

Init ==
  /\ phase = "new" /\ peer = [mic |-> FALSE, channel |-> "none"]
  /\ voice = [state |-> "connecting", muted |-> FALSE, outputMuted |-> FALSE, restore |-> FALSE]
  /\ ending = [closed |-> FALSE, goodbye |-> FALSE, aborted |-> FALSE] /\ inbox = {}
  /\ signal = "no" /\ known = FALSE /\ delete = "no" /\ session = "none" /\ managed = FALSE
  /\ events = [queued |-> <<>>, stream |-> "no", sent |-> <<>>, seen |-> <<>>, all |-> <<>>]
  /\ call = [k \in Calls |-> "none"] /\ tally = [k \in Calls |-> [answers |-> 0, asked |-> 0, done |-> 0]]
  /\ left = [messages |-> MaxMessages, toggles |-> MaxToggles, faults |-> MaxFaults]

-----------------------------------------------------------------------------
(* The connection. *)

Off == [mic |-> FALSE, channel |-> "closed"]

\* What connecting took is given back; the session is closed if its id is known.
GivesUp ==
  /\ phase' = "over" /\ peer' = Off
  /\ delete' = IF known THEN "sent" ELSE delete
  /\ UNCHANGED <<voice, ending, inbox, known, events, server>>

GetMedia ==
  /\ phase = "new"
  /\ \/ phase' = "ice" /\ peer' = [mic |-> TRUE, channel |-> "connecting"] /\ UNCHANGED left
     \/ phase' = "over" /\ Fault /\ UNCHANGED peer
  /\ UNCHANGED <<voice, ending, inbox, signal, known, delete, events, server>>

\* waitForIceGathering, and the POST; neither begins when the page has aborted.
SendOffer ==
  /\ phase = "ice" /\ ~ending.aborted /\ phase' = "signaling" /\ signal' = "sent"
  /\ UNCHANGED <<peer, voice, ending, inbox, known, delete, events, server, left>>

\* The answer has the session's id, and the description of the other side.
AnswerArrives ==
  /\ phase = "signaling" /\ signal = "served" /\ ~ending.aborted
  /\ signal' = "over" /\ known' = TRUE /\ phase' = "answered"
  /\ UNCHANGED <<peer, voice, ending, inbox, delete, events, server, left>>

\* An error or a time limit of any step, a refused offer, or the signal of the
\* page: in "opening" it is looked at only while the channel is not open yet.
ConnectFails ==
  /\ phase \in {"ice", "signaling", "answered", "opening"} /\ GivesUp
  /\ \/ /\ ending.aborted /\ (phase = "opening" => peer.channel # "open")
        /\ phase # "answered" /\ UNCHANGED left
     \/ phase = "signaling" /\ signal = "refused" /\ UNCHANGED left
     \/ Fault
  /\ signal' = IF signal = "refused" THEN "over" ELSE signal

SetAnswer ==
  /\ phase = "answered" /\ phase' = "opening"
  /\ UNCHANGED <<peer, voice, ending, inbox, signal, known, delete, events, server, left>>
ChannelOpens ==
  /\ phase \in {"answered", "opening"} /\ peer.channel = "connecting"
  /\ peer' = [peer EXCEPT !.channel = "open"]
  /\ UNCHANGED <<phase, voice, ending, inbox, signal, known, delete, events, server, left>>

\* close() of the browser's connection, the first time.
Closes ==
  IF ending.closed THEN UNCHANGED <<peer, voice>> /\ ending' = ending
  ELSE /\ peer' = Off
       /\ voice' = [voice EXCEPT !.state = "halted", !.restore = FALSE]
       /\ ending' = [ending EXCEPT !.closed = TRUE]
\* closeServer(): the first call counts, and ends the stream of events.
StreamAborted == events' = [events EXCEPT !.stream = "over", !.sent = <<>>]
ClosesServer ==
  IF delete # "no" THEN UNCHANGED <<delete, events>>
  ELSE delete' = "sent" /\ StreamAborted

\* An abort that came too late for the steps before closes the call at once.
Connected ==
  /\ phase = "opening" /\ peer.channel = "open" /\ phase' = "connected"
  /\ IF ending.aborted THEN Closes /\ ClosesServer
     ELSE /\ voice' = [voice EXCEPT !.state = "listening"]
          /\ events' = [events EXCEPT !.stream = "asked"]
          /\ UNCHANGED <<peer, ending, delete>>
  /\ UNCHANGED <<inbox, signal, known, server, left>>

Close ==
  /\ phase = "connected" /\ ~ending.closed /\ Closes /\ ClosesServer
  /\ UNCHANGED <<phase, inbox, signal, known, server, left>>
CloseServer ==
  /\ phase = "connected" /\ delete = "no" /\ ClosesServer
  /\ UNCHANGED <<client, signal, server, left>>
Abort ==
  /\ ~ending.aborted /\ phase # "over"
  /\ IF phase = "connected"
     THEN /\ peer' = Off
          /\ voice' = [voice EXCEPT !.state = "halted", !.restore = FALSE]
          /\ ending' = [ending EXCEPT !.closed = TRUE, !.aborted = TRUE] /\ ClosesServer
     ELSE ending' = [ending EXCEPT !.aborted = TRUE] /\ UNCHANGED <<peer, voice, delete, events>>
  /\ UNCHANGED <<phase, inbox, signal, known, server, left>>

\* The other side, or the network.
ChannelCloses ==
  /\ phase = "connected" /\ peer.channel = "open"
  /\ IF ending.goodbye THEN UNCHANGED left ELSE Fault
  /\ peer' = [peer EXCEPT !.channel = "closed"]
  /\ UNCHANGED <<phase, voice, ending, inbox, signal, known, delete, events, server>>

-----------------------------------------------------------------------------
(* What is heard. *)

Unchanged == UNCHANGED <<phase, peer, signal, known, delete, events, server>>

\* A message that comes as a Blob is decoded later, and may be overtaken.
MessageArrives(m) ==
  /\ peer.channel = "open" /\ inbox' = inbox \cup {m} /\ Uses("messages")
  /\ UNCHANGED <<voice, ending>> /\ Unchanged
Decoded(m) ==
  /\ m \in inbox /\ inbox' = inbox \ {m}
  /\ voice' = [voice EXCEPT !.state = IF m = "goodbye" THEN "halted" ELSE m]
  /\ ending' = [ending EXCEPT !.goodbye = @ \/ m = "goodbye"]
  /\ UNCHANGED left /\ Unchanged

\* startBargeInMonitor: the user speaks over the model.
Interrupt ==
  /\ phase = "connected" /\ ~ending.closed /\ peer.channel = "open" /\ voice.state = "speaking"
  /\ voice' = [voice EXCEPT !.state = "listening", !.muted = TRUE, !.restore = TRUE]
  /\ UNCHANGED <<ending, inbox, left>> /\ Unchanged
Restore ==
  /\ voice.restore /\ voice' = [voice EXCEPT !.restore = FALSE, !.muted = voice.outputMuted]
  /\ UNCHANGED <<ending, inbox, left>> /\ Unchanged
SetOutputMuted ==
  /\ phase = "connected" /\ Uses("toggles")
  /\ \E b \in BOOLEAN : voice' = [voice EXCEPT !.muted = b, !.outputMuted = b]
  /\ UNCHANGED <<ending, inbox>> /\ Unchanged

-----------------------------------------------------------------------------
(* The session on the server and its events. *)

\* An event goes to the stream, or waits for one; only the newest wait.
Newest(q) == IF Len(q) > MaxQueued THEN Tail(q) ELSE q
EmitTo(ev, e) ==
  IF ev.stream = "open" THEN [ev EXCEPT !.all = Append(@, e), !.sent = Append(@, e)]
  ELSE [ev EXCEPT !.all = Append(@, e), !.queued = Newest(Append(@, e))]
Emits(e) == events' = EmitTo(events, e)

SessionStarts ==
  /\ signal = "sent"
  /\ \/ /\ signal' = "served" /\ session' = "running" /\ managed' = TRUE
        /\ Emits(<<"started">>) /\ UNCHANGED left
     \/ signal' = "refused" /\ Fault /\ UNCHANGED <<session, managed, events>>
  /\ UNCHANGED <<client, delete, call, tally>>

\* The process stops, or the service ends the call.
SessionStops ==
  /\ session = "running" /\ session' = "closing" /\ Fault
  /\ UNCHANGED <<client, signal, delete, managed, events, call, tally>>
\* The session's time is over.
SessionExpires ==
  /\ managed /\ managed' = FALSE /\ session' = IF session = "running" THEN "closing" ELSE session
  /\ UNCHANGED <<client, signal, delete, events, call, tally, left>>
SessionCloses ==
  /\ session = "closing" /\ session' = "over" /\ managed' = FALSE /\ Emits(<<"closed">>)
  /\ UNCHANGED <<client, signal, delete, call, tally, left>>
\* The request is answered 404 if the session is gone; or it does not arrive.
Deleted ==
  /\ delete = "sent"
  /\ \/ /\ delete' = "done" /\ managed' = FALSE /\ UNCHANGED left
        /\ session' = IF managed /\ session = "running" THEN "closing" ELSE session
     \/ delete' = "failed" /\ Fault /\ UNCHANGED <<managed, session>>
  /\ UNCHANGED <<client, signal, events, call, tally>>

\* GET events: what waited is sent first.
TakesQueue(ev) == [ev EXCEPT !.stream = "open", !.sent = @ \o ev.queued, !.queued = <<>>]
StreamOpens ==
  /\ events.stream = "asked"
  /\ events' = IF managed THEN TakesQueue(events) ELSE [events EXCEPT !.stream = "over"]
  /\ UNCHANGED <<client, signal, delete, server, left>>
\* The page reads the next event; the last one ends the stream.
EventArrives ==
  /\ events.sent # <<>>
  /\ events' = [events EXCEPT !.sent = Tail(@), !.seen = Append(@, Head(events.sent)),
                              !.stream = IF Head(events.sent) = <<"closed">> THEN "over" ELSE @]
  /\ UNCHANGED <<client, signal, delete, server, left>>
\* The network, or a page that reads too slowly: nobody asks for it again.
StreamBreaks ==
  /\ events.stream = "open" /\ Fault /\ StreamAborted
  /\ UNCHANGED <<client, signal, delete, server>>

-----------------------------------------------------------------------------
(* The tools. *)

ToolUnchanged == UNCHANGED <<client, signal, delete, session, managed>>

CallTool(k) ==
  /\ session = "running" /\ call[k] = "none" /\ call' = [call EXCEPT ![k] = "running"]
  /\ Emits(<<"running", k>>) /\ UNCHANGED <<tally, left>> /\ ToolUnchanged

Answers(k) == tally' = [tally EXCEPT ![k].answers = @ + 1]
\* The tool has done its work, or leaves it to the user, or fails; the session is
\* told at once.
ToolReturns(k) ==
  /\ call[k] = "running" /\ session # "over"
  /\ \/ /\ call' = [call EXCEPT ![k] = "completed"] /\ Emits(<<"completed", k>>)
        /\ tally' = [tally EXCEPT ![k].answers = @ + 1, ![k].done = @ + 1] /\ UNCHANGED left
     \/ /\ call' = [call EXCEPT ![k] = "waiting"] /\ Emits(<<"waiting", k>>)
        /\ Answers(k) /\ UNCHANGED left
     \/ /\ call' = [call EXCEPT ![k] = "failed"] /\ Emits(<<"failed", k>>)
        /\ Answers(k) /\ Fault
  /\ ToolUnchanged
\* The process takes no answer any more.
ToolReturnsTooLate(k) ==
  /\ call[k] = "running" /\ session \in {"closing", "over"}
  /\ call' = [call EXCEPT ![k] = "failed"] /\ UNCHANGED <<tally, events, left>> /\ ToolUnchanged

\* The page has shown it and the user confirms; the call is claimed before the
\* application is asked, and waits again if that fails.
IsShown(k) == <<"waiting", k>> \in ToSet(events.seen)
MayConfirm(k) == managed /\ call[k] = "waiting"
Confirm(k) ==
  /\ IsShown(k) /\ phase = "connected" /\ MayConfirm(k)
  /\ call' = [call EXCEPT ![k] = "confirming"] /\ tally' = [tally EXCEPT ![k].asked = @ + 1]
  /\ UNCHANGED <<events, left>> /\ ToolUnchanged
Confirmed(k) ==
  /\ tally[k].asked > 0
  /\ \/ /\ call' = [call EXCEPT ![k] = "completed"]
        /\ tally' = [tally EXCEPT ![k].asked = @ - 1, ![k].done = @ + 1] /\ UNCHANGED left
        /\ IF session = "over" THEN UNCHANGED events ELSE Emits(<<"completed", k>>)
     \/ /\ call' = [call EXCEPT ![k] = "waiting"] /\ Fault
        /\ tally' = [tally EXCEPT ![k].asked = @ - 1] /\ UNCHANGED events
  /\ ToolUnchanged

-----------------------------------------------------------------------------
Next ==
  \/ GetMedia \/ SendOffer \/ AnswerArrives \/ ConnectFails \/ SetAnswer \/ ChannelOpens
  \/ Connected \/ Close \/ CloseServer \/ Abort \/ ChannelCloses
  \/ \E m \in Messages : MessageArrives(m) \/ Decoded(m)
  \/ Interrupt \/ Restore \/ SetOutputMuted
  \/ SessionStarts \/ SessionStops \/ SessionExpires \/ SessionCloses \/ Deleted
  \/ StreamOpens \/ EventArrives \/ StreamBreaks
  \/ \E k \in Calls : CallTool(k) \/ ToolReturns(k) \/ ToolReturnsTooLate(k) \/ Confirm(k) \/ Confirmed(k)

Spec == Init /\ [][Next]_vars

-----------------------------------------------------------------------------
\* A call that is over has given back the microphone and the connection, and its
\* session is asked to close, unless the page never learnt of the session
\* (realtime-app-server-browser.ts:114).
IsOver == phase = "over" \/ ending.closed
NothingIsLeftOn ==
  IsOver => ~peer.mic /\ peer.channel # "open" /\ (known => delete # "no")

\* What is heard is what the user chose, once the pause of an interruption is
\* over; a call that is closed within one stays muted (realtime-browser.ts:246).
OutputIsRestored ==
  phase = "connected" /\ ~voice.restore /\ ~ending.closed => voice.muted = voice.outputMuted

\* All that is in s is in t, in the same order; t has nothing twice.
InOrder(s, t) ==
  /\ \A i \in 1 .. Len(s) : \E m \in 1 .. Len(t) : t[m] = s[i]
  /\ \A i, j \in 1 .. Len(s) :
       i < j => \E m \in 1 .. Len(t) : t[m] = s[i] /\ \E n \in (m + 1) .. Len(t) : t[n] = s[j]

\* The page sees the events of its session in their order and none twice: what it
\* has seen, what is on the way and what waits are all there were, but for those
\* that waited too long and those of a stream that ended.
EventsAreInOrder ==
  LET had == events.seen \o events.sent \o events.queued
  IN /\ Cardinality(ToSet(had)) = Len(had) /\ InOrder(had, events.all)
     /\ events.stream = "open" /\ Len(events.all) <= MaxQueued => had = events.all

\* The session gets one answer for a tool, however long the user takes; what waits
\* for the user is done at most once, and only then shown as completed.
ToolsAreDoneOnce ==
  \A k \in Calls :
    /\ tally[k].answers <= 1 /\ tally[k].done <= 1
    /\ call[k] \in {"waiting", "confirming", "completed"} => tally[k].answers = 1
    /\ <<"completed", k>> \in ToSet(events.seen) => tally[k].done = 1

CallIsSound == NothingIsLeftOn /\ OutputIsRestored /\ EventsAreInOrder /\ ToolsAreDoneOnce
=============================================================================
