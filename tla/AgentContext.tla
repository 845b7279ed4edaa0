---------------------------- MODULE AgentContext ----------------------------
(***************************************************************************)
(* What an agent sends its model.  A turn is a loop of steps: the prompt is  *)
(* prepared (agent-context-compaction.ts keeps the setup and a recent tail    *)
(* and replaces the rest by a checkpoint; step-controller.ts stops tool loops *)
(* that get nowhere), it is requested, again with less when the provider says *)
(* it is too long, its stream is passed on, and the tools it calls run, some  *)
(* of them agents of their own (sub-agent.ts).  What a turn leaves is the     *)
(* beginning of the next one, without the calls that were cut off             *)
(* (chat-messages.ts).                                                        *)
(*                                                                            *)
(* A message is its role, the tool calls it makes or answers, and its size.   *)
(***************************************************************************)
EXTENDS Integers, Sequences, FiniteSets, SequencesExt, FiniteSetsExt, Functions

CONSTANTS
  Usable,        \* usableTokens
  Keep,          \* KEEP_RECENT_TOKENS
  Cap,           \* TOOL_OUTPUT_MAX_CHARS: an output is that large, or replaced by a note
  Budgets,       \* EMERGENCY_TAIL_CHARS, for the first and the second retry
  FailureLimit,  \* DEFAULT_REPEATED_FAILURE_LIMIT
  ResultLimit,   \* DEFAULT_REPEATED_RESULT_LIMIT
  MaxSubAgents,  \* DEFAULT_MAX_CONCURRENT_SUB_AGENTS
  Outputs,       \* the sizes of what tools return
  MaxSteps,      \* MAX_AGENT_STEPS
  MaxCalls,      \* bound: calls of one step
  MaxTurns,      \* bound: messages of the user
  MaxFaults      \* bound: errors of the provider, and stops

ContextAssumption ==
  /\ {Usable, Keep, Cap, MaxSubAgents, MaxSteps, MaxCalls, MaxTurns, MaxFaults} \subseteq Nat
  /\ Outputs \subseteq Nat \ {0} /\ Budgets \in Seq(Nat)
  /\ {FailureLimit, ResultLimit} \subseteq Nat \ {0, 1}

VARIABLES
  history,     \* the messages of the turn, with what went before
  checkpoint,  \* CompactionState: [through, covers], the messages it stands for
  phase,       \* of the step, see TypeOK
  prompt,      \* what was prepared for it
  attempt,     \* how often the provider found it too long
  stream,      \* of the attempt: [buffered, emitted, ended]
  shown,       \* what the step's stream passed on: <<attempt, chunk>>
  calls,       \* the calls of the step: "running", "done" or "failed"
  agents,      \* activeCount of the sub-agent tool, and the calls it counts
  loop,        \* how many steps in a row failed alike, or returned alike
  steps,       \* how many steps the turn has had, and the tokens of the last one
  reply,       \* the parts of the reply, step by step
  turns,
  faults

vars == <<history, checkpoint, phase, prompt, attempt, stream, shown, calls, agents, loop, steps,
          reply, turns, faults>>

Fault == faults < MaxFaults /\ faults' = faults + 1

Message(role, ids, size) == [role |-> role, ids |-> ids, size |-> size]
Setup == Message("user", {}, 1)
Asks == Message("user", {}, 1)
NoCheckpoint == [through |-> 1, covers |-> {}]
NoStream == [buffered |-> <<>>, emitted |-> FALSE, ended |-> FALSE]
Calls == (1 .. MaxTurns) \X (1 .. MaxSteps) \X (1 .. MaxCalls)
Chunks == {<<"meta">>, <<"text">>, <<"error">>} \cup Calls

TypeOK ==
  /\ history \in Seq([role : {"user", "assistant", "tool"}, ids : SUBSET Calls, size : Nat])
  /\ checkpoint \in [through : Nat, covers : SUBSET Nat]
  /\ phase \in {"ready", "requesting", "streaming", "done", "failed", "stopped"}
  /\ attempt \in 0 .. Len(Budgets)
  /\ stream \in [buffered : Seq(Chunks), emitted : BOOLEAN, ended : BOOLEAN]
  /\ shown \in Seq((0 .. Len(Budgets)) \X Chunks)
  /\ \E S \in SUBSET Calls : calls \in [S -> {"running", "done", "failed"}]
  /\ agents \in [active : 0 .. MaxSubAgents, running : SUBSET Calls]
  /\ loop \in [fails : Nat, same : Nat, stopped : BOOLEAN]
  /\ steps \in [done : 0 .. MaxSteps, input : Nat]
  /\ reply \in Seq([text : BOOLEAN, calls : SUBSET Calls, ended : SUBSET Calls, size : Nat])
  /\ turns \in 1 .. MaxTurns /\ faults \in 0 .. MaxFaults

Init ==
  /\ history = <<Setup, Asks>> /\ checkpoint = NoCheckpoint /\ phase = "ready"
  /\ prompt = <<>> /\ attempt = 0 /\ stream = NoStream /\ shown = <<>>
  /\ calls = <<>> /\ agents = [active |-> 0, running |-> {}]
  /\ loop = [fails |-> 0, same |-> 0, stopped |-> FALSE]
  /\ steps = [done |-> 0, input |-> 0] /\ reply = <<>> /\ turns = 1 /\ faults = 0

-----------------------------------------------------------------------------
(* The prompt of a step. *)

\* An item of a prompt: what it is, and the messages of the history it stands for.
Item(kind, of, m) == [kind |-> kind, of |-> of, role |-> m.role, ids |-> m.ids, size |-> m.size]
Checkpoint(covers) == Item("checkpoint", covers, Message("user", {}, 1))
Notice == Item("notice", {}, Message("user", {}, 1))

\* capLargeToolOutputs
Capped(m) == IF m.role = "tool" /\ m.size > Cap THEN [m EXCEPT !.size = 1] ELSE m
Verbatim(h, from) == [i \in 1 .. Len(h) - from + 1 |-> Item("message", {from + i - 1}, Capped(h[from + i - 1]))]
SizeOf(items) == FoldFunction(+, 0, [i \in DOMAIN items |-> items[i].size])

\* Where the tail of a conversation begins that is kept: it fits the budget, or is
\* the last message with its results; a result is never cut off its call.
Begins(items) == {i \in DOMAIN items : items[i].role # "tool"}
Fits(items, i, budget) == SizeOf(SubSeq(items, i, Len(items))) <= budget
CutsAnywhere(items, budget) ==  \* mutant: a tail may begin with a result
  IF items = <<>> THEN 1
  ELSE Min({i \in DOMAIN items : Fits(items, i, budget)} \cup {Len(items)})
TailStart(items, budget) ==
  IF items = <<>> THEN 1
  ELSE Min({i \in Begins(items) : Fits(items, i, budget)} \cup {Max(Begins(items))})

\* The prompt while the checkpoint stands: the setup, the checkpoint and the rest.
WithCheckpoint(c) ==
  IF c.covers = {} THEN Verbatim(history, 1)
  ELSE SubSeq(Verbatim(history, 1), 1, 1) \o <<Checkpoint(c.covers)>> \o Verbatim(history, c.through + 1)

\* The messages between the last checkpoint and the tail are summarized with it.
Compacted ==
  LET start == TailStart(Verbatim(history, 1), Keep)
      tooLong == SizeOf(WithCheckpoint(checkpoint)) >= Usable \/ steps.input >= Usable
  IN IF ~tooLong \/ start - 1 <= checkpoint.through THEN checkpoint
     ELSE [through |-> start - 1, covers |-> checkpoint.covers \cup (checkpoint.through + 1 .. start - 1)]

\* detectRepeatedToolLoop, once in a turn: the step gets a notice and no tools.
IsLooping == ~loop.stopped /\ (loop.fails >= FailureLimit \/ loop.same >= ResultLimit)

PrepareStep ==
  /\ phase = "ready" /\ phase' = "requesting"
  /\ checkpoint' = Compacted
  /\ prompt' = WithCheckpoint(checkpoint') \o (IF IsLooping THEN <<Notice>> ELSE <<>>)
  /\ loop' = [loop EXCEPT !.stopped = @ \/ IsLooping]
  /\ attempt' = 0 /\ stream' = NoStream /\ shown' = <<>> /\ calls' = <<>>
  /\ UNCHANGED <<history, agents, steps, reply, turns, faults>>

-----------------------------------------------------------------------------
(* The request and its stream (createContextOverflowRecoveryMiddleware). *)

\* emergencyCompactProviderPrompt: what is before the tail becomes one message,
\* what is in it is cut down.
Squeezed(item, a) == [item EXCEPT !.size = Min({@, Budgets[a]})]
Emergency(items, a) ==
  LET talk == [i \in 1 .. Len(items) - 1 |-> Squeezed(items[i + 1], a)]
      start == TailStart(talk, Budgets[a])
      head == UNION {talk[i].of : i \in 1 .. start - 1}
  IN <<items[1], Item("recovery", head, Message("user", {}, 1))>> \o SubSeq(talk, start, Len(talk))
Sent == IF attempt = 0 THEN prompt ELSE Emergency(prompt, attempt)

StepUnchanged == UNCHANGED <<history, checkpoint, prompt, loop, steps, turns>>

\* The provider takes it, finds it too long, or fails.
MayRetry == attempt < Len(Budgets) /\ ~stream.emitted
Request ==
  /\ phase = "requesting"
  /\ \/ /\ phase' = "streaming" /\ stream' = NoStream
        /\ reply' = IF Len(reply) > steps.done THEN reply
                    ELSE Append(reply, [text |-> FALSE, calls |-> {}, ended |-> {}, size |-> 1])
        /\ UNCHANGED <<attempt, faults>>
     \/ Fault /\ MayRetry /\ attempt' = attempt + 1 /\ UNCHANGED <<phase, stream, reply>>
     \/ Fault /\ phase' = "failed" /\ UNCHANGED <<attempt, stream, reply>>
  /\ UNCHANGED <<shown, calls, agents>> /\ StepUnchanged

Here == Len(reply)
Passes(cs) == shown' = shown \o [i \in 1 .. Len(cs) |-> <<attempt, cs[i]>>]
\* The first output lets go what was held back.
PassesOutput(c) ==
  /\ Passes(IF stream.emitted THEN <<c>> ELSE Append(stream.buffered, c))
  /\ stream' = [stream EXCEPT !.emitted = TRUE]

Metadata ==
  /\ phase = "streaming" /\ ~stream.ended /\ stream.buffered = <<>> /\ ~stream.emitted
  /\ stream' = [stream EXCEPT !.buffered = <<<<"meta">>>>]
  /\ UNCHANGED <<phase, attempt, shown, calls, agents, reply, faults>> /\ StepUnchanged
Text ==
  /\ phase = "streaming" /\ ~stream.ended /\ ~reply[Here].text /\ calls = <<>>
  /\ PassesOutput(<<"text">>) /\ reply' = [reply EXCEPT ![Here].text = TRUE]
  /\ UNCHANGED <<phase, attempt, calls, agents, faults>> /\ StepUnchanged

\* A tool runs as soon as it is called; an agent more than there may be is refused.
Call(k, isAgent) ==
  /\ phase = "streaming" /\ ~stream.ended /\ ~loop.stopped
  /\ k = <<turns, steps.done + 1, Cardinality(DOMAIN calls) + 1>> /\ k[3] <= MaxCalls
  /\ PassesOutput(k)
  /\ LET refused == isAgent /\ agents.active >= MaxSubAgents
     IN /\ calls' = [c \in DOMAIN calls \cup {k} |->
                       IF c # k THEN calls[c] ELSE IF refused THEN "failed" ELSE "running"]
        /\ reply' = [reply EXCEPT ![Here].calls = @ \cup {k},
                                  ![Here].ended = IF refused THEN @ \cup {k} ELSE @]
        /\ agents' = IF ~isAgent \/ refused THEN agents
                     ELSE [active |-> agents.active + 1, running |-> agents.running \cup {k}]
  /\ UNCHANGED <<phase, attempt, faults>> /\ StepUnchanged

ToolReturns(k) ==
  /\ phase = "streaming" /\ k \in DOMAIN calls /\ calls[k] = "running"
  /\ \E end \in {"done", "failed"}, size \in Outputs :
       /\ calls' = [calls EXCEPT ![k] = end]
       /\ reply' = [reply EXCEPT ![Here].ended = @ \cup {k}, ![Here].size = Max({@, size})]
  /\ agents' = IF k \in agents.running
               THEN [active |-> agents.active - 1, running |-> agents.running \ {k}] ELSE agents
  /\ UNCHANGED <<phase, attempt, stream, shown, faults>> /\ StepUnchanged

\* The stream says or throws that the prompt is too long: what was held back is
\* dropped with it, and another attempt is made while nothing has been passed on.
Overflow ==
  /\ phase = "streaming" /\ ~stream.ended /\ Fault
  /\ IF MayRetry
     THEN phase' = "requesting" /\ attempt' = attempt + 1 /\ stream' = NoStream /\ UNCHANGED shown
     ELSE phase' = "failed" /\ Passes(<<<<"error">>>>) /\ UNCHANGED <<attempt, stream>>
  /\ UNCHANGED <<calls, agents, reply>> /\ StepUnchanged
Breaks ==
  /\ phase = "streaming" /\ ~stream.ended /\ Fault
  /\ phase' = "failed" /\ Passes(<<<<"error">>>>)
  /\ UNCHANGED <<attempt, stream, calls, agents, reply>> /\ StepUnchanged
\* At its end what was held back is passed on, also when it was before.
Ends ==
  /\ phase = "streaming" /\ ~stream.ended /\ stream' = [stream EXCEPT !.ended = TRUE]
  /\ Passes(stream.buffered)
  /\ UNCHANGED <<phase, attempt, calls, agents, reply, faults>> /\ StepUnchanged

-----------------------------------------------------------------------------
(* The end of a step and of a turn. *)

\* The messages a step leaves.
Messages(r) ==
  <<Message("assistant", r.calls, 1)>>
  \o (IF r.ended = {} THEN <<>> ELSE <<Message("tool", r.ended, r.size)>>)

\* A step that calls nothing is the last, as is the one the limit allows.
StepEnds ==
  /\ phase = "streaming" /\ stream.ended /\ \A k \in DOMAIN calls : calls[k] # "running"
  /\ phase' = IF calls = <<>> \/ steps.done + 1 = MaxSteps THEN "done" ELSE "ready"
  /\ history' = history \o Messages(reply[Here])
  /\ steps' = [done |-> steps.done + 1, input |-> SizeOf(Sent)]
  /\ IF calls = <<>> THEN UNCHANGED loop
     ELSE \E repeated, alike \in BOOLEAN :
            loop' = [loop EXCEPT
              !.fails = IF "failed" \notin Range(calls) THEN 0 ELSE IF repeated THEN @ + 1 ELSE 1,
              !.same = IF repeated /\ alike THEN @ + 1 ELSE 1]
  /\ UNCHANGED <<checkpoint, prompt, attempt, stream, shown, calls, agents, reply, turns, faults>>

Stop ==
  /\ phase \in {"ready", "requesting", "streaming"} /\ Fault /\ phase' = "stopped"
  /\ UNCHANGED <<attempt, stream, shown, calls, agents, reply>> /\ StepUnchanged

\* sanitizeStoppedAssistantParts: a call without an end is taken out, and so is a
\* last step in which nothing is left.
HasContent(r) == r.text \/ r.calls # {}
WithoutOpenCalls(r) == [r EXCEPT !.calls = r.ended]
Sanitized(rs) == SelectSeq([i \in DOMAIN rs |-> WithoutOpenCalls(rs[i])], HasContent)

NextTurn ==
  /\ phase \in {"done", "failed", "stopped"} /\ turns < MaxTurns /\ turns' = turns + 1
  /\ LET before == SubSeq(history, 1, Len(history) - Len(FlattenSeq([i \in 1 .. steps.done |-> Messages(reply[i])])))
         kept == IF phase = "done" THEN reply ELSE Sanitized(reply)
     IN history' = Append(before \o FlattenSeq([i \in DOMAIN kept |-> Messages(kept[i])]), Asks)
  /\ phase' = "ready" /\ checkpoint' = NoCheckpoint /\ prompt' = <<>> /\ attempt' = 0
  /\ stream' = NoStream /\ shown' = <<>> /\ calls' = <<>> /\ agents' = [active |-> 0, running |-> {}]
  /\ loop' = [fails |-> 0, same |-> 0, stopped |-> FALSE]
  /\ steps' = [done |-> 0, input |-> 0] /\ reply' = <<>> /\ UNCHANGED faults

Next ==
  \/ PrepareStep \/ Request \/ Metadata \/ Text
  \/ \E k \in Calls : (\E isAgent \in BOOLEAN : Call(k, isAgent)) \/ ToolReturns(k)
  \/ Overflow \/ Breaks \/ Ends \/ StepEnds \/ Stop \/ NextTurn

Spec == Init /\ [][Next]_vars

-----------------------------------------------------------------------------
IsSent == phase = "requesting"

\* A prompt stands for the whole history, each message once and in its order: the
\* setup first and as it is, then what was summarized, then the latest message with
\* what answers it.  However often the prompt had to be made smaller, the setup and
\* the last thing it says are still there.
ContextIsWhole ==
  IsSent =>
    LET Before(i) == UNION {Sent[j].of : j \in 1 .. i - 1}
    IN /\ Before(Len(Sent) + 1) = DOMAIN history
       /\ Sent[1] = Item("message", {1}, history[1])
       /\ \A i \in DOMAIN Sent : \A m \in Sent[i].of, n \in Before(i) : n < m
       /\ \E i \in DOMAIN prompt : prompt[i].kind = "message" /\ prompt[i].of = {Len(history)}
       /\ \A i \in Max(Begins(prompt)) .. Len(prompt) :
            \E j \in DOMAIN Sent : Sent[j].kind = prompt[i].kind /\ Sent[j].of = prompt[i].of

\* A prompt has no result without its call before it and no call without its result.
CallsAreAnswered ==
  IsSent =>
    \A i \in DOMAIN Sent :
      /\ Sent[i].role = "tool" => i > 1 /\ Sent[i - 1].role = "assistant" /\ Sent[i - 1].ids = Sent[i].ids
      /\ Sent[i].role = "assistant" /\ Sent[i].ids # {} =>
           i < Len(Sent) /\ Sent[i + 1].role = "tool" /\ Sent[i + 1].ids = Sent[i].ids

\* What a step shows and does is of one attempt: no output of one that was given up
\* is shown, no chunk but metadata twice, and no tool is run for it.
OneAttemptIsShown ==
  /\ \A i, j \in DOMAIN shown : shown[i][1] = shown[j][1]
  /\ \A i, j \in DOMAIN shown : shown[i][2] = shown[j][2] /\ shown[i][2] # <<"meta">> => i = j
  /\ \A k \in DOMAIN calls : <<attempt, k>> \in ToSet(shown)

\* A tool loop that gets nowhere ends, and no more agents run than may.
LoopsAreStopped ==
  /\ loop.fails <= FailureLimit /\ loop.same <= ResultLimit
  /\ agents.active = Cardinality(agents.running)
  /\ agents.running \subseteq {k \in DOMAIN calls : calls[k] = "running"}

ContextIsKept == ContextIsWhole /\ CallsAreAnswered /\ OneAttemptIsShown /\ LoopsAreStopped
=============================================================================
