------------------------- MODULE FileMutationQueue -------------------------
(***************************************************************************)
(* withFileMutationQueue: the promise chain that serialises the write and  *)
(* edit tools per file (packages/agent/src/tools/file-mutation-queue.ts),  *)
(* with the tools that run under it (write.ts, edit.ts).                   *)
(*                                                                         *)
(* Every call adds one link to the chain of its file.  nextQueue of a link *)
(* resolves when the call releases it; chainedQueue resolves when the link *)
(* is released and the chain before it has resolved.  The map holds the    *)
(* last chainedQueue of a file, here the call that made it.                *)
(* A file's content is the set of the calls whose changes are in it.       *)
(***************************************************************************)
EXTENDS Sequences

CONSTANTS Calls, Files, None

ASSUME NoneAssumption == None \notin Calls

VARIABLES
  content,      \* the files of the sandbox
  call,         \* the local state of each tool call
  registering,  \* registrationQueue: calls whose link is not in the map yet
  tail,         \* fileMutationQueues
  released,     \* calls whose nextQueue has resolved
  settled       \* calls whose chainedQueue has resolved

vars == <<content, call, registering, tail, released, settled>>

Kind == {"write", "edit"}
Effect(c, kind, text) == IF kind = "write" THEN {c} ELSE text \cup {c}

\* answer: what the tool's caller was told.  applied: the upload took effect.
\* before: history, the calls that had a link of the same file at registration.
CallState ==
  [pc : {"new", "registering", "waiting", "gaveUp", "reading", "uploading", "done"},
   file : Files \cup {None}, kind : Kind, pred : Calls \cup {None},
   before : SUBSET Calls, base : SUBSET Calls,
   answer : {"none", "ok", "error"}, applied : BOOLEAN]

TypeOK ==
  /\ content \in [Files -> SUBSET Calls]
  /\ call \in [Calls -> CallState]
  /\ registering \in Seq(Calls)
  /\ tail \in [Files -> Calls \cup {None}]
  /\ released \subseteq Calls
  /\ settled \subseteq Calls

NewCall == [pc |-> "new", file |-> None, kind |-> "edit", pred |-> None,
            before |-> {}, base |-> {}, answer |-> "none", applied |-> FALSE]

Init ==
  /\ content = [f \in Files |-> {}]
  /\ call = [c \in Calls |-> NewCall]
  /\ registering = <<>>
  /\ tail = [f \in Files |-> None]
  /\ released = {}
  /\ settled = {}

At(c, pc) == call[c].pc = pc
Become(c, local) == call' = [call EXCEPT ![c] = local]
Registered(c) == ~At(c, "new") /\ ~At(c, "registering")
Linked(f) == {d \in Calls : Registered(d) /\ call[d].file = f}
Running(c) == At(c, "reading") \/ At(c, "uploading")
PredecessorSettled(c) == call[c].pred = None \/ call[c].pred \in settled

-----------------------------------------------------------------------------
(* Entering the queue. *)

Submit(c, f, kind) ==
  /\ At(c, "new")
  /\ Become(c, [call[c] EXCEPT !.pc = "registering", !.file = f, !.kind = kind])
  /\ registering' = Append(registering, c)
  /\ UNCHANGED <<content, tail, released, settled>>

\* Registrations run one after the other, in the order of the calls.
Register(c) ==
  LET f == call[c].file
  IN  /\ At(c, "registering")
      /\ registering # <<>> /\ Head(registering) = c
      /\ registering' = Tail(registering)
      /\ Become(c, [call[c] EXCEPT !.pc = "waiting", !.pred = tail[f],
                                   !.before = Linked(f)])
      /\ tail' = [tail EXCEPT ![f] = c]
      /\ UNCHANGED <<content, released, settled>>

\* The chain before the call has resolved: its mutation starts.
Acquire(c) ==
  /\ At(c, "waiting")
  /\ PredecessorSettled(c)
  /\ Become(c, [call[c] EXCEPT !.pc = "reading"])
  /\ UNCHANGED <<content, registering, tail, released, settled>>

WaitTimeoutForgets(c) ==  \* mutant: the link of a caller that gave up stays
  /\ At(c, "waiting")
  /\ Become(c, [call[c] EXCEPT !.pc = "done", !.answer = "error"])
  /\ UNCHANGED <<content, registering, tail, released, settled>>
\* The caller gives up; its link is released after its predecessor.
WaitTimeout(c) ==
  /\ At(c, "waiting")
  /\ Become(c, [call[c] EXCEPT !.pc = "gaveUp", !.answer = "error"])
  /\ UNCHANGED <<content, registering, tail, released, settled>>

ReleaseAfterPredecessor(c) ==
  /\ At(c, "gaveUp")
  /\ PredecessorSettled(c)
  /\ Become(c, [call[c] EXCEPT !.pc = "done"])
  /\ released' = released \cup {c}
  /\ UNCHANGED <<content, registering, tail, settled>>

-----------------------------------------------------------------------------
(* The mutation: read the file, then upload what it becomes. *)

\* The mutation settles: its link is released, and a caller that still waits
\* has its answer.
Return(c, answer, applied) ==
  /\ Become(c, [call[c] EXCEPT !.pc = "done", !.applied = applied,
                               !.answer = IF @ = "none" THEN answer ELSE @])
  /\ released' = released \cup {c}

ReadPath(c) ==  \* mutant: the path is taken for the content
  /\ At(c, "reading")
  /\ Become(c, [call[c] EXCEPT !.pc = "uploading", !.base = {call[c].file}])
  /\ UNCHANGED <<content, registering, tail, released, settled>>
Read(c) ==
  /\ At(c, "reading")
  /\ Become(c, [call[c] EXCEPT !.pc = "uploading", !.base = content[call[c].file]])
  /\ UNCHANGED <<content, registering, tail, released, settled>>

\* The file cannot be read; or its content refuses the edit; or it is what the
\* call writes, and nothing is left to do.
ReturnWithoutUpload(c) ==
  /\ \/ Running(c) /\ Return(c, "error", FALSE)
     \/ At(c, "uploading") /\ call[c].kind = "write" /\ Return(c, "ok", FALSE)
  /\ UNCHANGED <<content, registering, tail, settled>>

\* The upload takes effect, whether its answer arrives or not.
Upload(c) ==
  LET f == call[c].file
  IN  /\ At(c, "uploading")
      /\ content' = [content EXCEPT ![f] = Effect(c, call[c].kind, call[c].base)]
      /\ Return(c, "ok", TRUE) \/ Return(c, "error", TRUE)
      /\ UNCHANGED <<registering, tail, settled>>

RunTimeoutReleases(c) ==  \* mutant: a timeout unlocks the file
  /\ Running(c) /\ call[c].answer = "none"
  /\ Become(c, [call[c] EXCEPT !.answer = "error"])
  /\ released' = released \cup {c}
  /\ UNCHANGED <<content, registering, tail, settled>>
\* The caller stops waiting; the mutation goes on, and keeps its link.
RunTimeout(c) ==
  /\ Running(c) /\ call[c].answer = "none"
  /\ Become(c, [call[c] EXCEPT !.answer = "error"])
  /\ UNCHANGED <<content, registering, tail, released, settled>>

-----------------------------------------------------------------------------
(* The chain. *)

\* chainedQueue resolves.
Settle(c) ==
  /\ c \in released /\ c \notin settled
  /\ PredecessorSettled(c)
  /\ settled' = settled \cup {c}
  /\ UNCHANGED <<content, call, registering, tail, released>>

CleanUpAnyLink(c) ==  \* mutant: the entry of a later link is deleted
  /\ c \in settled
  /\ tail[call[c].file] # None
  /\ tail' = [tail EXCEPT ![call[c].file] = None]
  /\ UNCHANGED <<content, call, registering, released, settled>>
\* The map entry goes with its own link only.
CleanUp(c) ==
  /\ c \in settled
  /\ tail[call[c].file] = c
  /\ tail' = [tail EXCEPT ![call[c].file] = None]
  /\ UNCHANGED <<content, call, registering, released, settled>>

-----------------------------------------------------------------------------
Mutate(c) == Read(c) \/ ReturnWithoutUpload(c) \/ Upload(c)
Chain(c) == ReleaseAfterPredecessor(c) \/ Settle(c) \/ CleanUp(c)

Next ==
  \E c \in Calls :
    \/ \E f \in Files, kind \in Kind : Submit(c, f, kind)
    \/ Register(c) \/ Acquire(c) \/ WaitTimeout(c) \/ RunTimeout(c)
    \/ Mutate(c) \/ Chain(c)

Spec == Init /\ [][Next]_vars

\* The event loop runs what has resolved and the timers that are due.  The
\* sandbox owes nothing: a mutation may hang for ever.
FairSpec ==
  /\ Spec
  /\ \A c \in Calls : /\ WF_vars(Register(c)) /\ WF_vars(Chain(c))
                      /\ WF_vars(Acquire(c) \/ WaitTimeout(c))
                      /\ WF_vars(RunTimeout(c))

-----------------------------------------------------------------------------
(* Properties. *)

\* "Later mutations of the same file never overlap a still-active one", also
\* when callers gave up on either of them.
NeverOverlap ==
  \A c, d \in Calls :
    Running(c) /\ Running(d) /\ call[c].file = call[d].file => c = d

\* "Later waiters keep strict ordering": when a mutation runs, every call of
\* its file that was registered before it is over.
StrictOrder ==
  \A c \in Calls : Running(c) => \A d \in call[c].before : At(d, "done")

\* No edit is lost: what the tools do to the files, each of them reading and
\* uploading in its own time, is what atomic changes would do.
Atomic == INSTANCE AtomicFiles WITH applied <- {c \in Calls : call[c].applied}
FilesChangeAtomically == Atomic!Spec

\* A tool call always returns to the agent, even when the sandbox hangs in its
\* own mutation or in an earlier one of the same file.
CallsReturn ==
  \A c \in Calls : ~At(c, "new") ~> call[c].answer # "none"

\* If every mutation ends, the chain of a file is taken out of the map in the
\* end: callers that gave up do not hold it.
MutationsEnd == \A c \in Calls : WF_vars(Mutate(c))
ChainsAreDropped == MutationsEnd => \A f \in Files : tail[f] # None ~> tail[f] = None

\* The queue moves on: nobody waits for ever and nothing is kept for ever, though
\* callers give up while they wait and while they run.
QueueMovesOn == CallsReturn /\ ChainsAreDropped
=============================================================================
