---------------------------- MODULE AgentToolProofs ----------------------------
(***************************************************************************)
(* Theorems about the tools of an agent, for every set of calls: the queue *)
(* of the calls of write and edit, for every set of files, the background  *)
(* commands of bash, for tables and polls of any length, and the commands  *)
(* of the computer tool in the gateway, for any screen and failures.       *)
(* They share no state: `call' and `faults' stand for the variables of     *)
(* these names of each of them.                                            *)
(***************************************************************************)
EXTENDS FileMutationQueue, Integers, FiniteSetTheorems, WellFoundedInduction, TLAPS

CONSTANTS
  MaxSessions, StartsOverlap, MaxFaults,               \* BackgroundProcesses
  Screen, Source, WindowSize, MaxCalls                 \* CuaGateway
VARIABLES
  process, sessions, command, poll, faults,            \* BackgroundProcesses
  jobs, session, strokes, pointer, window, request, shot, last, ended   \* CuaGateway

Commands == INSTANCE BackgroundProcesses
Gateway == INSTANCE CuaGateway

-----------------------------------------------------------------------------
(* The file queue: type correctness. *)

\* A call that has begun has a file.
Placed == \A c \in Calls : ~At(c, "new") => call[c].file \in Files

TypeInv == TypeOK /\ Placed

\* A step of one call changes the state of that call only.
LEMMA BecomeEffect ==
  ASSUME TypeInv, NEW c \in Calls, NEW l \in CallState, Become(c, l),
         l.pc # "new" => l.file \in Files
  PROVE  /\ call' \in [Calls -> CallState]
         /\ Placed'
         /\ call'[c] = l
         /\ \A d \in Calls : d # c => call'[d] = call[d]
<1>1. call \in [Calls -> CallState]
  BY DEF TypeInv, TypeOK
<1>2. call' = [call EXCEPT ![c] = l]
  BY DEF Become
<1>3. call' \in [Calls -> CallState]
  BY <1>1, <1>2
<1>4. call'[c] = l /\ \A d \in Calls : d # c => call'[d] = call[d]
  BY <1>1, <1>2
<1>5. QED BY <1>3, <1>4 DEF TypeInv, Placed, At

\* Every step keeps every variable in its type, and files their calls.
LEMMA TypeStep == TypeInv /\ [Next]_vars => TypeInv'
<1> SUFFICES ASSUME TypeInv, [Next]_vars PROVE TypeInv'
  OBVIOUS
<1> USE DEF TypeInv
<1>1. CASE UNCHANGED vars
  BY <1>1 DEF TypeOK, Placed, At, vars
<1>2. ASSUME NEW c \in Calls, NEW f \in Files, NEW kind \in Kind, Submit(c, f, kind)
      PROVE  TypeInv'
  <2> DEFINE l == [call[c] EXCEPT !.pc = "registering", !.file = f, !.kind = kind]
  <2>0. call[c] \in CallState
    BY DEF TypeOK
  <2>1. l \in CallState /\ l.file \in Files
    BY <2>0 DEF CallState
  <2>2. Become(c, l)
    BY <1>2 DEF Submit
  <2>3. registering' \in Seq(Calls)
    BY <1>2 DEF TypeOK, Submit
  <2> HIDE DEF l
  <2>4. call' \in [Calls -> CallState] /\ Placed'
    BY <2>1, <2>2, BecomeEffect
  <2>5. QED BY <1>2, <2>3, <2>4 DEF TypeOK, Submit
<1>3. ASSUME NEW c \in Calls, Register(c) PROVE TypeInv'
  <2> DEFINE f == call[c].file
             b == Linked(f)
             l == [call[c] EXCEPT !.pc = "waiting", !.pred = tail[f], !.before = b]
  <2>1. f \in Files
    BY <1>3 DEF Placed, Register, At
  <2>2. tail[f] \in Calls \cup {None} /\ tail' \in [Files -> Calls \cup {None}]
    BY <1>3, <2>1 DEF TypeOK, Register
  <2>3. b \in SUBSET Calls
    BY DEF Linked
  <2>4. call[c] \in CallState
    BY DEF TypeOK
  <2>5. Become(c, l)
    BY <1>3 DEF Register
  <2>6. l \in CallState /\ l.file \in Files
    <3> HIDE DEF b
    <3> QED BY <2>1, <2>2, <2>3, <2>4 DEF CallState
  <2>7. registering' \in Seq(Calls)
    BY <1>3 DEF TypeOK, Register
  <2> HIDE DEF l
  <2>8. QED BY <1>3, <2>2, <2>5, <2>6, <2>7, BecomeEffect DEF TypeOK, Register
<1>4. ASSUME NEW c \in Calls, Acquire(c) PROVE TypeInv'
  <2> DEFINE l == [call[c] EXCEPT !.pc = "reading"]
  <2>1. l \in CallState /\ l.file \in Files
    BY <1>4 DEF TypeOK, CallState, Placed, At, Acquire
  <2>2. Become(c, l)
    BY <1>4 DEF Acquire
  <2> HIDE DEF l
  <2>3. QED BY <1>4, <2>1, <2>2, BecomeEffect DEF TypeOK, Acquire
<1>5. ASSUME NEW c \in Calls, WaitTimeout(c) PROVE TypeInv'
  <2> DEFINE l == [call[c] EXCEPT !.pc = "gaveUp", !.answer = "error"]
  <2>1. l \in CallState /\ l.file \in Files
    BY <1>5 DEF TypeOK, CallState, Placed, At, WaitTimeout
  <2>2. Become(c, l)
    BY <1>5 DEF WaitTimeout
  <2> HIDE DEF l
  <2>3. QED BY <1>5, <2>1, <2>2, BecomeEffect DEF TypeOK, WaitTimeout
<1>6. ASSUME NEW c \in Calls, RunTimeout(c) PROVE TypeInv'
  <2> DEFINE l == [call[c] EXCEPT !.answer = "error"]
  <2>1. l \in CallState /\ l.file \in Files
    BY <1>6 DEF TypeOK, CallState, Placed, At, Running, RunTimeout
  <2>2. Become(c, l)
    BY <1>6 DEF RunTimeout
  <2> HIDE DEF l
  <2>3. QED BY <1>6, <2>1, <2>2, BecomeEffect DEF TypeOK, RunTimeout
<1>7. ASSUME NEW c \in Calls, Read(c) PROVE TypeInv'
  <2> DEFINE text == content[call[c].file]
             l == [call[c] EXCEPT !.pc = "uploading", !.base = text]
  <2>1. call[c].file \in Files
    BY <1>7 DEF Placed, At, Read
  <2>2. call[c] \in CallState /\ text \in SUBSET Calls
    BY <2>1 DEF TypeOK
  <2>3. l \in CallState /\ l.file \in Files
    <3> HIDE DEF text
    <3> QED BY <2>1, <2>2 DEF CallState
  <2>4. Become(c, l)
    BY <1>7 DEF Read
  <2> HIDE DEF l
  <2>5. QED BY <1>7, <2>3, <2>4, BecomeEffect DEF TypeOK, Read
<1>8. ASSUME NEW c \in Calls, NEW answer \in {"ok", "error"}, NEW applied \in BOOLEAN,
             Running(c), Return(c, answer, applied)
      PROVE  call' \in [Calls -> CallState] /\ Placed' /\ released' \subseteq Calls
  <2> DEFINE l == [call[c] EXCEPT !.pc = "done", !.applied = applied,
                                  !.answer = IF @ = "none" THEN answer ELSE @]
  <2>1. l \in CallState /\ l.file \in Files
    BY <1>8 DEF TypeOK, CallState, Placed, At, Running
  <2>2. Become(c, l)
    BY <1>8 DEF Return
  <2> HIDE DEF l
  <2>3. QED BY <1>8, <2>1, <2>2, BecomeEffect DEF TypeOK, Return
<1>9. ASSUME NEW c \in Calls, ReturnWithoutUpload(c) PROVE TypeInv'
  <2>1. Running(c)
    BY <1>9 DEF ReturnWithoutUpload, Running
  <2>2. Return(c, "error", FALSE) \/ Return(c, "ok", FALSE)
    BY <1>9 DEF ReturnWithoutUpload
  <2>3. call' \in [Calls -> CallState] /\ Placed' /\ released' \subseteq Calls
    BY <1>8, <2>1, <2>2
  <2>4. QED BY <1>9, <2>3 DEF TypeOK, ReturnWithoutUpload
<1>10. ASSUME NEW c \in Calls, Upload(c) PROVE TypeInv'
  <2>1. Running(c)
    BY <1>10 DEF Upload, Running
  <2>2. Return(c, "error", TRUE) \/ Return(c, "ok", TRUE)
    BY <1>10 DEF Upload
  <2>3. call' \in [Calls -> CallState] /\ Placed' /\ released' \subseteq Calls
    BY <1>8, <2>1, <2>2
  <2>4. Effect(c, call[c].kind, call[c].base) \in SUBSET Calls
    BY DEF TypeOK, CallState, Effect
  <2>5. content' \in [Files -> SUBSET Calls]
    BY <1>10, <2>4 DEF TypeOK, Upload
  <2>6. QED BY <1>10, <2>3, <2>5 DEF TypeOK, Upload
<1>11. ASSUME NEW c \in Calls, ReleaseAfterPredecessor(c) PROVE TypeInv'
  <2> DEFINE l == [call[c] EXCEPT !.pc = "done"]
  <2>1. l \in CallState /\ l.file \in Files
    BY <1>11 DEF TypeOK, CallState, Placed, At, ReleaseAfterPredecessor
  <2>2. Become(c, l)
    BY <1>11 DEF ReleaseAfterPredecessor
  <2> HIDE DEF l
  <2>3. QED BY <1>11, <2>1, <2>2, BecomeEffect DEF TypeOK, ReleaseAfterPredecessor
<1>12. ASSUME NEW c \in Calls, Settle(c) \/ CleanUp(c) PROVE TypeInv'
  BY <1>12 DEF TypeOK, Placed, At, Settle, CleanUp
<1>13. QED BY <1>1, <1>2, <1>3, <1>4, <1>5, <1>6, <1>7, <1>9, <1>10, <1>11, <1>12
     DEF Next, Mutate, Chain

LEMMA TypeInvariant == Spec => []TypeInv
<1>1. Init => TypeInv
  BY DEF Init, TypeInv, TypeOK, Placed, At, CallState, NewCall, Kind
<1>2. QED BY <1>1, TypeStep, PTL DEF Spec

\* Every reachable state has the types of TypeOK.
THEOREM TypeCorrect == Spec => []TypeOK
BY TypeInvariant, PTL DEF TypeInv

-----------------------------------------------------------------------------
(* The chain.  The predecessor of a call that runs has settled, and so, one *)
(* link after the other, has every call linked before it; a settled call    *)
(* was released, which a running one is not.                                *)

\* What is released and settled, and who runs.
PcInv ==
  /\ \A c \in Calls : c \in released <=> At(c, "done")
  /\ \A c \in settled : c \in released /\ PredecessorSettled(c)
  /\ \A c \in Calls : Running(c) => PredecessorSettled(c)

\* A link holds the links before it: those of its predecessor and itself.
LinkOK(c) ==
  /\ call[c].before \subseteq Linked(call[c].file) \ {c}
  /\ call[c].pred = None => call[c].before \subseteq settled
  /\ call[c].pred # None =>
       /\ call[c].pred \in call[c].before
       /\ call[c].before = call[call[c].pred].before \cup {call[c].pred}
  /\ PredecessorSettled(c) => call[c].before \subseteq settled

\* The map holds the last link, or nothing of a chain that has settled.
TailOK(f) ==
  /\ tail[f] = None => Linked(f) \subseteq settled
  /\ tail[f] # None => /\ tail[f] \in Linked(f)
                       /\ Linked(f) = call[tail[f]].before \cup {tail[f]}

LinkInv ==
  /\ \A c \in Calls : Registered(c) => LinkOK(c)
  /\ \A c, d \in Calls :
       Registered(c) /\ Registered(d) /\ call[c].file = call[d].file /\ c # d
         => c \in call[d].before \/ d \in call[c].before
  /\ \A f \in Files : TailOK(f)

\* Steps that touch no link of a registered call keep the chain.
LEMMA LinksKept ==
  ASSUME TypeInv, TypeInv', LinkInv, UNCHANGED <<settled, tail>>,
         \A c \in Calls : Registered(c)' <=> Registered(c),
         \A c \in Calls : Registered(c) => /\ call'[c].file = call[c].file
                                          /\ call'[c].pred = call[c].pred
                                          /\ call'[c].before = call[c].before
  PROVE  LinkInv'
<1>1. \A f \in Files : Linked(f)' = Linked(f)
  BY DEF Linked
<1>2. ASSUME NEW c \in Calls, Registered(c)' PROVE LinkOK(c)'
  <2>1. Registered(c) /\ LinkOK(c)
    BY <1>2 DEF LinkInv
  <2>2. call[c].file \in Files
    BY <2>1 DEF TypeInv, Placed, Registered
  <2>3. call[c].pred # None => call[c].pred \in Calls /\ Registered(call[c].pred)
    BY <2>1, <2>2 DEF LinkOK, Linked
  <2>4. /\ call'[c].file = call[c].file /\ call'[c].pred = call[c].pred
        /\ call'[c].before = call[c].before
        /\ call[c].pred # None =>
             call'[call[c].pred].before = call[call[c].pred].before
    BY <2>1, <2>3
  <2>5. Linked(call[c].file)' = Linked(call[c].file)
    BY <1>1, <2>2, <2>4 DEF Linked
  <2>6. QED BY <2>1, <2>4, <2>5 DEF LinkOK, PredecessorSettled
<1>3. ASSUME NEW f \in Files PROVE TailOK(f)'
  <2>1. TailOK(f) /\ Linked(f)' = Linked(f)
    BY <1>1 DEF LinkInv
  <2>2. tail[f] # None => tail[f] \in Calls /\ Registered(tail[f])
    BY <2>1 DEF TailOK, Linked
  <2>3. tail[f] # None => call'[tail[f]].before = call[tail[f]].before
    BY <2>2
  <2>4. QED BY <2>1, <2>3 DEF TailOK
<1>4. QED BY <1>2, <1>3 DEF LinkInv

\* A step of a registered call that leaves its link alone.
LEMMA LocalStep ==
  ASSUME TypeInv, TypeInv', LinkInv, UNCHANGED <<settled, tail>>,
         NEW c \in Calls, NEW l \in CallState, Become(c, l),
         Registered(c) <=> l.pc \notin {"new", "registering"},
         Registered(c) => /\ l.file = call[c].file /\ l.pred = call[c].pred
                          /\ l.before = call[c].before,
         l.pc # "new" => l.file \in Files
  PROVE  LinkInv'
<1>1. call'[c] = l /\ \A d \in Calls : d # c => call'[d] = call[d]
  BY BecomeEffect
<1>2. \A d \in Calls : Registered(d)' <=> Registered(d)
  BY <1>1 DEF Registered, At
<1>3. QED BY <1>1, <1>2, LinksKept

\* A new link comes after all the links of its file.
LEMMA RegisterLinks ==
  ASSUME TypeInv, TypeInv', PcInv, LinkInv, NEW c \in Calls, Register(c)
  PROVE  LinkInv'
<1> DEFINE f == call[c].file
           b == Linked(f)
           l == [call[c] EXCEPT !.pc = "waiting", !.pred = tail[f], !.before = b]
<1>1. f \in Files /\ call[c] \in CallState /\ ~Registered(c)
  BY DEF TypeInv, TypeOK, Placed, Register, Registered, At
<1>2. /\ call'[c] = l
      /\ \A d \in Calls : d # c => call'[d] = call[d]
  BY DEF Register, Become, TypeInv, TypeOK
<1>3. /\ call'[c].pc = "waiting" /\ call'[c].file = f
      /\ call'[c].pred = tail[f] /\ call'[c].before = b
  BY <1>1, <1>2 DEF CallState
<1>4. /\ tail'[f] = c
      /\ \A g \in Files : g # f => tail'[g] = tail[g]
      /\ settled' = settled
  BY <1>1 DEF Register, TypeInv, TypeOK
<1> HIDE DEF l
<1>5. \A d \in Calls : Registered(d)' <=> Registered(d) \/ d = c
  BY <1>2, <1>3 DEF Registered, At
<1>6. /\ Linked(f)' = b \cup {c}
      /\ \A g \in Files : g # f => Linked(g)' = Linked(g)
  BY <1>1, <1>2, <1>3, <1>5 DEF Linked
<1>7. c \notin b
  BY <1>1 DEF Linked
<1>8. LinkOK(c)'
  <2>1. TailOK(f)
    BY <1>1 DEF LinkInv
  <2>2. CASE tail[f] = None
    BY <1>3, <1>4, <1>6, <1>7, <2>1, <2>2 DEF LinkOK, TailOK, PredecessorSettled
  <2>3. CASE tail[f] # None
    <3> DEFINE t == tail[f]
    <3>1. t \in b /\ b = call[t].before \cup {t}
      BY <2>1, <2>3 DEF TailOK
    <3>2. t \in Calls /\ Registered(t) /\ t # c
      BY <1>7, <3>1 DEF Linked
    <3>3. call'[t] = call[t]
      BY <1>2, <3>2
    <3>4. t \in settled => call[t].before \subseteq settled
      <4>1. LinkOK(t) /\ (t \in settled => PredecessorSettled(t))
        BY <3>2 DEF LinkInv, PcInv
      <4>2. QED BY <4>1 DEF LinkOK
    <3>5. QED BY <1>3, <1>4, <1>6, <1>7, <2>3, <3>1, <3>3, <3>4 DEF LinkOK, PredecessorSettled
  <2>4. QED BY <2>2, <2>3
<1>9. ASSUME NEW d \in Calls, Registered(d), d # c PROVE LinkOK(d)'
  <2> DEFINE p == call[d].pred
  <2>1. LinkOK(d) /\ call[d].file \in Files
    BY <1>9 DEF LinkInv, TypeInv, Placed, Registered
  <2>2. call'[d] = call[d]
    BY <1>2, <1>9
  <2>3. Linked(call[d].file) \subseteq Linked(call[d].file)'
    <3>1. \A e \in Calls : Registered(e) => Registered(e)' /\ call'[e] = call[e]
      BY <1>1, <1>2, <1>5
    <3>2. QED BY <2>2, <3>1 DEF Linked
  <2>4. p # None => p \in Calls /\ Registered(p)
    BY <2>1 DEF LinkOK, Linked
  <2>5. p # None => call'[p] = call[p]
    BY <1>1, <1>2, <2>4
  <2>6. QED BY <1>4, <2>1, <2>2, <2>3, <2>5 DEF LinkOK, PredecessorSettled, Linked
<1>10. ASSUME NEW d \in Calls, NEW e \in Calls, Registered(d)', Registered(e)',
              call'[d].file = call'[e].file, d # e
       PROVE  d \in call'[e].before \/ e \in call'[d].before
  <2>1. CASE d # c /\ e # c
    BY <1>2, <1>5, <1>10, <2>1 DEF LinkInv
  <2>2. CASE d = c
    BY <1>2, <1>3, <1>5, <1>10, <2>2 DEF Linked
  <2>3. CASE e = c
    BY <1>2, <1>3, <1>5, <1>10, <2>3 DEF Linked
  <2>4. QED BY <2>1, <2>2, <2>3
<1>11. ASSUME NEW g \in Files PROVE TailOK(g)'
  <2>1. CASE g = f
    <3>1. c # None
      BY NoneAssumption
    <3>2. QED BY <1>3, <1>4, <1>6, <2>1, <3>1 DEF TailOK
  <2>2. CASE g # f
    <3>1. tail'[g] = tail[g] /\ Linked(g)' = Linked(g) /\ TailOK(g)
      BY <1>4, <1>6, <2>2 DEF LinkInv
    <3>2. tail[g] # None => tail[g] \in Calls /\ Registered(tail[g])
      BY <3>1 DEF TailOK, Linked
    <3>3. tail[g] # None => call'[tail[g]] = call[tail[g]]
      BY <1>1, <1>2, <3>2
    <3>4. QED BY <1>4, <3>1, <3>3 DEF TailOK
  <2>3. QED BY <2>1, <2>2
<1>12. QED BY <1>5, <1>8, <1>9, <1>10, <1>11 DEF LinkInv

\* When a chain resolves, everything linked before it has.
LEMMA SettleLinks ==
  ASSUME TypeInv, TypeInv', PcInv, LinkInv, NEW c \in Calls, Settle(c)
  PROVE  LinkInv'
<1>1. /\ settled' = settled \cup {c} /\ PredecessorSettled(c) /\ c \in released
      /\ call' = call /\ tail' = tail
  BY DEF Settle
<1>2. Registered(c) /\ call[c].before \subseteq settled
  <2>1. Registered(c)
    BY <1>1 DEF PcInv, Registered, At
  <2>2. QED BY <1>1, <2>1 DEF LinkInv, LinkOK
<1>3. \A d \in Calls : Registered(d)' <=> Registered(d)
  BY <1>1 DEF Registered, At
<1>4. \A f \in Files \cup {None} : Linked(f)' = Linked(f)
  BY <1>1, <1>3 DEF Linked
<1>5. ASSUME NEW d \in Calls, Registered(d) PROVE LinkOK(d)'
  <2>1. LinkOK(d) /\ call[d].file \in Files
    BY <1>5 DEF LinkInv, TypeInv, Placed, Registered
  <2>2. Linked(call[d].file)' = Linked(call[d].file)
    BY <1>1, <1>3 DEF Linked
  <2>3. call[d].pred = c => call[d].before = call[c].before \cup {c}
    BY <2>1, NoneAssumption DEF LinkOK
  <2>4. PredecessorSettled(d)' => PredecessorSettled(d) \/ call[d].pred = c
    BY <1>1 DEF PredecessorSettled
  <2>5. PredecessorSettled(d)' => call[d].before \subseteq settled'
    BY <1>1, <1>2, <2>1, <2>3, <2>4 DEF LinkOK
  <2>6. QED BY <1>1, <2>1, <2>2, <2>5 DEF LinkOK
<1>6. ASSUME NEW f \in Files PROVE TailOK(f)'
  BY <1>1, <1>4 DEF LinkInv, TailOK
<1>7. QED BY <1>1, <1>3, <1>5, <1>6 DEF LinkInv

\* The entry of a settled link covers a chain that has settled.
LEMMA CleanUpLinks ==
  ASSUME TypeInv, TypeInv', PcInv, LinkInv, NEW c \in Calls, CleanUp(c)
  PROVE  LinkInv'
<1> DEFINE f == call[c].file
<1>1. /\ c \in settled /\ tail[f] = c /\ settled' = settled /\ call' = call
      /\ tail' = [tail EXCEPT ![f] = None]
  BY DEF CleanUp
<1>2. Registered(c) /\ PredecessorSettled(c) /\ f \in Files
  BY <1>1 DEF PcInv, TypeInv, Placed, Registered, At
<1>3. Linked(f) \subseteq settled
  <2>1. call[c].before \subseteq settled
    BY <1>2 DEF LinkInv, LinkOK
  <2>2. Linked(f) = call[c].before \cup {c}
    BY <1>1, <1>2, NoneAssumption DEF LinkInv, TailOK
  <2>3. QED BY <1>1, <2>1, <2>2
<1>4. \A g : Linked(g)' = Linked(g)
  BY <1>1 DEF Linked, Registered, At
<1>5. \A d \in Calls : (Registered(d)' <=> Registered(d)) /\ (LinkOK(d)' <=> LinkOK(d))
  BY <1>1, <1>4 DEF Registered, At, LinkOK, PredecessorSettled
<1>6. ASSUME NEW g \in Files PROVE TailOK(g)'
  <2>1. CASE g = f
    BY <1>1, <1>2, <1>3, <1>4, <2>1 DEF TailOK, TypeInv, TypeOK
  <2>2. CASE g # f
    BY <1>1, <1>4, <2>2 DEF TailOK, TypeInv, TypeOK, LinkInv
  <2>3. QED BY <2>1, <2>2
<1>7. QED BY <1>1, <1>5, <1>6 DEF LinkInv

-----------------------------------------------------------------------------
(* The invariant of every step. *)

Inv == TypeInv /\ PcInv /\ LinkInv

\* A finished mutation, or a caller that gave up, releases its link.
LEMMA ReleaseStep ==
  ASSUME Inv, TypeInv', NEW c \in Calls, NEW l \in CallState, Become(c, l),
         Registered(c), PredecessorSettled(c), c \notin released,
         l.pc = "done", l.file = call[c].file, l.pred = call[c].pred,
         l.before = call[c].before,
         released' = released \cup {c}, UNCHANGED <<settled, tail>>
  PROVE  Inv'
<1> USE DEF Inv
<1>1. l.file \in Files
  BY DEF TypeInv, Placed, Registered
<1>2. call'[c] = l /\ \A d \in Calls : d # c => call'[d] = call[d]
  BY <1>1, BecomeEffect
<1>3. LinkInv'
  BY <1>1, LocalStep DEF Registered
<1>4. \A d \in Calls : call'[d].pred = call[d].pred
  BY <1>2
<1>5. PcInv'
  BY <1>2, <1>4 DEF PcInv, At, Running, PredecessorSettled, TypeInv, TypeOK
<1>6. QED BY <1>3, <1>5

\* A call goes on to another state of waiting or of running.
LEMMA PendingStep ==
  ASSUME Inv, TypeInv', NEW c \in Calls, NEW l \in CallState, Become(c, l),
         Registered(c), ~At(c, "done"),
         l.pc \in {"gaveUp", "reading", "uploading"},
         l.pc # "gaveUp" => PredecessorSettled(c),
         l.file = call[c].file, l.pred = call[c].pred, l.before = call[c].before,
         UNCHANGED <<released, settled, tail>>
  PROVE  Inv'
<1> USE DEF Inv
<1>1. l.file \in Files
  BY DEF TypeInv, Placed, Registered
<1>2. call'[c] = l /\ \A d \in Calls : d # c => call'[d] = call[d]
  BY <1>1, BecomeEffect
<1>3. LinkInv'
  BY <1>1, LocalStep DEF Registered
<1>4. \A d \in Calls : call'[d].pred = call[d].pred
  BY <1>2
<1>5. PcInv'
  BY <1>2, <1>4 DEF PcInv, At, Running, PredecessorSettled, TypeInv, TypeOK
<1>6. QED BY <1>3, <1>5

LEMMA InvStep == Inv /\ [Next]_vars => Inv'
<1> SUFFICES ASSUME Inv, [Next]_vars PROVE Inv'
  OBVIOUS
<1> USE DEF Inv
<1>0. TypeInv' /\ \A c \in Calls : call[c] \in CallState
  BY TypeStep DEF TypeInv, TypeOK
<1>1. CASE UNCHANGED vars
  <2>1. LinkInv'
    BY <1>0, <1>1, LinksKept DEF vars, Registered, At
  <2>2. PcInv'
    BY <1>1 DEF vars, PcInv, At, Running, PredecessorSettled
  <2>3. QED BY <1>0, <2>1, <2>2
<1>2. ASSUME NEW c \in Calls, NEW f \in Files, NEW kind \in Kind, Submit(c, f, kind)
      PROVE  Inv'
  <2>1. /\ call'[c].pc = "registering" /\ call'[c].pred = call[c].pred
        /\ \A d \in Calls : d # c => call'[d] = call[d]
    BY <1>2 DEF Submit, Become, TypeInv, TypeOK, CallState
  <2>2. \A d \in Calls : Registered(d)' <=> Registered(d)
    BY <1>2, <2>1 DEF Submit, Registered, At
  <2>3. ~Registered(c) /\ UNCHANGED <<released, settled, tail>>
    BY <1>2 DEF Submit, Registered, At
  <2>4. LinkInv'
    BY <1>0, <2>1, <2>2, <2>3, LinksKept
  <2>5. PcInv'
    BY <1>2, <2>1, <2>3
       DEF Submit, PcInv, At, Running, PredecessorSettled, TypeInv, TypeOK
  <2>6. QED BY <1>0, <2>4, <2>5
<1>3. ASSUME NEW c \in Calls, Register(c) PROVE Inv'
  <2>1. /\ call'[c].pc = "waiting"
        /\ \A d \in Calls : d # c => call'[d] = call[d]
    BY <1>3 DEF Register, Become, TypeInv, TypeOK, CallState
  <2>2. c \notin released /\ c \notin settled /\ UNCHANGED <<released, settled>>
    BY <1>3 DEF Register, PcInv, At
  <2>3. PcInv'
    BY <2>1, <2>2 DEF PcInv, At, Running, PredecessorSettled, TypeInv, TypeOK
  <2>4. QED BY <1>0, <1>3, <2>3, RegisterLinks
<1>4. ASSUME NEW c \in Calls, Acquire(c) PROVE Inv'
  <2> DEFINE l == [call[c] EXCEPT !.pc = "reading"]
  <2>1. /\ l \in CallState /\ l.pc = "reading" /\ l.file = call[c].file
        /\ l.pred = call[c].pred /\ l.before = call[c].before
    BY <1>0 DEF CallState
  <2>2. Become(c, l) /\ Registered(c) /\ ~At(c, "done") /\ PredecessorSettled(c)
        /\ UNCHANGED <<released, settled, tail>>
    BY <1>4 DEF Acquire, Registered, At
  <2> HIDE DEF l
  <2>3. QED BY <1>0, <2>1, <2>2, PendingStep
<1>5. ASSUME NEW c \in Calls, WaitTimeout(c) PROVE Inv'
  <2> DEFINE l == [call[c] EXCEPT !.pc = "gaveUp", !.answer = "error"]
  <2>1. /\ l \in CallState /\ l.pc = "gaveUp" /\ l.file = call[c].file
        /\ l.pred = call[c].pred /\ l.before = call[c].before
    <3>1. call[c] \in CallState
      BY <1>0
    <3>2. l \in CallState
      BY <3>1 DEF CallState
    <3>3. QED BY <3>1, <3>2 DEF CallState
  <2>2. Become(c, l) /\ Registered(c) /\ ~At(c, "done")
        /\ UNCHANGED <<released, settled, tail>>
    BY <1>5 DEF WaitTimeout, Registered, At
  <2> HIDE DEF l
  <2>3. QED BY <1>0, <2>1, <2>2, PendingStep
<1>6. ASSUME NEW c \in Calls, RunTimeout(c) PROVE Inv'
  <2> DEFINE l == [call[c] EXCEPT !.answer = "error"]
  <2>1. /\ l \in CallState /\ l.pc \in {"reading", "uploading"}
        /\ l.file = call[c].file
        /\ l.pred = call[c].pred /\ l.before = call[c].before
    BY <1>6 DEF TypeInv, TypeOK, CallState, RunTimeout, Running, At
  <2>2. Become(c, l) /\ Registered(c) /\ ~At(c, "done") /\ PredecessorSettled(c)
        /\ UNCHANGED <<released, settled, tail>>
    BY <1>6 DEF RunTimeout, Running, Registered, At, PcInv
  <2> HIDE DEF l
  <2>3. QED BY <1>0, <2>1, <2>2, PendingStep
<1>7. ASSUME NEW c \in Calls, Read(c) PROVE Inv'
  <2> DEFINE text == content[call[c].file]
             l == [call[c] EXCEPT !.pc = "uploading", !.base = text]
  <2>1. call[c] \in CallState /\ text \in SUBSET Calls
    BY <1>7 DEF TypeInv, TypeOK, Placed, Read, At
  <2>2. /\ l \in CallState /\ l.pc = "uploading" /\ l.file = call[c].file
        /\ l.pred = call[c].pred /\ l.before = call[c].before
    <3> HIDE DEF text
    <3> QED BY <2>1 DEF CallState
  <2>3. Become(c, l) /\ Registered(c) /\ ~At(c, "done") /\ PredecessorSettled(c)
        /\ UNCHANGED <<released, settled, tail>>
    BY <1>7 DEF Read, Running, Registered, At, PcInv
  <2> HIDE DEF l
  <2>4. QED BY <1>0, <2>2, <2>3, PendingStep
<1>8. ASSUME NEW c \in Calls, NEW answer \in {"ok", "error"}, NEW applied \in BOOLEAN,
             Running(c), Return(c, answer, applied), UNCHANGED <<settled, tail>>
      PROVE  Inv'
  <2> DEFINE l == [call[c] EXCEPT !.pc = "done", !.applied = applied,
                                  !.answer = IF @ = "none" THEN answer ELSE @]
  <2>1. /\ l \in CallState /\ l.pc = "done" /\ l.file = call[c].file
        /\ l.pred = call[c].pred /\ l.before = call[c].before
    <3>1. call[c] \in CallState
      BY <1>0
    <3>2. l \in CallState
      BY <1>8, <3>1 DEF CallState
    <3>3. QED BY <3>1, <3>2 DEF CallState
  <2>2. Become(c, l) /\ Registered(c) /\ c \notin released /\ PredecessorSettled(c)
        /\ released' = released \cup {c} /\ UNCHANGED <<settled, tail>>
    BY <1>8 DEF Return, Running, Registered, At, PcInv
  <2> HIDE DEF l
  <2>3. QED BY <1>0, <2>1, <2>2, ReleaseStep
<1>9. ASSUME NEW c \in Calls, ReturnWithoutUpload(c) \/ Upload(c) PROVE Inv'
  <2>1. Running(c) /\ UNCHANGED <<settled, tail>>
    BY <1>9 DEF ReturnWithoutUpload, Upload, Running
  <2>2. \E answer \in {"ok", "error"}, applied \in BOOLEAN : Return(c, answer, applied)
    BY <1>9 DEF ReturnWithoutUpload, Upload
  <2>3. QED BY <1>8, <2>1, <2>2
<1>10. ASSUME NEW c \in Calls, ReleaseAfterPredecessor(c) PROVE Inv'
  <2> DEFINE l == [call[c] EXCEPT !.pc = "done"]
  <2>1. /\ l \in CallState /\ l.pc = "done" /\ l.file = call[c].file
        /\ l.pred = call[c].pred /\ l.before = call[c].before
    BY <1>0 DEF CallState
  <2>2. Become(c, l) /\ Registered(c) /\ c \notin released /\ PredecessorSettled(c)
        /\ released' = released \cup {c} /\ UNCHANGED <<settled, tail>>
    BY <1>10 DEF ReleaseAfterPredecessor, Registered, At, PcInv
  <2> HIDE DEF l
  <2>3. QED BY <1>0, <2>1, <2>2, ReleaseStep
<1>11. ASSUME NEW c \in Calls, Settle(c) PROVE Inv'
  <2>1. PcInv'
    BY <1>11 DEF Settle, PcInv, At, Running, PredecessorSettled
  <2>2. QED BY <1>0, <1>11, <2>1, SettleLinks
<1>12. ASSUME NEW c \in Calls, CleanUp(c) PROVE Inv'
  <2>1. PcInv'
    BY <1>12 DEF CleanUp, PcInv, At, Running, PredecessorSettled
  <2>2. QED BY <1>0, <1>12, <2>1, CleanUpLinks
<1>13. QED BY <1>1, <1>2, <1>3, <1>4, <1>5, <1>6, <1>7, <1>9, <1>10, <1>11, <1>12
     DEF Next, Mutate, Chain

LEMMA Invariant == Spec => []Inv
<1>1. Init => Inv
  BY DEF Init, Inv, TypeInv, TypeOK, Placed, CallState, NewCall, Kind, PcInv,
         LinkInv, LinkOK, TailOK, Linked, Registered, Running, At
<1>2. QED BY <1>1, InvStep, PTL DEF Spec

-----------------------------------------------------------------------------
(* What the invariant gives. *)

\* All that was linked before a running call is over.
LEMMA EarlierIsOver ==
  ASSUME Inv, NEW c \in Calls, Running(c), NEW d \in call[c].before
  PROVE  d \in Calls /\ At(d, "done")
<1>1. Registered(c) /\ PredecessorSettled(c)
  BY DEF Inv, PcInv, Running, Registered, At
<1>2. d \in settled
  BY <1>1 DEF Inv, LinkInv, LinkOK
<1>3. QED BY <1>2 DEF Inv, PcInv, TypeInv, TypeOK

LEMMA InvGivesExclusion == Inv => NeverOverlap
<1> SUFFICES ASSUME Inv, NEW c \in Calls, NEW d \in Calls, Running(c), Running(d),
                    call[c].file = call[d].file, c # d
             PROVE  FALSE
  BY DEF NeverOverlap
<1>1. c \in call[d].before \/ d \in call[c].before
  BY DEF Inv, LinkInv, Running, Registered, At
<1>2. QED BY <1>1, EarlierIsOver DEF Running, At

\* No two mutations of one file run at a time, whoever gave up waiting.
THEOREM NeverOverlapHolds == Spec => []NeverOverlap
BY Invariant, InvGivesExclusion, PTL

LEMMA InvGivesOrder == Inv => StrictOrder
BY EarlierIsOver DEF StrictOrder

\* Mutations of one file run in the order in which they were registered.
THEOREM StrictOrderHolds == Spec => []StrictOrder
BY Invariant, InvGivesOrder, PTL

-----------------------------------------------------------------------------
(* Refinement: what was read is still the file's content when the upload   *)
(* replaces it.                                                            *)

ReadIsCurrent ==
  \A c \in Calls :
    /\ At(c, "uploading") => call[c].base = content[call[c].file]
    /\ call[c].applied => At(c, "done")

Applied == {c \in Calls : call[c].applied}

\* A step of one call that does not upload.
LEMMA QuietStep ==
  ASSUME Inv, ReadIsCurrent, NEW c \in Calls, NEW l \in CallState, Become(c, l),
         l.pc # "new" => l.file \in Files, l.applied = call[c].applied,
         l.applied => l.pc = "done",
         l.pc = "uploading" => l.base = content[l.file],
         UNCHANGED content
  PROVE  ReadIsCurrent' /\ Applied' = Applied
<1>1. call'[c] = l /\ \A d \in Calls : d # c => call'[d] = call[d]
  BY BecomeEffect DEF Inv
<1>2. ReadIsCurrent'
  BY <1>1 DEF ReadIsCurrent, At
<1>3. QED BY <1>1, <1>2 DEF Applied

\* Every step changes the files as one atomic change, or not at all.
LEMMA AtomicStep ==
  ASSUME Inv, ReadIsCurrent, [Next]_vars
  PROVE  ReadIsCurrent' /\ [Atomic!Next]_(Atomic!vars)
<1> USE DEF Inv
<1>0. /\ \A c \in Calls : call[c] \in CallState
      /\ \A c \in Calls : ~At(c, "new") => call[c].file \in Files
      /\ \A c \in Calls : call[c].applied => At(c, "done")
  BY DEF TypeInv, TypeOK, Placed, ReadIsCurrent
<1>1. UNCHANGED content /\ Applied' = Applied => UNCHANGED Atomic!vars
  BY DEF Applied, Atomic!vars
<1>2. CASE UNCHANGED vars
  BY <1>1, <1>2 DEF vars, ReadIsCurrent, Applied, At
<1>3. ASSUME NEW c \in Calls, NEW f \in Files, NEW kind \in Kind, Submit(c, f, kind)
      PROVE  ReadIsCurrent' /\ UNCHANGED Atomic!vars
  <2> DEFINE l == [call[c] EXCEPT !.pc = "registering", !.file = f, !.kind = kind]
  <2>1. call[c] \in CallState /\ ~call[c].applied
    BY <1>0, <1>3 DEF Submit, At
  <2>2. l \in CallState
    BY <2>1 DEF CallState
  <2>3. l.pc = "registering" /\ l.file \in Files /\ l.applied = call[c].applied
    BY <2>1 DEF CallState
  <2>4. Become(c, l) /\ UNCHANGED content
    BY <1>3 DEF Submit
  <2> HIDE DEF l
  <2>5. QED BY <1>1, <2>1, <2>2, <2>3, <2>4, QuietStep
<1>4. ASSUME NEW c \in Calls, Register(c)
      PROVE  ReadIsCurrent' /\ UNCHANGED Atomic!vars
  <2> DEFINE f == call[c].file
             b == Linked(f)
             p == tail[f]
             l == [call[c] EXCEPT !.pc = "waiting", !.pred = p, !.before = b]
  <2>1. call[c] \in CallState /\ ~call[c].applied /\ f \in Files
    BY <1>0, <1>4 DEF Register, At
  <2>2. p \in Calls \cup {None} /\ b \in SUBSET Calls
    BY <2>1 DEF TypeInv, TypeOK, Linked
  <2>3. Become(c, l) /\ UNCHANGED content
    BY <1>4 DEF Register
  <2> HIDE DEF b, p
  <2>4. l \in CallState
    BY <2>1, <2>2 DEF CallState
  <2>5. l.pc = "waiting" /\ l.file \in Files /\ l.applied = call[c].applied
    BY <2>1 DEF CallState
  <2> HIDE DEF l
  <2>6. QED BY <1>1, <2>1, <2>3, <2>4, <2>5, QuietStep
<1>5. ASSUME NEW c \in Calls, NEW pc \in {"reading", "gaveUp", "done"}, NEW answer \in {"none", "error"},
             ~At(c, "new"), ~At(c, "done"), UNCHANGED content,
             Become(c, [call[c] EXCEPT !.pc = pc])
               \/ Become(c, [call[c] EXCEPT !.pc = pc, !.answer = answer])
      PROVE  ReadIsCurrent' /\ UNCHANGED Atomic!vars
  <2>1. call[c] \in CallState /\ ~call[c].applied /\ call[c].file \in Files
    BY <1>0, <1>5
  <2>2. PICK l \in CallState :
           /\ Become(c, l) /\ l.pc = pc /\ l.file = call[c].file
           /\ l.applied = call[c].applied
    <3> DEFINE l1 == [call[c] EXCEPT !.pc = pc]
               l2 == [call[c] EXCEPT !.pc = pc, !.answer = answer]
    <3>1. /\ l1 \in CallState
          /\ l1.pc = pc /\ l1.file = call[c].file /\ l1.applied = call[c].applied
      BY <2>1 DEF CallState
    <3>2. /\ l2 \in CallState
          /\ l2.pc = pc /\ l2.file = call[c].file /\ l2.applied = call[c].applied
      BY <2>1 DEF CallState
    <3>3. Become(c, l1) \/ Become(c, l2)
      BY <1>5
    <3> HIDE DEF l1, l2
    <3>4. QED BY <3>1, <3>2, <3>3
  <2>3. QED BY <1>1, <1>5, <2>1, <2>2, QuietStep
<1>6. ASSUME NEW c \in Calls, Acquire(c) \/ WaitTimeout(c) \/ ReleaseAfterPredecessor(c)
      PROVE  ReadIsCurrent' /\ UNCHANGED Atomic!vars
  BY <1>5, <1>6 DEF Acquire, WaitTimeout, ReleaseAfterPredecessor, At
<1>7. ASSUME NEW c \in Calls, RunTimeout(c)
      PROVE  ReadIsCurrent' /\ UNCHANGED Atomic!vars
  <2> DEFINE l == [call[c] EXCEPT !.answer = "error"]
  <2>1. call[c] \in CallState /\ ~call[c].applied /\ call[c].file \in Files
    BY <1>0, <1>7 DEF RunTimeout, Running, At
  <2>2. l \in CallState
    BY <2>1 DEF CallState
  <2>3. /\ l.file = call[c].file /\ l.applied = call[c].applied
        /\ l.pc = call[c].pc /\ l.base = call[c].base
    BY <2>1 DEF CallState
  <2>4. Become(c, l) /\ UNCHANGED content
    BY <1>7 DEF RunTimeout
  <2>5. l.pc = "uploading" => l.base = content[l.file]
    BY <2>3 DEF ReadIsCurrent, At
  <2> HIDE DEF l
  <2>6. QED BY <1>1, <2>1, <2>2, <2>3, <2>4, <2>5, QuietStep
<1>8. ASSUME NEW c \in Calls, Read(c)
      PROVE  ReadIsCurrent' /\ UNCHANGED Atomic!vars
  <2> DEFINE text == content[call[c].file]
             l == [call[c] EXCEPT !.pc = "uploading", !.base = text]
  <2>1. call[c] \in CallState /\ ~call[c].applied /\ call[c].file \in Files
    BY <1>0, <1>8 DEF Read, At
  <2>2. text \in SUBSET Calls
    BY <2>1 DEF TypeInv, TypeOK
  <2>3. Become(c, l) /\ UNCHANGED content
    BY <1>8 DEF Read
  <2>4. l \in CallState /\ l.file = call[c].file /\ l.applied = call[c].applied
    <3> HIDE DEF text
    <3> QED BY <2>1, <2>2 DEF CallState
  <2>5. l.base = content[l.file]
    BY <2>1, <2>4 DEF CallState
  <2> HIDE DEF l
  <2>6. QED BY <1>1, <2>1, <2>3, <2>4, <2>5, QuietStep
<1>9. ASSUME NEW c \in Calls, ReturnWithoutUpload(c)
      PROVE  ReadIsCurrent' /\ UNCHANGED Atomic!vars
  <2>1. PICK answer \in {"ok", "error"} : Return(c, answer, FALSE)
    BY <1>9 DEF ReturnWithoutUpload
  <2> DEFINE l == [call[c] EXCEPT !.pc = "done", !.applied = FALSE,
                                  !.answer = IF @ = "none" THEN answer ELSE @]
  <2>2. call[c] \in CallState /\ ~call[c].applied /\ call[c].file \in Files
    BY <1>0, <1>9 DEF ReturnWithoutUpload, Running, At
  <2>3. l \in CallState
    BY <2>2 DEF CallState
  <2>4. l.pc = "done" /\ l.file = call[c].file /\ l.applied = FALSE
    BY <2>2 DEF CallState
  <2>5. Become(c, l) /\ UNCHANGED content
    BY <1>9, <2>1 DEF ReturnWithoutUpload, Return
  <2>6. call[c].applied = FALSE
    BY <2>2 DEF CallState
  <2> HIDE DEF l
  <2>7. QED BY <1>1, <2>2, <2>3, <2>4, <2>5, <2>6, QuietStep
<1>10. ASSUME NEW c \in Calls, Upload(c)
       PROVE  ReadIsCurrent' /\ Atomic!Next
  <2> DEFINE f == call[c].file
             kind == call[c].kind
  <2>1. PICK answer \in {"ok", "error"} : Return(c, answer, TRUE)
    BY <1>10 DEF Upload
  <2> DEFINE l == [call[c] EXCEPT !.pc = "done", !.applied = TRUE,
                                  !.answer = IF @ = "none" THEN answer ELSE @]
  <2>2. /\ call[c] \in CallState /\ ~call[c].applied /\ f \in Files
        /\ Running(c) /\ call[c].base = content[f]
    BY <1>0, <1>10 DEF Upload, Running, ReadIsCurrent, At
  <2>3. l \in CallState
    BY <2>2 DEF CallState
  <2>4. l.pc = "done" /\ l.file = f /\ l.applied = TRUE
    BY <2>2 DEF CallState
  <2>5. Become(c, l) /\ content' = [content EXCEPT ![f] = Effect(c, kind, content[f])]
    BY <1>10, <2>1, <2>2 DEF Upload, Return
  <2> HIDE DEF l
  <2>6. call'[c] = l /\ \A d \in Calls : d # c => call'[d] = call[d]
    BY <2>2, <2>3, <2>4, <2>5, BecomeEffect
  <2>7. ASSUME NEW d \in Calls, d # c, At(d, "uploading")
        PROVE  call[d].file # f
    BY <2>2, <2>7, InvGivesExclusion DEF NeverOverlap, Running
  <2>8. ReadIsCurrent'
    <3>1. ASSUME NEW d \in Calls, d # c, At(d, "uploading")
          PROVE  call[d].base = content'[call[d].file]
      <4>1. call[d].file \in Files /\ call[d].file # f
        BY <1>0, <2>7, <3>1 DEF At
      <4>2. content'[call[d].file] = content[call[d].file]
        BY <2>5, <4>1 DEF TypeInv, TypeOK
      <4>3. QED BY <3>1, <4>2 DEF ReadIsCurrent
    <3>2. QED BY <1>0, <2>4, <2>6, <3>1 DEF ReadIsCurrent, At
  <2>9. Applied' = Applied \cup {c} /\ c \notin Applied
    BY <2>2, <2>4, <2>6 DEF Applied
  <2>10. kind \in Kind
    BY <2>2 DEF CallState
  <2>11. Atomic!Change(c, f, kind)
    BY <2>2, <2>5, <2>9 DEF Atomic!Change, Atomic!Effect, Effect, Applied, TypeInv, TypeOK
  <2>12. kind \in Atomic!Kind
    BY <2>10 DEF Atomic!Kind, Kind
  <2>13. f \in Files
    BY <2>2
  <2> HIDE DEF f, kind
  <2>14. Atomic!Next
    BY <2>11, <2>12, <2>13 DEF Atomic!Next, Atomic!Change
  <2>15. QED BY <2>8, <2>14
<1>11. ASSUME NEW c \in Calls, Settle(c) \/ CleanUp(c)
       PROVE  ReadIsCurrent' /\ UNCHANGED Atomic!vars
  BY <1>1, <1>11 DEF Settle, CleanUp, ReadIsCurrent, Applied, At
<1>12. QED BY <1>2, <1>3, <1>4, <1>6, <1>7, <1>8, <1>9, <1>10, <1>11 DEF Next, Mutate, Chain

\* The queue makes the tools' reads and uploads atomic: the files change as
\* AtomicFiles allows.
THEOREM AtomicityHolds == Spec => FilesChangeAtomically
<1>1. Init => ReadIsCurrent /\ Atomic!Init
  BY DEF Init, ReadIsCurrent, Atomic!Init, NewCall, At
<1>2. Inv /\ ReadIsCurrent /\ [Next]_vars
        => ReadIsCurrent' /\ [Atomic!Next]_(Atomic!vars)
  BY AtomicStep
<1>3. QED BY <1>1, <1>2, Invariant, PTL DEF Spec, FilesChangeAtomically, Atomic!Spec

-----------------------------------------------------------------------------
(* Background commands *)

LEMMA HasLeast ==
  ASSUME NEW T, T \subseteq Nat, T # {}
  PROVE  \E x \in T : \A y \in T : x <= y
<1>1. \A R, S : IsWellFoundedOn(R, S) /\ T \subseteq S => \E x \in T : \A y \in T : ~ (<<y, x>> \in R)
  BY WFMin
<1>2. PICK x \in T : \A y \in T : ~ (<<y, x>> \in OpToRel(<, Nat))
  BY <1>1, NatLessThanWellFounded, Zenon
<1>3. \A y \in T : ~(y < x)
  BY <1>2 DEF OpToRel
<1> QED BY <1>3

Listing(s) == {s[i] : i \in 1 .. Len(s)}
NoneTwice(s) == \A i, j \in 1 .. Len(s) : s[i] = s[j] => i = j

\* A list without its element k has the others, once each.
LEMMA ListWithout ==
  ASSUME NEW S, NEW s \in Seq(S), NEW k \in 1 .. Len(s), NoneTwice(s)
  PROVE  LET t == Commands!RemoveAt(s, k) IN
         t \in Seq(S) /\ Len(t) = Len(s) - 1 /\ NoneTwice(t) /\ Listing(t) = Listing(s) \ {s[k]}
<1> DEFINE u == SubSeq(s, 1, k - 1)
           v == SubSeq(s, k + 1, Len(s))
           t == u \o v
<1>1. /\ u \in Seq(S) /\ Len(u) = k - 1
      /\ \A i \in 1 .. k - 1 : u[i] = s[i]
  OBVIOUS
<1>2. /\ v \in Seq(S) /\ Len(v) = Len(s) - k
      /\ \A i \in 1 .. Len(s) - k : v[i] = s[k + i]
  OBVIOUS
<1>3. Commands!RemoveAt(s, k) = t
  BY DEF Commands!RemoveAt
<1> HIDE DEF u, v
<1>4. /\ t \in Seq(S) /\ Len(t) = Len(u) + Len(v)
      /\ \A i \in 1 .. Len(u) : t[i] = u[i]
      /\ \A i \in 1 .. Len(v) : t[Len(u) + i] = v[i]
  <2>1. u \in Seq(S) /\ v \in Seq(S)
    BY <1>1, <1>2
  <2> QED BY ONLY <2>1
<1> HIDE DEF t
<1>5. Len(s) \in Nat /\ Len(u) + Len(v) = Len(s) - 1
  BY <1>1, <1>2
<1>6. t \in Seq(S) /\ Len(t) = Len(s) - 1
  BY <1>4, <1>5
<1>7. \A i \in 1 .. k - 1 : t[i] = s[i]
  BY <1>1, <1>4
<1>8. ASSUME NEW i \in k .. Len(s) - 1 PROVE t[i] = s[i + 1]
  <2> DEFINE n == i - (k - 1)
  <2>1. n \in 1 .. Len(s) - k /\ k + n = i + 1 /\ k - 1 + n = i
    BY <1>5, <1>8
  <2> HIDE DEF n
  <2>2. v[n] = s[k + n] /\ t[Len(u) + n] = v[n] /\ Len(u) + n = i
    BY <1>1, <1>2, <1>4, <2>1
  <2> QED BY <2>1, <2>2
<1>9. NoneTwice(t)
  <2> SUFFICES ASSUME NEW i \in 1 .. Len(t), NEW j \in 1 .. Len(t), t[i] = t[j] PROVE i = j
    BY DEF NoneTwice
  <2> DEFINE I == IF i < k THEN i ELSE i + 1
             J == IF j < k THEN j ELSE j + 1
  <2>1. t[i] = s[I] /\ t[j] = s[J] /\ I \in 1 .. Len(s) /\ J \in 1 .. Len(s)
    BY <1>5, <1>6, <1>7, <1>8
  <2>2. I = J
    BY <2>1 DEF NoneTwice
  <2> QED BY <1>5, <1>6, <2>2
<1>10. ASSUME NEW x \in Listing(t) PROVE x \in Listing(s) \ {s[k]}
  <2>1. PICK i \in 1 .. Len(t) : t[i] = x
    BY DEF Listing
  <2> DEFINE I == IF i < k THEN i ELSE i + 1
  <2>2. x = s[I] /\ I \in 1 .. Len(s) /\ I # k
    BY <1>5, <1>6, <1>7, <1>8, <2>1
  <2> QED BY <2>2 DEF Listing, NoneTwice
<1>11. ASSUME NEW x \in Listing(s) \ {s[k]} PROVE x \in Listing(t)
  <2>1. PICK i \in 1 .. Len(s) : s[i] = x /\ i # k
    BY DEF Listing
  <2>2. CASE i < k
    <3>1. i \in 1 .. k - 1 /\ i \in 1 .. Len(t)
      BY <1>5, <1>6, <2>2
    <3> QED BY <1>7, <2>1, <3>1 DEF Listing
  <2>3. CASE i > k
    <3>1. i - 1 \in k .. Len(s) - 1 /\ i - 1 \in 1 .. Len(t) /\ i - 1 + 1 = i
      BY <1>5, <1>6, <2>3
    <3>2. t[i - 1] = s[i]
      BY <1>8, <3>1
    <3> QED BY <2>1, <3>1, <3>2 DEF Listing
  <2> QED BY <1>5, <2>1, <2>2, <2>3
<1> QED BY <1>3, <1>6, <1>9, <1>10, <1>11

LEMMA ListLess ==
  ASSUME NEW S, NEW s \in Seq(S), NoneTwice(s), NEW e
  PROVE  LET t == Commands!RemoveFirst(s, e) IN
         t \in Seq(S) /\ Len(t) <= Len(s) /\ NoneTwice(t) /\ Listing(t) = Listing(s) \ {e}
<1>1. CASE ~ \E i \in 1 .. Len(s) : s[i] = e
  BY <1>1 DEF Commands!RemoveFirst, Listing
<1>2. CASE \E i \in 1 .. Len(s) : s[i] = e
  <2>1. PICK k \in 1 .. Len(s) : s[k] = e
    BY <1>2
  <2>2. {i \in 1 .. Len(s) : s[i] = e} = {k}
    BY <2>1 DEF NoneTwice
  <2>3. Commands!SelectInSeq(s, LAMBDA v : v = e) = k
    <3>1. Commands!Min({k}) = k
      BY <2>1 DEF Commands!Min
    <3> QED BY <2>2, <3>1 DEF Commands!SelectInSeq
  <2>4. Commands!RemoveFirst(s, e) = Commands!RemoveAt(s, k)
    BY <1>2, <2>3 DEF Commands!RemoveFirst
  <2> HIDE DEF Commands!RemoveFirst
  <2> QED BY <2>1, <2>4, ListWithout, Len(s) \in Nat
<1> QED BY <1>1, <1>2

LEMMA ListMore ==
  ASSUME NEW S, NEW s \in Seq(S), NoneTwice(s), NEW e \in S, e \notin Listing(s)
  PROVE  LET t == Append(s, e) IN
         t \in Seq(S) /\ Len(t) = Len(s) + 1 /\ NoneTwice(t) /\ Listing(t) = Listing(s) \cup {e}
<1> DEFINE t == Append(s, e)
<1>1. /\ t \in Seq(S) /\ Len(t) = Len(s) + 1 /\ t[Len(s) + 1] = e /\ Len(s) \in Nat
      /\ \A i \in 1 .. Len(s) : t[i] = s[i]
  OBVIOUS
<1> HIDE DEF t
<1>2. NoneTwice(t)
  BY <1>1 DEF NoneTwice, Listing
<1>3. Listing(t) = Listing(s) \cup {e}
  BY <1>1 DEF Listing
<1> QED BY <1>1, <1>2, <1>3 DEF t

CommandSteps == {"new", "session", "launch", "runs", "named", "clean", "ended", "failed", "terminated"}
CommandBounds == MaxSessions \in Nat /\ MaxFaults \in Nat

\* A background command that is being started is listed, and so is one that was
\* named and runs; a command that is entered and has not exited keeps its session.
CommandOK(c) ==
  /\ call[c].step \in {"launch", "named", "terminated"} => call[c].background
  /\ call[c].step \in {"runs", "clean", "ended"} => ~call[c].background
  /\ call[c].step \in {"new", "session"} => process[c] = "none"
  /\ poll[c] # "none" => call[c].step \in {"named", "terminated"}
  /\ command[c].there => call[c].step \in {"named", "terminated"}
  /\ command[c].handle => command[c].there
  /\ command[c].exited => process[c] = "gone" /\ command[c].there
  /\ call[c].step = "launch" => Commands!Listed(c)
  /\ call[c].step \in {"named", "terminated"} => command[c].there
  /\ call[c].step = "named" /\ process[c] = "running" => Commands!Listed(c)
  /\ call[c].step = "terminated" \/ poll[c] = "finished" => process[c] # "running"

CommandInv == Commands!TypeOK /\ \A c \in Calls : CommandOK(c)

LEMMA Listings ==
  ASSUME Commands!TypeOK
  PROVE  /\ sessions \in Seq(Calls) /\ NoneTwice(sessions) /\ Len(sessions) \in Nat
         /\ DOMAIN sessions = 1 .. Len(sessions)
         /\ \A c : Commands!Listed(c) <=> c \in Listing(sessions)
<1>1. sessions \in Seq(Calls) /\ Commands!IsInjective(sessions)
  BY DEF Commands!TypeOK
<1>2. DOMAIN sessions = 1 .. Len(sessions) /\ Len(sessions) \in Nat
  BY <1>1
<1>3. Commands!ToSet(sessions) = Listing(sessions)
  BY <1>2 DEF Commands!ToSet, Listing
<1> QED BY <1>1, <1>2, <1>3 DEF Commands!IsInjective, Commands!Listed, NoneTwice

\* What is known of the table after it changed.
Tabled(S) == /\ sessions' \in Seq(Calls) /\ Len(sessions') <= MaxSessions
             /\ Commands!IsInjective(sessions') /\ \A c \in Calls : Commands!Listed(c)' <=> c \in S

LEMMA TableIs ==
  ASSUME NEW t \in Seq(Calls), NoneTwice(t), Len(t) <= MaxSessions, sessions' = t
  PROVE  Tabled(Listing(t))
<1>1. DOMAIN t = 1 .. Len(t)
  OBVIOUS
<1>2. Commands!ToSet(sessions') = Listing(t)
  BY <1>1 DEF Commands!ToSet, Listing
<1>3. Commands!IsInjective(sessions')
  BY <1>1 DEF NoneTwice, Commands!IsInjective
<1> QED BY <1>2, <1>3 DEF Tabled, Commands!Listed

LEMMA TableShrinks ==
  ASSUME Commands!TypeOK, CommandBounds, NEW c \in Calls, sessions' = Commands!Without(c)
  PROVE  Tabled(Listing(sessions) \ {c})
<1>1. sessions \in Seq(Calls) /\ NoneTwice(sessions) /\ Len(sessions) <= MaxSessions /\ Len(sessions) \in Nat
  BY Listings DEF Commands!TypeOK
<1> DEFINE t == Commands!RemoveFirst(sessions, c)
<1>2. t \in Seq(Calls) /\ Len(t) <= Len(sessions) /\ NoneTwice(t) /\ Listing(t) = Listing(sessions) \ {c}
  BY <1>1, ListLess
<1>3. sessions' = t
  BY DEF Commands!Without
<1> HIDE DEF t
<1>4. Len(t) <= MaxSessions
  BY <1>1, <1>2 DEF CommandBounds
<1> QED BY <1>2, <1>3, <1>4, TableIs

\* Room is made by dropping one session without an active command.
LEMMA RoomMade ==
  ASSUME Commands!TypeOK
  PROVE  /\ Commands!Room \in Seq(Calls) /\ NoneTwice(Commands!Room)
         /\ Listing(Commands!Room) \subseteq Listing(sessions)
         /\ \A c \in Listing(sessions) : Commands!Active(c) => c \in Listing(Commands!Room)
<1>1. sessions \in Seq(Calls) /\ NoneTwice(sessions) /\ Len(sessions) \in Nat /\ DOMAIN sessions = 1 .. Len(sessions)
  BY Listings
<1> DEFINE idle == {i \in DOMAIN sessions : Commands!Evictable(sessions[i])}
           first == CHOOSE i \in idle : \A j \in idle : i <= j
<1>2. CASE ~Commands!Full \/ idle = {}
  BY <1>1, <1>2 DEF Commands!Room
<1>3. CASE Commands!Full /\ idle # {}
  <2>1. idle \subseteq Nat
    BY <1>1
  <2>2. \E i \in idle : \A j \in idle : i <= j
    BY <1>3, <2>1, HasLeast
  <2>3. first \in idle
    BY <2>2
  <2>4. first \in 1 .. Len(sessions) /\ Commands!Evictable(sessions[first])
    BY <1>1, <2>3
  <2>5. Commands!Room = Commands!RemoveAt(sessions, first)
    BY <1>3 DEF Commands!Room
  <2> HIDE DEF idle, first
  <2> QED BY <1>1, <2>4, <2>5, ListWithout DEF Commands!Evictable
<1> QED BY <1>2, <1>3

LEMMA TableGrows ==
  ASSUME Commands!TypeOK, CommandBounds, NEW c \in Calls, ~Commands!NoRoom(c), Commands!HasSession(c)
  PROVE  \E S : /\ Tabled(S) /\ c \in S /\ S \subseteq Calls
                /\ \A d \in Calls : Commands!Listed(d) /\ Commands!Active(d) => d \in S
<1>1. /\ sessions \in Seq(Calls) /\ NoneTwice(sessions) /\ Len(sessions) <= MaxSessions
      /\ \A d : Commands!Listed(d) <=> d \in Listing(sessions)
  BY Listings DEF Commands!TypeOK
<1>2. CASE Commands!Listed(c)
  <2>1. sessions' = sessions
    BY <1>2 DEF Commands!HasSession
  <2>2. Listing(sessions) \subseteq Calls
    BY <1>1 DEF Listing
  <2> QED BY <1>1, <1>2, <2>1, <2>2, TableIs
<1>3. CASE ~Commands!Listed(c)
  <2> DEFINE r == Commands!Room
             t == Append(r, c)
  <2>1. sessions' = t /\ ~(Len(r) >= MaxSessions)
    BY <1>3 DEF Commands!HasSession, Commands!NoRoom
  <2>2. /\ r \in Seq(Calls) /\ NoneTwice(r) /\ Listing(r) \subseteq Listing(sessions)
        /\ \A d \in Listing(sessions) : Commands!Active(d) => d \in Listing(r)
    BY RoomMade
  <2> HIDE DEF r
  <2>3. c \notin Listing(r)
    BY <1>1, <1>3, <2>2
  <2>4. t \in Seq(Calls) /\ Len(t) = Len(r) + 1 /\ NoneTwice(t) /\ Listing(t) = Listing(r) \cup {c}
    BY <2>2, <2>3, ListMore
  <2>5. Len(t) <= MaxSessions
    BY <2>1, <2>2, <2>4 DEF CommandBounds
  <2>6. Listing(t) \subseteq Calls
    BY <2>4 DEF Listing
  <2> HIDE DEF t
  <2> QED BY <1>1, <2>1, <2>2, <2>4, <2>5, <2>6, TableIs
<1> QED BY <1>2, <1>3

OneCallMoves(c) ==
  /\ call' \in [Calls -> [step : CommandSteps, background : BOOLEAN]]
  /\ process' \in [Calls -> {"none", "running", "gone"}]
  /\ command' \in [Calls -> [there : BOOLEAN, handle : BOOLEAN, exited : BOOLEAN]]
  /\ poll' \in [Calls -> {"none", "connecting", "running", "finished", "error"}]
  /\ faults' \in 0 .. MaxFaults
  /\ \A d \in Calls : d # c => /\ call'[d] = call[d] /\ process'[d] = process[d]
                               /\ command'[d] = command[d] /\ poll'[d] = poll[d]

\* Who needs a session keeps it, whatever another call does to the table.
Needs(d) == call[d].step = "launch" \/ (call[d].step = "named" /\ process[d] = "running")

LEMMA CommandStep ==
  ASSUME CommandInv, NEW c \in Calls, OneCallMoves(c), NEW S, Tabled(S),
         \A d \in Calls : d # c /\ Needs(d) => d \in S,
         CommandOK(c)'
  PROVE  CommandInv'
<1>1. Commands!TypeOK'
  BY DEF Commands!TypeOK, OneCallMoves, Tabled, CommandSteps
<1>2. ASSUME NEW d \in Calls, d # c PROVE CommandOK(d)'
  <2>1. /\ call'[d] = call[d] /\ process'[d] = process[d] /\ command'[d] = command[d]
        /\ poll'[d] = poll[d]
    BY <1>2 DEF OneCallMoves
  <2>2. Needs(d) => Commands!Listed(d)'
    BY <1>2 DEF Tabled
  <2>3. CommandOK(d)
    BY DEF CommandInv
  <2> QED BY <2>1, <2>2, <2>3 DEF CommandOK, Needs
<1> QED BY <1>1, <1>2 DEF CommandInv

\* The table did not change, or its owner left it.
LEMMA NeedsListed ==
  ASSUME CommandInv
  PROVE  /\ sessions' = sessions => Tabled(Listing(sessions))
         /\ Listing(sessions) \subseteq Calls
         /\ \A d \in Calls : Needs(d) => d \in Listing(sessions)
<1>1. Commands!TypeOK /\ \A d \in Calls : CommandOK(d)
  BY DEF CommandInv
<1>2. /\ sessions \in Seq(Calls) /\ NoneTwice(sessions) /\ Len(sessions) <= MaxSessions
      /\ \A d : Commands!Listed(d) <=> d \in Listing(sessions)
  BY <1>1, Listings DEF Commands!TypeOK
<1>3. \A d \in Calls : Needs(d) => Commands!Listed(d)
  BY <1>1 DEF CommandOK, Needs
<1> QED BY <1>2, <1>3, TableIs DEF Listing

LEMMA CommandMoves ==
  ASSUME CommandInv, CommandBounds
  PROVE  /\ Commands!Fault => faults' \in 0 .. MaxFaults
         /\ faults' = faults => faults' \in 0 .. MaxFaults
         /\ \A c \in Calls : call[c] \in [step : CommandSteps, background : BOOLEAN]
         /\ \A c \in Calls : command[c] \in [there : BOOLEAN, handle : BOOLEAN, exited : BOOLEAN]
         /\ \A c \in Calls, s \in CommandSteps :
              Commands!Goes(c, s) =>
                /\ call' \in [Calls -> [step : CommandSteps, background : BOOLEAN]]
                /\ call'[c].step = s /\ call'[c].background = call[c].background
                /\ \A d \in Calls : d # c => call'[d] = call[d]
<1>1. /\ call \in [Calls -> [step : CommandSteps, background : BOOLEAN]] /\ faults \in 0 .. MaxFaults
      /\ command \in [Calls -> [there : BOOLEAN, handle : BOOLEAN, exited : BOOLEAN]]
  BY DEF CommandInv, Commands!TypeOK, CommandSteps
<1>2. /\ Commands!Fault => faults' \in 0 .. MaxFaults
      /\ faults' = faults => faults' \in 0 .. MaxFaults
  BY <1>1 DEF Commands!Fault, CommandBounds
<1>3. ASSUME NEW c \in Calls, NEW s \in CommandSteps, Commands!Goes(c, s)
      PROVE  /\ call' \in [Calls -> [step : CommandSteps, background : BOOLEAN]]
             /\ call'[c].step = s /\ call'[c].background = call[c].background
             /\ \A d \in Calls : d # c => call'[d] = call[d]
  <2> DEFINE new == [call[c] EXCEPT !.step = s]
  <2>1. new \in [step : CommandSteps, background : BOOLEAN] /\ new.step = s
        /\ new.background = call[c].background
    BY <1>1
  <2>2. call' = [call EXCEPT ![c] = new]
    BY <1>1, <1>3 DEF Commands!Goes
  <2> HIDE DEF new
  <2> QED BY <1>1, <2>1, <2>2
<1> QED BY <1>1, <1>2, <1>3

LEMMA CommandNext ==
  ASSUME CommandInv, CommandBounds, ~StartsOverlap, NEW c \in Calls,
         \/ \E background \in BOOLEAN : Commands!CreateSession(c, background)
         \/ Commands!Execute(c) \/ Commands!Launched(c) \/ Commands!Finish(c) \/ Commands!CleanUp(c)
         \/ Commands!Exits(c) \/ Commands!StreamEnds(c) \/ Commands!Poll(c) \/ Commands!Reconnect(c)
         \/ Commands!Terminate(c)
  PROVE  CommandInv'
<1>1. /\ process \in [Calls -> {"none", "running", "gone"}]
      /\ call \in [Calls -> [step : CommandSteps, background : BOOLEAN]]
      /\ command \in [Calls -> [there : BOOLEAN, handle : BOOLEAN, exited : BOOLEAN]]
      /\ poll \in [Calls -> {"none", "connecting", "running", "finished", "error"}]
      /\ Commands!TypeOK /\ CommandOK(c)
  BY DEF CommandInv, Commands!TypeOK, CommandSteps
<1>2. /\ sessions' = sessions => Tabled(Listing(sessions))
      /\ \A d \in Calls : Needs(d) => d \in Listing(sessions)
      /\ \A d \in Calls : Commands!Listed(d) <=> d \in Listing(sessions)
  BY <1>1, NeedsListed, Listings
<1>3. /\ Commands!Fault => faults' \in 0 .. MaxFaults
      /\ faults' = faults => faults' \in 0 .. MaxFaults
  BY CommandMoves
<1>4. \A s \in CommandSteps : Commands!Goes(c, s) =>
        /\ call' \in [Calls -> [step : CommandSteps, background : BOOLEAN]]
        /\ call'[c].step = s /\ call'[c].background = call[c].background
        /\ \A d \in Calls : d # c => call'[d] = call[d]
  BY CommandMoves
\* A look-up keeps the sessions of active commands, and no other command is being
\* started beside it.
<1>5. ASSUME ~Commands!NoRoom(c), Commands!HasSession(c), Commands!MayLookUp(c)
      PROVE  \E S : Tabled(S) /\ c \in S /\ \A d \in Calls : d # c /\ Needs(d) => d \in S
  <2>1. PICK S : /\ Tabled(S) /\ c \in S
                 /\ \A d \in Calls : Commands!Listed(d) /\ Commands!Active(d) => d \in S
    BY <1>1, <1>5, TableGrows
  <2>2. ASSUME NEW d \in Calls, d # c, Needs(d) PROVE d \in S
    <3>1. CommandOK(d)
      BY DEF CommandInv
    <3>2. call[d].step # "launch"
      BY <1>5, <2>2, <3>1 DEF Commands!MayLookUp, Commands!Starting, Commands!At, CommandOK
    <3>3. Commands!Listed(d) /\ Commands!Active(d)
      BY <2>2, <3>1, <3>2 DEF Needs, CommandOK, Commands!Active
    <3> QED BY <2>1, <3>3
  <2> QED BY <2>1, <2>2
<1>6. ASSUME sessions' = Commands!Without(c)
      PROVE  \E S : Tabled(S) /\ \A d \in Calls : d # c /\ Needs(d) => d \in S
  <2>1. Tabled(Listing(sessions) \ {c})
    BY <1>1, <1>6, TableShrinks
  <2> QED BY <1>2, <2>1
<1>7. ASSUME NEW background \in BOOLEAN, Commands!CreateSession(c, background) PROVE CommandInv'
  <2> DEFINE new == [step |-> IF Commands!NoRoom(c) THEN "failed" ELSE "session", background |-> background]
  <2>1. call' = [call EXCEPT ![c] = new] /\ UNCHANGED <<process, command, poll, faults>>
        /\ call[c].step = "new" /\ Commands!MayLookUp(c)
        /\ (Commands!NoRoom(c) => sessions' = sessions)
        /\ (~Commands!NoRoom(c) => Commands!HasSession(c))
    BY <1>7 DEF Commands!CreateSession, Commands!At
  <2>2. new \in [step : CommandSteps, background : BOOLEAN] /\ new.step \in {"failed", "session"}
    BY DEF CommandSteps
  <2> HIDE DEF new
  <2>3. OneCallMoves(c) /\ call'[c] = new
    BY <1>1, <1>3, <2>1, <2>2 DEF OneCallMoves
  <2>4. CommandOK(c)'
    BY <1>1, <2>1, <2>2, <2>3 DEF CommandOK
  <2>5. \E S : Tabled(S) /\ \A d \in Calls : d # c /\ Needs(d) => d \in S
    BY <1>2, <1>5, <2>1
  <2> QED BY <2>3, <2>4, <2>5, CommandStep
<1>8. CASE Commands!Execute(c)
  <2>1. call[c].step = "session" /\ Commands!MayLookUp(c) /\ UNCHANGED <<command, poll>>
    BY <1>8 DEF Commands!Execute, Commands!At
  <2>2. CASE Commands!Fails(c) /\ process' = process /\ faults' \in 0 .. MaxFaults
              /\ \/ sessions' = sessions
                 \/ ~Commands!NoRoom(c) /\ Commands!HasSession(c)
    <3> DEFINE s == IF call[c].background THEN "failed" ELSE "clean"
    <3>1. Commands!Goes(c, s) /\ s \in CommandSteps
      BY <2>2 DEF Commands!Fails, CommandSteps
    <3>2. s \in {"failed", "clean"} /\ (s = "clean" => ~call[c].background)
      OBVIOUS
    <3> HIDE DEF s
    <3>3. OneCallMoves(c) /\ call'[c].step = s /\ call'[c].background = call[c].background
      BY <1>1, <1>4, <2>1, <2>2, <3>1 DEF OneCallMoves
    <3>4. CommandOK(c)'
      BY <1>1, <2>1, <2>2, <3>2, <3>3 DEF CommandOK
    <3>5. \E S : Tabled(S) /\ \A d \in Calls : d # c /\ Needs(d) => d \in S
      BY <1>2, <1>5, <2>1, <2>2
    <3> QED BY <3>3, <3>4, <3>5, CommandStep
  <2>3. CASE /\ ~Commands!NoRoom(c) /\ Commands!HasSession(c) /\ UNCHANGED faults
             /\ process' = [process EXCEPT ![c] = "running"]
             /\ Commands!Goes(c, IF call[c].background THEN "launch" ELSE "runs")
    <3> DEFINE s == IF call[c].background THEN "launch" ELSE "runs"
    <3>1. Commands!Goes(c, s) /\ s \in CommandSteps
      BY <2>3 DEF CommandSteps
    <3>2. s \in {"launch", "runs"} /\ (s = "launch" <=> call[c].background)
      OBVIOUS
    <3> HIDE DEF s
    <3>3. OneCallMoves(c) /\ call'[c].step = s /\ call'[c].background = call[c].background
      BY <1>1, <1>3, <1>4, <2>1, <2>3, <3>1 DEF OneCallMoves
    <3>4. PICK S : Tabled(S) /\ c \in S /\ \A d \in Calls : d # c /\ Needs(d) => d \in S
      BY <1>5, <2>1, <2>3
    <3>5. CommandOK(c)'
      BY <1>1, <2>1, <2>3, <3>2, <3>3, <3>4 DEF CommandOK, Tabled
    <3> QED BY <3>3, <3>4, <3>5, CommandStep
  <2> QED BY <1>3, <1>8, <2>2, <2>3 DEF Commands!Execute
<1>9. CASE Commands!Launched(c)
  <2>1. call[c].step = "launch" /\ UNCHANGED <<process, sessions, poll>>
    BY <1>9 DEF Commands!Launched, Commands!At
  <2>2. CASE /\ command' = [command EXCEPT ![c] = [there |-> TRUE, handle |-> TRUE, exited |-> FALSE]]
             /\ Commands!Goes(c, "named") /\ UNCHANGED faults
    <3>1. OneCallMoves(c) /\ call'[c].step = "named" /\ call'[c].background = call[c].background
      BY <1>1, <1>3, <1>4, <2>1, <2>2 DEF OneCallMoves, CommandSteps
    <3>2. command'[c] = [there |-> TRUE, handle |-> TRUE, exited |-> FALSE]
      BY <1>1, <2>2
    <3>3. Commands!Listed(c)'
      BY <1>1, <1>2, <2>1 DEF Tabled, CommandOK
    <3>4. CommandOK(c)'
      BY <1>1, <2>1, <3>1, <3>2, <3>3 DEF CommandOK
    <3> QED BY <1>2, <2>1, <3>1, <3>4, CommandStep
  <2>3. CASE Commands!Fault /\ Commands!Fails(c) /\ UNCHANGED command
    <3>1. call[c].background /\ Commands!Goes(c, "failed")
      BY <1>1, <2>1, <2>3 DEF CommandOK, Commands!Fails
    <3>2. OneCallMoves(c) /\ call'[c].step = "failed" /\ call'[c].background = call[c].background
      BY <1>1, <1>3, <1>4, <2>1, <2>3, <3>1 DEF OneCallMoves, CommandSteps
    <3>3. CommandOK(c)'
      BY <1>1, <2>1, <2>3, <3>2 DEF CommandOK
    <3> QED BY <1>2, <2>1, <3>2, <3>3, CommandStep
  <2> QED BY <1>9, <2>2, <2>3 DEF Commands!Launched
<1>10. CASE Commands!Finish(c)
  <2>1. call[c].step = "runs" /\ process' = [process EXCEPT ![c] = "gone"] /\ Commands!Goes(c, "clean")
        /\ UNCHANGED <<sessions, command, poll, faults>>
    BY <1>10 DEF Commands!Finish, Commands!At
  <2>2. OneCallMoves(c) /\ call'[c].step = "clean" /\ call'[c].background = call[c].background
        /\ process'[c] = "gone"
    BY <1>1, <1>3, <1>4, <2>1 DEF OneCallMoves, CommandSteps
  <2>3. CommandOK(c)'
    BY <1>1, <2>1, <2>2 DEF CommandOK
  <2> QED BY <1>2, <2>1, <2>2, <2>3, CommandStep
<1>11. CASE Commands!CleanUp(c)
  <2>1. call[c].step = "clean" /\ sessions' = Commands!Without(c) /\ Commands!Goes(c, "ended")
        /\ UNCHANGED <<process, command, poll, faults>>
    BY <1>11 DEF Commands!CleanUp, Commands!At
  <2>2. OneCallMoves(c) /\ call'[c].step = "ended" /\ call'[c].background = call[c].background
    BY <1>1, <1>3, <1>4, <2>1 DEF OneCallMoves, CommandSteps
  <2>3. CommandOK(c)'
    BY <1>1, <2>1, <2>2 DEF CommandOK
  <2> QED BY <1>6, <2>1, <2>2, <2>3, CommandStep
<1>12. CASE Commands!Exits(c)
  <2>1. process[c] = "running" /\ call[c].background /\ process' = [process EXCEPT ![c] = "gone"]
        /\ UNCHANGED <<call, sessions, command, poll, faults>>
    BY <1>12 DEF Commands!Exits
  <2>2. OneCallMoves(c) /\ process'[c] = "gone"
    BY <1>1, <1>3, <2>1 DEF OneCallMoves
  <2>3. Commands!Listed(c)' <=> Commands!Listed(c)
    BY <1>2, <2>1 DEF Tabled
  <2>4. CommandOK(c)'
    BY <1>1, <2>1, <2>2, <2>3 DEF CommandOK
  <2> QED BY <1>2, <2>1, <2>2, <2>4, CommandStep
<1>13. CASE Commands!StreamEnds(c)
  <2>1. command[c].handle /\ UNCHANGED <<call, process, sessions, poll>> /\ faults' \in 0 .. MaxFaults
    BY <1>3, <1>13 DEF Commands!StreamEnds
  <2>2. PICK new \in [there : BOOLEAN, handle : BOOLEAN, exited : BOOLEAN] :
          /\ command' = [command EXCEPT ![c] = new]
          /\ new.there = command[c].there /\ ~new.handle /\ (new.exited => process[c] = "gone")
    <3>1. CASE process[c] = "gone" /\ command' = [command EXCEPT ![c].handle = FALSE, ![c].exited = TRUE]
      <4> DEFINE new == [command[c] EXCEPT !.handle = FALSE, !.exited = TRUE]
      <4>1. /\ new \in [there : BOOLEAN, handle : BOOLEAN, exited : BOOLEAN]
            /\ new.there = command[c].there /\ ~new.handle
        BY <1>1
      <4>2. command' = [command EXCEPT ![c] = new]
        BY <1>1, <3>1
      <4> HIDE DEF new
      <4> QED BY <3>1, <4>1, <4>2
    <3>2. CASE command' = [command EXCEPT ![c].handle = FALSE]
      <4> DEFINE new == [command[c] EXCEPT !.handle = FALSE]
      <4>1. /\ new \in [there : BOOLEAN, handle : BOOLEAN, exited : BOOLEAN]
            /\ new.there = command[c].there /\ ~new.handle /\ new.exited = command[c].exited
        BY <1>1
      <4>2. command' = [command EXCEPT ![c] = new]
        BY <1>1, <3>2
      <4> HIDE DEF new
      <4> QED BY <1>1, <4>1, <4>2 DEF CommandOK
    <3> QED BY <1>13, <3>1, <3>2 DEF Commands!StreamEnds
  <2>5. OneCallMoves(c) /\ command'[c] = new
    BY <1>1, <2>1, <2>2 DEF OneCallMoves
  <2>6. Commands!Listed(c)' <=> Commands!Listed(c)
    BY <1>2, <2>1 DEF Tabled
  <2>7. CommandOK(c)'
    BY <1>1, <2>1, <2>2, <2>5, <2>6 DEF CommandOK
  <2> QED BY <1>2, <2>1, <2>5, <2>7, CommandStep
<1>14. CASE Commands!Poll(c)
  <2>1. call[c].step = "named" /\ UNCHANGED <<call, process, sessions, command, faults>>
    BY <1>14 DEF Commands!Poll, Commands!At
  <2>2. PICK what \in {"error", "connecting", "running", "finished"} :
          poll' = [poll EXCEPT ![c] = what] /\ (what = "finished" => command[c].exited)
    BY <1>14 DEF Commands!Poll, Commands!Says, Commands!Shown
  <2>3. OneCallMoves(c) /\ poll'[c] = what
    BY <1>1, <1>3, <2>1, <2>2 DEF OneCallMoves
  <2>4. Commands!Listed(c)' <=> Commands!Listed(c)
    BY <1>2, <2>1 DEF Tabled
  <2>5. CommandOK(c)'
    BY <1>1, <2>1, <2>2, <2>3, <2>4 DEF CommandOK
  <2> QED BY <1>2, <2>1, <2>3, <2>5, CommandStep
<1>15. CASE Commands!Reconnect(c)
  <2>1. poll[c] = "connecting" /\ UNCHANGED <<call, process, sessions>> /\ faults' \in 0 .. MaxFaults
    BY <1>3, <1>15 DEF Commands!Reconnect
  <2>2. PICK what \in {"running", "error"} : poll' = [poll EXCEPT ![c] = what]
    BY <1>15 DEF Commands!Reconnect, Commands!Says
  <2>3. PICK handle \in BOOLEAN : command' = [command EXCEPT ![c].handle = handle]
    <3>1. CASE command' = command
      <4>1. command' = [command EXCEPT ![c].handle = command[c].handle] /\ command[c].handle \in BOOLEAN
        BY <1>1, <3>1
      <4> QED BY <4>1
    <3> QED BY <1>15, <3>1 DEF Commands!Reconnect
  <2> DEFINE new == [command[c] EXCEPT !.handle = handle]
  <2>4. new \in [there : BOOLEAN, handle : BOOLEAN, exited : BOOLEAN] /\ new.there = command[c].there
        /\ new.exited = command[c].exited
    BY <1>1
  <2>5. command' = [command EXCEPT ![c] = new]
    BY <1>1, <2>3
  <2> HIDE DEF new
  <2>6. OneCallMoves(c) /\ command'[c] = new /\ poll'[c] = what
    BY <1>1, <2>1, <2>2, <2>4, <2>5 DEF OneCallMoves
  <2>7. Commands!Listed(c)' <=> Commands!Listed(c)
    BY <1>2, <2>1 DEF Tabled
  <2>8. call[c].step \in {"named", "terminated"}
    BY <1>1, <2>1 DEF CommandOK
  <2>9. CommandOK(c)'
    BY <1>1, <2>1, <2>2, <2>4, <2>6, <2>7, <2>8 DEF CommandOK
  <2> QED BY <1>2, <2>1, <2>6, <2>9, CommandStep
<1>16. CASE Commands!Terminate(c)
  <2>1. call[c].step = "named" /\ UNCHANGED <<command, poll>> /\ command[c].there
    BY <1>1, <1>16 DEF Commands!Terminate, Commands!At, CommandOK
  <2>2. CASE ~Commands!Listed(c) /\ Commands!Goes(c, "terminated") /\ UNCHANGED <<process, sessions, faults>>
    <3>1. OneCallMoves(c) /\ call'[c].step = "terminated" /\ call'[c].background = call[c].background
      BY <1>1, <1>3, <1>4, <2>1, <2>2 DEF OneCallMoves, CommandSteps
    <3>2. CommandOK(c)'
      BY <1>1, <2>1, <2>2, <3>1 DEF CommandOK
    <3> QED BY <1>2, <2>2, <3>1, <3>2, CommandStep
  <2>3. CASE /\ Commands!Listed(c) /\ sessions' = Commands!Without(c)
             /\ IF Commands!Active(c) THEN Commands!Kill(c) ELSE UNCHANGED process
             /\ \/ Commands!Goes(c, "terminated") /\ UNCHANGED faults
                \/ Commands!Fault /\ UNCHANGED call
    <3>1. process' \in [Calls -> {"none", "running", "gone"}] /\ \A d \in Calls : d # c => process'[d] = process[d]
      BY <1>1, <2>3 DEF Commands!Kill
    <3>2. process'[c] # "running" /\ (command[c].exited => process'[c] = "gone")
      <4>1. CASE Commands!Active(c)
        <5>1. process' = [process EXCEPT ![c] = IF process[c] = "running" THEN "gone" ELSE process[c]]
          BY <2>3, <4>1 DEF Commands!Kill
        <5>2. process'[c] = IF process[c] = "running" THEN "gone" ELSE process[c]
          BY <1>1, <5>1
        <5> QED BY <1>1, <5>2 DEF CommandOK
      <4>2. CASE ~Commands!Active(c)
        BY <1>1, <2>1, <2>3, <4>2 DEF Commands!Active, CommandOK
      <4> QED BY <4>1, <4>2
    <3>3. /\ OneCallMoves(c) /\ call'[c].step \in {"terminated", "named"}
          /\ call'[c].background = call[c].background
      BY <1>1, <1>3, <1>4, <2>1, <2>3, <3>1 DEF OneCallMoves, CommandSteps
    <3>4. CommandOK(c)'
      BY <1>1, <2>1, <3>2, <3>3 DEF CommandOK
    <3> QED BY <1>6, <2>3, <3>3, <3>4, CommandStep
  <2>4. CASE Commands!Fault /\ UNCHANGED <<call, process, sessions>>
    <3>1. OneCallMoves(c)
      BY <1>1, <1>3, <2>1, <2>4 DEF OneCallMoves
    <3>2. Commands!Listed(c)' <=> Commands!Listed(c)
      BY <1>2, <2>4 DEF Tabled
    <3>3. CommandOK(c)'
      BY <1>1, <2>1, <2>4, <3>2 DEF CommandOK
    <3> QED BY <1>2, <2>4, <3>1, <3>3, CommandStep
  <2> QED BY <1>16, <2>2, <2>3, <2>4 DEF Commands!Terminate
<1> QED BY <1>7, <1>8, <1>9, <1>10, <1>11, <1>12, <1>13, <1>14, <1>15, <1>16

\* BackgroundIsManageable: a background command the agent was told of can be polled and
\* ended as long as it runs, and what is reported finished or terminated does not run.
THEOREM BackgroundIsManageableHolds ==
  ASSUME CommandBounds, ~StartsOverlap
  PROVE  Commands!Spec => [](Commands!TypeOK /\ Commands!BackgroundIsManageable)
<1>1. Commands!Init => CommandInv
  <2> SUFFICES ASSUME Commands!Init PROVE CommandInv
    OBVIOUS
  <2>1. /\ call = [c \in Calls |-> [step |-> "new", background |-> FALSE]]
        /\ process = [c \in Calls |-> "none"] /\ sessions = <<>>
        /\ command = [c \in Calls |-> Commands!NoCommand] /\ poll = [c \in Calls |-> "none"] /\ faults = 0
    BY DEF Commands!Init
  <2>2. Commands!IsInjective(sessions) /\ sessions \in Seq(Calls) /\ Len(sessions) <= MaxSessions
    BY <2>1 DEF Commands!IsInjective, CommandBounds
  <2>3. Commands!TypeOK
    BY <2>1, <2>2 DEF Commands!TypeOK, Commands!NoCommand, CommandBounds
  <2>4. \A c \in Calls : CommandOK(c)
    BY <2>1 DEF CommandOK, Commands!NoCommand
  <2> QED BY <2>3, <2>4 DEF CommandInv
<1>2. CommandInv /\ [Commands!Next]_Commands!vars => CommandInv'
  <2> SUFFICES ASSUME CommandInv, [Commands!Next]_Commands!vars PROVE CommandInv'
    OBVIOUS
  <2>1. CASE UNCHANGED Commands!vars
    <3>1. Commands!TypeOK'
      BY <2>1 DEF CommandInv, Commands!TypeOK, Commands!vars
    <3>2. \A c \in Calls : CommandOK(c)'
      BY <2>1 DEF CommandInv, CommandOK, Commands!vars, Commands!Listed
    <3> QED BY <3>1, <3>2 DEF CommandInv
  <2>2. CASE Commands!PruneCache
    <3>1. /\ sessions' = <<>> /\ UNCHANGED <<call, process, command, poll, faults>>
          /\ \A c \in Calls : ~(Commands!Listed(c) /\ Commands!Active(c)) /\ ~Commands!InUse(c)
      BY <2>2 DEF Commands!PruneCache
    <3>2. Commands!IsInjective(sessions') /\ sessions' \in Seq(Calls) /\ Len(sessions') <= MaxSessions
      BY <3>1 DEF Commands!IsInjective, CommandBounds
    <3>3. Commands!TypeOK'
      BY <3>1, <3>2 DEF CommandInv, Commands!TypeOK
    <3>4. ASSUME NEW c \in Calls PROVE CommandOK(c)'
      <4>1. CommandOK(c) /\ ~(Commands!Listed(c) /\ Commands!Active(c)) /\ call[c].step # "launch"
        BY <3>1 DEF CommandInv, Commands!InUse, Commands!At
      <4>2. ~(call[c].step = "named" /\ process[c] = "running")
        BY <4>1 DEF CommandOK, Commands!Active
      <4> QED BY <3>1, <4>1, <4>2 DEF CommandOK
    <3> QED BY <3>3, <3>4 DEF CommandInv
  <2> QED BY <2>1, <2>2, CommandNext DEF Commands!Next
<1>3. CommandInv => Commands!TypeOK /\ Commands!BackgroundIsManageable
  BY DEF CommandInv, CommandOK, Commands!BackgroundIsManageable, Commands!Active, Commands!At
<1> QED BY <1>1, <1>2, <1>3, PTL DEF Commands!Spec

-----------------------------------------------------------------------------
(* The commands of the computer tool in the gateway. *)

Reading == Gateway!Idempotent
CommandName == {"move_cursor", "scroll_direction", "right_click", "drag", "type_text"} \cup Reading
Pixel == 0 .. Screen - 1
JobRecord ==
  [call : Nat, at : Nat, command : CommandName, x : Pixel, step : {1, 2},
   again : BOOLEAN, heard : BOOLEAN, cancelled : BOOLEAN]
Stroke == [call : Nat, at : Nat, step : {1, 2}, does : CommandName \cup {"scroll"}, x : Pixel]
CallRecord ==
  [n : Nat, kind : Gateway!Kinds, x : Pixel, program : Seq(CommandName), at : Nat,
   attempt : {0, 1}]
EndedRecord == [kind : Gateway!Kinds, well : BOOLEAN]
LastRecord == [call : Nat, shows : Nat, window : Int, origin : Nat, width : Nat]
GatewayTypes ==
  /\ call \in CallRecord /\ jobs \in Seq(JobRecord) /\ strokes \in Seq(Stroke)
  /\ pointer \in Pixel /\ window \in -1 .. Screen /\ request \in {"full", "window"}
  /\ shot \in 0 .. Len(strokes) /\ ended \in Seq(EndedRecord) /\ last \in LastRecord

\* The command that is sent next, or was sent last.
Current == call.program[call.at]
ProgramOK ==
  IF Gateway!Making
  THEN /\ call.program = Gateway!Commands(call.kind) \o Gateway!Captures(request)
       /\ call.at \in 1 .. Len(call.program) /\ call.n = Len(ended) + 1
       /\ call.attempt = 1 => Current \in Reading
  ELSE call.n = Len(ended)

\* b, a job or a stroke, is of the same call as a or of a later one.
Follows(a, b) == a.call < b.call \/ (a.call = b.call /\ a.at <= b.at /\ a.x = b.x)

\* The jobs of the call that is made are of its current command; only one that reads is
\* sent twice.  A job that is heard is the newest, and only the oldest has begun.
JobOK(i) ==
  LET j == jobs[i]
  IN /\ j.step <= Len(Gateway!DriverCalls(j.command)) /\ j.call <= call.n /\ j.call > last.call
     /\ j.heard => i = Len(jobs) /\ Gateway!Making /\ ~j.cancelled /\ j.call = call.n
     /\ Gateway!Making /\ j.call = call.n => j.at = call.at /\ j.command = Current /\ j.x = call.x
     /\ Gateway!Making /\ call.attempt = 0 => j.heard \/ j.call < call.n
     /\ Gateway!Making /\ call.at > 1 => j.call = call.n
     /\ j.command = "scroll_direction" => i = 1 /\ pointer = j.x
     /\ j.step > 1 \/ j.again => i = 1
JobsOK ==
  /\ \A i \in 1 .. Len(jobs) : JobOK(i)
  /\ \A i, k \in 1 .. Len(jobs) : i < k => Follows(jobs[i], jobs[k])
  /\ Gateway!Making /\ Current = "scroll_direction" => pointer = call.x
\* Strokes follow each other, and every job and the call follow them.
StrokesOK ==
  /\ \A i, k \in 1 .. Len(strokes) : i < k => Follows(strokes[i], strokes[k])
  /\ \A i \in 1 .. Len(strokes), k \in 1 .. Len(jobs) : Follows(strokes[i], jobs[k])
  /\ \A i \in 1 .. Len(strokes) :
       /\ strokes[i].call <= call.n
       /\ Gateway!Making /\ strokes[i].call = call.n =>
            strokes[i].at <= call.at /\ strokes[i].x = call.x
\* The last observation is of the last call that went well, and later than its strokes.
ShotOK ==
  /\ last.call <= Len(ended) /\ last.shows <= Len(strokes)
  /\ \A m \in 1 .. Len(ended) : ended[m].well => m <= last.call
  /\ \A i \in 1 .. Len(strokes) : i > last.shows => strokes[i].call > last.call
  /\ Gateway!Making /\ Current = "get_window_position" => shot = Len(strokes)

\* A job that changes the screen has done so as far as its step says, after what it did
\* before it began again; nothing was done since.
Underway(h) ==
  LET first == Gateway!FirstChange(h.command)
      now == IF h.step > first THEN h.step - first ELSE 0
  IN \E begun \in 0 .. Len(Gateway!DriverCalls(h.command)) - first :
       LET from == Len(strokes) - begun - now
       IN /\ from >= 0 /\ (begun > 0 => h.again)
          /\ Gateway!Of(h.call, h.at) = from + 1 .. Len(strokes)
          /\ \A i \in 1 .. begun : strokes[from + i].step = first + i - 1
          /\ \A i \in 1 .. now : strokes[from + begun + i].step = first + i - 1
\* The commands before the current one are done, also those of calls that are over.
EarlierDone ==
  Gateway!Making => \A at \in DOMAIN Gateway!Commands(call.kind) :
    at < call.at => Gateway!IsDone(call.n, at, Gateway!Commands(call.kind)[at])
NotBegun ==
  Gateway!Making /\ ~Gateway!Heard /\ call.attempt = 0 => Gateway!Of(call.n, call.at) = {}
HeardIsUnderway ==
  \A i \in 1 .. Len(jobs) :
    jobs[i].heard /\ jobs[i].command \notin Reading => Underway(jobs[i])
DoneOK == Gateway!DoneInFull /\ EarlierDone /\ NotBegun /\ HeardIsUnderway

\* The image is of the screen, or of a window that begins on it.
Shows(w) ==
  /\ last.window = w /\ last.origin = (w * Source) \div Screen
  /\ last.width =
       Gateway!Min({Gateway!CeilDiv(WindowSize * Source, Screen), Source - last.origin})
ImageOK ==
  /\ Gateway!Making /\ call.kind \in Gateway!Pointing => last # Gateway!NoObservation
  /\ \/ last = Gateway!NoObservation
     \/ last.window = -1 /\ last.origin = 0 /\ last.width = Source
     \/ \E w \in Pixel : Shows(w)
GatewayInv == GatewayTypes /\ ProgramOK /\ JobsOK /\ StrokesOK /\ ShotOK /\ DoneOK /\ ImageOK

-----------------------------------------------------------------------------
(* Programs and calls of the driver. *)

LEMMA ProgramIs ==
  ASSUME NEW kind \in Gateway!Kinds, NEW r \in {"full", "window"}
  PROVE  LET cs == Gateway!Commands(kind)
             p == cs \o Gateway!Captures(r)
         IN /\ p \in Seq(CommandName) /\ Len(p) > Len(cs) /\ Len(cs) \in Nat /\ DOMAIN cs = 1 .. Len(cs)
            /\ \A at \in 1 .. Len(cs) : p[at] = cs[at] /\ cs[at] \notin Reading
            /\ \A at \in 1 .. Len(p) : at > Len(cs) => p[at] \in Reading
            /\ \A at \in 1 .. Len(p) :
                 /\ p[at] = "scroll_direction" => at > 1 /\ p[at - 1] = "move_cursor"
                 /\ p[at] = "get_window_position" => at > 1 /\ p[at - 1] = "get_desktop_state"
            /\ p[Len(p)] = IF r = "window" THEN "get_window_position" ELSE "get_desktop_state"
<1> DEFINE cs == Gateway!Commands(kind)
           rest == Gateway!Captures(r)
           p == cs \o rest
<1>1. /\ rest \in Seq(Reading) /\ Len(rest) \in 1 .. 2 /\ rest[1] = "get_desktop_state"
      /\ Len(rest) = 2 => rest[2] = "get_window_position"
      /\ Len(rest) = IF r = "window" THEN 2 ELSE 1
  <2>1. CASE r = "window"
    <3>1. rest = <<"get_desktop_state", "get_window_position">>
      BY <2>1 DEF Gateway!Captures
    <3> HIDE DEF rest
    <3> QED BY <2>1, <3>1 DEF Reading, Gateway!Idempotent
  <2>2. CASE r # "window"
    <3>1. rest = <<"get_desktop_state">>
      BY <2>2 DEF Gateway!Captures
    <3> HIDE DEF rest
    <3> QED BY <2>2, <3>1 DEF Reading, Gateway!Idempotent
  <2> QED BY <2>1, <2>2
<1>2. /\ cs \in Seq(CommandName) /\ Len(cs) \in 0 .. 2
      /\ DOMAIN cs = 1 .. Len(cs)
      /\ \A at \in 1 .. Len(cs) : cs[at] \notin Reading /\ cs[at] \notin {"get_desktop_state", "get_window_position"}
      /\ \A at \in 1 .. Len(cs) : cs[at] = "scroll_direction" => at = 2 /\ cs[1] = "move_cursor"
  <2>1. CASE kind = "scroll"
    BY <2>1 DEF Gateway!Commands, CommandName, Reading, Gateway!Idempotent
  <2>2. CASE kind = "double_click"
    BY <2>2 DEF Gateway!Commands, CommandName, Reading, Gateway!Idempotent
  <2>3. CASE kind = "drag"
    BY <2>3 DEF Gateway!Commands, CommandName, Reading, Gateway!Idempotent
  <2>4. CASE kind = "type"
    BY <2>4 DEF Gateway!Commands, CommandName, Reading, Gateway!Idempotent
  <2>5. CASE kind \in {"screenshot", "screenshot_window"}
    <3>1. cs = << >>
      BY <2>5 DEF Gateway!Commands
    <3> QED BY <3>1
  <2> QED BY <2>1, <2>2, <2>3, <2>4, <2>5 DEF Gateway!Kinds, Gateway!Pointing
<1> HIDE DEF cs, rest
<1>3. /\ p \in Seq(CommandName) /\ Len(p) = Len(cs) + Len(rest)
      /\ \A i \in 1 .. Len(cs) : p[i] = cs[i]
      /\ \A i \in 1 .. Len(rest) : p[Len(cs) + i] = rest[i]
  <2>1. rest \in Seq(CommandName) /\ cs \in Seq(CommandName)
    <3>1. Reading \subseteq CommandName
      BY DEF CommandName
    <3> QED BY <1>1, <1>2, <3>1
  <2> QED BY ONLY <2>1
<1> HIDE DEF p
<1>4. \A i \in 1 .. Len(rest) : rest[i] \in Reading /\ rest[i] # "scroll_direction"
  BY <1>1 DEF Reading, Gateway!Idempotent
<1>5. \A at \in 1 .. Len(p) : at > Len(cs) => at - Len(cs) \in 1 .. Len(rest) /\ p[at] = rest[at - Len(cs)]
  BY <1>1, <1>2, <1>3
<1>6. \A at \in 1 .. Len(p) : at > Len(cs) => p[at] \in Reading
  BY <1>4, <1>5
<1>7. ASSUME NEW at \in 1 .. Len(p), p[at] = "scroll_direction"
      PROVE  at > 1 /\ p[at - 1] = "move_cursor"
  <2>1. at \in 1 .. Len(cs)
    <3>1. ~(at > Len(cs))
      BY <1>4, <1>5, <1>7
    <3> QED BY <1>2, <3>1
  <2> QED BY <1>2, <1>3, <1>7, <2>1
<1>8. ASSUME NEW at \in 1 .. Len(p), p[at] = "get_window_position"
      PROVE  at > 1 /\ p[at - 1] = "get_desktop_state"
  <2>1. at > Len(cs)
    BY <1>2, <1>3, <1>8
  <2>2. at - Len(cs) = 2 /\ 1 \in 1 .. Len(rest)
    BY <1>1, <1>2, <1>5, <1>8, <2>1
  <2>3. p[Len(cs) + 1] = "get_desktop_state" /\ at - 1 = Len(cs) + 1
    BY <1>1, <1>2, <1>3, <2>2
  <2> QED BY <1>2, <2>1, <2>2, <2>3
<1>9. p[Len(p)] = IF r = "window" THEN "get_window_position" ELSE "get_desktop_state"
  <2>1. Len(rest) \in 1 .. Len(rest) /\ Len(p) = Len(cs) + Len(rest)
    BY <1>1, <1>3
  <2> QED BY <1>1, <1>3, <2>1
<1>10. Len(p) > Len(cs) /\ Len(cs) \in Nat
  BY <1>1, <1>2, <1>3
<1> QED BY <1>2, <1>3, <1>6, <1>7, <1>8, <1>9, <1>10 DEF cs, rest, p

\* What the driver is asked, and what of that changes the screen.
LEMMA DriverIs ==
  ASSUME NEW c \in CommandName
  PROVE  LET ds == Gateway!DriverCalls(c)
             first == Gateway!FirstChange(c)
         IN /\ Len(ds) \in {1, 2} /\ DOMAIN ds = 1 .. Len(ds) /\ first \in 1 .. 2
            /\ \A s \in 1 .. Len(ds) :
                 /\ ds[s] \in CommandName \cup {"scroll", "cursor"}
                 /\ ds[s] = "scroll" => c = "scroll_direction"
                 /\ c = "scroll_direction" => ds[s] \in {"cursor", "scroll"}
                 /\ ds[s] = "cursor" => c = "scroll_direction"
                 /\ c \in Reading => ds[s] = c /\ Len(ds) = 1
                 /\ c \notin Reading => (ds[s] \in Gateway!Reads <=> s < first)
                                        /\ ds[s] \notin {"get_desktop_state", "get_window_position"}
                 /\ ds[s] \in {"get_desktop_state", "get_window_position"} => c = ds[s]
            /\ c \notin Reading => first <= Len(ds)
<1> DEFINE ds == Gateway!DriverCalls(c)
           first == Gateway!FirstChange(c)
<1>1. first = IF ds[1] \in Gateway!Reads THEN 2 ELSE 1
  BY DEF Gateway!FirstChange
<1>2. CASE c = "drag"
  <2>1. ds = <<"drag", "drag">>
    BY <1>2 DEF Gateway!DriverCalls
  <2> HIDE DEF ds, first
  <2> QED BY <1>1, <1>2, <2>1
    DEF CommandName, Reading, Gateway!Idempotent, Gateway!Reads, ds, first
<1>3. CASE c = "scroll_direction"
  <2>1. ds = <<"cursor", "scroll">>
    BY <1>3 DEF Gateway!DriverCalls
  <2> HIDE DEF ds, first
  <2> QED BY <1>1, <1>3, <2>1
    DEF CommandName, Reading, Gateway!Idempotent, Gateway!Reads, ds, first
<1>4. CASE c \notin {"drag", "scroll_direction"}
  <2>1. ds = <<c>> /\ Len(ds) = 1 /\ DOMAIN ds = 1 .. 1 /\ ds[1] = c
    BY <1>4 DEF Gateway!DriverCalls
  <2>2. c \in Gateway!Reads <=> c \in Reading
    BY DEF CommandName, Reading, Gateway!Idempotent, Gateway!Reads
  <2>3. c # "scroll" /\ c # "cursor"
    BY DEF CommandName, Reading, Gateway!Idempotent
  <2>4. c \notin Reading => c \notin {"get_desktop_state", "get_window_position"}
    BY DEF Reading, Gateway!Idempotent
  <2> HIDE DEF ds, first
  <2> QED BY <1>1, <1>4, <2>1, <2>2, <2>3, <2>4 DEF ds, first
<1> QED BY <1>2, <1>3, <1>4

-----------------------------------------------------------------------------
(* Jobs that leave, are cancelled or are not heard any more. *)

\* The jobs are some of those before, in their order; g says which.
Selects(g) ==
  /\ jobs' \in Seq(JobRecord) /\ g \in [1 .. Len(jobs') -> 1 .. Len(jobs)]
  /\ \A i, k \in 1 .. Len(jobs') : i < k => g[i] < g[k]
  /\ \A i \in 1 .. Len(jobs') :
       /\ i <= g[i]
       /\ jobs'[i].call = jobs[g[i]].call /\ jobs'[i].at = jobs[g[i]].at
       /\ jobs'[i].command = jobs[g[i]].command /\ jobs'[i].x = jobs[g[i]].x
       /\ jobs'[i].step <= Len(Gateway!DriverCalls(jobs'[i].command))
       /\ jobs'[i].step > 1 \/ jobs'[i].again => i = 1
       /\ jobs'[i].heard => jobs[g[i]].heard /\ ~jobs'[i].cancelled
SameHeard(g) == \A i \in 1 .. Len(jobs') : jobs'[i].heard <=> jobs[g[i]].heard

LEMMA NeverFirst ==
  ASSUME GatewayInv, Gateway!Making
  PROVE  /\ Current = "scroll_direction" => call.at > 1 /\ call.program[call.at - 1] = "move_cursor"
         /\ Current = "get_window_position" =>
              call.at > 1 /\ call.program[call.at - 1] = "get_desktop_state"
         /\ call.at \in 1 .. Len(call.program) /\ Current \in CommandName
<1>1. /\ call \in CallRecord /\ request \in {"full", "window"} /\ ProgramOK
  BY DEF GatewayInv, GatewayTypes
<1>2. /\ call.kind \in Gateway!Kinds /\ call.program \in Seq(CommandName)
      /\ call.program = Gateway!Commands(call.kind) \o Gateway!Captures(request)
      /\ call.at \in 1 .. Len(call.program)
  BY <1>1 DEF ProgramOK, CallRecord
<1>3. call.program[call.at] \in CommandName
  BY <1>2
<1>4. \A at \in 1 .. Len(call.program) :
        /\ call.program[at] = "scroll_direction" => at > 1 /\ call.program[at - 1] = "move_cursor"
        /\ call.program[at] = "get_window_position" =>
             at > 1 /\ call.program[at - 1] = "get_desktop_state"
  <2> DEFINE p == Gateway!Commands(call.kind) \o Gateway!Captures(request)
  <2>1. \A at \in 1 .. Len(p) :
          /\ p[at] = "scroll_direction" => at > 1 /\ p[at - 1] = "move_cursor"
          /\ p[at] = "get_window_position" => at > 1 /\ p[at - 1] = "get_desktop_state"
    BY <1>1, <1>2, ProgramIs, Zenon
  <2>2. call.program = p
    BY <1>2
  <2> HIDE DEF p
  <2> QED BY <2>1, <2>2
<1> QED BY <1>2, <1>3, <1>4 DEF Current

LEMMA JobsKept ==
  ASSUME GatewayInv, NEW g, Selects(g), SameHeard(g), UNCHANGED <<call, last>>,
         pointer' = pointer \/ (Len(jobs) > 0 /\ jobs[1].command # "scroll_direction")
  PROVE  JobsOK'
<1>1. JobsOK /\ Len(jobs) \in Nat /\ Len(jobs') \in Nat /\ jobs \in Seq(JobRecord)
  BY DEF GatewayInv, GatewayTypes, Selects
<1>2. (Gateway!Making' <=> Gateway!Making) /\ Current' = Current
  BY DEF Gateway!Making, Current
<1>3. ASSUME NEW i \in 1 .. Len(jobs') PROVE JobOK(i)'
  <2> DEFINE o == g[i]
  <2>1. /\ o \in 1 .. Len(jobs) /\ i <= o /\ i \in Nat /\ o \in Nat
        /\ jobs'[i].call = jobs[o].call /\ jobs'[i].at = jobs[o].at
        /\ jobs'[i].command = jobs[o].command /\ jobs'[i].x = jobs[o].x
        /\ jobs'[i].step <= Len(Gateway!DriverCalls(jobs'[i].command))
        /\ jobs'[i].step > 1 \/ jobs'[i].again => i = 1
        /\ (jobs'[i].heard <=> jobs[o].heard) /\ (jobs'[i].heard => ~jobs'[i].cancelled)
    BY <1>1 DEF Selects, SameHeard
  <2>2. jobs'[i].heard => i = Len(jobs')
    <3> SUFFICES ASSUME jobs'[i].heard, i # Len(jobs') PROVE FALSE
      OBVIOUS
    <3>1. o = Len(jobs)
      BY <1>1, <2>1 DEF JobsOK, JobOK
    <3>2. Len(jobs') \in 1 .. Len(jobs') /\ i < Len(jobs')
      BY <1>1
    <3>3. o < g[Len(jobs')] /\ g[Len(jobs')] \in 1 .. Len(jobs)
      BY <3>2 DEF Selects
    <3> QED BY <1>1, <3>1, <3>3
  <2> HIDE DEF o
  <2>3. jobs'[i].command = "scroll_direction" => i = 1 /\ pointer' = jobs'[i].x
    <3> SUFFICES ASSUME jobs'[i].command = "scroll_direction" PROVE i = 1 /\ pointer' = jobs'[i].x
      OBVIOUS
    <3>1. o = 1 /\ pointer = jobs[o].x
      BY <1>1, <2>1 DEF JobsOK, JobOK
    <3> QED BY <2>1, <3>1
  <2>4. JobOK(o)
    BY <1>1, <2>1 DEF JobsOK
  <2> QED BY <1>2, <2>1, <2>2, <2>3, <2>4 DEF JobOK
<1>4. ASSUME NEW i \in 1 .. Len(jobs'), NEW k \in 1 .. Len(jobs'), i < k
      PROVE  Follows(jobs'[i], jobs'[k])
  <2>1. g[i] \in 1 .. Len(jobs) /\ g[k] \in 1 .. Len(jobs) /\ g[i] < g[k]
    BY <1>4 DEF Selects
  <2>2. Follows(jobs[g[i]], jobs[g[k]])
    BY <1>1, <2>1 DEF JobsOK
  <2> QED BY <2>2 DEF Selects, Follows
<1>5. Gateway!Making /\ Current = "scroll_direction" => pointer' = call.x
  <2> SUFFICES ASSUME Gateway!Making, Current = "scroll_direction", pointer' # pointer PROVE FALSE
    BY <1>1 DEF JobsOK
  <2>1. 1 \in 1 .. Len(jobs) /\ jobs[1].command # "scroll_direction"
    BY <1>1
  <2>2. jobs[1].call = call.n
    BY <1>1, <2>1, NeverFirst DEF JobsOK, JobOK
  <2> QED BY <1>1, <2>1, <2>2 DEF JobsOK, JobOK
<1> QED BY <1>2, <1>3, <1>4, <1>5 DEF JobsOK

LEMMA StrokesKept ==
  ASSUME GatewayInv, NEW g, Selects(g), UNCHANGED <<call, strokes>> PROVE StrokesOK'
<1>1. StrokesOK /\ (Gateway!Making' <=> Gateway!Making)
  BY DEF GatewayInv, Gateway!Making
<1>2. ASSUME NEW i \in 1 .. Len(strokes), NEW k \in 1 .. Len(jobs')
      PROVE  Follows(strokes[i], jobs'[k])
  <2>1. g[k] \in 1 .. Len(jobs)
    BY DEF Selects
  <2>2. Follows(strokes[i], jobs[g[k]])
    BY <1>1, <2>1 DEF StrokesOK
  <2> QED BY <2>2 DEF Selects, Follows
<1> QED BY <1>1, <1>2 DEF StrokesOK

LEMMA DoneSame == UNCHANGED strokes =>
  /\ \A n, at, c : Gateway!IsDone(n, at, c)' <=> Gateway!IsDone(n, at, c)
  /\ \A n, at : Gateway!Of(n, at)' = Gateway!Of(n, at)
BY DEF Gateway!IsDone, Gateway!Of

LEMMA UnderwayKept ==
  ASSUME NEW h, Underway(h), UNCHANGED strokes, NEW i,
         jobs'[i].call = h.call, jobs'[i].at = h.at, jobs'[i].command = h.command,
         jobs'[i].step = h.step, jobs'[i].again = h.again
  PROVE  Underway(jobs[i])'
<1> DEFINE first == Gateway!FirstChange(h.command)
           now == IF h.step > first THEN h.step - first ELSE 0
<1>1. PICK begun \in 0 .. Len(Gateway!DriverCalls(h.command)) - first :
        LET from == Len(strokes) - begun - now
        IN /\ from >= 0 /\ (begun > 0 => h.again)
           /\ Gateway!Of(h.call, h.at) = from + 1 .. Len(strokes)
           /\ \A k \in 1 .. begun : strokes[from + k].step = first + k - 1
           /\ \A k \in 1 .. now : strokes[from + begun + k].step = first + k - 1
  BY DEF Underway
<1>2. /\ Gateway!FirstChange(jobs[i].command)' = first
      /\ Gateway!DriverCalls(jobs[i].command)' = Gateway!DriverCalls(h.command)
      /\ jobs[i].step' = h.step /\ (jobs[i].again' <=> h.again)
  BY DEF Gateway!FirstChange, Gateway!DriverCalls
<1>3. Gateway!Of(jobs[i].call, jobs[i].at)' = Gateway!Of(h.call, h.at)
  BY DEF Gateway!Of
<1>4. strokes' = strokes /\ jobs[i].call' = h.call /\ jobs[i].command' = h.command
  OBVIOUS
<1> HIDE DEF first
<1> QED BY ONLY <1>1, <1>2, <1>3, <1>4 DEF Underway

LEMMA DoneKept ==
  ASSUME Gateway!DoneInFull, UNCHANGED <<strokes, ended>> PROVE Gateway!DoneInFull'
BY DoneSame DEF Gateway!DoneInFull

LEMMA EarlierKept ==
  ASSUME EarlierDone, Gateway!Making, UNCHANGED strokes,
         call'.n = call.n, call'.kind = call.kind, call'.at = call.at
  PROVE  EarlierDone'
<1>1. Gateway!Commands(call.kind)' = Gateway!Commands(call.kind)
  BY DEF Gateway!Commands
<1> SUFFICES ASSUME NEW at \in DOMAIN Gateway!Commands(call.kind), at < call.at
             PROVE  Gateway!IsDone(call.n, at, Gateway!Commands(call.kind)[at])'
  BY <1>1 DEF EarlierDone
<1>2. Gateway!IsDone(call.n, at, Gateway!Commands(call.kind)[at])
  BY DEF EarlierDone
<1> QED BY <1>1, <1>2 DEF Gateway!IsDone, Gateway!Of

\* Nothing is done, and who is heard is heard on.
LEMMA QuietKeeps ==
  ASSUME GatewayInv, NEW g, Selects(g), SameHeard(g), Gateway!Heard => Gateway!Heard',
         \A i \in 1 .. Len(jobs') : jobs'[i].heard =>
           jobs'[i].step = jobs[g[i]].step /\ jobs'[i].again = jobs[g[i]].again,
         UNCHANGED <<call, strokes, last, ended, request>>,
         pointer' \in Pixel, window' \in -1 .. Screen,
         pointer' = pointer \/ (Len(jobs) > 0 /\ jobs[1].command # "scroll_direction"),
         shot' = shot \/ shot' = Len(strokes)
  PROVE  GatewayInv'
<1>1. GatewayTypes /\ ProgramOK /\ ShotOK /\ DoneOK /\ ImageOK
  BY DEF GatewayInv
<1>2. (Gateway!Making' <=> Gateway!Making) /\ Current' = Current
  BY DEF Gateway!Making, Current
<1>3. GatewayTypes'
  <2>1. Len(strokes) \in 0 .. Len(strokes)
    BY <1>1 DEF GatewayTypes
  <2> QED BY <1>1, <2>1 DEF GatewayTypes, Selects
<1>4. ProgramOK' /\ ShotOK' /\ ImageOK'
  <2>1. ProgramOK'
    BY <1>1, <1>2 DEF ProgramOK
  <2>2. ShotOK'
    BY <1>1, <1>2 DEF ShotOK
  <2>3. ImageOK'
    BY <1>1, <1>2 DEF ImageOK, Shows
  <2> QED BY <2>1, <2>2, <2>3
<1>5. JobsOK' /\ StrokesOK'
  BY JobsKept, StrokesKept
<1>6. HeardIsUnderway'
  <2> SUFFICES ASSUME NEW i \in 1 .. Len(jobs'), jobs'[i].heard, jobs'[i].command \notin Reading
               PROVE  Underway(jobs[i])'
    BY DEF HeardIsUnderway
  <2> DEFINE h == jobs[g[i]]
  <2>1. g[i] \in 1 .. Len(jobs)
    BY DEF Selects
  <2>2. /\ h.heard /\ h.command \notin Reading
        /\ jobs'[i].call = h.call /\ jobs'[i].at = h.at /\ jobs'[i].command = h.command
        /\ jobs'[i].step = h.step /\ jobs'[i].again = h.again
    BY DEF Selects, SameHeard
  <2>3. Underway(h)
    BY <1>1, <2>1, <2>2 DEF DoneOK, HeardIsUnderway
  <2>4. UNCHANGED strokes
    OBVIOUS
  <2> HIDE DEF h
  <2> QED BY ONLY <2>2, <2>3, <2>4, UnderwayKept, Zenon
<1>7. DoneOK'
  <2>1. Gateway!DoneInFull'
    BY <1>1, DoneSame DEF DoneOK, Gateway!DoneInFull
  <2>2. EarlierDone'
    <3>1. EarlierDone /\ UNCHANGED <<call, strokes>>
      BY <1>1 DEF DoneOK
    <3>2. CASE Gateway!Making
      BY <3>1, <3>2, EarlierKept
    <3>3. CASE ~Gateway!Making
      BY ONLY <3>1, <3>3 DEF EarlierDone, Gateway!Making
    <3> QED BY <3>2, <3>3
  <2>3. NotBegun'
    <3>1. NotBegun /\ UNCHANGED <<call, strokes>> /\ (Gateway!Heard => Gateway!Heard')
      BY <1>1 DEF DoneOK
    <3> QED BY ONLY <3>1 DEF NotBegun, Gateway!Of, Gateway!Making
  <2> QED BY <1>6, <2>1, <2>2, <2>3 DEF DoneOK
<1> QED BY <1>3, <1>4, <1>5, <1>7 DEF GatewayInv

\* The call is answered with a failure: what it sent is done or not, and not heard.
LEMMA FailedKeeps ==
  ASSUME Gateway!GatewayAssumption, GatewayInv, Gateway!Making, Gateway!CallFails, NEW g, Selects(g),
         \A i \in 1 .. Len(jobs') : ~jobs'[i].heard,
         UNCHANGED <<strokes, pointer, shot, request>>, window' \in -1 .. Screen
  PROVE  GatewayInv'
<1>1. GatewayTypes /\ ProgramOK /\ JobsOK /\ StrokesOK /\ ShotOK /\ DoneOK /\ ImageOK
  BY DEF GatewayInv
<1> DEFINE e == [kind |-> call.kind, well |-> FALSE]
<1>2. /\ ended' = Append(ended, e) /\ last' = last /\ call' = [Gateway!Idle EXCEPT !.n = call.n]
  BY DEF Gateway!CallFails, Gateway!EndCall
<1>3. /\ call' \in CallRecord /\ ~Gateway!Making' /\ call'.n = call.n
  <2>1. 0 \in Pixel /\ call.n \in Nat
    <3>1. call \in CallRecord
      BY <1>1 DEF GatewayTypes
    <3>2. 0 \in Pixel
      BY DEF Pixel, Gateway!GatewayAssumption
    <3>3. call.n \in Nat
      BY ONLY <3>1 DEF CallRecord
    <3> QED BY <3>2, <3>3
  <2>2. call' = [n |-> call.n, kind |-> "type", x |-> 0, program |-> <<>>, at |-> 1, attempt |-> 0]
    BY <1>2 DEF Gateway!Idle
  <2>3. <<>> \in Seq(CommandName) /\ "type" \in Gateway!Kinds
    BY DEF Gateway!Kinds
  <2> QED BY <2>1, <2>2, <2>3 DEF CallRecord, Gateway!Making
<1>4. e \in EndedRecord /\ e.well = FALSE /\ ended \in Seq(EndedRecord)
  BY <1>1 DEF GatewayTypes, EndedRecord, CallRecord
<1> HIDE DEF e
<1>5. /\ ended' \in Seq(EndedRecord) /\ Len(ended') = Len(ended) + 1 /\ Len(ended) \in Nat
      /\ \A m \in 1 .. Len(ended) : ended'[m] = ended[m]
      /\ ended'[Len(ended) + 1] = e
  BY <1>2, <1>4
<1>6. GatewayTypes'
  BY <1>1, <1>2, <1>3, <1>5 DEF GatewayTypes, Selects
<1>7. ProgramOK'
  BY <1>1, <1>3, <1>5 DEF ProgramOK
<1>8. JobsOK'
  <2>1. ASSUME NEW i \in 1 .. Len(jobs') PROVE JobOK(i)'
    <3> DEFINE o == g[i]
    <3>1. /\ o \in 1 .. Len(jobs) /\ i <= o /\ i \in Nat /\ o \in Nat /\ i >= 1
          /\ jobs'[i].call = jobs[o].call
          /\ jobs'[i].command = jobs[o].command /\ jobs'[i].x = jobs[o].x
          /\ jobs'[i].step <= Len(Gateway!DriverCalls(jobs'[i].command))
          /\ jobs'[i].step > 1 \/ jobs'[i].again => i = 1
      BY <1>1 DEF Selects
    <3> HIDE DEF o
    <3>2. JobOK(o)
      BY <1>1, <3>1 DEF JobsOK
    <3> QED BY <1>2, <1>3, <3>1, <3>2 DEF JobOK
  <2>2. ASSUME NEW i \in 1 .. Len(jobs'), NEW k \in 1 .. Len(jobs'), i < k
        PROVE  Follows(jobs'[i], jobs'[k])
    <3>1. g[i] \in 1 .. Len(jobs) /\ g[k] \in 1 .. Len(jobs) /\ g[i] < g[k]
      BY <2>2 DEF Selects
    <3>2. Follows(jobs[g[i]], jobs[g[k]])
      BY <1>1, <3>1 DEF JobsOK
    <3> QED BY <3>2 DEF Selects, Follows
  <2> QED BY <1>3, <2>1, <2>2 DEF JobsOK
<1>9. StrokesOK'
  <2>1. ASSUME NEW i \in 1 .. Len(strokes), NEW k \in 1 .. Len(jobs')
        PROVE  Follows(strokes[i], jobs'[k])
    <3>1. g[k] \in 1 .. Len(jobs)
      BY DEF Selects
    <3>2. Follows(strokes[i], jobs[g[k]])
      BY <1>1, <3>1 DEF StrokesOK
    <3> QED BY <3>2 DEF Selects, Follows
  <2> QED BY <1>1, <1>3, <2>1 DEF StrokesOK
<1>10. ShotOK'
  <2>1. last.call \in Nat
    BY <1>1 DEF GatewayTypes, LastRecord
  <2>2. \A m \in 1 .. Len(ended') : ended'[m].well => m <= last.call
    BY <1>1, <1>4, <1>5 DEF ShotOK
  <2> QED BY <1>1, <1>2, <1>3, <1>5, <2>1, <2>2 DEF ShotOK
<1>11. DoneOK'
  <2>1. ASSUME NEW n \in DOMAIN ended', ended'[n].well
        PROVE  n \in DOMAIN ended /\ ended'[n] = ended[n]
    BY <1>4, <1>5, <2>1
  <2>2. Gateway!DoneInFull'
    BY <1>1, <2>1, DoneSame DEF DoneOK, Gateway!DoneInFull
  <2> QED BY <1>3, <2>2 DEF DoneOK, EarlierDone, NotBegun, HeardIsUnderway
<1>12. ImageOK'
  BY <1>1, <1>2, <1>3 DEF ImageOK, Shows
<1> QED BY <1>6, <1>7, <1>8, <1>9, <1>10, <1>11, <1>12 DEF GatewayInv

\* A list whose element k is taken out.
LEMMA TakenOut ==
  ASSUME NEW S, NEW s \in Seq(S), NEW k \in 1 .. Len(s)
  PROVE  /\ Gateway!RemoveAt(s, k) \in Seq(S) /\ Len(Gateway!RemoveAt(s, k)) = Len(s) - 1
         /\ \A i \in 1 .. Len(s) - 1 : Gateway!RemoveAt(s, k)[i] = IF i < k THEN s[i] ELSE s[i + 1]
<1> DEFINE u == SubSeq(s, 1, k - 1)
           v == SubSeq(s, k + 1, Len(s))
           t == u \o v
<1>1. Len(s) \in Nat
  OBVIOUS
<1>2. /\ u \in Seq(S) /\ Len(u) = k - 1
      /\ \A i \in 1 .. k - 1 : u[i] = s[i]
  OBVIOUS
<1>3. /\ v \in Seq(S) /\ Len(v) = Len(s) - k
      /\ \A i \in 1 .. Len(s) - k : v[i] = s[k + i]
  OBVIOUS
<1>4. Gateway!RemoveAt(s, k) = t
  BY DEF Gateway!RemoveAt
<1> HIDE DEF u, v
<1>5. /\ t \in Seq(S) /\ Len(t) = Len(u) + Len(v)
      /\ \A i \in 1 .. Len(u) : t[i] = u[i]
      /\ \A i \in 1 .. Len(v) : t[Len(u) + i] = v[i]
  <2>1. u \in Seq(S) /\ v \in Seq(S)
    BY <1>2, <1>3
  <2> QED BY ONLY <2>1
<1> HIDE DEF t
<1>6. /\ t \in Seq(S) /\ Len(t) = Len(s) - 1
      /\ \A i \in 1 .. k - 1 : t[i] = u[i]
      /\ \A i \in 1 .. Len(s) - k : t[k - 1 + i] = v[i]
  <2>1. Len(u) + Len(v) = Len(s) - 1
    BY <1>1, <1>2, <1>3
  <2> QED BY <1>2, <1>3, <1>5, <2>1, Zenon
<1>7. ASSUME NEW i \in 1 .. Len(t), i < k PROVE t[i] = s[i]
  BY <1>1, <1>2, <1>6, <1>7
<1>8. ASSUME NEW i \in 1 .. Len(t), ~(i < k) PROVE t[i] = s[i + 1]
  <2> DEFINE n == i - (k - 1)
  <2>1. n \in 1 .. Len(s) - k /\ k + n = i + 1 /\ k - 1 + n = i
    BY <1>1, <1>6, <1>8
  <2> HIDE DEF n
  <2>2. v[n] = s[k + n] /\ t[k - 1 + n] = v[n]
    BY <1>3, <1>6, <2>1
  <2> QED BY <2>1, <2>2
<1> QED BY <1>4, <1>6, <1>7, <1>8

LEMMA SameSelects ==
  ASSUME GatewayInv, jobs' \in Seq(JobRecord), Len(jobs') = Len(jobs),
         \A i \in 1 .. Len(jobs) :
           /\ jobs'[i].call = jobs[i].call /\ jobs'[i].at = jobs[i].at
           /\ jobs'[i].command = jobs[i].command /\ jobs'[i].x = jobs[i].x
           /\ jobs'[i].step = jobs[i].step /\ jobs'[i].again = jobs[i].again
           /\ jobs'[i].heard => jobs[i].heard /\ ~jobs'[i].cancelled
  PROVE  \E g : Selects(g) /\ \A i \in 1 .. Len(jobs') : g[i] = i
<1> DEFINE g == [i \in 1 .. Len(jobs') |-> i]
<1>1. /\ g \in [1 .. Len(jobs') -> 1 .. Len(jobs)] /\ Len(jobs) \in Nat
      /\ \A i \in 1 .. Len(jobs') : g[i] = i
  BY DEF GatewayInv, GatewayTypes
<1> HIDE DEF g
<1>2. \A i \in 1 .. Len(jobs) : JobOK(i)
  BY DEF GatewayInv, JobsOK
<1>3. Selects(g)
  <2> SUFFICES ASSUME NEW i \in 1 .. Len(jobs')
               PROVE  /\ jobs'[i].step <= Len(Gateway!DriverCalls(jobs'[i].command))
                      /\ jobs'[i].step > 1 \/ jobs'[i].again => i = 1
                      /\ jobs'[i].heard => jobs[i].heard /\ ~jobs'[i].cancelled
    BY <1>1 DEF Selects
  <2> QED BY <1>2 DEF JobOK
<1> QED BY <1>1, <1>3

LEMMA RemovalSelects ==
  ASSUME GatewayInv, NEW k \in 1 .. Len(jobs), jobs' = Gateway!Without(k)
  PROVE  /\ Len(jobs') = Len(jobs) - 1
         /\ \E g : /\ Selects(g) /\ SameHeard(g)
                   /\ \A i \in 1 .. Len(jobs') : jobs'[i] = jobs[g[i]]
                   /\ Gateway!Heard /\ ~jobs[k].heard => Gateway!Heard'
<1> DEFINE g == [i \in 1 .. Len(jobs') |-> IF i < k THEN i ELSE i + 1]
<1>1. jobs \in Seq(JobRecord) /\ Len(jobs) \in Nat /\ k \in Nat
  BY DEF GatewayInv, GatewayTypes
<1>2. /\ jobs' \in Seq(JobRecord) /\ Len(jobs') = Len(jobs) - 1
      /\ \A i \in 1 .. Len(jobs) - 1 : jobs'[i] = IF i < k THEN jobs[i] ELSE jobs[i + 1]
  BY <1>1, TakenOut DEF Gateway!Without
<1>3. /\ g \in [1 .. Len(jobs') -> 1 .. Len(jobs)]
      /\ \A i \in 1 .. Len(jobs') : g[i] = IF i < k THEN i ELSE i + 1
  BY <1>1, <1>2
<1> HIDE DEF g
<1>4. \A i \in 1 .. Len(jobs') : jobs'[i] = jobs[g[i]] /\ i <= g[i]
  BY <1>1, <1>2, <1>3
<1>5. \A i, j \in 1 .. Len(jobs') : i < j => g[i] < g[j]
  BY <1>1, <1>2, <1>3
<1>6. \A i \in 1 .. Len(jobs) : JobOK(i)
  BY DEF GatewayInv, JobsOK
<1>7. Selects(g)
  <2> SUFFICES ASSUME NEW i \in 1 .. Len(jobs')
               PROVE  /\ jobs'[i].step <= Len(Gateway!DriverCalls(jobs'[i].command))
                      /\ jobs'[i].step > 1 \/ jobs'[i].again => i = 1
                      /\ jobs'[i].heard => ~jobs'[i].cancelled
    BY <1>2, <1>3, <1>4, <1>5 DEF Selects
  <2>1. g[i] \in 1 .. Len(jobs) /\ jobs'[i] = jobs[g[i]] /\ i <= g[i] /\ i >= 1
    BY <1>3, <1>4
  <2> QED BY <1>1, <1>6, <2>1 DEF JobOK
<1>8. ASSUME Gateway!Heard, ~jobs[k].heard PROVE Gateway!Heard'
  <2>1. PICK o \in 1 .. Len(jobs) : jobs[o].heard
    BY <1>1, <1>8 DEF Gateway!Heard
  <2>2. o # k /\ o \in Nat
    BY <1>8, <2>1
  <2> DEFINE i == IF o < k THEN o ELSE o - 1
  <2>3. i \in 1 .. Len(jobs') /\ (IF i < k THEN i ELSE i + 1) = o
    BY <1>1, <1>2, <2>1, <2>2
  <2> HIDE DEF i
  <2>4. jobs'[i] = jobs[o]
    BY <1>2, <2>3
  <2> QED BY <1>2, <2>1, <2>3, <2>4 DEF Gateway!Heard
<1>9. SameHeard(g)
  BY <1>4 DEF SameHeard
<1> QED BY <1>2, <1>4, <1>7, <1>8, <1>9

LEMMA CancelKeeps == ASSUME GatewayInv, NEW i, Gateway!Cancel(i) PROVE GatewayInv'
<1>1. /\ i \in 1 .. Len(jobs) /\ jobs[i].cancelled /\ jobs' = Gateway!Without(i)
      /\ UNCHANGED <<call, strokes, pointer, window, request, shot, last, ended>>
  BY DEF Gateway!Cancel, GatewayInv, GatewayTypes
<1>2. ~jobs[i].heard
  BY <1>1 DEF GatewayInv, JobsOK, JobOK
<1>3. PICK g : /\ Selects(g) /\ SameHeard(g)
               /\ \A j \in 1 .. Len(jobs') : jobs'[j] = jobs[g[j]]
               /\ Gateway!Heard => Gateway!Heard'
  BY <1>1, <1>2, RemovalSelects
<1>4. pointer' \in Pixel /\ window' \in -1 .. Screen
  BY <1>1 DEF GatewayInv, GatewayTypes
<1> QED BY <1>1, <1>3, <1>4, QuietKeeps

\* The driver's session ends, or the window moves.
LEMMA ElsewhereKeeps ==
  ASSUME GatewayInv, UNCHANGED <<call, jobs, strokes, pointer, request, shot, last, ended>>,
         window' \in -1 .. Screen
  PROVE  GatewayInv'
<1>1. /\ GatewayTypes /\ jobs' \in Seq(JobRecord)
      /\ \A i \in 1 .. Len(jobs) : JobOK(i)
  BY DEF GatewayInv, GatewayTypes, JobsOK
<1>2. PICK g : Selects(g) /\ \A i \in 1 .. Len(jobs') : g[i] = i
  BY <1>1, SameSelects DEF JobOK
<1>3. SameHeard(g) /\ (Gateway!Heard => Gateway!Heard')
  BY <1>2 DEF SameHeard, Gateway!Heard
<1>4. pointer' \in Pixel
  BY <1>1 DEF GatewayTypes
<1> QED BY <1>2, <1>3, <1>4, QuietKeeps

LEMMA TakesTooLongKeeps ==
  ASSUME Gateway!GatewayAssumption, GatewayInv, NEW i, Gateway!TakesTooLong(i) PROVE GatewayInv'
<1>1. /\ i \in 1 .. Len(jobs) /\ jobs \in Seq(JobRecord) /\ Len(jobs) \in Nat
      /\ jobs' = [jobs EXCEPT ![i].cancelled = TRUE, ![i].heard = FALSE]
      /\ IF jobs[i].heard THEN Gateway!CallFails ELSE UNCHANGED <<call, ended, last>>
      /\ UNCHANGED <<strokes, pointer, window, request, shot>>
  BY DEF Gateway!TakesTooLong, GatewayInv, GatewayTypes
<1>2. \A j \in 1 .. Len(jobs) : JobOK(j)
  BY DEF GatewayInv, JobsOK
<1> DEFINE new == [jobs[i] EXCEPT !.cancelled = TRUE, !.heard = FALSE]
<1>3. /\ new \in JobRecord /\ new.heard = FALSE
      /\ new.call = jobs[i].call /\ new.at = jobs[i].at /\ new.command = jobs[i].command
      /\ new.x = jobs[i].x /\ new.step = jobs[i].step /\ new.again = jobs[i].again
  <2>1. jobs[i] \in JobRecord
    BY <1>1
  <2> QED BY <2>1 DEF JobRecord
<1>4. jobs' = [jobs EXCEPT ![i] = new]
  BY <1>1
<1> HIDE DEF new
<1>5. /\ jobs' \in Seq(JobRecord) /\ Len(jobs') = Len(jobs)
      /\ \A j \in 1 .. Len(jobs) : jobs'[j] = IF j = i THEN new ELSE jobs[j]
  <2> DEFINE t == [jobs EXCEPT ![i] = new]
  <2>1. /\ t \in Seq(JobRecord) /\ Len(t) = Len(jobs)
        /\ \A j \in 1 .. Len(jobs) : t[j] = IF j = i THEN new ELSE jobs[j]
    <3>1. jobs \in Seq(JobRecord) /\ i \in 1 .. Len(jobs) /\ new \in JobRecord
      BY <1>1, <1>3
    <3> QED BY ONLY <3>1
  <2>2. jobs' = t
    BY <1>4
  <2> HIDE DEF t
  <2> QED BY <2>1, <2>2
<1>6. PICK g : Selects(g) /\ \A j \in 1 .. Len(jobs') : g[j] = j
  BY <1>2, <1>3, <1>5, SameSelects DEF JobOK
<1>7. pointer' \in Pixel /\ window' \in -1 .. Screen
  BY <1>1 DEF GatewayInv, GatewayTypes
<1>8. CASE jobs[i].heard
  <2>1. Gateway!Making /\ \A j \in 1 .. Len(jobs') : ~jobs'[j].heard
    BY <1>1, <1>2, <1>3, <1>5, <1>8 DEF JobOK
  <2> QED BY <1>1, <1>6, <1>7, <1>8, <2>1, FailedKeeps
<1>9. CASE ~jobs[i].heard
  <2>1. \A j \in 1 .. Len(jobs') : jobs'[j].heard <=> jobs[j].heard
    BY <1>3, <1>5, <1>9
  <2>2. SameHeard(g)
    BY <1>6, <2>1 DEF SameHeard
  <2>3. Gateway!Heard => Gateway!Heard'
    BY <1>1, <1>5, <2>1 DEF Gateway!Heard
  <2>4. \A j \in 1 .. Len(jobs') : jobs'[j].step = jobs[g[j]].step /\ jobs'[j].again = jobs[g[j]].again
    BY <1>3, <1>5, <1>6
  <2> QED BY <1>1, <1>6, <1>7, <1>9, <2>2, <2>3, <2>4, QuietKeeps
<1> QED BY <1>8, <1>9

-----------------------------------------------------------------------------
(* The image and the screen. *)

LEMMA Quotient ==
  ASSUME NEW a \in Nat, NEW b \in Nat \ {0}
  PROVE  /\ a \div b \in Nat /\ b * (a \div b) <= a /\ a < b * (a \div b) + b
OBVIOUS

LEMMA LessOf == ASSUME NEW a \in Int, NEW b \in Int
                PROVE  /\ Gateway!Min({a, b}) \in {a, b}
                       /\ Gateway!Min({a, b}) <= a /\ Gateway!Min({a, b}) <= b
<1>1. \E x \in {a, b} : \A y \in {a, b} : x <= y
  OBVIOUS
<1> QED BY <1>1 DEF Gateway!Min

\* The point of the screen for a pixel of the image.
LEMMA PointOnScreen ==
  ASSUME Gateway!GatewayAssumption, NEW q \in Nat, q < Source
  PROVE  LET x == (2 * q * Screen + Source) \div (2 * Source)
         IN /\ x \in Pixel
            /\ 2 * (Source * x) <= 2 * (q * Screen) + Source
            /\ 2 * (q * Screen) < 2 * (Source * x) + Source
<1> DEFINE a == 2 * q * Screen + Source
           b == 2 * Source
           x == a \div b
<1>1. Screen \in Nat \ {0} /\ Source \in Nat \ {0} /\ Source < 2 * Screen
  BY DEF Gateway!GatewayAssumption
<1>2. q * Screen \in Nat /\ a = 2 * (q * Screen) + Source /\ a \in Nat /\ b \in Nat \ {0}
  BY <1>1
<1>3. x \in Nat /\ b * x <= a /\ a < b * x + b
  BY <1>2, Quotient
<1>4. Source * x \in Nat /\ b * x = 2 * (Source * x)
  BY <1>1, <1>3
<1>5. q * Screen <= Source * Screen - Screen
  <2>1. q + 1 <= Source /\ (q + 1) * Screen = q * Screen + Screen
    BY <1>1
  <2>2. (q + 1) * Screen <= Source * Screen
    BY <1>1, <2>1
  <2> QED BY <1>1, <1>2, <2>1, <2>2
<1>6. x < Screen
  <2> SUFFICES ASSUME x >= Screen PROVE FALSE
    BY <1>1, <1>3
  <2>1. Source * x >= Source * Screen /\ Source * Screen \in Nat
    BY <1>1, <1>3
  <2> HIDE DEF x, a, b
  <2> QED BY <1>1, <1>2, <1>3, <1>4, <1>5, <2>1
<1> HIDE DEF x, a, b
<1>7. x \in Pixel /\ 2 * (Source * x) <= 2 * (q * Screen) + Source
      /\ 2 * (q * Screen) < 2 * (Source * x) + Source
  BY <1>1, <1>2, <1>3, <1>4, <1>6 DEF Pixel, b
<1> QED BY <1>7 DEF x, a, b

\* A window's image ends before the capture does.
LEMMA WindowImage ==
  ASSUME Gateway!GatewayAssumption, NEW w \in Pixel
  PROVE  LET o == (w * Source) \div Screen
             c == Gateway!CeilDiv(WindowSize * Source, Screen)
             width == Gateway!Min({c, Source - o})
         IN /\ o \in Nat /\ o < Source /\ Screen * o <= w * Source /\ w * Source < Screen * o + Screen
            /\ c \in Nat /\ Screen * c < WindowSize * Source + Screen
            /\ width \in Nat \ {0} /\ width <= c /\ width <= Source - o
<1> DEFINE o == (w * Source) \div Screen
           m == WindowSize * Source
           c == (m + Screen - 1) \div Screen
<1>1. Screen \in Nat \ {0} /\ Source \in Nat \ {0} /\ WindowSize \in Nat \ {0} /\ w \in Nat /\ w < Screen
  BY DEF Gateway!GatewayAssumption, Pixel
<1>2. w * Source \in Nat /\ m \in Nat /\ m > 0 /\ Source * Screen \in Nat
  BY <1>1
<1>3. o \in Nat /\ Screen * o <= w * Source /\ w * Source < Screen * o + Screen
  BY <1>1, <1>2, Quotient
<1>4. o < Source
  <2> SUFFICES ASSUME o >= Source PROVE FALSE
    BY <1>1, <1>3
  <2>1. Screen * o >= Screen * Source
    BY <1>1, <1>3
  <2>2. w * Source < Screen * Source
    BY <1>1
  <2>3. Screen * o \in Nat /\ Screen * Source \in Nat
    BY <1>1, <1>3
  <2> HIDE DEF o
  <2> QED BY <1>2, <1>3, <2>1, <2>2, <2>3
<1>5. c \in Nat /\ Screen * c <= m + Screen - 1 /\ m + Screen - 1 < Screen * c + Screen
  <2>1. m + Screen - 1 \in Nat
    BY <1>1, <1>2
  <2> QED BY <1>1, <2>1, Quotient
<1>6. c > 0
  <2> SUFFICES ASSUME c = 0 PROVE FALSE
    BY <1>5
  <2>1. Screen * c = 0
    BY <1>1
  <2> HIDE DEF c, m
  <2> QED BY <1>1, <1>2, <1>5, <2>1
<1>7. Gateway!CeilDiv(WindowSize * Source, Screen) = c
  BY DEF Gateway!CeilDiv
<1>8. Screen * c < m + Screen
  <2> HIDE DEF c, m
  <2> QED BY <1>1, <1>2, <1>5
<1> HIDE DEF o, c, m
<1>9. /\ Gateway!Min({c, Source - o}) \in {c, Source - o}
      /\ Gateway!Min({c, Source - o}) <= c /\ Gateway!Min({c, Source - o}) <= Source - o
  <2>1. Source - o \in Int /\ c \in Int
    BY <1>1, <1>3, <1>5
  <2> QED BY <2>1, LessOf
<1>10. Gateway!Min({c, Source - o}) \in Nat \ {0}
  BY <1>1, <1>3, <1>4, <1>5, <1>6, <1>9
<1> QED BY <1>3, <1>4, <1>5, <1>7, <1>8, <1>9, <1>10 DEF o, m

LEMMA PointsOK ==
  ASSUME Gateway!GatewayAssumption, last \in LastRecord, ImageOK, NEW p \in 0 .. last.width - 1
  PROVE  /\ Gateway!ToScreen(last, p) \in Pixel
         /\ last.window # -1 =>
              Gateway!ToScreen(last, p) \in
                last.window - Gateway!CeilDiv(Screen, Source) .. last.window + WindowSize
<1> DEFINE q == last.origin + p
           x == Gateway!ToScreen(last, p)
<1>1. /\ Screen \in Nat \ {0} /\ Source \in Nat \ {0} /\ WindowSize \in Nat \ {0}
      /\ p \in Nat /\ p < last.width /\ last.origin \in Nat /\ last.width \in Nat
  BY DEF Gateway!GatewayAssumption, LastRecord
<1>2. last # Gateway!NoObservation
  BY <1>1 DEF Gateway!NoObservation
<1>3. x = (2 * q * Screen + Source) \div (2 * Source)
  BY DEF Gateway!ToScreen
<1>4. CASE last.window = -1 /\ last.origin = 0 /\ last.width = Source
  <2>1. q \in Nat /\ q < Source
    BY <1>1, <1>4
  <2> HIDE DEF q
  <2> QED BY <1>3, <1>4, <2>1, PointOnScreen
<1>5. ASSUME NEW w \in Pixel, Shows(w)
      PROVE  x \in Pixel /\ x \in w - Gateway!CeilDiv(Screen, Source) .. w + WindowSize
  <2> DEFINE o == last.origin
             c == Gateway!CeilDiv(WindowSize * Source, Screen)
             d == Gateway!CeilDiv(Screen, Source)
  <2>1. /\ o = (w * Source) \div Screen /\ last.width = Gateway!Min({c, Source - o})
        /\ o \in Nat /\ w \in Nat
    BY <1>1, <1>5 DEF Shows, Pixel
  <2>2. /\ Screen * o <= w * Source /\ w * Source < Screen * o + Screen
        /\ c \in Nat /\ Screen * c < WindowSize * Source + Screen
        /\ last.width <= c /\ last.width <= Source - o
    BY <2>1, WindowImage
  <2>3. d \in Nat /\ Screen <= Source * d
    <3>1. Screen + Source - 1 \in Nat
      BY <1>1
    <3>2. d \in Nat /\ Screen + Source - 1 < Source * d + Source
      BY <1>1, <3>1, Quotient DEF Gateway!CeilDiv
    <3>3. Source * d \in Nat
      BY <1>1, <3>2
    <3> HIDE DEF d
    <3> QED BY <1>1, <3>2, <3>3
  <2>4. q \in Nat /\ q < Source /\ q >= o /\ q + 1 <= o + c
    BY <1>1, <2>1, <2>2
  <2> HIDE DEF o, c, d, q
  <2>5. /\ x \in Pixel
        /\ 2 * (Source * x) <= 2 * (q * Screen) + Source
        /\ 2 * (q * Screen) < 2 * (Source * x) + Source
    BY <1>3, <2>4, PointOnScreen
  <2> HIDE DEF x
  <2>6. x \in Nat
    BY <1>1, <2>5 DEF Pixel
  <2>7. x >= w - d
    <3> SUFFICES ASSUME x + d + 1 <= w PROVE FALSE
      BY <2>1, <2>3, <2>6
    <3>1. Source * (x + d + 1) <= Source * w /\ Source * (x + d + 1) = Source * x + Source * d + Source
      BY <1>1, <2>1, <2>3, <2>6
    <3>2. o * Screen <= q * Screen /\ o * Screen = Screen * o
      BY <1>1, <2>1, <2>4
    <3>3. /\ Source * x \in Nat /\ Source * d \in Nat /\ Source * w \in Nat /\ w * Source = Source * w
          /\ q * Screen \in Nat /\ Screen * o \in Nat
      BY <1>1, <2>1, <2>3, <2>4, <2>6
    <3> QED BY <1>1, <2>2, <2>3, <2>5, <3>1, <3>2, <3>3
  <2>8. x <= w + WindowSize
    <3> SUFFICES ASSUME x >= w + WindowSize + 1 PROVE FALSE
      BY <1>1, <2>1, <2>6
    <3>1. /\ Source * x >= Source * (w + WindowSize + 1)
          /\ Source * (w + WindowSize + 1) = Source * w + Source * WindowSize + Source
      BY <1>1, <2>1, <2>6
    <3>2. /\ (q + 1) * Screen <= (o + c) * Screen
          /\ (q + 1) * Screen = q * Screen + Screen
          /\ (o + c) * Screen = Screen * o + Screen * c
      BY <1>1, <2>1, <2>2, <2>4
    <3>3. /\ Source * x \in Nat /\ Source * w \in Nat /\ w * Source = Source * w
          /\ WindowSize * Source = Source * WindowSize /\ Source * WindowSize \in Nat
          /\ q * Screen \in Nat /\ Screen * o \in Nat /\ Screen * c \in Nat
      BY <1>1, <2>1, <2>2, <2>4, <2>6
    <3> QED BY <1>1, <2>2, <2>5, <3>1, <3>2, <3>3
  <2> QED BY <1>1, <2>1, <2>3, <2>5, <2>6, <2>7, <2>8 DEF d
<1> QED BY <1>2, <1>4, <1>5 DEF ImageOK, Shows

-----------------------------------------------------------------------------
(* The tool makes a call and sends its commands. *)

LEMMA NobodyHeard ==
  ASSUME GatewayInv, ~Gateway!Heard PROVE \A i \in 1 .. Len(jobs) : ~jobs[i].heard
<1>1. DOMAIN jobs = 1 .. Len(jobs)
  BY DEF GatewayInv, GatewayTypes
<1> QED BY <1>1 DEF Gateway!Heard

LEMMA HasPixels ==
  ASSUME Gateway!GatewayAssumption, last \in LastRecord, ImageOK, last # Gateway!NoObservation
  PROVE  last.width > 0
<1>1. CASE last.window = -1 /\ last.origin = 0 /\ last.width = Source
  BY <1>1 DEF Gateway!GatewayAssumption
<1>2. ASSUME NEW w \in Pixel, Shows(w) PROVE last.width > 0
  <2> DEFINE o == last.origin
             c == Gateway!CeilDiv(WindowSize * Source, Screen)
  <2>1. o = (w * Source) \div Screen /\ last.width = Gateway!Min({c, Source - o})
    BY <1>2 DEF Shows
  <2>2. last.width \in Nat \ {0}
    BY <2>1, WindowImage
  <2> QED BY <2>2
<1> QED BY <1>1, <1>2 DEF ImageOK

LEMMA MakeKeeps ==
  ASSUME Gateway!GatewayAssumption, GatewayInv, Gateway!Make PROVE GatewayInv'
<1>1. GatewayTypes /\ ProgramOK /\ JobsOK /\ StrokesOK /\ ShotOK /\ DoneOK /\ ImageOK
  BY DEF GatewayInv
<1>2. PICK kind \in Gateway!Kinds, p \in {0, last.width - 1} :
        /\ kind \in Gateway!Pointing => last # Gateway!NoObservation
        /\ kind \notin Gateway!Pointing => p = 0
        /\ request' = IF kind = "screenshot" THEN "full"
                      ELSE IF kind = "screenshot_window" THEN "window" ELSE request
        /\ call' = [n |-> Len(ended) + 1, kind |-> kind,
                    x |-> IF kind \in Gateway!Pointing THEN Gateway!ToScreen(last, p) ELSE 0,
                    program |-> Gateway!Commands(kind) \o Gateway!Captures(request'),
                    at |-> 1, attempt |-> 0]
  BY DEF Gateway!Make
<1>3. /\ ~Gateway!Making
      /\ UNCHANGED <<jobs, session, strokes, pointer, window, shot, last, ended, faults>>
  BY DEF Gateway!Make
<1> DEFINE x == IF kind \in Gateway!Pointing THEN Gateway!ToScreen(last, p) ELSE 0
           program == Gateway!Commands(kind) \o Gateway!Captures(request')
<1>4. request' \in {"full", "window"}
  BY <1>1, <1>2 DEF GatewayTypes
<1>5. x \in Pixel
  <2>1. CASE kind \in Gateway!Pointing
    <3>1. last \in LastRecord /\ last.width \in Nat /\ last.origin \in Nat
      BY <1>1 DEF GatewayTypes, LastRecord
    <3>2. last.width > 0
      BY <1>1, <1>2, <2>1, <3>1, HasPixels
    <3>3. p \in 0 .. last.width - 1
      BY <1>2, <3>1, <3>2
    <3> QED BY <1>1, <2>1, <3>1, <3>3, PointsOK
  <2>2. CASE kind \notin Gateway!Pointing
    BY <2>2 DEF Pixel, Gateway!GatewayAssumption
  <2> QED BY <2>1, <2>2
<1>6. /\ program \in Seq(CommandName) /\ Len(program) > 0 /\ program # << >>
      /\ program[1] # "scroll_direction" /\ program[1] # "get_window_position"
  <2>1. /\ program \in Seq(CommandName) /\ Len(program) > Len(Gateway!Commands(kind))
        /\ Len(Gateway!Commands(kind)) \in Nat
        /\ \A at \in 1 .. Len(program) :
             /\ program[at] = "scroll_direction" => at > 1
             /\ program[at] = "get_window_position" => at > 1
    BY <1>4, ProgramIs, Zenon
  <2> HIDE DEF program
  <2>2. Len(program) > 0 /\ 1 \in 1 .. Len(program)
    BY <2>1
  <2> QED BY <2>1, <2>2
<1>7. /\ call'.n = Len(ended) + 1 /\ call'.kind = kind /\ call'.x = x /\ call'.program = program
      /\ call'.at = 1 /\ call'.attempt = 0
  BY <1>2
<1>8. call' = [n |-> Len(ended) + 1, kind |-> kind, x |-> x, program |-> program,
               at |-> 1, attempt |-> 0]
  BY <1>2
<1>9. Len(ended) \in Nat /\ call.n = Len(ended) /\ Len(jobs) \in Nat
  BY <1>1, <1>3 DEF GatewayTypes, ProgramOK
<1> HIDE DEF x, program
<1>10. call' \in CallRecord
  BY <1>5, <1>6, <1>8, <1>9 DEF CallRecord
<1>11. Gateway!Making' /\ Current' = program[1]
  BY <1>6, <1>7 DEF Gateway!Making, Current
<1>12. GatewayTypes'
  BY <1>1, <1>3, <1>4, <1>10 DEF GatewayTypes
<1>13. ProgramOK'
  BY <1>3, <1>6, <1>7, <1>9, <1>11 DEF ProgramOK, program
<1>14. \A i \in 1 .. Len(jobs) : /\ JobOK(i) /\ ~jobs[i].heard
                                 /\ jobs[i].call \in Nat /\ jobs[i].call < call'.n
  <2> SUFFICES ASSUME NEW i \in 1 .. Len(jobs)
               PROVE  JobOK(i) /\ ~jobs[i].heard /\ jobs[i].call \in Nat /\ jobs[i].call < call'.n
    OBVIOUS
  <2>1. JobOK(i) /\ jobs[i] \in JobRecord
    BY <1>1 DEF JobsOK, GatewayTypes
  <2> QED BY <1>3, <1>7, <1>9, <2>1 DEF JobOK, JobRecord
<1>15. JobsOK'
  <2>1. ASSUME NEW i \in 1 .. Len(jobs) PROVE JobOK(i)'
    <3>1. jobs' = jobs /\ last' = last /\ pointer' = pointer
      BY <1>3
    <3>2. JobOK(i) /\ ~jobs[i].heard /\ jobs[i].call \in Nat /\ jobs[i].call < call'.n
      BY <1>14
    <3> QED BY <1>7, <1>9, <3>1, <3>2 DEF JobOK
  <2> QED BY <1>1, <1>3, <1>6, <1>11, <2>1 DEF JobsOK, Follows
<1>20. \A i \in 1 .. Len(strokes) : strokes[i].call \in Nat /\ strokes[i].call < call'.n
  <2> SUFFICES ASSUME NEW i \in 1 .. Len(strokes)
               PROVE  strokes[i].call \in Nat /\ strokes[i].call < call'.n
    OBVIOUS
  <2>1. strokes[i] \in Stroke
    BY <1>1 DEF GatewayTypes
  <2> QED BY <1>1, <1>7, <1>9, <2>1 DEF StrokesOK, Stroke
<1>16. StrokesOK'
  <2>1. \A i \in 1 .. Len(strokes) :
          strokes[i].call <= call'.n /\ strokes[i].call # call'.n
    BY <1>7, <1>9, <1>20
  <2>2. strokes' = strokes /\ jobs' = jobs
    BY <1>3
  <2> QED BY <1>1, <2>1, <2>2 DEF StrokesOK, Follows
<1>17. ShotOK'
  BY <1>1, <1>3, <1>6, <1>11 DEF ShotOK
<1>18. DoneOK'
  <2>1. Gateway!DoneInFull'
    BY <1>1, <1>3, DoneSame DEF DoneOK, Gateway!DoneInFull
  <2>2. EarlierDone'
    <3> SUFFICES ASSUME NEW at \in DOMAIN Gateway!Commands(kind), at < 1 PROVE FALSE
      BY <1>7 DEF EarlierDone
    <3> QED BY ProgramIs, <1>4
  <2>3. NotBegun'
    <3>1. \A i \in DOMAIN strokes : strokes[i].call # Len(ended) + 1
      BY <1>1, <1>7, <1>9, <1>20 DEF GatewayTypes
    <3> QED BY <1>3, <1>7, <3>1 DEF NotBegun, Gateway!Of
  <2>4. HeardIsUnderway'
    BY <1>3, <1>14 DEF HeardIsUnderway
  <2> QED BY <2>1, <2>2, <2>3, <2>4 DEF DoneOK
<1>19. ImageOK'
  BY <1>1, <1>2, <1>3, <1>7 DEF ImageOK, Shows
<1> QED BY <1>12, <1>13, <1>15, <1>16, <1>17, <1>18, <1>19 DEF GatewayInv

LEMMA SendKeeps == ASSUME GatewayInv, Gateway!Send PROVE GatewayInv'
<1>1. GatewayTypes /\ ProgramOK /\ JobsOK /\ StrokesOK /\ ShotOK /\ DoneOK /\ ImageOK
  BY DEF GatewayInv
<1> DEFINE e == Gateway!Job
<1>0. PICK n \in Nat : n = Len(jobs) /\ jobs \in Seq(JobRecord)
  BY <1>1 DEF GatewayTypes
<1>2. /\ Gateway!Making /\ ~Gateway!Heard /\ jobs' = Append(jobs, e)
      /\ UNCHANGED <<call, session, strokes, pointer, window, request, shot, last, ended, faults>>
  BY DEF Gateway!Send
<1>3. /\ call.at \in 1 .. Len(call.program) /\ Current \in CommandName /\ call.n = Len(ended) + 1
      /\ call.n \in Nat /\ call.x \in Pixel /\ call.at \in Nat /\ Len(ended) \in Nat
      /\ call.attempt \in {0, 1} /\ (call.attempt = 1 => Current \in Reading)
  BY <1>1, <1>2, NeverFirst DEF GatewayTypes, CallRecord, ProgramOK
<1>4. /\ e \in JobRecord /\ e.call = call.n /\ e.at = call.at /\ e.command = Current /\ e.x = call.x
      /\ e.step = 1 /\ e.again = FALSE /\ e.heard = TRUE /\ e.cancelled = FALSE
  BY <1>3 DEF Gateway!Job, JobRecord, Current
<1>5. n \in Nat /\ n = Len(jobs) /\ jobs \in Seq(JobRecord)
  BY <1>0
<1> HIDE DEF e
<1>6. /\ jobs' \in Seq(JobRecord) /\ Len(jobs') = n + 1 /\ jobs'[n + 1] = e
      /\ \A i \in 1 .. n : jobs'[i] = jobs[i]
  BY <1>2, <1>4, <1>5
<1>7. \A i \in 1 .. n + 1 : i \in 1 .. n \/ i = n + 1
  BY <1>5
<1>8. \A i \in 1 .. n : ~jobs[i].heard /\ JobOK(i)
  BY <1>1, <1>2, <1>5, NobodyHeard DEF JobsOK
<1>9. Gateway!Making' /\ Current' = Current /\ Gateway!Heard'
  <2>1. n + 1 \in DOMAIN jobs' /\ jobs'[n + 1].heard
    BY <1>4, <1>5, <1>6
  <2> QED BY <1>2, <2>1 DEF Gateway!Making, Current, Gateway!Heard
<1>10. Current = "scroll_direction" => n = 0
  <2> SUFFICES ASSUME Current = "scroll_direction", n # 0 PROVE FALSE
    OBVIOUS
  <2>1. call.at > 1 /\ call.attempt = 0
    BY <1>1, <1>2, <1>3, NeverFirst DEF Reading, Gateway!Idempotent
  <2>2. 1 \in 1 .. n /\ jobs[1] \in JobRecord
    BY <1>5
  <2>3. jobs[1].call = call.n /\ jobs[1].call < call.n
    BY <1>2, <1>8, <2>1, <2>2 DEF JobOK
  <2> QED BY <1>3, <2>3
<1>11. GatewayTypes' /\ ProgramOK' /\ ShotOK' /\ ImageOK'
  <2>1. GatewayTypes'
    BY <1>1, <1>2, <1>6 DEF GatewayTypes
  <2>2. ProgramOK' /\ ShotOK'
    BY <1>1, <1>2, <1>9 DEF ProgramOK, ShotOK
  <2>3. ImageOK'
    BY <1>1, <1>2, <1>9 DEF ImageOK, Shows
  <2> QED BY <2>1, <2>2, <2>3
<1>12. JobsOK'
  <2>1. ASSUME NEW i \in 1 .. n PROVE JobOK(i)'
    <3>1. jobs'[i] = jobs[i] /\ ~jobs[i].heard /\ JobOK(i)
      BY <1>6, <1>8
    <3> QED BY <1>2, <1>9, <3>1 DEF JobOK
  <2>2. JobOK(n + 1)'
    <3>1. Len(Gateway!DriverCalls(Current)) \in {1, 2}
      BY <1>3, DriverIs
    <3>2. last.call < call.n /\ last.call \in Nat
      BY <1>1, <1>3 DEF ShotOK, GatewayTypes, LastRecord
    <3>3. Current = "scroll_direction" => pointer = call.x
      BY <1>1, <1>2 DEF JobsOK
    <3>4. /\ jobs'[n + 1] = e /\ Len(jobs') = n + 1 /\ last' = last /\ call' = call
          /\ pointer' = pointer
      BY <1>2, <1>6
    <3>5. /\ e.step <= Len(Gateway!DriverCalls(e.command)) /\ e.call <= call.n /\ e.call > last.call
          /\ ~(e.step > 1 \/ e.again)
      <4>1. e.step <= Len(Gateway!DriverCalls(e.command))
        <5>1. Gateway!DriverCalls(e.command) = Gateway!DriverCalls(Current) /\ e.step = 1
          BY <1>4
        <5>2. PICK l \in 1 .. 2 : l = Len(Gateway!DriverCalls(Current))
          BY <3>1
        <5>3. e.step <= l
          BY <5>1, <5>2
        <5> QED BY <5>1, <5>2, <5>3, Zenon
      <4>2. e.call <= call.n /\ e.call > last.call
        BY <1>3, <1>4, <3>2
      <4>3. ~(e.step > 1) /\ ~e.again
        BY <1>4
      <4> QED BY <4>1, <4>2, <4>3
    <3>6. e.command = "scroll_direction" => n + 1 = 1 /\ pointer = e.x
      BY <1>4, <1>5, <1>10, <3>3
    <3>7. jobs'[n + 1].step <= Len(Gateway!DriverCalls(jobs[n + 1].command))'
      BY <3>4, <3>5
    <3> QED BY <1>2, <1>4, <1>9, <3>4, <3>5, <3>6, <3>7 DEF JobOK
  <2>3. \A i \in 1 .. n : Follows(jobs[i], e)
    <3> SUFFICES ASSUME NEW i \in 1 .. n PROVE Follows(jobs[i], e)
      OBVIOUS
    <3>1. jobs[i] \in JobRecord /\ JobOK(i)
      BY <1>5, <1>8
    <3> QED BY <1>2, <1>3, <1>4, <3>1 DEF JobOK, Follows, JobRecord
  <2>4. ASSUME NEW i \in 1 .. n + 1, NEW k \in 1 .. n + 1, i < k PROVE Follows(jobs'[i], jobs'[k])
    <3>1. CASE k \in 1 .. n
      <4>1. i \in 1 .. n /\ Follows(jobs[i], jobs[k])
        BY <1>1, <1>5, <2>4, <3>1 DEF JobsOK
      <4> QED BY <1>6, <3>1, <4>1
    <3>2. CASE k = n + 1
      <4>1. i \in 1 .. n
        BY <1>5, <2>4, <3>2
      <4> QED BY <1>6, <2>3, <3>2, <4>1
    <3> QED BY <1>7, <3>1, <3>2
  <2>5. \A i \in 1 .. n + 1 : JobOK(i)'
    BY <1>7, <2>1, <2>2
  <2> QED BY <1>1, <1>2, <1>6, <1>9, <2>4, <2>5 DEF JobsOK
<1>13. StrokesOK'
  <2>1. \A i \in 1 .. Len(strokes) : Follows(strokes[i], e)
    <3> SUFFICES ASSUME NEW i \in 1 .. Len(strokes) PROVE Follows(strokes[i], e)
      OBVIOUS
    <3>1. strokes[i] \in Stroke
      BY <1>1 DEF GatewayTypes
    <3> QED BY <1>1, <1>2, <1>3, <1>4, <3>1 DEF StrokesOK, Follows, Stroke
  <2>2. \A i \in 1 .. Len(strokes), k \in 1 .. n + 1 : Follows(strokes[i], jobs'[k])
    BY <1>1, <1>5, <1>6, <1>7, <2>1 DEF StrokesOK
  <2> QED BY <1>1, <1>2, <1>6, <1>9, <2>2 DEF StrokesOK
<1>14. HeardIsUnderway'
  <2> SUFFICES ASSUME NEW i \in 1 .. n + 1, jobs'[i].heard, jobs'[i].command \notin Reading
               PROVE  Underway(jobs[i])'
    BY <1>6 DEF HeardIsUnderway
  <2>1. i = n + 1 /\ jobs'[i] = e
    BY <1>6, <1>7, <1>8
  <2>2. call.attempt = 0 /\ Gateway!Of(e.call, e.at) = {}
    BY <1>1, <1>2, <1>3, <1>4, <2>1 DEF DoneOK, NotBegun
  <2>3. /\ Gateway!Of(jobs[i].call, jobs[i].at)' = {}
        /\ jobs'[i].step = 1
    BY <1>2, <1>4, <2>1, <2>2 DEF Gateway!Of
  <2> DEFINE first == Gateway!FirstChange(jobs'[i].command)
             l == Len(Gateway!DriverCalls(jobs'[i].command))
  <2>4. first \in 1 .. 2 /\ first <= l /\ l \in {1, 2}
    BY <1>3, <1>4, <2>1, DriverIs
  <2>5. /\ Gateway!FirstChange(jobs[i].command)' = first
        /\ Len(Gateway!DriverCalls(jobs[i].command))' = l
    BY DEF Gateway!FirstChange, Gateway!DriverCalls
  <2>6. Len(strokes) \in Nat /\ strokes' = strokes
    BY <1>1, <1>2 DEF GatewayTypes
  <2> HIDE DEF first, l
  <2>7. 0 \in 0 .. l - first /\ Len(strokes) + 1 .. Len(strokes) = {}
    BY <2>4, <2>6
  <2> QED BY <2>3, <2>4, <2>5, <2>6, <2>7 DEF Underway
<1>15. DoneOK'
  <2>1. Gateway!DoneInFull'
    BY <1>1, <1>2, DoneKept DEF DoneOK
  <2>2. EarlierDone'
    BY <1>1, <1>2, EarlierKept DEF DoneOK
  <2>3. NotBegun'
    BY <1>9 DEF NotBegun
  <2> QED BY <1>14, <2>1, <2>2, <2>3 DEF DoneOK
<1> QED BY <1>11, <1>12, <1>13, <1>15 DEF GatewayInv

LEMMA LoseKeeps == ASSUME Gateway!GatewayAssumption, GatewayInv, Gateway!Lose PROVE GatewayInv'
<1>1. GatewayTypes /\ ProgramOK /\ JobsOK /\ StrokesOK /\ ShotOK /\ DoneOK /\ ImageOK
  BY DEF GatewayInv
<1>2. /\ Gateway!Heard
      /\ jobs' = [i \in DOMAIN jobs |-> [jobs[i] EXCEPT !.heard = FALSE]]
      /\ UNCHANGED <<session, strokes, pointer, window, request, shot>>
  BY DEF Gateway!Lose
<1>3. Gateway!Making
  <2>1. PICK i \in DOMAIN jobs : jobs[i].heard
    BY <1>2 DEF Gateway!Heard
  <2>2. i \in 1 .. Len(jobs)
    BY <1>1 DEF GatewayTypes
  <2> QED BY <1>1, <2>1, <2>2 DEF JobsOK, JobOK
<1>4. jobs \in Seq(JobRecord) /\ DOMAIN jobs = 1 .. Len(jobs) /\ Len(jobs) \in Nat
  BY <1>1 DEF GatewayTypes
<1>5. \A i \in 1 .. Len(jobs) : LET j == [jobs[i] EXCEPT !.heard = FALSE] IN
        /\ j \in JobRecord /\ j.heard = FALSE
        /\ j.call = jobs[i].call /\ j.at = jobs[i].at /\ j.command = jobs[i].command
        /\ j.x = jobs[i].x /\ j.step = jobs[i].step /\ j.again = jobs[i].again
  <2> SUFFICES ASSUME NEW i \in 1 .. Len(jobs)
               PROVE  LET j == [jobs[i] EXCEPT !.heard = FALSE] IN
        /\ j \in JobRecord /\ j.heard = FALSE
        /\ j.call = jobs[i].call /\ j.at = jobs[i].at /\ j.command = jobs[i].command
        /\ j.x = jobs[i].x /\ j.step = jobs[i].step /\ j.again = jobs[i].again
    OBVIOUS
  <2>1. jobs[i] \in JobRecord
    BY <1>4
  <2> QED BY <2>1 DEF JobRecord
<1>6. /\ jobs' \in Seq(JobRecord) /\ Len(jobs') = Len(jobs)
      /\ \A i \in 1 .. Len(jobs) :
           /\ ~jobs'[i].heard
           /\ jobs'[i].call = jobs[i].call /\ jobs'[i].at = jobs[i].at
           /\ jobs'[i].command = jobs[i].command /\ jobs'[i].x = jobs[i].x
           /\ jobs'[i].step = jobs[i].step /\ jobs'[i].again = jobs[i].again
  <2> DEFINE f(i) == [jobs[i] EXCEPT !.heard = FALSE]
  <2>1. jobs' = [i \in 1 .. Len(jobs) |-> f(i)] /\ \A i \in 1 .. Len(jobs) : f(i) \in JobRecord
    BY <1>2, <1>4, <1>5
  <2>2. \A i \in 1 .. Len(jobs) :
           /\ ~f(i).heard
           /\ f(i).call = jobs[i].call /\ f(i).at = jobs[i].at
           /\ f(i).command = jobs[i].command /\ f(i).x = jobs[i].x
           /\ f(i).step = jobs[i].step /\ f(i).again = jobs[i].again
    BY <1>5
  <2> HIDE DEF f
  <2>3. jobs' \in Seq(JobRecord) /\ Len(jobs') = Len(jobs)
        /\ \A i \in 1 .. Len(jobs) : jobs'[i] = f(i)
    BY <1>4, <2>1
  <2> QED BY <2>2, <2>3
<1>7. PICK g : Selects(g) /\ \A i \in 1 .. Len(jobs') : g[i] = i
  BY <1>6, SameSelects
<1>8. CASE Gateway!CallFails
  <2>1. \A i \in 1 .. Len(jobs') : ~jobs'[i].heard
    BY <1>6
  <2>2. window' \in -1 .. Screen
    BY <1>1, <1>2 DEF GatewayTypes
  <2> QED BY <1>2, <1>3, <1>7, <1>8, <2>1, <2>2, FailedKeeps
<1>9. CASE /\ call.attempt = 0 /\ call.program[call.at] \in Gateway!Idempotent
           /\ call' = [call EXCEPT !.attempt = 1] /\ UNCHANGED <<ended, last>>
  <2>1. /\ call' \in CallRecord /\ call'.n = call.n /\ call'.kind = call.kind /\ call'.x = call.x
        /\ call'.program = call.program /\ call'.at = call.at /\ call'.attempt = 1
    BY <1>1, <1>9 DEF GatewayTypes, CallRecord
  <2>2. Gateway!Making' /\ Current' = Current /\ Current \in Reading
    BY <1>3, <1>9, <2>1 DEF Gateway!Making, Current, Reading
  <2>3. GatewayTypes' /\ ProgramOK' /\ ShotOK' /\ ImageOK'
    <3>1. GatewayTypes'
      BY <1>1, <1>2, <1>6, <1>9, <2>1 DEF GatewayTypes
    <3>2. ProgramOK'
      BY <1>1, <1>2, <1>3, <1>9, <2>1, <2>2 DEF ProgramOK
    <3>3. ShotOK'
      BY <1>1, <1>2, <1>3, <1>9, <2>2 DEF ShotOK
    <3>4. ImageOK'
      BY <1>1, <1>2, <1>3, <1>9, <2>1 DEF ImageOK, Shows
    <3> QED BY <3>1, <3>2, <3>3, <3>4
  <2>4. JobsOK'
    <3>1. ASSUME NEW i \in 1 .. Len(jobs) PROVE JobOK(i)'
      <4>1. JobOK(i)
        BY <1>1 DEF JobsOK
      <4> QED BY <1>2, <1>3, <1>6, <1>9, <2>1, <2>2, <4>1 DEF JobOK
    <3>2. ASSUME NEW i \in 1 .. Len(jobs), NEW k \in 1 .. Len(jobs), i < k
          PROVE  Follows(jobs'[i], jobs'[k])
      <4>1. Follows(jobs[i], jobs[k])
        BY <1>1, <3>2 DEF JobsOK
      <4> QED BY <1>6, <4>1 DEF Follows
    <3> QED BY <1>1, <1>2, <1>3, <1>6, <2>1, <2>2, <3>1, <3>2 DEF JobsOK
  <2>5. StrokesOK'
    <3>1. ASSUME NEW i \in 1 .. Len(strokes), NEW k \in 1 .. Len(jobs)
          PROVE  Follows(strokes[i], jobs'[k])
      <4>1. Follows(strokes[i], jobs[k])
        BY <1>1 DEF StrokesOK
      <4> QED BY <1>6, <4>1 DEF Follows
    <3> QED BY <1>1, <1>2, <1>3, <1>6, <2>1, <3>1 DEF StrokesOK
  <2>6. DoneOK'
    <3>1. Gateway!DoneInFull'
      BY <1>1, <1>2, <1>9, DoneKept DEF DoneOK
    <3>2. EarlierDone'
      BY <1>1, <1>2, <1>3, <2>1, EarlierKept DEF DoneOK
    <3> QED BY <1>6, <2>1, <3>1, <3>2 DEF DoneOK, NotBegun, HeardIsUnderway
  <2> QED BY <2>3, <2>4, <2>5, <2>6 DEF GatewayInv
<1> QED BY <1>8, <1>9 DEF Gateway!Lose

-----------------------------------------------------------------------------
(* The gateway runs the command whose turn it is. *)

\* Another call of the driver leaves what is done as it is.
LEMMA OtherStroke ==
  ASSUME strokes \in Seq(Stroke), NEW s \in Stroke, strokes' = Append(strokes, s),
         NEW n, NEW at, ~(s.call = n /\ s.at = at)
  PROVE  /\ Gateway!Of(n, at)' = Gateway!Of(n, at)
         /\ \A c \in CommandName : Gateway!IsDone(n, at, c) => Gateway!IsDone(n, at, c)'
<1>1. PICK len \in Nat : len = Len(strokes)
  OBVIOUS
<1>2. /\ strokes' \in Seq(Stroke) /\ Len(strokes') = len + 1 /\ strokes'[len + 1] = s
      /\ \A i \in 1 .. len : strokes'[i] = strokes[i]
      /\ DOMAIN strokes = 1 .. len /\ DOMAIN strokes' = 1 .. len + 1
  BY <1>1
<1>3. Gateway!Of(n, at)' = Gateway!Of(n, at)
  <2>1. \A i \in 1 .. len + 1 : i \in 1 .. len \/ i = len + 1
    BY <1>1
  <2>2. \A i \in 1 .. len : i \in 1 .. len + 1
    BY <1>1
  <2> QED BY <1>2, <2>1, <2>2 DEF Gateway!Of
<1>4. ASSUME NEW c \in CommandName, Gateway!IsDone(n, at, c) PROVE Gateway!IsDone(n, at, c)'
  <2> DEFINE first == Gateway!FirstChange(c)
             all == Len(Gateway!DriverCalls(c)) - first + 1
  <2>1. first \in 1 .. 2 /\ all \in Int
    BY DriverIs
  <2>2. PICK begun \in 0 .. all - 1, from \in 0 .. len :
          /\ Gateway!Of(n, at) = from + 1 .. from + begun + all
          /\ \A i \in 1 .. begun : strokes[from + i].step = first + i - 1
          /\ \A i \in 1 .. all : strokes[from + begun + i].step = first + i - 1
    BY <1>1, <1>4 DEF Gateway!IsDone
  <2> HIDE DEF first, all
  <2>3. from + begun + all \in Gateway!Of(n, at)
    BY <1>1, <2>1, <2>2
  <2>4. from + begun + all <= len
    BY <1>1, <1>2, <2>3 DEF Gateway!Of
  <2>5. \A i \in 1 .. begun : from + i \in 1 .. len
    BY <1>1, <2>1, <2>2, <2>4
  <2>6. \A i \in 1 .. all : from + begun + i \in 1 .. len
    BY <1>1, <2>1, <2>2, <2>4
  <2>7. /\ \A i \in 1 .. begun : strokes'[from + i].step = first + i - 1
        /\ \A i \in 1 .. all : strokes'[from + begun + i].step = first + i - 1
    BY <1>2, <2>2, <2>5, <2>6
  <2>8. from \in 0 .. Len(strokes')
    BY <1>1, <1>2, <2>2
  <2> QED BY <1>3, <2>2, <2>7, <2>8 DEF Gateway!IsDone, first, all
<1> QED BY <1>3, <1>4

LEMMA SameStroke ==
  ASSUME strokes \in Seq(Stroke), NEW s \in Stroke, strokes' = Append(strokes, s),
         NEW n, NEW at, s.call = n, s.at = at
  PROVE  Gateway!Of(n, at)' = Gateway!Of(n, at) \cup {Len(strokes) + 1}
<1>1. PICK len \in Nat : len = Len(strokes)
  OBVIOUS
<1>2. /\ Len(strokes') = len + 1 /\ strokes'[len + 1] = s
      /\ \A i \in 1 .. len : strokes'[i] = strokes[i]
      /\ DOMAIN strokes = 1 .. len /\ DOMAIN strokes' = 1 .. len + 1
  BY <1>1
<1>3. \A i : i \in 1 .. len + 1 <=> i \in 1 .. len \/ i = len + 1
  BY <1>1
<1>4. ~(len + 1 \in 1 .. len)
  BY <1>1
<1>5. \A i : i \in Gateway!Of(n, at)' <=> i \in Gateway!Of(n, at) \/ i = len + 1
  BY <1>2, <1>3, <1>4 DEF Gateway!Of
<1> QED BY <1>1, <1>5

\* The screen is as it was, or the job whose turn it is has changed it.
Driven ==
  \/ UNCHANGED strokes
  \/ /\ jobs[1].command \notin Reading
     /\ \E s \in Stroke :
          /\ strokes' = Append(strokes, s)
          /\ s.call = jobs[1].call /\ s.at = jobs[1].at /\ s.x = jobs[1].x

LEMMA DrivenKeeps ==
  ASSUME GatewayInv, 1 \in 1 .. Len(jobs), Driven
  PROVE  /\ strokes' \in Seq(Stroke) /\ Len(strokes') \in Nat /\ Len(strokes') >= Len(strokes)
         /\ \A i, k \in 1 .. Len(strokes') : i < k => Follows(strokes'[i], strokes'[k])
         /\ \A i \in 1 .. Len(strokes'), k \in 1 .. Len(jobs) : Follows(strokes'[i], jobs[k])
         /\ \A i \in 1 .. Len(strokes') :
              /\ strokes'[i].call <= call.n
              /\ Gateway!Making /\ strokes'[i].call = call.n =>
                   strokes'[i].at <= call.at /\ strokes'[i].x = call.x
              /\ i > last.shows => strokes'[i].call > last.call
         /\ \A n, at : ~(n = jobs[1].call /\ at = jobs[1].at) =>
              /\ Gateway!Of(n, at)' = Gateway!Of(n, at)
              /\ \A c \in CommandName : Gateway!IsDone(n, at, c) => Gateway!IsDone(n, at, c)'
<1>1. GatewayTypes /\ JobsOK /\ StrokesOK /\ ShotOK
  BY DEF GatewayInv
<1>2. PICK len \in Nat : len = Len(strokes) /\ strokes \in Seq(Stroke)
  BY <1>1 DEF GatewayTypes
<1>3. CASE UNCHANGED strokes
  BY <1>1, <1>2, <1>3, DoneSame DEF StrokesOK, ShotOK
<1>4. ASSUME NEW s \in Stroke, strokes' = Append(strokes, s),
             s.call = jobs[1].call, s.at = jobs[1].at, s.x = jobs[1].x
      PROVE  /\ strokes' \in Seq(Stroke) /\ Len(strokes') = len + 1
             /\ \A i, k \in 1 .. len + 1 : i < k => Follows(strokes'[i], strokes'[k])
             /\ \A i \in 1 .. len + 1, k \in 1 .. Len(jobs) : Follows(strokes'[i], jobs[k])
             /\ \A i \in 1 .. len + 1 :
                  /\ strokes'[i].call <= call.n
                  /\ Gateway!Making /\ strokes'[i].call = call.n =>
                       strokes'[i].at <= call.at /\ strokes'[i].x = call.x
                  /\ i > last.shows => strokes'[i].call > last.call
  <2>1. /\ strokes' \in Seq(Stroke) /\ Len(strokes') = len + 1 /\ strokes'[len + 1] = s
        /\ \A i \in 1 .. len : strokes'[i] = strokes[i]
    BY <1>2, <1>4
  <2>2. \A i \in 1 .. len + 1 : i \in 1 .. len \/ i = len + 1
    BY <1>2
  <2>3. JobOK(1) /\ jobs[1] \in JobRecord /\ Len(jobs) \in Nat
    BY <1>1 DEF JobsOK, GatewayTypes
  <2>4. \A i \in 1 .. len : Follows(strokes[i], s)
    BY <1>1, <1>2, <1>4 DEF StrokesOK, Follows
  <2>5. \A k \in 1 .. Len(jobs) : Follows(s, jobs[k])
    <3> SUFFICES ASSUME NEW k \in 1 .. Len(jobs) PROVE Follows(s, jobs[k])
      OBVIOUS
    <3>1. CASE k = 1
      BY <1>4, <2>3, <3>1 DEF Follows, JobRecord
    <3>2. CASE k # 1
      <4>1. Follows(jobs[1], jobs[k])
        BY <1>1, <2>3, <3>2 DEF JobsOK
      <4> QED BY <1>4, <4>1 DEF Follows
    <3> QED BY <3>1, <3>2
  <2>6. ASSUME NEW i \in 1 .. len + 1, NEW k \in 1 .. len + 1, i < k
        PROVE  Follows(strokes'[i], strokes'[k])
    <3>1. i \in 1 .. len
      BY <1>2, <2>6
    <3>2. CASE k \in 1 .. len
      <4>1. Follows(strokes[i], strokes[k])
        BY <1>1, <1>2, <2>6, <3>1, <3>2 DEF StrokesOK
      <4> QED BY <2>1, <3>1, <3>2, <4>1
    <3> QED BY <2>1, <2>2, <2>4, <3>1, <3>2
  <2>7. \A i \in 1 .. len + 1, k \in 1 .. Len(jobs) : Follows(strokes'[i], jobs[k])
    BY <1>1, <1>2, <2>1, <2>2, <2>5 DEF StrokesOK
  <2>8. /\ s.call <= call.n /\ s.call > last.call
        /\ Gateway!Making /\ s.call = call.n => s.at <= call.at /\ s.x = call.x
    <3>1. call.at \in Nat
      BY <1>1 DEF GatewayTypes, CallRecord
    <3> QED BY <1>4, <2>3, <3>1 DEF JobOK
  <2>9. \A i \in 1 .. len :
          /\ strokes[i].call <= call.n
          /\ Gateway!Making /\ strokes[i].call = call.n =>
               strokes[i].at <= call.at /\ strokes[i].x = call.x
          /\ i > last.shows => strokes[i].call > last.call
    BY <1>1, <1>2 DEF StrokesOK, ShotOK
  <2>10. \A i \in 1 .. len + 1 :
           /\ strokes'[i].call <= call.n
           /\ Gateway!Making /\ strokes'[i].call = call.n =>
                strokes'[i].at <= call.at /\ strokes'[i].x = call.x
           /\ i > last.shows => strokes'[i].call > last.call
    BY <2>1, <2>2, <2>8, <2>9
  <2> QED BY <2>1, <2>6, <2>7, <2>10
<1>5. ASSUME ~UNCHANGED strokes
      PROVE  \A n, at : ~(n = jobs[1].call /\ at = jobs[1].at) =>
               /\ Gateway!Of(n, at)' = Gateway!Of(n, at)
               /\ \A c \in CommandName : Gateway!IsDone(n, at, c) => Gateway!IsDone(n, at, c)'
  <2>1. PICK s \in Stroke : /\ strokes' = Append(strokes, s)
                            /\ s.call = jobs[1].call /\ s.at = jobs[1].at
    BY <1>5 DEF Driven
  <2> QED BY <1>2, <2>1, OtherStroke
<1>6. CASE ~UNCHANGED strokes
  <2>1. PICK s \in Stroke : /\ strokes' = Append(strokes, s)
                            /\ s.call = jobs[1].call /\ s.at = jobs[1].at /\ s.x = jobs[1].x
    BY <1>6 DEF Driven
  <2>2. Len(strokes') = len + 1
    BY <1>4, <2>1
  <2>3. Len(strokes') \in Nat /\ Len(strokes') >= Len(strokes)
    BY <1>2, <2>2
  <2> QED BY <1>4, <1>5, <1>6, <2>1, <2>2, <2>3
<1> QED BY <1>3, <1>6

\* What calls that went well did, and what the call did before, stays done.
LEMMA DrivenDone ==
  ASSUME GatewayInv, 1 \in 1 .. Len(jobs), Driven
  PROVE  /\ UNCHANGED ended => Gateway!DoneInFull'
         /\ Gateway!Making => \A at \in DOMAIN Gateway!Commands(call.kind) : \A n, c :
              at < call.at /\ n = call.n /\ c = Gateway!Commands(call.kind)[at] =>
                Gateway!IsDone(n, at, c)'
<1>1. GatewayTypes /\ JobOK(1) /\ ShotOK /\ DoneOK
  BY DEF GatewayInv, JobsOK
<1>2. \A n, at : ~(n = jobs[1].call /\ at = jobs[1].at) =>
        \A c \in CommandName : Gateway!IsDone(n, at, c) => Gateway!IsDone(n, at, c)'
  BY DrivenKeeps
<1>3. \A kind \in Gateway!Kinds : \A at \in DOMAIN Gateway!Commands(kind) :
        at \in Nat /\ Gateway!Commands(kind)[at] \in CommandName
  <2> SUFFICES ASSUME NEW kind \in Gateway!Kinds, NEW at \in DOMAIN Gateway!Commands(kind)
               PROVE  at \in Nat /\ Gateway!Commands(kind)[at] \in CommandName
    OBVIOUS
  <2> DEFINE cs == Gateway!Commands(kind)
             p == cs \o Gateway!Captures("full")
  <2>1. /\ p \in Seq(CommandName) /\ Len(p) > Len(cs) /\ Len(cs) \in Nat /\ DOMAIN cs = 1 .. Len(cs)
        /\ \A k \in 1 .. Len(cs) : p[k] = cs[k]
    BY ProgramIs, Zenon
  <2> HIDE DEF p, cs
  <2>2. at \in 1 .. Len(cs)
    BY <2>1 DEF cs
  <2>3. at \in 1 .. Len(p)
    BY <2>1, <2>2
  <2> QED BY <2>1, <2>2, <2>3 DEF cs
<1>4. ASSUME UNCHANGED ended PROVE Gateway!DoneInFull'
  <2> SUFFICES ASSUME NEW n \in DOMAIN ended', ended'[n].well,
                      NEW at \in DOMAIN Gateway!Commands(ended[n].kind)'
               PROVE  Gateway!IsDone(n, at, Gateway!Commands(ended[n].kind)[at])'
    BY DEF Gateway!DoneInFull
  <2>0. /\ ended' = ended /\ n \in DOMAIN ended /\ ended[n].well
        /\ at \in DOMAIN Gateway!Commands(ended[n].kind)
    <3>1. ended' = ended
      BY <1>4
    <3>2. Gateway!Commands(ended[n].kind)' = Gateway!Commands(ended[n].kind)
      BY <3>1 DEF Gateway!Commands
    <3> QED BY <3>1, <3>2
  <2>1. n \in 1 .. Len(ended) /\ ended[n] \in EndedRecord /\ last.call \in Nat /\ jobs[1].call \in Nat
    <3>1. /\ ended \in Seq(EndedRecord) /\ last \in LastRecord /\ jobs \in Seq(JobRecord)
          /\ 1 \in 1 .. Len(jobs)
      BY <1>1 DEF GatewayTypes
    <3>2. n \in 1 .. Len(ended) /\ ended[n] \in EndedRecord
      BY <2>0, <3>1
    <3>3. jobs[1] \in JobRecord
      BY <3>1
    <3> QED BY <3>1, <3>2, <3>3 DEF LastRecord, JobRecord
  <2>2. n # jobs[1].call
    BY <1>1, <2>0, <2>1 DEF ShotOK, JobOK
  <2>3. Gateway!Commands(ended[n].kind)[at] \in CommandName
    BY <1>3, <2>0, <2>1 DEF EndedRecord
  <2>4. Gateway!IsDone(n, at, Gateway!Commands(ended[n].kind)[at])
    BY <1>1, <2>0 DEF DoneOK, Gateway!DoneInFull
  <2> DEFINE c == Gateway!Commands(ended[n].kind)[at]
  <2>5. PICK d \in CommandName : d = c
    BY <2>3
  <2>6. Gateway!IsDone(n, at, d)'
    BY <1>2, <2>2, <2>4, <2>5
  <2>7. (Gateway!Commands(ended[n].kind)[at])' = d
    BY <1>4, <2>5 DEF Gateway!Commands
  <2> QED BY <2>6, <2>7
<1>5. ASSUME Gateway!Making, NEW at \in DOMAIN Gateway!Commands(call.kind), NEW n, NEW c,
             at < call.at, n = call.n, c = Gateway!Commands(call.kind)[at]
      PROVE  Gateway!IsDone(n, at, c)'
  <2>1. at \in Nat /\ c \in CommandName /\ call.at \in Nat
    BY <1>1, <1>3, <1>5 DEF GatewayTypes, CallRecord
  <2>2. Gateway!IsDone(n, at, c)
    BY <1>1, <1>5 DEF DoneOK, EarlierDone
  <2>3. ~(n = jobs[1].call /\ at = jobs[1].at)
    BY <1>1, <1>5, <2>1 DEF JobOK
  <2> QED BY <1>2, <2>1, <2>2, <2>3
<1> QED BY <1>4, <1>5

\* The call is as it was: the one that made it is not answered yet, or does not hear it.
LEMMA DriveStays ==
  ASSUME GatewayInv, 1 \in 1 .. Len(jobs), Driven, NEW g, Selects(g), SameHeard(g),
         Gateway!Heard => Gateway!Heard', UNCHANGED <<call, last, ended, request, shot, window>>,
         pointer' \in Pixel, pointer' = pointer \/ jobs[1].command # "scroll_direction",
         HeardIsUnderway'
  PROVE  GatewayInv'
<1>1. GatewayTypes /\ ProgramOK /\ JobsOK /\ ShotOK /\ DoneOK /\ ImageOK /\ JobOK(1)
  BY DEF GatewayInv, JobsOK
<1>2. (Gateway!Making' <=> Gateway!Making) /\ Current' = Current
  BY DEF Gateway!Making, Current
<1>3. /\ strokes' \in Seq(Stroke) /\ Len(strokes') \in Nat /\ Len(strokes') >= Len(strokes)
      /\ Len(strokes) \in Nat
  BY <1>1, DrivenKeeps DEF GatewayTypes
<1>4. GatewayTypes'
  <2>1. shot' \in 0 .. Len(strokes')
    BY <1>1, <1>3 DEF GatewayTypes
  <2> QED BY <1>1, <1>3, <2>1 DEF GatewayTypes, Selects
<1>5. ProgramOK' /\ ImageOK'
  <2>1. ProgramOK'
    BY <1>1, <1>2 DEF ProgramOK
  <2> QED BY <1>1, <1>2, <2>1 DEF ImageOK, Shows
<1>6. JobsOK'
  BY JobsKept
<1>7. StrokesOK'
  <2>1. ASSUME NEW i \in 1 .. Len(strokes'), NEW k \in 1 .. Len(jobs')
        PROVE  Follows(strokes'[i], jobs'[k])
    <3>1. g[k] \in 1 .. Len(jobs)
      BY DEF Selects
    <3>2. Follows(strokes'[i], jobs[g[k]])
      BY <3>1, DrivenKeeps
    <3> QED BY <3>2 DEF Selects, Follows
  <2>2. \A i, k \in 1 .. Len(strokes') : i < k => Follows(strokes'[i], strokes'[k])
    BY DrivenKeeps
  <2>3. \A i \in 1 .. Len(strokes') :
          /\ strokes'[i].call <= call.n
          /\ Gateway!Making /\ strokes'[i].call = call.n =>
               strokes'[i].at <= call.at /\ strokes'[i].x = call.x
    BY DrivenKeeps
  <2> QED BY <1>2, <2>1, <2>2, <2>3 DEF StrokesOK
<1>8. ShotOK'
  <2>1. \A i \in 1 .. Len(strokes') : i > last.shows => strokes'[i].call > last.call
    BY DrivenKeeps
  <2>2. last.shows \in Nat
    BY <1>1 DEF GatewayTypes, LastRecord
  <2>3. ASSUME Gateway!Making, Current = "get_window_position" PROVE strokes' = strokes
    <3>1. call.at > 1
      BY <1>1, <2>3, NeverFirst
    <3>2. jobs[1].command = Current
      BY <1>1, <2>3, <3>1 DEF JobOK
    <3> QED BY <2>3, <3>2 DEF Driven, Reading, Gateway!Idempotent
  <2> QED BY <1>1, <1>2, <1>3, <2>1, <2>2, <2>3 DEF ShotOK
<1>9. EarlierDone'
  <2>1. Gateway!Commands(call.kind)' = Gateway!Commands(call.kind)
    BY DEF Gateway!Commands
  <2> SUFFICES ASSUME Gateway!Making, NEW at \in DOMAIN Gateway!Commands(call.kind), at < call.at
               PROVE  Gateway!IsDone(call.n, at, Gateway!Commands(call.kind)[at])'
    BY <1>2, <2>1 DEF EarlierDone
  <2>2. PICK n, c : n = call.n /\ c = Gateway!Commands(call.kind)[at]
    OBVIOUS
  <2>3. Gateway!IsDone(n, at, c)'
    BY <2>2, DrivenDone
  <2>4. n = call'.n /\ (Gateway!Commands(call.kind)[at])' = c
    BY <2>1, <2>2
  <2> QED BY <2>3, <2>4
<1>10. NotBegun'
  <2> SUFFICES ASSUME Gateway!Making, ~Gateway!Heard', call.attempt = 0
               PROVE  Gateway!Of(call.n, call.at)' = {}
    BY <1>2 DEF NotBegun
  <2>1. ~Gateway!Heard
    OBVIOUS
  <2>0. NotBegun
    BY <1>1 DEF DoneOK
  <2>2. Gateway!Of(call.n, call.at) = {}
    BY <2>0, <2>1 DEF NotBegun
  <2>3. ~jobs[1].heard
    BY <2>1, NobodyHeard
  <2>4. jobs[1].call < call.n /\ jobs[1].call \in Nat /\ call.n \in Nat
    <3>1. jobs[1] \in JobRecord /\ call \in CallRecord
      BY <1>1 DEF GatewayTypes
    <3>2. JobOK(1)
      BY <1>1
    <3> QED BY <2>3, <3>1, <3>2 DEF JobOK, JobRecord, CallRecord
  <2>5. PICK n, at : n = call.n /\ at = call.at
    OBVIOUS
  <2>6. n # jobs[1].call
    BY <2>4, <2>5
  <2>7. Gateway!Of(n, at)' = Gateway!Of(n, at)
    BY <2>6, DrivenKeeps
  <2> QED BY <2>2, <2>5, <2>7
<1>11. DoneOK'
  BY <1>9, <1>10, DrivenDone DEF DoneOK
<1> QED BY <1>4, <1>5, <1>6, <1>7, <1>8, <1>11 DEF GatewayInv

\* A command that is heard and was not driven is as far as it was.
LEMMA OthersUnderway ==
  ASSUME GatewayInv, 1 \in 1 .. Len(jobs), Driven, UNCHANGED strokes \/ ~jobs[1].heard,
         NEW i, NEW o \in 1 .. Len(jobs), jobs[o].heard, jobs[o].command \notin Reading,
         jobs'[i].call = jobs[o].call, jobs'[i].at = jobs[o].at,
         jobs'[i].command = jobs[o].command,
         jobs'[i].step = jobs[o].step, jobs'[i].again = jobs[o].again
  PROVE  Underway(jobs[i])'
<1> DEFINE h == jobs[o]
<1>1. GatewayTypes /\ DoneOK /\ JobOK(1) /\ JobOK(o) /\ h \in JobRecord
  BY DEF GatewayInv, JobsOK, GatewayTypes
<1>2. Underway(h)
  BY <1>1 DEF DoneOK, HeardIsUnderway
<1>3. CASE UNCHANGED strokes
  BY <1>2, <1>3, UnderwayKept
<1>4. CASE ~jobs[1].heard
  <2>1. o # 1 /\ o \in Nat /\ ~(h.step > 1) /\ ~h.again
    BY <1>1, <1>4 DEF JobOK
  <2>2. h.step = 1
    BY <1>1, <2>1 DEF JobRecord
  <2>3. Gateway!Making /\ h.call = call.n /\ h.command = Current
    <3>1. JobOK(o)
      BY <1>1
    <3> QED BY <3>1 DEF JobOK
  <2>4. call.attempt = 0
    BY <1>1, <2>3 DEF GatewayInv, ProgramOK, GatewayTypes, CallRecord
  <2>5. jobs[1].call < call.n /\ jobs[1].call \in Nat /\ call.n \in Nat
    <3>1. jobs[1] \in JobRecord /\ call \in CallRecord
      BY <1>1 DEF GatewayTypes
    <3>2. JobOK(1)
      BY <1>1
    <3> QED BY <1>4, <2>3, <2>4, <3>1, <3>2 DEF JobOK, JobRecord, CallRecord
  <2> DEFINE first == Gateway!FirstChange(h.command)
             l == Len(Gateway!DriverCalls(h.command))
  <2>6. first \in 1 .. 2 /\ first <= l /\ l \in {1, 2}
    <3>1. h.command \in CommandName
      BY <1>1 DEF JobRecord
    <3> QED BY <3>1, DriverIs
  <2>7. /\ Gateway!FirstChange(jobs[i].command)' = first
        /\ Len(Gateway!DriverCalls(jobs[i].command))' = l
    BY DEF Gateway!FirstChange, Gateway!DriverCalls
  <2>8. Len(strokes) \in Nat /\ Len(strokes') \in Nat
    BY <1>1, DrivenKeeps DEF GatewayTypes
  <2>9. Gateway!Of(h.call, h.at) = {}
    <3> DEFINE top == l - first
    <3>1. PICK begun \in 0 .. top :
            LET now == IF h.step > first THEN h.step - first ELSE 0
                from == Len(strokes) - begun - now
            IN (begun > 0 => h.again) /\ Gateway!Of(h.call, h.at) = from + 1 .. Len(strokes)
      BY <1>2 DEF Underway
    <3> HIDE DEF first, l
    <3>2. begun = 0 /\ ~(h.step > first)
      BY <2>1, <2>2, <2>6, <3>1
    <3>3. Gateway!Of(h.call, h.at) = Len(strokes) + 1 .. Len(strokes)
      BY <2>8, <3>1, <3>2
    <3> QED BY <2>8, <3>3
  <2>10. PICK n, at : n = h.call /\ at = h.at
    OBVIOUS
  <2>11. n # jobs[1].call
    BY <2>3, <2>5, <2>10
  <2>12. Gateway!Of(n, at)' = {}
    BY <2>9, <2>10, <2>11, DrivenKeeps
  <2>13. Gateway!Of(jobs[i].call, jobs[i].at)' = {}
    BY <2>10, <2>12
  <2> HIDE DEF first, l
  <2>14. 0 \in 0 .. l - first /\ Len(strokes') + 1 .. Len(strokes') = {}
    BY <2>6, <2>8
  <2> QED BY <2>2, <2>6, <2>7, <2>8, <2>13, <2>14 DEF Underway
<1> QED BY <1>3, <1>4

LEMMA HeadHeard ==
  ASSUME GatewayInv, 1 \in 1 .. Len(jobs), jobs[1].heard
  PROVE  /\ Len(jobs) = 1 /\ Gateway!Making
         /\ jobs[1].call = call.n /\ jobs[1].at = call.at /\ jobs[1].command = Current
         /\ jobs[1].x = call.x
BY DEF GatewayInv, JobsOK, JobOK

\* The command whose turn it is ends in an error.
LEMMA AnswerFails ==
  ASSUME Gateway!GatewayAssumption, GatewayInv, 1 \in 1 .. Len(jobs), Gateway!Answers(1, FALSE),
         UNCHANGED <<strokes, pointer, window, request, shot>>
  PROVE  GatewayInv'
<1>1. jobs' = Gateway!Without(1)
  BY DEF Gateway!Answers
<1>2. PICK g : /\ Selects(g) /\ SameHeard(g)
               /\ \A i \in 1 .. Len(jobs') : jobs'[i] = jobs[g[i]]
               /\ Gateway!Heard /\ ~jobs[1].heard => Gateway!Heard'
  BY <1>1, RemovalSelects
<1>3. pointer' \in Pixel /\ window' \in -1 .. Screen
  BY DEF GatewayInv, GatewayTypes
<1>4. CASE jobs[1].heard
  <2>1. Len(jobs') = 0
    BY <1>1, <1>4, HeadHeard, RemovalSelects
  <2>2. \A i \in 1 .. Len(jobs') : ~jobs'[i].heard
    BY <2>1
  <2>3. Gateway!CallFails /\ Gateway!Making
    BY <1>4, HeadHeard DEF Gateway!Answers
  <2> QED BY <1>2, <1>3, <2>2, <2>3, FailedKeeps
<1>5. CASE ~jobs[1].heard
  <2>1. UNCHANGED <<call, ended, last>>
    BY <1>5 DEF Gateway!Answers
  <2> QED BY <1>2, <1>3, <1>5, <2>1, QuietKeeps
<1> QED BY <1>4, <1>5

LEMMA DriverFailsKeeps ==
  ASSUME Gateway!GatewayAssumption, GatewayInv, NEW i, Gateway!DriverFails(i) PROVE GatewayInv'
<1>1. i = 1 /\ 1 \in 1 .. Len(jobs)
  BY DEF Gateway!DriverFails, Gateway!Running, Gateway!Turn, GatewayInv, GatewayTypes
<1> QED BY <1>1, AnswerFails DEF Gateway!DriverFails

\* The command whose turn it is goes on, or begins again.
LEMMA HeadSelects ==
  ASSUME GatewayInv, 1 \in 1 .. Len(jobs), NEW new \in JobRecord, jobs' = [jobs EXCEPT ![1] = new],
         new.call = jobs[1].call, new.at = jobs[1].at, new.command = jobs[1].command,
         new.x = jobs[1].x, new.heard = jobs[1].heard, new.cancelled = jobs[1].cancelled,
         new.step <= Len(Gateway!DriverCalls(new.command))
  PROVE  /\ Len(jobs') = Len(jobs) /\ jobs'[1] = new
         /\ \A i \in 1 .. Len(jobs) : i # 1 => jobs'[i] = jobs[i]
         /\ Gateway!Heard => Gateway!Heard'
         /\ \E g : /\ Selects(g) /\ SameHeard(g)
                   /\ \A i \in 1 .. Len(jobs') : g[i] = i
<1>1. jobs \in Seq(JobRecord) /\ Len(jobs) \in Nat /\ \A i \in 1 .. Len(jobs) : JobOK(i)
  BY DEF GatewayInv, GatewayTypes, JobsOK
<1>2. /\ jobs' \in Seq(JobRecord) /\ Len(jobs') = Len(jobs) /\ jobs'[1] = new
      /\ \A i \in 1 .. Len(jobs) : i # 1 => jobs'[i] = jobs[i]
  <2> DEFINE t == [jobs EXCEPT ![1] = new]
  <2>1. /\ t \in Seq(JobRecord) /\ Len(t) = Len(jobs) /\ t[1] = new
        /\ \A i \in 1 .. Len(jobs) : i # 1 => t[i] = jobs[i]
    <3>1. jobs \in Seq(JobRecord) /\ 1 \in 1 .. Len(jobs) /\ new \in JobRecord
      BY <1>1
    <3> QED BY ONLY <3>1
  <2> HIDE DEF t
  <2> QED BY <2>1 DEF t
<1>3. \A i \in 1 .. Len(jobs) :
        /\ jobs'[i].call = jobs[i].call /\ jobs'[i].at = jobs[i].at
        /\ jobs'[i].command = jobs[i].command /\ jobs'[i].x = jobs[i].x
        /\ jobs'[i].heard = jobs[i].heard /\ jobs'[i].cancelled = jobs[i].cancelled
        /\ jobs'[i].step <= Len(Gateway!DriverCalls(jobs'[i].command))
        /\ jobs'[i].step > 1 \/ jobs'[i].again => i = 1
  <2> SUFFICES ASSUME NEW i \in 1 .. Len(jobs)
               PROVE  /\ jobs'[i].call = jobs[i].call /\ jobs'[i].at = jobs[i].at
                      /\ jobs'[i].command = jobs[i].command /\ jobs'[i].x = jobs[i].x
                      /\ jobs'[i].heard = jobs[i].heard /\ jobs'[i].cancelled = jobs[i].cancelled
                      /\ jobs'[i].step <= Len(Gateway!DriverCalls(jobs'[i].command))
                      /\ jobs'[i].step > 1 \/ jobs'[i].again => i = 1
    OBVIOUS
  <2>1. CASE i = 1
    BY <1>2, <2>1
  <2>2. CASE i # 1
    <3>1. JobOK(i) /\ jobs'[i] = jobs[i]
      BY <1>1, <1>2, <2>2
    <3> QED BY <2>2, <3>1 DEF JobOK
  <2> QED BY <2>1, <2>2
<1>4. Gateway!Heard => Gateway!Heard'
  BY <1>1, <1>2, <1>3 DEF Gateway!Heard
<1> DEFINE g == [i \in 1 .. Len(jobs) |-> i]
<1>5. /\ g \in [1 .. Len(jobs') -> 1 .. Len(jobs)]
      /\ \A i \in 1 .. Len(jobs) : g[i] = i
  BY <1>2
<1> HIDE DEF g
<1>6. Selects(g)
  <2>1. \A i \in 1 .. Len(jobs) : jobs[i].heard => ~jobs[i].cancelled
    BY <1>1 DEF JobOK
  <2> QED BY <1>1, <1>2, <1>3, <1>5, <2>1 DEF Selects
<1>7. SameHeard(g)
  BY <1>2, <1>3, <1>5 DEF SameHeard
<1> QED BY <1>2, <1>4, <1>5, <1>6, <1>7

LEMMA ReopenKeeps ==
  ASSUME Gateway!GatewayAssumption, GatewayInv, NEW i, Gateway!Reopen(i) PROVE GatewayInv'
<1>0. i = 1 /\ 1 \in 1 .. Len(jobs)
  BY DEF Gateway!Reopen, Gateway!Running, Gateway!Turn, GatewayInv, GatewayTypes
<1>1. /\ i = 1 /\ 1 \in 1 .. Len(jobs)
      /\ IF jobs[1].again THEN Gateway!Answers(1, FALSE)
         ELSE /\ jobs' = [jobs EXCEPT ![1].again = TRUE, ![1].step = 1]
              /\ UNCHANGED <<call, ended, last>>
      /\ UNCHANGED <<strokes, pointer, window, request, shot>>
  BY <1>0 DEF Gateway!Reopen
<1>2. CASE jobs[1].again
  BY <1>1, <1>2, AnswerFails
<1>3. CASE ~jobs[1].again
  <2> DEFINE j == jobs[1]
             new == [j EXCEPT !.again = TRUE, !.step = 1]
  <2>1. /\ j \in JobRecord /\ jobs \in Seq(JobRecord) /\ JobOK(1) /\ GatewayTypes /\ DoneOK
    BY <1>1 DEF GatewayInv, GatewayTypes, JobsOK
  <2>2. /\ new \in JobRecord /\ new.call = j.call /\ new.at = j.at /\ new.command = j.command
        /\ new.x = j.x /\ new.heard = j.heard /\ new.cancelled = j.cancelled
        /\ new.step = 1 /\ new.again = TRUE
    BY <2>1 DEF JobRecord
  <2>3. jobs' = [jobs EXCEPT ![1] = new]
    BY <1>1, <1>3
  <2> HIDE DEF new
  <2> DEFINE first == Gateway!FirstChange(j.command)
             l == Len(Gateway!DriverCalls(j.command))
  <2>4. /\ first \in 1 .. 2 /\ l \in 1 .. 2 /\ j.step \in 1 .. l
        /\ j.command \notin Reading => first <= l
    <3>1. j.command \in CommandName /\ j.step \in {1, 2}
      BY <2>1 DEF JobRecord
    <3>2. first \in 1 .. 2 /\ l \in {1, 2} /\ (j.command \notin Reading => first <= l)
      BY <3>1, DriverIs
    <3>3. j.step <= l
      BY <2>1 DEF JobOK
    <3> HIDE DEF first, l
    <3> QED BY <3>1, <3>2, <3>3
  <2>5. new.step <= Len(Gateway!DriverCalls(new.command))
    <3>1. Gateway!DriverCalls(new.command) = Gateway!DriverCalls(j.command)
      BY <2>2
    <3>2. new.step <= l
      BY <2>2, <2>4
    <3> QED BY <3>1, <3>2, Zenon
  <2>6. /\ Len(jobs') = Len(jobs) /\ jobs'[1] = new
        /\ \A k \in 1 .. Len(jobs) : k # 1 => jobs'[k] = jobs[k]
        /\ Gateway!Heard => Gateway!Heard'
        /\ \E g : /\ Selects(g) /\ SameHeard(g)
                  /\ \A k \in 1 .. Len(jobs') : g[k] = k
    BY <1>1, <2>2, <2>3, <2>5, HeadSelects
  <2>7. PICK g : Selects(g) /\ SameHeard(g)
    BY <2>6
  <2>8. Driven /\ UNCHANGED strokes
    BY <1>1 DEF Driven
  <2>9. ASSUME j.heard, j.command \notin Reading PROVE Underway(jobs[1])'
    <3> DEFINE now == IF j.step > first THEN j.step - first ELSE 0
    <3>1. PICK begun \in 0 .. l - first :
            LET from == Len(strokes) - begun - now
            IN /\ from >= 0 /\ (begun > 0 => j.again)
               /\ Gateway!Of(j.call, j.at) = from + 1 .. Len(strokes)
               /\ \A k \in 1 .. now : strokes[from + begun + k].step = first + k - 1
      <4>1. Underway(j)
        BY <1>1, <2>1, <2>9 DEF DoneOK, HeardIsUnderway
      <4> QED BY <4>1 DEF Underway
    <3>2. /\ Gateway!FirstChange(jobs[1].command)' = first
          /\ Len(Gateway!DriverCalls(jobs[1].command))' = l
          /\ jobs'[1].step = 1 /\ jobs'[1].again
      <4>1. jobs'[1].command = j.command
        BY <2>2, <2>6
      <4>2. jobs'[1].step = 1 /\ jobs'[1].again
        BY <2>2, <2>6
      <4> QED BY <4>1, <4>2 DEF Gateway!FirstChange, Gateway!DriverCalls
    <3>3. Gateway!Of(jobs[1].call, jobs[1].at)' = Gateway!Of(j.call, j.at)
      BY <2>2, <2>6, <2>8 DEF Gateway!Of
    <3>4. strokes' = strokes /\ Len(strokes) \in Nat
      BY <1>1, <2>1 DEF GatewayTypes
    <3> HIDE DEF first, l
    <3>5. begun = 0 /\ now \in 0 .. l - first
      BY <1>3, <2>4, <2>9, <3>1
    <3>6. PICK b \in 0 .. l - first : b = now
      BY <3>5
    <3> HIDE DEF now
    <3>7. /\ Len(strokes) - b >= 0 /\ Gateway!Of(j.call, j.at) = Len(strokes) - b + 1 .. Len(strokes)
          /\ \A k \in 1 .. b : strokes[Len(strokes) - b + k].step = first + k - 1
      BY <3>1, <3>4, <3>5, <3>6
    <3>8. ~(1 > first) /\ Len(strokes) - b - 0 = Len(strokes) - b /\ 1 .. 0 = {}
      BY <2>4, <3>4, <3>6
    <3> QED BY ONLY <3>2, <3>3, <3>4, <3>7, <3>8 DEF Underway
  <2>10. HeardIsUnderway'
    <3> SUFFICES ASSUME NEW k \in 1 .. Len(jobs'), jobs'[k].heard, jobs'[k].command \notin Reading
                 PROVE  Underway(jobs[k])'
      BY DEF HeardIsUnderway
    <3>1. CASE k = 1
      BY <2>2, <2>6, <2>9, <3>1
    <3>2. CASE k # 1
      <4>1. k \in 1 .. Len(jobs) /\ jobs'[k] = jobs[k]
        BY <2>6, <3>2
      <4> QED BY <1>1, <2>8, <4>1, OthersUnderway
    <3> QED BY <3>1, <3>2
  <2>11. pointer' \in Pixel /\ pointer' = pointer
    BY <1>1, <2>1 DEF GatewayTypes
  <2> QED BY <1>1, <1>3, <2>6, <2>7, <2>8, <2>10, <2>11, DriveStays
<1> QED BY <1>2, <1>3

\* What the driver did of a command that is heard, after another call of it.
LEMMA HeadGoesOn ==
  ASSUME GatewayInv, 1 \in 1 .. Len(jobs), jobs[1].heard, jobs[1].command \notin Reading,
         NEW s \in Stroke, strokes' = Append(strokes, s),
         s.call = jobs[1].call, s.at = jobs[1].at, s.step = jobs[1].step,
         jobs[1].step >= Gateway!FirstChange(jobs[1].command)
  PROVE  /\ jobs[1].step = Len(Gateway!DriverCalls(jobs[1].command)) =>
              \A n, at, c : n = jobs[1].call /\ at = jobs[1].at /\ c = jobs[1].command =>
                Gateway!IsDone(n, at, c)'
         /\ jobs[1].step < Len(Gateway!DriverCalls(jobs[1].command))
            /\ jobs'[1].call = jobs[1].call /\ jobs'[1].at = jobs[1].at
            /\ jobs'[1].command = jobs[1].command /\ jobs'[1].again = jobs[1].again
            /\ jobs'[1].step = jobs[1].step + 1 => Underway(jobs[1])'
<1> DEFINE j == jobs[1]
<1>1. j \in JobRecord /\ JobOK(1) /\ GatewayTypes /\ DoneOK /\ strokes \in Seq(Stroke)
  BY DEF GatewayInv, GatewayTypes, JobsOK
<1>2. PICK first \in 1 .. 2, l \in 1 .. 2, step \in 1 .. 2 :
        /\ first = Gateway!FirstChange(j.command) /\ l = Len(Gateway!DriverCalls(j.command))
        /\ step = j.step /\ first <= step /\ step <= l
  <2>1. j.command \in CommandName /\ j.step \in {1, 2}
    BY <1>1 DEF JobRecord
  <2>2. Gateway!FirstChange(j.command) \in 1 .. 2 /\ Len(Gateway!DriverCalls(j.command)) \in {1, 2}
    BY <2>1, DriverIs
  <2>3. j.step <= Len(Gateway!DriverCalls(j.command))
    BY <1>1 DEF JobOK
  <2> DEFINE f == Gateway!FirstChange(j.command)
             m == Len(Gateway!DriverCalls(j.command))
  <2>4. /\ f \in 1 .. 2 /\ m \in 1 .. 2 /\ j.step \in 1 .. 2 /\ f <= j.step /\ j.step <= m
        /\ f = Gateway!FirstChange(j.command) /\ m = Len(Gateway!DriverCalls(j.command))
    <3>1. f <= j.step
      OBVIOUS
    <3> HIDE DEF f, m
    <3> QED BY <2>1, <2>2, <2>3, <3>1 DEF f, m
  <2> HIDE DEF f, m
  <2> QED BY <2>4, Zenon
<1>3. PICK len \in Nat : len = Len(strokes)
  BY <1>1
<1>4. /\ Len(strokes') = len + 1 /\ strokes'[len + 1] = s
      /\ \A i \in 1 .. len : strokes'[i] = strokes[i]
  BY <1>1, <1>3
<1>5. /\ first \in 1 .. 2 /\ l \in 1 .. 2 /\ step \in 1 .. 2 /\ first <= step /\ step <= l
      /\ len \in Nat
  BY <1>2
<1>6. PICK begun \in 0 .. l - first :
        LET now == IF step > first THEN step - first ELSE 0
            from == len - begun - now
        IN /\ from >= 0 /\ (begun > 0 => j.again)
           /\ Gateway!Of(j.call, j.at) = from + 1 .. len
           /\ \A k \in 1 .. begun : strokes[from + k].step = first + k - 1
           /\ \A k \in 1 .. now : strokes[from + begun + k].step = first + k - 1
  <2>1. Underway(j)
    BY <1>1 DEF DoneOK, HeardIsUnderway
  <2> QED BY <1>2, <1>3, <2>1 DEF Underway
<1>7. PICK d \in Nat : d = step - first /\ d = IF step > first THEN step - first ELSE 0
  BY ONLY <1>5
<1>8. PICK from \in Nat : from = len - begun - d
  BY <1>6, <1>7
<1>9. /\ from \in Nat /\ begun \in Nat /\ d \in Nat /\ begun <= l - first /\ from + begun + d = len
      /\ step = first + d
  BY ONLY <1>5, <1>6, <1>7, <1>8, begun \in 0 .. l - first, from \in Nat, d \in Nat
<1>10. /\ begun > 0 => j.again
       /\ Gateway!Of(j.call, j.at) = from + 1 .. len
       /\ \A k \in 1 .. begun : strokes[from + k].step = first + k - 1
       /\ \A k \in 1 .. d : strokes[from + begun + k].step = first + k - 1
  BY <1>6, <1>7, <1>8, Zenon
<1>11. ASSUME NEW k \in 1 .. begun PROVE strokes'[from + k].step = first + k - 1
  <2>1. k \in 1 .. begun
    OBVIOUS
  <2>2. from + k \in 1 .. len
    BY ONLY <1>5, <1>9, <2>1
  <2> QED BY <1>4, <1>10, <2>2, Zenon
<1>12. ASSUME NEW k \in 1 .. d + 1 PROVE strokes'[from + begun + k].step = first + k - 1
  <2>0. k \in 1 .. d + 1
    OBVIOUS
  <2>1. CASE k \in 1 .. d
    <3>1. from + begun + k \in 1 .. len
      BY ONLY <1>5, <1>9, <2>1
    <3> QED BY <1>4, <1>10, <2>1, <3>1, Zenon
  <2>2. CASE ~(k \in 1 .. d)
    <3>1. from + begun + k = len + 1 /\ first + k - 1 = step
      BY ONLY <1>5, <1>9, <2>0, <2>2
    <3> QED BY <1>2, <1>4, <3>1
  <2> QED BY <2>1, <2>2
<1>13. ASSUME NEW n, NEW at, n = j.call, at = j.at
       PROVE  Gateway!Of(n, at)' = from + 1 .. len + 1
  <2>1. Gateway!Of(n, at)' = Gateway!Of(n, at) \cup {len + 1}
    BY <1>1, <1>3, <1>13, SameStroke
  <2>2. Gateway!Of(n, at) = from + 1 .. len
    BY <1>10, <1>13
  <2>3. (from + 1 .. len) \cup {len + 1} = from + 1 .. len + 1
    BY ONLY <1>5, <1>9
  <2> QED BY <2>1, <2>2, <2>3, Zenon
<1>14. ASSUME j.step = Len(Gateway!DriverCalls(j.command)),
              NEW n, NEW at, NEW c, n = j.call, at = j.at, c = j.command
       PROVE  Gateway!IsDone(n, at, c)'
  <2>1. Gateway!FirstChange(c) = first /\ Len(Gateway!DriverCalls(c)) = l /\ step = l
    BY <1>2, <1>14
  <2>2. /\ begun \in 0 .. l - first + 1 - 1 /\ from \in 0 .. len + 1
        /\ l - first + 1 = d + 1 /\ from + begun + (l - first + 1) = len + 1
    BY ONLY <1>5, <1>9, <2>1
  <2>3. /\ Gateway!Of(n, at)' = from + 1 .. from + begun + (l - first + 1)
        /\ \A k \in 1 .. begun : strokes'[from + k].step = first + k - 1
        /\ \A k \in 1 .. l - first + 1 : strokes'[from + begun + k].step = first + k - 1
    BY <1>11, <1>12, <1>13, <1>14, <2>2, Zenon
  <2> DEFINE f == Gateway!FirstChange(c)
             all == Len(Gateway!DriverCalls(c)) - f + 1
  <2>4. f = first /\ all = l - first + 1
    BY <2>1
  <2> HIDE DEF f, all
  <2>5. begun \in 0 .. all - 1 /\ from \in 0 .. Len(strokes')
    BY ONLY <1>4, <2>2, <2>4
  <2>6. /\ Gateway!Of(n, at)' = from + 1 .. from + begun + all
        /\ \A i \in 1 .. begun : strokes'[from + i].step = f + i - 1
        /\ \A i \in 1 .. all : strokes'[from + begun + i].step = f + i - 1
    BY ONLY <2>3, <2>4
  <2> QED BY ONLY <2>5, <2>6 DEF Gateway!IsDone, f, all
<1>15. ASSUME jobs'[1].call = j.call, jobs'[1].at = j.at, jobs'[1].command = j.command,
              jobs'[1].again = j.again, jobs'[1].step = j.step + 1
       PROVE  Underway(jobs[1])'
  <2>2. PICK n, at : n = j.call /\ at = j.at
    OBVIOUS
  <2>3. Gateway!Of(n, at)' = from + 1 .. len + 1
    BY <1>13, <2>2
  <2>4. Gateway!Of(jobs[1].call, jobs[1].at)' = from + 1 .. len + 1
    BY <1>15, <2>2, <2>3
  <2>5. jobs'[1].step = step + 1
    BY <1>2, <1>15
  <2>6. /\ step + 1 > first /\ step + 1 - first = d + 1
        /\ len + 1 - begun - (d + 1) = from /\ from >= 0 /\ begun \in 0 .. l - first
    BY ONLY <1>5, <1>9
  <2>7. begun > 0 => jobs'[1].again
    BY <1>10, <1>15
  <2> DEFINE f == Gateway!FirstChange(jobs'[1].command)
             now == IF jobs'[1].step > f THEN jobs'[1].step - f ELSE 0
             top == Len(Gateway!DriverCalls(jobs'[1].command)) - f
             o == Len(strokes') - begun - now
  <2>8. f = first /\ now = d + 1 /\ top = l - first /\ o = from
    <3>1. f = first /\ Len(Gateway!DriverCalls(jobs'[1].command)) = l
      BY <1>2, <1>15
    <3> QED BY ONLY <1>4, <2>5, <2>6, <3>1
  <2> HIDE DEF f, now, top, o
  <2>9. /\ begun \in 0 .. top /\ o >= 0 /\ (begun > 0 => jobs'[1].again)
        /\ Gateway!Of(jobs[1].call, jobs[1].at)' = o + 1 .. Len(strokes')
        /\ \A k \in 1 .. begun : strokes'[o + k].step = f + k - 1
        /\ \A k \in 1 .. now : strokes'[o + begun + k].step = f + k - 1
    <3>1. /\ begun \in 0 .. top /\ o >= 0 /\ (begun > 0 => jobs'[1].again)
          /\ Gateway!Of(jobs[1].call, jobs[1].at)' = o + 1 .. Len(strokes')
      BY <1>4, <2>4, <2>6, <2>7, <2>8
    <3>2. \A k \in 1 .. begun : strokes'[o + k].step = f + k - 1
      BY <1>11, <2>8
    <3>3. \A k \in 1 .. now : strokes'[o + begun + k].step = f + k - 1
      BY <1>12, <2>8
    <3> QED BY <3>1, <3>2, <3>3
  <2> QED BY ONLY <2>9 DEF Underway, f, now, top, o
<1> QED BY <1>14, <1>15

\* The command that is heard was answered well, and the call goes on with the next.
LEMMA NextKeeps ==
  ASSUME GatewayInv, 1 \in 1 .. Len(jobs), jobs[1].heard, Driven, jobs' = <<>>,
         call.at < Len(call.program), call' = [call EXCEPT !.at = @ + 1, !.attempt = 0],
         UNCHANGED <<last, ended, request, window>>, pointer' \in Pixel,
         shot' \in 0 .. Len(strokes'),
         Current = "move_cursor" => pointer' = call.x,
         Current = "get_desktop_state" => shot' = Len(strokes'),
         Current \notin Reading =>
           \A n, at, c : n = call.n /\ at = call.at /\ c = Current => Gateway!IsDone(n, at, c)'
  PROVE  GatewayInv'
<1>1. GatewayTypes /\ ProgramOK /\ JobOK(1) /\ ShotOK /\ DoneOK /\ ImageOK
  BY DEF GatewayInv, JobsOK
<1>2. Gateway!Making /\ jobs[1].call = call.n /\ jobs[1].at = call.at /\ jobs[1].command = Current
  BY HeadHeard
<1>3. /\ call \in CallRecord /\ call.at \in Nat /\ call.at \in 1 .. Len(call.program)
      /\ call.n = Len(ended) + 1 /\ call.program \in Seq(CommandName)
      /\ call.kind \in Gateway!Kinds /\ call.n \in Nat /\ call.x \in Pixel
      /\ call.program = Gateway!Commands(call.kind) \o Gateway!Captures(request)
  BY <1>1, <1>2 DEF GatewayTypes, CallRecord, ProgramOK
<1>4. /\ call'.n = call.n /\ call'.kind = call.kind /\ call'.x = call.x
      /\ call'.program = call.program /\ call'.at = call.at + 1 /\ call'.attempt = 0
      /\ call' \in CallRecord
  <2>1. call' = [call EXCEPT !.at = @ + 1, !.attempt = 0]
    OBVIOUS
  <2>2. call \in CallRecord
    BY <1>3
  <2>3. PICK at \in Nat : at = call.at + 1
    BY <1>3
  <2>4. call' = [call EXCEPT !.at = at, !.attempt = 0]
    BY <2>1, <2>3
  <2>5. /\ call'.n = call.n /\ call'.kind = call.kind /\ call'.x = call.x
        /\ call'.program = call.program /\ call'.at = at /\ call'.attempt = 0
    BY ONLY <2>2, <2>4 DEF CallRecord
  <2>6. call' \in CallRecord
    BY ONLY <2>2, <2>4, at \in Nat DEF CallRecord
  <2> QED BY <2>3, <2>5, <2>6
<1>5. Gateway!Making' /\ call'.at \in 1 .. Len(call.program) /\ Current' = call.program[call.at + 1]
  <2>1. Gateway!Making' /\ Current' = call.program[call.at + 1]
    BY ONLY <1>2, <1>4 DEF Gateway!Making, Current
  <2>2. call.at < Len(call.program) /\ Len(call.program) \in Nat
    BY <1>3
  <2>3. call.at + 1 \in 1 .. Len(call.program)
    BY ONLY <1>3, <2>2
  <2> QED BY <1>4, <2>1, <2>3
<1>6. \A i \in 1 .. Len(jobs') : FALSE
  OBVIOUS
<1>7. /\ strokes' \in Seq(Stroke) /\ Len(strokes') \in Nat /\ Len(strokes') >= Len(strokes)
      /\ \A i, k \in 1 .. Len(strokes') : i < k => Follows(strokes'[i], strokes'[k])
      /\ \A i \in 1 .. Len(strokes') :
           /\ strokes'[i].call <= call.n
           /\ strokes'[i].call = call.n => strokes'[i].at <= call.at /\ strokes'[i].x = call.x
           /\ i > last.shows => strokes'[i].call > last.call
  BY <1>2, DrivenKeeps
<1>8. /\ Current' = "scroll_direction" => Current = "move_cursor"
      /\ Current' = "get_window_position" => Current = "get_desktop_state"
      /\ \A at \in 1 .. Len(Gateway!Commands(call.kind)) :
           call.program[at] = Gateway!Commands(call.kind)[at] /\ call.program[at] \notin Reading
      /\ DOMAIN Gateway!Commands(call.kind) = 1 .. Len(Gateway!Commands(call.kind))
  <2> DEFINE cs == Gateway!Commands(call.kind)
             p == cs \o Gateway!Captures(request)
  <2>1. /\ \A at \in 1 .. Len(cs) : p[at] = cs[at] /\ cs[at] \notin Reading
        /\ \A at \in 1 .. Len(p) :
             /\ p[at] = "scroll_direction" => at > 1 /\ p[at - 1] = "move_cursor"
             /\ p[at] = "get_window_position" => at > 1 /\ p[at - 1] = "get_desktop_state"
        /\ DOMAIN cs = 1 .. Len(cs)
    <3>1. request \in {"full", "window"} /\ call.kind \in Gateway!Kinds
      BY <1>1, <1>3 DEF GatewayTypes
    <3> QED BY ONLY <3>1, ProgramIs, ZenonT(60)
  <2>2. p = call.program
    BY <1>3
  <2> HIDE DEF p
  <2>5. PICK k : k = call.at + 1
    OBVIOUS
  <2>3. k \in 1 .. Len(p) /\ k - 1 = call.at /\ k = call.at + 1
    BY ONLY <1>3, <1>4, <1>5, <2>2, <2>5
  <2>4. /\ p[k] = "scroll_direction" => p[call.at] = "move_cursor"
        /\ p[k] = "get_window_position" => p[call.at] = "get_desktop_state"
    <3>1. /\ p[k] = "scroll_direction" => p[k - 1] = "move_cursor"
          /\ p[k] = "get_window_position" => p[k - 1] = "get_desktop_state"
      BY <2>1, <2>3, Zenon
    <3> QED BY <2>3, <3>1
  <2> QED BY <1>5, <2>1, <2>2, <2>3, <2>4 DEF Current
<1>9. GatewayTypes'
  BY <1>1, <1>4, <1>7 DEF GatewayTypes
<1>10. ProgramOK'
  BY <1>3, <1>4, <1>5 DEF ProgramOK
<1>11. JobsOK'
  <2>1. Current' = "scroll_direction" => pointer' = call'.x
    BY <1>4, <1>8
  <2> QED BY <1>6, <2>1 DEF JobsOK
<1>12. StrokesOK'
  <2>1. \A i \in 1 .. Len(strokes') :
          /\ strokes'[i].call <= call'.n
          /\ strokes'[i].call = call'.n => strokes'[i].at <= call'.at /\ strokes'[i].x = call'.x
    <3> SUFFICES ASSUME NEW i \in 1 .. Len(strokes')
                 PROVE  /\ strokes'[i].call <= call'.n
                        /\ strokes'[i].call = call'.n =>
                             strokes'[i].at <= call'.at /\ strokes'[i].x = call'.x
      OBVIOUS
    <3>1. strokes'[i].at \in Nat
      <4>1. strokes' \in Seq(Stroke) /\ i \in 1 .. Len(strokes')
        BY <1>7
      <4>2. strokes'[i] \in Stroke
        BY ONLY <4>1
      <4> QED BY ONLY <4>2 DEF Stroke
    <3> QED BY <1>3, <1>4, <1>7, <3>1
  <2> QED BY <1>6, <1>7, <2>1 DEF StrokesOK
<1>13. ShotOK'
  <2>1. last' = last /\ ended' = ended /\ last.shows <= Len(strokes')
    BY <1>1, <1>7 DEF ShotOK, GatewayTypes, LastRecord
  <2>2. Current' = "get_window_position" => shot' = Len(strokes')
    BY <1>8
  <2> QED BY <1>1, <1>7, <2>1, <2>2 DEF ShotOK
<1>14. EarlierDone'
  <2>1. Gateway!Commands(call.kind)' = Gateway!Commands(call.kind)
    BY <1>4 DEF Gateway!Commands
  <2> SUFFICES ASSUME NEW at \in DOMAIN Gateway!Commands(call.kind), at < call.at + 1
               PROVE  Gateway!IsDone(call.n, at, Gateway!Commands(call.kind)[at])'
    BY <1>4, <2>1 DEF EarlierDone
  <2>2. PICK n, c : n = call.n /\ c = Gateway!Commands(call.kind)[at]
    OBVIOUS
  <2>3. at \in 1 .. Len(Gateway!Commands(call.kind)) /\ at \in Nat
    <3>1. at \in 1 .. Len(Gateway!Commands(call.kind))
      BY <1>8
    <3>2. Len(Gateway!Commands(call.kind)) \in Nat
      BY <1>1, <1>3, ProgramIs DEF GatewayTypes
    <3> QED BY <3>1, <3>2
  <2>4. Gateway!IsDone(n, at, c)'
    <3>1. CASE at < call.at
      BY <1>2, <2>2, <3>1, DrivenDone
    <3>2. CASE at = call.at
      <4>1. c = Current /\ Current \notin Reading
        BY <1>8, <2>2, <2>3, <3>2 DEF Current
      <4> QED BY <2>2, <3>2, <4>1
    <3> QED BY <1>3, <2>3, <3>1, <3>2
  <2>5. n = call'.n /\ (Gateway!Commands(call.kind)[at])' = c
    BY <1>4, <2>1, <2>2
  <2> QED BY <2>4, <2>5
<1>15. NotBegun'
  <2>1. PICK n, at : n = call.n /\ at = call.at + 1
    OBVIOUS
  <2>2. \A i \in 1 .. Len(strokes') : ~(strokes'[i].call = n /\ strokes'[i].at = at)
    <3> SUFFICES ASSUME NEW i \in 1 .. Len(strokes'), strokes'[i].call = n, strokes'[i].at = at
                 PROVE  FALSE
      OBVIOUS
    <3>1. strokes'[i].at <= call.at
      BY <1>7, <2>1
    <3> QED BY <1>3, <2>1, <3>1
  <2>3. DOMAIN strokes' = 1 .. Len(strokes')
    BY <1>7
  <2>4. Gateway!Of(n, at)' = {}
    BY <2>2, <2>3 DEF Gateway!Of
  <2>5. call'.n = n /\ call'.at = at
    BY <1>4, <2>1
  <2>6. Gateway!Of(call.n, call.at)' = {}
    BY <2>4, <2>5
  <2> QED BY <2>6 DEF NotBegun
<1>16. DoneOK'
  <2>1. HeardIsUnderway'
    BY <1>6 DEF HeardIsUnderway
  <2>2. Gateway!DoneInFull'
    BY DrivenDone
  <2> QED BY <1>14, <1>15, <2>1, <2>2 DEF DoneOK
<1>17. ImageOK'
  BY <1>1, <1>2, <1>4 DEF ImageOK, Shows
<1> QED BY <1>9, <1>10, <1>11, <1>12, <1>13, <1>16, <1>17 DEF GatewayInv

\* The capture was answered well, and the call ends.
LEMMA EndKeeps ==
  ASSUME Gateway!GatewayAssumption, GatewayInv, 1 \in 1 .. Len(jobs), jobs[1].heard, jobs' = <<>>,
         ~(call.at < Len(call.program)), Gateway!EndCall(TRUE),
         UNCHANGED <<strokes, pointer, window, request>>,
         shot' = IF Current = "get_desktop_state" THEN Len(strokes) ELSE shot,
         Current = "get_window_position" => Gateway!HasRegion,
         last' = LET r == IF request = "window" THEN Gateway!Region ELSE Gateway!WholeScreen
                 IN  [call |-> call.n, shows |-> shot',
                      window |-> r.window, origin |-> r.origin, width |-> r.width]
  PROVE  GatewayInv'
<1>1. GatewayTypes /\ ProgramOK /\ StrokesOK /\ ShotOK /\ DoneOK
  BY DEF GatewayInv
<1>2. Gateway!Making
  BY HeadHeard
<1>3. /\ call \in CallRecord /\ call.at \in Nat /\ call.at = Len(call.program)
      /\ call.n = Len(ended) + 1 /\ call.kind \in Gateway!Kinds /\ call.n \in Nat
      /\ call.program = Gateway!Commands(call.kind) \o Gateway!Captures(request)
      /\ request \in {"full", "window"}
  <2>1. call.program \in Seq(CommandName) /\ call.at \in 1 .. Len(call.program)
    BY <1>1, <1>2 DEF GatewayTypes, CallRecord, ProgramOK
  <2> QED BY <1>1, <1>2, <2>1 DEF GatewayTypes, CallRecord, ProgramOK
<1>4. /\ Current = IF request = "window" THEN "get_window_position" ELSE "get_desktop_state"
      /\ DOMAIN Gateway!Commands(call.kind) = 1 .. Len(Gateway!Commands(call.kind))
      /\ Len(Gateway!Commands(call.kind)) < call.at /\ Len(Gateway!Commands(call.kind)) \in Nat
  <2> DEFINE cs == Gateway!Commands(call.kind)
             p == cs \o Gateway!Captures(request)
  <2>1. /\ Len(p) > Len(cs) /\ Len(cs) \in Nat /\ DOMAIN cs = 1 .. Len(cs)
        /\ p[Len(p)] = IF request = "window" THEN "get_window_position" ELSE "get_desktop_state"
    <3>1. request \in {"full", "window"} /\ call.kind \in Gateway!Kinds
      BY <1>3
    <3> QED BY ONLY <3>1, ProgramIs, ZenonT(60)
  <2>2. p = call.program
    BY <1>3
  <2> HIDE DEF p, cs
  <2> QED BY <1>3, <2>1, <2>2 DEF Current, cs
<1>5. shot' = Len(strokes) /\ strokes \in Seq(Stroke) /\ Len(strokes) \in Nat
  BY <1>1, <1>2, <1>4 DEF ShotOK, GatewayTypes
<1> DEFINE e == [kind |-> call.kind, well |-> TRUE]
<1>6. /\ ended' = Append(ended, e) /\ call' = [Gateway!Idle EXCEPT !.n = call.n]
  BY DEF Gateway!EndCall
<1>7. /\ call' \in CallRecord /\ ~Gateway!Making' /\ call'.n = call.n
  <2>1. 0 \in Pixel
    BY DEF Pixel, Gateway!GatewayAssumption
  <2>2. call' = [n |-> call.n, kind |-> "type", x |-> 0, program |-> <<>>, at |-> 1, attempt |-> 0]
    BY <1>6 DEF Gateway!Idle
  <2>3. <<>> \in Seq(CommandName) /\ "type" \in Gateway!Kinds
    BY DEF Gateway!Kinds
  <2> QED BY <1>3, <2>1, <2>2, <2>3 DEF CallRecord, Gateway!Making
<1>8. e \in EndedRecord /\ e.kind = call.kind /\ ended \in Seq(EndedRecord) /\ Len(ended) \in Nat
  BY <1>1, <1>3 DEF GatewayTypes, EndedRecord
<1> HIDE DEF e
<1>9. /\ ended' \in Seq(EndedRecord) /\ Len(ended') = Len(ended) + 1
      /\ \A m \in 1 .. Len(ended) : ended'[m] = ended[m]
      /\ ended'[Len(ended) + 1] = e /\ DOMAIN ended' = 1 .. Len(ended) + 1
  BY <1>6, <1>8
<1>10. /\ last'.call = call.n /\ last'.shows = Len(strokes) /\ last' \in LastRecord
       /\ \/ last'.window = -1 /\ last'.origin = 0 /\ last'.width = Source
          \/ \E w \in Pixel : Shows(w)'
  <2>1. CASE request = "full"
    <3>1. last' = [call |-> call.n, shows |-> Len(strokes), window |-> -1, origin |-> 0, width |-> Source]
      BY <1>5, <2>1 DEF Gateway!WholeScreen
    <3>2. Source \in Nat
      BY DEF Gateway!GatewayAssumption
    <3> QED BY <1>3, <1>5, <3>1, <3>2 DEF LastRecord
  <2>2. CASE request = "window"
    <3>1. window \in Pixel
      BY <1>4, <2>2 DEF Gateway!HasRegion, Pixel
    <3>2. PICK w \in Pixel : w = window
      BY <3>1
    <3> DEFINE o == (w * Source) \div Screen
               c == Gateway!CeilDiv(WindowSize * Source, Screen)
               d == Gateway!Min({c, Source - o})
    <3>3. last' = [call |-> call.n, shows |-> Len(strokes), window |-> w, origin |-> o, width |-> d]
      <4>1. Gateway!Region = [window |-> w, origin |-> o, width |-> d]
        BY <3>2 DEF Gateway!Region
      <4> HIDE DEF o, d
      <4> QED BY <1>5, <2>2, <4>1
    <3>4. o \in Nat /\ d \in Nat
      BY WindowImage
    <3>5. w \in Int
      BY <3>1, <3>2 DEF Pixel
    <3>6. last'.window = w /\ last'.origin = o /\ last'.width = d
      BY <3>3
    <3>7. Shows(w)'
      BY <3>6 DEF Shows
    <3> HIDE DEF o, d
    <3> QED BY <1>3, <1>5, <3>3, <3>4, <3>5, <3>7 DEF LastRecord
  <2> QED BY <1>3, <2>1, <2>2
<1>11. GatewayTypes'
  <2>1. jobs' \in Seq(JobRecord) /\ shot' \in 0 .. Len(strokes)
    BY <1>5
  <2> QED BY <1>1, <1>7, <1>9, <1>10, <2>1 DEF GatewayTypes
<1>12. ProgramOK'
  BY <1>3, <1>7, <1>9 DEF ProgramOK
<1>13. \A i \in 1 .. Len(jobs') : FALSE
  OBVIOUS
<1>14. JobsOK' /\ StrokesOK'
  <2>1. JobsOK'
    BY <1>7, <1>13 DEF JobsOK
  <2> QED BY <1>1, <1>7, <1>13, <2>1 DEF StrokesOK
<1>15. ShotOK'
  <2>1. \A i \in 1 .. Len(strokes) : ~(i > Len(strokes))
    BY <1>5
  <2>2. \A m \in 1 .. Len(ended) + 1 : m <= call.n
    BY <1>3, <1>8
  <2> QED BY <1>3, <1>5, <1>7, <1>9, <1>10, <2>1, <2>2 DEF ShotOK
<1>16. Gateway!DoneInFull'
  <2> SUFFICES ASSUME NEW n \in DOMAIN ended', ended'[n].well,
                      NEW at \in DOMAIN Gateway!Commands(ended[n].kind)'
               PROVE  Gateway!IsDone(n, at, Gateway!Commands(ended[n].kind)[at])'
    BY DEF Gateway!DoneInFull
  <2>1. CASE n \in 1 .. Len(ended)
    <3>1. ended'[n] = ended[n] /\ n \in DOMAIN ended
      BY <1>8, <1>9, <2>1
    <3>2. Gateway!Commands(ended[n].kind)' = Gateway!Commands(ended[n].kind)
      BY <3>1 DEF Gateway!Commands
    <3>3. Gateway!IsDone(n, at, Gateway!Commands(ended[n].kind)[at])
      BY <1>1, <3>1, <3>2 DEF DoneOK, Gateway!DoneInFull
    <3>4. PICK c : c = Gateway!Commands(ended[n].kind)[at]
      OBVIOUS
    <3>5. Gateway!IsDone(n, at, c)'
      BY <3>3, <3>4, DoneSame
    <3>6. (Gateway!Commands(ended[n].kind)[at])' = c
      BY <3>2, <3>4
    <3> QED BY <3>5, <3>6
  <2>2. CASE n = Len(ended) + 1
    <3>1. ended'[n].kind = call.kind /\ n = call.n
      BY <1>3, <1>8, <1>9, <2>2
    <3>2. Gateway!Commands(ended[n].kind)' = Gateway!Commands(call.kind)
      BY <3>1 DEF Gateway!Commands
    <3>3. at \in DOMAIN Gateway!Commands(call.kind) /\ at < call.at
      <4>1. at \in DOMAIN Gateway!Commands(call.kind)
        BY <3>2
      <4>2. at \in 1 .. Len(Gateway!Commands(call.kind))
        BY <1>4, <4>1
      <4> QED BY <1>3, <1>4, <4>1, <4>2
    <3>4. Gateway!IsDone(call.n, at, Gateway!Commands(call.kind)[at])
      BY <1>1, <1>2, <3>3 DEF DoneOK, EarlierDone
    <3>5. PICK c : c = Gateway!Commands(call.kind)[at]
      OBVIOUS
    <3>6. Gateway!IsDone(n, at, c)'
      BY <3>1, <3>4, <3>5, DoneSame
    <3>7. (Gateway!Commands(ended[n].kind)[at])' = c
      BY <3>2, <3>5
    <3> QED BY <3>6, <3>7
  <2>3. n \in 1 .. Len(ended) \/ n = Len(ended) + 1
    BY <1>8, <1>9
  <2> QED BY <2>1, <2>2, <2>3
<1>17. DoneOK'
  BY <1>7, <1>13, <1>16 DEF DoneOK, EarlierDone, NotBegun, HeardIsUnderway
<1>18. ImageOK'
  BY <1>7, <1>10 DEF ImageOK
<1> QED BY <1>11, <1>12, <1>14, <1>15, <1>17, <1>18 DEF GatewayInv

\* The last command of a call captures the screen.
LEMMA LastReads ==
  ASSUME GatewayInv, Gateway!Making, ~(call.at < Len(call.program)) PROVE Current \in Reading
<1>1. /\ call.kind \in Gateway!Kinds /\ request \in {"full", "window"}
      /\ call.program = Gateway!Commands(call.kind) \o Gateway!Captures(request)
      /\ call.program \in Seq(CommandName) /\ call.at \in 1 .. Len(call.program)
  BY DEF GatewayInv, GatewayTypes, ProgramOK, CallRecord
<1>2. call.at = Len(call.program)
  BY <1>1
<1> DEFINE p == Gateway!Commands(call.kind) \o Gateway!Captures(request)
<1>3. call.kind \in Gateway!Kinds /\ request \in {"full", "window"}
  BY <1>1
<1>4. p[Len(p)] = IF request = "window" THEN "get_window_position" ELSE "get_desktop_state"
  BY ONLY <1>3, ProgramIs, Zenon
<1>5. call.program = p
  BY <1>1
<1> HIDE DEF p
<1> QED BY <1>2, <1>4, <1>5 DEF Current, Reading, Gateway!Idempotent

\* A command that asks the driver before it changes something is as far after that.
LEMMA HeadAsks ==
  ASSUME GatewayInv, 1 \in 1 .. Len(jobs), jobs[1].heard, jobs[1].command \notin Reading,
         UNCHANGED strokes, jobs[1].step = 1, Gateway!FirstChange(jobs[1].command) = 2,
         jobs'[1].call = jobs[1].call, jobs'[1].at = jobs[1].at,
         jobs'[1].command = jobs[1].command, jobs'[1].again = jobs[1].again, jobs'[1].step = 2
  PROVE  Underway(jobs[1])'
<1> DEFINE j == jobs[1]
           l == Len(Gateway!DriverCalls(j.command))
<1>1. Underway(j) /\ strokes' = strokes
  BY DEF GatewayInv, DoneOK, HeardIsUnderway
<1>2. Len(strokes) \in Nat
  BY DEF GatewayInv, GatewayTypes
<1>3. PICK begun \in 0 .. l - 2 :
        LET from == Len(strokes) - begun - 0
        IN /\ from >= 0 /\ (begun > 0 => j.again)
           /\ Gateway!Of(j.call, j.at) = from + 1 .. Len(strokes)
           /\ \A k \in 1 .. begun : strokes[from + k].step = 2 + k - 1
  <2>1. j.step = 1 /\ Gateway!FirstChange(j.command) = 2 /\ ~(1 > 2)
    OBVIOUS
  <2> QED BY ONLY <1>1, <2>1 DEF Underway
<1>4. /\ Gateway!FirstChange(jobs[1].command)' = 2
      /\ Len(Gateway!DriverCalls(jobs[1].command))' = l
      /\ jobs'[1].step = 2 /\ ~(2 > 2) /\ (begun > 0 => jobs'[1].again)
  BY <1>3 DEF Gateway!FirstChange, Gateway!DriverCalls
<1>5. Gateway!Of(jobs[1].call, jobs[1].at)' = Gateway!Of(j.call, j.at)
  BY DEF Gateway!Of
<1> HIDE DEF l
<1>6. 1 .. 0 = {}
  OBVIOUS
<1> QED BY ONLY <1>1, <1>2, <1>3, <1>4, <1>5, <1>6 DEF Underway

LEMMA DriveKeeps ==
  ASSUME Gateway!GatewayAssumption, GatewayInv, NEW i, Gateway!Drive(i) PROVE GatewayInv'
<1>0. i = 1 /\ 1 \in 1 .. Len(jobs)
  BY DEF Gateway!Drive, Gateway!Running, Gateway!Turn, GatewayInv, GatewayTypes
<1> DEFINE j == jobs[1]
           ds == Gateway!DriverCalls(j.command)
           does == ds[j.step]
           where == IF does = "scroll" THEN pointer ELSE j.x
           s == [call |-> j.call, at |-> j.at, step |-> j.step, does |-> does, x |-> where]
           first == Gateway!FirstChange(j.command)
<1>1. /\ strokes' = IF does \in Gateway!Reads THEN strokes ELSE Append(strokes, s)
      /\ pointer' = IF does \in Gateway!Reads \cup {"type_text"} THEN pointer ELSE where
      /\ shot' = IF does = "get_desktop_state" /\ j.heard THEN Len(strokes) ELSE shot
      /\ IF does = "get_window_position" /\ ~Gateway!HasRegion THEN Gateway!Answers(1, FALSE)
         ELSE IF j.step = Len(ds) THEN Gateway!Answers(1, TRUE)
         ELSE jobs' = [jobs EXCEPT ![1].step = @ + 1] /\ UNCHANGED <<call, ended, last>>
      /\ UNCHANGED <<window, request>>
  BY <1>0 DEF Gateway!Drive
<1>2. /\ GatewayTypes /\ JobOK(1) /\ j \in JobRecord /\ pointer \in Pixel
      /\ strokes \in Seq(Stroke) /\ jobs \in Seq(JobRecord) /\ shot \in 0 .. Len(strokes)
      /\ Len(strokes) \in Nat
  BY <1>0 DEF GatewayInv, GatewayTypes, JobsOK
<1>3. /\ j.command \in CommandName /\ j.step \in {1, 2} /\ j.step <= Len(ds) /\ j.x \in Pixel
      /\ j.call \in Nat /\ j.at \in Nat /\ {j.heard, j.again, j.cancelled} \subseteq BOOLEAN
      /\ j.command = "scroll_direction" => pointer = j.x
  BY <1>2 DEF JobRecord, JobOK
<1>4. /\ Len(ds) \in {1, 2} /\ first \in 1 .. 2 /\ j.step \in 1 .. Len(ds)
      /\ does \in CommandName \cup {"scroll", "cursor"}
      /\ does = "scroll" => j.command = "scroll_direction"
      /\ j.command = "scroll_direction" => does \in {"cursor", "scroll"}
      /\ does = "cursor" => j.command = "scroll_direction"
      /\ j.command \in Reading => does = j.command /\ Len(ds) = 1
      /\ j.command \notin Reading => (does \in Gateway!Reads <=> j.step < first)
                                     /\ does \notin {"get_desktop_state", "get_window_position"}
      /\ does \in {"get_desktop_state", "get_window_position"} => j.command = does
      /\ j.command \notin Reading => first <= Len(ds)
  <2>1. Len(ds) \in {1, 2} /\ first \in 1 .. 2 /\ (j.command \notin Reading => first <= Len(ds))
    BY <1>3, DriverIs, Zenon
  <2>2. j.step \in 1 .. Len(ds)
    <3> HIDE DEF ds
    <3> QED BY <1>3, <2>1
  <2>3. \A t \in 1 .. Len(ds) :
          /\ ds[t] \in CommandName \cup {"scroll", "cursor"}
          /\ ds[t] = "scroll" => j.command = "scroll_direction"
          /\ j.command = "scroll_direction" => ds[t] \in {"cursor", "scroll"}
          /\ ds[t] = "cursor" => j.command = "scroll_direction"
          /\ j.command \in Reading => ds[t] = j.command /\ Len(ds) = 1
          /\ j.command \notin Reading => (ds[t] \in Gateway!Reads <=> t < first)
                                         /\ ds[t] \notin {"get_desktop_state", "get_window_position"}
          /\ ds[t] \in {"get_desktop_state", "get_window_position"} => j.command = ds[t]
    BY <1>3, DriverIs, Zenon
  <2> QED BY <2>1, <2>2, <2>3, Zenon
<1> HIDE DEF ds, does, first
<1>5. where = j.x
  BY <1>3, <1>4
<1> HIDE DEF where
<1>6. /\ j.command \in Reading => does \in Gateway!Reads
      /\ does \notin Gateway!Reads => does \in CommandName \cup {"scroll"} /\ j.command \notin Reading
  BY <1>4 DEF Reading, Gateway!Reads
<1>7. /\ s.call = j.call /\ s.at = j.at /\ s.step = j.step /\ s.x = j.x
      /\ does \notin Gateway!Reads => s \in Stroke
  BY <1>3, <1>5, <1>6 DEF Stroke
<1> HIDE DEF s
<1>8. Driven
  <2>1. CASE does \in Gateway!Reads
    BY <1>1, <2>1 DEF Driven
  <2>2. CASE does \notin Gateway!Reads
    BY <1>1, <1>6, <1>7, <2>2 DEF Driven
  <2> QED BY <2>1, <2>2
<1>9. /\ pointer' \in Pixel /\ window' \in -1 .. Screen
      /\ pointer' = pointer \/ j.command # "scroll_direction"
  <2>1. pointer' = pointer \/ pointer' = j.x
    BY <1>1, <1>5
  <2>2. window' \in -1 .. Screen
    BY <1>1, <1>2 DEF GatewayTypes
  <2> QED BY <1>2, <1>3, <2>1, <2>2
<1>10. CASE does = "get_window_position" /\ ~Gateway!HasRegion
  <2>1. does \in Gateway!Reads
    BY <1>10 DEF Gateway!Reads, Gateway!Idempotent
  <2>2. UNCHANGED <<strokes, pointer, window, request, shot>> /\ Gateway!Answers(1, FALSE)
    BY <1>1, <1>10, <2>1
  <2> QED BY <1>0, <2>2, AnswerFails
<1>11. CASE /\ ~(does = "get_window_position" /\ ~Gateway!HasRegion) /\ j.step = Len(ds)
            /\ ~j.heard
  <2>1. jobs' = Gateway!Without(1) /\ UNCHANGED <<call, ended, last>> /\ shot' = shot
    BY <1>1, <1>11 DEF Gateway!Answers
  <2>2. PICK g : /\ Selects(g) /\ SameHeard(g)
                 /\ \A k \in 1 .. Len(jobs') : jobs'[k] = jobs[g[k]]
                 /\ Gateway!Heard => Gateway!Heard'
    BY <1>0, <1>11, <2>1, RemovalSelects
  <2>3. HeardIsUnderway'
    <3> SUFFICES ASSUME NEW k \in 1 .. Len(jobs'), jobs'[k].heard, jobs'[k].command \notin Reading
                 PROVE  Underway(jobs[k])'
      BY DEF HeardIsUnderway
    <3>1. PICK o \in 1 .. Len(jobs) : jobs'[k] = jobs[o]
      <4>1. g[k] \in 1 .. Len(jobs)
        BY <2>2 DEF Selects
      <4> QED BY <2>2, <4>1
    <3> QED BY <1>0, <1>8, <1>11, <3>1, OthersUnderway
  <2> QED BY <1>0, <1>1, <1>8, <1>9, <2>1, <2>2, <2>3, DriveStays
<1>12. CASE /\ ~(does = "get_window_position" /\ ~Gateway!HasRegion) /\ j.step = Len(ds)
            /\ j.heard
  <2>1. jobs' = Gateway!Without(1) /\ Gateway!CallGoesOn
    BY <1>1, <1>12 DEF Gateway!Answers
  <2>2. /\ Len(jobs) = 1 /\ Gateway!Making /\ j.call = call.n /\ j.at = call.at
        /\ j.command = Current /\ j.x = call.x
    BY <1>0, <1>12, HeadHeard
  <2>3. jobs' = << >>
    <3>1. Len(jobs') = 0 /\ \E g : Selects(g)
      BY <1>0, <2>1, <2>2, RemovalSelects
    <3>2. jobs' \in Seq(JobRecord)
      BY <3>1 DEF Selects
    <3> QED BY <3>1, <3>2
  <2>4. CASE call.at < Len(call.program)
    <3>1. call' = [call EXCEPT !.at = @ + 1, !.attempt = 0] /\ UNCHANGED <<ended, last>>
      BY <2>1, <2>4 DEF Gateway!CallGoesOn
    <3>2. Current = "move_cursor" => pointer' = call.x
      <4> SUFFICES ASSUME j.command = "move_cursor" PROVE pointer' = j.x
        BY <2>2
      <4>1. j.command \notin Reading
        BY DEF Reading, Gateway!Idempotent
      <4>2. does = "move_cursor"
        BY <1>3 DEF does, ds, Gateway!DriverCalls
      <4>3. does \notin Gateway!Reads \cup {"type_text"}
        BY <4>2 DEF Gateway!Reads, Gateway!Idempotent
      <4> QED BY <1>1, <1>5, <4>3
    <3>3. /\ Current = "get_desktop_state" => shot' = Len(strokes')
          /\ shot' \in 0 .. Len(strokes')
      <4>1. Current = "get_desktop_state" => does = "get_desktop_state" /\ does \in Gateway!Reads
        BY <1>4, <2>2 DEF Reading, Gateway!Reads, Gateway!Idempotent
      <4>2. Len(strokes') \in Nat /\ Len(strokes') >= Len(strokes)
        BY <1>0, <1>8, DrivenKeeps
      <4>3. shot' \in 0 .. Len(strokes)
        BY <1>1, <1>2
      <4> QED BY <1>1, <1>2, <1>12, <4>1, <4>2, <4>3
    <3>4. Current \notin Reading =>
            \A n, at, c : n = call.n /\ at = call.at /\ c = Current => Gateway!IsDone(n, at, c)'
      <4> SUFFICES ASSUME j.command \notin Reading, NEW n, NEW at, NEW c,
                          n = j.call, at = j.at, c = j.command
                   PROVE  Gateway!IsDone(n, at, c)'
        BY <2>2
      <4>1. ~(j.step < first) /\ j.step >= first
        BY <1>3, <1>4, <1>12
      <4>2. does \notin Gateway!Reads
        BY <1>4, <4>1
      <4>3. /\ strokes' = Append(strokes, s) /\ s \in Stroke /\ s.call = jobs[1].call
            /\ s.at = jobs[1].at /\ s.step = jobs[1].step
        BY <1>1, <1>7, <4>2
      <4>4. /\ jobs[1].step = Len(Gateway!DriverCalls(jobs[1].command))
            /\ jobs[1].step >= Gateway!FirstChange(jobs[1].command)
        BY <1>12, <4>1 DEF ds, first
      <4> QED BY <1>0, <1>12, <4>3, <4>4, HeadGoesOn
    <3> QED BY <1>0, <1>1, <1>8, <1>9, <1>12, <2>3, <2>4, <3>1, <3>2, <3>3, <3>4, NextKeeps
  <2>5. CASE ~(call.at < Len(call.program))
    <3>1. Gateway!EndCall(TRUE)
      BY <2>1, <2>5 DEF Gateway!CallGoesOn
    <3>2. last' = LET r == IF request = "window" THEN Gateway!Region ELSE Gateway!WholeScreen
                  IN  [call |-> call.n, shows |-> shot',
                       window |-> r.window, origin |-> r.origin, width |-> r.width]
      BY <2>1, <2>5 DEF Gateway!CallGoesOn
    <3>3. Current \in Reading
      BY <2>2, <2>5, LastReads
    <3>4. does = Current /\ does \in Gateway!Reads
      BY <1>4, <1>6, <2>2, <3>3
    <3>5. UNCHANGED <<strokes, pointer, window, request>>
      BY <1>1, <3>4
    <3>6. shot' = IF Current = "get_desktop_state" THEN Len(strokes) ELSE shot
      BY <1>1, <1>12, <3>4
    <3>7. Current = "get_window_position" => Gateway!HasRegion
      BY <1>12, <3>4
    <3> QED BY <1>0, <1>12, <2>3, <2>5, <3>1, <3>2, <3>5, <3>6, <3>7, EndKeeps
  <2> QED BY <2>4, <2>5
<1>13. CASE ~(does = "get_window_position" /\ ~Gateway!HasRegion) /\ j.step # Len(ds)
  <2>1. jobs' = [jobs EXCEPT ![1].step = @ + 1] /\ UNCHANGED <<call, ended, last>>
    BY <1>1, <1>13
  <2>2. j.step = 1 /\ Len(ds) = 2 /\ j.command \notin Reading
    <3>1. PICK step, len : step = j.step /\ len = Len(ds)
      OBVIOUS
    <3>2. /\ step \in {1, 2} /\ len \in {1, 2} /\ step \in 1 .. len /\ step # len
          /\ j.command \in Reading => len = 1
      BY <1>3, <1>4, <1>13, <3>1, Zenon
    <3>3. step = 1 /\ len = 2
      BY ONLY <3>2
    <3> QED BY <3>1, <3>2, <3>3
  <2> DEFINE new == [j EXCEPT !.step = 2]
  <2>3. /\ new \in JobRecord /\ new.call = j.call /\ new.at = j.at /\ new.command = j.command
        /\ new.x = j.x /\ new.heard = j.heard /\ new.cancelled = j.cancelled
        /\ new.step = 2 /\ new.again = j.again
    BY <1>2 DEF JobRecord
  <2>4. jobs' = [jobs EXCEPT ![1] = new]
    BY <1>0, <1>2, <2>1, <2>2
  <2> HIDE DEF new
  <2>5. new.step <= Len(Gateway!DriverCalls(new.command))
    <3>1. Gateway!DriverCalls(new.command) = ds
      BY <2>3 DEF ds
    <3>2. Len(Gateway!DriverCalls(new.command)) = 2
      BY <2>2, <3>1, Zenon
    <3> QED BY <2>3, <3>2
  <2>6. /\ Len(jobs') = Len(jobs) /\ jobs'[1] = new
        /\ \A k \in 1 .. Len(jobs) : k # 1 => jobs'[k] = jobs[k]
        /\ Gateway!Heard => Gateway!Heard'
        /\ \E g : /\ Selects(g) /\ SameHeard(g)
                  /\ \A k \in 1 .. Len(jobs') : g[k] = k
    BY <1>0, <2>3, <2>4, <2>5, HeadSelects
  <2>7. PICK g : Selects(g) /\ SameHeard(g)
    BY <2>6
  <2>8. ASSUME j.heard PROVE Underway(jobs[1])'
    <3>1. CASE does \in Gateway!Reads
      BY <1>0, <1>1, <1>2, <1>4, <2>2, <2>3, <2>6, <2>8, <3>1, HeadAsks DEF first, ds
    <3>2. CASE does \notin Gateway!Reads
      <4>1. j.step >= first
        BY <1>3, <1>4, <2>2, <3>2
      <4>2. /\ strokes' = Append(strokes, s) /\ s \in Stroke /\ s.call = jobs[1].call
            /\ s.at = jobs[1].at /\ s.step = jobs[1].step
        BY <1>1, <1>7, <3>2
      <4>3. /\ jobs[1].step < Len(Gateway!DriverCalls(jobs[1].command))
            /\ jobs[1].step >= Gateway!FirstChange(jobs[1].command)
        BY <2>2, <4>1 DEF ds, first
      <4>4. /\ jobs'[1].call = jobs[1].call /\ jobs'[1].at = jobs[1].at
            /\ jobs'[1].command = jobs[1].command /\ jobs'[1].again = jobs[1].again
            /\ jobs'[1].step = jobs[1].step + 1
        BY <2>2, <2>3, <2>6
      <4> QED BY <1>0, <2>2, <2>8, <4>2, <4>3, <4>4, HeadGoesOn
    <3> QED BY <3>1, <3>2
  <2>9. HeardIsUnderway'
    <3> SUFFICES ASSUME NEW k \in 1 .. Len(jobs'), jobs'[k].heard, jobs'[k].command \notin Reading
                 PROVE  Underway(jobs[k])'
      BY DEF HeardIsUnderway
    <3>1. CASE k = 1
      BY <2>3, <2>6, <2>8, <3>1
    <3>2. CASE k # 1
      <4>1. k \in 1 .. Len(jobs) /\ jobs'[k] = jobs[k]
        BY <2>6, <3>2
      <4>2. ~jobs[1].heard
        <5>1. \A m \in 1 .. Len(jobs) : JobOK(m)
          BY DEF GatewayInv, JobsOK
        <5>2. k = Len(jobs)
          BY <4>1, <5>1 DEF JobOK
        <5> QED BY <1>2, <3>2, <5>2 DEF JobOK
      <4> QED BY <1>0, <1>8, <4>1, <4>2, OthersUnderway
    <3> QED BY <3>1, <3>2
  <2>10. shot' = shot
    BY <1>1, <1>4, <2>2
  <2> QED BY <1>0, <1>1, <1>8, <1>9, <2>1, <2>6, <2>7, <2>9, <2>10, DriveStays
<1> QED BY <1>10, <1>11, <1>12, <1>13

-----------------------------------------------------------------------------
(* Every step keeps the invariant, and it says what the screen shows. *)

LEMMA GatewayInit == ASSUME Gateway!GatewayAssumption, Gateway!Init PROVE GatewayInv
<1>1. /\ call = Gateway!Idle /\ jobs = <<>> /\ strokes = <<>> /\ pointer = 0 /\ window = 0
      /\ request = "full" /\ shot = 0 /\ last = Gateway!NoObservation /\ ended = <<>>
  BY DEF Gateway!Init
<1>2. 0 \in Pixel /\ window \in -1 .. Screen
  BY <1>1 DEF Pixel, Gateway!GatewayAssumption
<1>3. /\ call = [n |-> 0, kind |-> "type", x |-> 0, program |-> <<>>, at |-> 1, attempt |-> 0]
      /\ last = [call |-> 0, shows |-> 0, window |-> -1, origin |-> 0, width |-> 0]
  BY <1>1 DEF Gateway!Idle, Gateway!NoObservation
<1>4. /\ ~Gateway!Making /\ call.n = 0 /\ last.call = 0 /\ last.shows = 0
      /\ Len(jobs) = 0 /\ Len(strokes) = 0 /\ Len(ended) = 0 /\ DOMAIN ended = {}
      /\ jobs \in Seq(JobRecord) /\ strokes \in Seq(Stroke) /\ ended \in Seq(EndedRecord)
  BY <1>1, <1>3 DEF Gateway!Making
<1>5. call \in CallRecord /\ last \in LastRecord
  <2>1. <<>> \in Seq(CommandName) /\ "type" \in Gateway!Kinds
    BY DEF Gateway!Kinds
  <2> QED BY <1>2, <1>3, <2>1 DEF CallRecord, LastRecord
<1>6. \A i \in 1 .. 0 : FALSE
  OBVIOUS
<1>7. GatewayTypes /\ ProgramOK
  <2>1. shot \in 0 .. Len(strokes) /\ request \in {"full", "window"} /\ pointer \in Pixel
    BY <1>1, <1>2, <1>4
  <2> QED BY <1>2, <1>4, <1>5, <2>1 DEF GatewayTypes, ProgramOK
<1>8. JobsOK /\ StrokesOK /\ ShotOK
  BY <1>4, <1>6 DEF JobsOK, StrokesOK, ShotOK
<1>9. DoneOK
  BY <1>4, <1>6 DEF DoneOK, Gateway!DoneInFull, EarlierDone, NotBegun, HeardIsUnderway
<1>10. ImageOK
  BY <1>1, <1>4 DEF ImageOK
<1> QED BY <1>7, <1>8, <1>9, <1>10 DEF GatewayInv

LEMMA GatewayNext ==
  ASSUME Gateway!GatewayAssumption, GatewayInv, [Gateway!Next]_Gateway!vars PROVE GatewayInv'
<1>1. CASE Gateway!Make
  BY <1>1, MakeKeeps
<1>2. CASE Gateway!Send
  BY <1>2, SendKeeps
<1>3. CASE Gateway!Lose
  BY <1>3, LoseKeeps
<1>4. CASE Gateway!SessionEnds
  <2>1. window' \in -1 .. Screen
    BY <1>4 DEF Gateway!SessionEnds, GatewayInv, GatewayTypes
  <2> QED BY <1>4, <2>1, ElsewhereKeeps DEF Gateway!SessionEnds
<1>5. CASE Gateway!WindowMoves
  BY <1>5, ElsewhereKeeps DEF Gateway!WindowMoves
<1>6. ASSUME NEW i, Gateway!Reopen(i) PROVE GatewayInv'
  BY <1>6, ReopenKeeps
<1>7. ASSUME NEW i, Gateway!Drive(i) PROVE GatewayInv'
  BY <1>7, DriveKeeps
<1>8. ASSUME NEW i, Gateway!DriverFails(i) PROVE GatewayInv'
  BY <1>8, DriverFailsKeeps
<1>9. ASSUME NEW i, Gateway!TakesTooLong(i) PROVE GatewayInv'
  BY <1>9, TakesTooLongKeeps
<1>10. ASSUME NEW i, Gateway!Cancel(i) PROVE GatewayInv'
  BY <1>10, CancelKeeps
<1>11. CASE UNCHANGED Gateway!vars
  <2>1. window' \in -1 .. Screen
    BY <1>11 DEF Gateway!vars, GatewayInv, GatewayTypes
  <2> QED BY <1>11, <2>1, ElsewhereKeeps DEF Gateway!vars
<1> QED BY <1>1, <1>2, <1>3, <1>4, <1>5, <1>6, <1>7, <1>8, <1>9, <1>10, <1>11 DEF Gateway!Next

LEMMA GatewayShows ==
  ASSUME Gateway!GatewayAssumption, GatewayInv PROVE Gateway!ScreenIsReached
<1>1. GatewayTypes /\ StrokesOK /\ ShotOK /\ DoneOK /\ ImageOK
  BY DEF GatewayInv
<1>2. strokes \in Seq(Stroke) /\ DOMAIN strokes = 1 .. Len(strokes) /\ Len(strokes) \in Nat
      /\ last \in LastRecord
  BY <1>1 DEF GatewayTypes
<1>3. Gateway!StrokesFollowCalls
  BY <1>1, <1>2 DEF StrokesOK, Follows, Gateway!StrokesFollowCalls
<1>4. Gateway!ObservationIsFinal
  <2> SUFFICES ASSUME NEW i \in last.shows + 1 .. Len(strokes) PROVE strokes[i].call > last.call
    BY DEF Gateway!ObservationIsFinal
  <2>1. last.shows \in Nat
    BY <1>2 DEF LastRecord
  <2>2. i \in 1 .. Len(strokes) /\ i > last.shows
    BY <1>2, <2>1
  <2> QED BY <1>1, <2>2 DEF ShotOK
<1>5. Gateway!PointsAreShown
  <2>1. ASSUME NEW p \in 0 .. last.width - 1
        PROVE  LET x == Gateway!ToScreen(last, p)
               IN /\ x \in 0 .. Screen - 1
                  /\ last.window # -1 =>
                       x \in last.window - Gateway!CeilDiv(Screen, Source) .. last.window + WindowSize
    BY <1>1, <1>2, PointsOK DEF Pixel
  <2>2. ASSUME NEW s \in Gateway!ToSet(strokes), NEW t \in Gateway!ToSet(strokes), s.call = t.call
        PROVE  s.x = t.x
    <3>0. Gateway!ToSet(strokes) = {strokes[i] : i \in 1 .. Len(strokes)}
      BY <1>2 DEF Gateway!ToSet
    <3>1. PICK i \in 1 .. Len(strokes), k \in 1 .. Len(strokes) : s = strokes[i] /\ t = strokes[k]
      BY <2>2, <3>0, Zenon
    <3>2. strokes[i].call \in Nat /\ strokes[k].call \in Nat
      <4>1. strokes[i] \in Stroke /\ strokes[k] \in Stroke
        BY <1>2
      <4> QED BY <4>1 DEF Stroke
    <3>3. CASE i < k
      <4>1. Follows(strokes[i], strokes[k])
        BY <1>1, <3>3 DEF StrokesOK
      <4> QED BY <2>2, <3>1, <3>2, <4>1 DEF Follows
    <3>4. CASE k < i
      <4>1. Follows(strokes[k], strokes[i])
        BY <1>1, <3>4 DEF StrokesOK
      <4> QED BY <2>2, <3>1, <3>2, <4>1 DEF Follows
    <3>5. CASE i = k
      BY <3>1, <3>5
    <3> QED BY <1>2, <3>3, <3>4, <3>5
  <2> QED BY <2>1, <2>2 DEF Gateway!PointsAreShown
<1> QED BY <1>1, <1>3, <1>4, <1>5 DEF DoneOK, Gateway!ScreenIsReached

\* The calls of the computer tool change the screen in their order, each where the model
\* pointed, and a command that was answered well has been done in full; the image the
\* model was shown last is of the screen after everything its call and those before it
\* did (cua_gateway.py, _dispatch_serialized; computer-observation.ts, processCapture):
\* for any screen, image, window, number of calls and of failures.
THEOREM ScreenIsReachedHolds ==
  ASSUME Gateway!GatewayAssumption PROVE Gateway!Spec => []Gateway!ScreenIsReached
<1>1. Gateway!Init => GatewayInv
  BY GatewayInit
<1>2. GatewayInv /\ [Gateway!Next]_Gateway!vars => GatewayInv'
  BY GatewayNext
<1>3. GatewayInv => Gateway!ScreenIsReached
  BY GatewayShows
<1> QED BY <1>1, <1>2, <1>3, PTL DEF Gateway!Spec
=============================================================================
