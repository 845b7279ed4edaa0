--------------------------- MODULE SandboxToolProofs ---------------------------
(***************************************************************************)
(* Theorems about the smaller components around a sandbox, for any numbers *)
(* of calls and failures: the ways to a project's sandbox, the upload of a *)
(* recording, the search daemon, the computer tool, and the life of a      *)
(* project with its sandbox.  Each theorem speaks of one component, and the*)
(* components share no state: a variable of this module stands for the     *)
(* variable of that name of the component in question (`call', `box' and   *)
(* `faults' for those of several).                                         *)
(***************************************************************************)
EXTENDS SandboxAccess, Sequences, FiniteSetTheorems, TLAPS

CONSTANTS
  Attempts, None,                       \* RecordingUpload
  Clients, Daemons, RecoveriesOverlap,  \* FffDaemon
  Branches, MaxProjects                 \* ProjectSandbox, which has None too

VARIABLES
  queue, op, last, sequence, screen,    \* ComputerUse, whose calls are `call'
  row, object, pc, latest,              \* RecordingUpload
  lock, socket, daemon, client, peer,   \* FffDaemon
  project, created, abandoned, overlap  \* ProjectSandbox

Computer == INSTANCE ComputerUse
Upload == INSTANCE RecordingUpload
Search == INSTANCE FffDaemon
Project == INSTANCE ProjectSandbox

-----------------------------------------------------------------------------
(* The ways to a sandbox *)

Locals == [step : Steps, thread : Threads, of : Calls \cup {"none"},
           saw : {"started", "stopped"}, since : {"before", "after"}]
Boxes == [state : {"started", "stopped", "deleted"}, current : BOOLEAN]
Looks(c) == call[c].step \in Looking
Waits(c) == call[c].step = "wait"
Removes(c) == call[c].step \in {"wait", "delete"}
NamesDiffer == {"none", "fresh"} \cap Calls = {}

\* Whoever has the sandbox has it under its policy; the table names the lookup that
\* goes on until somebody removes the sandbox; and a lookup that had begun by then
\* is waited for.
AccessInv ==
  /\ TypeOK
  /\ \A c \in Calls : call[c].step = "policy_again" => call[c].saw = "started"
  /\ \A c \in Calls : call[c].step = "run" => box.current
  /\ \A t \in Threads : context[t] = "fresh" => box.current
  /\ recent # "none" => box.current
  /\ removal = "none" => \A c \in Calls : Looks(c) => lookup = c
  /\ removal # "asked" => \A c \in Calls : ~Removes(c)
  /\ \A c, d \in Calls : Removes(c) /\ Removes(d) => c = d
  /\ removal # "none" => \A d \in Calls : Looks(d) /\ call[d].since = "before" =>
                           \E c \in Calls : Waits(c) /\ call[c].of = d
  /\ removal # "none" /\ recent = "before" => \E c \in Calls : Waits(c)

\* A call that changes stays the local state of a call.
LEMMA CallChanges ==
  ASSUME call \in [Calls -> Locals], NEW c \in Calls, NEW s \in Steps
  PROVE  /\ \A of \in Calls : call' = [call EXCEPT ![c].step = s, ![c].of = of]
                                => call' \in [Calls -> Locals]
         /\ \A saw \in {"started", "stopped"} :
              call' = [call EXCEPT ![c].step = s, ![c].saw = saw] => call' \in [Calls -> Locals]
         /\ \A since \in {"before", "after"} :
              call' = [call EXCEPT ![c].step = s, ![c].since = since]
                => call' \in [Calls -> Locals]
<1>1. ASSUME NEW of \in Calls, call' = [call EXCEPT ![c].step = s, ![c].of = of]
      PROVE  call' \in [Calls -> Locals]
  BY <1>1 DEF Locals
<1>2. ASSUME NEW saw \in {"started", "stopped"},
             call' = [call EXCEPT ![c].step = s, ![c].saw = saw]
      PROVE  call' \in [Calls -> Locals]
  BY <1>2 DEF Locals
<1>3. ASSUME NEW since \in {"before", "after"},
             call' = [call EXCEPT ![c].step = s, ![c].since = since]
      PROVE  call' \in [Calls -> Locals]
  BY <1>3 DEF Locals
<1> QED BY <1>1, <1>2, <1>3

LEMMA AtMostOne ==
  ASSUME NEW S, NEW x, S = {} \/ S = {x}
  PROVE  Cardinality(S) <= 1
<1>1. Cardinality({}) = 0 /\ Cardinality({x}) = 1
  BY FS_EmptySet, FS_Singleton
<1> QED BY <1>1

\* What every step keeps that is no step of a removal.
LEMMA AccessGoesOn ==
  ASSUME AccessInv, TypeOK', UNCHANGED removal, box.current => box'.current,
         \A d \in Calls : call'[d].step = "policy_again" => call'[d].saw = "started",
         \A d \in Calls : call'[d].step = "run" => call[d].step = "run" \/ box'.current,
         \A t \in Threads : context'[t] = "fresh" => context[t] = "fresh" \/ box'.current,
         recent' # "none" => recent' = recent \/ box'.current,
         removal = "none" => \A d \in Calls : Looks(d)' => lookup' = d,
         \A d \in Calls : Removes(d)' => Removes(d),
         \A d \in Calls : Waits(d) => Waits(d)' /\ call'[d].of = call[d].of,
         removal # "none" => \A d \in Calls : Looks(d)' /\ call'[d].since = "before" =>
                               Looks(d) /\ call[d].since = "before",
         removal # "none" /\ recent' = "before" =>
           recent = "before" \/ \E d \in Calls : Looks(d) /\ call[d].since = "before"
  PROVE  AccessInv'
BY DEF AccessInv

\* The same for a step of one call that begins no lookup and leaves the maps.
LEMMA AccessMoves ==
  ASSUME AccessInv, NEW c \in Calls, UNCHANGED <<Caches, restricted, removal>>,
         ~Removes(c), call' \in [Calls -> Locals],
         \A d \in Calls : d # c => call'[d] = call[d],
         call'[c].step \notin {"wait", "delete"},
         Looks(c)' => Looks(c) /\ call'[c].since = call[c].since,
         call'[c].step = "policy_again" => call'[c].saw = "started",
         call'[c].step = "run" => box.current,
         box' \in Boxes, box.current => box'.current, faults' \in 0 .. MaxFaults
  PROVE  AccessInv'
<1>1. TypeOK'
  BY DEF AccessInv, TypeOK, Locals, Boxes, Caches
<1>2. \A d \in Calls : (Removes(d)' => Removes(d)) /\ (Looks(d)' => Looks(d))
  BY DEF Removes, Looks
<1>3. \A d \in Calls : Waits(d) => Waits(d)' /\ call'[d].of = call[d].of
  BY DEF Removes, Waits
<1>4. \A d \in Calls : Looks(d)' /\ call'[d].since = "before" => call[d].since = "before"
  OBVIOUS
<1>5. \A d \in Calls : call'[d].step = "policy_again" => call'[d].saw = "started"
  BY DEF AccessInv
<1>6. \A d \in Calls : call'[d].step = "run" => call[d].step = "run" \/ box'.current
  OBVIOUS
<1>7. removal = "none" => \A d \in Calls : Looks(d)' => lookup' = d
  BY <1>2 DEF AccessInv, Caches
<1> QED BY <1>1, <1>2, <1>3, <1>4, <1>5, <1>6, <1>7, AccessGoesOn DEF Caches

\* A lookup ends: for the call that made it, those that follow it, and those that
\* wait for their contexts.
LEMMA LookupEnds ==
  ASSUME AccessInv, NamesDiffer, NEW c \in Calls, Looks(c),
         NEW step \in {"run", "failed"}, NEW kept \in {"fresh", "none"},
         Ends(c, step, kept), UNCHANGED <<restricted, removal>>,
         step = "run" \/ kept = "fresh" => box'.current,
         recent' = recent \/ (recent' = call[c].since /\ box'.current),
         box' \in Boxes, box.current => box'.current, faults' \in 0 .. MaxFaults
  PROVE  AccessInv'
<1>1. call \in [Calls -> Locals] /\ context \in [Threads -> Calls \cup {"none", "fresh"}]
  BY DEF AccessInv, TypeOK, Locals
<1>2. /\ call' = [d \in Calls |-> IF d \in Served(c) THEN [call[d] EXCEPT !.step = step] ELSE call[d]]
      /\ context' = [t \in Threads |-> IF context[t] \in Served(c) THEN kept ELSE context[t]]
      /\ lookup' = IF lookup = c THEN "none" ELSE lookup
  BY DEF Ends
<1>3. \A d \in Served(c) : d \in Calls /\ (d = c \/ call[d].step \in {"follow", "join"})
  BY DEF Served, At
<1>4. c \in Served(c) /\ step \in Steps
  BY DEF Served, Steps
<1>5. \A d \in Calls : d \in Served(c) => call'[d] = [call[d] EXCEPT !.step = step]
  BY <1>2
<1>6. \A d \in Calls : d \notin Served(c) => call'[d] = call[d]
  BY <1>2
<1>7. \A d \in Calls : d \in Served(c) =>
        /\ call'[d].step = step /\ call'[d].of = call[d].of /\ call'[d].since = call[d].since
        /\ call'[d] \in Locals
  <2> SUFFICES ASSUME NEW d \in Calls, d \in Served(c)
               PROVE  /\ call'[d].step = step /\ call'[d].of = call[d].of
                      /\ call'[d].since = call[d].since /\ call'[d] \in Locals
    OBVIOUS
  <2>1. call'[d] = [call[d] EXCEPT !.step = step] /\ call[d] \in Locals
    BY <1>1, <1>5
  <2> QED BY <1>4, <2>1 DEF Locals
<1>8. call' \in [Calls -> Locals]
  BY <1>1, <1>2, <1>6, <1>7
<1>9. context' \in [Threads -> Calls \cup {"none", "fresh"}]
  BY <1>1, <1>2
<1>10. lookup' \in Calls \cup {"none"} /\ recent' \in {"none", "before", "after"}
  BY <1>1, <1>2 DEF AccessInv, TypeOK, Locals
<1>11. TypeOK'
  BY <1>8, <1>9, <1>10 DEF AccessInv, TypeOK, Locals, Boxes
<1>12. \A d \in Calls : Looks(d)' => Looks(d) /\ d # c /\ call'[d] = call[d]
  BY <1>4, <1>6, <1>7 DEF Looks, Looking
<1>13. \A d \in Calls : Removes(d)' => Removes(d)
  BY <1>6, <1>7 DEF Removes
<1>14. \A d \in Calls : Waits(d) => d \notin Served(c)
  BY <1>3 DEF Waits, Looks, Looking
<1>15. \A d \in Calls : Waits(d) => Waits(d)' /\ call'[d].of = call[d].of
  BY <1>6, <1>14 DEF Waits
<1>16. \A d \in Calls : call'[d].step = "policy_again" => call'[d].saw = "started"
  BY <1>6, <1>7 DEF AccessInv
<1>17. \A d \in Calls : call'[d].step = "run" => call[d].step = "run" \/ box'.current
  BY <1>6, <1>7
<1>18. \A t \in Threads : context'[t] = "fresh" => context[t] = "fresh" \/ box'.current
  BY <1>2
<1>19. removal = "none" => \A d \in Calls : Looks(d)' => lookup' = d
  BY <1>2, <1>12 DEF AccessInv
<1>20. recent' # "none" => recent' = recent \/ box'.current
  OBVIOUS
<1>21. removal # "none" /\ recent' = "before" =>
         recent = "before" \/ \E d \in Calls : Looks(d) /\ call[d].since = "before"
  OBVIOUS
<1>22. \A d \in Calls : Looks(d)' /\ call'[d].since = "before" =>
         Looks(d) /\ call[d].since = "before"
  BY <1>12
<1> QED BY <1>11, <1>13, <1>15, <1>16, <1>17, <1>18, <1>19, <1>20, <1>21, <1>22, AccessGoesOn

LEMMA AccessStep ==
  ASSUME MaxFaults \in Nat, NamesDiffer, AccessInv, [Next]_vars
  PROVE  AccessInv'
<1>0. /\ call \in [Calls -> Locals] /\ box \in Boxes /\ faults \in 0 .. MaxFaults
      /\ context \in [Threads -> Calls \cup {"none", "fresh"}]
      /\ lookup \in Calls \cup {"none"} /\ recent \in {"none", "before", "after"}
      /\ restricted \in BOOLEAN /\ removal \in {"none", "asked", "done"}
  BY DEF AccessInv, TypeOK, Locals, Boxes
<1> USE <1>0 DEF At, Goes, Caches, Provider
<1>1. CASE UNCHANGED vars
  BY <1>1 DEF vars, AccessInv, TypeOK, Looks, Waits, Removes
<1>2. ASSUME NEW c \in Calls, Use(c) PROVE AccessInv'
  <2>1. /\ call[c].step = "new" /\ UNCHANGED <<Caches, Provider, faults>>
        /\ context[call[c].thread] # "none"
    BY <1>2 DEF Use, Shared
  <2>2. CASE context[call[c].thread] = "fresh"
    <3>1. call' = [call EXCEPT ![c].step = "run"] /\ box.current
      BY <1>2, <2>2 DEF Use, AccessInv, Locals
    <3>2. call' \in [Calls -> Locals] /\ \A d \in Calls : d # c => call'[d] = call[d]
      BY <3>1 DEF Locals, Steps
    <3> QED BY <2>1, <3>1, <3>2, AccessMoves DEF Looks, Looking, Removes
  <2>3. CASE context[call[c].thread] # "fresh"
    <3>1. call' = [call EXCEPT ![c].step = "join", ![c].of = context[call[c].thread]]
      BY <1>2, <2>3 DEF Use, Awaits
    <3>2. context[call[c].thread] \in Calls
      BY <2>1, <2>3 DEF Locals
    <3>3. call' \in [Calls -> Locals] /\ \A d \in Calls : d # c => call'[d] = call[d]
      <4>1. "join" \in Steps
        BY DEF Steps, Looking
      <4>2. context[call[c].thread] \in Calls
        BY <3>1, <3>2
      <4>3. call' \in [Calls -> Locals]
        BY <3>1, <3>2, <4>1, <4>2, CallChanges
      <4> QED BY <3>1, <3>2, <4>3 DEF Locals
    <3> QED BY <2>1, <3>1, <3>3, AccessMoves DEF Looks, Looking, Removes
  <2> QED BY <2>2, <2>3
<1>3. ASSUME NEW c \in Calls, Create(c) PROVE AccessInv'
  <2>1. /\ call[c].step = "new" /\ UNCHANGED <<recent, box, restricted, removal, faults>>
        /\ call[c].thread \in Threads
    BY <1>3 DEF Create, Locals
  <2>2. CASE recent # "none"
    <3>1. /\ call' = [call EXCEPT ![c].step = "run"] /\ UNCHANGED lookup
          /\ context' = [context EXCEPT ![call[c].thread] = "fresh"]
      BY <1>3, <2>2 DEF Create
    <3>2. call' \in [Calls -> Locals] /\ call'[c].step = "run"
      BY <3>1 DEF Locals, Steps
    <3>3. \A d \in Calls : d # c => call'[d] = call[d]
      BY <3>1
    <3>4. box.current
      BY <2>2 DEF AccessInv
    <3>5. context' \in [Threads -> Calls \cup {"none", "fresh"}]
      BY <2>1, <3>1
    <3>6. TypeOK'
      BY <2>1, <3>1, <3>2, <3>5 DEF AccessInv, TypeOK, Locals
    <3>7. \A d \in Calls : /\ Looks(d)' => Looks(d) /\ call'[d] = call[d]
                           /\ Removes(d)' => Removes(d)
                           /\ Waits(d) => Waits(d)' /\ call'[d] = call[d]
      BY <2>1, <3>2, <3>3 DEF Looks, Looking, Removes, Waits
    <3>8. \A d \in Calls : call'[d].step = "policy_again" => call'[d].saw = "started"
      BY <3>2, <3>3 DEF AccessInv
    <3>9. removal = "none" => \A d \in Calls : Looks(d)' => lookup' = d
      BY <3>1, <3>7 DEF AccessInv
    <3> QED BY <2>1, <3>4, <3>6, <3>7, <3>8, <3>9, AccessGoesOn
  <2>3. CASE recent = "none" /\ lookup # "none"
    <3>1. /\ call' = [call EXCEPT ![c].step = "follow", ![c].of = lookup]
          /\ UNCHANGED lookup /\ context' = [context EXCEPT ![call[c].thread] = c]
      BY <1>3, <2>3 DEF Create, Awaits
    <3>2. call' \in [Calls -> Locals] /\ call'[c].step = "follow"
      <4>1. "follow" \in Steps
        BY DEF Steps, Looking
      <4>2. lookup \in Calls
        BY <2>3, <3>1
      <4>3. call' \in [Calls -> Locals]
        BY <2>3, <3>1, <4>1, <4>2, CallChanges
      <4> QED BY <2>3, <3>1, <4>3 DEF Locals
    <3>3. \A d \in Calls : d # c => call'[d] = call[d]
      BY <3>1
    <3>5. context' \in [Threads -> Calls \cup {"none", "fresh"}]
      BY <2>1, <3>1
    <3>6. TypeOK'
      BY <2>1, <3>1, <3>2, <3>5 DEF AccessInv, TypeOK, Locals
    <3>7. \A d \in Calls : /\ Looks(d)' => Looks(d) /\ call'[d] = call[d]
                           /\ Removes(d)' => Removes(d)
                           /\ Waits(d) => Waits(d)' /\ call'[d] = call[d]
      BY <2>1, <3>2, <3>3 DEF Looks, Looking, Removes, Waits
    <3>8. \A d \in Calls : call'[d].step = "policy_again" => call'[d].saw = "started"
      BY <3>2, <3>3 DEF AccessInv
    <3>9. removal = "none" => \A d \in Calls : Looks(d)' => lookup' = d
      BY <3>1, <3>7 DEF AccessInv
    <3>10. \A t \in Threads : context'[t] = "fresh" => context[t] = "fresh"
      BY <2>1, <3>1 DEF NamesDiffer
    <3>11. \A d \in Calls : call'[d].step = "run" => call[d].step = "run"
      BY <3>2, <3>3
    <3> QED BY <2>1, <3>6, <3>7, <3>8, <3>9, <3>10, <3>11, AccessGoesOn
  <2>4. CASE recent = "none" /\ lookup = "none"
    <3>1. /\ lookup' = c /\ context' = [context EXCEPT ![call[c].thread] = c]
          /\ call' = [call EXCEPT ![c].step = "get",
                        ![c].since = IF removal = "none" THEN "before" ELSE "after"]
      BY <1>3, <2>4 DEF Create
    <3>2. /\ call' \in [Calls -> Locals] /\ call'[c].step = "get"
          /\ removal # "none" => call'[c].since = "after"
      <4>1. "get" \in Steps
        BY DEF Steps, Looking
      <4>2. (IF removal = "none" THEN "before" ELSE "after") \in {"before", "after"}
        BY <3>1
      <4>3. call' \in [Calls -> Locals]
        BY <3>1, <4>1, <4>2, CallChanges
      <4> QED BY <3>1, <4>3 DEF Locals
    <3>3. \A d \in Calls : d # c => call'[d] = call[d]
      BY <3>1
    <3>5. context' \in [Threads -> Calls \cup {"none", "fresh"}]
      BY <2>1, <3>1
    <3>6. TypeOK'
      BY <2>1, <3>1, <3>2, <3>5 DEF AccessInv, TypeOK, Locals
    <3>7. \A d \in Calls : /\ Removes(d)' => Removes(d)
                           /\ Waits(d) => Waits(d)' /\ call'[d] = call[d]
      BY <2>1, <3>2, <3>3 DEF Removes, Waits
    <3>8. \A d \in Calls : call'[d].step = "policy_again" => call'[d].saw = "started"
      BY <3>2, <3>3 DEF AccessInv
    <3>9. removal = "none" => \A d \in Calls : Looks(d)' => lookup' = d
      <4>1. removal = "none" => \A d \in Calls : ~Looks(d)
        BY <2>4 DEF AccessInv, NamesDiffer
      <4> QED BY <3>1, <3>3, <4>1 DEF Looks
    <3>10. \A t \in Threads : context'[t] = "fresh" => context[t] = "fresh"
      BY <2>1, <3>1 DEF NamesDiffer
    <3>11. \A d \in Calls : call'[d].step = "run" => call[d].step = "run"
      BY <3>2, <3>3
    <3>12. removal # "none" => \A d \in Calls : Looks(d)' /\ call'[d].since = "before" =>
                                 Looks(d) /\ call[d].since = "before"
      BY <3>2, <3>3 DEF Looks
    <3> QED BY <2>1, <2>4, <3>6, <3>7, <3>8, <3>9, <3>10, <3>11, <3>12, AccessGoesOn
  <2> QED BY <2>2, <2>3, <2>4
<1>4. ASSUME NEW c \in Calls, Looks(c), LookupFails(c), UNCHANGED Provider,
             faults' \in 0 .. MaxFaults
      PROVE  AccessInv'
  BY <1>4, LookupEnds DEF LookupFails
<1>5. ASSUME NEW c \in Calls, Get(c) PROVE AccessInv'
  <2>1. CASE LookupFails(c)
    BY <1>4, <1>5, <2>1 DEF Get, Looks, Looking
  <2>2. CASE call' = [call EXCEPT ![c].step = "policy", ![c].saw = box.state] /\ UNCHANGED Caches
             /\ box.state # "deleted"
    <3>1. call' \in [Calls -> Locals] /\ \A d \in Calls : d # c => call'[d] = call[d]
      <4>1. "policy" \in Steps
        BY DEF Steps, Looking
      <4>2. box.state \in {"started", "stopped"}
        BY <2>2 DEF Boxes
      <4>3. call' \in [Calls -> Locals]
        BY <2>2, <4>1, <4>2, CallChanges
      <4> QED BY <2>2, <4>3 DEF Locals
    <3> QED BY <1>5, <2>2, <3>1, AccessMoves DEF Get, Looks, Looking, Removes
  <2> QED BY <1>5, <2>1, <2>2 DEF Get
<1>6. ASSUME NEW c \in Calls, Throttled(c) PROVE AccessInv'
  <2>1. call' \in [Calls -> Locals] /\ \A d \in Calls : d # c => call'[d] = call[d]
    BY <1>6 DEF Throttled, Locals, Steps, Looking
  <2>2. faults' \in 0 .. MaxFaults
    BY <1>6 DEF Throttled, Fault
  <2> QED BY <1>6, <2>1, <2>2, AccessMoves DEF Throttled, Looks, Looking, Removes
<1>7. ASSUME NEW c \in Calls, Fails(c) PROVE AccessInv'
  <2>1. faults' \in 0 .. MaxFaults
    BY <1>7 DEF Fails, Fault
  <2> QED BY <1>4, <1>7, <2>1 DEF Fails, Looks
<1>8. box' = [box EXCEPT !.current = TRUE] \/ box' = [box EXCEPT !.state = "started"]
        \/ UNCHANGED box => box' \in Boxes /\ (box.current => box'.current)
  BY DEF Boxes
<1>9. ASSUME NEW c \in Calls, Policy(c) PROVE AccessInv'
  <2>1. CASE LookupFails(c) /\ UNCHANGED box
    BY <1>4, <1>9, <2>1 DEF Policy, SetPolicy, Looks, Looking
  <2>2. CASE Goes(c, "start") /\ UNCHANGED Caches
    <3>1. /\ call[c].step = "policy" /\ UNCHANGED <<restricted, removal, faults>>
          /\ UNCHANGED box \/ box' = [box EXCEPT !.current = TRUE]
      BY <1>9 DEF Policy, SetPolicy
    <3>2. call' \in [Calls -> Locals] /\ \A d \in Calls : d # c => call'[d] = call[d]
      BY <2>2 DEF Locals, Steps, Looking
    <3> QED BY <1>8, <2>2, <3>1, <3>2, AccessMoves DEF Looks, Looking, Removes
  <2> QED BY <1>9, <2>1, <2>2 DEF Policy, SetPolicy
<1>10. ASSUME NEW c \in Calls, Start(c) PROVE AccessInv'
  <2>1. call[c].step = "start" /\ UNCHANGED <<restricted, removal, faults>>
    BY <1>10 DEF Start
  <2>2. CASE LookupFails(c) /\ UNCHANGED box
    BY <1>4, <2>1, <2>2 DEF Looks, Looking
  <2>3. CASE call[c].saw = "started" /\ Goes(c, "policy_again") /\ UNCHANGED <<Caches, box>>
    <3>1. /\ call' \in [Calls -> Locals] /\ \A d \in Calls : d # c => call'[d] = call[d]
          /\ call'[c].saw = "started"
      BY <2>3 DEF Locals, Steps, Looking
    <3> QED BY <1>8, <2>1, <2>3, <3>1, AccessMoves DEF Looks, Looking, Removes
  <2>4. CASE /\ call' = [call EXCEPT ![c].step = "policy_again", ![c].saw = "started"]
             /\ box' = [box EXCEPT !.state = "started"] /\ UNCHANGED Caches
    <3>1. call' \in [Calls -> Locals] /\ \A d \in Calls : d # c => call'[d] = call[d]
      <4>1. "policy_again" \in Steps
        BY DEF Steps, Looking
      <4>2. "started" \in {"started", "stopped"}
        BY <2>4
      <4>3. call' \in [Calls -> Locals]
        BY <2>4, <4>1, <4>2, CallChanges
      <4> QED BY <2>4, <4>3 DEF Locals
    <3> QED BY <1>8, <2>1, <2>4, <3>1, AccessMoves DEF Looks, Looking, Removes
  <2> QED BY <1>10, <2>2, <2>3, <2>4 DEF Start
<1>11. ASSUME NEW c \in Calls, PolicyAgain(c) PROVE AccessInv'
  <2>1. /\ call[c].step = "policy_again" /\ UNCHANGED <<restricted, removal, faults>>
        /\ call[c].saw = "started"
    BY <1>11 DEF PolicyAgain, SetPolicy, AccessInv
  <2>2. CASE LookupFails(c) /\ UNCHANGED box
    BY <1>4, <2>1, <2>2 DEF Looks, Looking
  <2>3. CASE Found(c) /\ ((box.current /\ UNCHANGED box) \/ box' = [box EXCEPT !.current = TRUE])
    <3>1. box'.current /\ box' \in Boxes
      BY <2>3 DEF Boxes
    <3> QED BY <2>1, <2>3, <3>1, LookupEnds DEF Found, Looks, Looking
  <2> QED BY <1>11, <2>1, <2>2, <2>3 DEF PolicyAgain, SetPolicy, Refused
<1>12. ASSUME NEW c \in Calls, Run(c) \/ Peek(c) \/ PeekPolicy(c) PROVE AccessInv'
  <2>1. /\ call[c].step \in {"run", "new", "peek"} /\ UNCHANGED <<Caches, restricted, removal, faults>>
        /\ UNCHANGED box \/ box' = [box EXCEPT !.current = TRUE]
    BY <1>12 DEF Run, Peek, PeekPolicy
  <2>2. \/ \E s \in {"ok", "failed"} : call' = [call EXCEPT ![c].step = s]
        \/ /\ call' = [call EXCEPT ![c].step = "peek", ![c].saw = box.state]
           /\ box.state # "deleted"
    BY <1>12 DEF Run, Peek, PeekPolicy
  <2>3. /\ call' \in [Calls -> Locals] /\ \A d \in Calls : d # c => call'[d] = call[d]
        /\ call'[c].step \in {"ok", "failed", "peek"}
    BY <2>2 DEF Locals, Boxes, Steps
  <2> QED BY <1>8, <2>1, <2>3, AccessMoves DEF Looks, Looking, Removes
<1>13. ASSUME NEW c \in Calls, Remove(c) PROVE AccessInv'
  <2>1. /\ call[c].step = "new" /\ removal = "none" /\ removal' = "asked"
        /\ UNCHANGED <<context, box, restricted, faults>>
    BY <1>13 DEF Remove, Clears
  <2>2. \A d \in Calls : ~Removes(d) /\ (Looks(d) => lookup = d)
    BY <2>1 DEF AccessInv
  <2>3. CASE lookup # "none"
    <3>1. /\ call' = [call EXCEPT ![c].step = "wait", ![c].of = lookup]
          /\ UNCHANGED <<lookup, recent>>
      BY <1>13, <2>3 DEF Remove, Awaits
    <3>2. /\ call' \in [Calls -> Locals] /\ \A d \in Calls : d # c => call'[d] = call[d]
          /\ call'[c].step = "wait" /\ call'[c].of = lookup
      <4>1. "wait" \in Steps
        BY DEF Steps, Looking
      <4>2. lookup \in Calls
        BY <2>3, <3>1
      <4>3. call' \in [Calls -> Locals]
        BY <2>3, <3>1, <4>1, <4>2, CallChanges
      <4> QED BY <2>3, <3>1, <4>3 DEF Locals
    <3> QED BY <2>1, <2>2, <3>1, <3>2
      DEF AccessInv, TypeOK, Locals, Looks, Looking, Removes, Waits
  <2>4. CASE lookup = "none"
    <3>1. /\ call' = [call EXCEPT ![c].step = "delete"]
          /\ lookup' = "none" /\ recent' = "none"
      BY <1>13, <2>4 DEF Remove, Clears
    <3>2. /\ call' \in [Calls -> Locals] /\ \A d \in Calls : d # c => call'[d] = call[d]
          /\ call'[c].step = "delete"
      BY <3>1 DEF Locals, Steps
    <3>3. \A d \in Calls : ~Looks(d)
      BY <2>2, <2>4 DEF NamesDiffer
    <3> QED BY <2>1, <2>2, <3>1, <3>2, <3>3
      DEF AccessInv, TypeOK, Locals, Looks, Looking, Removes, Waits
  <2> QED BY <2>3, <2>4
<1>14. ASSUME NEW c \in Calls, LookupSettled(c) PROVE AccessInv'
  <2>1. /\ call[c].step = "wait" /\ call[call[c].of].step \notin Looking
        /\ call' = [call EXCEPT ![c].step = "delete"]
        /\ lookup' = "none" /\ recent' = "none"
        /\ UNCHANGED <<context, box, restricted, removal, faults>>
    BY <1>14 DEF LookupSettled, Clears
  <2>2. /\ call' \in [Calls -> Locals] /\ \A d \in Calls : d # c => call'[d] = call[d]
        /\ call'[c].step = "delete"
    BY <2>1 DEF Locals, Steps
  <2>3. removal = "asked" /\ \A d \in Calls : Removes(d) => d = c
    BY <2>1 DEF AccessInv, Removes
  <2>4. \A d \in Calls : ~(Looks(d) /\ call[d].since = "before")
    BY <2>1, <2>3 DEF AccessInv, Looks, Waits, Removes
  <2>5. \A d \in Calls : (Looks(d)' => Looks(d) /\ d # c) /\ (Removes(d)' => d = c)
    BY <2>2, <2>3 DEF Looks, Looking, Removes
  <2>6. TypeOK'
    BY <2>1, <2>2 DEF TypeOK, Locals, AccessInv
  <2> QED BY <2>1, <2>2, <2>3, <2>4, <2>5, <2>6 DEF AccessInv
<1>15. ASSUME NEW c \in Calls, Delete(c) \/ DeleteFails(c) PROVE AccessInv'
  <2>1. /\ call[c].step = "delete" /\ UNCHANGED <<Caches, restricted>>
        /\ \E s \in {"ok", "failed"} : call' = [call EXCEPT ![c].step = s]
        /\ removal' \in {removal, "done"} /\ faults' \in 0 .. MaxFaults
        /\ UNCHANGED box \/ box' = [box EXCEPT !.state = "deleted"]
    BY <1>15 DEF Delete, DeleteFails, Fault
  <2>2. /\ call' \in [Calls -> Locals] /\ \A d \in Calls : d # c => call'[d] = call[d]
        /\ call'[c].step \in {"ok", "failed"}
    BY <2>1 DEF Locals, Steps
  <2>3. box' \in Boxes /\ box'.current = box.current
    BY <2>1 DEF Boxes
  <2>4. removal = "asked" /\ \A d \in Calls : Removes(d) => d = c
    BY <2>1 DEF AccessInv, Removes
  <2>5. \A d \in Calls : ~Waits(d) /\ ~Removes(d)' /\ (Looks(d)' => Looks(d) /\ d # c)
    BY <2>1, <2>2, <2>4 DEF Waits, Removes, Looks, Looking
  <2>6. recent # "before" /\ \A d \in Calls : ~(Looks(d) /\ call[d].since = "before")
    BY <2>4, <2>5 DEF AccessInv
  <2>7. TypeOK'
    BY <2>1, <2>2, <2>3, <2>4 DEF TypeOK, Locals, Boxes, AccessInv
  <2> QED BY <2>1, <2>2, <2>3, <2>4, <2>5, <2>6, <2>7 DEF AccessInv
<1>16. CASE LapseRecent \/ AutoStops \/ \E t \in Threads : Lapse(t)
  <2>1. UNCHANGED <<call, lookup, restricted, removal>>
    BY <1>16 DEF LapseRecent, AutoStops, Lapse
  <2>2. /\ \A t \in Threads : context'[t] = "fresh" => context[t] = "fresh"
        /\ context' \in [Threads -> Calls \cup {"none", "fresh"}]
        /\ recent' \in {"none", recent} /\ faults' \in 0 .. MaxFaults
        /\ UNCHANGED box \/ box' = [box EXCEPT !.state = "stopped"]
    BY <1>16 DEF LapseRecent, AutoStops, Lapse, Fault
  <2>3. box' \in Boxes /\ box'.current = box.current
    BY <2>2 DEF Boxes
  <2>4. TypeOK'
    BY <2>1, <2>2, <2>3 DEF TypeOK, Boxes, AccessInv
  <2>5. \A d \in Calls : /\ Looks(d)' <=> Looks(d)
                         /\ Removes(d)' <=> Removes(d)
                         /\ Waits(d)' <=> Waits(d)
    BY <2>1 DEF Looks, Removes, Waits
  <2> QED BY <2>1, <2>2, <2>3, <2>4, <2>5 DEF AccessInv
<1> QED BY <1>1, <1>2, <1>3, <1>5, <1>6, <1>7, <1>9, <1>10, <1>11, <1>12, <1>13, <1>14, <1>15, <1>16
  DEF Next

\* sandbox/index.ts: one lookup at a time until a removal, no command in a sandbox
\* whose policy is outdated, and no way to a removed sandbox by a lookup that had
\* begun before, for any numbers of calls and threads and any failures.
THEOREM AccessIsSoundHolds ==
  ASSUME MaxFaults \in Nat, NamesDiffer
  PROVE  Spec => []AccessIsSound
<1>1. Init => AccessInv
  <2> SUFFICES ASSUME Init PROVE AccessInv
    OBVIOUS
  <2>1. call \in [Calls -> Locals]
    BY DEF Init, Locals, Steps
  <2>2. TypeOK
    BY <2>1 DEF Init, TypeOK, Locals
  <2>3. /\ removal = "none" /\ recent = "none"
        /\ \A c \in Calls : call[c].step = "new"
        /\ \A t \in Threads : context[t] = "none"
    BY DEF Init
  <2> QED BY <2>2, <2>3 DEF AccessInv, Looks, Waits, Removes, Looking
<1>2. AccessInv => AccessIsSound
  <2> SUFFICES ASSUME AccessInv PROVE AccessIsSound
    OBVIOUS
  <2>1. OneLookup
    <3> DEFINE looking == {c \in Calls : call[c].step \in Looking}
    <3>1. ASSUME removal = "none" PROVE looking = {} \/ looking = {lookup}
      BY <3>1 DEF AccessInv, Looks
    <3>2. removal = "none" => Cardinality(looking) <= 1
      BY <3>1, AtMostOne
    <3> QED BY <3>2 DEF OneLookup
  <2>2. RunsUnderPolicy
    BY DEF AccessInv, RunsUnderPolicy, At
  <2>3. RemovedIsForgotten
    BY DEF AccessInv, RemovedIsForgotten, Waits, Removes
  <2> QED BY <2>1, <2>2, <2>3 DEF AccessIsSound
<1>3. AccessInv /\ [Next]_vars => AccessInv'
  BY AccessStep
<1> QED BY <1>1, <1>2, <1>3, PTL DEF Spec

-----------------------------------------------------------------------------
(* The upload of a recording *)

\* An object that is about to be reported is stored, and a row under upload or
\* after it names the attempt that marked it last.
UploadInv ==
  /\ Upload!TypeOK
  /\ \A a \in Attempts : pc[a] = "complete" => object
  /\ row.status # "none" => latest \in Attempts
  /\ row.status = "uploading" => row.attempt = latest
  /\ Upload!RowFollowsLatestAttempt

LEMMA UploadStep ==
  ASSUME MaxFaults \in Nat, UploadInv, [Upload!Next]_Upload!vars
  PROVE  UploadInv'
<1> USE DEF UploadInv, Upload!TypeOK, Upload!RowFollowsLatestAttempt, Upload!Uploaded,
            Upload!At, Upload!Goes, Upload!Owns, Upload!Fault, Upload!Steps
<1>1. CASE UNCHANGED Upload!vars
  BY <1>1 DEF Upload!vars
<1>2. ASSUME NEW a \in Attempts, Upload!Begin(a) PROVE UploadInv'
  BY <1>2 DEF Upload!Begin
<1>3. ASSUME NEW a \in Attempts, Upload!FindRecording(a) PROVE UploadInv'
  BY <1>3 DEF Upload!FindRecording
<1>4. ASSUME NEW a \in Attempts, Upload!MarkUploading(a) PROVE UploadInv'
  BY <1>4 DEF Upload!MarkUploading
<1>5. ASSUME NEW a \in Attempts, Upload!Store(a) PROVE UploadInv'
  <2>1. object' \in BOOLEAN /\ (object => object')
    BY <1>5 DEF Upload!Store
  <2>2. CASE object' /\ Upload!Goes(a, "complete") /\ UNCHANGED faults
    BY <1>5, <2>1, <2>2 DEF Upload!Store
  <2>3. CASE Upload!Fault /\ Upload!Goes(a, "fail")
    BY <1>5, <2>1, <2>3 DEF Upload!Store
  <2> QED BY <1>5, <2>2, <2>3 DEF Upload!Store
<1>6. ASSUME NEW a \in Attempts, Upload!MarkUploaded(a) PROVE UploadInv'
  BY <1>6 DEF Upload!MarkUploaded
<1>7. ASSUME NEW a \in Attempts, Upload!Look(a) PROVE UploadInv'
  BY <1>7 DEF Upload!Look
<1>8. ASSUME NEW a \in Attempts, Upload!MarkFailed(a) PROVE UploadInv'
  BY <1>8 DEF Upload!MarkFailed
<1>9. ASSUME NEW a \in Attempts, Upload!Dies(a) PROVE UploadInv'
  BY <1>9 DEF Upload!Dies
<1> QED BY <1>1, <1>2, <1>3, <1>4, <1>5, <1>6, <1>7, <1>8, <1>9 DEF Upload!Next

\* recordingArtifacts.ts:215: the row of a recording says what became of the
\* newest attempt, and who was told the recording is uploaded can play it, for any
\* number of attempts that begin, fail and die beside one another.
THEOREM RowFollowsLatestAttemptHolds ==
  ASSUME MaxFaults \in Nat
  PROVE  Upload!Spec => []Upload!RowFollowsLatestAttempt
<1>1. Upload!Init => UploadInv
  <2> SUFFICES ASSUME Upload!Init PROVE UploadInv
    OBVIOUS
  <2> USE DEF Upload!Init
  <2>1. Upload!TypeOK
    <3>1. faults \in 0 .. MaxFaults
      OBVIOUS
    <3>2. pc \in [Attempts -> Upload!Steps]
      BY DEF Upload!Steps
    <3>3. row \in [status : {"none", "uploading", "uploaded", "failed"},
                   attempt : Attempts \cup {None}]
      OBVIOUS
    <3> QED BY <3>1, <3>2, <3>3 DEF Upload!TypeOK
  <2>2. row.status = "none" /\ \A a \in Attempts : pc[a] = "new"
    OBVIOUS
  <2> QED BY <2>1, <2>2 DEF UploadInv, Upload!RowFollowsLatestAttempt, Upload!Uploaded, Upload!At
<1>2. UploadInv => Upload!RowFollowsLatestAttempt
  BY DEF UploadInv
<1>3. UploadInv /\ [Upload!Next]_Upload!vars => UploadInv'
  BY UploadStep
<1> QED BY <1>1, <1>2, <1>3, PTL DEF Upload!Spec

-----------------------------------------------------------------------------
(* The search daemon *)

\* Who starts a daemon or is one has the lock file: no other client starts one.
\* A lock that is old belongs to a daemon that listens or to nobody, and a client
\* that is about to remove it does so while nobody has it.
SearchInv ==
  /\ Search!TypeOK
  /\ lock.old => lock.there
  /\ \A c \in Clients : client[c] = "spawn" =>
       /\ lock.there /\ ~lock.old
       /\ \A other \in Clients : client[other] = "spawn" => other = c
       /\ \A d \in Daemons : ~Search!Runs(d)
  /\ \A d \in Daemons : Search!Runs(d) =>
       /\ lock.there
       /\ \A e \in Daemons : Search!Runs(e) => d = e
       /\ daemon[d] \in {"spawned", "starting"} => ~lock.old
       /\ daemon[d] \in {"serving", "closing"} => lock.pid = d
       /\ daemon[d] = "serving" => socket = d
  /\ \A c \in Clients : client[c] = "remove" =>
       /\ lock.old
       /\ \A other \in Clients : client[other] = "remove" => other = c
       /\ \A d \in Daemons : ~Search!Runs(d)

LEMMA SearchStep ==
  ASSUME MaxFaults \in Nat, "nobody" \notin Daemons, ~RecoveriesOverlap,
         SearchInv, [Search!Next]_Search!vars
  PROVE  SearchInv'
<1> USE DEF SearchInv, Search!TypeOK, Search!At, Search!Goes, Search!Is, Search!Becomes,
            Search!Runs, Search!Fault, Search!Steps, Search!States, Search!Nobody,
            Search!Absent, Search!Written
<1>1. CASE UNCHANGED Search!vars
  BY <1>1 DEF Search!vars
<1>2. ASSUME NEW c \in Clients, Search!Ask(c) PROVE SearchInv'
  BY <1>2 DEF Search!Ask, Search!Serving
<1>3. ASSUME NEW c \in Clients, Search!Answer(c) PROVE SearchInv'
  BY <1>3 DEF Search!Answer, Search!Connected, Search!Fails
<1>4. ASSUME NEW c \in Clients, Search!TakeLock(c) PROVE SearchInv'
  <2>1. CASE lock.there
    BY <1>4, <2>1 DEF Search!TakeLock
  <2>2. CASE ~lock.there
    <3>1. /\ \A other \in Clients : client[other] \notin {"spawn", "remove"}
          /\ \A d \in Daemons : ~Search!Runs(d)
      BY <2>2
    <3>2. /\ lock' = Search!Written(Search!Nobody)
          /\ client' = [client EXCEPT ![c] = "spawn"]
          /\ UNCHANGED <<socket, daemon, faults, peer>>
      BY <1>4, <2>2 DEF Search!TakeLock
    <3>3. Search!TypeOK' /\ lock'.there /\ ~lock'.old
      BY <3>2
    <3> QED BY <3>1, <3>2, <3>3
  <2> QED BY <2>1, <2>2
<1>5. ASSUME NEW c \in Clients, Search!Spawn(c) PROVE SearchInv'
  <2>1. CASE client' = [client EXCEPT ![c] = "poll"] /\ UNCHANGED <<lock, faults>>
    <3>1. PICK d \in Daemons : daemon' = [daemon EXCEPT ![d] = "spawned"]
      BY <1>5, <2>1 DEF Search!Spawn
    <3>2. client[c] = "spawn" /\ UNCHANGED <<socket, peer>>
      BY <1>5 DEF Search!Spawn
    <3>3. \A e \in Daemons : e # d => ~Search!Runs(e) /\ ~Search!Runs(e)'
      BY <3>1, <3>2
    <3> QED BY <2>1, <3>1, <3>2, <3>3
  <2>2. CASE lock' = Search!Absent /\ client' = [client EXCEPT ![c] = "alone"]
    <3>1. client[c] = "spawn" /\ Search!Fault /\ UNCHANGED <<socket, peer, daemon>>
      BY <1>5, <2>2 DEF Search!Spawn
    <3>2. Search!TypeOK' /\ ~lock'.old
      BY <2>2, <3>1
    <3>3. \A other \in Clients : client[other] # "remove"
      BY <3>1
    <3> QED BY <2>2, <3>1, <3>2, <3>3
  <2> QED BY <1>5, <2>1, <2>2 DEF Search!Spawn
<1>6. ASSUME NEW c \in Clients, Search!Inspect(c) PROVE SearchInv'
  BY <1>6 DEF Search!Inspect, Search!Stale
<1>7. ASSUME NEW c \in Clients, Search!RemoveLock(c) PROVE SearchInv'
  BY <1>7 DEF Search!RemoveLock
<1>8. ASSUME NEW c \in Clients,
             Search!GiveUp(c) \/ Search!SearchAlone(c) \/ Search!Killed(c)
      PROVE  SearchInv'
  BY <1>8 DEF Search!GiveUp, Search!SearchAlone, Search!Killed
<1>9. ASSUME NEW d \in Daemons, Search!ClearSocket(d) PROVE SearchInv'
  BY <1>9 DEF Search!ClearSocket
<1>10. ASSUME NEW d \in Daemons, Search!Listen(d) PROVE SearchInv'
  <2>1. /\ daemon[d] = "starting" /\ UNCHANGED <<client, peer>>
        /\ \A c \in Clients : client[c] \notin {"spawn", "remove"}
        /\ \A e \in Daemons : e # d => ~Search!Runs(e)
    BY <1>10 DEF Search!Listen
  <2>2. CASE /\ daemon' = [daemon EXCEPT ![d] = "serving"] /\ socket' = d
             /\ lock' = Search!Written(d) /\ UNCHANGED faults
    <3>1. Search!TypeOK' /\ lock'.there /\ lock'.pid = d
      BY <2>1, <2>2
    <3>2. ~lock'.old
      BY <2>2
    <3> QED BY <2>1, <2>2, <3>1, <3>2
  <2>3. CASE daemon' = [daemon EXCEPT ![d] = "dead"] /\ lock' = Search!Absent
    <3>1. faults' \in 0 .. MaxFaults /\ UNCHANGED socket
      BY <1>10, <2>3 DEF Search!Listen
    <3>2. Search!TypeOK' /\ ~lock'.old
      BY <2>1, <2>3, <3>1
    <3>3. \A e \in Daemons : ~Search!Runs(e)'
      BY <2>1, <2>3
    <3> QED BY <2>1, <2>3, <3>2, <3>3
  <2> QED BY <1>10, <2>2, <2>3 DEF Search!Listen
<1>11. ASSUME NEW d \in Daemons, Search!Close(d) PROVE SearchInv'
  BY <1>11 DEF Search!Close
<1>12. ASSUME NEW d \in Daemons, Search!Exit(d) \/ Search!Die(d) PROVE SearchInv'
  <2>1. CASE Search!Exit(d)
    <3>1. /\ daemon[d] = "closing" /\ daemon' = [daemon EXCEPT ![d] = "dead"]
          /\ lock' = Search!Absent /\ UNCHANGED <<socket, client, peer, faults>>
          /\ \A c \in Clients : client[c] \notin {"spawn", "remove"}
      BY <2>1 DEF Search!Exit
    <3>2. Search!TypeOK' /\ ~lock'.old
      BY <3>1
    <3>3. \A e \in Daemons : ~Search!Runs(e)'
      BY <3>1
    <3> QED BY <3>1, <3>2, <3>3
  <2>2. CASE Search!Die(d)
    BY <2>2 DEF Search!Die
  <2> QED BY <1>12, <2>1, <2>2
<1>13. CASE Search!LockAges
  BY <1>13 DEF Search!LockAges
<1> QED BY <1>1, <1>2, <1>3, <1>4, <1>5, <1>6, <1>7, <1>8, <1>9, <1>10, <1>11, <1>12, <1>13
  DEF Search!Next

\* fff-cli.mjs: the searches of a workspace share one daemon, for any number of
\* clients and daemons and whoever is killed, if no two clients judge a lock at once
\* and none grows old while its daemon starts: removeStaleLock unlinks by name.
THEOREM OneDaemonHolds ==
  ASSUME MaxFaults \in Nat, "nobody" \notin Daemons, ~RecoveriesOverlap
  PROVE  Search!Spec => []Search!OneDaemon
<1>1. Search!Init => SearchInv
  <2> SUFFICES ASSUME Search!Init PROVE SearchInv
    OBVIOUS
  <2> USE DEF Search!Init
  <2>1. faults \in 0 .. MaxFaults
    OBVIOUS
  <2>2. daemon \in [Daemons -> Search!States] /\ client \in [Clients -> Search!Steps]
    BY DEF Search!States, Search!Steps
  <2>3. peer \in [Clients -> Daemons \cup {Search!Nobody}]
    OBVIOUS
  <2>4. lock \in [pid : Daemons \cup {Search!Nobody}, old : BOOLEAN, there : BOOLEAN]
    BY DEF Search!Absent
  <2>5. Search!TypeOK
    BY <2>1, <2>2, <2>3, <2>4 DEF Search!TypeOK
  <2>6. /\ ~lock.old
        /\ \A c \in Clients : client[c] = "new"
        /\ \A d \in Daemons : daemon[d] = "none"
    BY DEF Search!Absent
  <2> QED BY <2>5, <2>6 DEF SearchInv, Search!Runs
<1>2. SearchInv => Search!OneDaemon
  BY DEF SearchInv, Search!OneDaemon, Search!Runs, Search!Is, Search!TypeOK
<1>3. SearchInv /\ [Search!Next]_Search!vars => SearchInv'
  BY SearchStep
<1> QED BY <1>1, <1>2, <1>3, PTL DEF Search!Spec

-----------------------------------------------------------------------------
(* The computer tool *)

Moves == [kind : Computer!Kinds, pc : Computer!Steps, names : Nat, saw : Nat]
AtHead(c) == queue # <<>> /\ Head(queue) = c
AllFailed(i, j) == \A k \in i .. j : call[screen[k]].pc = "failed"

ComputerTypes ==
  /\ call \in [Calls -> Moves] /\ queue \in Seq(Calls) /\ screen \in Seq(Calls)
  /\ op \in [what : {"none", "action", "capture", "settled"}, attempt : 0 .. 1]
  /\ last \in [id : Nat, screen : Nat] /\ sequence \in Nat

\* A call is in the queue once, from the time it was made, and only the head of the
\* queue gets on.
QueueOK ==
  /\ \A i, j \in 1 .. Len(queue) : queue[i] = queue[j] => i = j
  /\ \A i \in 1 .. Len(queue) : /\ call[queue[i]].pc # "new"
                                /\ i > 1 => call[queue[i]].pc = "queued"
  /\ \A c \in Calls : call[c].pc \in {"queued", "check", "act", "observe", "capture"} =>
       \E i \in 1 .. Len(queue) : queue[i] = c

\* The operation of the session is that of the head, which may have given it up.
HeadOK ==
  /\ queue = <<>> => op.what = "none"
  /\ \A c \in Calls : AtHead(c) =>
       /\ op.what = "action" => call[c].pc \in {"act", "failed"}
       /\ op.what = "capture" => call[c].pc \in {"capture", "failed"}
       /\ op.what = "settled" => call[c].pc \in {"observe", "ok", "failed"}
       /\ call[c].pc = "act" => op.what = "action"
       /\ call[c].pc = "capture" => op.what = "capture"
       /\ call[c].pc \in {"queued", "check"} => op.what = "none"

\* A call names an observation that was made, and who names the last one has seen
\* what it shows.
SeenOK ==
  /\ last.id <= sequence /\ (op.what = "capture" => last.id < sequence)
  /\ \A c \in Calls : /\ call[c].names <= last.id
                      /\ call[c].names = last.id => call[c].saw = last.screen

\* What took effect since the last observation was done by calls that failed or by
\* the one that is about to observe; an action under way has not taken effect and,
\* if it is a click, nothing but failed calls since its model looked has.
ScreenOK ==
  /\ last.screen <= Len(screen)
  /\ \A i \in 1 .. Len(screen) : /\ call[screen[i]].pc \in {"observe", "capture", "ok", "failed"}
                                 /\ ~(op.what = "action" /\ AtHead(screen[i]))
  /\ \A i \in last.screen + 1 .. Len(screen) :
       call[screen[i]].pc \in {"observe", "capture", "failed"}
  /\ \A c \in Calls : op.what = "action" /\ AtHead(c) /\ call[c].kind = "click" =>
       AllFailed(call[c].saw + 1, Len(screen))

ComputerInv ==
  ComputerTypes /\ QueueOK /\ HeadOK /\ SeenOK /\ ScreenOK /\ Computer!ActsOnWhatItSaw

\* One call moves on in its program.
Moved(c, p) ==
  /\ call' \in [Calls -> Moves] /\ call'[c].pc = p
  /\ \A d \in Calls : /\ d # c => call'[d] = call[d]
                      /\ call'[d].kind = call[d].kind
                      /\ call'[d].names = call[d].names /\ call'[d].saw = call[d].saw

LEMMA GoesMoves ==
  ASSUME ComputerTypes, NEW c \in Calls, NEW p \in Computer!Steps, Computer!Goes(c, p)
  PROVE  Moved(c, p)
BY DEF ComputerTypes, Moved, Moves, Computer!Goes

\* A call that got on is the head.
LEMMA OnlyTheHead ==
  ASSUME ComputerTypes, QueueOK, NEW c \in Calls,
         call[c].pc \in {"check", "act", "observe", "capture"}
  PROVE  AtHead(c)
<1>1. PICK i \in 1 .. Len(queue) : queue[i] = c
  BY DEF QueueOK
<1>2. i = 1
  BY <1>1 DEF QueueOK, ComputerTypes
<1> QED BY <1>1, <1>2 DEF ComputerTypes, AtHead

LEMMA TheHead ==
  ASSUME ComputerTypes, NEW c, AtHead(c)
  PROVE  c \in Calls /\ 1 \in 1 .. Len(queue) /\ queue[1] = c
BY DEF ComputerTypes, AtHead

\* The head moves on, and the queue stays.
LEMMA HeadMoves ==
  ASSUME ComputerTypes, QueueOK, NEW c \in Calls, AtHead(c), NEW p, Moved(c, p), p # "new",
         UNCHANGED queue
  PROVE  QueueOK'
<1>1. queue[1] = c /\ 1 \in 1 .. Len(queue)
  BY TheHead
<1>2. \A i \in 1 .. Len(queue) : queue[i] \in Calls /\ (queue[i] = c => i = 1)
  BY <1>1 DEF ComputerTypes, QueueOK
<1>3. \A i \in 1 .. Len(queue) : /\ call'[queue[i]].pc # "new"
                                 /\ i > 1 => call'[queue[i]].pc = "queued"
  BY <1>2 DEF QueueOK, Moved
<1>4. \A d \in Calls : call'[d].pc \in {"queued", "check", "act", "observe", "capture"} =>
        \E i \in 1 .. Len(queue) : queue[i] = d
  BY <1>1 DEF QueueOK, Moved
<1> QED BY <1>3, <1>4 DEF QueueOK

\* Nobody acts: what took effect stays as it was seen.
LEMMA ScreenStays ==
  ASSUME ComputerTypes, ScreenOK, Computer!ActsOnWhatItSaw, NEW c \in Calls, NEW p, Moved(c, p),
         UNCHANGED <<screen, last>>,
         call[c].pc # "failed",
         p \in {"observe", "capture", "failed"}
           \/ \A i \in 1 .. Len(screen) : screen[i] # c,
         \A d \in Calls : op'.what = "action" /\ AtHead(d)' =>
           /\ \A i \in 1 .. Len(screen) : screen[i] # d
           /\ call[d].kind = "click" => AllFailed(call[d].saw + 1, Len(screen))
  PROVE  ScreenOK' /\ Computer!ActsOnWhatItSaw'
<1>1. \A i \in 1 .. Len(screen) : screen[i] \in Calls
  BY DEF ComputerTypes
<1>2. \A d \in Calls : call[d].pc = "failed" => call'[d].pc = "failed"
  BY DEF Moved
<1>3. last.screen \in Nat /\ \A d \in Calls : call[d].saw \in Nat
  BY DEF ComputerTypes, Moves
<1>4. \A i \in 1 .. Len(screen) : call'[screen[i]].pc \in {"observe", "capture", "ok", "failed"}
  BY <1>1 DEF ScreenOK, Moved
<1>5. \A i \in last.screen + 1 .. Len(screen) :
        call'[screen[i]].pc \in {"observe", "capture", "failed"}
  BY <1>1, <1>3 DEF ScreenOK, Moved
<1>6. \A d \in Calls : AllFailed(call[d].saw + 1, Len(screen)) =>
                         \A k \in call[d].saw + 1 .. Len(screen) : call'[screen[k]].pc = "failed"
  BY <1>1, <1>2, <1>3 DEF AllFailed
<1>7. \A d \in Calls : op'.what = "action" /\ AtHead(d)' /\ call'[d].kind = "click" =>
        AllFailed(call[d].saw + 1, Len(screen))'
  BY <1>6 DEF AllFailed, Moved
<1>8. \A i \in 1 .. Len(screen) : ~(op'.what = "action" /\ AtHead(screen[i])')
  BY <1>1
<1>9. ScreenOK'
  BY <1>4, <1>5, <1>7, <1>8 DEF ScreenOK, Moved
<1>10. Computer!ActsOnWhatItSaw'
  <2>1. \A i, j \in 1 .. Len(screen) : screen[i] = screen[j] => i = j
    BY DEF Computer!ActsOnWhatItSaw, ComputerTypes
  <2>2. ASSUME NEW i \in 1 .. Len(screen), call'[screen[i]].kind = "click",
               NEW j \in call'[screen[i]].saw + 1 .. i - 1
        PROVE  call'[screen[j]].pc = "failed"
    <3>1. screen[i] \in Calls /\ j \in 1 .. Len(screen) /\ screen[j] \in Calls
      BY <1>1, <1>3, <2>2 DEF Moved
    <3>2. call[screen[j]].pc = "failed"
      BY <2>2, <3>1 DEF Moved, Computer!ActsOnWhatItSaw, Computer!At, ComputerTypes
    <3> QED BY <1>2, <3>1, <3>2
  <2>3. screen' = screen /\ DOMAIN screen = 1 .. Len(screen)
    BY DEF ComputerTypes
  <2>4. \A i, j \in DOMAIN screen' : screen'[i] = screen'[j] => i = j
    BY <2>1, <2>3
  <2>5. \A i \in DOMAIN screen' : call'[screen'[i]].kind = "click" =>
          \A j \in call'[screen'[i]].saw + 1 .. i - 1 : call'[screen'[j]].pc = "failed"
    BY <2>2, <2>3
  <2> QED BY <2>4, <2>5 DEF Computer!ActsOnWhatItSaw, Computer!At
<1> QED BY <1>9, <1>10

\* The head's action takes effect: as yet it has not, and everything since the model
\* looked was done by calls that failed.
LEMMA ActionLands ==
  ASSUME ComputerInv, NEW c \in Calls, AtHead(c), op.what = "action", NEW p, Moved(c, p),
         p \in {"observe", "failed"}, call[c].pc = "failed" => p = "failed",
         screen' = Append(screen, c), UNCHANGED last, op'.what # "action"
  PROVE  ScreenOK' /\ Computer!ActsOnWhatItSaw'
<1> USE DEF ComputerInv
<1>1. /\ screen' \in Seq(Calls) /\ Len(screen') = Len(screen) + 1 /\ screen'[Len(screen) + 1] = c
      /\ \A i \in 1 .. Len(screen) : screen'[i] = screen[i] /\ screen[i] \in Calls
      /\ Len(screen) \in Nat
  BY DEF ComputerTypes
<1>2. \A i \in 1 .. Len(screen) : screen[i] # c
  BY DEF ScreenOK
<1>3. \A d \in Calls : call[d].pc = "failed" => call'[d].pc = "failed"
  BY DEF Moved
<1>4. last.screen \in Nat /\ \A d \in Calls : call[d].saw \in Nat /\ call'[d].saw = call[d].saw
  BY DEF ComputerTypes, Moves, Moved
<1>5. \A i \in 1 .. Len(screen') : i # Len(screen) + 1 => i \in 1 .. Len(screen)
  BY <1>1
<1>6. \A i \in 1 .. Len(screen') : call'[screen'[i]].pc \in {"observe", "capture", "ok", "failed"}
  BY <1>1, <1>2, <1>5 DEF ScreenOK, Moved
<1>7. \A i \in last.screen + 1 .. Len(screen') :
        call'[screen'[i]].pc \in {"observe", "capture", "failed"}
  <2> SUFFICES ASSUME NEW i \in last.screen + 1 .. Len(screen')
               PROVE  call'[screen'[i]].pc \in {"observe", "capture", "failed"}
    OBVIOUS
  <2>1. CASE i = Len(screen) + 1
    BY <1>1, <2>1 DEF Moved
  <2>2. CASE i \in last.screen + 1 .. Len(screen)
    <3>1. i \in 1 .. Len(screen)
      BY <1>4, <2>2
    <3> QED BY <1>1, <1>2, <2>2, <3>1 DEF ScreenOK, Moved
  <2> QED BY <1>1, <1>4, <2>1, <2>2
<1>8. ScreenOK'
  BY <1>1, <1>4, <1>6, <1>7 DEF ScreenOK
<1>9. \A i, j \in 1 .. Len(screen') : screen'[i] = screen'[j] => i = j
  <2>1. \A i, j \in 1 .. Len(screen) : screen[i] = screen[j] => i = j
    BY DEF Computer!ActsOnWhatItSaw, ComputerTypes
  <2> QED BY <1>1, <1>2, <1>5, <2>1
<1>10. ASSUME NEW i \in 1 .. Len(screen'), call'[screen'[i]].kind = "click",
              NEW j \in call'[screen'[i]].saw + 1 .. i - 1
       PROVE  call'[screen'[j]].pc = "failed"
  <2>1. CASE i = Len(screen) + 1
    <3>1. call[c].kind = "click" /\ j \in call[c].saw + 1 .. Len(screen)
      BY <1>1, <1>4, <1>10, <2>1 DEF Moved
    <3>2. AllFailed(call[c].saw + 1, Len(screen)) /\ j \in 1 .. Len(screen)
      BY <1>1, <1>4, <3>1 DEF ScreenOK
    <3> QED BY <1>1, <1>3, <3>1, <3>2 DEF AllFailed
  <2>2. CASE i \in 1 .. Len(screen)
    <3>1. /\ screen'[i] = screen[i] /\ screen[i] \in Calls /\ call[screen[i]].kind = "click"
          /\ j \in call[screen[i]].saw + 1 .. i - 1
      BY <1>1, <1>4, <1>10, <2>2 DEF Moved
    <3>2. j \in 1 .. Len(screen)
      BY <1>4, <2>2, <3>1
    <3>3. call[screen[j]].pc = "failed"
      BY <2>2, <3>1, <3>2 DEF Computer!ActsOnWhatItSaw, Computer!At, ComputerTypes
    <3> QED BY <1>1, <1>3, <3>2, <3>3
  <2> QED BY <1>5, <2>1, <2>2
<1>11. DOMAIN screen' = 1 .. Len(screen')
  BY <1>1
<1>12. Computer!ActsOnWhatItSaw'
  <2>1. \A i, j \in DOMAIN screen' : screen'[i] = screen'[j] => i = j
    BY <1>9, <1>11
  <2>2. \A i \in DOMAIN screen' : call'[screen'[i]].kind = "click" =>
          \A j \in call'[screen'[i]].saw + 1 .. i - 1 : call'[screen'[j]].pc = "failed"
    BY <1>10, <1>11
  <2> QED BY <2>1, <2>2 DEF Computer!ActsOnWhatItSaw, Computer!At
<1> QED BY <1>8, <1>12

LEMMA ComputerStep ==
  ASSUME ComputerInv, [Computer!Next]_Computer!vars
  PROVE  ComputerInv'
<1>0. ComputerTypes /\ QueueOK /\ HeadOK /\ SeenOK /\ ScreenOK /\ Computer!ActsOnWhatItSaw
  BY DEF ComputerInv
<1> USE <1>0
<1>1. CASE UNCHANGED Computer!vars
  BY <1>1 DEF Computer!vars, ComputerInv, ComputerTypes, QueueOK, HeadOK, SeenOK, ScreenOK,
              Computer!ActsOnWhatItSaw, Computer!At, AtHead, AllFailed
<1>2. ASSUME NEW c \in Calls, Computer!Invoke(c) PROVE ComputerInv'
  <2>1. /\ call[c].pc = "new" /\ queue' = Append(queue, c)
        /\ call' = [call EXCEPT ![c].pc = "queued", ![c].names = last.id, ![c].saw = last.screen]
        /\ UNCHANGED <<op, last, sequence, screen>>
    BY <1>2 DEF Computer!Invoke, Computer!At
  <2>2. /\ call' \in [Calls -> Moves] /\ call'[c].pc = "queued" /\ call'[c].names = last.id
        /\ call'[c].saw = last.screen /\ call'[c].kind = call[c].kind
        /\ \A d \in Calls : d # c => call'[d] = call[d]
    BY <2>1 DEF ComputerTypes, Moves, Computer!Steps
  <2>3. /\ queue' \in Seq(Calls) /\ Len(queue') = Len(queue) + 1 /\ queue'[Len(queue) + 1] = c
        /\ \A i \in 1 .. Len(queue) : queue'[i] = queue[i] /\ queue[i] \in Calls
        /\ Len(queue) \in Nat
    BY <2>1 DEF ComputerTypes
  <2>4. \A i \in 1 .. Len(queue) : queue[i] # c
    BY <2>1 DEF QueueOK
  <2>5. \A i \in 1 .. Len(queue') : i # Len(queue) + 1 => i \in 1 .. Len(queue)
    BY <2>3
  <2>6. \A i \in 1 .. Len(screen) : screen[i] # c /\ screen[i] \in Calls
    <3>1. \A i \in 1 .. Len(screen) : screen[i] \in Calls
      BY DEF ComputerTypes
    <3>2. \A i \in 1 .. Len(screen) : call[screen[i]].pc # "new"
      BY DEF ScreenOK
    <3> QED BY <2>1, <3>1, <3>2
  <2>7. ComputerTypes'
    BY <2>1, <2>2, <2>3 DEF ComputerTypes
  <2>8. QueueOK'
    <3>1. \A i, j \in 1 .. Len(queue') : queue'[i] = queue'[j] => i = j
      BY <2>3, <2>4, <2>5 DEF QueueOK
    <3>2. \A i \in 1 .. Len(queue') : /\ call'[queue'[i]].pc # "new"
                                      /\ i > 1 => call'[queue'[i]].pc = "queued"
      BY <2>2, <2>3, <2>4, <2>5 DEF QueueOK
    <3>3. ASSUME NEW d \in Calls,
                 call'[d].pc \in {"queued", "check", "act", "observe", "capture"}
          PROVE  \E i \in 1 .. Len(queue') : queue'[i] = d
      <4>1. CASE d = c
        BY <2>3, <4>1
      <4>2. CASE d # c
        <5>1. PICK i \in 1 .. Len(queue) : queue[i] = d
          BY <2>2, <3>3, <4>2 DEF QueueOK
        <5> QED BY <2>3, <5>1
      <4> QED BY <4>1, <4>2
    <3> QED BY <3>1, <3>2, <3>3 DEF QueueOK
  <2>9. ASSUME NEW d \in Calls, AtHead(d)'
        PROVE  \/ AtHead(d) /\ d # c
               \/ queue = <<>> /\ d = c
    <3>1. Head(queue') = d
      BY <2>9 DEF AtHead
    <3>2. CASE queue = <<>>
      BY <2>1, <3>1, <3>2
    <3>3. CASE queue # <<>>
      <4>1. 1 \in 1 .. Len(queue) /\ Head(queue') = queue[1] /\ Head(queue) = queue[1]
        BY <2>3, <3>3 DEF ComputerTypes
      <4>2. queue[1] # c
        BY <2>4, <4>1
      <4> QED BY <3>1, <3>3, <4>1, <4>2 DEF AtHead
    <3> QED BY <3>2, <3>3
  <2>10. HeadOK'
    <3>1. queue' # <<>>
      BY <2>3
    <3> QED BY <2>1, <2>2, <2>9, <3>1 DEF HeadOK
  <2>11. SeenOK'
    BY <2>1, <2>2 DEF SeenOK, ComputerTypes
  <2>12. ScreenOK'
    <3>1. \A i \in 1 .. Len(screen) : call'[screen[i]] = call[screen[i]]
      BY <2>2, <2>6
    <3>2. \A d \in Calls : op.what = "action" /\ AtHead(d)' => AtHead(d) /\ d # c
      BY <2>9 DEF HeadOK
    <3>3. \A d \in Calls : d # c => call[d].saw \in Nat
      BY DEF ComputerTypes, Moves
    <3>4. last.screen \in Nat
      BY DEF ComputerTypes
    <3>5. ASSUME NEW d \in Calls, op.what = "action", AtHead(d)', call'[d].kind = "click",
                 NEW k \in call'[d].saw + 1 .. Len(screen)
          PROVE  call'[screen[k]].pc = "failed"
      <4>1. AtHead(d) /\ call'[d] = call[d] /\ call[d].saw \in Nat
        BY <2>2, <3>2, <3>3, <3>5
      <4>2. AllFailed(call[d].saw + 1, Len(screen)) /\ k \in 1 .. Len(screen)
        BY <3>5, <4>1 DEF ScreenOK
      <4> QED BY <3>1, <4>1, <4>2 DEF AllFailed
    <3>6. \A d \in Calls : op'.what = "action" /\ AtHead(d)' /\ call'[d].kind = "click" =>
            AllFailed(call[d].saw + 1, Len(screen))'
      BY <2>1, <3>5 DEF AllFailed
    <3>7. \A i \in last.screen + 1 .. Len(screen) : i \in 1 .. Len(screen)
      BY <3>4
    <3>8. \A i \in 1 .. Len(screen) : ~(op'.what = "action" /\ AtHead(screen[i])')
      BY <2>1, <2>6, <3>2 DEF ScreenOK
    <3>9. /\ last'.screen <= Len(screen')
          /\ \A i \in 1 .. Len(screen) : call'[screen[i]].pc \in {"observe", "capture", "ok", "failed"}
          /\ \A i \in last.screen + 1 .. Len(screen) :
               call'[screen[i]].pc \in {"observe", "capture", "failed"}
      BY <2>1, <3>1, <3>7 DEF ScreenOK
    <3> QED BY <2>1, <3>6, <3>8, <3>9 DEF ScreenOK
  <2>13. Computer!ActsOnWhatItSaw'
    <3>1. \A i \in 1 .. Len(screen) : call'[screen[i]] = call[screen[i]]
      BY <2>2, <2>6
    <3>2. DOMAIN screen = 1 .. Len(screen) /\ screen' = screen
      BY <2>1 DEF ComputerTypes
    <3>3. \A i, j \in 1 .. Len(screen) : j \in call[screen[i]].saw + 1 .. i - 1 =>
            j \in 1 .. Len(screen)
      OBVIOUS
    <3>4. \A i \in 1 .. Len(screen) : call[screen[i]].saw \in Nat
      BY <2>6 DEF ComputerTypes, Moves
    <3>5. \A i \in 1 .. Len(screen) : call[screen[i]].kind = "click" =>
            \A j \in call[screen[i]].saw + 1 .. i - 1 : call'[screen[j]].pc = "failed"
      <4> SUFFICES ASSUME NEW i \in 1 .. Len(screen), call[screen[i]].kind = "click",
                          NEW j \in call[screen[i]].saw + 1 .. i - 1
                   PROVE  call'[screen[j]].pc = "failed"
        OBVIOUS
      <4>1. j \in 1 .. Len(screen)
        BY <3>4
      <4> QED BY <3>1, <3>2, <4>1 DEF Computer!ActsOnWhatItSaw, Computer!At
    <3> QED BY <3>1, <3>2, <3>5 DEF Computer!ActsOnWhatItSaw, Computer!At
  <2> QED BY <2>7, <2>8, <2>10, <2>11, <2>12, <2>13 DEF ComputerInv
<1>3. ASSUME NEW c \in Calls, Computer!Start(c) PROVE ComputerInv'
  <2>1. /\ call[c].pc = "queued" /\ AtHead(c) /\ op.what = "none"
        /\ UNCHANGED <<queue, op, last, sequence, screen>>
        /\ Computer!Goes(c, "check") \/ Computer!Goes(c, "failed")
    <3>1. call[c].pc = "queued" /\ Head(queue) = c
      BY <1>3 DEF Computer!Start, Computer!At, Computer!MayStart
    <3>2. queue # <<>>
      BY <3>1 DEF QueueOK
    <3> QED BY <1>3, <3>1, <3>2 DEF Computer!Start, Computer!At, Computer!MayStart, AtHead
  <2>2. PICK p \in {"check", "failed"} : Moved(c, p)
    BY <2>1, GoesMoves DEF Computer!Steps
  <2>3. \A i \in 1 .. Len(screen) : screen[i] # c
    BY <2>1 DEF ScreenOK
  <2>4. ScreenOK' /\ Computer!ActsOnWhatItSaw'
    BY <2>1, <2>2, <2>3, ScreenStays
  <2>5. QueueOK'
    BY <2>1, <2>2, HeadMoves
  <2>6. HeadOK'
    BY <2>1, <2>2 DEF HeadOK, AtHead, Moved
  <2>7. SeenOK' /\ ComputerTypes'
    BY <2>1, <2>2 DEF SeenOK, ComputerTypes, Moved
  <2> QED BY <2>4, <2>5, <2>6, <2>7 DEF ComputerInv
<1>4. ASSUME NEW c \in Calls, Computer!Check(c) PROVE ComputerInv'
  <2>1. call[c].pc = "check" /\ UNCHANGED <<queue, last, sequence, screen>>
    BY <1>4 DEF Computer!Check, Computer!At
  <2>2. AtHead(c) /\ op.what = "none"
    BY <2>1, OnlyTheHead DEF HeadOK
  <2>3. PICK p \in {"failed", "observe", "act"} :
          /\ Computer!Goes(c, p)
          /\ IF p = "act" THEN op' = [what |-> "action", attempt |-> 0] ELSE op' = op
          /\ p = "act" /\ call[c].kind = "click" => Computer!IsCurrent(c)
    BY <1>4 DEF Computer!Check
  <2>4. Moved(c, p)
    BY <2>3, GoesMoves DEF Computer!Steps
  <2>5. \A i \in 1 .. Len(screen) : screen[i] # c
    BY <2>1 DEF ScreenOK
  <2>6. AllFailed(last.screen + 1, Len(screen))
    <3> SUFFICES ASSUME NEW i \in last.screen + 1 .. Len(screen)
                 PROVE  call[screen[i]].pc = "failed"
      BY DEF AllFailed
    <3>1. last.screen \in Nat
      BY DEF ComputerTypes
    <3>2. i \in 1 .. Len(screen) /\ screen[i] \in Calls
      BY <3>1 DEF ComputerTypes
    <3>3. call[screen[i]].pc \in {"observe", "capture", "failed"}
      BY DEF ScreenOK
    <3>4. call[screen[i]].pc \in {"observe", "capture"} => AtHead(screen[i])
      BY <3>2, OnlyTheHead
    <3> QED BY <2>2, <2>5, <3>2, <3>3, <3>4 DEF AtHead
  <2>7. p = "act" /\ call[c].kind = "click" => AllFailed(call[c].saw + 1, Len(screen))
    <3>1. p = "act" /\ call[c].kind = "click" => call[c].saw = last.screen
      BY <2>3 DEF Computer!IsCurrent, SeenOK
    <3> QED BY <2>6, <3>1
  <2>8. \A d \in Calls : AtHead(d)' => d = c
    BY <2>1, <2>2 DEF AtHead
  <2>9. ScreenOK' /\ Computer!ActsOnWhatItSaw'
    <3>1. op'.what = "action" => p = "act"
      BY <2>2, <2>3
    <3> QED BY <2>1, <2>4, <2>5, <2>7, <2>8, <3>1, ScreenStays
  <2>10. QueueOK'
    BY <2>1, <2>2, <2>4, HeadMoves
  <2>11. HeadOK'
    BY <2>1, <2>2, <2>3, <2>4, <2>8 DEF HeadOK, AtHead, Moved
  <2>12. SeenOK' /\ ComputerTypes'
    BY <2>1, <2>2, <2>3, <2>4 DEF SeenOK, ComputerTypes, Moved
  <2> QED BY <2>9, <2>10, <2>11, <2>12 DEF ComputerInv
<1>5. ASSUME NEW c \in Calls, Computer!Observe(c) PROVE ComputerInv'
  <2>1. /\ call[c].pc = "observe" /\ sequence' = sequence + 1 /\ Computer!Goes(c, "capture")
        /\ op' = [what |-> "capture", attempt |-> 0] /\ UNCHANGED <<queue, last, screen>>
    BY <1>5 DEF Computer!Observe, Computer!At
  <2>2. AtHead(c) /\ Moved(c, "capture")
    BY <2>1, OnlyTheHead, GoesMoves DEF Computer!Steps
  <2>3. ScreenOK' /\ Computer!ActsOnWhatItSaw'
    BY <2>1, <2>2, ScreenStays
  <2>4. QueueOK'
    BY <2>1, <2>2, HeadMoves
  <2>5. HeadOK'
    <3>1. op'.what = "capture" /\ queue' # <<>> /\ \A d \in Calls : AtHead(d)' => d = c
      BY <2>1, <2>2 DEF AtHead
    <3> QED BY <2>2, <3>1 DEF HeadOK, Moved
  <2>6. SeenOK' /\ ComputerTypes'
    <3>1. last.id \in Nat /\ sequence \in Nat /\ last.id <= sequence
      BY DEF ComputerTypes, SeenOK
    <3>2. last.id <= sequence' /\ last.id < sequence' /\ sequence' \in Nat
      BY <2>1, <3>1
    <3>3. SeenOK'
      BY <2>1, <2>2, <3>2 DEF SeenOK, Moved
    <3>4. op' \in [what : {"none", "action", "capture", "settled"}, attempt : 0 .. 1]
      BY <2>1
    <3> QED BY <2>1, <2>2, <3>2, <3>3, <3>4 DEF ComputerTypes, Moved
  <2> QED BY <2>3, <2>4, <2>5, <2>6 DEF ComputerInv
<1>6. ASSUME NEW c \in Calls, Computer!TimeOut(c) PROVE ComputerInv'
  <2>1. /\ call[c].pc \in {"act", "capture"} /\ Computer!Goes(c, "failed")
        /\ UNCHANGED <<queue, op, last, sequence, screen>>
    BY <1>6 DEF Computer!TimeOut
  <2>2. AtHead(c) /\ Moved(c, "failed")
    BY <2>1, OnlyTheHead, GoesMoves DEF Computer!Steps
  <2>3. ScreenOK' /\ Computer!ActsOnWhatItSaw'
    <3>1. \A d \in Calls : op.what = "action" /\ AtHead(d) =>
            /\ \A i \in 1 .. Len(screen) : screen[i] # d
            /\ call[d].kind = "click" => AllFailed(call[d].saw + 1, Len(screen))
      BY DEF ScreenOK
    <3> QED BY <2>1, <2>2, <3>1, ScreenStays DEF AtHead
  <2>4. QueueOK'
    BY <2>1, <2>2, HeadMoves
  <2>5. HeadOK'
    BY <2>1, <2>2 DEF HeadOK, AtHead, Moved
  <2>6. SeenOK' /\ ComputerTypes'
    BY <2>1, <2>2 DEF SeenOK, ComputerTypes, Moved
  <2> QED BY <2>3, <2>4, <2>5, <2>6 DEF ComputerInv
<1>7. ASSUME NEW c \in Calls, Computer!Leave(c) PROVE ComputerInv'
  <2>1. /\ AtHead(c) /\ call[c].pc \in {"ok", "failed"} /\ queue' = Tail(queue)
        /\ op' = [what |-> "none", attempt |-> 0] /\ UNCHANGED <<call, last, sequence, screen>>
    BY <1>7 DEF Computer!Leave, Computer!NoOp, AtHead
  <2>2. /\ queue' \in Seq(Calls) /\ Len(queue') = Len(queue) - 1
        /\ \A i \in 1 .. Len(queue') : queue'[i] = queue[i + 1] /\ i + 1 \in 1 .. Len(queue)
        /\ queue[1] = c /\ Len(queue) \in Nat \ {0}
    BY <2>1 DEF ComputerTypes, AtHead
  <2>3. QueueOK'
    <3>1. \A i, j \in 1 .. Len(queue') : queue'[i] = queue'[j] => i = j
      BY <2>2 DEF QueueOK
    <3>2. \A i \in 1 .. Len(queue') : call[queue'[i]].pc = "queued"
      BY <2>2 DEF QueueOK
    <3>3. ASSUME NEW d \in Calls,
                 call[d].pc \in {"queued", "check", "act", "observe", "capture"}
          PROVE  \E i \in 1 .. Len(queue') : queue'[i] = d
      <4>1. PICK i \in 1 .. Len(queue) : queue[i] = d
        BY <3>3 DEF QueueOK
      <4>2. i # 1
        BY <2>1, <2>2, <3>3, <4>1
      <4>3. i - 1 \in 1 .. Len(queue') /\ queue'[i - 1] = queue[i]
        BY <2>2, <4>2
      <4> QED BY <4>1, <4>3
    <3> QED BY <2>1, <3>1, <3>2, <3>3 DEF QueueOK
  <2>4. HeadOK'
    <3>1. \A d \in Calls : AtHead(d)' => call[d].pc = "queued"
      <4> SUFFICES ASSUME NEW d \in Calls, queue' # <<>>, Head(queue') = d
                   PROVE  call[d].pc = "queued"
        BY DEF AtHead
      <4>1. 1 \in 1 .. Len(queue') /\ queue'[1] = d
        BY <2>2
      <4>2. queue[2] = d /\ 2 \in 1 .. Len(queue)
        BY <2>2, <4>1
      <4> QED BY <4>2 DEF QueueOK
    <3> QED BY <2>1, <3>1 DEF HeadOK
  <2>5. SeenOK' /\ ComputerTypes' /\ ScreenOK'
    BY <2>1, <2>2 DEF SeenOK, ComputerTypes, ScreenOK, AllFailed
  <2>6. Computer!ActsOnWhatItSaw'
    BY <2>1 DEF Computer!ActsOnWhatItSaw, Computer!At
  <2> QED BY <2>3, <2>4, <2>5, <2>6 DEF ComputerInv
<1>8. CASE Computer!Expired
  <2>1. /\ op' = [op EXCEPT !.attempt = 1] /\ UNCHANGED <<call, queue, last, sequence, screen>>
    BY <1>8 DEF Computer!Expired
  <2>2. op'.what = op.what /\ ComputerTypes'
    <3>1. 1 \in 0 .. 1
      OBVIOUS
    <3> QED BY <2>1, <3>1 DEF ComputerTypes
  <2>3. QueueOK' /\ HeadOK' /\ SeenOK' /\ ScreenOK'
    BY <2>1, <2>2 DEF QueueOK, HeadOK, SeenOK, ScreenOK, AtHead, AllFailed
  <2>4. Computer!ActsOnWhatItSaw'
    BY <2>1 DEF Computer!ActsOnWhatItSaw, Computer!At
  <2> QED BY <2>2, <2>3, <2>4 DEF ComputerInv
\* The operation settles, or a capture is sent again, and the head's call goes on,
\* fails, or had been given up.
<1>9. ASSUME NEW c \in Calls, AtHead(c), op.what \in {"action", "capture"},
             UNCHANGED <<queue, last, sequence>>, NEW p \in {"observe", "failed"},
             \/ Moved(c, p) /\ call[c].pc \in {"act", "capture"}
             \/ p = "failed" /\ UNCHANGED call /\ call[c].pc = "failed",
             op' \in [what : {"settled"}, attempt : 0 .. 1],
             \/ UNCHANGED screen
             \/ op.what = "action" /\ screen' = Append(screen, c)
      PROVE  ComputerInv'
  <2>1. Moved(c, p)
    BY <1>9 DEF Moved, ComputerTypes
  <2>2. op'.what = "settled"
    BY <1>9
  <2>3. ScreenOK' /\ Computer!ActsOnWhatItSaw'
    <3>1. CASE op.what = "action" /\ screen' = Append(screen, c)
      <4>1. call[c].pc = "failed" => p = "failed"
        BY <1>9
      <4> QED BY <1>9, <2>1, <2>2, <3>1, <4>1, ActionLands DEF ComputerInv
    <3>2. CASE UNCHANGED screen /\ call[c].pc # "failed"
      BY <1>9, <2>1, <2>2, <3>2, ScreenStays
    <3>3. CASE UNCHANGED screen /\ UNCHANGED call
      BY <1>9, <2>2, <3>3 DEF ScreenOK, AllFailed, Computer!ActsOnWhatItSaw, Computer!At
    <3> QED BY <1>9, <3>1, <3>2, <3>3
  <2>4. QueueOK'
    BY <1>9, <2>1, HeadMoves
  <2>5. HeadOK'
    <3>1. queue' # <<>> /\ \A d \in Calls : AtHead(d)' => d = c
      BY <1>9 DEF AtHead
    <3> QED BY <2>1, <2>2, <3>1 DEF HeadOK, Moved
  <2>6. screen' \in Seq(Calls)
    <3>1. CASE UNCHANGED screen
      BY <3>1 DEF ComputerTypes
    <3>2. CASE screen' = Append(screen, c)
      <4>1. c \in Calls /\ screen \in Seq(Calls)
        BY <1>9 DEF ComputerTypes
      <4> QED BY <3>2, <4>1
    <3> QED BY <1>9, <3>1, <3>2
  <2>7. op' \in [what : {"none", "action", "capture", "settled"}, attempt : 0 .. 1]
    BY <1>9
  <2>8. SeenOK' /\ ComputerTypes'
    BY <1>9, <2>1, <2>2, <2>6, <2>7 DEF SeenOK, ComputerTypes, Moved
  <2> QED BY <2>3, <2>4, <2>5, <2>8 DEF ComputerInv
<1>10. CASE Computer!Answered
  <2>1. PICK c \in Calls : AtHead(c)
    BY <1>10, TheHead DEF Computer!Answered, AtHead, ComputerTypes
  <2>2. /\ c = Computer!Owner /\ op.what \in {"action", "capture"}
        /\ op' = [op EXCEPT !.what = "settled"] /\ UNCHANGED <<queue, sequence>>
    BY <1>10, <2>1 DEF Computer!Answered, Computer!Owner, Computer!Settles, AtHead
  <2>3. op' \in [what : {"settled"}, attempt : 0 .. 1]
    BY <2>2 DEF ComputerTypes
  <2>4. op.what = "action" => call[c].pc \in {"act", "failed"}
    BY <2>1 DEF HeadOK
  <2>5. op.what = "capture" => call[c].pc \in {"capture", "failed"}
    BY <2>1 DEF HeadOK
  <2>6. CASE op.what = "action"
    <3>1. screen' = Append(screen, c) /\ UNCHANGED last
      BY <1>10, <2>2, <2>6 DEF Computer!Answered
    <3>2. CASE call[c].pc = "act"
      <4>1. Moved(c, "observe")
        BY <1>10, <2>2, <2>6, <3>2, GoesMoves
        DEF Computer!Answered, Computer!At, Computer!Steps
      <4> QED BY <1>9, <2>1, <2>2, <2>3, <2>6, <3>1, <3>2, <4>1
    <3>3. CASE call[c].pc = "failed"
      <4>1. UNCHANGED call
        BY <1>10, <2>2, <2>6, <3>3 DEF Computer!Answered, Computer!At
      <4> QED BY <1>9, <2>1, <2>2, <2>3, <2>6, <3>1, <3>3, <4>1
    <3> QED BY <2>4, <2>6, <3>2, <3>3
  <2>7. CASE op.what = "capture" /\ call[c].pc = "failed"
    <3>1. UNCHANGED <<call, last, screen>>
      BY <1>10, <2>2, <2>7 DEF Computer!Answered, Computer!At
    <3> QED BY <1>9, <2>1, <2>2, <2>3, <2>7, <3>1
  <2>8. CASE op.what = "capture" /\ call[c].pc = "capture"
    <3>1. /\ Computer!Goes(c, "ok") /\ UNCHANGED screen
          /\ last' = [id |-> sequence, screen |-> Len(screen)]
      BY <1>10, <2>2, <2>8 DEF Computer!Answered, Computer!At
    <3>2. Moved(c, "ok")
      BY <3>1, GoesMoves DEF Computer!Steps
    <3>3. QueueOK'
      BY <2>1, <2>2, <3>2, HeadMoves
    <3>4. op'.what = "settled"
      BY <2>3
    <3>5. HeadOK'
      BY <2>1, <2>2, <3>2, <3>4 DEF HeadOK, AtHead, Moved
    <3>6. ComputerTypes'
      BY <2>2, <3>1, <3>2 DEF ComputerTypes, Moved
    <3>7. SeenOK'
      BY <2>2, <2>8, <3>1, <3>2, <3>4 DEF SeenOK, ComputerTypes, Moved, Moves
    <3>8. ScreenOK'
      <4>1. \A i \in 1 .. Len(screen) : screen[i] \in Calls
        BY DEF ComputerTypes
      <4>2. \A i \in 1 .. Len(screen) : call'[screen[i]].pc \in {"observe", "capture", "ok", "failed"}
        BY <3>2, <4>1 DEF ScreenOK, Moved
      <4>3. Len(screen) \in Nat /\ last'.screen = Len(screen)
        BY <3>1 DEF ComputerTypes
      <4> QED BY <3>1, <3>4, <4>2, <4>3 DEF ScreenOK
    <3>9. Computer!ActsOnWhatItSaw'
      <4>1. \A i \in DOMAIN screen : screen[i] \in Calls /\ i \in 1 .. Len(screen)
        BY DEF ComputerTypes
      <4>2. \A d \in Calls : call[d].pc = "failed" => call'[d].pc = "failed"
        BY <2>8, <3>2 DEF Moved
      <4>3. \A d \in Calls : call[d].saw \in Nat
        BY DEF ComputerTypes, Moves
      <4>4. ASSUME NEW i \in DOMAIN screen, call'[screen[i]].kind = "click",
                   NEW j \in call'[screen[i]].saw + 1 .. i - 1
            PROVE  call'[screen[j]].pc = "failed"
        <5>1. call[screen[i]].kind = "click" /\ j \in call[screen[i]].saw + 1 .. i - 1
          BY <3>2, <4>1, <4>4 DEF Moved
        <5>2. j \in DOMAIN screen
          BY <4>1, <4>3, <5>1 DEF ComputerTypes
        <5> QED BY <4>1, <4>2, <5>1, <5>2 DEF Computer!ActsOnWhatItSaw, Computer!At
      <4>5. screen' = screen
        BY <3>1
      <4>6. \A i \in DOMAIN screen' : call'[screen'[i]].kind = "click" =>
              \A j \in call'[screen'[i]].saw + 1 .. i - 1 : call'[screen'[j]].pc = "failed"
        BY <4>4, <4>5
      <4> QED BY <4>5, <4>6 DEF Computer!ActsOnWhatItSaw, Computer!At
    <3> QED BY <3>3, <3>5, <3>6, <3>7, <3>8, <3>9 DEF ComputerInv
  <2> QED BY <2>2, <2>5, <2>6, <2>7, <2>8
<1>11. CASE Computer!Lost
  <2>1. PICK c \in Calls : AtHead(c)
    BY <1>11, TheHead DEF Computer!Lost, AtHead, ComputerTypes
  <2>2. /\ c = Computer!Owner /\ op.what \in {"action", "capture"}
        /\ UNCHANGED <<queue, last, sequence>>
    BY <1>11, <2>1 DEF Computer!Lost, Computer!Owner, AtHead
  <2>3. \/ UNCHANGED screen
        \/ op.what = "action" /\ screen' = Append(screen, c)
    BY <1>11, <2>2 DEF Computer!Lost
  <2>4. CASE Computer!Retries
    <3>1. op' = [op EXCEPT !.attempt = 1] /\ UNCHANGED <<call, screen>>
      BY <1>11, <2>3, <2>4 DEF Computer!Lost, Computer!Retries, Computer!Retried
    <3>2. op'.what = op.what /\ ComputerTypes'
      <4>1. 1 \in 0 .. 1
        OBVIOUS
      <4> QED BY <2>2, <3>1, <4>1 DEF ComputerTypes
    <3>3. QueueOK' /\ HeadOK' /\ SeenOK' /\ ScreenOK'
      BY <2>2, <3>1, <3>2 DEF QueueOK, HeadOK, SeenOK, ScreenOK, AtHead, AllFailed
    <3>4. Computer!ActsOnWhatItSaw'
      BY <3>1 DEF Computer!ActsOnWhatItSaw, Computer!At
    <3> QED BY <3>2, <3>3, <3>4 DEF ComputerInv
  <2>5. CASE ~Computer!Retries
    <3>1. op' = [op EXCEPT !.what = "settled"]
      BY <1>11, <2>5 DEF Computer!Lost, Computer!Settles
    <3>2. op' \in [what : {"settled"}, attempt : 0 .. 1]
      BY <3>1 DEF ComputerTypes
    <3>3. call[c].pc \in {"act", "capture", "failed"}
      BY <2>1, <2>2 DEF HeadOK
    <3>4. CASE call[c].pc \in {"act", "capture"}
      <4>1. Moved(c, "failed")
        BY <1>11, <2>2, <2>5, <3>4, GoesMoves DEF Computer!Lost, Computer!Steps
      <4> QED BY <1>9, <2>1, <2>2, <2>3, <3>2, <3>4, <4>1
    <3>5. CASE call[c].pc = "failed"
      <4>1. UNCHANGED call
        BY <1>11, <2>2, <2>5, <3>5 DEF Computer!Lost
      <4> QED BY <1>9, <2>1, <2>2, <2>3, <3>2, <3>5, <4>1
    <3> QED BY <3>3, <3>4, <3>5
  <2> QED BY <2>4, <2>5
<1> QED BY <1>1, <1>2, <1>3, <1>4, <1>5, <1>6, <1>7, <1>8, <1>10, <1>11 DEF Computer!Next

\* computer.ts, computer-session.ts: an action takes effect at most once, and a click
\* on the screen its model saw, for any number of calls that are made at once, that
\* time out, and whose requests are lost before or after they took effect.
THEOREM ActsOnWhatItSawHolds == Computer!Spec => []Computer!ActsOnWhatItSaw
<1>1. Computer!Init => ComputerInv
  <2> SUFFICES ASSUME Computer!Init PROVE ComputerInv
    OBVIOUS
  <2>1. /\ \A c \in Calls : call[c].pc = "new" /\ call[c].names = 0 /\ call[c].saw = 0
        /\ queue = <<>> /\ screen = <<>> /\ op.what = "none"
        /\ last.id = 0 /\ last.screen = 0 /\ sequence = 0
    BY DEF Computer!Init, Computer!NoOp, Computer!NoObservation
  <2>2. ComputerTypes
    BY DEF Computer!Init, Computer!NoOp, Computer!NoObservation, ComputerTypes, Moves,
           Computer!Kinds, Computer!Steps
  <2>3. QueueOK /\ HeadOK /\ SeenOK /\ ScreenOK
    BY <2>1 DEF QueueOK, HeadOK, SeenOK, ScreenOK, AtHead, AllFailed
  <2>4. Computer!ActsOnWhatItSaw
    BY <2>1 DEF Computer!ActsOnWhatItSaw
  <2> QED BY <2>2, <2>3, <2>4 DEF ComputerInv
<1>2. ComputerInv => Computer!ActsOnWhatItSaw
  BY DEF ComputerInv
<1>3. ComputerInv /\ [Computer!Next]_Computer!vars => ComputerInv'
  BY ComputerStep
<1> QED BY <1>1, <1>2, <1>3, PTL DEF Computer!Spec

-----------------------------------------------------------------------------
(* Projects and their sandboxes *)

Making == {"create", "clone", "cleanup", "bind", "record"}
ProjectSteps == {"idle", "read", "mark", "done"} \cup Making \cup {"fail"}
                  \cup Project!Switching \cup Project!Removing
Requests == [pc : ProjectSteps, id : Project!Ids \cup {None}, want : Branches \cup {None},
             previous : Branches \cup {None}]
Sandboxes == [state : {"none", "empty", "cloned", "deleted"}, head : Branches \cup {None}]
Records == [id : Project!Ids, status : {"creating", "ready", "failed"}, bound : BOOLEAN,
            branch : Branches, switch : {"idle", "switching", "failed"}]
ProjectBounds == MaxProjects \in Nat /\ MaxFaults \in Nat /\ None \notin Records

ProjectTypes ==
  /\ created \in 0 .. MaxProjects /\ faults \in 0 .. MaxFaults
  /\ project \in Records \cup {None} /\ box \in [Project!Ids -> Sandboxes]
  /\ call \in [Calls -> Requests]

\* The record is that of the newest project, and a project that is ready has a sandbox.
RecordOK == project # None => project.id = created /\ (project.status = "ready" => project.bound)
\* A request knows its project, and a switch where it came from.
RequestOK(c) ==
  /\ call[c].pc # "idle" => call[c].id \in 1 .. created
  /\ call[c].pc \in Making \cup {"fail", "read", "mark"} \cup Project!Switching =>
       call[c].want \in Branches
  /\ (call[c].pc = "mark" /\ Project!Found(c)) \/ call[c].pc \in Project!Switching =>
       call[c].previous \in Branches

NewBoxesOK == \A i \in Project!Ids : i > created => box[i].state = "none"
\* One request makes a sandbox, and until it is done nobody switches the branch of
\* the project or deletes the sandbox.
OneMaker ==
  \A c, d \in Calls : c # d /\ call[d].id = call[c].id =>
    /\ call[c].pc \in Making \cup {"fail"} => call[d].pc \notin Making \cup {"fail"}
    /\ call[c].pc \in Making => call[d].pc \notin {"read", "mark", "deletebox"} \cup Project!Switching
\* Until the sandbox is recorded the project is as it was made.
MakerOK(c) ==
  call[c].pc \in Making =>
    /\ Project!Found(c) => /\ project.status = "creating" /\ ~project.bound
                           /\ project.branch = call[c].want /\ project.switch = "idle"
    /\ call[c].pc = "create" => box[call[c].id].state = "none"
    /\ call[c].pc \in {"clone", "cleanup"} => box[call[c].id].state = "empty"
    /\ call[c].pc \in {"bind", "record"} =>
         box[call[c].id].state = "cloned" /\ box[call[c].id].head = call[c].want

\* The sandbox of a removed project was deleted, or the project was abandoned.
RemovedOK ==
  \A i \in 1 .. created : (project = None \/ i # created) =>
    i \in abandoned \/ box[i].state = "deleted"
\* Without a fault nobody gives up a sandbox that runs.
FailOK(c) ==
  faults = 0 /\ call[c].pc = "fail" => call[c].id \in abandoned \/ ~Project!Exists(call[c].id)

OverlapOK ==
  \A c, d \in Calls : /\ c # d /\ call[c].pc \in Project!Switching /\ call[d].pc \in Project!Switching
                      /\ call[d].id = call[c].id
                      => call[c].id \in overlap
\* A switch that overlaps no other finds the branch as it left it.
SwitchOK(c) ==
  call[c].pc \in Project!Switching /\ Project!Found(c) /\ call[c].id \notin overlap =>
    \/ project.switch = "switching" /\ (call[c].pc = "ready" => box[call[c].id].head = call[c].want)
    \/ /\ call[c].pc = "unswitch" /\ project.switch = "idle"
       /\ box[call[c].id].head = project.branch
IdleOK ==
  project # None /\ project.status = "ready" /\ project.switch = "idle"
    /\ project.id \notin overlap => box[project.id].head = project.branch

RequestInv(c) == RequestOK(c) /\ MakerOK(c) /\ FailOK(c) /\ SwitchOK(c)
ProjectInv ==
  /\ ProjectTypes /\ RecordOK /\ NewBoxesOK /\ OneMaker /\ RemovedOK /\ OverlapOK /\ IdleOK
  /\ \A c \in Calls : RequestInv(c)
  /\ Project!NoSandboxIsLost
-----------------------------------------------------------------------------
(* What a step of a request changes. *)

RequestMoved(c, place, id, want, previous) ==
  /\ call' \in [Calls -> Requests]
  /\ call'[c].pc = place /\ call'[c].id = id /\ call'[c].want = want /\ call'[c].previous = previous
  /\ \A d \in Calls : d # c => call'[d] = call[d]
Onward(c, place) == RequestMoved(c, place, call[c].id, call[c].want, call[c].previous)
Boxed(i, state, head) ==
  /\ box' \in [Project!Ids -> Sandboxes] /\ box'[i].state = state /\ box'[i].head = head
  /\ \A j \in Project!Ids : j # i => box'[j] = box[j]
Recorded(status, bound, branch, switch) ==
  /\ project' \in Records /\ project'.id = project.id /\ project'.status = status
  /\ project'.bound = bound /\ project'.branch = branch /\ project'.switch = switch

LEMMA RequestMoves ==
  ASSUME ProjectTypes, NEW c \in Calls, NEW place \in ProjectSteps
  PROVE  /\ Project!Goes(c, place) => Onward(c, place)
         /\ \A new \in Requests : call' = [call EXCEPT ![c] = new] =>
              RequestMoved(c, new.pc, new.id, new.want, new.previous)
         /\ \A p \in Branches \cup {None} : call' = [call EXCEPT ![c].pc = place, ![c].previous = p] =>
              RequestMoved(c, place, call[c].id, call[c].want, p)
<1>1. call \in [Calls -> Requests] /\ call[c] \in Requests
  BY DEF ProjectTypes
<1>2. ASSUME NEW new \in Requests, call' = [call EXCEPT ![c] = new]
      PROVE  RequestMoved(c, new.pc, new.id, new.want, new.previous)
  <2>1. call' \in [Calls -> Requests] /\ call'[c] = new /\ \A d \in Calls : d # c => call'[d] = call[d]
    BY <1>1, <1>2
  <2> QED BY <2>1 DEF RequestMoved
<1>3. ASSUME Project!Goes(c, place) PROVE Onward(c, place)
  <2> DEFINE new == [call[c] EXCEPT !.pc = place]
  <2>1. call' = [call EXCEPT ![c] = new]
    BY <1>1, <1>3 DEF Project!Goes
  <2>2. new \in Requests /\ new.pc = place /\ new.id = call[c].id /\ new.want = call[c].want
        /\ new.previous = call[c].previous
    BY <1>1 DEF Requests
  <2> HIDE DEF new
  <2> QED BY <1>2, <2>1, <2>2 DEF Onward
<1>4. ASSUME NEW p \in Branches \cup {None}, call' = [call EXCEPT ![c].pc = place, ![c].previous = p]
      PROVE  RequestMoved(c, place, call[c].id, call[c].want, p)
  <2> DEFINE new == [call[c] EXCEPT !.pc = place, !.previous = p]
  <2>1. call' = [call EXCEPT ![c] = new]
    BY <1>1, <1>4
  <2>2. new \in Requests /\ new.pc = place /\ new.id = call[c].id /\ new.want = call[c].want
        /\ new.previous = p
    BY <1>1 DEF Requests
  <2> HIDE DEF new
  <2> QED BY <1>2, <2>1, <2>2
<1> QED BY <1>2, <1>3, <1>4

LEMMA BoxMoves ==
  ASSUME ProjectTypes, NEW i \in Project!Ids
  PROVE  /\ \A s \in {"none", "empty", "cloned", "deleted"} :
              box' = [box EXCEPT ![i].state = s] => Boxed(i, s, box[i].head)
         /\ \A h \in Branches \cup {None} :
              box' = [box EXCEPT ![i].head = h] => Boxed(i, box[i].state, h)
         /\ \A h \in Branches \cup {None} :
              box' = [box EXCEPT ![i] = [state |-> "cloned", head |-> h]] => Boxed(i, "cloned", h)
<1>1. box \in [Project!Ids -> Sandboxes] /\ box[i] \in Sandboxes
  BY DEF ProjectTypes
<1>2. ASSUME NEW new \in Sandboxes, box' = [box EXCEPT ![i] = new]
      PROVE  Boxed(i, new.state, new.head)
  <2>1. box' \in [Project!Ids -> Sandboxes] /\ box'[i] = new
        /\ \A j \in Project!Ids : j # i => box'[j] = box[j]
    BY <1>1, <1>2
  <2> QED BY <2>1 DEF Boxed
<1>3. ASSUME NEW s \in {"none", "empty", "cloned", "deleted"}, box' = [box EXCEPT ![i].state = s]
      PROVE  Boxed(i, s, box[i].head)
  <2> DEFINE new == [box[i] EXCEPT !.state = s]
  <2>1. box' = [box EXCEPT ![i] = new]
    BY <1>1, <1>3
  <2>2. new \in Sandboxes /\ new.state = s /\ new.head = box[i].head
    BY <1>1 DEF Sandboxes
  <2> HIDE DEF new
  <2> QED BY <1>2, <2>1, <2>2
<1>4. ASSUME NEW h \in Branches \cup {None}, box' = [box EXCEPT ![i].head = h]
      PROVE  Boxed(i, box[i].state, h)
  <2> DEFINE new == [box[i] EXCEPT !.head = h]
  <2>1. box' = [box EXCEPT ![i] = new]
    BY <1>1, <1>4
  <2>2. new \in Sandboxes /\ new.state = box[i].state /\ new.head = h
    BY <1>1 DEF Sandboxes
  <2> HIDE DEF new
  <2> QED BY <1>2, <2>1, <2>2
<1>5. ASSUME NEW h \in Branches \cup {None},
             box' = [box EXCEPT ![i] = [state |-> "cloned", head |-> h]]
      PROVE  Boxed(i, "cloned", h)
  <2> DEFINE new == [state |-> "cloned", head |-> h]
  <2>1. new \in Sandboxes /\ new.state = "cloned" /\ new.head = h
    BY DEF Sandboxes
  <2>2. box' = [box EXCEPT ![i] = new]
    BY <1>5
  <2> HIDE DEF new
  <2> QED BY <1>2, <2>1, <2>2
<1> QED BY <1>3, <1>4, <1>5

LEMMA ProjectFaults ==
  ASSUME ProjectTypes, ProjectBounds
  PROVE  /\ Project!Fine => faults' \in 0 .. MaxFaults /\ faults' = faults
         /\ Project!Fails => faults' \in 0 .. MaxFaults /\ faults' # 0
BY DEF ProjectTypes, ProjectBounds, Project!Fine, Project!Fails


LEMMA ProjectMoves ==
  ASSUME project \in Records
  PROVE  /\ project' = [project EXCEPT !.status = "ready", !.bound = TRUE, !.switch = "idle"] =>
              Recorded("ready", TRUE, project.branch, "idle")
         /\ project' = [project EXCEPT !.status = "failed"] =>
              Recorded("failed", project.bound, project.branch, project.switch)
         /\ \A b \in Branches, s \in {"idle", "switching", "failed"} :
              project' = [project EXCEPT !.branch = b, !.switch = s] =>
                Recorded(project.status, project.bound, b, s)
<1>1. /\ project = [id |-> project.id, status |-> project.status, bound |-> project.bound,
                    branch |-> project.branch, switch |-> project.switch]
      /\ project.id \in Project!Ids /\ project.status \in {"creating", "ready", "failed"}
      /\ project.bound \in BOOLEAN /\ project.branch \in Branches
      /\ project.switch \in {"idle", "switching", "failed"}
  BY DEF Records
<1>2. ASSUME project' = [project EXCEPT !.status = "ready", !.bound = TRUE, !.switch = "idle"]
      PROVE  Recorded("ready", TRUE, project.branch, "idle")
  BY <1>1, <1>2 DEF Records, Recorded
<1>3. ASSUME project' = [project EXCEPT !.status = "failed"]
      PROVE  Recorded("failed", project.bound, project.branch, project.switch)
  BY <1>1, <1>3 DEF Records, Recorded
<1>4. ASSUME NEW b \in Branches, NEW s \in {"idle", "switching", "failed"},
             project' = [project EXCEPT !.branch = b, !.switch = s]
      PROVE  Recorded(project.status, project.bound, b, s)
  BY <1>1, <1>4 DEF Records, Recorded
<1> QED BY <1>2, <1>3, <1>4
\* A step that changes nothing but the request.
LEMMA CallStep ==
  ASSUME ProjectInv, ProjectBounds, NEW c \in Calls,
         NEW place \in ProjectSteps, NEW id, NEW want, NEW previous,
         RequestMoved(c, place, id, want, previous), UNCHANGED <<project, created, box, abandoned, overlap>>,
         faults' \in 0 .. MaxFaults, faults' = 0 => faults = 0,
         place # "idle", id \in 1 .. created,
         place \in Making \cup {"fail", "read", "mark"} \cup Project!Switching => want \in Branches,
         (place = "mark" /\ project # None /\ project.id = id) \/ place \in Project!Switching =>
           previous \in Branches,
         place \in Making =>
           <<call[c].pc, place>> \in {<<"clone", "cleanup">>, <<"bind", "record">>}
             /\ id = call[c].id /\ want = call[c].want,
         place = "fail" =>
           call[c].pc \in Making /\ id = call[c].id
             /\ (faults' = 0 => id \in abandoned \/ ~Project!Exists(id)),
         place \in {"read", "mark", "deletebox"} =>
           \/ call[c].pc = "read" /\ id = call[c].id
           \/ project # None /\ project.id = id /\ project.bound,
         place \in Project!Switching =>
           place = "unswitch" /\ call[c].pc \in {"checkout", "ready"} /\ id = call[c].id,
         call[c].pc \in Making =>
           (place \in Making \cup {"fail"} /\ id = call[c].id) \/ faults' # 0
  PROVE  ProjectInv'
<1>1. /\ ProjectTypes /\ RecordOK /\ NewBoxesOK /\ OneMaker /\ RemovedOK /\ OverlapOK /\ IdleOK
      /\ \A d \in Calls : RequestOK(d) /\ MakerOK(d) /\ FailOK(d) /\ SwitchOK(d)
      /\ Project!NoSandboxIsLost
  BY DEF ProjectInv, RequestInv
<1>2. /\ call \in [Calls -> Requests] /\ box \in [Project!Ids -> Sandboxes]
      /\ created \in 0 .. MaxProjects /\ faults \in 0 .. MaxFaults
      /\ project \in Records \cup {None} /\ call[c] \in Requests
  BY <1>1 DEF ProjectTypes
<1>3. /\ call' \in [Calls -> Requests] /\ \A d \in Calls : d # c => call'[d] = call[d]
      /\ call'[c].pc = place /\ call'[c].id = id /\ call'[c].want = want
      /\ call'[c].previous = previous
  BY DEF Onward, RequestMoved
<1>4. ProjectTypes'
  BY <1>2, <1>3 DEF ProjectTypes, ProjectBounds
<1>5. RecordOK'
  BY <1>1, <1>2 DEF RecordOK
<1>6. NewBoxesOK'
  BY <1>1, <1>2 DEF NewBoxesOK, Project!Ids
<1>7. RemovedOK'
  BY <1>1, <1>2 DEF RemovedOK, RecordOK, MakerOK, Making, Project!Ids, Project!Found
<1>8. OneMaker'
  <2> SUFFICES ASSUME NEW d \in Calls, NEW e \in Calls, d # e, call'[e].id = call'[d].id
               PROVE  /\ call'[d].pc \in Making \cup {"fail"} => call'[e].pc \notin Making \cup {"fail"}
                      /\ call'[d].pc \in Making =>
                           call'[e].pc \notin {"read", "mark", "deletebox"} \cup Project!Switching
    BY DEF OneMaker
  <2>1. CASE d = c
    BY <1>1, <1>3, <2>1
    DEF OneMaker, MakerOK, RequestOK, Making, Project!Switching, Project!Found
  <2>2. CASE e = c
    BY <1>1, <1>3, <2>2
    DEF OneMaker, MakerOK, RequestOK, Making, Project!Switching, Project!Found
  <2>3. CASE d # c /\ e # c
    BY <1>1, <1>3, <2>3 DEF OneMaker, Making, Project!Switching
  <2> QED BY <2>1, <2>2, <2>3
<1>9. OverlapOK'
  <2> SUFFICES ASSUME NEW d \in Calls, NEW e \in Calls, d # e, call'[d].pc \in Project!Switching,
                      call'[e].pc \in Project!Switching, call'[e].id = call'[d].id
               PROVE  call'[d].id \in overlap'
    BY DEF OverlapOK
  <2>1. CASE d = c
    BY <1>1, <1>3, <2>1 DEF OverlapOK, Making, Project!Switching, Project!Found
  <2>2. CASE e = c
    BY <1>1, <1>3, <2>2 DEF OverlapOK, Making, Project!Switching, Project!Found
  <2>3. CASE d # c /\ e # c
    BY <1>1, <1>3, <2>3 DEF OverlapOK, Making, Project!Switching
  <2> QED BY <2>1, <2>2, <2>3
<1>10. IdleOK'
  BY <1>1, <1>2, <1>3
  DEF IdleOK, MakerOK, SwitchOK, RecordOK, ProjectBounds, Project!Ids, Records, Making,
      Project!Switching, Project!Found
<1>11. ASSUME NEW d \in Calls PROVE RequestOK(d)'
  <2>1. CASE d = c
    BY <1>1, <1>3, <2>1 DEF RequestOK, RecordOK, Making, Project!Switching, Project!Found
  <2>2. CASE d # c
    BY <1>1, <1>3, <2>2 DEF RequestOK, Making, Project!Switching, Project!Found
  <2> QED BY <2>1, <2>2
<1>12. ASSUME NEW d \in Calls PROVE MakerOK(d)'
  <2>1. CASE d = c
    BY <1>1, <1>3, <2>1 DEF MakerOK, RequestOK, Making, Project!Switching, Project!Found
  <2>2. CASE d # c
    BY <1>1, <1>3, <2>2
    DEF MakerOK, OneMaker, RequestOK, Making, Project!Switching, Project!Found
  <2> QED BY <2>1, <2>2
<1>13. ASSUME NEW d \in Calls PROVE FailOK(d)'
  <2>1. CASE d = c
    BY <1>1, <1>3, <2>1
    DEF FailOK, MakerOK, RequestOK, Project!Exists, Making, Project!Switching, Project!Found
  <2>2. CASE d # c
    BY <1>1, <1>3, <2>2
    DEF FailOK, OneMaker, RequestOK, Project!Exists, Making, Project!Switching, Project!Found
  <2> QED BY <2>1, <2>2
<1>14. ASSUME NEW d \in Calls PROVE SwitchOK(d)'
  <2>1. CASE d = c
    BY <1>1, <1>3, <2>1
    DEF SwitchOK, OverlapOK, RequestOK, Making, Project!Switching, Project!Found
  <2>2. CASE d # c
    BY <1>1, <1>3, <2>2
    DEF SwitchOK, OneMaker, OverlapOK, RequestOK, Making, Project!Switching, Project!Found
  <2> QED BY <2>1, <2>2
<1>15. Project!NoSandboxIsLost'
  <2> SUFFICES ASSUME NEW i \in Project!Ids, Project!Exists(i)', faults' = 0, i \notin abandoned'
               PROVE  \/ project' # None /\ project'.id = i /\ project'.bound
                      \/ \E w \in Calls : call'[w].id = i /\ call'[w].pc \in Project!Provisioning
    BY DEF Project!NoSandboxIsLost
  <2>1. CASE ~(Project!Exists(i) /\ faults = 0 /\ i \notin abandoned)
    BY <1>1, <1>3, <2>1 DEF Project!Exists, Project!Provisioning, Project!Found
  <2>2. CASE faults = 0 /\ project # None /\ project.id = i /\ project.bound
    BY <1>1, <1>3, <2>2 DEF Project!Exists, RecordOK, Project!Found
  <2>3. CASE \E w \in Calls : w # c /\ call[w].id = i /\ call[w].pc \in Project!Provisioning
    BY <1>3, <2>3
  <2>4. CASE /\ Project!Exists(i) /\ faults = 0 /\ i \notin abandoned
              /\ call[c].id = i /\ call[c].pc \in Project!Provisioning
    BY <1>1, <1>3, <2>4 DEF FailOK, Making, Project!Provisioning, Project!Exists, Project!Found
  <2> QED BY <1>1, <2>1, <2>2, <2>3, <2>4 DEF Project!NoSandboxIsLost
<1> QED BY <1>4, <1>5, <1>6, <1>7, <1>8, <1>9, <1>10, <1>11, <1>12, <1>13, <1>14, <1>15
  DEF ProjectInv, RequestInv

\* A project is made.
LEMMA OpenNewStep ==
  ASSUME ProjectInv, ProjectBounds, NEW c \in Calls,
         project = None, created < MaxProjects, created' = created + 1,
         NEW b \in Branches, NEW previous, RequestMoved(c, "create", created', b, previous), call[c].pc = "idle",
         project' = [id |-> created', status |-> "creating", bound |-> FALSE, branch |-> b, switch |-> "idle"],
         UNCHANGED <<box, abandoned, overlap, faults>>
  PROVE  ProjectInv'
<1>1. /\ ProjectTypes /\ RecordOK /\ NewBoxesOK /\ OneMaker /\ RemovedOK /\ OverlapOK /\ IdleOK
      /\ \A d \in Calls : RequestOK(d) /\ MakerOK(d) /\ FailOK(d) /\ SwitchOK(d)
      /\ Project!NoSandboxIsLost
  BY DEF ProjectInv, RequestInv
<1>2. /\ call \in [Calls -> Requests] /\ box \in [Project!Ids -> Sandboxes]
      /\ created \in 0 .. MaxProjects /\ faults \in 0 .. MaxFaults
      /\ project \in Records \cup {None} /\ call[c] \in Requests
  BY <1>1 DEF ProjectTypes
<1>3. /\ call' \in [Calls -> Requests] /\ \A d \in Calls : d # c => call'[d] = call[d]
      /\ call'[c].pc = "create" /\ call'[c].id = created' /\ call'[c].want = b
      /\ call'[c].previous = previous
  BY DEF Onward, RequestMoved
<1>4. created \in Nat /\ created' \in Project!Ids /\ created' > created /\ created' \in 0 .. MaxProjects
  BY <1>2 DEF ProjectBounds, Project!Ids
<1>5. /\ project' \in Records /\ project' # None /\ project'.id = created' /\ project'.status = "creating"
      /\ ~project'.bound /\ project'.branch = b /\ project'.switch = "idle"
  <2>1. project' \in Records /\ project'.id = created' /\ project'.status = "creating"
        /\ ~project'.bound /\ project'.branch = b /\ project'.switch = "idle"
    BY <1>4 DEF Records
  <2> QED BY <2>1 DEF ProjectBounds

<1>6. \A d \in Calls : call[d].pc # "idle" => call[d].id # created' /\ call[d].id \in 1 .. created'
  BY <1>1, <1>2, <1>4 DEF RequestOK
<1>7. ProjectTypes'
  BY <1>2, <1>4, <1>3, <1>5, <1>6 DEF ProjectTypes, ProjectBounds
<1>8. RecordOK'
  BY <1>1, <1>2, <1>4, <1>5, <1>6 DEF RecordOK
<1>9. NewBoxesOK'
  BY <1>1, <1>2, <1>4, <1>6 DEF NewBoxesOK, Project!Ids
<1>10. RemovedOK'
  BY <1>1, <1>2, <1>4, <1>5, <1>6
  DEF RemovedOK, RecordOK, MakerOK, Making, Project!Ids, Project!Found
<1>11. OneMaker'
  <2> SUFFICES ASSUME NEW d \in Calls, NEW e \in Calls, d # e, call'[e].id = call'[d].id
               PROVE  /\ call'[d].pc \in Making \cup {"fail"} => call'[e].pc \notin Making \cup {"fail"}
                      /\ call'[d].pc \in Making =>
                           call'[e].pc \notin {"read", "mark", "deletebox"} \cup Project!Switching
    BY DEF OneMaker
  <2>1. CASE d = c
    BY <1>1, <1>3, <1>4, <1>5, <1>6, <2>1
    DEF OneMaker, MakerOK, RequestOK, Making, Project!Switching, Project!Found
  <2>2. CASE e = c
    BY <1>1, <1>3, <1>4, <1>5, <1>6, <2>2
    DEF OneMaker, MakerOK, RequestOK, Making, Project!Switching, Project!Found
  <2>3. CASE d # c /\ e # c
    BY <1>1, <1>3, <2>3 DEF OneMaker, Making, Project!Switching
  <2> QED BY <2>1, <2>2, <2>3
<1>12. OverlapOK'
  <2> SUFFICES ASSUME NEW d \in Calls, NEW e \in Calls, d # e, call'[d].pc \in Project!Switching,
                      call'[e].pc \in Project!Switching, call'[e].id = call'[d].id
               PROVE  call'[d].id \in overlap'
    BY DEF OverlapOK
  <2>1. CASE d = c
    BY <1>1, <1>3, <1>4, <1>5, <1>6, <2>1
    DEF OverlapOK, Making, Project!Switching, Project!Found
  <2>2. CASE e = c
    BY <1>1, <1>3, <1>4, <1>5, <1>6, <2>2
    DEF OverlapOK, Making, Project!Switching, Project!Found
  <2>3. CASE d # c /\ e # c
    BY <1>1, <1>3, <2>3 DEF OverlapOK, Making, Project!Switching
  <2> QED BY <2>1, <2>2, <2>3
<1>13. IdleOK'
  BY <1>1, <1>2, <1>4, <1>3, <1>5, <1>6
  DEF IdleOK, MakerOK, SwitchOK, RecordOK, ProjectBounds, Project!Ids, Records, Making,
      Project!Switching, Project!Found
<1>14. ASSUME NEW d \in Calls PROVE RequestOK(d)'
  <2>1. CASE d = c
    BY <1>1, <1>3, <1>4, <1>5, <1>6, <2>1
    DEF RequestOK, RecordOK, Making, Project!Switching, Project!Found
  <2>2. CASE d # c
    BY <1>1, <1>3, <1>4, <1>5, <1>6, <2>2
    DEF RequestOK, Making, Project!Switching, Project!Found
  <2> QED BY <2>1, <2>2
<1>15. ASSUME NEW d \in Calls PROVE MakerOK(d)'
  <2>1. CASE d = c
    BY <1>1, <1>4, <1>3, <1>5, <2>1 DEF MakerOK, NewBoxesOK, Making, Project!Found
  <2>2. CASE d # c
    BY <1>1, <1>3, <1>5, <1>4, <1>6, <2>2 DEF MakerOK, RequestOK, Making, Project!Found
  <2> QED BY <2>1, <2>2
<1>16. ASSUME NEW d \in Calls PROVE FailOK(d)'
  <2>1. CASE d = c
    BY <1>1, <1>3, <1>4, <1>5, <1>6, <2>1
    DEF FailOK, MakerOK, RequestOK, Project!Exists, Making, Project!Switching, Project!Found
  <2>2. CASE d # c
    BY <1>1, <1>3, <1>4, <1>5, <1>6, <2>2
    DEF FailOK, OneMaker, RequestOK, Project!Exists, Making, Project!Switching, Project!Found
  <2> QED BY <2>1, <2>2
<1>17. ASSUME NEW d \in Calls PROVE SwitchOK(d)'
  <2>1. CASE d = c
    BY <1>1, <1>3, <1>4, <1>5, <1>6, <2>1
    DEF SwitchOK, OverlapOK, RequestOK, Making, Project!Switching, Project!Found
  <2>2. CASE d # c
    BY <1>1, <1>3, <1>4, <1>5, <1>6, <2>2
    DEF SwitchOK, OneMaker, OverlapOK, RequestOK, Making, Project!Switching, Project!Found
  <2> QED BY <2>1, <2>2
<1>18. Project!NoSandboxIsLost'
  <2> SUFFICES ASSUME NEW i \in Project!Ids, Project!Exists(i)', faults' = 0, i \notin abandoned'
               PROVE  \/ project' # None /\ project'.id = i /\ project'.bound
                      \/ \E w \in Calls : call'[w].id = i /\ call'[w].pc \in Project!Provisioning
    BY DEF Project!NoSandboxIsLost
  <2>1. CASE ~(Project!Exists(i) /\ faults = 0 /\ i \notin abandoned)
    BY <1>1, <1>3, <1>4, <1>5, <1>6, <2>1
    DEF Project!Exists, Project!Provisioning, Project!Found
  <2>2. CASE faults = 0 /\ project # None /\ project.id = i /\ project.bound
    BY <1>1, <1>3, <1>4, <1>5, <1>6, <2>2 DEF Project!Exists, RecordOK, Project!Found
  <2>3. CASE \E w \in Calls : w # c /\ call[w].id = i /\ call[w].pc \in Project!Provisioning
    BY <1>3, <2>3
  <2>4. CASE /\ Project!Exists(i) /\ faults = 0 /\ i \notin abandoned
              /\ call[c].id = i /\ call[c].pc \in Project!Provisioning
    BY <1>1, <1>3, <1>4, <1>5, <1>6, <2>4
    DEF FailOK, Making, Project!Provisioning, Project!Exists, Project!Found
  <2> QED BY <1>1, <2>1, <2>2, <2>3, <2>4 DEF Project!NoSandboxIsLost
<1> QED BY <1>7, <1>8, <1>9, <1>10, <1>11, <1>12, <1>13, <1>14, <1>15, <1>16, <1>17, <1>18
  DEF ProjectInv, RequestInv

LEMMA CreateBoxStep ==
  ASSUME ProjectInv, ProjectBounds, NEW c \in Calls,
         call[c].pc = "create",
         Onward(c, "clone"),
         Boxed(call[c].id, "empty", box[call[c].id].head),
         UNCHANGED <<project, created, abandoned, overlap, faults>>
  PROVE  ProjectInv'
<1>1. /\ ProjectTypes /\ RecordOK /\ NewBoxesOK /\ OneMaker /\ RemovedOK /\ OverlapOK /\ IdleOK
      /\ \A d \in Calls : RequestOK(d) /\ MakerOK(d) /\ FailOK(d) /\ SwitchOK(d)
      /\ Project!NoSandboxIsLost
  BY DEF ProjectInv, RequestInv
<1>2. /\ call \in [Calls -> Requests] /\ box \in [Project!Ids -> Sandboxes]
      /\ created \in 0 .. MaxProjects /\ faults \in 0 .. MaxFaults
      /\ project \in Records \cup {None} /\ call[c] \in Requests
  BY <1>1 DEF ProjectTypes
<1>3. /\ call' \in [Calls -> Requests] /\ \A d \in Calls : d # c => call'[d] = call[d]
      /\ call'[c].pc = "clone" /\ call'[c].id = call[c].id /\ call'[c].want = call[c].want
      /\ call'[c].previous = call[c].previous
  BY DEF Onward, RequestMoved
<1>4. call[c].id \in 1 .. created /\ call[c].id \in Project!Ids
  BY <1>1, <1>2 DEF RequestOK, Project!Ids, ProjectBounds
<1>5. /\ box' \in [Project!Ids -> Sandboxes]
      /\ \A j \in Project!Ids : j # call[c].id => box'[j] = box[j]
      /\ box'[call[c].id].state = "empty" /\ box'[call[c].id].head = box[call[c].id].head
  BY DEF Boxed
<1>6. \A d \in Calls : call[d].pc # "idle" => call[d].id \in Project!Ids
  BY <1>1, <1>2 DEF RequestOK, Project!Ids, ProjectBounds
<1>7. ProjectTypes'
  BY <1>2, <1>3, <1>5 DEF ProjectTypes, ProjectBounds
<1>8. RecordOK'
  BY <1>1, <1>2 DEF RecordOK
<1>9. NewBoxesOK'
  BY <1>1, <1>2, <1>5, <1>4 DEF NewBoxesOK, Project!Ids
<1>10. RemovedOK'
  <2> SUFFICES ASSUME NEW i \in 1 .. created, project = None \/ i # created
               PROVE  i \in abandoned \/ box'[i].state = "deleted"
    BY DEF RemovedOK
  <2>1. i \in Project!Ids /\ (i \in abandoned \/ box[i].state = "deleted")
    BY <1>1, <1>2 DEF RemovedOK, Project!Ids, ProjectBounds
  <2>2. CASE i = call[c].id
    BY <1>1, <1>5, <2>1, <2>2 DEF MakerOK, Making
  <2>3. CASE i # call[c].id
    BY <1>5, <2>1, <2>3
  <2> QED BY <2>1, <2>2, <2>3
<1>11. OneMaker'
  <2> SUFFICES ASSUME NEW d \in Calls, NEW e \in Calls, d # e, call'[e].id = call'[d].id
               PROVE  /\ call'[d].pc \in Making \cup {"fail"} => call'[e].pc \notin Making \cup {"fail"}
                      /\ call'[d].pc \in Making =>
                           call'[e].pc \notin {"read", "mark", "deletebox"} \cup Project!Switching
    BY DEF OneMaker
  <2>1. CASE d = c
    BY <1>1, <1>3, <1>5, <1>4, <1>6, <2>1
    DEF OneMaker, MakerOK, RequestOK, Making, Project!Switching, Project!Found
  <2>2. CASE e = c
    BY <1>1, <1>3, <1>5, <1>4, <1>6, <2>2
    DEF OneMaker, MakerOK, RequestOK, Making, Project!Switching, Project!Found
  <2>3. CASE d # c /\ e # c
    BY <1>1, <1>3, <2>3 DEF OneMaker, Making, Project!Switching
  <2> QED BY <2>1, <2>2, <2>3
<1>12. OverlapOK'
  <2> SUFFICES ASSUME NEW d \in Calls, NEW e \in Calls, d # e, call'[d].pc \in Project!Switching,
                      call'[e].pc \in Project!Switching, call'[e].id = call'[d].id
               PROVE  call'[d].id \in overlap'
    BY DEF OverlapOK
  <2>1. CASE d = c
    BY <1>1, <1>3, <1>5, <1>4, <1>6, <2>1
    DEF OverlapOK, Making, Project!Switching, Project!Found
  <2>2. CASE e = c
    BY <1>1, <1>3, <1>5, <1>4, <1>6, <2>2
    DEF OverlapOK, Making, Project!Switching, Project!Found
  <2>3. CASE d # c /\ e # c
    BY <1>1, <1>3, <2>3 DEF OverlapOK, Making, Project!Switching
  <2> QED BY <2>1, <2>2, <2>3
<1>13. IdleOK'
  BY <1>1, <1>2, <1>3, <1>5, <1>4
  DEF IdleOK, MakerOK, SwitchOK, RecordOK, ProjectBounds, Project!Ids, Records, Making,
      Project!Switching, Project!Found
<1>14. ASSUME NEW d \in Calls PROVE RequestOK(d)'
  <2>1. CASE d = c
    BY <1>1, <1>3, <1>5, <1>4, <1>6, <2>1
    DEF RequestOK, RecordOK, Making, Project!Switching, Project!Found
  <2>2. CASE d # c
    <3>1. CASE call[d].id = call[c].id
      BY <1>1, <1>3, <1>5, <1>4, <1>6, <2>2, <3>1
      DEF RequestOK, Making, Project!Switching, Project!Found
    <3>2. CASE call[d].id # call[c].id
      BY <1>1, <1>3, <1>5, <1>4, <1>6, <2>2, <3>2
      DEF RequestOK, Making, Project!Switching, Project!Found
    <3> QED BY <3>1, <3>2
  <2> QED BY <2>1, <2>2
<1>15. ASSUME NEW d \in Calls PROVE MakerOK(d)'
  <2>1. CASE d = c
    BY <1>1, <1>3, <1>5, <1>4, <1>6, <2>1
    DEF MakerOK, RequestOK, Making, Project!Switching, Project!Found
  <2>2. CASE d # c
    <3>1. CASE call[d].id = call[c].id
      BY <1>1, <1>3, <1>5, <1>4, <1>6, <2>2, <3>1
      DEF MakerOK, OneMaker, RequestOK, Making, Project!Switching, Project!Found
    <3>2. CASE call[d].id # call[c].id
      BY <1>1, <1>3, <1>5, <1>4, <1>6, <2>2, <3>2
      DEF MakerOK, OneMaker, RequestOK, Making, Project!Switching, Project!Found
    <3> QED BY <3>1, <3>2
  <2> QED BY <2>1, <2>2
<1>16. ASSUME NEW d \in Calls PROVE FailOK(d)'
  <2>1. CASE d = c
    BY <1>1, <1>3, <1>5, <1>4, <1>6, <2>1
    DEF FailOK, MakerOK, RequestOK, Project!Exists, Making, Project!Switching, Project!Found
  <2>2. CASE d # c
    <3>1. CASE call[d].id = call[c].id
      BY <1>1, <1>3, <1>5, <1>4, <1>6, <2>2, <3>1
      DEF FailOK, OneMaker, RequestOK, Project!Exists, Making, Project!Switching, Project!Found
    <3>2. CASE call[d].id # call[c].id
      BY <1>1, <1>3, <1>5, <1>4, <1>6, <2>2, <3>2
      DEF FailOK, OneMaker, RequestOK, Project!Exists, Making, Project!Switching, Project!Found
    <3> QED BY <3>1, <3>2
  <2> QED BY <2>1, <2>2
<1>17. ASSUME NEW d \in Calls PROVE SwitchOK(d)'
  <2>1. CASE d = c
    BY <1>1, <1>3, <1>5, <1>4, <1>6, <2>1
    DEF SwitchOK, OverlapOK, RequestOK, Making, Project!Switching, Project!Found
  <2>2. CASE d # c
    <3>1. CASE call[d].id = call[c].id
      BY <1>1, <1>3, <1>5, <1>4, <1>6, <2>2, <3>1
      DEF SwitchOK, OneMaker, OverlapOK, RequestOK, Making, Project!Switching, Project!Found
    <3>2. CASE call[d].id # call[c].id
      BY <1>1, <1>3, <1>5, <1>4, <1>6, <2>2, <3>2
      DEF SwitchOK, OneMaker, OverlapOK, RequestOK, Making, Project!Switching, Project!Found
    <3> QED BY <3>1, <3>2
  <2> QED BY <2>1, <2>2
<1>18. Project!NoSandboxIsLost'
  <2> SUFFICES ASSUME NEW i \in Project!Ids, Project!Exists(i)', faults' = 0, i \notin abandoned'
               PROVE  \/ project' # None /\ project'.id = i /\ project'.bound
                      \/ \E w \in Calls : call'[w].id = i /\ call'[w].pc \in Project!Provisioning
    BY DEF Project!NoSandboxIsLost
  <2>1. CASE ~(Project!Exists(i) /\ faults = 0 /\ i \notin abandoned)
    BY <1>1, <1>3, <1>5, <1>4, <1>6, <2>1
    DEF Project!Exists, Project!Provisioning, Project!Found
  <2>2. CASE faults = 0 /\ project # None /\ project.id = i /\ project.bound
    BY <1>1, <1>3, <1>5, <1>4, <1>6, <2>2 DEF Project!Exists, RecordOK, Project!Found
  <2>3. CASE \E w \in Calls : w # c /\ call[w].id = i /\ call[w].pc \in Project!Provisioning
    BY <1>3, <2>3
  <2>4. CASE /\ Project!Exists(i) /\ faults = 0 /\ i \notin abandoned
              /\ call[c].id = i /\ call[c].pc \in Project!Provisioning
    BY <1>1, <1>3, <1>5, <1>4, <1>6, <2>4
    DEF FailOK, Making, Project!Provisioning, Project!Exists, Project!Found
  <2> QED BY <1>1, <2>1, <2>2, <2>3, <2>4 DEF Project!NoSandboxIsLost
<1> QED BY <1>7, <1>8, <1>9, <1>10, <1>11, <1>12, <1>13, <1>14, <1>15, <1>16, <1>17, <1>18
  DEF ProjectInv, RequestInv

LEMMA CloneStep ==
  ASSUME ProjectInv, ProjectBounds, NEW c \in Calls,
         call[c].pc = "clone",
         Onward(c, "bind"),
         Boxed(call[c].id, "cloned", call[c].want),
         UNCHANGED <<project, created, abandoned, overlap, faults>>
  PROVE  ProjectInv'
<1>1. /\ ProjectTypes /\ RecordOK /\ NewBoxesOK /\ OneMaker /\ RemovedOK /\ OverlapOK /\ IdleOK
      /\ \A d \in Calls : RequestOK(d) /\ MakerOK(d) /\ FailOK(d) /\ SwitchOK(d)
      /\ Project!NoSandboxIsLost
  BY DEF ProjectInv, RequestInv
<1>2. /\ call \in [Calls -> Requests] /\ box \in [Project!Ids -> Sandboxes]
      /\ created \in 0 .. MaxProjects /\ faults \in 0 .. MaxFaults
      /\ project \in Records \cup {None} /\ call[c] \in Requests
  BY <1>1 DEF ProjectTypes
<1>3. /\ call' \in [Calls -> Requests] /\ \A d \in Calls : d # c => call'[d] = call[d]
      /\ call'[c].pc = "bind" /\ call'[c].id = call[c].id /\ call'[c].want = call[c].want
      /\ call'[c].previous = call[c].previous
  BY DEF Onward, RequestMoved
<1>4. call[c].id \in 1 .. created /\ call[c].id \in Project!Ids
  BY <1>1, <1>2 DEF RequestOK, Project!Ids, ProjectBounds
<1>5. /\ box' \in [Project!Ids -> Sandboxes]
      /\ \A j \in Project!Ids : j # call[c].id => box'[j] = box[j]
      /\ box'[call[c].id].state = "cloned" /\ box'[call[c].id].head = call[c].want
  BY DEF Boxed
<1>6. \A d \in Calls : call[d].pc # "idle" => call[d].id \in Project!Ids
  BY <1>1, <1>2 DEF RequestOK, Project!Ids, ProjectBounds
<1>7. ProjectTypes'
  BY <1>2, <1>3, <1>5 DEF ProjectTypes, ProjectBounds
<1>8. RecordOK'
  BY <1>1, <1>2 DEF RecordOK
<1>9. NewBoxesOK'
  BY <1>1, <1>2, <1>5, <1>4 DEF NewBoxesOK, Project!Ids
<1>10. RemovedOK'
  <2> SUFFICES ASSUME NEW i \in 1 .. created, project = None \/ i # created
               PROVE  i \in abandoned \/ box'[i].state = "deleted"
    BY DEF RemovedOK
  <2>1. i \in Project!Ids /\ (i \in abandoned \/ box[i].state = "deleted")
    BY <1>1, <1>2 DEF RemovedOK, Project!Ids, ProjectBounds
  <2>2. CASE i = call[c].id
    BY <1>1, <1>5, <2>1, <2>2 DEF MakerOK, Making
  <2>3. CASE i # call[c].id
    BY <1>5, <2>1, <2>3
  <2> QED BY <2>1, <2>2, <2>3
<1>11. OneMaker'
  <2> SUFFICES ASSUME NEW d \in Calls, NEW e \in Calls, d # e, call'[e].id = call'[d].id
               PROVE  /\ call'[d].pc \in Making \cup {"fail"} => call'[e].pc \notin Making \cup {"fail"}
                      /\ call'[d].pc \in Making =>
                           call'[e].pc \notin {"read", "mark", "deletebox"} \cup Project!Switching
    BY DEF OneMaker
  <2>1. CASE d = c
    BY <1>1, <1>3, <1>5, <1>4, <1>6, <2>1
    DEF OneMaker, MakerOK, RequestOK, Making, Project!Switching, Project!Found
  <2>2. CASE e = c
    BY <1>1, <1>3, <1>5, <1>4, <1>6, <2>2
    DEF OneMaker, MakerOK, RequestOK, Making, Project!Switching, Project!Found
  <2>3. CASE d # c /\ e # c
    BY <1>1, <1>3, <2>3 DEF OneMaker, Making, Project!Switching
  <2> QED BY <2>1, <2>2, <2>3
<1>12. OverlapOK'
  <2> SUFFICES ASSUME NEW d \in Calls, NEW e \in Calls, d # e, call'[d].pc \in Project!Switching,
                      call'[e].pc \in Project!Switching, call'[e].id = call'[d].id
               PROVE  call'[d].id \in overlap'
    BY DEF OverlapOK
  <2>1. CASE d = c
    BY <1>1, <1>3, <1>5, <1>4, <1>6, <2>1
    DEF OverlapOK, Making, Project!Switching, Project!Found
  <2>2. CASE e = c
    BY <1>1, <1>3, <1>5, <1>4, <1>6, <2>2
    DEF OverlapOK, Making, Project!Switching, Project!Found
  <2>3. CASE d # c /\ e # c
    BY <1>1, <1>3, <2>3 DEF OverlapOK, Making, Project!Switching
  <2> QED BY <2>1, <2>2, <2>3
<1>13. IdleOK'
  BY <1>1, <1>2, <1>3, <1>5, <1>4
  DEF IdleOK, MakerOK, SwitchOK, RecordOK, ProjectBounds, Project!Ids, Records, Making,
      Project!Switching, Project!Found
<1>14. ASSUME NEW d \in Calls PROVE RequestOK(d)'
  <2>1. CASE d = c
    BY <1>1, <1>3, <1>5, <1>4, <1>6, <2>1
    DEF RequestOK, RecordOK, Making, Project!Switching, Project!Found
  <2>2. CASE d # c
    <3>1. CASE call[d].id = call[c].id
      BY <1>1, <1>3, <1>5, <1>4, <1>6, <2>2, <3>1
      DEF RequestOK, Making, Project!Switching, Project!Found
    <3>2. CASE call[d].id # call[c].id
      BY <1>1, <1>3, <1>5, <1>4, <1>6, <2>2, <3>2
      DEF RequestOK, Making, Project!Switching, Project!Found
    <3> QED BY <3>1, <3>2
  <2> QED BY <2>1, <2>2
<1>15. ASSUME NEW d \in Calls PROVE MakerOK(d)'
  <2>1. CASE d = c
    BY <1>1, <1>3, <1>5, <1>4, <1>6, <2>1
    DEF MakerOK, RequestOK, Making, Project!Switching, Project!Found
  <2>2. CASE d # c
    <3>1. CASE call[d].id = call[c].id
      BY <1>1, <1>3, <1>5, <1>4, <1>6, <2>2, <3>1
      DEF MakerOK, OneMaker, RequestOK, Making, Project!Switching, Project!Found
    <3>2. CASE call[d].id # call[c].id
      BY <1>1, <1>3, <1>5, <1>4, <1>6, <2>2, <3>2
      DEF MakerOK, OneMaker, RequestOK, Making, Project!Switching, Project!Found
    <3> QED BY <3>1, <3>2
  <2> QED BY <2>1, <2>2
<1>16. ASSUME NEW d \in Calls PROVE FailOK(d)'
  <2>1. CASE d = c
    BY <1>1, <1>3, <1>5, <1>4, <1>6, <2>1
    DEF FailOK, MakerOK, RequestOK, Project!Exists, Making, Project!Switching, Project!Found
  <2>2. CASE d # c
    <3>1. CASE call[d].id = call[c].id
      BY <1>1, <1>3, <1>5, <1>4, <1>6, <2>2, <3>1
      DEF FailOK, OneMaker, RequestOK, Project!Exists, Making, Project!Switching, Project!Found
    <3>2. CASE call[d].id # call[c].id
      BY <1>1, <1>3, <1>5, <1>4, <1>6, <2>2, <3>2
      DEF FailOK, OneMaker, RequestOK, Project!Exists, Making, Project!Switching, Project!Found
    <3> QED BY <3>1, <3>2
  <2> QED BY <2>1, <2>2
<1>17. ASSUME NEW d \in Calls PROVE SwitchOK(d)'
  <2>1. CASE d = c
    BY <1>1, <1>3, <1>5, <1>4, <1>6, <2>1
    DEF SwitchOK, OverlapOK, RequestOK, Making, Project!Switching, Project!Found
  <2>2. CASE d # c
    <3>1. CASE call[d].id = call[c].id
      BY <1>1, <1>3, <1>5, <1>4, <1>6, <2>2, <3>1
      DEF SwitchOK, OneMaker, OverlapOK, RequestOK, Making, Project!Switching, Project!Found
    <3>2. CASE call[d].id # call[c].id
      BY <1>1, <1>3, <1>5, <1>4, <1>6, <2>2, <3>2
      DEF SwitchOK, OneMaker, OverlapOK, RequestOK, Making, Project!Switching, Project!Found
    <3> QED BY <3>1, <3>2
  <2> QED BY <2>1, <2>2
<1>18. Project!NoSandboxIsLost'
  <2> SUFFICES ASSUME NEW i \in Project!Ids, Project!Exists(i)', faults' = 0, i \notin abandoned'
               PROVE  \/ project' # None /\ project'.id = i /\ project'.bound
                      \/ \E w \in Calls : call'[w].id = i /\ call'[w].pc \in Project!Provisioning
    BY DEF Project!NoSandboxIsLost
  <2>1. CASE ~(Project!Exists(i) /\ faults = 0 /\ i \notin abandoned)
    BY <1>1, <1>3, <1>5, <1>4, <1>6, <2>1
    DEF Project!Exists, Project!Provisioning, Project!Found
  <2>2. CASE faults = 0 /\ project # None /\ project.id = i /\ project.bound
    BY <1>1, <1>3, <1>5, <1>4, <1>6, <2>2 DEF Project!Exists, RecordOK, Project!Found
  <2>3. CASE \E w \in Calls : w # c /\ call[w].id = i /\ call[w].pc \in Project!Provisioning
    BY <1>3, <2>3
  <2>4. CASE /\ Project!Exists(i) /\ faults = 0 /\ i \notin abandoned
              /\ call[c].id = i /\ call[c].pc \in Project!Provisioning
    BY <1>1, <1>3, <1>5, <1>4, <1>6, <2>4
    DEF FailOK, Making, Project!Provisioning, Project!Exists, Project!Found
  <2> QED BY <1>1, <2>1, <2>2, <2>3, <2>4 DEF Project!NoSandboxIsLost
<1> QED BY <1>7, <1>8, <1>9, <1>10, <1>11, <1>12, <1>13, <1>14, <1>15, <1>16, <1>17, <1>18
  DEF ProjectInv, RequestInv

LEMMA CleanUpStep ==
  ASSUME ProjectInv, ProjectBounds, NEW c \in Calls,
         call[c].pc = "cleanup",
         Onward(c, "fail"),
         Boxed(call[c].id, "deleted", box[call[c].id].head),
         UNCHANGED <<project, created, abandoned, overlap, faults>>
  PROVE  ProjectInv'
<1>1. /\ ProjectTypes /\ RecordOK /\ NewBoxesOK /\ OneMaker /\ RemovedOK /\ OverlapOK /\ IdleOK
      /\ \A d \in Calls : RequestOK(d) /\ MakerOK(d) /\ FailOK(d) /\ SwitchOK(d)
      /\ Project!NoSandboxIsLost
  BY DEF ProjectInv, RequestInv
<1>2. /\ call \in [Calls -> Requests] /\ box \in [Project!Ids -> Sandboxes]
      /\ created \in 0 .. MaxProjects /\ faults \in 0 .. MaxFaults
      /\ project \in Records \cup {None} /\ call[c] \in Requests
  BY <1>1 DEF ProjectTypes
<1>3. /\ call' \in [Calls -> Requests] /\ \A d \in Calls : d # c => call'[d] = call[d]
      /\ call'[c].pc = "fail" /\ call'[c].id = call[c].id /\ call'[c].want = call[c].want
      /\ call'[c].previous = call[c].previous
  BY DEF Onward, RequestMoved
<1>4. call[c].id \in 1 .. created /\ call[c].id \in Project!Ids
  BY <1>1, <1>2 DEF RequestOK, Project!Ids, ProjectBounds
<1>5. /\ box' \in [Project!Ids -> Sandboxes]
      /\ \A j \in Project!Ids : j # call[c].id => box'[j] = box[j]
      /\ box'[call[c].id].state = "deleted" /\ box'[call[c].id].head = box[call[c].id].head
  BY DEF Boxed
<1>6. \A d \in Calls : call[d].pc # "idle" => call[d].id \in Project!Ids
  BY <1>1, <1>2 DEF RequestOK, Project!Ids, ProjectBounds
<1>7. ProjectTypes'
  BY <1>2, <1>3, <1>5 DEF ProjectTypes, ProjectBounds
<1>8. RecordOK'
  BY <1>1, <1>2 DEF RecordOK
<1>9. NewBoxesOK'
  BY <1>1, <1>2, <1>5, <1>4 DEF NewBoxesOK, Project!Ids
<1>10. RemovedOK'
  <2> SUFFICES ASSUME NEW i \in 1 .. created, project = None \/ i # created
               PROVE  i \in abandoned \/ box'[i].state = "deleted"
    BY DEF RemovedOK
  <2>1. i \in Project!Ids /\ (i \in abandoned \/ box[i].state = "deleted")
    BY <1>1, <1>2 DEF RemovedOK, Project!Ids, ProjectBounds
  <2>2. CASE i = call[c].id
    BY <1>1, <1>5, <2>1, <2>2 DEF MakerOK, Making
  <2>3. CASE i # call[c].id
    BY <1>5, <2>1, <2>3
  <2> QED BY <2>1, <2>2, <2>3
<1>11. OneMaker'
  <2> SUFFICES ASSUME NEW d \in Calls, NEW e \in Calls, d # e, call'[e].id = call'[d].id
               PROVE  /\ call'[d].pc \in Making \cup {"fail"} => call'[e].pc \notin Making \cup {"fail"}
                      /\ call'[d].pc \in Making =>
                           call'[e].pc \notin {"read", "mark", "deletebox"} \cup Project!Switching
    BY DEF OneMaker
  <2>1. CASE d = c
    BY <1>1, <1>3, <1>5, <1>4, <1>6, <2>1
    DEF OneMaker, MakerOK, RequestOK, Making, Project!Switching, Project!Found
  <2>2. CASE e = c
    BY <1>1, <1>3, <1>5, <1>4, <1>6, <2>2
    DEF OneMaker, MakerOK, RequestOK, Making, Project!Switching, Project!Found
  <2>3. CASE d # c /\ e # c
    BY <1>1, <1>3, <2>3 DEF OneMaker, Making, Project!Switching
  <2> QED BY <2>1, <2>2, <2>3
<1>12. OverlapOK'
  <2> SUFFICES ASSUME NEW d \in Calls, NEW e \in Calls, d # e, call'[d].pc \in Project!Switching,
                      call'[e].pc \in Project!Switching, call'[e].id = call'[d].id
               PROVE  call'[d].id \in overlap'
    BY DEF OverlapOK
  <2>1. CASE d = c
    BY <1>1, <1>3, <1>5, <1>4, <1>6, <2>1
    DEF OverlapOK, Making, Project!Switching, Project!Found
  <2>2. CASE e = c
    BY <1>1, <1>3, <1>5, <1>4, <1>6, <2>2
    DEF OverlapOK, Making, Project!Switching, Project!Found
  <2>3. CASE d # c /\ e # c
    BY <1>1, <1>3, <2>3 DEF OverlapOK, Making, Project!Switching
  <2> QED BY <2>1, <2>2, <2>3
<1>13. IdleOK'
  BY <1>1, <1>2, <1>3, <1>5, <1>4
  DEF IdleOK, MakerOK, SwitchOK, RecordOK, ProjectBounds, Project!Ids, Records, Making,
      Project!Switching, Project!Found
<1>14. ASSUME NEW d \in Calls PROVE RequestOK(d)'
  <2>1. CASE d = c
    BY <1>1, <1>3, <1>5, <1>4, <1>6, <2>1
    DEF RequestOK, RecordOK, Making, Project!Switching, Project!Found
  <2>2. CASE d # c
    <3>1. CASE call[d].id = call[c].id
      BY <1>1, <1>3, <1>5, <1>4, <1>6, <2>2, <3>1
      DEF RequestOK, Making, Project!Switching, Project!Found
    <3>2. CASE call[d].id # call[c].id
      BY <1>1, <1>3, <1>5, <1>4, <1>6, <2>2, <3>2
      DEF RequestOK, Making, Project!Switching, Project!Found
    <3> QED BY <3>1, <3>2
  <2> QED BY <2>1, <2>2
<1>15. ASSUME NEW d \in Calls PROVE MakerOK(d)'
  <2>1. CASE d = c
    BY <1>1, <1>3, <1>5, <1>4, <1>6, <2>1
    DEF MakerOK, RequestOK, Making, Project!Switching, Project!Found
  <2>2. CASE d # c
    <3>1. CASE call[d].id = call[c].id
      BY <1>1, <1>3, <1>5, <1>4, <1>6, <2>2, <3>1
      DEF MakerOK, OneMaker, RequestOK, Making, Project!Switching, Project!Found
    <3>2. CASE call[d].id # call[c].id
      BY <1>1, <1>3, <1>5, <1>4, <1>6, <2>2, <3>2
      DEF MakerOK, OneMaker, RequestOK, Making, Project!Switching, Project!Found
    <3> QED BY <3>1, <3>2
  <2> QED BY <2>1, <2>2
<1>16. ASSUME NEW d \in Calls PROVE FailOK(d)'
  <2>1. CASE d = c
    BY <1>1, <1>3, <1>5, <1>4, <1>6, <2>1
    DEF FailOK, MakerOK, RequestOK, Project!Exists, Making, Project!Switching, Project!Found
  <2>2. CASE d # c
    <3>1. CASE call[d].id = call[c].id
      BY <1>1, <1>3, <1>5, <1>4, <1>6, <2>2, <3>1
      DEF FailOK, OneMaker, RequestOK, Project!Exists, Making, Project!Switching, Project!Found
    <3>2. CASE call[d].id # call[c].id
      BY <1>1, <1>3, <1>5, <1>4, <1>6, <2>2, <3>2
      DEF FailOK, OneMaker, RequestOK, Project!Exists, Making, Project!Switching, Project!Found
    <3> QED BY <3>1, <3>2
  <2> QED BY <2>1, <2>2
<1>17. ASSUME NEW d \in Calls PROVE SwitchOK(d)'
  <2>1. CASE d = c
    BY <1>1, <1>3, <1>5, <1>4, <1>6, <2>1
    DEF SwitchOK, OverlapOK, RequestOK, Making, Project!Switching, Project!Found
  <2>2. CASE d # c
    <3>1. CASE call[d].id = call[c].id
      BY <1>1, <1>3, <1>5, <1>4, <1>6, <2>2, <3>1
      DEF SwitchOK, OneMaker, OverlapOK, RequestOK, Making, Project!Switching, Project!Found
    <3>2. CASE call[d].id # call[c].id
      BY <1>1, <1>3, <1>5, <1>4, <1>6, <2>2, <3>2
      DEF SwitchOK, OneMaker, OverlapOK, RequestOK, Making, Project!Switching, Project!Found
    <3> QED BY <3>1, <3>2
  <2> QED BY <2>1, <2>2
<1>18. Project!NoSandboxIsLost'
  <2> SUFFICES ASSUME NEW i \in Project!Ids, Project!Exists(i)', faults' = 0, i \notin abandoned'
               PROVE  \/ project' # None /\ project'.id = i /\ project'.bound
                      \/ \E w \in Calls : call'[w].id = i /\ call'[w].pc \in Project!Provisioning
    BY DEF Project!NoSandboxIsLost
  <2>1. CASE ~(Project!Exists(i) /\ faults = 0 /\ i \notin abandoned)
    BY <1>1, <1>3, <1>5, <1>4, <1>6, <2>1
    DEF Project!Exists, Project!Provisioning, Project!Found
  <2>2. CASE faults = 0 /\ project # None /\ project.id = i /\ project.bound
    BY <1>1, <1>3, <1>5, <1>4, <1>6, <2>2 DEF Project!Exists, RecordOK, Project!Found
  <2>3. CASE \E w \in Calls : w # c /\ call[w].id = i /\ call[w].pc \in Project!Provisioning
    BY <1>3, <2>3
  <2>4. CASE /\ Project!Exists(i) /\ faults = 0 /\ i \notin abandoned
              /\ call[c].id = i /\ call[c].pc \in Project!Provisioning
    BY <1>1, <1>3, <1>5, <1>4, <1>6, <2>4
    DEF FailOK, Making, Project!Provisioning, Project!Exists, Project!Found
  <2> QED BY <1>1, <2>1, <2>2, <2>3, <2>4 DEF Project!NoSandboxIsLost
<1> QED BY <1>7, <1>8, <1>9, <1>10, <1>11, <1>12, <1>13, <1>14, <1>15, <1>16, <1>17, <1>18
  DEF ProjectInv, RequestInv

LEMMA CheckoutStep ==
  ASSUME ProjectInv, ProjectBounds, NEW c \in Calls,
         call[c].pc = "checkout", box[call[c].id].state = "cloned",
         NEW place \in {"ready", "unswitch"}, Onward(c, place),
         Boxed(call[c].id, "cloned", call[c].want),
         UNCHANGED <<project, created, abandoned, overlap, faults>>
  PROVE  ProjectInv'
<1>1. /\ ProjectTypes /\ RecordOK /\ NewBoxesOK /\ OneMaker /\ RemovedOK /\ OverlapOK /\ IdleOK
      /\ \A d \in Calls : RequestOK(d) /\ MakerOK(d) /\ FailOK(d) /\ SwitchOK(d)
      /\ Project!NoSandboxIsLost
  BY DEF ProjectInv, RequestInv
<1>2. /\ call \in [Calls -> Requests] /\ box \in [Project!Ids -> Sandboxes]
      /\ created \in 0 .. MaxProjects /\ faults \in 0 .. MaxFaults
      /\ project \in Records \cup {None} /\ call[c] \in Requests
  BY <1>1 DEF ProjectTypes
<1>3. /\ call' \in [Calls -> Requests] /\ \A d \in Calls : d # c => call'[d] = call[d]
      /\ call'[c].pc = place /\ call'[c].id = call[c].id /\ call'[c].want = call[c].want
      /\ call'[c].previous = call[c].previous
  BY DEF Onward, RequestMoved
<1>4. call[c].id \in 1 .. created /\ call[c].id \in Project!Ids
  BY <1>1, <1>2 DEF RequestOK, Project!Ids, ProjectBounds
<1>5. /\ box' \in [Project!Ids -> Sandboxes]
      /\ \A j \in Project!Ids : j # call[c].id => box'[j] = box[j]
      /\ box'[call[c].id].state = "cloned" /\ box'[call[c].id].head = call[c].want
  BY DEF Boxed
<1>6. \A d \in Calls : call[d].pc # "idle" => call[d].id \in Project!Ids
  BY <1>1, <1>2 DEF RequestOK, Project!Ids, ProjectBounds
<1>7. ProjectTypes'
  BY <1>2, <1>3, <1>5 DEF ProjectTypes, ProjectBounds
<1>8. RecordOK'
  BY <1>1, <1>2 DEF RecordOK
<1>9. NewBoxesOK'
  BY <1>1, <1>2, <1>5, <1>4 DEF NewBoxesOK, Project!Ids
<1>10. RemovedOK'
  <2> SUFFICES ASSUME NEW i \in 1 .. created, project = None \/ i # created
               PROVE  i \in abandoned \/ box'[i].state = "deleted"
    BY DEF RemovedOK
  <2>1. i \in Project!Ids /\ (i \in abandoned \/ box[i].state = "deleted")
    BY <1>1, <1>2 DEF RemovedOK, Project!Ids, ProjectBounds
  <2>2. CASE i = call[c].id
    BY <1>1, <1>5, <2>1, <2>2 DEF MakerOK, Making
  <2>3. CASE i # call[c].id
    BY <1>5, <2>1, <2>3
  <2> QED BY <2>1, <2>2, <2>3
<1>11. OneMaker'
  <2> SUFFICES ASSUME NEW d \in Calls, NEW e \in Calls, d # e, call'[e].id = call'[d].id
               PROVE  /\ call'[d].pc \in Making \cup {"fail"} => call'[e].pc \notin Making \cup {"fail"}
                      /\ call'[d].pc \in Making =>
                           call'[e].pc \notin {"read", "mark", "deletebox"} \cup Project!Switching
    BY DEF OneMaker
  <2>1. CASE d = c
    BY <1>1, <1>3, <1>5, <1>4, <1>6, <2>1
    DEF OneMaker, MakerOK, RequestOK, Making, Project!Switching, Project!Found
  <2>2. CASE e = c
    BY <1>1, <1>3, <1>5, <1>4, <1>6, <2>2
    DEF OneMaker, MakerOK, RequestOK, Making, Project!Switching, Project!Found
  <2>3. CASE d # c /\ e # c
    BY <1>1, <1>3, <2>3 DEF OneMaker, Making, Project!Switching
  <2> QED BY <2>1, <2>2, <2>3
<1>12. OverlapOK'
  <2> SUFFICES ASSUME NEW d \in Calls, NEW e \in Calls, d # e, call'[d].pc \in Project!Switching,
                      call'[e].pc \in Project!Switching, call'[e].id = call'[d].id
               PROVE  call'[d].id \in overlap'
    BY DEF OverlapOK
  <2>1. CASE d = c
    BY <1>1, <1>3, <1>5, <1>4, <1>6, <2>1
    DEF OverlapOK, Making, Project!Switching, Project!Found
  <2>2. CASE e = c
    BY <1>1, <1>3, <1>5, <1>4, <1>6, <2>2
    DEF OverlapOK, Making, Project!Switching, Project!Found
  <2>3. CASE d # c /\ e # c
    BY <1>1, <1>3, <2>3 DEF OverlapOK, Making, Project!Switching
  <2> QED BY <2>1, <2>2, <2>3
<1>13. IdleOK'
  BY <1>1, <1>2, <1>3, <1>5, <1>4
  DEF IdleOK, MakerOK, SwitchOK, RecordOK, ProjectBounds, Project!Ids, Records, Making,
      Project!Switching, Project!Found
<1>14. ASSUME NEW d \in Calls PROVE RequestOK(d)'
  <2>1. CASE d = c
    BY <1>1, <1>3, <1>5, <1>4, <1>6, <2>1
    DEF RequestOK, RecordOK, Making, Project!Switching, Project!Found
  <2>2. CASE d # c
    <3>1. CASE call[d].id = call[c].id
      BY <1>1, <1>3, <1>5, <1>4, <1>6, <2>2, <3>1
      DEF RequestOK, Making, Project!Switching, Project!Found
    <3>2. CASE call[d].id # call[c].id
      BY <1>1, <1>3, <1>5, <1>4, <1>6, <2>2, <3>2
      DEF RequestOK, Making, Project!Switching, Project!Found
    <3> QED BY <3>1, <3>2
  <2> QED BY <2>1, <2>2
<1>15. ASSUME NEW d \in Calls PROVE MakerOK(d)'
  <2>1. CASE d = c
    BY <1>1, <1>3, <1>5, <1>4, <1>6, <2>1
    DEF MakerOK, RequestOK, Making, Project!Switching, Project!Found
  <2>2. CASE d # c
    <3>1. CASE call[d].id = call[c].id
      BY <1>1, <1>3, <1>5, <1>4, <1>6, <2>2, <3>1
      DEF MakerOK, OneMaker, RequestOK, Making, Project!Switching, Project!Found
    <3>2. CASE call[d].id # call[c].id
      BY <1>1, <1>3, <1>5, <1>4, <1>6, <2>2, <3>2
      DEF MakerOK, OneMaker, RequestOK, Making, Project!Switching, Project!Found
    <3> QED BY <3>1, <3>2
  <2> QED BY <2>1, <2>2
<1>16. ASSUME NEW d \in Calls PROVE FailOK(d)'
  <2>1. CASE d = c
    BY <1>1, <1>3, <1>5, <1>4, <1>6, <2>1
    DEF FailOK, MakerOK, RequestOK, Project!Exists, Making, Project!Switching, Project!Found
  <2>2. CASE d # c
    <3>1. CASE call[d].id = call[c].id
      BY <1>1, <1>3, <1>5, <1>4, <1>6, <2>2, <3>1
      DEF FailOK, OneMaker, RequestOK, Project!Exists, Making, Project!Switching, Project!Found
    <3>2. CASE call[d].id # call[c].id
      BY <1>1, <1>3, <1>5, <1>4, <1>6, <2>2, <3>2
      DEF FailOK, OneMaker, RequestOK, Project!Exists, Making, Project!Switching, Project!Found
    <3> QED BY <3>1, <3>2
  <2> QED BY <2>1, <2>2
<1>17. ASSUME NEW d \in Calls PROVE SwitchOK(d)'
  <2>1. CASE d = c
    BY <1>1, <1>3, <1>5, <1>4, <1>6, <2>1
    DEF SwitchOK, OverlapOK, RequestOK, Making, Project!Switching, Project!Found
  <2>2. CASE d # c
    <3>1. CASE call[d].id = call[c].id
      BY <1>1, <1>3, <1>5, <1>4, <1>6, <2>2, <3>1
      DEF SwitchOK, OneMaker, OverlapOK, RequestOK, Making, Project!Switching, Project!Found
    <3>2. CASE call[d].id # call[c].id
      BY <1>1, <1>3, <1>5, <1>4, <1>6, <2>2, <3>2
      DEF SwitchOK, OneMaker, OverlapOK, RequestOK, Making, Project!Switching, Project!Found
    <3> QED BY <3>1, <3>2
  <2> QED BY <2>1, <2>2
<1>18. Project!NoSandboxIsLost'
  <2> SUFFICES ASSUME NEW i \in Project!Ids, Project!Exists(i)', faults' = 0, i \notin abandoned'
               PROVE  \/ project' # None /\ project'.id = i /\ project'.bound
                      \/ \E w \in Calls : call'[w].id = i /\ call'[w].pc \in Project!Provisioning
    BY DEF Project!NoSandboxIsLost
  <2>1. CASE ~(Project!Exists(i) /\ faults = 0 /\ i \notin abandoned)
    BY <1>1, <1>3, <1>5, <1>4, <1>6, <2>1
    DEF Project!Exists, Project!Provisioning, Project!Found
  <2>2. CASE faults = 0 /\ project # None /\ project.id = i /\ project.bound
    BY <1>1, <1>3, <1>5, <1>4, <1>6, <2>2 DEF Project!Exists, RecordOK, Project!Found
  <2>3. CASE \E w \in Calls : w # c /\ call[w].id = i /\ call[w].pc \in Project!Provisioning
    BY <1>3, <2>3
  <2>4. CASE /\ Project!Exists(i) /\ faults = 0 /\ i \notin abandoned
              /\ call[c].id = i /\ call[c].pc \in Project!Provisioning
    BY <1>1, <1>3, <1>5, <1>4, <1>6, <2>4
    DEF FailOK, Making, Project!Provisioning, Project!Exists, Project!Found
  <2> QED BY <1>1, <2>1, <2>2, <2>3, <2>4 DEF Project!NoSandboxIsLost
<1> QED BY <1>7, <1>8, <1>9, <1>10, <1>11, <1>12, <1>13, <1>14, <1>15, <1>16, <1>17, <1>18
  DEF ProjectInv, RequestInv

LEMMA DeleteBoxStep ==
  ASSUME ProjectInv, ProjectBounds, NEW c \in Calls,
         call[c].pc = "deletebox",
         Onward(c, "secrets"),
         Boxed(call[c].id, "deleted", box[call[c].id].head),
         UNCHANGED <<project, created, abandoned, overlap, faults>>
  PROVE  ProjectInv'
<1>1. /\ ProjectTypes /\ RecordOK /\ NewBoxesOK /\ OneMaker /\ RemovedOK /\ OverlapOK /\ IdleOK
      /\ \A d \in Calls : RequestOK(d) /\ MakerOK(d) /\ FailOK(d) /\ SwitchOK(d)
      /\ Project!NoSandboxIsLost
  BY DEF ProjectInv, RequestInv
<1>2. /\ call \in [Calls -> Requests] /\ box \in [Project!Ids -> Sandboxes]
      /\ created \in 0 .. MaxProjects /\ faults \in 0 .. MaxFaults
      /\ project \in Records \cup {None} /\ call[c] \in Requests
  BY <1>1 DEF ProjectTypes
<1>3. /\ call' \in [Calls -> Requests] /\ \A d \in Calls : d # c => call'[d] = call[d]
      /\ call'[c].pc = "secrets" /\ call'[c].id = call[c].id /\ call'[c].want = call[c].want
      /\ call'[c].previous = call[c].previous
  BY DEF Onward, RequestMoved
<1>4. call[c].id \in 1 .. created /\ call[c].id \in Project!Ids
  BY <1>1, <1>2 DEF RequestOK, Project!Ids, ProjectBounds
<1>5. /\ box' \in [Project!Ids -> Sandboxes]
      /\ \A j \in Project!Ids : j # call[c].id => box'[j] = box[j]
      /\ box'[call[c].id].state = "deleted" /\ box'[call[c].id].head = box[call[c].id].head
  BY DEF Boxed
<1>6. \A d \in Calls : call[d].pc # "idle" => call[d].id \in Project!Ids
  BY <1>1, <1>2 DEF RequestOK, Project!Ids, ProjectBounds
<1>7. ProjectTypes'
  BY <1>2, <1>3, <1>5 DEF ProjectTypes, ProjectBounds
<1>8. RecordOK'
  BY <1>1, <1>2 DEF RecordOK
<1>9. NewBoxesOK'
  BY <1>1, <1>2, <1>5, <1>4 DEF NewBoxesOK, Project!Ids
<1>10. RemovedOK'
  <2> SUFFICES ASSUME NEW i \in 1 .. created, project = None \/ i # created
               PROVE  i \in abandoned \/ box'[i].state = "deleted"
    BY DEF RemovedOK
  <2>1. i \in Project!Ids /\ (i \in abandoned \/ box[i].state = "deleted")
    BY <1>1, <1>2 DEF RemovedOK, Project!Ids, ProjectBounds
  <2>2. CASE i = call[c].id
    BY <1>1, <1>5, <2>1, <2>2 DEF MakerOK, Making
  <2>3. CASE i # call[c].id
    BY <1>5, <2>1, <2>3
  <2> QED BY <2>1, <2>2, <2>3
<1>11. OneMaker'
  <2> SUFFICES ASSUME NEW d \in Calls, NEW e \in Calls, d # e, call'[e].id = call'[d].id
               PROVE  /\ call'[d].pc \in Making \cup {"fail"} => call'[e].pc \notin Making \cup {"fail"}
                      /\ call'[d].pc \in Making =>
                           call'[e].pc \notin {"read", "mark", "deletebox"} \cup Project!Switching
    BY DEF OneMaker
  <2>1. CASE d = c
    BY <1>1, <1>3, <1>5, <1>4, <1>6, <2>1
    DEF OneMaker, MakerOK, RequestOK, Making, Project!Switching, Project!Found
  <2>2. CASE e = c
    BY <1>1, <1>3, <1>5, <1>4, <1>6, <2>2
    DEF OneMaker, MakerOK, RequestOK, Making, Project!Switching, Project!Found
  <2>3. CASE d # c /\ e # c
    BY <1>1, <1>3, <2>3 DEF OneMaker, Making, Project!Switching
  <2> QED BY <2>1, <2>2, <2>3
<1>12. OverlapOK'
  <2> SUFFICES ASSUME NEW d \in Calls, NEW e \in Calls, d # e, call'[d].pc \in Project!Switching,
                      call'[e].pc \in Project!Switching, call'[e].id = call'[d].id
               PROVE  call'[d].id \in overlap'
    BY DEF OverlapOK
  <2>1. CASE d = c
    BY <1>1, <1>3, <1>5, <1>4, <1>6, <2>1
    DEF OverlapOK, Making, Project!Switching, Project!Found
  <2>2. CASE e = c
    BY <1>1, <1>3, <1>5, <1>4, <1>6, <2>2
    DEF OverlapOK, Making, Project!Switching, Project!Found
  <2>3. CASE d # c /\ e # c
    BY <1>1, <1>3, <2>3 DEF OverlapOK, Making, Project!Switching
  <2> QED BY <2>1, <2>2, <2>3
<1>13. IdleOK'
  BY <1>1, <1>2, <1>3, <1>5, <1>4
  DEF IdleOK, MakerOK, SwitchOK, RecordOK, ProjectBounds, Project!Ids, Records, Making,
      Project!Switching, Project!Found
<1>14. ASSUME NEW d \in Calls PROVE RequestOK(d)'
  <2>1. CASE d = c
    BY <1>1, <1>3, <1>5, <1>4, <1>6, <2>1
    DEF RequestOK, RecordOK, Making, Project!Switching, Project!Found
  <2>2. CASE d # c
    <3>1. CASE call[d].id = call[c].id
      BY <1>1, <1>3, <1>5, <1>4, <1>6, <2>2, <3>1
      DEF RequestOK, Making, Project!Switching, Project!Found
    <3>2. CASE call[d].id # call[c].id
      BY <1>1, <1>3, <1>5, <1>4, <1>6, <2>2, <3>2
      DEF RequestOK, Making, Project!Switching, Project!Found
    <3> QED BY <3>1, <3>2
  <2> QED BY <2>1, <2>2
<1>15. ASSUME NEW d \in Calls PROVE MakerOK(d)'
  <2>1. CASE d = c
    BY <1>1, <1>3, <1>5, <1>4, <1>6, <2>1
    DEF MakerOK, RequestOK, Making, Project!Switching, Project!Found
  <2>2. CASE d # c
    <3>1. CASE call[d].id = call[c].id
      BY <1>1, <1>3, <1>5, <1>4, <1>6, <2>2, <3>1
      DEF MakerOK, OneMaker, RequestOK, Making, Project!Switching, Project!Found
    <3>2. CASE call[d].id # call[c].id
      BY <1>1, <1>3, <1>5, <1>4, <1>6, <2>2, <3>2
      DEF MakerOK, OneMaker, RequestOK, Making, Project!Switching, Project!Found
    <3> QED BY <3>1, <3>2
  <2> QED BY <2>1, <2>2
<1>16. ASSUME NEW d \in Calls PROVE FailOK(d)'
  <2>1. CASE d = c
    BY <1>1, <1>3, <1>5, <1>4, <1>6, <2>1
    DEF FailOK, MakerOK, RequestOK, Project!Exists, Making, Project!Switching, Project!Found
  <2>2. CASE d # c
    <3>1. CASE call[d].id = call[c].id
      BY <1>1, <1>3, <1>5, <1>4, <1>6, <2>2, <3>1
      DEF FailOK, OneMaker, RequestOK, Project!Exists, Making, Project!Switching, Project!Found
    <3>2. CASE call[d].id # call[c].id
      BY <1>1, <1>3, <1>5, <1>4, <1>6, <2>2, <3>2
      DEF FailOK, OneMaker, RequestOK, Project!Exists, Making, Project!Switching, Project!Found
    <3> QED BY <3>1, <3>2
  <2> QED BY <2>1, <2>2
<1>17. ASSUME NEW d \in Calls PROVE SwitchOK(d)'
  <2>1. CASE d = c
    BY <1>1, <1>3, <1>5, <1>4, <1>6, <2>1
    DEF SwitchOK, OverlapOK, RequestOK, Making, Project!Switching, Project!Found
  <2>2. CASE d # c
    <3>1. CASE call[d].id = call[c].id
      BY <1>1, <1>3, <1>5, <1>4, <1>6, <2>2, <3>1
      DEF SwitchOK, OneMaker, OverlapOK, RequestOK, Making, Project!Switching, Project!Found
    <3>2. CASE call[d].id # call[c].id
      BY <1>1, <1>3, <1>5, <1>4, <1>6, <2>2, <3>2
      DEF SwitchOK, OneMaker, OverlapOK, RequestOK, Making, Project!Switching, Project!Found
    <3> QED BY <3>1, <3>2
  <2> QED BY <2>1, <2>2
<1>18. Project!NoSandboxIsLost'
  <2> SUFFICES ASSUME NEW i \in Project!Ids, Project!Exists(i)', faults' = 0, i \notin abandoned'
               PROVE  \/ project' # None /\ project'.id = i /\ project'.bound
                      \/ \E w \in Calls : call'[w].id = i /\ call'[w].pc \in Project!Provisioning
    BY DEF Project!NoSandboxIsLost
  <2>1. CASE ~(Project!Exists(i) /\ faults = 0 /\ i \notin abandoned)
    BY <1>1, <1>3, <1>5, <1>4, <1>6, <2>1
    DEF Project!Exists, Project!Provisioning, Project!Found
  <2>2. CASE faults = 0 /\ project # None /\ project.id = i /\ project.bound
    BY <1>1, <1>3, <1>5, <1>4, <1>6, <2>2 DEF Project!Exists, RecordOK, Project!Found
  <2>3. CASE \E w \in Calls : w # c /\ call[w].id = i /\ call[w].pc \in Project!Provisioning
    BY <1>3, <2>3
  <2>4. CASE /\ Project!Exists(i) /\ faults = 0 /\ i \notin abandoned
              /\ call[c].id = i /\ call[c].pc \in Project!Provisioning
    BY <1>1, <1>3, <1>5, <1>4, <1>6, <2>4
    DEF FailOK, Making, Project!Provisioning, Project!Exists, Project!Found
  <2> QED BY <1>1, <2>1, <2>2, <2>3, <2>4 DEF Project!NoSandboxIsLost
<1> QED BY <1>7, <1>8, <1>9, <1>10, <1>11, <1>12, <1>13, <1>14, <1>15, <1>16, <1>17, <1>18
  DEF ProjectInv, RequestInv

LEMMA SandboxReadyStep ==
  ASSUME ProjectInv, ProjectBounds, NEW c \in Calls,
         call[c].pc = "record", Project!Found(c),
         NEW place \in {"done", "fail"}, Onward(c, place),
         Recorded("ready", TRUE, project.branch, "idle"),
         faults' \in 0 .. MaxFaults, faults' = 0 => faults = 0,
         place = "fail" => faults' # 0,
         UNCHANGED <<created, box, abandoned, overlap>>
  PROVE  ProjectInv'
<1>1. /\ ProjectTypes /\ RecordOK /\ NewBoxesOK /\ OneMaker /\ RemovedOK /\ OverlapOK /\ IdleOK
      /\ \A d \in Calls : RequestOK(d) /\ MakerOK(d) /\ FailOK(d) /\ SwitchOK(d)
      /\ Project!NoSandboxIsLost
  BY DEF ProjectInv, RequestInv
<1>2. /\ call \in [Calls -> Requests] /\ box \in [Project!Ids -> Sandboxes]
      /\ created \in 0 .. MaxProjects /\ faults \in 0 .. MaxFaults
      /\ project \in Records \cup {None} /\ call[c] \in Requests
  BY <1>1 DEF ProjectTypes
<1>3. /\ call' \in [Calls -> Requests] /\ \A d \in Calls : d # c => call'[d] = call[d]
      /\ call'[c].pc = place /\ call'[c].id = call[c].id /\ call'[c].want = call[c].want
      /\ call'[c].previous = call[c].previous
  BY DEF Onward, RequestMoved
<1>4. /\ project' \in Records /\ project' # None /\ project'.id = project.id
      /\ project'.status = "ready" /\ project'.bound = TRUE
      /\ project'.branch = project.branch /\ project'.switch = "idle"
      /\ project # None /\ project.id = call[c].id /\ project \in Records
  BY <1>2 DEF Recorded, ProjectBounds, Project!Found
<1>5. ProjectTypes'
  BY <1>2, <1>3, <1>4 DEF ProjectTypes, ProjectBounds
<1>6. RecordOK'
  BY <1>1, <1>2, <1>4 DEF RecordOK
<1>7. NewBoxesOK'
  BY <1>1, <1>2 DEF NewBoxesOK, Project!Ids
<1>8. RemovedOK'
  BY <1>1, <1>2, <1>4 DEF RemovedOK, RecordOK, MakerOK, Making, Project!Ids, Project!Found
<1>9. OneMaker'
  <2> SUFFICES ASSUME NEW d \in Calls, NEW e \in Calls, d # e, call'[e].id = call'[d].id
               PROVE  /\ call'[d].pc \in Making \cup {"fail"} => call'[e].pc \notin Making \cup {"fail"}
                      /\ call'[d].pc \in Making =>
                           call'[e].pc \notin {"read", "mark", "deletebox"} \cup Project!Switching
    BY DEF OneMaker
  <2>1. CASE d = c
    BY <1>1, <1>3, <1>4, <2>1
    DEF OneMaker, MakerOK, RequestOK, Making, Project!Switching, Project!Found
  <2>2. CASE e = c
    BY <1>1, <1>3, <1>4, <2>2
    DEF OneMaker, MakerOK, RequestOK, Making, Project!Switching, Project!Found
  <2>3. CASE d # c /\ e # c
    BY <1>1, <1>3, <2>3 DEF OneMaker, Making, Project!Switching
  <2> QED BY <2>1, <2>2, <2>3
<1>10. OverlapOK'
  <2> SUFFICES ASSUME NEW d \in Calls, NEW e \in Calls, d # e, call'[d].pc \in Project!Switching,
                      call'[e].pc \in Project!Switching, call'[e].id = call'[d].id
               PROVE  call'[d].id \in overlap'
    BY DEF OverlapOK
  <2>1. CASE d = c
    BY <1>1, <1>3, <1>4, <2>1 DEF OverlapOK, Making, Project!Switching, Project!Found
  <2>2. CASE e = c
    BY <1>1, <1>3, <1>4, <2>2 DEF OverlapOK, Making, Project!Switching, Project!Found
  <2>3. CASE d # c /\ e # c
    BY <1>1, <1>3, <2>3 DEF OverlapOK, Making, Project!Switching
  <2> QED BY <2>1, <2>2, <2>3
<1>11. IdleOK'
  BY <1>1, <1>2, <1>3, <1>4
  DEF IdleOK, MakerOK, SwitchOK, RecordOK, ProjectBounds, Project!Ids, Records, Making,
      Project!Switching, Project!Found
<1>12. ASSUME NEW d \in Calls PROVE RequestOK(d)'
  <2>1. CASE d = c
    BY <1>1, <1>3, <1>4, <2>1 DEF RequestOK, RecordOK, Making, Project!Switching, Project!Found
  <2>2. CASE d # c
    BY <1>1, <1>3, <1>4, <2>2 DEF RequestOK, Making, Project!Switching, Project!Found
  <2> QED BY <2>1, <2>2
<1>13. ASSUME NEW d \in Calls PROVE MakerOK(d)'
  <2>1. CASE d = c
    BY <1>1, <1>3, <1>4, <2>1 DEF MakerOK, RequestOK, Making, Project!Switching, Project!Found
  <2>2. CASE d # c
    BY <1>1, <1>3, <1>4, <2>2
    DEF MakerOK, OneMaker, RequestOK, Making, Project!Switching, Project!Found
  <2> QED BY <2>1, <2>2
<1>14. ASSUME NEW d \in Calls PROVE FailOK(d)'
  <2>1. CASE d = c
    BY <1>1, <1>3, <1>4, <2>1
    DEF FailOK, MakerOK, RequestOK, Project!Exists, Making, Project!Switching, Project!Found
  <2>2. CASE d # c
    BY <1>1, <1>3, <1>4, <2>2
    DEF FailOK, OneMaker, RequestOK, Project!Exists, Making, Project!Switching, Project!Found
  <2> QED BY <2>1, <2>2
<1>15. ASSUME NEW d \in Calls PROVE SwitchOK(d)'
  <2>1. CASE d = c
    BY <1>1, <1>3, <1>4, <2>1
    DEF SwitchOK, OverlapOK, RequestOK, Making, Project!Switching, Project!Found
  <2>2. CASE d # c
    <3>1. CASE call[d].id = call[c].id
      BY <1>1, <1>3, <1>4, <2>2, <3>1
      DEF SwitchOK, OneMaker, OverlapOK, RequestOK, Making, Project!Switching, Project!Found
    <3>2. CASE call[d].id # call[c].id
      BY <1>1, <1>3, <1>4, <2>2, <3>2
      DEF SwitchOK, OneMaker, OverlapOK, RequestOK, Making, Project!Switching, Project!Found
    <3> QED BY <3>1, <3>2
  <2> QED BY <2>1, <2>2
<1>16. Project!NoSandboxIsLost'
  <2> SUFFICES ASSUME NEW i \in Project!Ids, Project!Exists(i)', faults' = 0, i \notin abandoned'
               PROVE  \/ project' # None /\ project'.id = i /\ project'.bound
                      \/ \E w \in Calls : call'[w].id = i /\ call'[w].pc \in Project!Provisioning
    BY DEF Project!NoSandboxIsLost
  <2>1. CASE ~(Project!Exists(i) /\ faults = 0 /\ i \notin abandoned)
    BY <1>1, <1>3, <1>4, <2>1 DEF Project!Exists, Project!Provisioning, Project!Found
  <2>2. CASE faults = 0 /\ project # None /\ project.id = i /\ project.bound
    BY <1>1, <1>3, <1>4, <2>2 DEF Project!Exists, RecordOK, Project!Found
  <2>3. CASE \E w \in Calls : w # c /\ call[w].id = i /\ call[w].pc \in Project!Provisioning
    BY <1>3, <2>3
  <2>4. CASE /\ Project!Exists(i) /\ faults = 0 /\ i \notin abandoned
              /\ call[c].id = i /\ call[c].pc \in Project!Provisioning
    BY <1>1, <1>3, <1>4, <2>4
    DEF FailOK, Making, Project!Provisioning, Project!Exists, Project!Found
  <2> QED BY <1>1, <2>1, <2>2, <2>3, <2>4 DEF Project!NoSandboxIsLost
<1> QED BY <1>5, <1>6, <1>7, <1>8, <1>9, <1>10, <1>11, <1>12, <1>13, <1>14, <1>15, <1>16
  DEF ProjectInv, RequestInv

LEMMA SandboxFailedStep ==
  ASSUME ProjectInv, ProjectBounds, NEW c \in Calls,
         call[c].pc = "fail", Project!Found(c),
         Onward(c, "done"),
         Recorded("failed", project.bound, project.branch, project.switch),
         UNCHANGED <<created, box, abandoned, overlap, faults>>
  PROVE  ProjectInv'
<1>1. /\ ProjectTypes /\ RecordOK /\ NewBoxesOK /\ OneMaker /\ RemovedOK /\ OverlapOK /\ IdleOK
      /\ \A d \in Calls : RequestOK(d) /\ MakerOK(d) /\ FailOK(d) /\ SwitchOK(d)
      /\ Project!NoSandboxIsLost
  BY DEF ProjectInv, RequestInv
<1>2. /\ call \in [Calls -> Requests] /\ box \in [Project!Ids -> Sandboxes]
      /\ created \in 0 .. MaxProjects /\ faults \in 0 .. MaxFaults
      /\ project \in Records \cup {None} /\ call[c] \in Requests
  BY <1>1 DEF ProjectTypes
<1>3. /\ call' \in [Calls -> Requests] /\ \A d \in Calls : d # c => call'[d] = call[d]
      /\ call'[c].pc = "done" /\ call'[c].id = call[c].id /\ call'[c].want = call[c].want
      /\ call'[c].previous = call[c].previous
  BY DEF Onward, RequestMoved
<1>4. /\ project' \in Records /\ project' # None /\ project'.id = project.id
      /\ project'.status = "failed" /\ project'.bound = project.bound
      /\ project'.branch = project.branch /\ project'.switch = project.switch
      /\ project # None /\ project.id = call[c].id /\ project \in Records
  BY <1>2 DEF Recorded, ProjectBounds, Project!Found
<1>5. ProjectTypes'
  BY <1>2, <1>3, <1>4 DEF ProjectTypes, ProjectBounds
<1>6. RecordOK'
  BY <1>1, <1>2, <1>4 DEF RecordOK
<1>7. NewBoxesOK'
  BY <1>1, <1>2 DEF NewBoxesOK, Project!Ids
<1>8. RemovedOK'
  BY <1>1, <1>2, <1>4 DEF RemovedOK, RecordOK, MakerOK, Making, Project!Ids, Project!Found
<1>9. OneMaker'
  <2> SUFFICES ASSUME NEW d \in Calls, NEW e \in Calls, d # e, call'[e].id = call'[d].id
               PROVE  /\ call'[d].pc \in Making \cup {"fail"} => call'[e].pc \notin Making \cup {"fail"}
                      /\ call'[d].pc \in Making =>
                           call'[e].pc \notin {"read", "mark", "deletebox"} \cup Project!Switching
    BY DEF OneMaker
  <2>1. CASE d = c
    BY <1>1, <1>3, <1>4, <2>1
    DEF OneMaker, MakerOK, RequestOK, Making, Project!Switching, Project!Found
  <2>2. CASE e = c
    BY <1>1, <1>3, <1>4, <2>2
    DEF OneMaker, MakerOK, RequestOK, Making, Project!Switching, Project!Found
  <2>3. CASE d # c /\ e # c
    BY <1>1, <1>3, <2>3 DEF OneMaker, Making, Project!Switching
  <2> QED BY <2>1, <2>2, <2>3
<1>10. OverlapOK'
  <2> SUFFICES ASSUME NEW d \in Calls, NEW e \in Calls, d # e, call'[d].pc \in Project!Switching,
                      call'[e].pc \in Project!Switching, call'[e].id = call'[d].id
               PROVE  call'[d].id \in overlap'
    BY DEF OverlapOK
  <2>1. CASE d = c
    BY <1>1, <1>3, <1>4, <2>1 DEF OverlapOK, Making, Project!Switching, Project!Found
  <2>2. CASE e = c
    BY <1>1, <1>3, <1>4, <2>2 DEF OverlapOK, Making, Project!Switching, Project!Found
  <2>3. CASE d # c /\ e # c
    BY <1>1, <1>3, <2>3 DEF OverlapOK, Making, Project!Switching
  <2> QED BY <2>1, <2>2, <2>3
<1>11. IdleOK'
  BY <1>1, <1>2, <1>3, <1>4
  DEF IdleOK, MakerOK, SwitchOK, RecordOK, ProjectBounds, Project!Ids, Records, Making,
      Project!Switching, Project!Found
<1>12. ASSUME NEW d \in Calls PROVE RequestOK(d)'
  <2>1. CASE d = c
    BY <1>1, <1>3, <1>4, <2>1 DEF RequestOK, RecordOK, Making, Project!Switching, Project!Found
  <2>2. CASE d # c
    BY <1>1, <1>3, <1>4, <2>2 DEF RequestOK, Making, Project!Switching, Project!Found
  <2> QED BY <2>1, <2>2
<1>13. ASSUME NEW d \in Calls PROVE MakerOK(d)'
  <2>1. CASE d = c
    BY <1>1, <1>3, <1>4, <2>1 DEF MakerOK, RequestOK, Making, Project!Switching, Project!Found
  <2>2. CASE d # c
    BY <1>1, <1>3, <1>4, <2>2
    DEF MakerOK, OneMaker, RequestOK, Making, Project!Switching, Project!Found
  <2> QED BY <2>1, <2>2
<1>14. ASSUME NEW d \in Calls PROVE FailOK(d)'
  <2>1. CASE d = c
    BY <1>1, <1>3, <1>4, <2>1
    DEF FailOK, MakerOK, RequestOK, Project!Exists, Making, Project!Switching, Project!Found
  <2>2. CASE d # c
    BY <1>1, <1>3, <1>4, <2>2
    DEF FailOK, OneMaker, RequestOK, Project!Exists, Making, Project!Switching, Project!Found
  <2> QED BY <2>1, <2>2
<1>15. ASSUME NEW d \in Calls PROVE SwitchOK(d)'
  <2>1. CASE d = c
    BY <1>1, <1>3, <1>4, <2>1
    DEF SwitchOK, OverlapOK, RequestOK, Making, Project!Switching, Project!Found
  <2>2. CASE d # c
    <3>1. CASE call[d].id = call[c].id
      BY <1>1, <1>3, <1>4, <2>2, <3>1
      DEF SwitchOK, OneMaker, OverlapOK, RequestOK, Making, Project!Switching, Project!Found
    <3>2. CASE call[d].id # call[c].id
      BY <1>1, <1>3, <1>4, <2>2, <3>2
      DEF SwitchOK, OneMaker, OverlapOK, RequestOK, Making, Project!Switching, Project!Found
    <3> QED BY <3>1, <3>2
  <2> QED BY <2>1, <2>2
<1>16. Project!NoSandboxIsLost'
  <2> SUFFICES ASSUME NEW i \in Project!Ids, Project!Exists(i)', faults' = 0, i \notin abandoned'
               PROVE  \/ project' # None /\ project'.id = i /\ project'.bound
                      \/ \E w \in Calls : call'[w].id = i /\ call'[w].pc \in Project!Provisioning
    BY DEF Project!NoSandboxIsLost
  <2>1. CASE ~(Project!Exists(i) /\ faults = 0 /\ i \notin abandoned)
    BY <1>1, <1>3, <1>4, <2>1 DEF Project!Exists, Project!Provisioning, Project!Found
  <2>2. CASE faults = 0 /\ project # None /\ project.id = i /\ project.bound
    BY <1>1, <1>3, <1>4, <2>2 DEF Project!Exists, RecordOK, Project!Found
  <2>3. CASE \E w \in Calls : w # c /\ call[w].id = i /\ call[w].pc \in Project!Provisioning
    BY <1>3, <2>3
  <2>4. CASE /\ Project!Exists(i) /\ faults = 0 /\ i \notin abandoned
              /\ call[c].id = i /\ call[c].pc \in Project!Provisioning
    BY <1>1, <1>3, <1>4, <2>4
    DEF FailOK, Making, Project!Provisioning, Project!Exists, Project!Found
  <2> QED BY <1>1, <2>1, <2>2, <2>3, <2>4 DEF Project!NoSandboxIsLost
<1> QED BY <1>5, <1>6, <1>7, <1>8, <1>9, <1>10, <1>11, <1>12, <1>13, <1>14, <1>15, <1>16
  DEF ProjectInv, RequestInv

LEMMA SwitchingStep ==
  ASSUME ProjectInv, ProjectBounds, NEW c \in Calls,
         call[c].pc = "mark", Project!Found(c),
         Onward(c, "checkout"),
         Recorded(project.status, project.bound, call[c].want, "switching"),
         overlap' = IF \E o \in Calls \ {c} : call[o].pc \in Project!Switching
                    THEN overlap \cup {project.id} ELSE overlap,
         UNCHANGED <<created, box, abandoned, faults>>
  PROVE  ProjectInv'
<1>1. /\ ProjectTypes /\ RecordOK /\ NewBoxesOK /\ OneMaker /\ RemovedOK /\ OverlapOK /\ IdleOK
      /\ \A d \in Calls : RequestOK(d) /\ MakerOK(d) /\ FailOK(d) /\ SwitchOK(d)
      /\ Project!NoSandboxIsLost
  BY DEF ProjectInv, RequestInv
<1>2. /\ call \in [Calls -> Requests] /\ box \in [Project!Ids -> Sandboxes]
      /\ created \in 0 .. MaxProjects /\ faults \in 0 .. MaxFaults
      /\ project \in Records \cup {None} /\ call[c] \in Requests
  BY <1>1 DEF ProjectTypes
<1>3. /\ call' \in [Calls -> Requests] /\ \A d \in Calls : d # c => call'[d] = call[d]
      /\ call'[c].pc = "checkout" /\ call'[c].id = call[c].id /\ call'[c].want = call[c].want
      /\ call'[c].previous = call[c].previous
  BY DEF Onward, RequestMoved
<1>4. /\ project' \in Records /\ project' # None /\ project'.id = project.id
      /\ project'.status = project.status /\ project'.bound = project.bound
      /\ project'.branch = call[c].want /\ project'.switch = "switching"
      /\ project # None /\ project.id = call[c].id /\ project \in Records
  BY <1>2 DEF Recorded, ProjectBounds, Project!Found
<1>5. ProjectTypes'
  BY <1>2, <1>3, <1>4 DEF ProjectTypes, ProjectBounds
<1>6. RecordOK'
  BY <1>1, <1>2, <1>4 DEF RecordOK
<1>7. NewBoxesOK'
  BY <1>1, <1>2 DEF NewBoxesOK, Project!Ids
<1>8. RemovedOK'
  BY <1>1, <1>2, <1>4 DEF RemovedOK, RecordOK, MakerOK, Making, Project!Ids, Project!Found
<1>9. OneMaker'
  <2> SUFFICES ASSUME NEW d \in Calls, NEW e \in Calls, d # e, call'[e].id = call'[d].id
               PROVE  /\ call'[d].pc \in Making \cup {"fail"} => call'[e].pc \notin Making \cup {"fail"}
                      /\ call'[d].pc \in Making =>
                           call'[e].pc \notin {"read", "mark", "deletebox"} \cup Project!Switching
    BY DEF OneMaker
  <2>1. CASE d = c
    BY <1>1, <1>3, <1>4, <2>1
    DEF OneMaker, MakerOK, RequestOK, Making, Project!Switching, Project!Found
  <2>2. CASE e = c
    BY <1>1, <1>3, <1>4, <2>2
    DEF OneMaker, MakerOK, RequestOK, Making, Project!Switching, Project!Found
  <2>3. CASE d # c /\ e # c
    BY <1>1, <1>3, <2>3 DEF OneMaker, Making, Project!Switching
  <2> QED BY <2>1, <2>2, <2>3
<1>10. OverlapOK'
  <2> SUFFICES ASSUME NEW d \in Calls, NEW e \in Calls, d # e, call'[d].pc \in Project!Switching,
                      call'[e].pc \in Project!Switching, call'[e].id = call'[d].id
               PROVE  call'[d].id \in overlap'
    BY DEF OverlapOK
  <2>1. CASE d = c
    BY <1>1, <1>3, <1>4, <2>1 DEF OverlapOK, Making, Project!Switching, Project!Found
  <2>2. CASE e = c
    BY <1>1, <1>3, <1>4, <2>2 DEF OverlapOK, Making, Project!Switching, Project!Found
  <2>3. CASE d # c /\ e # c
    BY <1>1, <1>3, <2>3 DEF OverlapOK, Making, Project!Switching
  <2> QED BY <2>1, <2>2, <2>3
<1>11. IdleOK'
  BY <1>1, <1>2, <1>3, <1>4
  DEF IdleOK, MakerOK, SwitchOK, RecordOK, ProjectBounds, Project!Ids, Records, Making,
      Project!Switching, Project!Found
<1>12. ASSUME NEW d \in Calls PROVE RequestOK(d)'
  <2>1. CASE d = c
    BY <1>1, <1>3, <1>4, <2>1 DEF RequestOK, RecordOK, Making, Project!Switching, Project!Found
  <2>2. CASE d # c
    BY <1>1, <1>3, <1>4, <2>2 DEF RequestOK, Making, Project!Switching, Project!Found
  <2> QED BY <2>1, <2>2
<1>13. ASSUME NEW d \in Calls PROVE MakerOK(d)'
  <2>1. CASE d = c
    BY <1>1, <1>3, <1>4, <2>1 DEF MakerOK, RequestOK, Making, Project!Switching, Project!Found
  <2>2. CASE d # c
    BY <1>1, <1>3, <1>4, <2>2
    DEF MakerOK, OneMaker, RequestOK, Making, Project!Switching, Project!Found
  <2> QED BY <2>1, <2>2
<1>14. ASSUME NEW d \in Calls PROVE FailOK(d)'
  <2>1. CASE d = c
    BY <1>1, <1>3, <1>4, <2>1
    DEF FailOK, MakerOK, RequestOK, Project!Exists, Making, Project!Switching, Project!Found
  <2>2. CASE d # c
    BY <1>1, <1>3, <1>4, <2>2
    DEF FailOK, OneMaker, RequestOK, Project!Exists, Making, Project!Switching, Project!Found
  <2> QED BY <2>1, <2>2
<1>15. ASSUME NEW d \in Calls PROVE SwitchOK(d)'
  <2>1. CASE d = c
    BY <1>1, <1>3, <1>4, <2>1
    DEF SwitchOK, OverlapOK, RequestOK, Making, Project!Switching, Project!Found
  <2>2. CASE d # c
    <3>1. CASE call[d].id = call[c].id
      BY <1>1, <1>3, <1>4, <2>2, <3>1
      DEF SwitchOK, OneMaker, OverlapOK, RequestOK, Making, Project!Switching, Project!Found
    <3>2. CASE call[d].id # call[c].id
      BY <1>1, <1>3, <1>4, <2>2, <3>2
      DEF SwitchOK, OneMaker, OverlapOK, RequestOK, Making, Project!Switching, Project!Found
    <3> QED BY <3>1, <3>2
  <2> QED BY <2>1, <2>2
<1>16. Project!NoSandboxIsLost'
  <2> SUFFICES ASSUME NEW i \in Project!Ids, Project!Exists(i)', faults' = 0, i \notin abandoned'
               PROVE  \/ project' # None /\ project'.id = i /\ project'.bound
                      \/ \E w \in Calls : call'[w].id = i /\ call'[w].pc \in Project!Provisioning
    BY DEF Project!NoSandboxIsLost
  <2>1. CASE ~(Project!Exists(i) /\ faults = 0 /\ i \notin abandoned)
    BY <1>1, <1>3, <1>4, <2>1 DEF Project!Exists, Project!Provisioning, Project!Found
  <2>2. CASE faults = 0 /\ project # None /\ project.id = i /\ project.bound
    BY <1>1, <1>3, <1>4, <2>2 DEF Project!Exists, RecordOK, Project!Found
  <2>3. CASE \E w \in Calls : w # c /\ call[w].id = i /\ call[w].pc \in Project!Provisioning
    BY <1>3, <2>3
  <2>4. CASE /\ Project!Exists(i) /\ faults = 0 /\ i \notin abandoned
              /\ call[c].id = i /\ call[c].pc \in Project!Provisioning
    BY <1>1, <1>3, <1>4, <2>4
    DEF FailOK, Making, Project!Provisioning, Project!Exists, Project!Found
  <2> QED BY <1>1, <2>1, <2>2, <2>3, <2>4 DEF Project!NoSandboxIsLost
<1> QED BY <1>5, <1>6, <1>7, <1>8, <1>9, <1>10, <1>11, <1>12, <1>13, <1>14, <1>15, <1>16
  DEF ProjectInv, RequestInv

LEMMA SwitchReadyStep ==
  ASSUME ProjectInv, ProjectBounds, NEW c \in Calls,
         call[c].pc = "ready", Project!Found(c),
         NEW place \in {"done", "unswitch"}, Onward(c, place),
         Recorded(project.status, project.bound, call[c].want, "idle"),
         faults' \in 0 .. MaxFaults, faults' = 0 => faults = 0,
         UNCHANGED <<created, box, abandoned, overlap>>
  PROVE  ProjectInv'
<1>1. /\ ProjectTypes /\ RecordOK /\ NewBoxesOK /\ OneMaker /\ RemovedOK /\ OverlapOK /\ IdleOK
      /\ \A d \in Calls : RequestOK(d) /\ MakerOK(d) /\ FailOK(d) /\ SwitchOK(d)
      /\ Project!NoSandboxIsLost
  BY DEF ProjectInv, RequestInv
<1>2. /\ call \in [Calls -> Requests] /\ box \in [Project!Ids -> Sandboxes]
      /\ created \in 0 .. MaxProjects /\ faults \in 0 .. MaxFaults
      /\ project \in Records \cup {None} /\ call[c] \in Requests
  BY <1>1 DEF ProjectTypes
<1>3. /\ call' \in [Calls -> Requests] /\ \A d \in Calls : d # c => call'[d] = call[d]
      /\ call'[c].pc = place /\ call'[c].id = call[c].id /\ call'[c].want = call[c].want
      /\ call'[c].previous = call[c].previous
  BY DEF Onward, RequestMoved
<1>4. /\ project' \in Records /\ project' # None /\ project'.id = project.id
      /\ project'.status = project.status /\ project'.bound = project.bound
      /\ project'.branch = call[c].want /\ project'.switch = "idle"
      /\ project # None /\ project.id = call[c].id /\ project \in Records
  BY <1>2 DEF Recorded, ProjectBounds, Project!Found
<1>5. ProjectTypes'
  BY <1>2, <1>3, <1>4 DEF ProjectTypes, ProjectBounds
<1>6. RecordOK'
  BY <1>1, <1>2, <1>4 DEF RecordOK
<1>7. NewBoxesOK'
  BY <1>1, <1>2 DEF NewBoxesOK, Project!Ids
<1>8. RemovedOK'
  BY <1>1, <1>2, <1>4 DEF RemovedOK, RecordOK, MakerOK, Making, Project!Ids, Project!Found
<1>9. OneMaker'
  <2> SUFFICES ASSUME NEW d \in Calls, NEW e \in Calls, d # e, call'[e].id = call'[d].id
               PROVE  /\ call'[d].pc \in Making \cup {"fail"} => call'[e].pc \notin Making \cup {"fail"}
                      /\ call'[d].pc \in Making =>
                           call'[e].pc \notin {"read", "mark", "deletebox"} \cup Project!Switching
    BY DEF OneMaker
  <2>1. CASE d = c
    BY <1>1, <1>3, <1>4, <2>1
    DEF OneMaker, MakerOK, RequestOK, Making, Project!Switching, Project!Found
  <2>2. CASE e = c
    BY <1>1, <1>3, <1>4, <2>2
    DEF OneMaker, MakerOK, RequestOK, Making, Project!Switching, Project!Found
  <2>3. CASE d # c /\ e # c
    BY <1>1, <1>3, <2>3 DEF OneMaker, Making, Project!Switching
  <2> QED BY <2>1, <2>2, <2>3
<1>10. OverlapOK'
  <2> SUFFICES ASSUME NEW d \in Calls, NEW e \in Calls, d # e, call'[d].pc \in Project!Switching,
                      call'[e].pc \in Project!Switching, call'[e].id = call'[d].id
               PROVE  call'[d].id \in overlap'
    BY DEF OverlapOK
  <2>1. CASE d = c
    BY <1>1, <1>3, <1>4, <2>1 DEF OverlapOK, Making, Project!Switching, Project!Found
  <2>2. CASE e = c
    BY <1>1, <1>3, <1>4, <2>2 DEF OverlapOK, Making, Project!Switching, Project!Found
  <2>3. CASE d # c /\ e # c
    BY <1>1, <1>3, <2>3 DEF OverlapOK, Making, Project!Switching
  <2> QED BY <2>1, <2>2, <2>3
<1>11. IdleOK'
  BY <1>1, <1>2, <1>3, <1>4
  DEF IdleOK, MakerOK, SwitchOK, RecordOK, ProjectBounds, Project!Ids, Records, Making,
      Project!Switching, Project!Found
<1>12. ASSUME NEW d \in Calls PROVE RequestOK(d)'
  <2>1. CASE d = c
    BY <1>1, <1>3, <1>4, <2>1 DEF RequestOK, RecordOK, Making, Project!Switching, Project!Found
  <2>2. CASE d # c
    BY <1>1, <1>3, <1>4, <2>2 DEF RequestOK, Making, Project!Switching, Project!Found
  <2> QED BY <2>1, <2>2
<1>13. ASSUME NEW d \in Calls PROVE MakerOK(d)'
  <2>1. CASE d = c
    BY <1>1, <1>3, <1>4, <2>1 DEF MakerOK, RequestOK, Making, Project!Switching, Project!Found
  <2>2. CASE d # c
    BY <1>1, <1>3, <1>4, <2>2
    DEF MakerOK, OneMaker, RequestOK, Making, Project!Switching, Project!Found
  <2> QED BY <2>1, <2>2
<1>14. ASSUME NEW d \in Calls PROVE FailOK(d)'
  <2>1. CASE d = c
    BY <1>1, <1>3, <1>4, <2>1
    DEF FailOK, MakerOK, RequestOK, Project!Exists, Making, Project!Switching, Project!Found
  <2>2. CASE d # c
    BY <1>1, <1>3, <1>4, <2>2
    DEF FailOK, OneMaker, RequestOK, Project!Exists, Making, Project!Switching, Project!Found
  <2> QED BY <2>1, <2>2
<1>15. ASSUME NEW d \in Calls PROVE SwitchOK(d)'
  <2>1. CASE d = c
    BY <1>1, <1>3, <1>4, <2>1
    DEF SwitchOK, OverlapOK, RequestOK, Making, Project!Switching, Project!Found
  <2>2. CASE d # c
    <3>1. CASE call[d].id = call[c].id
      BY <1>1, <1>3, <1>4, <2>2, <3>1
      DEF SwitchOK, OneMaker, OverlapOK, RequestOK, Making, Project!Switching, Project!Found
    <3>2. CASE call[d].id # call[c].id
      BY <1>1, <1>3, <1>4, <2>2, <3>2
      DEF SwitchOK, OneMaker, OverlapOK, RequestOK, Making, Project!Switching, Project!Found
    <3> QED BY <3>1, <3>2
  <2> QED BY <2>1, <2>2
<1>16. Project!NoSandboxIsLost'
  <2> SUFFICES ASSUME NEW i \in Project!Ids, Project!Exists(i)', faults' = 0, i \notin abandoned'
               PROVE  \/ project' # None /\ project'.id = i /\ project'.bound
                      \/ \E w \in Calls : call'[w].id = i /\ call'[w].pc \in Project!Provisioning
    BY DEF Project!NoSandboxIsLost
  <2>1. CASE ~(Project!Exists(i) /\ faults = 0 /\ i \notin abandoned)
    BY <1>1, <1>3, <1>4, <2>1 DEF Project!Exists, Project!Provisioning, Project!Found
  <2>2. CASE faults = 0 /\ project # None /\ project.id = i /\ project.bound
    BY <1>1, <1>3, <1>4, <2>2 DEF Project!Exists, RecordOK, Project!Found
  <2>3. CASE \E w \in Calls : w # c /\ call[w].id = i /\ call[w].pc \in Project!Provisioning
    BY <1>3, <2>3
  <2>4. CASE /\ Project!Exists(i) /\ faults = 0 /\ i \notin abandoned
              /\ call[c].id = i /\ call[c].pc \in Project!Provisioning
    BY <1>1, <1>3, <1>4, <2>4
    DEF FailOK, Making, Project!Provisioning, Project!Exists, Project!Found
  <2> QED BY <1>1, <2>1, <2>2, <2>3, <2>4 DEF Project!NoSandboxIsLost
<1> QED BY <1>5, <1>6, <1>7, <1>8, <1>9, <1>10, <1>11, <1>12, <1>13, <1>14, <1>15, <1>16
  DEF ProjectInv, RequestInv

LEMMA SwitchFailedStep ==
  ASSUME ProjectInv, ProjectBounds, NEW c \in Calls,
         call[c].pc = "unswitch", Project!Found(c),
         Onward(c, "done"),
         Recorded(project.status, project.bound, call[c].previous, "failed"),
         UNCHANGED <<created, box, abandoned, overlap, faults>>
  PROVE  ProjectInv'
<1>1. /\ ProjectTypes /\ RecordOK /\ NewBoxesOK /\ OneMaker /\ RemovedOK /\ OverlapOK /\ IdleOK
      /\ \A d \in Calls : RequestOK(d) /\ MakerOK(d) /\ FailOK(d) /\ SwitchOK(d)
      /\ Project!NoSandboxIsLost
  BY DEF ProjectInv, RequestInv
<1>2. /\ call \in [Calls -> Requests] /\ box \in [Project!Ids -> Sandboxes]
      /\ created \in 0 .. MaxProjects /\ faults \in 0 .. MaxFaults
      /\ project \in Records \cup {None} /\ call[c] \in Requests
  BY <1>1 DEF ProjectTypes
<1>3. /\ call' \in [Calls -> Requests] /\ \A d \in Calls : d # c => call'[d] = call[d]
      /\ call'[c].pc = "done" /\ call'[c].id = call[c].id /\ call'[c].want = call[c].want
      /\ call'[c].previous = call[c].previous
  BY DEF Onward, RequestMoved
<1>4. /\ project' \in Records /\ project' # None /\ project'.id = project.id
      /\ project'.status = project.status /\ project'.bound = project.bound
      /\ project'.branch = call[c].previous /\ project'.switch = "failed"
      /\ project # None /\ project.id = call[c].id /\ project \in Records
  BY <1>2 DEF Recorded, ProjectBounds, Project!Found
<1>5. ProjectTypes'
  BY <1>2, <1>3, <1>4 DEF ProjectTypes, ProjectBounds
<1>6. RecordOK'
  BY <1>1, <1>2, <1>4 DEF RecordOK
<1>7. NewBoxesOK'
  BY <1>1, <1>2 DEF NewBoxesOK, Project!Ids
<1>8. RemovedOK'
  BY <1>1, <1>2, <1>4 DEF RemovedOK, RecordOK, MakerOK, Making, Project!Ids, Project!Found
<1>9. OneMaker'
  <2> SUFFICES ASSUME NEW d \in Calls, NEW e \in Calls, d # e, call'[e].id = call'[d].id
               PROVE  /\ call'[d].pc \in Making \cup {"fail"} => call'[e].pc \notin Making \cup {"fail"}
                      /\ call'[d].pc \in Making =>
                           call'[e].pc \notin {"read", "mark", "deletebox"} \cup Project!Switching
    BY DEF OneMaker
  <2>1. CASE d = c
    BY <1>1, <1>3, <1>4, <2>1
    DEF OneMaker, MakerOK, RequestOK, Making, Project!Switching, Project!Found
  <2>2. CASE e = c
    BY <1>1, <1>3, <1>4, <2>2
    DEF OneMaker, MakerOK, RequestOK, Making, Project!Switching, Project!Found
  <2>3. CASE d # c /\ e # c
    BY <1>1, <1>3, <2>3 DEF OneMaker, Making, Project!Switching
  <2> QED BY <2>1, <2>2, <2>3
<1>10. OverlapOK'
  <2> SUFFICES ASSUME NEW d \in Calls, NEW e \in Calls, d # e, call'[d].pc \in Project!Switching,
                      call'[e].pc \in Project!Switching, call'[e].id = call'[d].id
               PROVE  call'[d].id \in overlap'
    BY DEF OverlapOK
  <2>1. CASE d = c
    BY <1>1, <1>3, <1>4, <2>1 DEF OverlapOK, Making, Project!Switching, Project!Found
  <2>2. CASE e = c
    BY <1>1, <1>3, <1>4, <2>2 DEF OverlapOK, Making, Project!Switching, Project!Found
  <2>3. CASE d # c /\ e # c
    BY <1>1, <1>3, <2>3 DEF OverlapOK, Making, Project!Switching
  <2> QED BY <2>1, <2>2, <2>3
<1>11. IdleOK'
  BY <1>1, <1>2, <1>3, <1>4
  DEF IdleOK, MakerOK, SwitchOK, RecordOK, ProjectBounds, Project!Ids, Records, Making,
      Project!Switching, Project!Found
<1>12. ASSUME NEW d \in Calls PROVE RequestOK(d)'
  <2>1. CASE d = c
    BY <1>1, <1>3, <1>4, <2>1 DEF RequestOK, RecordOK, Making, Project!Switching, Project!Found
  <2>2. CASE d # c
    BY <1>1, <1>3, <1>4, <2>2 DEF RequestOK, Making, Project!Switching, Project!Found
  <2> QED BY <2>1, <2>2
<1>13. ASSUME NEW d \in Calls PROVE MakerOK(d)'
  <2>1. CASE d = c
    BY <1>1, <1>3, <1>4, <2>1 DEF MakerOK, RequestOK, Making, Project!Switching, Project!Found
  <2>2. CASE d # c
    BY <1>1, <1>3, <1>4, <2>2
    DEF MakerOK, OneMaker, RequestOK, Making, Project!Switching, Project!Found
  <2> QED BY <2>1, <2>2
<1>14. ASSUME NEW d \in Calls PROVE FailOK(d)'
  <2>1. CASE d = c
    BY <1>1, <1>3, <1>4, <2>1
    DEF FailOK, MakerOK, RequestOK, Project!Exists, Making, Project!Switching, Project!Found
  <2>2. CASE d # c
    BY <1>1, <1>3, <1>4, <2>2
    DEF FailOK, OneMaker, RequestOK, Project!Exists, Making, Project!Switching, Project!Found
  <2> QED BY <2>1, <2>2
<1>15. ASSUME NEW d \in Calls PROVE SwitchOK(d)'
  <2>1. CASE d = c
    BY <1>1, <1>3, <1>4, <2>1
    DEF SwitchOK, OverlapOK, RequestOK, Making, Project!Switching, Project!Found
  <2>2. CASE d # c
    <3>1. CASE call[d].id = call[c].id
      BY <1>1, <1>3, <1>4, <2>2, <3>1
      DEF SwitchOK, OneMaker, OverlapOK, RequestOK, Making, Project!Switching, Project!Found
    <3>2. CASE call[d].id # call[c].id
      BY <1>1, <1>3, <1>4, <2>2, <3>2
      DEF SwitchOK, OneMaker, OverlapOK, RequestOK, Making, Project!Switching, Project!Found
    <3> QED BY <3>1, <3>2
  <2> QED BY <2>1, <2>2
<1>16. Project!NoSandboxIsLost'
  <2> SUFFICES ASSUME NEW i \in Project!Ids, Project!Exists(i)', faults' = 0, i \notin abandoned'
               PROVE  \/ project' # None /\ project'.id = i /\ project'.bound
                      \/ \E w \in Calls : call'[w].id = i /\ call'[w].pc \in Project!Provisioning
    BY DEF Project!NoSandboxIsLost
  <2>1. CASE ~(Project!Exists(i) /\ faults = 0 /\ i \notin abandoned)
    BY <1>1, <1>3, <1>4, <2>1 DEF Project!Exists, Project!Provisioning, Project!Found
  <2>2. CASE faults = 0 /\ project # None /\ project.id = i /\ project.bound
    BY <1>1, <1>3, <1>4, <2>2 DEF Project!Exists, RecordOK, Project!Found
  <2>3. CASE \E w \in Calls : w # c /\ call[w].id = i /\ call[w].pc \in Project!Provisioning
    BY <1>3, <2>3
  <2>4. CASE /\ Project!Exists(i) /\ faults = 0 /\ i \notin abandoned
              /\ call[c].id = i /\ call[c].pc \in Project!Provisioning
    BY <1>1, <1>3, <1>4, <2>4
    DEF FailOK, Making, Project!Provisioning, Project!Exists, Project!Found
  <2> QED BY <1>1, <2>1, <2>2, <2>3, <2>4 DEF Project!NoSandboxIsLost
<1> QED BY <1>5, <1>6, <1>7, <1>8, <1>9, <1>10, <1>11, <1>12, <1>13, <1>14, <1>15, <1>16
  DEF ProjectInv, RequestInv

LEMMA ForgetStep ==
  ASSUME ProjectInv, ProjectBounds, NEW c \in Calls,
         call[c].pc = "forget", Project!Found(c),
         Onward(c, "done"),
         project' = None,
         abandoned' = IF box[project.id].state # "deleted" THEN abandoned \cup {project.id} ELSE abandoned,
         UNCHANGED <<created, box, overlap, faults>>
  PROVE  ProjectInv'
<1>1. /\ ProjectTypes /\ RecordOK /\ NewBoxesOK /\ OneMaker /\ RemovedOK /\ OverlapOK /\ IdleOK
      /\ \A d \in Calls : RequestOK(d) /\ MakerOK(d) /\ FailOK(d) /\ SwitchOK(d)
      /\ Project!NoSandboxIsLost
  BY DEF ProjectInv, RequestInv
<1>2. /\ call \in [Calls -> Requests] /\ box \in [Project!Ids -> Sandboxes]
      /\ created \in 0 .. MaxProjects /\ faults \in 0 .. MaxFaults
      /\ project \in Records \cup {None} /\ call[c] \in Requests
  BY <1>1 DEF ProjectTypes
<1>3. /\ call' \in [Calls -> Requests] /\ \A d \in Calls : d # c => call'[d] = call[d]
      /\ call'[c].pc = "done" /\ call'[c].id = call[c].id /\ call'[c].want = call[c].want
      /\ call'[c].previous = call[c].previous
  BY DEF Onward, RequestMoved
<1>4. project # None /\ project.id = call[c].id /\ project \in Records
  BY <1>2 DEF Project!Found
<1>5. ProjectTypes'
  BY <1>2, <1>3, <1>4 DEF ProjectTypes, ProjectBounds
<1>6. RecordOK'
  BY <1>1, <1>2, <1>4 DEF RecordOK
<1>7. NewBoxesOK'
  BY <1>1, <1>2 DEF NewBoxesOK, Project!Ids
<1>8. RemovedOK'
  BY <1>1, <1>2, <1>4 DEF RemovedOK, RecordOK, MakerOK, Making, Project!Ids, Project!Found
<1>9. OneMaker'
  <2> SUFFICES ASSUME NEW d \in Calls, NEW e \in Calls, d # e, call'[e].id = call'[d].id
               PROVE  /\ call'[d].pc \in Making \cup {"fail"} => call'[e].pc \notin Making \cup {"fail"}
                      /\ call'[d].pc \in Making =>
                           call'[e].pc \notin {"read", "mark", "deletebox"} \cup Project!Switching
    BY DEF OneMaker
  <2>1. CASE d = c
    BY <1>1, <1>3, <1>4, <2>1
    DEF OneMaker, MakerOK, RequestOK, Making, Project!Switching, Project!Found
  <2>2. CASE e = c
    BY <1>1, <1>3, <1>4, <2>2
    DEF OneMaker, MakerOK, RequestOK, Making, Project!Switching, Project!Found
  <2>3. CASE d # c /\ e # c
    BY <1>1, <1>3, <2>3 DEF OneMaker, Making, Project!Switching
  <2> QED BY <2>1, <2>2, <2>3
<1>10. OverlapOK'
  <2> SUFFICES ASSUME NEW d \in Calls, NEW e \in Calls, d # e, call'[d].pc \in Project!Switching,
                      call'[e].pc \in Project!Switching, call'[e].id = call'[d].id
               PROVE  call'[d].id \in overlap'
    BY DEF OverlapOK
  <2>1. CASE d = c
    BY <1>1, <1>3, <1>4, <2>1 DEF OverlapOK, Making, Project!Switching, Project!Found
  <2>2. CASE e = c
    BY <1>1, <1>3, <1>4, <2>2 DEF OverlapOK, Making, Project!Switching, Project!Found
  <2>3. CASE d # c /\ e # c
    BY <1>1, <1>3, <2>3 DEF OverlapOK, Making, Project!Switching
  <2> QED BY <2>1, <2>2, <2>3
<1>11. IdleOK'
  BY <1>1, <1>2, <1>3, <1>4
  DEF IdleOK, MakerOK, SwitchOK, RecordOK, ProjectBounds, Project!Ids, Records, Making,
      Project!Switching, Project!Found
<1>12. ASSUME NEW d \in Calls PROVE RequestOK(d)'
  <2>1. CASE d = c
    BY <1>1, <1>3, <1>4, <2>1 DEF RequestOK, RecordOK, Making, Project!Switching, Project!Found
  <2>2. CASE d # c
    BY <1>1, <1>3, <1>4, <2>2 DEF RequestOK, Making, Project!Switching, Project!Found
  <2> QED BY <2>1, <2>2
<1>13. ASSUME NEW d \in Calls PROVE MakerOK(d)'
  <2>1. CASE d = c
    BY <1>1, <1>3, <1>4, <2>1 DEF MakerOK, RequestOK, Making, Project!Switching, Project!Found
  <2>2. CASE d # c
    BY <1>1, <1>3, <1>4, <2>2
    DEF MakerOK, OneMaker, RequestOK, Making, Project!Switching, Project!Found
  <2> QED BY <2>1, <2>2
<1>14. ASSUME NEW d \in Calls PROVE FailOK(d)'
  <2>1. CASE d = c
    BY <1>1, <1>3, <1>4, <2>1
    DEF FailOK, MakerOK, RequestOK, Project!Exists, Making, Project!Switching, Project!Found
  <2>2. CASE d # c
    BY <1>1, <1>3, <1>4, <2>2
    DEF FailOK, OneMaker, RequestOK, Project!Exists, Making, Project!Switching, Project!Found
  <2> QED BY <2>1, <2>2
<1>15. ASSUME NEW d \in Calls PROVE SwitchOK(d)'
  <2>1. CASE d = c
    BY <1>1, <1>3, <1>4, <2>1
    DEF SwitchOK, OverlapOK, RequestOK, Making, Project!Switching, Project!Found
  <2>2. CASE d # c
    BY <1>1, <1>3, <1>4, <2>2
    DEF SwitchOK, OneMaker, OverlapOK, RequestOK, Making, Project!Switching, Project!Found
  <2> QED BY <2>1, <2>2
<1>16. Project!NoSandboxIsLost'
  <2> SUFFICES ASSUME NEW i \in Project!Ids, Project!Exists(i)', faults' = 0, i \notin abandoned'
               PROVE  \/ project' # None /\ project'.id = i /\ project'.bound
                      \/ \E w \in Calls : call'[w].id = i /\ call'[w].pc \in Project!Provisioning
    BY DEF Project!NoSandboxIsLost
  <2>1. CASE ~(Project!Exists(i) /\ faults = 0 /\ i \notin abandoned)
    BY <1>1, <1>3, <1>4, <2>1 DEF Project!Exists, Project!Provisioning, Project!Found
  <2>2. CASE faults = 0 /\ project # None /\ project.id = i /\ project.bound
    BY <1>1, <1>3, <1>4, <2>2 DEF Project!Exists, RecordOK, Project!Found
  <2>3. CASE \E w \in Calls : w # c /\ call[w].id = i /\ call[w].pc \in Project!Provisioning
    BY <1>3, <2>3
  <2>4. CASE /\ Project!Exists(i) /\ faults = 0 /\ i \notin abandoned
              /\ call[c].id = i /\ call[c].pc \in Project!Provisioning
    BY <1>1, <1>3, <1>4, <2>4
    DEF FailOK, Making, Project!Provisioning, Project!Exists, Project!Found
  <2> QED BY <1>1, <2>1, <2>2, <2>3, <2>4 DEF Project!NoSandboxIsLost
<1> QED BY <1>5, <1>6, <1>7, <1>8, <1>9, <1>10, <1>11, <1>12, <1>13, <1>14, <1>15, <1>16
  DEF ProjectInv, RequestInv


\* Every step of a request is one of these.
LEMMA ProjectStep ==
  ASSUME ProjectInv, ProjectBounds, [Project!Next]_Project!vars
  PROVE  ProjectInv'
<1>1. CASE UNCHANGED Project!vars
  <2>1. ProjectTypes' /\ RecordOK' /\ NewBoxesOK' /\ RemovedOK' /\ IdleOK'
    BY <1>1 DEF ProjectInv, ProjectTypes, RecordOK, NewBoxesOK, RemovedOK, IdleOK, Project!vars
  <2>2. OneMaker' /\ OverlapOK'
    BY <1>1 DEF ProjectInv, OneMaker, OverlapOK, Project!vars
  <2>3. \A d \in Calls : RequestInv(d)'
    BY <1>1 DEF ProjectInv, RequestInv, RequestOK, MakerOK, FailOK, SwitchOK, Project!vars,
                Project!Found, Project!Exists
  <2>4. Project!NoSandboxIsLost'
    BY <1>1 DEF ProjectInv, Project!NoSandboxIsLost, Project!vars, Project!Exists
  <2> QED BY <2>1, <2>2, <2>3, <2>4 DEF ProjectInv
<1>2. ASSUME NEW c \in Calls,
             Project!Open(c) \/ Project!RequestSwitch(c) \/ Project!Remove(c)
               \/ Project!Provision(c) \/ Project!Switch(c) \/ Project!Removal(c) \/ Project!Lost(c)
      PROVE  ProjectInv'
  <2> DEFINE id == call[c].id
             want == call[c].want
             previous == call[c].previous
  <2>1. /\ ProjectTypes /\ RequestOK(c) /\ MakerOK(c) /\ FailOK(c) /\ SwitchOK(c) /\ RecordOK
        /\ call[c] \in Requests /\ call \in [Calls -> Requests] /\ project \in Records \cup {None}
    BY DEF ProjectInv, RequestInv, ProjectTypes
  <2>2. /\ Project!Fine => faults' \in 0 .. MaxFaults /\ faults' = faults
        /\ Project!Fails => faults' \in 0 .. MaxFaults /\ faults' # 0
        /\ UNCHANGED faults => faults' \in 0 .. MaxFaults /\ faults' = faults
    BY <2>1, ProjectFaults DEF ProjectTypes
  <2>3. \A place \in ProjectSteps : Project!Goes(c, place) => Onward(c, place)
    BY <2>1, RequestMoves
  <2>4. call[c].pc # "idle" => id \in 1 .. created /\ id \in Project!Ids
    BY <2>1 DEF RequestOK, Project!Ids, ProjectTypes, ProjectBounds
  <2>5. ASSUME call[c].pc # "idle"
        PROVE  /\ \A s \in {"none", "empty", "cloned", "deleted"} :
                    box' = [box EXCEPT ![id].state = s] => Boxed(id, s, box[id].head)
               /\ \A h \in Branches \cup {None} :
                    box' = [box EXCEPT ![id].head = h] => Boxed(id, box[id].state, h)
               /\ \A h \in Branches \cup {None} :
                    box' = [box EXCEPT ![id] = [state |-> "cloned", head |-> h]] => Boxed(id, "cloned", h)
    BY <2>1, <2>4, <2>5, BoxMoves
  \* The steps that change only the request.
  <2>6. ASSUME NEW place \in ProjectSteps \ {"idle"}, call[c].pc # "idle", Project!Goes(c, place),
               UNCHANGED <<project, created, box, abandoned, overlap>>, UNCHANGED faults \/ Project!Fails,
               place \in {"done", "fail", "unswitch", "cleanup", "record", "forget"},
               place = "cleanup" => call[c].pc = "clone",
               place = "record" => call[c].pc = "bind",
               place = "fail" => call[c].pc \in Making /\ (~Project!Fails => ~Project!Found(c)),
               place = "unswitch" => call[c].pc \in {"checkout", "ready"},
               call[c].pc \in Making => place \in Making \cup {"fail"} \/ Project!Fails
        PROVE  ProjectInv'
    <3>1. RequestMoved(c, place, id, want, previous)
      BY <2>3, <2>6 DEF Onward
    <3>2. faults' \in 0 .. MaxFaults /\ (faults' = 0 => faults = 0 /\ ~Project!Fails)
      BY <2>2, <2>6
    <3>3. place \in Making \cup {"fail", "unswitch"} => want \in Branches
      BY <2>1, <2>6 DEF RequestOK, Making, Project!Switching
    <3>4. place = "unswitch" => previous \in Branches
      BY <2>1, <2>6 DEF RequestOK, Project!Switching
    <3>5. place = "fail" /\ faults' = 0 => id \in abandoned \/ ~Project!Exists(id)
      BY <2>1, <2>4, <2>6, <3>2
      DEF ProjectInv, RemovedOK, RecordOK, Project!Found, Project!Exists, Making, MakerOK
    <3> HIDE DEF id, want, previous
    <3> QED BY <2>4, <2>6, <3>1, <3>2, <3>3, <3>4, <3>5, CallStep
      DEF Making, Project!Switching, id, want

  <2>7. \A new \in Requests : call' = [call EXCEPT ![c] = new] =>
          RequestMoved(c, new.pc, new.id, new.want, new.previous)
    BY <2>1, RequestMoves, "idle" \in ProjectSteps DEF ProjectSteps
  <2>8. ASSUME Project!Open(c), project = None PROVE ProjectInv'
    <3>1. PICK b \in Branches : call' = [call EXCEPT ![c] = [@ EXCEPT !.pc = "create", !.id = created + 1, !.want = b]]
                                /\ created < MaxProjects /\ created' = created + 1
                                /\ project' = [id |-> created + 1, status |-> "creating", bound |-> FALSE,
                                               branch |-> b, switch |-> "idle"]
      BY <2>8 DEF Project!Open
    <3> DEFINE new == [call[c] EXCEPT !.pc = "create", !.id = created', !.want = b]
    <3>2. created' \in Project!Ids
      BY <2>1, <3>1 DEF Project!Ids, ProjectTypes, ProjectBounds
    <3>3. new \in Requests /\ new.pc = "create" /\ new.id = created' /\ new.want = b
      BY <2>1, <3>2 DEF Requests, ProjectSteps, Making
    <3>4. call' = [call EXCEPT ![c] = new]
      BY <2>1, <3>1
    <3> HIDE DEF new
    <3>5. RequestMoved(c, "create", created', b, new.previous)
      BY <2>7, <3>3, <3>4
    <3>6. call[c].pc = "idle" /\ UNCHANGED <<box, abandoned, overlap, faults>>
      BY <2>8 DEF Project!Open, Project!At
    <3> HIDE DEF id, want, previous
    <3> QED BY <2>8, <3>1, <3>5, <3>6, OpenNewStep
  <2>9. ASSUME project # None, call[c].pc = "idle", NEW new \in Requests,
               call' = [call EXCEPT ![c] = new], UNCHANGED <<project, created, box, abandoned, overlap, faults>>,
               new.id = project.id, new.pc \in {"read", "done", "mark", "deletebox", "secrets"},
               new.pc \in {"read", "mark"} => new.want \in Branches,
               new.pc = "mark" => new.previous \in Branches,
               new.pc \in {"read", "mark", "deletebox"} => project.bound
        PROVE  ProjectInv'
    <3>1. RequestMoved(c, new.pc, new.id, new.want, new.previous)
      BY <2>7, <2>9
    <3>2. new.id \in 1 .. created
      BY <2>1, <2>9 DEF RecordOK, Records, Project!Ids, ProjectTypes, ProjectBounds
    <3>3. faults' \in 0 .. MaxFaults /\ new.pc \in ProjectSteps
      BY <2>2, <2>9 DEF Requests
    <3> HIDE DEF id, want, previous
    <3> QED BY <2>9, <3>1, <3>2, <3>3, CallStep DEF Making, Project!Switching
  <2>10. CASE Project!Open(c)
    <3>1. CASE project # None
      <4>1. PICK b \in Branches : call' = [call EXCEPT ![c] =
                 [@ EXCEPT !.pc = IF project.status = "ready" THEN "read" ELSE "done",
                           !.id = project.id, !.want = b]]
        BY <2>10, <3>1 DEF Project!Open
      <4> DEFINE place == IF project.status = "ready" THEN "read" ELSE "done"
                 new == [call[c] EXCEPT !.pc = place, !.id = project.id, !.want = b]
      <4>2. new \in Requests /\ new.pc = place /\ new.id = project.id /\ new.want = b
        BY <2>1, <3>1 DEF Requests, ProjectSteps, Records
      <4>3. call' = [call EXCEPT ![c] = new]
        BY <2>1, <4>1
      <4>4. place \in {"read", "done"} /\ (place = "read" => project.bound)
        BY <2>1, <3>1 DEF RecordOK
      <4>5. UNCHANGED <<project, created, box, abandoned, overlap, faults>> /\ call[c].pc = "idle"
        BY <2>10, <3>1 DEF Project!Open, Project!At
      <4> HIDE DEF new, place
      <4> QED BY <2>9, <3>1, <4>2, <4>3, <4>4, <4>5
    <3> QED BY <2>8, <2>10, <3>1
  <2>11. CASE Project!RequestSwitch(c)
    <3>1. PICK b \in Branches : call' = [call EXCEPT ![c] = [pc |-> "mark", id |-> project.id, want |-> b,
                                                             previous |-> project.branch]]
      BY <2>11 DEF Project!RequestSwitch
    <3> DEFINE new == [pc |-> "mark", id |-> project.id, want |-> b, previous |-> project.branch]
    <3>2. /\ project # None /\ call[c].pc = "idle" /\ project.bound /\ project \in Records
          /\ UNCHANGED <<project, created, box, abandoned, overlap, faults>>
      BY <2>1, <2>11 DEF Project!RequestSwitch, Project!At, RecordOK
    <3>3. new \in Requests /\ new.pc = "mark" /\ new.id = project.id /\ new.want = b
          /\ new.previous \in Branches
      BY <3>2 DEF Requests, ProjectSteps, Records
    <3>4. call' = [call EXCEPT ![c] = new]
      BY <3>1
    <3> HIDE DEF new
    <3> QED BY <2>9, <3>2, <3>3, <3>4
  <2>12. CASE Project!Remove(c)
    <3> DEFINE place == IF project.bound THEN "deletebox" ELSE "secrets"
               new == [call[c] EXCEPT !.id = project.id, !.pc = place]
    <3>1. /\ project # None /\ call[c].pc = "idle" /\ project \in Records
          /\ UNCHANGED <<project, created, box, abandoned, overlap, faults>>
      BY <2>1, <2>12 DEF Project!Remove, Project!At
    <3>2. new \in Requests /\ new.pc = place /\ new.id = project.id
      BY <2>1, <3>1 DEF Requests, ProjectSteps, Records, Project!Removing
    <3>3. call' = [call EXCEPT ![c] = new]
      BY <2>1, <2>12 DEF Project!Remove
    <3>4. place \in {"deletebox", "secrets"} /\ (place = "deletebox" => project.bound)
      OBVIOUS
    <3> HIDE DEF new, place
    <3> QED BY <2>9, <3>1, <3>2, <3>3, <3>4
  <2>13. CASE Project!Provision(c)
    <3>1. CASE Project!CreateBox(c)
      <4>1. call[c].pc = "create" /\ UNCHANGED <<project, created, abandoned, overlap>>
        BY <3>1 DEF Project!CreateBox, Project!At
      <4>2. CASE box' = [box EXCEPT ![id].state = "empty"] /\ Project!Goes(c, "clone") /\ Project!Fine
        <5>1. Onward(c, "clone") /\ Boxed(id, "empty", box[id].head)
          BY <2>3, <2>5, <4>1, <4>2 DEF ProjectSteps, Making
        <5> QED BY <4>1, <4>2, <5>1, CreateBoxStep DEF Project!Fine
      <4>3. CASE UNCHANGED box /\ Project!Goes(c, "fail") /\ Project!Fails
        BY <2>6, <4>1, <4>3 DEF ProjectSteps, Making
      <4> QED BY <3>1, <4>2, <4>3 DEF Project!CreateBox
    <3>2. CASE Project!Clone(c)
      <4>1. call[c].pc = "clone" /\ UNCHANGED <<project, created, abandoned, overlap, faults>>
        BY <3>2 DEF Project!Clone, Project!At
      <4>2. CASE box' = [box EXCEPT ![id] = [state |-> "cloned", head |-> want]] /\ Project!Goes(c, "bind")
        <5>1. want \in Branches
          BY <2>1, <4>1 DEF RequestOK, Making
        <5>2. Onward(c, "bind") /\ Boxed(id, "cloned", want)
          BY <2>3, <2>5, <4>1, <4>2, <5>1 DEF ProjectSteps, Making
        <5> QED BY <4>1, <5>2, CloneStep
      <4>3. CASE UNCHANGED box /\ Project!Goes(c, "cleanup")
        BY <2>6, <4>1, <4>3 DEF ProjectSteps, Making
      <4> QED BY <3>2, <4>2, <4>3 DEF Project!Clone
    <3>3. CASE Project!CleanUp(c)
      <4>1. call[c].pc = "cleanup" /\ UNCHANGED <<project, created, abandoned, overlap>> /\ Project!Goes(c, "fail")
        BY <3>3 DEF Project!CleanUp, Project!At
      <4>2. CASE box' = [box EXCEPT ![id].state = "deleted"] /\ Project!Fine
        <5>1. Onward(c, "fail") /\ Boxed(id, "deleted", box[id].head)
          BY <2>3, <2>5, <4>1, <4>2 DEF ProjectSteps, Making
        <5> QED BY <4>1, <4>2, <5>1, CleanUpStep DEF Project!Fine
      <4>3. CASE UNCHANGED box /\ Project!Fails
        BY <2>6, <4>1, <4>3 DEF ProjectSteps, Making
      <4> QED BY <3>3, <4>2, <4>3 DEF Project!CleanUp
    <3>4. CASE Project!Bind(c)
      <4>1. call[c].pc = "bind" /\ UNCHANGED <<project, created, box, abandoned, overlap>>
        BY <3>4 DEF Project!Bind, Project!At
      <4>2. CASE Project!Goes(c, "record") /\ Project!Fine
        BY <2>6, <4>1, <4>2 DEF ProjectSteps, Making, Project!Fine
      <4>3. CASE ~Project!Found(c) /\ Project!Goes(c, "fail") /\ Project!Fine
        BY <2>6, <4>1, <4>3 DEF ProjectSteps, Making, Project!Fine
      <4>4. CASE Project!Goes(c, "fail") /\ Project!Fails
        BY <2>6, <4>1, <4>4 DEF ProjectSteps, Making
      <4> QED BY <3>4, <4>2, <4>3, <4>4 DEF Project!Bind
    <3>5. CASE Project!MarkSandboxReady(c)
      <4>1. call[c].pc = "record" /\ UNCHANGED <<created, box, abandoned, overlap>>
        BY <3>5 DEF Project!MarkSandboxReady, Project!At
      <4>2. CASE Project!Found(c)
        <5>1. Recorded("ready", TRUE, project.branch, "idle")
          BY <2>1, <3>5, <4>2, ProjectMoves DEF Project!MarkSandboxReady, Project!Found
        <5>2. PICK place \in {"done", "fail"} :
                 Project!Goes(c, place) /\ (place = "fail" => Project!Fails) /\ (Project!Fine \/ Project!Fails)
          BY <3>5, <4>2 DEF Project!MarkSandboxReady
        <5>3. Onward(c, place) /\ faults' \in 0 .. MaxFaults /\ (faults' = 0 => faults = 0)
              /\ (place = "fail" => faults' # 0)
          BY <2>2, <2>3, <5>2 DEF ProjectSteps
        <5> HIDE DEF id, want, previous
        <5> QED BY <4>1, <4>2, <5>1, <5>3, SandboxReadyStep
      <4>3. CASE ~Project!Found(c)
        <5>1. UNCHANGED project /\ Project!Goes(c, "fail") /\ UNCHANGED faults
          BY <3>5, <4>3 DEF Project!MarkSandboxReady, Project!Fine
        <5> QED BY <2>6, <4>1, <4>3, <5>1 DEF ProjectSteps, Making
      <4> QED BY <4>2, <4>3
    <3>6. CASE Project!MarkSandboxFailed(c)
      <4>1. call[c].pc = "fail" /\ UNCHANGED <<created, box, abandoned, overlap, faults>> /\ Project!Goes(c, "done")
        BY <3>6 DEF Project!MarkSandboxFailed, Project!At
      <4>2. CASE Project!Found(c)
        <5>1. Recorded("failed", project.bound, project.branch, project.switch)
          BY <2>1, <3>6, <4>2, ProjectMoves DEF Project!MarkSandboxFailed, Project!Found
        <5>2. Onward(c, "done")
          BY <2>3, <4>1 DEF ProjectSteps
        <5> QED BY <4>1, <4>2, <5>1, <5>2, SandboxFailedStep
      <4>3. CASE ~Project!Found(c)
        <5>1. UNCHANGED project
          BY <3>6, <4>3 DEF Project!MarkSandboxFailed
        <5> QED BY <2>6, <4>1, <5>1 DEF ProjectSteps, Making
      <4> QED BY <4>2, <4>3
    <3> QED BY <2>13, <3>1, <3>2, <3>3, <3>4, <3>5, <3>6 DEF Project!Provision
  <2>14. CASE Project!Switch(c)
    <3>1. CASE Project!ReadPrevious(c)
      <4> DEFINE p == IF Project!Found(c) THEN project.branch ELSE None
      <4>1. call[c].pc = "read" /\ UNCHANGED <<project, created, box, abandoned, overlap, faults>>
            /\ call' = [call EXCEPT ![c].pc = "mark", ![c].previous = p]
        BY <3>1 DEF Project!ReadPrevious, Project!At
      <4>2. p \in Branches \cup {None} /\ (Project!Found(c) => p \in Branches)
        BY <2>1 DEF Project!Found, Records
      <4> HIDE DEF p
      <4>3. RequestMoved(c, "mark", id, want, p)
        BY <2>1, <4>1, <4>2, RequestMoves DEF ProjectSteps
      <4>4. want \in Branches /\ faults' \in 0 .. MaxFaults
        BY <2>1, <2>2, <4>1 DEF RequestOK
      <4>5. project # None /\ project.id = id => p \in Branches
        BY <4>2 DEF Project!Found
      <4> QED BY <2>4, <4>1, <4>3, <4>4, <4>5, CallStep DEF ProjectSteps, Making, Project!Switching
    <3>2. CASE Project!MarkSwitching(c)
      <4>1. call[c].pc = "mark" /\ UNCHANGED <<created, box, abandoned, faults>>
        BY <3>2 DEF Project!MarkSwitching, Project!At
      <4>2. CASE Project!Found(c)
        <5>1. want \in Branches
          BY <2>1, <4>1 DEF RequestOK
        <5>2. Recorded(project.status, project.bound, want, "switching")
          BY <2>1, <3>2, <4>2, <5>1, ProjectMoves DEF Project!MarkSwitching, Project!Found
        <5>3. Onward(c, "checkout")
          BY <2>3, <3>2, <4>2 DEF ProjectSteps, Project!Switching, Project!MarkSwitching
        <5>4. overlap' = IF \E o \in Calls \ {c} : call[o].pc \in Project!Switching
                         THEN overlap \cup {project.id} ELSE overlap
          BY <3>2, <4>2 DEF Project!MarkSwitching
        <5> QED BY <4>1, <4>2, <5>2, <5>3, <5>4, SwitchingStep
      <4>3. CASE ~Project!Found(c)
        <5>1. UNCHANGED <<project, overlap>> /\ Project!Goes(c, "done")
          BY <3>2, <4>3 DEF Project!MarkSwitching
        <5> QED BY <2>6, <4>1, <5>1 DEF ProjectSteps, Making
      <4> QED BY <4>2, <4>3
    <3>3. CASE Project!Checkout(c)
      <4>1. call[c].pc = "checkout" /\ UNCHANGED <<project, created, abandoned, overlap, faults>>
        BY <3>3 DEF Project!Checkout, Project!At
      <4>2. ASSUME box[id].state = "cloned", box' = [box EXCEPT ![id].head = want],
                   NEW place \in {"ready", "unswitch"}, Project!Goes(c, place)
            PROVE  ProjectInv'
        <5>1. want \in Branches
          BY <2>1, <4>1 DEF RequestOK, Project!Switching
        <5>2. Onward(c, place) /\ Boxed(id, "cloned", want)
          BY <2>3, <2>5, <4>1, <4>2, <5>1 DEF ProjectSteps, Project!Switching
        <5> QED BY <4>1, <4>2, <5>2, CheckoutStep
      <4>3. CASE UNCHANGED box /\ Project!Goes(c, "unswitch")
        BY <2>6, <4>1, <4>3 DEF ProjectSteps, Project!Switching, Making
      <4> QED BY <3>3, <4>2, <4>3 DEF Project!Checkout
    <3>4. CASE Project!MarkSwitchReady(c)
      <4>1. call[c].pc = "ready" /\ UNCHANGED <<created, box, abandoned, overlap>>
        BY <3>4 DEF Project!MarkSwitchReady, Project!At
      <4>2. CASE Project!Found(c)
        <5>1. want \in Branches
          BY <2>1, <4>1 DEF RequestOK, Project!Switching
        <5>2. Recorded(project.status, project.bound, want, "idle")
          BY <2>1, <3>4, <4>2, <5>1, ProjectMoves DEF Project!MarkSwitchReady, Project!Found
        <5>3. PICK place \in {"done", "unswitch"} : Project!Goes(c, place) /\ (Project!Fine \/ Project!Fails)
          BY <3>4, <4>2 DEF Project!MarkSwitchReady
        <5>4. Onward(c, place) /\ faults' \in 0 .. MaxFaults /\ (faults' = 0 => faults = 0)
          BY <2>2, <2>3, <5>3 DEF ProjectSteps, Project!Switching
        <5> HIDE DEF id, want, previous
        <5> QED BY <4>1, <4>2, <5>2, <5>4, SwitchReadyStep DEF want
      <4>3. CASE ~Project!Found(c)
        <5>1. UNCHANGED project /\ Project!Goes(c, "unswitch") /\ UNCHANGED faults
          BY <3>4, <4>3 DEF Project!MarkSwitchReady, Project!Fine
        <5> QED BY <2>6, <4>1, <5>1 DEF ProjectSteps, Project!Switching, Making
      <4> QED BY <4>2, <4>3
    <3>5. CASE Project!MarkSwitchFailed(c)
      <4>1. call[c].pc = "unswitch" /\ UNCHANGED <<created, box, abandoned, overlap, faults>> /\ Project!Goes(c, "done")
        BY <3>5 DEF Project!MarkSwitchFailed, Project!At
      <4>2. CASE Project!Found(c)
        <5>1. previous \in Branches
          BY <2>1, <4>1 DEF RequestOK, Project!Switching
        <5>2. Recorded(project.status, project.bound, previous, "failed")
          BY <2>1, <3>5, <4>2, <5>1, ProjectMoves DEF Project!MarkSwitchFailed, Project!Found
        <5>3. Onward(c, "done")
          BY <2>3, <4>1 DEF ProjectSteps
        <5> QED BY <4>1, <4>2, <5>2, <5>3, SwitchFailedStep
      <4>3. CASE ~Project!Found(c)
        <5>1. UNCHANGED project
          BY <3>5, <4>3 DEF Project!MarkSwitchFailed
        <5> QED BY <2>6, <4>1, <5>1 DEF ProjectSteps, Making
      <4> QED BY <4>2, <4>3
    <3> QED BY <2>14, <3>1, <3>2, <3>3, <3>4, <3>5 DEF Project!Switch
  <2>15. CASE Project!Removal(c)
    <3>1. CASE Project!DeleteBox(c)
      <4>1. call[c].pc = "deletebox" /\ UNCHANGED <<project, created, abandoned, overlap>>
        BY <3>1 DEF Project!DeleteBox, Project!At
      <4>2. CASE box' = [box EXCEPT ![id].state = "deleted"] /\ Project!Goes(c, "secrets") /\ Project!Fine
        <5>1. Onward(c, "secrets") /\ Boxed(id, "deleted", box[id].head)
          BY <2>3, <2>5, <4>1, <4>2 DEF ProjectSteps, Project!Removing
        <5> QED BY <4>1, <4>2, <5>1, DeleteBoxStep DEF Project!Fine
      <4>3. CASE UNCHANGED box /\ Project!Goes(c, "done") /\ Project!Fails
        BY <2>6, <4>1, <4>3 DEF ProjectSteps, Making
      <4> QED BY <3>1, <4>2, <4>3 DEF Project!DeleteBox
    <3>2. CASE Project!DeleteSecrets(c)
      <4>1. call[c].pc = "secrets" /\ UNCHANGED <<project, created, box, abandoned, overlap>>
        BY <3>2 DEF Project!DeleteSecrets, Project!At
      <4>2. CASE Project!Goes(c, "forget") /\ Project!Fine
        BY <2>6, <4>1, <4>2 DEF ProjectSteps, Project!Removing, Making, Project!Fine
      <4>3. CASE Project!Goes(c, "done") /\ Project!Fails
        BY <2>6, <4>1, <4>3 DEF ProjectSteps, Making
      <4> QED BY <3>2, <4>2, <4>3 DEF Project!DeleteSecrets
    <3>3. CASE Project!Forget(c)
      <4>1. call[c].pc = "forget" /\ UNCHANGED <<created, box, overlap, faults>> /\ Project!Goes(c, "done")
        BY <3>3 DEF Project!Forget, Project!At
      <4>2. CASE Project!Found(c)
        <5>1. Onward(c, "done")
          BY <2>3, <4>1 DEF ProjectSteps
        <5>2. project' = None
              /\ abandoned' = IF box[project.id].state # "deleted" THEN abandoned \cup {project.id} ELSE abandoned
          BY <3>3, <4>2 DEF Project!Forget
        <5> QED BY <4>1, <4>2, <5>1, <5>2, ForgetStep
      <4>3. CASE ~Project!Found(c)
        <5>1. UNCHANGED <<project, abandoned>>
          BY <3>3, <4>3 DEF Project!Forget
        <5> QED BY <2>6, <4>1, <5>1 DEF ProjectSteps, Making
      <4> QED BY <4>2, <4>3
    <3> QED BY <2>15, <3>1, <3>2, <3>3 DEF Project!Removal
  <2>16. CASE Project!Lost(c)
    BY <2>6, <2>16 DEF Project!Lost, ProjectSteps, Making
  <2> QED BY <1>2, <2>10, <2>11, <2>12, <2>13, <2>14, <2>15, <2>16
<1> QED BY <1>1, <1>2 DEF Project!Next

\* NoSandboxIsLost and BranchIsCheckedOut: whatever requests open, switch and remove a
\* repository's project at once, no sandbox runs that nobody knows of (unless a clean-up,
\* a binding or a deletion failed, or the project was removed while its sandbox was
\* made), and a project shown idle on a branch has it checked out (unless two of its
\* switches overlapped), whichever step failed.
THEOREM ProjectSandboxHolds ==
  ASSUME ProjectBounds
  PROVE  Project!Spec => [](Project!NoSandboxIsLost /\ Project!BranchIsCheckedOut)
<1>1. Project!Init => ProjectInv
  <2> SUFFICES ASSUME Project!Init PROVE ProjectInv
    OBVIOUS
  <2>1. /\ project = None /\ created = 0 /\ faults = 0
        /\ box = [i \in Project!Ids |-> [state |-> "none", head |-> None]]
        /\ call = [c \in Calls |-> [pc |-> "idle", id |-> None, want |-> None, previous |-> None]]
    BY DEF Project!Init
  <2>2. [state |-> "none", head |-> None] \in Sandboxes
        /\ [pc |-> "idle", id |-> None, want |-> None, previous |-> None] \in Requests
    BY DEF Sandboxes, Requests, ProjectSteps
  <2>3. ProjectTypes
    BY <2>1, <2>2 DEF ProjectTypes, ProjectBounds
  <2>4. (\A c \in Calls : call[c].pc = "idle") /\ \A i \in Project!Ids : box[i].state = "none"
    BY <2>1
  <2>5. RecordOK /\ NewBoxesOK /\ RemovedOK /\ IdleOK
    BY <2>1, <2>4 DEF RecordOK, NewBoxesOK, RemovedOK, IdleOK
  <2>6. OneMaker /\ OverlapOK
    BY <2>4 DEF OneMaker, OverlapOK, Making, Project!Switching
  <2>7. \A c \in Calls : RequestInv(c)
    BY <2>4 DEF RequestInv, RequestOK, MakerOK, FailOK, SwitchOK, Making, Project!Switching
  <2>8. Project!NoSandboxIsLost
    BY <2>4 DEF Project!NoSandboxIsLost, Project!Exists
  <2> QED BY <2>3, <2>5, <2>6, <2>7, <2>8 DEF ProjectInv
<1>2. ProjectInv /\ [Project!Next]_Project!vars => ProjectInv'
  BY ProjectStep
<1>3. ProjectInv => Project!NoSandboxIsLost /\ Project!BranchIsCheckedOut
  BY DEF ProjectInv, IdleOK, Project!BranchIsCheckedOut
<1> QED BY <1>1, <1>2, <1>3, PTL DEF Project!Spec
=============================================================================
