---------------------------- MODULE SandboxAccess ----------------------------
(***************************************************************************)
(* How the calls of a worker get at a project's Daytona sandbox              *)
(* (sandbox/index.ts).  A call first looks for the context of its thread,    *)
(* kept for some seconds, then for the sandbox, kept as long, and otherwise  *)
(* joins the lookup that is under way or begins one: it reads the sandbox,   *)
(* sets its network policy and starts it.  A status poll reads the sandbox   *)
(* without starting it, and a removal waits for a lookup that is under way   *)
(* before it deletes.                                                       *)
(*                                                                          *)
(* A step is what runs between two awaits of one call; the entries of the    *)
(* three maps belong to one sandbox, and a context's to a thread.            *)
(***************************************************************************)
EXTENDS Naturals, FiniteSets

CONSTANTS
  Calls,
  Threads,
  MaxFaults   \* bound: requests that fail or are throttled, sandboxes that stop

VARIABLES
  call,        \* a call: its step, its thread, the call it awaits and the state it read
  context,     \* sandboxContextPromises: per thread "none", "fresh", or the call that makes it
  lookup,      \* sandboxLookupPromises: the call that looks, or "none"
  recent,      \* recentSandboxes: "none", or whether its lookup began "before" a removal or "after"
  box,         \* the sandbox at the provider: its state and whether its policy is current
  restricted,  \* an allow-list is configured
  removal,     \* the latest deleteSandbox: "none", "asked", or "done"
  faults

vars == <<call, context, lookup, recent, box, restricted, removal, faults>>

Fault == faults < MaxFaults /\ faults' = faults + 1
Looking == {"get", "policy", "start", "policy_again"}
Steps == Looking \cup {"new", "follow", "join", "run", "peek", "wait", "delete", "ok", "failed"}

TypeOK ==
  /\ call \in [Calls -> [step : Steps, thread : Threads, of : Calls \cup {"none"},
                         saw : {"started", "stopped"}, since : {"before", "after"}]]
  /\ context \in [Threads -> Calls \cup {"none", "fresh"}]
  /\ lookup \in Calls \cup {"none"} /\ recent \in {"none", "before", "after"}
  /\ box \in [state : {"started", "stopped", "deleted"}, current : BOOLEAN]
  /\ restricted \in BOOLEAN /\ removal \in {"none", "asked", "done"} /\ faults \in 0 .. MaxFaults

Init ==
  /\ \E threadOf \in [Calls -> Threads] :
       call = [c \in Calls |-> [step |-> "new", thread |-> threadOf[c], of |-> "none",
                                saw |-> "stopped", since |-> "before"]]
  /\ context = [t \in Threads |-> "none"] /\ lookup = "none" /\ recent = "none"
  /\ box \in [state : {"started", "stopped"}, current : BOOLEAN]
  /\ restricted \in BOOLEAN /\ removal = "none" /\ faults = 0

At(c, step) == call[c].step = step
Goes(c, step) == call' = [call EXCEPT ![c].step = step]
Awaits(c, step, d) == call' = [call EXCEPT ![c].step = step, ![c].of = d]
Caches == <<context, lookup, recent>>
Provider == <<box, restricted, removal>>

-----------------------------------------------------------------------------
(* getSandboxContext and createSandbox *)

\* A context that is being made is shared however long it takes, and one that is
\* made for some seconds.
Shared(c) == context[call[c].thread] # "none"

Use(c) ==
  /\ At(c, "new") /\ Shared(c)
  /\ LET made == context[call[c].thread]
     IN IF made = "fresh" THEN Goes(c, "run") ELSE Awaits(c, "join", made)
  /\ UNCHANGED <<Caches, Provider, faults>>

\* The sandbox found some seconds ago, the lookup that is under way, or a new one.
Create(c) ==
  /\ At(c, "new") /\ ~Shared(c)
  /\ IF recent # "none"
     THEN /\ Goes(c, "run") /\ context' = [context EXCEPT ![call[c].thread] = "fresh"]
          /\ UNCHANGED lookup
     ELSE /\ context' = [context EXCEPT ![call[c].thread] = c]
          /\ IF lookup # "none"
             THEN Awaits(c, "follow", lookup) /\ UNCHANGED lookup
             ELSE /\ call' = [call EXCEPT ![c].step = "get",
                                ![c].since = IF removal = "none" THEN "before" ELSE "after"]
                  /\ lookup' = c
  /\ UNCHANGED <<recent, Provider, faults>>

\* The lookup of c ends for c, for those that follow it, and for the calls of their
\* threads that wait for the context they make.
Served(c) ==
  LET made == {c} \cup {d \in Calls : At(d, "follow") /\ call[d].of = c}
  IN made \cup {d \in Calls : At(d, "join") /\ call[d].of \in made}
Ends(c, step, kept) ==
  /\ call' = [d \in Calls |-> IF d \in Served(c) THEN [call[d] EXCEPT !.step = step] ELSE call[d]]
  /\ context' = [t \in Threads |-> IF context[t] \in Served(c) THEN kept ELSE context[t]]
  /\ lookup' = IF lookup = c THEN "none" ELSE lookup
LookupFails(c) == Ends(c, "failed", "none") /\ UNCHANGED recent
Found(c) == Ends(c, "run", "fresh") /\ recent' = call[c].since

\* daytona.get and ensureSandboxAutoArchiveInterval
Get(c) ==
  /\ At(c, "get")
  /\ IF box.state = "deleted" THEN LookupFails(c)
     ELSE /\ call' = [call EXCEPT ![c].step = "policy", ![c].saw = box.state]
          /\ UNCHANGED Caches
  /\ UNCHANGED <<Provider, faults>>

\* retryDaytonaRateLimit begins again with the read; any other error ends the lookup.
Throttled(c) ==
  /\ call[c].step \in Looking /\ Fault /\ Goes(c, "get")
  /\ UNCHANGED <<Caches, Provider>>
Fails(c) ==
  /\ call[c].step \in Looking /\ Fault /\ LookupFails(c)
  /\ UNCHANGED Provider

\* ensureSandboxNetworkPolicy: only a sandbox that runs takes a policy.  Without a
\* restriction one that is stopped is started as it is; with one it is refused.
Refused(c) == call[c].saw = "stopped" /\ restricted
SetPolicy(c, next) ==
  /\ IF box.current \/ (call[c].saw = "stopped" /\ ~Refused(c))
     THEN next /\ UNCHANGED box
     ELSE IF Refused(c) \/ box.state # "started"
     THEN LookupFails(c) /\ UNCHANGED box
     ELSE next /\ box' = [box EXCEPT !.current = TRUE]
  /\ UNCHANGED <<restricted, removal, faults>>

Policy(c) == At(c, "policy") /\ SetPolicy(c, Goes(c, "start") /\ UNCHANGED Caches)

\* ensureSandboxStarted
Start(c) ==
  /\ At(c, "start")
  /\ IF call[c].saw = "started"
     THEN Goes(c, "policy_again") /\ UNCHANGED <<Caches, box>>
     ELSE IF box.state = "deleted"
     THEN LookupFails(c) /\ UNCHANGED box
     ELSE /\ box' = [box EXCEPT !.state = "started"]
          /\ call' = [call EXCEPT ![c].step = "policy_again", ![c].saw = "started"]
          /\ UNCHANGED Caches
  /\ UNCHANGED <<restricted, removal, faults>>

PolicyAgain(c) == At(c, "policy_again") /\ SetPolicy(c, Found(c))

\* The command the context is for.
Run(c) ==
  /\ At(c, "run")
  /\ Goes(c, IF box.state = "started" THEN "ok" ELSE "failed")
  /\ UNCHANGED <<Caches, Provider, faults>>

\* The seconds of an entry are over.
Lapse(t) ==
  /\ context[t] = "fresh" /\ context' = [context EXCEPT ![t] = "none"]
  /\ UNCHANGED <<call, lookup, recent, Provider, faults>>
LapseRecent ==
  /\ recent # "none" /\ recent' = "none"
  /\ UNCHANGED <<call, context, lookup, Provider, faults>>

\* The provider's idle timer.
AutoStops ==
  /\ Fault /\ box.state = "started" /\ box' = [box EXCEPT !.state = "stopped"]
  /\ UNCHANGED <<call, Caches, restricted, removal>>

-----------------------------------------------------------------------------
(* getSandboxWithoutStarting *)

Peek(c) ==
  /\ At(c, "new")
  /\ IF box.state = "deleted" THEN Goes(c, "failed")
     ELSE call' = [call EXCEPT ![c].step = "peek", ![c].saw = box.state]
  /\ UNCHANGED <<Caches, Provider, faults>>
PeekPolicy(c) ==
  /\ At(c, "peek")
  /\ IF box.current \/ (call[c].saw = "stopped" /\ ~Refused(c))
     THEN Goes(c, "ok") /\ UNCHANGED box
     ELSE IF Refused(c) \/ box.state # "started"
     THEN Goes(c, "failed") /\ UNCHANGED box
     ELSE Goes(c, "ok") /\ box' = [box EXCEPT !.current = TRUE]
  /\ UNCHANGED <<Caches, restricted, removal, faults>>

-----------------------------------------------------------------------------
(* deleteSandbox *)

Clears(c) ==
  /\ Goes(c, "delete") /\ lookup' = "none" /\ recent' = "none" /\ UNCHANGED context

Remove(c) ==
  /\ At(c, "new") /\ removal = "none" /\ removal' = "asked"
  /\ IF lookup # "none" THEN Awaits(c, "wait", lookup) /\ UNCHANGED Caches ELSE Clears(c)
  /\ UNCHANGED <<box, restricted, faults>>
LookupSettled(c) ==
  /\ At(c, "wait") /\ call[call[c].of].step \notin Looking
  /\ Clears(c) /\ UNCHANGED <<Provider, faults>>
\* Read and deleted; one that is not found is deleted already.  A state change that is
\* in progress and a throttled request are asked again, and another error ends it.
Delete(c) ==
  /\ At(c, "delete")
  /\ box' = [box EXCEPT !.state = "deleted"] /\ removal' = "done" /\ Goes(c, "ok")
  /\ UNCHANGED <<Caches, restricted, faults>>
DeleteFails(c) ==
  /\ At(c, "delete") /\ Fault
  /\ Goes(c, "failed") /\ UNCHANGED <<Caches, Provider>>

Next ==
  \/ LapseRecent \/ AutoStops \/ \E t \in Threads : Lapse(t)
  \/ \E c \in Calls :
       \/ Use(c) \/ Create(c) \/ Get(c) \/ Throttled(c) \/ Fails(c) \/ Policy(c) \/ Start(c)
       \/ PolicyAgain(c) \/ Run(c) \/ Peek(c) \/ PeekPolicy(c)
       \/ Remove(c) \/ LookupSettled(c) \/ Delete(c) \/ DeleteFails(c)

Spec == Init /\ [][Next]_vars

-----------------------------------------------------------------------------
\* Calls that need the sandbox at once look it up once, as long as none removes it: a
\* removal forgets a lookup that began while it waited (index.ts, deleteSandbox).
OneLookup == removal = "none" => Cardinality({c \in Calls : call[c].step \in Looking}) <= 1

\* No command runs in a sandbox whose policy is outdated (createSandbox sets it before
\* and after the start), however the call came by its context.
RunsUnderPolicy == \A c \in Calls : At(c, "run") /\ box.state = "started" => box.current

\* A sandbox that was removed is not handed out again from a lookup that had begun
\* before the removal was asked for.
RemovedIsForgotten == removal = "done" => recent # "before"

AccessIsSound == OneLookup /\ RunsUnderPolicy /\ RemovedIsForgotten
=============================================================================
