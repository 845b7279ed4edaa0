---------------------- MODULE SandboxEnvironmentProofs ----------------------
(***************************************************************************)
(* Theorems about the environment, the desktop and the costs of a sandbox. *)
(*                                                                         *)
(* SandboxEnvironment: for every number of operations and of variables, as *)
(* long as an operation ends before its lock lapses, whoever dies.  On E2B *)
(* one call fails at most, with no effect or after it, but not an upload,  *)
(* a commit or the destruction of a removal that took effect: no secret    *)
(* the sandbox is told of is gone, and document and sandbox agree.  On     *)
(* Daytona, where no lock is held, no call fails and no two operations     *)
(* overlap.  With two failures both are false: a rollback that fails is    *)
(* not repeated.                                                           *)
(*                                                                         *)
(* SandboxDesktop, below Desktop!, and DesktopReadiness, below Readiness!: *)
(* for every number of requests, of calls, of sessions and of services,    *)
(* any failures, and restarts that land after their deadline.              *)
(*                                                                         *)
(* SandboxUsage, below Usage!: for any number of syncs that overlap, of    *)
(* pauses and of events that are listed late.  `box' is this model's there.*)
(***************************************************************************)
EXTENDS SandboxEnvironment, Sequences, FiniteSetTheorems, TLAPS

CONSTANTS
  Requests,                             \* SandboxDesktop
  Calls, Sessions, SessionOf, Services, \* DesktopReadiness
  Syncs, Interval, Window, Measured, Lag, MaxRuns, MaxTime      \* SandboxUsage

VARIABLES
  box, starter, cached, preview, vnc, web, req, connected, dropped, late,   \* SandboxDesktop
  call, up, gateway, ready, pending, known, recovery, cooling, landed, disturbed, \* DesktopReadiness
  now, log, measured, row, sync, control                                    \* SandboxUsage

Desktop == INSTANCE SandboxDesktop
Readiness == INSTANCE DesktopReadiness
Usage == INSTANCE SandboxUsage

-----------------------------------------------------------------------------
(* Types. *)

Secrets == [Names -> Origin]
Project == [provider : Providers, secrets : Secrets, variables : SUBSET Names]
Sandbox == [secrets : Secrets, variables : SUBSET Names]
Op == [pc : PC, names : SUBSET Names, import : BOOLEAN, seen : Secrets,
       created : SUBSET Names, written : BOOLEAN, committed : BOOLEAN, ok : BOOLEAN]

LEMMA TypeParts ==
  TypeOK <=> /\ project \in Project /\ sandbox \in Sandbox
             /\ \A n \in project.variables : project.secrets[n] = None
             /\ vault \in SUBSET (Names \X (Ops \cup {Original}))
             /\ lock \in [owner : Ops \cup {None}, live : BOOLEAN]
             /\ op \in [Ops -> Op] /\ faults \in 0 .. MaxFaults /\ slips \in SUBSET Slips
BY DEF TypeOK, Project, Sandbox, Op, Secrets

-----------------------------------------------------------------------------
(* The inductive invariant. *)

\* All the secrets that x names are there.
Good(x) == \A n \in Names : x[n] # None => <<n, x[n]>> \in vault
\* x names no secret of o.
NotBy(o, x) == \A n \in Names : x[n] # o

NoneDied == \A o \in Ops : op[o].pc # "dead"

\* An operation holds the lock from its acquisition to its release.
Locked == {"create", "start", "check", "upload", "recheck", "commit", "destroy",
           "restart", "renew", "readd", "restore", "discard", "release"}
Undoing == {"restart", "renew", "readd", "restore", "discard"}
\* The manifest is ahead of the document, or behind it.
Apart == {"recheck", "commit", "destroy", "restart", "renew", "readd", "restore"}

\* What an operation that has the lock knows and has done.
StageOK(o) ==
  /\ op[o].pc \in Locked => lock.owner = o /\ lock.live /\ NotBy(o, op[o].seen)
  /\ op[o].pc \in {"create", "start", "check", "upload", "recheck", "commit", "restore", "discard"}
       => op[o].seen = project.secrets
  /\ op[o].pc \in {"create", "start", "check", "upload"} => ~op[o].written
  /\ op[o].pc \in {"create", "start", "check", "upload", "discard"}
       => NotBy(o, sandbox.secrets)
  /\ op[o].pc \in {"create", "start", "check", "upload", "recheck", "commit", "discard"}
       => ~op[o].committed
  /\ op[o].pc = "restore" /\ op[o].import => ~op[o].committed
  /\ op[o].pc \in {"recheck", "commit", "destroy"}
       => op[o].written /\ sandbox.secrets = Wanted(o)
  /\ op[o].pc \in {"start", "check", "upload", "recheck", "commit", "destroy"} /\ op[o].import
       => op[o].names \X {o} \subseteq vault
  /\ op[o].pc = "destroy" => op[o].committed /\ project.secrets = Wanted(o)
  /\ op[o].pc \in Apart => Good(op[o].seen)
  /\ op[o].pc \in {"restart", "renew"}
       => IF op[o].committed THEN ~op[o].import /\ project.secrets = Wanted(o)
          ELSE op[o].seen = project.secrets
  /\ op[o].pc = "readd" => ~op[o].import /\ project.secrets = Wanted(o)
  /\ op[o].pc \in {"create", "discard"} => op[o].import
  /\ op[o].pc \in Undoing => faults = 1 /\ NoneDied
  /\ op[o].pc = "release" /\ op[o].committed => sandbox.secrets = project.secrets

\* E2B: what the sandbox and the document name is there, what has not begun has
\* made no secret, and the two agree unless somebody is between them or died.
E2BOK ==
  /\ \A o \in Ops : op[o].pc \in Locked \cup {"idle", "acquire", "over", "dead"}
  /\ Good(project.secrets) /\ Good(sandbox.secrets)
  /\ \A o \in Ops : StageOK(o)
  /\ \A o \in Ops : op[o].pc \in {"idle", "acquire"} =>
       /\ ~op[o].written /\ ~op[o].committed
       /\ NotBy(o, project.secrets) /\ NotBy(o, sandbox.secrets)
       /\ \A p \in Ops : op[p].pc \in Locked => NotBy(o, op[p].seen)
  /\ \/ sandbox.secrets = project.secrets
     \/ ~NoneDied
     \/ \E o \in Ops : op[o].pc \in Apart

\* Daytona: as long as no two operations have overlapped and no call has failed.
Active == {"d.start", "d.secrets", "d.env", "d.upsert", "d.delete", "d.unset",
           "d.remaining", "d.destroy", "d.record"}
\* The sandbox is told of none of the secrets that the operation will destroy.
Dropped(o) == \A n \in op[o].names : op[o].seen[n] # None => sandbox.secrets[n] = None
CallOK(o) ==
  /\ op[o].pc \in {"d.start", "d.secrets", "d.env", "d.upsert", "d.unset", "d.remaining",
                   "d.destroy"} => op[o].seen = project.secrets
  /\ op[o].pc \in {"d.env", "d.upsert", "d.delete", "d.destroy"} => Dropped(o)
  /\ op[o].pc = "d.delete" => \A n \in op[o].names : project.secrets[n] = None
  /\ op[o].pc \in Active \ {"d.record"} => Good(project.secrets)
  /\ op[o].pc = "d.record" => Good(Without(project.secrets, op[o].names))
DaytonaOK ==
  Quiet =>
    /\ \A o \in Ops : op[o].pc \in Active \cup {"idle", "over"} /\ CallOK(o)
    /\ \A o, p \in Ops : o # p => op[o].pc \notin Active \/ op[p].pc \notin Active
    /\ Good(sandbox.secrets)
    /\ (\A o \in Ops : op[o].pc \notin Active) => Good(project.secrets)

-----------------------------------------------------------------------------
(* Lemmas about the operators of the model. *)

LEMMA SecretsAre ==
  ASSUME NEW x \in Secrets, NEW names \in SUBSET Names, NEW o \in Ops
  PROVE  /\ With(x, names, o) \in Secrets /\ Without(x, names) \in Secrets
         /\ \A n \in Names : With(x, names, o)[n] = IF n \in names THEN o ELSE x[n]
         /\ \A n \in Names : Without(x, names)[n] = IF n \in names THEN None ELSE x[n]
BY DEF With, Without, Secrets, Origin

LEMMA WantedIs ==
  ASSUME NEW o \in Ops, op \in [Ops -> Op]
  PROVE  /\ Wanted(o) \in Secrets
         /\ \A n \in Names : Wanted(o)[n] = IF n \in op[o].names
                                            THEN IF op[o].import THEN o ELSE None
                                            ELSE op[o].seen[n]
<1>1. op[o].seen \in Secrets /\ op[o].names \in SUBSET Names /\ op[o].import \in BOOLEAN
  BY DEF Op
<1> QED BY <1>1, SecretsAre DEF Wanted

\* What a destruction takes: the secrets an operation has read, of its names.
LEMMA ReplacedIs ==
  ASSUME NEW o \in Ops, op \in [Ops -> Op]
  PROVE  \A n \in Names, s \in Origin :
           <<n, s>> \in Replaced(o) <=> n \in op[o].names /\ s = op[o].seen[n] /\ s # None
<1>1. op[o].seen \in Secrets /\ op[o].names \in SUBSET Names
  BY DEF Op
<1> QED BY <1>1 DEF Replaced, SecretsOf, Secrets

\* A step of one operation, as the record it leaves.
LEMMA OpSteps ==
  ASSUME op \in [Ops -> Op], NEW o \in Ops, NEW l \in Op, op' = [op EXCEPT ![o] = l]
  PROVE  /\ op' \in [Ops -> Op] /\ op'[o] = l
         /\ \A d \in Ops : d # o => op'[d] = op[d]
         /\ op[o].pc # "dead" /\ l.pc # "dead" => (NoneDied' <=> NoneDied)
         /\ l.pc = "dead" => ~NoneDied'
BY DEF NoneDied

LEMMA GotoIs ==
  ASSUME op \in [Ops -> Op], NEW o \in Ops, NEW pc \in PC, Goto(o, pc)
  PROVE  \E l \in Op :
           /\ op' = [op EXCEPT ![o] = l]
           /\ l.pc = pc /\ l.names = op[o].names /\ l.import = op[o].import
           /\ l.seen = op[o].seen /\ l.created = op[o].created
           /\ l.written = op[o].written /\ l.committed = op[o].committed
<1> DEFINE l == [op[o] EXCEPT !.pc = pc]
<1>1. op[o] \in Op
  OBVIOUS
<1>2. l \in Op /\ op' = [op EXCEPT ![o] = l]
  BY <1>1 DEF Op, Goto
<1>3. /\ l.pc = pc /\ l.names = op[o].names /\ l.import = op[o].import
      /\ l.seen = op[o].seen /\ l.created = op[o].created
      /\ l.written = op[o].written /\ l.committed = op[o].committed
  BY <1>1 DEF Op
<1> QED BY <1>2, <1>3

LEMMA RollbackIs ==
  ASSUME NEW o \in Ops
  PROVE  /\ Rollback(o) \in {"restart", "discard", "release"}
         /\ op[o].written => Rollback(o) = "restart"
         /\ ~op[o].written => Rollback(o) = IF op[o].import THEN "discard" ELSE "release"
         /\ AfterRestore(o) = IF op[o].import THEN "discard" ELSE "release"
BY DEF Rollback, AfterRestore

-----------------------------------------------------------------------------
(* Types. *)

Stores ==
  /\ project \in Project /\ sandbox \in Sandbox
  /\ \A n \in project.variables : project.secrets[n] = None
  /\ vault \in SUBSET (Names \X (Ops \cup {Original}))
  /\ lock \in [owner : Ops \cup {None}, live : BOOLEAN]
  /\ faults \in 0 .. MaxFaults /\ slips \in SUBSET Slips

\* What is counted and what is remembered only grows.
LEMMA Grows ==
  ASSUME EnvironmentAssumption, TypeOK, [Next]_vars
  PROVE  /\ faults' \in 0 .. MaxFaults /\ faults' >= faults
         /\ slips' \in SUBSET Slips /\ slips \subseteq slips'
<1> DEFINE Spent == /\ faults' \in {faults, faults + 1} /\ faults' <= MaxFaults
                    /\ slips' \in {slips, slips \cup {"misjudged"}, slips \cup {"overlap"}}
<1>0. faults \in 0 .. MaxFaults /\ MaxFaults \in Nat /\ slips \in SUBSET Slips
  BY TypeParts DEF EnvironmentAssumption
<1>1. ASSUME NEW done, NEW all, Together(done, all) PROVE Spent
  BY <1>0, <1>1 DEF Together
<1>2. ASSUME NEW o \in Ops, NEW pc, Answer(o, pc) \/ Fail(o, pc) \/ Lose(o, pc) PROVE Spent
  BY <1>0, <1>2 DEF Answer, Fail, Lose
<1>3. UNCHANGED <<faults, slips>> => Spent
  BY <1>0
<1>4. ASSUME NEW o \in Ops, E2BStep(o) PROVE Spent
  <2>1. CASE Acquire(o) \/ UploadManifest(o) \/ Commit(o) \/ Release(o)
    BY <2>1, <1>2, <1>3 DEF Acquire, UploadManifest, Commit, Release
  <2>2. CASE CreateSecrets(o) \/ DestroyReplaced(o) \/ DiscardCreated(o)
    BY <2>2, <1>1, <1>2 DEF CreateSecrets, DestroyReplaced, DiscardCreated
  <2>3. CASE \/ EnsureStarted(o) \/ Require(o) \/ RestartForRollback(o) \/ RenewForRollback(o)
             \/ ReaddReference(o) \/ RestoreManifest(o)
    BY <2>3, <1>2 DEF EnsureStarted, Require, RestartForRollback, RenewForRollback,
       ReaddReference, RestoreManifest
  <2> QED BY <1>4, <2>1, <2>2, <2>3 DEF E2BStep
<1>5. ASSUME NEW o \in Ops, DaytonaStep(o) PROVE Spent
  BY <1>5, <1>1, <1>2 DEF DaytonaStep, StartDaytona, DropLegacySecrets, UpdateEnv,
     UpsertVariables, DeleteLegacySecrets, RestoreLegacySecrets, UnsetVariable,
     UpdateRemainingSecrets, DeleteSecret, RecordRemoval
<1>6. ASSUME NEW o \in Ops, Die(o) PROVE Spent
  BY <1>6, <1>2 DEF Die
<1>7. ASSUME NEW o \in Ops, NEW import \in BOOLEAN, NEW names \in SUBSET Names,
             Begin(o, import, names)
      PROVE  Spent
  BY <1>0, <1>7 DEF Begin
<1>8. Lapse \/ UNCHANGED vars => Spent
  BY <1>3 DEF Lapse, vars
<1> HIDE DEF Spent
<1>9. Spent
  BY <1>4, <1>5, <1>6, <1>7, <1>8 DEF Next
<1>10. faults' \in {faults, faults + 1} /\ faults' <= MaxFaults
  BY <1>9 DEF Spent
<1>11. slips' \in SUBSET Slips /\ slips \subseteq slips'
  BY <1>0, <1>9 DEF Spent, Slips
<1> QED BY <1>0, <1>10, <1>11

LEMMA TypeKept ==
  ASSUME EnvironmentAssumption, TypeOK, [Next]_vars
  PROVE  TypeOK' /\ project'.provider = project.provider
<1>0. /\ Stores /\ op \in [Ops -> Op]
      /\ project \in Project /\ project.secrets \in Secrets /\ project.variables \in SUBSET Names
      /\ sandbox \in Sandbox /\ sandbox.secrets \in Secrets /\ sandbox.variables \in SUBSET Names
      /\ vault \in SUBSET (Names \X (Ops \cup {Original}))
      /\ lock \in [owner : Ops \cup {None}, live : BOOLEAN]
      /\ faults' \in 0 .. MaxFaults /\ slips' \in SUBSET Slips
  BY TypeParts, Grows DEF Stores, Project, Sandbox
<1>q. (TypeOK <=> Stores /\ op \in [Ops -> Op])'
  BY DEF TypeOK, Stores, Project, Sandbox, Op, Secrets
<1>s. ASSUME NEW o \in Ops, NEW l \in Op, op' = [op EXCEPT ![o] = l], Stores' PROVE TypeOK'
  BY <1>0, <1>q, <1>s, OpSteps
<1>g. ASSUME NEW o \in Ops, NEW pc \in PC, Goto(o, pc), Stores' PROVE TypeOK'
  BY <1>0, <1>q, <1>g, GotoIs, OpSteps
<1>l. ASSUME NEW o \in Ops
      PROVE  /\ op[o] \in Op /\ op[o].names \in SUBSET Names /\ op[o].seen \in Secrets
             /\ op[o].created \in SUBSET Names /\ op[o].import \in BOOLEAN
             /\ Wanted(o) \in Secrets
             /\ Without(op[o].seen, op[o].names) \in Secrets
  <2>1. op[o] \in Op /\ op[o].names \in SUBSET Names /\ op[o].seen \in Secrets
        /\ op[o].created \in SUBSET Names /\ op[o].import \in BOOLEAN
    BY <1>0 DEF Op
  <2> QED BY <1>0, <2>1, WantedIs, SecretsAre
\* what a step may do to the stores
<1> DEFINE Fine == Stores' /\ project'.provider = project.provider
<1>n. UNCHANGED stores => Fine
  BY <1>0 DEF Stores, stores
<1>k. ASSUME UNCHANGED <<project, sandbox, vault>>,
             lock' \in [owner : Ops \cup {None}, live : BOOLEAN]
      PROVE  Fine
  BY <1>0, <1>k DEF Stores
<1>b. ASSUME NEW secrets \in Secrets, sandbox' = [sandbox EXCEPT !.secrets = secrets],
             UNCHANGED <<project, vault, lock>>
      PROVE  Fine
  BY <1>0, <1>b DEF Stores, Sandbox
<1>y. ASSUME NEW variables \in SUBSET Names, sandbox' = [sandbox EXCEPT !.variables = variables],
             UNCHANGED <<project, vault, lock>>
      PROVE  Fine
  BY <1>0, <1>y DEF Stores, Sandbox
<1>v. ASSUME NEW gone, vault' = vault \ gone, UNCHANGED <<project, sandbox, lock>> PROVE Fine
  BY <1>0, <1>v DEF Stores
<1>p. ASSUME NEW secrets \in Secrets, NEW variables \in SUBSET Names,
             \A n \in variables : secrets[n] = None,
             project' = [project EXCEPT !.secrets = secrets, !.variables = variables],
             UNCHANGED <<sandbox, vault, lock>>
      PROVE  Fine
  <2>1. project' \in Project /\ project'.secrets = secrets /\ project'.variables = variables
        /\ project'.provider = project.provider
    BY <1>0, <1>p DEF Project
  <2> QED BY <1>0, <1>p, <2>1 DEF Stores
<1>r. ASSUME NEW o \in Ops, Renew(o) PROVE lock' \in [owner : Ops \cup {None}, live : BOOLEAN]
  BY <1>r DEF Renew
<1> HIDE DEF Fine
\* an operation that moves on
<1>m. ASSUME NEW o \in Ops, NEW pc \in PC, Goto(o, pc), Fine
      PROVE  TypeOK' /\ project'.provider = project.provider
  BY <1>g, <1>m DEF Fine
<1>z. ASSUME NEW o \in Ops, NEW l \in Op, op' = [op EXCEPT ![o] = l], Fine
      PROVE  TypeOK' /\ project'.provider = project.provider
  BY <1>s, <1>z DEF Fine
<1>1. ASSUME NEW o \in Ops, NEW import \in BOOLEAN, NEW names \in SUBSET Names,
             Begin(o, import, names)
      PROVE  TypeOK' /\ project'.provider = project.provider
  <2> DEFINE pc == IF project.provider = "e2b" THEN "acquire" ELSE "d.start"
             l == [op[o] EXCEPT !.pc = pc, !.names = names, !.import = import,
                                !.seen = project.secrets]
  <2>3. pc \in PC
    BY DEF PC
  <2>4. op' = [op EXCEPT ![o] = l]
    BY <1>1, <1>l DEF Begin
  <2> HIDE DEF pc
  <2>1. l \in Op /\ op' = [op EXCEPT ![o] = l]
    BY <1>0, <1>l, <2>3, <2>4 DEF Op
  <2>2. UNCHANGED stores
    BY <1>1 DEF Begin
  <2> QED BY <1>n, <1>z, <2>1, <2>2
<1>2. ASSUME NEW o \in Ops, Acquire(o) PROVE TypeOK' /\ project'.provider = project.provider
  <2> DEFINE pc == IF op[o].import THEN "create"
                   ELSE IF SecretsOf(project.secrets, op[o].names) = {}
                           /\ op[o].names \cap project.variables = {}
                   THEN "release" ELSE "start"
             l == [op[o] EXCEPT !.seen = project.secrets, !.pc = pc]
  <2>1. pc \in PC /\ "over" \in PC
    BY DEF PC
  <2>2. \/ Goto(o, "over") /\ UNCHANGED stores
        \/ /\ Renew(o) /\ UNCHANGED <<project, sandbox, vault>>
           /\ Goto(o, "over") \/ op' = [op EXCEPT ![o] = l]
    BY <1>2, <1>l DEF Acquire, Answer, Lose, Fail
  <2> HIDE DEF pc
  <2>3. l \in Op
    BY <1>0, <1>l, <2>1 DEF Op
  <2>4. Fine
    BY <1>n, <1>k, <1>r, <2>2
  <2> HIDE DEF l
  <2> QED BY <1>m, <1>z, <2>1, <2>2, <2>3, <2>4
<1>3. ASSUME NEW o \in Ops, CreateSecrets(o) PROVE TypeOK' /\ project'.provider = project.provider
  <2>1. PICK made \in SUBSET op[o].names, told \in SUBSET op[o].names :
          /\ vault' = vault \cup (made \X {o})
          /\ op' = [op EXCEPT ![o].created = told,
                              ![o].pc = IF told = op[o].names THEN "start" ELSE "discard"]
    BY <1>3 DEF CreateSecrets
  <2> DEFINE l == [op[o] EXCEPT !.created = told,
                                !.pc = IF told = op[o].names THEN "start" ELSE "discard"]
  <2>2. l \in Op /\ op' = [op EXCEPT ![o] = l]
    BY <1>l, <2>1 DEF Op, PC
  <2>4. vault' \in SUBSET (Names \X (Ops \cup {Original}))
    BY <1>0, <1>l, <2>1
  <2>5. UNCHANGED <<project, sandbox, lock>>
    BY <1>3 DEF CreateSecrets
  <2>6. Stores'
    BY <1>0, <2>4, <2>5 DEF Stores
  <2> QED BY <1>s, <2>2, <2>5, <2>6
<1>4. ASSUME NEW o \in Ops,
             EnsureStarted(o) \/ Require(o) \/ RestartForRollback(o) \/ RenewForRollback(o)
      PROVE  TypeOK' /\ project'.provider = project.provider
  <2>1. \/ UNCHANGED stores
        \/ Renew(o) /\ UNCHANGED <<project, sandbox, vault>>
    BY <1>4 DEF EnsureStarted, Require, RestartForRollback, RenewForRollback, Fail
  <2>2. \E pc \in {"check", "upload", "commit", "renew", "readd", "restore", Rollback(o),
                   AfterRestore(o)} : Goto(o, pc)
    BY <1>4 DEF EnsureStarted, Require, RestartForRollback, RenewForRollback, Fail, Answer, Lose
  <2>3. PICK pc \in PC : Goto(o, pc)
    BY <2>2, RollbackIs DEF PC
  <2>4. Fine
    BY <1>n, <1>k, <1>r, <2>1
  <2> QED BY <1>m, <2>3, <2>4
<1>6. ASSUME NEW o \in Ops, UploadManifest(o) PROVE TypeOK' /\ project'.provider = project.provider
  <2> DEFINE l == [op[o] EXCEPT !.pc = "recheck", !.written = TRUE]
  <2>1. Rollback(o) \in PC
    BY RollbackIs DEF PC
  <2>2. l \in Op
    BY <1>l DEF Op, PC
  <2>3. \/ sandbox' = [sandbox EXCEPT !.secrets = Wanted(o)] /\ UNCHANGED <<project, vault, lock>>
        \/ UNCHANGED stores
    BY <1>6 DEF UploadManifest, Fail
  <2>4. op' = [op EXCEPT ![o] = l] \/ Goto(o, Rollback(o))
    BY <1>6, <1>l DEF UploadManifest, Fail, Lose
  <2>5. Fine
    BY <1>l, <1>n, <1>b, <2>3
  <2> HIDE DEF l
  <2> QED BY <1>m, <1>z, <2>1, <2>2, <2>4, <2>5
<1>7. ASSUME NEW o \in Ops, Commit(o) PROVE TypeOK' /\ project'.provider = project.provider
  <2> DEFINE l == [op[o] EXCEPT !.pc = "destroy", !.committed = TRUE]
             x == IF op[o].import THEN With(project.secrets, op[o].names, o)
                  ELSE Without(project.secrets, op[o].names)
  <2>1. Rollback(o) \in PC
    BY RollbackIs DEF PC
  <2>2. l \in Op
    BY <1>l DEF Op, PC
  <2>3. op' = [op EXCEPT ![o] = l] \/ Goto(o, Rollback(o))
    BY <1>7, <1>l DEF Commit, Answer, Fail, Lose
  <2>4. \/ /\ project' = [project EXCEPT !.secrets = x, !.variables = project.variables \ op[o].names]
           /\ UNCHANGED <<sandbox, vault, lock>>
        \/ UNCHANGED stores
    BY <1>0, <1>7 DEF Commit, Fail, Project
  <2>5. x \in Secrets /\ \A n \in project.variables \ op[o].names : x[n] = None
    BY <1>0, <1>l, SecretsAre DEF Stores
  <2>6. project.variables \ op[o].names \in SUBSET Names
    BY <1>0
  <2> HIDE DEF x, l
  <2>7. Fine
    BY ONLY <1>n, <1>p, <2>4, <2>5, <2>6
  <2> QED BY <1>m, <1>z, <2>1, <2>2, <2>3, <2>7
<1>8. ASSUME NEW o \in Ops, DestroyReplaced(o) PROVE TypeOK' /\ project'.provider = project.provider
  <2> DEFINE l == [op[o] EXCEPT !.pc = "release", !.ok = TRUE]
  <2>1. PICK gone : vault' = vault \ gone /\ UNCHANGED <<project, sandbox, lock>>
    BY <1>8 DEF DestroyReplaced
  <2>2. op' = [op EXCEPT ![o] = l] \/ Goto(o, Rollback(o))
    BY <1>8, <1>l DEF DestroyReplaced, Fail, Lose
  <2>3. Rollback(o) \in PC
    BY RollbackIs DEF PC
  <2>4. l \in Op
    BY <1>l DEF Op, PC
  <2> HIDE DEF l
  <2> QED BY <1>m, <1>v, <1>z, <2>1, <2>2, <2>3, <2>4
<1>10. ASSUME NEW o \in Ops, ReaddReference(o) PROVE TypeOK' /\ project'.provider = project.provider
  <2> DEFINE x == [n \in Names |-> IF n \in op[o].names THEN op[o].seen[n]
                                   ELSE project.secrets[n]]
  <2>1. PICK pc \in PC : Goto(o, pc)
    BY <1>10 DEF ReaddReference, Answer, Fail, Lose, PC
  <2>2. \/ /\ project' = [project EXCEPT !.secrets = x, !.variables = project.variables \ op[o].names]
           /\ UNCHANGED <<sandbox, vault, lock>>
        \/ UNCHANGED stores
    BY <1>0, <1>10 DEF ReaddReference, Fail, Project
  <2>3. x \in Secrets /\ \A n \in project.variables \ op[o].names : x[n] = None
    BY <1>0, <1>l DEF Stores, Secrets
  <2>4. project.variables \ op[o].names \in SUBSET Names
    BY <1>0
  <2> HIDE DEF x
  <2>5. Fine
    BY ONLY <1>n, <1>p, <2>2, <2>3, <2>4
  <2> QED BY <1>m, <2>1, <2>5
<1>11. ASSUME NEW o \in Ops, RestoreManifest(o) \/ DiscardCreated(o) \/ Release(o)
       PROVE  TypeOK' /\ project'.provider = project.provider
  <2>1. PICK pc \in PC : Goto(o, pc)
    <3>1. \E pc \in {"release", "over", AfterRestore(o)} : Goto(o, pc)
      BY <1>11 DEF RestoreManifest, DiscardCreated, Release, Answer, Fail
    <3> QED BY <3>1, RollbackIs DEF PC
  <2>2. CASE RestoreManifest(o)
    BY <1>l, <1>n, <1>b, <1>m, <2>1, <2>2 DEF RestoreManifest, Fail
  <2>3. CASE DiscardCreated(o)
    <3>1. PICK gone : vault' = vault \ gone /\ UNCHANGED <<project, sandbox, lock>>
      BY <2>3 DEF DiscardCreated
    <3> QED BY <1>v, <1>m, <2>1, <3>1
  <2>4. CASE Release(o)
    <3>1. (IF Owns(o) THEN [owner |-> None, live |-> FALSE] ELSE lock)
            \in [owner : Ops \cup {None}, live : BOOLEAN]
      BY <1>0
    <3> QED BY <1>n, <1>k, <1>m, <2>1, <2>4, <3>1 DEF Release, Fail
  <2> QED BY <1>11, <2>2, <2>3, <2>4
<1>12. ASSUME NEW o \in Ops, DaytonaStep(o) PROVE TypeOK' /\ project'.provider = project.provider
  <2>0. PICK pc \in PC : Goto(o, pc)
    BY <1>12 DEF DaytonaStep, StartDaytona, DropLegacySecrets, UpdateEnv, UpsertVariables,
       DeleteLegacySecrets, RestoreLegacySecrets, UnsetVariable, UpdateRemainingSecrets,
       DeleteSecret, RecordRemoval, Answer, Fail, Lose, PC
  <2> SUFFICES Fine
    BY <1>m, <2>0
  <2>1. CASE StartDaytona(o)
    BY <2>1, <1>n DEF StartDaytona, Fail
  <2>2. CASE DropLegacySecrets(o)
    BY <2>2, <1>n, <1>b, <1>l DEF DropLegacySecrets, Fail
  <2>3. CASE UpdateEnv(o)
    BY <2>3, <1>0, <1>n, <1>y, <1>l DEF UpdateEnv, Fail
  <2>4. CASE UpsertVariables(o)
    <3> DEFINE x == Without(project.secrets, op[o].names)
    <3>1. x \in Secrets /\ \A n \in project.variables \cup op[o].names : x[n] = None
      BY <1>0, <1>l, SecretsAre DEF Stores
    <3>2. \/ /\ project' = [project EXCEPT !.secrets = x,
                                           !.variables = project.variables \cup op[o].names]
             /\ UNCHANGED <<sandbox, vault, lock>>
          \/ UNCHANGED stores
      BY <1>0, <2>4 DEF UpsertVariables, Fail, Project
    <3>3. project.variables \cup op[o].names \in SUBSET Names
      BY <1>0, <1>l
    <3> HIDE DEF x
    <3> QED BY ONLY <1>n, <1>p, <3>1, <3>2, <3>3
  <2>5. CASE DeleteLegacySecrets(o) \/ DeleteSecret(o)
    <3>1. \/ UNCHANGED stores
          \/ \E gone : vault' = vault \ gone /\ UNCHANGED <<project, sandbox, lock>>
      BY <2>5 DEF DeleteLegacySecrets, DeleteSecret, Fail
    <3> QED BY <1>n, <1>v, <3>1
  <2>6. CASE RestoreLegacySecrets(o)
    BY <2>6, <1>n, <1>b, <1>l DEF RestoreLegacySecrets, Fail
  <2>7. CASE UnsetVariable(o)
    <3>1. sandbox.variables \ op[o].names \in SUBSET Names
      BY <1>0
    <3> QED BY <2>7, <3>1, <1>n, <1>y DEF UnsetVariable, Fail
  <2>8. CASE UpdateRemainingSecrets(o)
    BY <2>8, <1>n, <1>b, <1>l DEF UpdateRemainingSecrets, Fail
  <2>9. CASE RecordRemoval(o)
    <3> DEFINE x == Without(project.secrets, op[o].names)
    <3>1. x \in Secrets /\ \A n \in project.variables \ op[o].names : x[n] = None
      BY <1>0, <1>l, SecretsAre DEF Stores
    <3>2. \/ /\ project' = [project EXCEPT !.secrets = x,
                                           !.variables = project.variables \ op[o].names]
             /\ UNCHANGED <<sandbox, vault, lock>>
          \/ UNCHANGED stores
      BY <1>0, <2>9 DEF RecordRemoval, Fail, Project
    <3>3. project.variables \ op[o].names \in SUBSET Names
      BY <1>0
    <3> HIDE DEF x
    <3> QED BY ONLY <1>n, <1>p, <3>1, <3>2, <3>3
  <2> QED BY <1>12, <2>1, <2>2, <2>3, <2>4, <2>5, <2>6, <2>7, <2>8, <2>9 DEF DaytonaStep
<1>13. ASSUME NEW o \in Ops, Die(o) PROVE TypeOK' /\ project'.provider = project.provider
  BY <1>13, <1>n, <1>m DEF Die, Fail, PC
<1>14. CASE Lapse
  <2>1. lock' \in [owner : Ops \cup {None}, live : BOOLEAN] /\ UNCHANGED <<project, sandbox, vault, op>>
    BY <1>0, <1>14 DEF Lapse
  <2> QED BY <1>0, <1>k, <1>q, <2>1 DEF Fine
<1>15. CASE UNCHANGED vars
  BY <1>0, <1>n, <1>q, <1>15 DEF vars, stores, Fine
<1> QED BY <1>1, <1>2, <1>3, <1>4, <1>6, <1>7, <1>8, <1>10, <1>11, <1>12, <1>13, <1>14, <1>15
     DEF Next, E2BStep

-----------------------------------------------------------------------------
(* E2B: what a step of one operation leaves to the others. *)

E2BInv ==
  TypeOK /\ (~NoneDied => faults # 0) /\ project.provider = "e2b" /\ E2BOK

\* x is made of what o, or somebody before it, has put there.
From(o, x) ==
  \A n \in Names : \/ x[n] \in {None, o, project.secrets[n], sandbox.secrets[n]}
                   \/ op[o].pc \in Locked /\ x[n] = op[o].seen[n]

LEMMA LockedIs ==
  ASSUME EnvironmentAssumption, E2BInv, NEW o \in Ops, op[o].pc \in Locked
  PROVE  /\ \A p \in Ops : p # o => op[p].pc \notin Locked
         /\ lock = [owner |-> o, live |-> TRUE] /\ Owns(o) /\ MayCommit(o)
         /\ StageOK(o) /\ Good(project.secrets) /\ Good(sandbox.secrets)
         /\ From(o, project.secrets) /\ From(o, sandbox.secrets)
         /\ From(o, op[o].seen) /\ From(o, Wanted(o))
         /\ op \in [Ops -> Op] /\ op[o] \in Op
         /\ project \in Project /\ sandbox \in Sandbox /\ faults \in Nat
         /\ vault \in SUBSET (Names \X (Ops \cup {Original}))
<1>1. /\ project \in Project /\ sandbox \in Sandbox /\ op \in [Ops -> Op]
      /\ lock \in [owner : Ops \cup {None}, live : BOOLEAN]
      /\ vault \in SUBSET (Names \X (Ops \cup {Original})) /\ faults \in 0 .. MaxFaults
  BY TypeParts DEF E2BInv
<1>2. \A p \in Ops : StageOK(p)
  BY DEF E2BInv, E2BOK
<1>3. \A p \in Ops : op[p].pc \in Locked => lock.owner = p /\ lock.live
  BY <1>2 DEF StageOK
<1>4. /\ \A p \in Ops : p # o => op[p].pc \notin Locked
      /\ lock = [owner |-> o, live |-> TRUE] /\ Owns(o) /\ MayCommit(o)
  BY <1>1, <1>3 DEF Owns, MayCommit, OwnsActive
<1>5. /\ From(o, project.secrets) /\ From(o, sandbox.secrets) /\ From(o, op[o].seen)
  BY DEF From
<1>6. From(o, Wanted(o))
  BY <1>1, WantedIs DEF From
<1>7. faults \in Nat /\ op[o] \in Op
  BY <1>1 DEF EnvironmentAssumption
<1> QED BY <1>1, <1>2, <1>4, <1>5, <1>6, <1>7 DEF E2BInv, E2BOK

\* A step of the operation that has the lock, or takes it.
LEMMA E2BKeeps ==
  ASSUME EnvironmentAssumption, E2BInv, TypeOK', project'.provider = project.provider,
         NEW o \in Ops, \A p \in Ops : p # o => op[p].pc \notin Locked, op[o].pc # "dead",
         NEW l \in Op, op' = [op EXCEPT ![o] = l], l.pc \in Locked \cup {"over"},
         From(o, project'.secrets), From(o, sandbox'.secrets),
         l.pc \in Locked => From(o, l.seen),
         Good(project.secrets)', Good(sandbox.secrets)', StageOK(o)',
         sandbox'.secrets = project'.secrets \/ ~NoneDied \/ l.pc \in Apart,
         faults' \in {faults, faults + 1}
  PROVE  E2BInv'
<1>1. op \in [Ops -> Op] /\ project.provider = "e2b" /\ E2BOK /\ faults \in Nat
  BY TypeParts DEF E2BInv, EnvironmentAssumption
<1>2. op'[o] = l /\ \A d \in Ops : d # o => op'[d] = op[d]
  BY <1>1, OpSteps
<1>3. l.pc # "dead" /\ l.pc \notin {"idle", "acquire"}
  BY DEF Locked
<1>4. (NoneDied' <=> NoneDied) /\ (~NoneDied' => faults' # 0)
  <2>1. NoneDied' <=> NoneDied
    BY <1>1, <1>3, OpSteps
  <2>2. faults # 0 => faults' # 0
    BY <1>1
  <2>3. ~NoneDied => faults # 0
    BY DEF E2BInv
  <2> QED BY <2>1, <2>2, <2>3
<1>5. \A p \in Ops : op'[p].pc \in Locked => p = o
  BY <1>2
<1>6. \A p \in Ops : StageOK(p)'
  <2> SUFFICES ASSUME NEW p \in Ops, p # o PROVE StageOK(p)'
    OBVIOUS
  <2>1. op'[p].pc \notin Locked
    BY <1>5
  <2> QED BY <2>1 DEF StageOK, Locked, Apart, Undoing
<1>7. \A p \in Ops : op'[p].pc \in Locked \cup {"idle", "acquire", "over", "dead"}
  BY <1>1, <1>2 DEF E2BOK
<1>8. ASSUME NEW p \in Ops, op'[p].pc \in {"idle", "acquire"}
      PROVE  /\ ~op'[p].written /\ ~op'[p].committed
             /\ NotBy(p, project.secrets)' /\ NotBy(p, sandbox.secrets)'
             /\ \A q \in Ops : op'[q].pc \in Locked => NotBy(p, op[q].seen)'
  <2>1. p # o /\ op'[p] = op[p]
    BY <1>2, <1>3, <1>8
  <2>2. /\ ~op[p].written /\ ~op[p].committed
        /\ NotBy(p, project.secrets) /\ NotBy(p, sandbox.secrets)
        /\ op[o].pc \in Locked => NotBy(p, op[o].seen)
    BY <1>1, <1>8, <2>1 DEF E2BOK
  <2>3. \A n \in Names : project'.secrets[n] # p
    BY <2>1, <2>2 DEF From, NotBy, EnvironmentAssumption
  <2>4. \A n \in Names : sandbox'.secrets[n] # p
    BY <2>1, <2>2 DEF From, NotBy, EnvironmentAssumption
  <2>5. l.pc \in Locked => \A n \in Names : l.seen[n] # p
    BY <2>1, <2>2 DEF From, NotBy, EnvironmentAssumption
  <2> QED BY <1>2, <1>5, <2>1, <2>2, <2>3, <2>4, <2>5 DEF NotBy
<1>9. \/ sandbox'.secrets = project'.secrets
      \/ ~NoneDied'
      \/ \E p \in Ops : op'[p].pc \in Apart
  BY <1>2, <1>4
<1> QED BY <1>1, <1>4, <1>6, <1>7, <1>8, <1>9 DEF E2BInv, E2BOK

\* What an operation knows does not change by a step of another one that
\* leaves the documents alone.
LEMMA StageStays ==
  ASSUME NEW p \in Ops, op'[p] = op[p], UNCHANGED <<project, sandbox, vault, lock>>, StageOK(p),
         op[p].pc \in Undoing => faults' = 1 /\ NoneDied'
  PROVE  StageOK(p)'
<1>1. Wanted(p)' = Wanted(p)
  BY DEF Wanted
<1> QED BY <1>1 DEF StageOK, Good, NotBy

\* A step of an operation that does not have the lock, or its death.
LEMMA E2BQuiet ==
  ASSUME EnvironmentAssumption, Sound', E2BInv, TypeOK',
         UNCHANGED <<project, sandbox, vault, lock>>, faults' \in {faults, faults + 1},
         NEW o \in Ops, op[o].pc # "dead", NEW l \in Op, op' = [op EXCEPT ![o] = l],
         \/ /\ op[o].pc = "idle" /\ l.pc = "acquire" /\ ~l.written /\ ~l.committed
            /\ faults' = faults
         \/ op[o].pc \notin Locked /\ l.pc = "over"
         \/ l.pc = "dead" /\ faults' = faults + 1
  PROVE  E2BInv'
<1>1. /\ op \in [Ops -> Op] /\ project.provider = "e2b" /\ E2BOK
      /\ faults \in Nat /\ faults' <= 1
  BY TypeParts DEF E2BInv, EnvironmentAssumption, Sound
<1>2. op'[o] = l /\ \A d \in Ops : d # o => op'[d] = op[d]
  BY <1>1, OpSteps
<1>3. l.pc # "dead" => (NoneDied' <=> NoneDied)
  BY <1>1, OpSteps
<1>4. /\ l.pc = "dead" => ~NoneDied' /\ faults = 0 /\ faults' = 1
      /\ ~NoneDied' => faults' # 0
  <2>1. l.pc = "dead" => ~NoneDied'
    BY <1>1, OpSteps
  <2>2. l.pc = "dead" => faults = 0 /\ faults' = 1
    BY <1>1
  <2>3. faults # 0 => faults' # 0
    BY <1>1
  <2>4. ~NoneDied => faults # 0
    BY DEF E2BInv
  <2> QED BY <1>3, <2>1, <2>2, <2>3, <2>4
<1>5. l.pc \notin Locked /\ \A p \in Ops : op'[p].pc \in Locked => op'[p] = op[p] /\ p # o
  BY <1>2 DEF Locked
<1>6. \A p \in Ops : StageOK(p)'
  <2> SUFFICES ASSUME NEW p \in Ops PROVE StageOK(p)'
    OBVIOUS
  <2>1. CASE p = o
    BY <1>2, <1>5, <2>1 DEF StageOK, Locked, Apart, Undoing
  <2>2. CASE p # o
    <3>1. StageOK(p) /\ op'[p] = op[p]
      BY <1>1, <1>2, <2>2 DEF E2BOK
    <3>2. op[p].pc \in Undoing => faults = 1 /\ NoneDied
      BY <3>1 DEF StageOK
    <3>3. op[p].pc \in Undoing => faults' = 1 /\ NoneDied'
      BY <1>1, <1>3, <1>4, <3>2
    <3> QED BY <3>1, <3>3, StageStays
  <2> QED BY <2>1, <2>2
<1>7. \A p \in Ops : op'[p].pc \in Locked \cup {"idle", "acquire", "over", "dead"}
  BY <1>1, <1>2 DEF E2BOK
<1>8. ASSUME NEW p \in Ops, op'[p].pc \in {"idle", "acquire"}
      PROVE  /\ ~op'[p].written /\ ~op'[p].committed
             /\ NotBy(p, project.secrets)' /\ NotBy(p, sandbox.secrets)'
             /\ \A q \in Ops : op'[q].pc \in Locked => NotBy(p, op[q].seen)'
  <2>1. op[p].pc \in {"idle", "acquire"} /\ ~op'[p].written /\ ~op'[p].committed
    BY <1>1, <1>2, <1>8 DEF E2BOK
  <2>2. /\ NotBy(p, project.secrets) /\ NotBy(p, sandbox.secrets)
        /\ \A q \in Ops : op[q].pc \in Locked => NotBy(p, op[q].seen)
    BY <1>1, <2>1 DEF E2BOK
  <2> QED BY <1>5, <2>1, <2>2 DEF NotBy
<1>9. \/ sandbox'.secrets = project'.secrets
      \/ ~NoneDied'
      \/ \E p \in Ops : op'[p].pc \in Apart
  <2>1. CASE l.pc = "dead"
    BY <1>4, <2>1
  <2>2. CASE l.pc # "dead"
    <3>1. op[o].pc \notin Apart
      BY <2>2 DEF Locked, Apart
    <3> QED BY <1>1, <1>2, <1>3, <2>2, <3>1 DEF E2BOK
  <2> QED BY <2>1, <2>2
<1>10. Good(project.secrets)' /\ Good(sandbox.secrets)'
  BY <1>1 DEF Good, E2BOK
<1> QED BY <1>1, <1>4, <1>6, <1>7, <1>8, <1>9, <1>10 DEF E2BInv, E2BOK

-----------------------------------------------------------------------------
(* E2B: the steps. *)

\* What the operation knows of itself when only its record has moved on.
LEMMA SelfIs ==
  ASSUME op \in [Ops -> Op], NEW o \in Ops, NEW l \in Op, op' = [op EXCEPT ![o] = l],
         op[o].pc # "dead", l.pc # "dead",
         l.seen = op[o].seen, l.names = op[o].names, l.import = op[o].import
  PROVE  op'[o] = l /\ Wanted(o)' = Wanted(o) /\ (NoneDied' <=> NoneDied)
<1>1. op'[o] = l /\ (NoneDied' <=> NoneDied)
  BY OpSteps
<1> QED BY <1>1 DEF Wanted

\* A step that moves the operation on and may give the lock back.
LEMMA E2BMoves ==
  ASSUME EnvironmentAssumption, E2BInv, TypeOK', NEW o \in Ops, op[o].pc \in Locked,
         NEW pc \in Locked \cup {"over"}, Goto(o, pc), UNCHANGED <<project, sandbox, vault>>,
         lock' = lock \/ pc = "over", faults' \in {faults, faults + 1},
         op[o].pc \in Apart => pc \in Apart \/ sandbox.secrets = project.secrets,
         \* what the operation knows where it goes
         pc \in {"create", "start", "check", "upload", "recheck", "commit", "restore", "discard"}
           => op[o].seen = project.secrets,
         pc \in {"create", "start", "check", "upload"} => ~op[o].written,
         pc \in {"create", "start", "check", "upload", "discard"} => NotBy(o, sandbox.secrets),
         pc \in {"create", "start", "check", "upload", "recheck", "commit", "discard"}
           => ~op[o].committed,
         pc = "restore" /\ op[o].import => ~op[o].committed,
         pc \in {"recheck", "commit", "destroy"}
           => op[o].written /\ sandbox.secrets = Wanted(o),
         pc \in {"start", "check", "upload", "recheck", "commit", "destroy"} /\ op[o].import
           => op[o].names \X {o} \subseteq vault,
         pc = "destroy" => op[o].committed /\ project.secrets = Wanted(o),
         pc \in Apart => Good(op[o].seen),
         pc \in {"restart", "renew"}
           => IF op[o].committed THEN ~op[o].import /\ project.secrets = Wanted(o)
              ELSE op[o].seen = project.secrets,
         pc = "readd" => ~op[o].import /\ project.secrets = Wanted(o),
         pc \in {"create", "discard"} => op[o].import,
         pc \in Undoing => faults' = 1 /\ NoneDied,
         pc = "release" /\ op[o].committed => sandbox.secrets = project.secrets
  PROVE  E2BInv'
<1>1. /\ \A p \in Ops : p # o => op[p].pc \notin Locked
      /\ lock = [owner |-> o, live |-> TRUE] /\ StageOK(o)
      /\ Good(project.secrets) /\ Good(sandbox.secrets)
      /\ From(o, project.secrets) /\ From(o, sandbox.secrets) /\ From(o, op[o].seen)
      /\ op \in [Ops -> Op]
  BY LockedIs
<1>2. pc \in PC /\ pc # "dead" /\ op[o].pc # "dead" /\ op[o].pc \in PC
  BY DEF Locked, PC
<1>3. PICK l \in Op :
        /\ op' = [op EXCEPT ![o] = l]
        /\ l.pc = pc /\ l.names = op[o].names /\ l.import = op[o].import
        /\ l.seen = op[o].seen /\ l.created = op[o].created
        /\ l.written = op[o].written /\ l.committed = op[o].committed
  BY <1>1, <1>2, GotoIs
<1>4. op'[o] = l /\ Wanted(o)' = Wanted(o) /\ (NoneDied' <=> NoneDied)
  BY <1>1, <1>2, <1>3, SelfIs
<1>5. NotBy(o, op[o].seen)
  BY <1>1 DEF StageOK
<1>6. StageOK(o)'
  <2>1. CASE pc = "over"
    BY <1>3, <1>4, <2>1 DEF StageOK, Locked, Apart, Undoing
  <2>2. CASE pc # "over"
    <3>1. lock'.owner = o /\ lock'.live
      BY <1>1, <2>2
    <3> QED BY <1>3, <1>4, <1>5, <3>1 DEF StageOK, Good, NotBy
  <2> QED BY <2>1, <2>2
<1>7. Good(project.secrets)' /\ Good(sandbox.secrets)'
  BY <1>1 DEF Good
<1>8. From(o, project'.secrets) /\ From(o, sandbox'.secrets) /\ From(o, l.seen)
  BY <1>1, <1>3
<1>9. sandbox'.secrets = project'.secrets \/ ~NoneDied \/ l.pc \in Apart
  <2>1. \/ sandbox.secrets = project.secrets
        \/ ~NoneDied
        \/ \E p \in Ops : op[p].pc \in Apart
    BY DEF E2BInv, E2BOK
  <2>2. \A p \in Ops : op[p].pc \in Apart => p = o
    BY <1>1 DEF Apart, Locked
  <2> QED BY <1>3, <2>1, <2>2
<1> QED BY <1>1, <1>2, <1>3, <1>6, <1>7, <1>8, <1>9, E2BKeeps

\* The first call that fails finds nobody dead.
LEMMA E2BFails ==
  ASSUME EnvironmentAssumption, Sound', E2BInv, NEW o \in Ops, faults' = faults + 1
  PROVE  /\ faults = 0 /\ faults' = 1 /\ NoneDied
         /\ op[o].pc \notin Undoing
<1>1. faults = 0 /\ faults' = 1
  BY TypeParts DEF E2BInv, EnvironmentAssumption, Sound
<1>2. NoneDied
  BY <1>1 DEF E2BInv
<1>3. op[o].pc \in Undoing => faults = 1
  BY DEF E2BInv, E2BOK, StageOK
<1> QED BY <1>1, <1>2, <1>3

LEMMA E2BAcquires ==
  ASSUME EnvironmentAssumption, Sound', E2BInv, TypeOK', NEW o \in Ops, Acquire(o)
  PROVE  E2BInv'
<1>1. /\ op \in [Ops -> Op] /\ op[o] \in Op /\ E2BOK /\ project \in Project
      /\ project.secrets \in Secrets /\ faults \in Nat
  BY TypeParts DEF E2BInv, Project, EnvironmentAssumption
<1>2. op[o].pc = "acquire" /\ op[o].pc \notin Locked /\ op[o].pc # "dead"
  BY DEF Acquire, At, Locked
<1>3. UNCHANGED <<project, sandbox, vault>> /\ faults' \in {faults, faults + 1}
  BY <1>1 DEF Acquire, Answer, Lose, Fail, stores
\* it is refused, fails, or gets the lock and does not hear of it
<1>o. ASSUME Goto(o, "over")
      PROVE  \E l \in Op : op' = [op EXCEPT ![o] = l] /\ l.pc = "over"
  <2>1. "over" \in PC
    BY DEF PC
  <2> QED BY <1>1, <1>o, <2>1, GotoIs
<1>4. CASE Goto(o, "over") /\ UNCHANGED lock
  BY <1>1, <1>2, <1>3, <1>4, <1>o, E2BQuiet
<1>a. ASSUME MayAcquire(o)
      PROVE  /\ \A p \in Ops : p # o => op[p].pc \notin Locked
             /\ ~op[o].written /\ ~op[o].committed
             /\ NotBy(o, project.secrets) /\ NotBy(o, sandbox.secrets)
             /\ From(o, project'.secrets) /\ From(o, sandbox'.secrets)
             /\ Good(project.secrets)' /\ Good(sandbox.secrets)'
             /\ sandbox'.secrets = project'.secrets \/ ~NoneDied
  <2>1. \A p \in Ops : p # o => op[p].pc \notin Locked
    <3>1. \A p \in Ops : op[p].pc \in Locked => lock.owner = p /\ lock.live
      BY <1>1 DEF E2BOK, StageOK
    <3> QED BY <1>a, <3>1 DEF MayAcquire, EnvironmentAssumption
  <2>2. /\ ~op[o].written /\ ~op[o].committed
        /\ NotBy(o, project.secrets) /\ NotBy(o, sandbox.secrets)
        /\ Good(project.secrets) /\ Good(sandbox.secrets)
    BY <1>1, <1>2 DEF E2BOK
  <2>3. From(o, project'.secrets) /\ From(o, sandbox'.secrets)
    BY <1>3 DEF From
  <2>4. Good(project.secrets)' /\ Good(sandbox.secrets)'
    BY <1>3, <2>2 DEF Good
  <2>5. sandbox'.secrets = project'.secrets \/ ~NoneDied
    <3>1. \A p \in Ops : op[p].pc \notin Apart
      BY <1>2, <2>1 DEF Locked, Apart
    <3> QED BY <1>1, <1>3, <3>1 DEF E2BOK
  <2> QED BY <2>1, <2>2, <2>3, <2>4, <2>5
<1>5. CASE MayAcquire(o) /\ Renew(o) /\ Goto(o, "over")
  <2>1. PICK l \in Op : op' = [op EXCEPT ![o] = l] /\ l.pc = "over"
    BY <1>5, <1>o
  <2>2. op'[o] = l
    BY <1>1, <2>1
  <2>3. StageOK(o)' /\ l.pc \notin Locked
    BY <2>1, <2>2 DEF StageOK, Locked, Apart, Undoing
  <2> QED BY <1>1, <1>2, <1>3, <1>5, <1>a, <2>1, <2>3, E2BKeeps
<1>6. CASE /\ MayAcquire(o) /\ Renew(o) /\ faults' = faults
           /\ LET nothing == SecretsOf(project.secrets, op[o].names) = {}
                             /\ op[o].names \cap project.variables = {}
              IN  op' = [op EXCEPT ![o].seen = project.secrets,
                                   ![o].pc = IF op[o].import THEN "create"
                                             ELSE IF nothing THEN "release" ELSE "start"]
  <2> DEFINE pc == IF op[o].import THEN "create"
                   ELSE IF SecretsOf(project.secrets, op[o].names) = {}
                           /\ op[o].names \cap project.variables = {}
                   THEN "release" ELSE "start"
             l == [op[o] EXCEPT !.seen = project.secrets, !.pc = pc]
  <2>1. pc \in {"create", "start", "release"} /\ (pc = "create" <=> op[o].import)
    BY <1>1
  <2>2. op' = [op EXCEPT ![o] = l]
    BY <1>1, <1>6
  <2> HIDE DEF pc
  <2>3. /\ l \in Op /\ l.pc = pc /\ l.seen = project.secrets /\ l.import = op[o].import
        /\ l.written = op[o].written /\ l.committed = op[o].committed
    BY <1>1, <2>1 DEF Op, PC
  <2>4. op'[o] = l
    BY <1>1, <2>2
  <2> HIDE DEF l
  <2>7. lock'.owner = o /\ lock'.live
    BY <1>6 DEF Renew
  <2>8. StageOK(o)'
    BY <1>3, <1>6, <1>a, <2>1, <2>3, <2>4, <2>7 DEF StageOK, Locked, Apart, Undoing, NotBy
  <2>9. From(o, l.seen)
    BY <2>3 DEF From
  <2>12. l.pc \in Locked
    BY <2>1, <2>3 DEF Locked
  <2> QED BY <1>1, <1>2, <1>3, <1>6, <1>a, <2>2, <2>3, <2>8, <2>9, <2>12, E2BKeeps
<1> QED BY <1>4, <1>5, <1>6 DEF Acquire, Answer, Lose, Fail, stores

LEMMA E2BSteps ==
  ASSUME EnvironmentAssumption, Sound', E2BInv, TypeOK',
         project'.provider = project.provider, NEW o \in Ops, E2BStep(o)
  PROVE  E2BInv'
<1>k. ASSUME op[o].pc \in Locked
      PROVE  /\ \A p \in Ops : p # o => op[p].pc \notin Locked
             /\ lock = [owner |-> o, live |-> TRUE] /\ Owns(o) /\ MayCommit(o)
             /\ StageOK(o) /\ Good(project.secrets) /\ Good(sandbox.secrets)
             /\ From(o, project.secrets) /\ From(o, sandbox.secrets)
             /\ From(o, op[o].seen) /\ From(o, Wanted(o))
             /\ op \in [Ops -> Op] /\ op[o] \in Op
             /\ project \in Project /\ sandbox \in Sandbox /\ faults \in Nat
             /\ vault \in SUBSET (Names \X (Ops \cup {Original}))
  BY <1>k, LockedIs
<1>w. op \in [Ops -> Op] /\ Wanted(o) \in Secrets
      /\ \A n \in Names : Wanted(o)[n] = IF n \in op[o].names
                                         THEN IF op[o].import THEN o ELSE None
                                         ELSE op[o].seen[n]
  BY TypeParts, WantedIs DEF E2BInv
\* an owner that renews its lock has the lock it had
<1>r. ASSUME op[o].pc \in Locked, Renew(o) PROVE lock' = lock
  BY <1>k, <1>r DEF Renew
\* the first call that fails, and what has not happened
<1>f. ASSUME faults' = faults + 1
      PROVE  faults = 0 /\ faults' = 1 /\ NoneDied /\ op[o].pc \notin Undoing
  BY <1>f, E2BFails
<1>j. ASSUME NEW pc, Lose(o, pc) PROVE ~Misjudges(o)
  BY <1>j DEF Lose, Sound
<1>1. CASE Acquire(o)
  BY <1>1, E2BAcquires
<1>2. CASE CreateSecrets(o)
  <2>0. op[o].pc = "create" /\ op[o].pc \in Locked /\ op[o].pc # "dead"
    BY <1>2 DEF CreateSecrets, At, Locked
  <2>1. PICK made \in SUBSET op[o].names, told \in SUBSET op[o].names :
          /\ told \subseteq made
          /\ faults' = faults + (IF told = op[o].names THEN 0 ELSE 1)
          /\ vault' = vault \cup (made \X {o})
          /\ op' = [op EXCEPT ![o].created = told,
                              ![o].pc = IF told = op[o].names THEN "start" ELSE "discard"]
    BY <1>2 DEF CreateSecrets, Together
  <2>2. UNCHANGED <<project, sandbox, lock>>
    BY <1>2 DEF CreateSecrets
  <2> DEFINE pc == IF told = op[o].names THEN "start" ELSE "discard"
             l == [op[o] EXCEPT !.created = told, !.pc = pc]
  <2>15. pc \in PC
    BY DEF PC
  <2>16. op' = [op EXCEPT ![o] = l]
    BY <1>w, <2>1
  <2>17. pc = IF told = op[o].names THEN "start" ELSE "discard"
    OBVIOUS
  <2>18. op[o] \in Op /\ told \in SUBSET Names
    BY <1>w DEF Op
  <2> HIDE DEF pc
  <2>3. op' = [op EXCEPT ![o] = l] /\ l \in Op
    BY <2>15, <2>16, <2>18 DEF Op
  <2>4. /\ l.pc = IF told = op[o].names THEN "start" ELSE "discard"
        /\ l.names = op[o].names /\ l.import = op[o].import /\ l.seen = op[o].seen
        /\ l.written = op[o].written /\ l.committed = op[o].committed
    BY <2>17, <2>18 DEF Op
  <2> HIDE DEF l
  <2>5. l.pc # "dead" /\ l.pc \in Locked
    BY <2>4 DEF Locked
  <2>6. op'[o] = l /\ Wanted(o)' = Wanted(o) /\ (NoneDied' <=> NoneDied)
    BY <1>w, <2>0, <2>3, <2>4, <2>5, SelfIs
  <2>7. /\ op[o].seen = project.secrets /\ ~op[o].written /\ ~op[o].committed
        /\ NotBy(o, sandbox.secrets) /\ NotBy(o, op[o].seen) /\ op[o].import
    BY <1>k, <2>0 DEF StageOK
  <2>8. told # op[o].names => faults' = 1 /\ faults = 0 /\ NoneDied
    BY <1>f, <2>1
  <2>9. told = op[o].names => op[o].names \X {o} \subseteq vault'
    BY <2>1
  <2>10. StageOK(o)'
    <3>1. lock'.owner = o /\ lock'.live
      BY <1>k, <2>0, <2>2
    <3>2. NotBy(o, sandbox.secrets)' /\ NotBy(o, op[o].seen)'
      BY <2>2, <2>4, <2>6, <2>7 DEF NotBy
    <3>3. CASE told = op[o].names
      BY <2>2, <2>4, <2>6, <2>7, <2>9, <3>1, <3>2, <3>3 DEF StageOK, Apart, Undoing
    <3>4. CASE told # op[o].names
      BY <2>2, <2>4, <2>6, <2>7, <2>8, <3>1, <3>2, <3>4 DEF StageOK, Apart, Undoing
    <3> QED BY <3>3, <3>4
  <2>11. Good(project.secrets)' /\ Good(sandbox.secrets)'
    BY <1>k, <2>0, <2>1, <2>2 DEF Good
  <2>12. sandbox'.secrets = project'.secrets \/ ~NoneDied \/ l.pc \in Apart
    <3>1. \A p \in Ops : op[p].pc \notin Apart
      BY <1>k, <2>0 DEF Locked, Apart
    <3> QED BY <2>2, <3>1 DEF E2BInv, E2BOK
  <2>13. faults' \in {faults, faults + 1}
    BY <1>k, <2>0, <2>1
  <2>14. From(o, project'.secrets) /\ From(o, sandbox'.secrets) /\ From(o, l.seen)
    BY <1>k, <2>0, <2>2, <2>4
  <2> QED BY <1>k, <2>0, <2>3, <2>5, <2>10, <2>11, <2>12, <2>13, <2>14, E2BKeeps
<1>3. CASE EnsureStarted(o)
  <2>0. op[o].pc = "start" /\ op[o].pc \in Locked
    BY <1>3 DEF EnsureStarted, At, Locked
  <2>1. /\ op[o].seen = project.secrets /\ ~op[o].written /\ ~op[o].committed
        /\ NotBy(o, sandbox.secrets)
        /\ op[o].import => op[o].names \X {o} \subseteq vault
    BY <1>k, <2>0 DEF StageOK
  <2>2. CASE Answer(o, "check") /\ UNCHANGED stores
    BY <2>0, <2>1, <2>2, E2BMoves DEF Answer, stores, Locked, Apart, Undoing
  <2>3. CASE Fail(o, Rollback(o))
    <3>1. Rollback(o) = IF op[o].import THEN "discard" ELSE "release"
      BY <2>1, RollbackIs
    <3>2. Rollback(o) \in PC /\ Rollback(o) \in Locked
      BY <3>1 DEF PC, Locked
    <3>3. /\ Goto(o, Rollback(o)) /\ UNCHANGED <<project, sandbox, vault, lock>>
          /\ faults = 0 /\ faults' = 1 /\ NoneDied
      BY <1>f, <2>3 DEF Fail, stores
    <3> QED BY <2>0, <2>1, <3>1, <3>2, <3>3, E2BMoves DEF Locked, Apart, Undoing
  <2> QED BY <1>3, <2>2, <2>3 DEF EnsureStarted
<1>4. CASE Require(o)
  <2>0. op[o].pc \in {"check", "recheck"} /\ op[o].pc \in Locked
    BY <1>4 DEF Require, Locked
  <2>1. /\ UNCHANGED <<project, sandbox, vault>> /\ lock' = lock
        /\ \/ /\ Goto(o, IF At(o, "check") THEN "upload" ELSE "commit") /\ faults' = faults
           \/ Goto(o, Rollback(o)) /\ faults' = faults + 1
    BY <1>4, <1>k, <1>r, <2>0 DEF Require, Answer, Lose, Fail, stores
  <2>2. Rollback(o) \in Locked /\ Rollback(o) \in PC
    BY RollbackIs DEF Locked, PC
  <2>3. CASE op[o].pc = "check"
    <3>1. Goto(o, "upload") \/ (Goto(o, Rollback(o)) /\ faults' = faults + 1)
      BY <2>1, <2>3 DEF At
    <3>2. /\ op[o].seen = project.secrets /\ ~op[o].written /\ ~op[o].committed
          /\ NotBy(o, sandbox.secrets)
          /\ op[o].import => op[o].names \X {o} \subseteq vault
      BY <1>k, <2>0, <2>3 DEF StageOK
    <3>3. CASE Goto(o, "upload")
      BY <2>0, <2>1, <2>3, <3>2, <3>3, E2BMoves DEF Locked, Apart, Undoing
    <3>4. CASE Goto(o, Rollback(o)) /\ faults' = faults + 1
      <4>1. Rollback(o) = IF op[o].import THEN "discard" ELSE "release"
        BY <3>2, RollbackIs
      <4> QED BY <1>f, <2>0, <2>1, <2>2, <2>3, <3>2, <3>4, <4>1, E2BMoves DEF Locked, Apart, Undoing
    <3> QED BY <3>1, <3>3, <3>4
  <2>4. CASE op[o].pc = "recheck"
    <3>1. Goto(o, "commit") \/ (Goto(o, Rollback(o)) /\ faults' = faults + 1)
      BY <2>1, <2>4 DEF At
    <3>2. /\ op[o].seen = project.secrets /\ op[o].written /\ ~op[o].committed
          /\ sandbox.secrets = Wanted(o) /\ Good(op[o].seen)
          /\ op[o].import => op[o].names \X {o} \subseteq vault
      BY <1>k, <2>0, <2>4 DEF StageOK, Apart
    <3>3. CASE Goto(o, "commit")
      BY <2>0, <2>1, <2>4, <3>2, <3>3, E2BMoves DEF Locked, Apart, Undoing
    <3>4. CASE Goto(o, Rollback(o)) /\ faults' = faults + 1
      <4>1. Rollback(o) = "restart"
        BY <3>2, RollbackIs
      <4> QED BY <1>f, <2>0, <2>1, <2>2, <2>4, <3>2, <3>4, <4>1, E2BMoves DEF Locked, Apart, Undoing
    <3> QED BY <3>1, <3>3, <3>4
  <2> QED BY <2>0, <2>3, <2>4
<1>5. CASE UploadManifest(o)
  <2>0. op[o].pc = "upload" /\ op[o].pc \in Locked /\ op[o].pc # "dead"
    BY <1>5 DEF UploadManifest, At, Locked
  <2>1. /\ op[o].seen = project.secrets /\ ~op[o].written /\ ~op[o].committed
        /\ NotBy(o, sandbox.secrets) /\ NotBy(o, op[o].seen)
        /\ op[o].import => op[o].names \X {o} \subseteq vault
    BY <1>k, <2>0 DEF StageOK
  <2>2. CASE /\ sandbox' = [sandbox EXCEPT !.secrets = Wanted(o)]
             /\ op' = [op EXCEPT ![o].pc = "recheck", ![o].written = TRUE]
             /\ UNCHANGED <<project, vault, lock, faults, slips>>
    <3> DEFINE l == [op[o] EXCEPT !.pc = "recheck", !.written = TRUE]
    <3>0. op[o] \in Op
      BY <1>w
    <3>10. op' = [op EXCEPT ![o] = l]
      BY <1>w, <2>2
    <3>11. l \in Op
      BY <3>0 DEF Op, PC
    <3>1. op' = [op EXCEPT ![o] = l] /\ l \in Op
      BY <3>10, <3>11
    <3>2. /\ l.pc = "recheck" /\ l.names = op[o].names /\ l.import = op[o].import
          /\ l.seen = op[o].seen /\ l.written /\ l.committed = op[o].committed
      BY <1>w DEF Op
    <3> HIDE DEF l
    <3>3. op'[o] = l /\ Wanted(o)' = Wanted(o) /\ (NoneDied' <=> NoneDied)
      BY <1>w, <2>0, <3>1, <3>2, SelfIs
    <3>4. sandbox'.secrets = Wanted(o)
      BY <1>k, <2>0, <2>2 DEF Sandbox
    <3>5. Good(Wanted(o))
      BY <1>k, <1>w, <2>0, <2>1 DEF Good
    <3>6. StageOK(o)'
      <4>1. lock'.owner = o /\ lock'.live
        BY <1>k, <2>0, <2>2
      <4>2. NotBy(o, op[o].seen)' /\ Good(op[o].seen)'
        BY <1>k, <2>0, <2>1, <2>2, <3>2, <3>3 DEF NotBy, Good
      <4> QED BY <2>1, <2>2, <3>2, <3>3, <3>4, <4>1, <4>2 DEF StageOK, Undoing
    <3>7. Good(project.secrets)' /\ Good(sandbox.secrets)'
      BY <1>k, <2>0, <2>2, <3>4, <3>5 DEF Good
    <3>8. From(o, project'.secrets) /\ From(o, sandbox'.secrets) /\ From(o, l.seen)
      BY <1>k, <2>0, <2>2, <3>2, <3>4
    <3>9. l.pc \in Locked /\ l.pc \in Apart
      BY <3>2 DEF Locked, Apart
    <3> QED BY <1>k, <2>0, <2>2, <3>1, <3>6, <3>7, <3>8, <3>9, E2BKeeps
  <2>3. CASE Fail(o, Rollback(o))
    <3>1. Rollback(o) = IF op[o].import THEN "discard" ELSE "release"
      BY <2>1, RollbackIs
    <3>2. Rollback(o) \in PC /\ Rollback(o) \in Locked
      BY <3>1 DEF PC, Locked
    <3>3. /\ Goto(o, Rollback(o)) /\ UNCHANGED <<project, sandbox, vault, lock>>
          /\ faults = 0 /\ faults' = 1 /\ NoneDied
      BY <1>f, <2>3 DEF Fail, stores
    <3> QED BY <2>0, <2>1, <3>1, <3>2, <3>3, E2BMoves DEF Locked, Apart, Undoing
  <2> QED BY <1>5, <1>j, <2>0, <2>2, <2>3 DEF UploadManifest, Misjudges
<1>6. CASE Commit(o)
  <2>0. op[o].pc = "commit" /\ op[o].pc \in Locked /\ op[o].pc # "dead"
    BY <1>6 DEF Commit, At, Locked
  <2>1. /\ op[o].seen = project.secrets /\ op[o].written /\ ~op[o].committed
        /\ sandbox.secrets = Wanted(o) /\ NotBy(o, op[o].seen) /\ Good(op[o].seen)
        /\ op[o].import => op[o].names \X {o} \subseteq vault
    BY <1>k, <2>0 DEF StageOK, Apart
  <2>2. CASE /\ project' = [project EXCEPT
                         !.secrets = IF op[o].import THEN With(@, op[o].names, o)
                                     ELSE Without(@, op[o].names),
                         !.variables = @ \ op[o].names]
             /\ op' = [op EXCEPT ![o].pc = "destroy", ![o].committed = TRUE]
             /\ UNCHANGED <<sandbox, vault, lock, faults, slips>>
    <3> DEFINE l == [op[o] EXCEPT !.pc = "destroy", !.committed = TRUE]
    <3>0. op[o] \in Op
      BY <1>w
    <3>10. op' = [op EXCEPT ![o] = l]
      BY <1>w, <2>2
    <3>11. l \in Op
      BY <3>0 DEF Op, PC
    <3>1. op' = [op EXCEPT ![o] = l] /\ l \in Op
      BY <3>10, <3>11
    <3>2. /\ l.pc = "destroy" /\ l.names = op[o].names /\ l.import = op[o].import
          /\ l.seen = op[o].seen /\ l.written = op[o].written /\ l.committed
      BY <1>w DEF Op
    <3> HIDE DEF l
    <3>3. op'[o] = l /\ Wanted(o)' = Wanted(o) /\ (NoneDied' <=> NoneDied)
      BY <1>w, <2>0, <3>1, <3>2, SelfIs
    <3>4. project'.secrets = Wanted(o)
      BY <1>k, <2>0, <2>1, <2>2 DEF Project, Wanted
    <3>5. Good(Wanted(o))
      BY <1>k, <2>0, <2>1
    <3>6. StageOK(o)'
      <4>1. lock'.owner = o /\ lock'.live
        BY <1>k, <2>0, <2>2
      <4>2. NotBy(o, op[o].seen)' /\ Good(op[o].seen)'
        BY <1>k, <2>0, <2>1, <2>2, <3>2, <3>3 DEF NotBy, Good
      <4> QED BY <2>1, <2>2, <3>2, <3>3, <3>4, <4>1, <4>2 DEF StageOK, Undoing
    <3>7. Good(project.secrets)' /\ Good(sandbox.secrets)'
      BY <1>k, <2>0, <2>2, <3>4, <3>5 DEF Good
    <3>8. From(o, project'.secrets) /\ From(o, sandbox'.secrets) /\ From(o, l.seen)
      BY <1>k, <2>0, <2>2, <3>2, <3>4
    <3>9. l.pc \in Locked /\ l.pc \in Apart
      BY <3>2 DEF Locked, Apart
    <3> QED BY <1>k, <2>0, <2>2, <3>1, <3>6, <3>7, <3>8, <3>9, E2BKeeps
  <2>3. CASE Fail(o, Rollback(o))
    <3>1. Rollback(o) = "restart"
      BY <2>1, RollbackIs
    <3>2. Rollback(o) \in PC /\ Rollback(o) \in Locked
      BY <3>1 DEF PC, Locked
    <3>3. /\ Goto(o, Rollback(o)) /\ UNCHANGED <<project, sandbox, vault, lock>>
          /\ faults = 0 /\ faults' = 1 /\ NoneDied
      BY <1>f, <2>3 DEF Fail, stores
    <3> QED BY <2>0, <2>1, <3>1, <3>2, <3>3, E2BMoves DEF Locked, Apart, Undoing
  <2> QED BY <1>6, <1>j, <1>k, <2>0, <2>2, <2>3 DEF Commit, Misjudges
<1>7. CASE DestroyReplaced(o)
  <2>0. op[o].pc = "destroy" /\ op[o].pc \in Locked /\ op[o].pc # "dead"
    BY <1>7 DEF DestroyReplaced, At, Locked
  <2>1. /\ op[o].written /\ op[o].committed
        /\ sandbox.secrets = Wanted(o) /\ project.secrets = Wanted(o)
        /\ NotBy(o, op[o].seen) /\ Good(op[o].seen)
        /\ op[o].import => op[o].names \X {o} \subseteq vault
    BY <1>k, <2>0 DEF StageOK, Apart
  <2>2. ASSUME NEW gone \in SUBSET Replaced(o), vault' = vault \ gone,
               op' = [op EXCEPT ![o].pc = "release", ![o].ok = TRUE],
               Together(gone, Replaced(o)), UNCHANGED <<project, sandbox, lock>>
        PROVE  E2BInv'
    <3> DEFINE l == [op[o] EXCEPT !.pc = "release", !.ok = TRUE]
    <3>0. op[o] \in Op /\ op' = [op EXCEPT ![o] = l]
      BY <1>w, <2>2
    <3>1. /\ l \in Op /\ op' = [op EXCEPT ![o] = l]
          /\ l.pc = "release" /\ l.names = op[o].names /\ l.import = op[o].import
          /\ l.seen = op[o].seen /\ l.created = op[o].created
          /\ l.written = op[o].written /\ l.committed = op[o].committed
      BY <3>0 DEF Op, PC
    <3>8. faults' \in {faults, faults + 1}
      BY <1>k, <2>0, <2>2 DEF Together
    <3> HIDE DEF l
    <3>2. op'[o] = l /\ l.pc \in Locked
      BY <1>w, <3>1 DEF Locked
    <3>3. ASSUME NEW n \in Names, Wanted(o)[n] # None
          PROVE  <<n, Wanted(o)[n]>> \in vault'
      <4>1. <<n, Wanted(o)[n]>> \in vault /\ Wanted(o)[n] \in Origin
        BY <1>k, <1>w, <2>0, <2>1, <3>3 DEF Good, Secrets
      <4>2. <<n, Wanted(o)[n]>> \notin Replaced(o)
        <5>1. CASE n \in op[o].names
          BY <1>w, <2>1, <3>3, <4>1, <5>1, ReplacedIs DEF NotBy
        <5>2. CASE n \notin op[o].names
          BY <1>w, <4>1, <5>2, ReplacedIs
        <5> QED BY <5>1, <5>2
      <4> QED BY <2>2, <4>1, <4>2
    <3>4. Good(project.secrets)' /\ Good(sandbox.secrets)'
      BY <2>1, <2>2, <3>3 DEF Good
    <3>5. StageOK(o)'
      <4>1. lock'.owner = o /\ lock'.live
        BY <1>k, <2>0, <2>2
      <4>2. NotBy(o, op[o].seen)'
        BY <2>1, <3>1, <3>2 DEF NotBy
      <4> QED BY <2>1, <2>2, <3>1, <3>2, <4>1, <4>2 DEF StageOK, Apart, Undoing
    <3>6. From(o, project'.secrets) /\ From(o, sandbox'.secrets) /\ From(o, l.seen)
      BY <1>k, <2>0, <2>2, <3>1
    <3>7. sandbox'.secrets = project'.secrets
      BY <2>1, <2>2
    <3> QED BY <1>k, <2>0, <2>2, <3>1, <3>2, <3>4, <3>5, <3>6, <3>7, <3>8, E2BKeeps
  <2>3. CASE Fail(o, Rollback(o)) /\ ~op[o].import
    <3>1. Rollback(o) = "restart"
      BY <2>1, RollbackIs
    <3>2. Rollback(o) \in PC /\ Rollback(o) \in Locked
      BY <3>1 DEF PC, Locked
    <3>3. /\ Goto(o, Rollback(o)) /\ UNCHANGED <<project, sandbox, vault, lock>>
          /\ faults = 0 /\ faults' = 1 /\ NoneDied
      BY <1>f, <2>3 DEF Fail, stores
    <3> QED BY <2>0, <2>1, <2>3, <3>1, <3>2, <3>3, E2BMoves DEF Locked, Apart, Undoing
  <2>4. ~op[o].import => Misjudges(o)
    BY <2>0 DEF Misjudges, At
  <2> QED BY <1>7, <1>j, <2>2, <2>3, <2>4 DEF DestroyReplaced
<1>8. CASE RestartForRollback(o)
  <2>0. op[o].pc = "restart" /\ op[o].pc \in Locked /\ op[o].pc \in Undoing
    BY <1>8 DEF RestartForRollback, At, Locked, Undoing
  <2>1. /\ Good(op[o].seen) /\ faults = 1 /\ NoneDied
        /\ IF op[o].committed THEN ~op[o].import /\ project.secrets = Wanted(o)
           ELSE op[o].seen = project.secrets
    BY <1>k, <2>0 DEF StageOK, Apart
  <2>2. Goto(o, "renew") /\ UNCHANGED <<project, sandbox, vault, lock, faults>>
    BY <1>8, <1>f, <2>0 DEF RestartForRollback, Answer, Fail, stores
  <2> QED BY <2>0, <2>1, <2>2, E2BMoves DEF Locked, Apart, Undoing
<1>9. CASE RenewForRollback(o)
  <2>0. op[o].pc = "renew" /\ op[o].pc \in Locked /\ op[o].pc \in Undoing
    BY <1>9 DEF RenewForRollback, At, Locked, Undoing
  <2>1. /\ Good(op[o].seen) /\ faults = 1 /\ NoneDied
        /\ IF op[o].committed THEN ~op[o].import /\ project.secrets = Wanted(o)
           ELSE op[o].seen = project.secrets
    BY <1>k, <2>0 DEF StageOK, Apart
  <2>2. /\ Renew(o) /\ Goto(o, IF op[o].committed THEN "readd" ELSE "restore")
        /\ UNCHANGED <<project, sandbox, vault, faults>>
    BY <1>9, <1>f, <1>k, <2>0 DEF RenewForRollback, Answer, Lose, Fail
  <2>3. lock' = lock
    BY <1>r, <2>0, <2>2
  <2>4. CASE op[o].committed
    BY <2>0, <2>1, <2>2, <2>3, <2>4, E2BMoves DEF Locked, Apart, Undoing
  <2>5. CASE ~op[o].committed
    BY <2>0, <2>1, <2>2, <2>3, <2>5, E2BMoves DEF Locked, Apart, Undoing
  <2> QED BY <2>4, <2>5
<1>10. CASE ReaddReference(o)
  <2>0. /\ op[o].pc = "readd" /\ op[o].pc \in Locked /\ op[o].pc \in Undoing
        /\ op[o].pc # "dead"
    BY <1>10 DEF ReaddReference, At, Locked, Undoing
  <2>1. /\ Good(op[o].seen) /\ NotBy(o, op[o].seen) /\ faults = 1 /\ NoneDied
        /\ ~op[o].import /\ project.secrets = Wanted(o)
    BY <1>k, <2>0 DEF StageOK, Apart
  <2>2. /\ project' = [project EXCEPT
                         !.secrets = [n \in Names |-> IF n \in op[o].names
                                                      THEN op[o].seen[n] ELSE @[n]],
                         !.variables = @ \ op[o].names]
        /\ Goto(o, "restore") /\ UNCHANGED <<sandbox, vault, lock, faults>>
    BY <1>10, <1>f, <1>k, <2>0 DEF ReaddReference, Answer, Lose, Fail
  <2>3. PICK l \in Op :
          /\ op' = [op EXCEPT ![o] = l]
          /\ l.pc = "restore" /\ l.names = op[o].names /\ l.import = op[o].import
          /\ l.seen = op[o].seen /\ l.created = op[o].created
          /\ l.written = op[o].written /\ l.committed = op[o].committed
    <3>1. "restore" \in PC
      BY DEF PC
    <3> QED BY <1>w, <2>2, <3>1, GotoIs
  <2>4. op'[o] = l /\ (NoneDied' <=> NoneDied)
    BY <1>w, <2>0, <2>3, SelfIs
  <2>5. project'.secrets = op[o].seen
    <3>1. op[o].seen \in Secrets
      BY <1>w DEF Op
    <3>2. project'.secrets = [n \in Names |-> IF n \in op[o].names THEN op[o].seen[n]
                                              ELSE project.secrets[n]]
      BY <1>k, <2>0, <2>2 DEF Project
    <3> QED BY <1>w, <2>1, <3>1, <3>2 DEF Secrets
  <2>6. StageOK(o)'
    <3>1. lock'.owner = o /\ lock'.live
      BY <1>k, <2>0, <2>2
    <3>2. NotBy(o, op[o].seen)' /\ Good(op[o].seen)'
      BY <2>1, <2>2, <2>3, <2>4 DEF NotBy, Good
    <3> QED BY <2>1, <2>2, <2>3, <2>4, <2>5, <3>1, <3>2 DEF StageOK
  <2>7. Good(project.secrets)' /\ Good(sandbox.secrets)'
    BY <1>k, <2>0, <2>1, <2>2, <2>5 DEF Good
  <2>8. From(o, project'.secrets) /\ From(o, sandbox'.secrets) /\ From(o, l.seen)
    BY <1>k, <2>0, <2>2, <2>3, <2>5
  <2>9. l.pc \in Locked /\ l.pc \in Apart
    BY <2>3 DEF Locked, Apart
  <2> QED BY <1>k, <2>0, <2>2, <2>3, <2>6, <2>7, <2>8, <2>9, E2BKeeps
<1>11. CASE RestoreManifest(o)
  <2>0. /\ op[o].pc = "restore" /\ op[o].pc \in Locked /\ op[o].pc \in Undoing
        /\ op[o].pc # "dead"
    BY <1>11 DEF RestoreManifest, At, Locked, Undoing
  <2>1. /\ NotBy(o, op[o].seen) /\ faults = 1 /\ NoneDied
        /\ op[o].seen = project.secrets /\ (op[o].import => ~op[o].committed)
    BY <1>k, <2>0 DEF StageOK
  <2>2. AfterRestore(o) = IF op[o].import THEN "discard" ELSE "release"
    BY RollbackIs
  <2>3. AfterRestore(o) \in PC /\ AfterRestore(o) \in Locked
    BY <2>2 DEF PC, Locked
  <2>4. /\ sandbox' = [sandbox EXCEPT !.secrets = op[o].seen]
        /\ Goto(o, AfterRestore(o)) /\ UNCHANGED <<project, vault, lock, faults>>
    BY <1>11, <1>f, <2>0 DEF RestoreManifest, Answer, Fail
  <2>5. PICK l \in Op :
          /\ op' = [op EXCEPT ![o] = l]
          /\ l.pc = AfterRestore(o) /\ l.names = op[o].names /\ l.import = op[o].import
          /\ l.seen = op[o].seen /\ l.created = op[o].created
          /\ l.written = op[o].written /\ l.committed = op[o].committed
    BY <1>w, <2>3, <2>4, GotoIs
  <2>6. l.pc # "dead"
    BY <2>2, <2>5
  <2>7. op'[o] = l /\ (NoneDied' <=> NoneDied)
    BY <1>w, <2>0, <2>5, <2>6, SelfIs
  <2>8. sandbox'.secrets = project.secrets
    BY <1>k, <2>0, <2>1, <2>4 DEF Sandbox
  <2>9. StageOK(o)'
    <3>1. lock'.owner = o /\ lock'.live
      BY <1>k, <2>0, <2>4
    <3>2. NotBy(o, op[o].seen)' /\ NotBy(o, sandbox.secrets)'
      BY <2>1, <2>5, <2>7, <2>8 DEF NotBy
    <3>3. CASE op[o].import
      BY <2>1, <2>2, <2>4, <2>5, <2>7, <3>1, <3>2, <3>3 DEF StageOK, Apart
    <3>4. CASE ~op[o].import
      BY <2>2, <2>4, <2>5, <2>7, <2>8, <3>1, <3>2, <3>4 DEF StageOK, Apart, Undoing
    <3> QED BY <3>3, <3>4
  <2>10. Good(project.secrets)' /\ Good(sandbox.secrets)'
    BY <1>k, <2>0, <2>4, <2>8 DEF Good
  <2>11. From(o, project'.secrets) /\ From(o, sandbox'.secrets) /\ From(o, l.seen)
    BY <1>k, <2>0, <2>4, <2>5, <2>8
  <2>12. sandbox'.secrets = project'.secrets /\ l.pc \in Locked
    BY <2>3, <2>4, <2>5, <2>8
  <2> QED BY <1>k, <2>0, <2>4, <2>5, <2>9, <2>10, <2>11, <2>12, E2BKeeps
<1>12. CASE DiscardCreated(o)
  <2>0. /\ op[o].pc = "discard" /\ op[o].pc \in Locked /\ op[o].pc \in Undoing
        /\ op[o].pc # "dead"
    BY <1>12 DEF DiscardCreated, At, Locked, Undoing
  <2>1. /\ NotBy(o, op[o].seen) /\ NotBy(o, sandbox.secrets)
        /\ op[o].seen = project.secrets /\ ~op[o].committed
    BY <1>k, <2>0 DEF StageOK
  <2>2. "release" \in PC
    BY DEF PC
  <2>3. /\ vault' = vault \ (op[o].created \X {o})
        /\ Goto(o, "release") /\ UNCHANGED <<project, sandbox, lock, faults>>
    <3>1. PICK gone \in SUBSET op[o].created :
            /\ vault' = vault \ (gone \X {o})
            /\ faults' = faults + (IF gone = op[o].created THEN 0 ELSE 1)
      BY <1>12 DEF DiscardCreated, Together
    <3>2. gone = op[o].created
      BY <1>f, <2>0, <3>1
    <3> QED BY <1>12, <1>k, <2>0, <3>1, <3>2 DEF DiscardCreated
  <2>4. PICK l \in Op :
          /\ op' = [op EXCEPT ![o] = l]
          /\ l.pc = "release" /\ l.names = op[o].names /\ l.import = op[o].import
          /\ l.seen = op[o].seen /\ l.created = op[o].created
          /\ l.written = op[o].written /\ l.committed = op[o].committed
    BY <1>w, <2>2, <2>3, GotoIs
  <2>5. op'[o] = l /\ l.pc \in Locked
    BY <1>w, <2>4 DEF Locked
  <2>6. StageOK(o)'
    <3>1. lock'.owner = o /\ lock'.live
      BY <1>k, <2>0, <2>3
    <3>2. NotBy(o, op[o].seen)'
      BY <2>1, <2>4, <2>5 DEF NotBy
    <3> QED BY <2>1, <2>4, <2>5, <3>1, <3>2 DEF StageOK, Apart, Undoing
  <2>7. Good(project.secrets)' /\ Good(sandbox.secrets)'
    <3>1. ASSUME NEW x, Good(x), NotBy(o, x)
          PROVE  \A n \in Names : x[n] # None => <<n, x[n]>> \in vault'
      BY <2>3, <3>1 DEF Good, NotBy
    <3> QED BY <1>k, <2>0, <2>1, <2>3, <3>1 DEF Good
  <2>8. From(o, project'.secrets) /\ From(o, sandbox'.secrets) /\ From(o, l.seen)
    BY <1>k, <2>0, <2>3, <2>4
  <2>9. sandbox'.secrets = project'.secrets \/ ~NoneDied
    <3>1. \A p \in Ops : op[p].pc \notin Apart
      BY <1>k, <2>0 DEF Locked, Apart
    <3> QED BY <2>3, <3>1 DEF E2BInv, E2BOK
  <2> QED BY <1>k, <2>0, <2>3, <2>4, <2>5, <2>6, <2>7, <2>8, <2>9, E2BKeeps
<1>13. CASE Release(o)
  <2>0. op[o].pc = "release" /\ op[o].pc \in Locked /\ op[o].pc \notin Apart
    BY <1>13 DEF Release, At, Locked, Apart
  <2>1. /\ Goto(o, "over") /\ UNCHANGED <<project, sandbox, vault>>
        /\ faults' \in {faults, faults + 1}
    BY <1>13, <1>k, <2>0 DEF Release, Answer, Fail, stores
  <2> QED BY <2>0, <2>1, E2BMoves DEF Locked, Apart, Undoing
<1> QED BY <1>1, <1>2, <1>3, <1>4, <1>5, <1>6, <1>7, <1>8, <1>9, <1>10, <1>11, <1>12, <1>13
     DEF E2BStep

\* A lock lapses only when its owner is over or dead: nobody else relied on it.
LEMMA E2BLapse ==
  ASSUME EnvironmentAssumption, ~OutliveLock, E2BInv, TypeOK', Lapse
  PROVE  E2BInv'
<1>1. E2BOK /\ UNCHANGED <<project, sandbox, vault, op, faults>>
  BY DEF E2BInv, Lapse
<1>2. \A p \in Ops : op[p].pc \notin Locked
  <2> SUFFICES ASSUME NEW p \in Ops, op[p].pc \in Locked PROVE FALSE
    OBVIOUS
  <2>1. lock.owner = p
    BY <1>1 DEF E2BOK, StageOK
  <2> QED BY <2>1 DEF Lapse, Locked
<1>3. \A p \in Ops : StageOK(p)'
  BY <1>1, <1>2 DEF StageOK, Locked, Apart, Undoing
<1>4. E2BOK'
  BY <1>1, <1>3 DEF E2BOK, Good, NotBy, NoneDied
<1> QED BY <1>1, <1>4 DEF E2BInv, NoneDied

LEMMA E2BNext ==
  ASSUME EnvironmentAssumption, ~OutliveLock, Sound', E2BInv, [Next]_vars
  PROVE  E2BInv'
<1>1. TypeOK' /\ project'.provider = project.provider
  BY TypeKept DEF E2BInv
<1>2. op \in [Ops -> Op] /\ project.provider = "e2b" /\ E2BOK /\ project \in Project
      /\ project.secrets \in Secrets
  BY TypeParts DEF E2BInv, Project
<1>3. ASSUME NEW o \in Ops, E2BStep(o) PROVE E2BInv'
  BY <1>1, <1>3, E2BSteps
<1>4. ASSUME NEW o \in Ops, DaytonaStep(o) PROVE FALSE
  <2>1. op[o].pc \in Locked \cup {"idle", "acquire", "over", "dead"}
    BY <1>2 DEF E2BOK
  <2> QED BY <1>4, <2>1 DEF DaytonaStep, StartDaytona, DropLegacySecrets, UpdateEnv, UpsertVariables,
         DeleteLegacySecrets, RestoreLegacySecrets, UnsetVariable, UpdateRemainingSecrets,
         DeleteSecret, RecordRemoval, At, Locked
<1>5. ASSUME NEW o \in Ops, Die(o) PROVE E2BInv'
  <2>1. "dead" \in PC
    BY DEF PC
  <2>2. /\ Goto(o, "dead") /\ UNCHANGED <<project, sandbox, vault, lock>>
        /\ faults' = faults + 1 /\ op[o].pc # "dead"
    BY <1>5 DEF Die, Fail, stores
  <2>3. PICK l \in Op : op' = [op EXCEPT ![o] = l] /\ l.pc = "dead"
    BY <1>2, <2>1, <2>2, GotoIs
  <2> QED BY <1>1, <2>2, <2>3, E2BQuiet
<1>6. ASSUME NEW o \in Ops, NEW import \in BOOLEAN, NEW names \in SUBSET Names,
             Begin(o, import, names)
      PROVE  E2BInv'
  <2> DEFINE l == [op[o] EXCEPT !.pc = "acquire", !.names = names, !.import = import,
                                !.seen = project.secrets]
  <2>1. op[o].pc = "idle" /\ UNCHANGED <<project, sandbox, vault, lock, faults>>
    BY <1>6 DEF Begin, At, stores
  <2>2. op[o] \in Op
    BY <1>2
  <2>3. l \in Op
    BY <1>2, <2>2 DEF Op, PC
  <2>4. op' = [op EXCEPT ![o] = l]
    BY <1>2, <1>6 DEF Begin
  <2>5. l.pc = "acquire" /\ l.written = op[o].written /\ l.committed = op[o].committed
    BY <2>2 DEF Op
  <2>6. ~op[o].written /\ ~op[o].committed
    BY <1>2, <2>1 DEF E2BOK
  <2> HIDE DEF l
  <2> QED BY <1>1, <2>1, <2>3, <2>4, <2>5, <2>6, E2BQuiet
<1>7. CASE Lapse
  BY <1>1, <1>7, E2BLapse
<1>8. CASE UNCHANGED vars
  <2>1. UNCHANGED <<project, sandbox, vault, lock, op, faults>>
    BY <1>8 DEF vars
  <2>2. \A p \in Ops : StageOK(p)'
    BY <1>2, <2>1 DEF E2BOK, StageOK, Good, NotBy, Wanted, NoneDied
  <2>3. E2BOK'
    BY <1>2, <2>1, <2>2 DEF E2BOK, Good, NotBy, NoneDied
  <2> QED BY <1>1, <2>1, <2>3 DEF E2BInv, NoneDied
<1> QED BY <1>3, <1>4, <1>5, <1>6, <1>7, <1>8 DEF Next

-----------------------------------------------------------------------------
(* Daytona: as long as no call fails and no two operations overlap. *)

DaytonaInv == TypeOK /\ project.provider = "daytona" /\ DaytonaOK

\* A step of the operation that runs, or begins.
LEMMA DaytonaKeeps ==
  ASSUME EnvironmentAssumption, DaytonaInv, TypeOK', project'.provider = project.provider,
         Quiet, NEW o \in Ops, \A p \in Ops : p # o => op[p].pc \notin Active,
         NEW l \in Op, op' = [op EXCEPT ![o] = l], l.pc \in Active \cup {"over"},
         CallOK(o)', Good(sandbox.secrets)', l.pc = "over" => Good(project.secrets)'
  PROVE  DaytonaInv'
<1>1. op \in [Ops -> Op] /\ \A p \in Ops : op[p].pc \in Active \cup {"idle", "over"}
  BY TypeParts DEF DaytonaInv, DaytonaOK
<1>2. op'[o] = l /\ \A d \in Ops : d # o => op'[d] = op[d]
  BY <1>1, OpSteps
<1>3. \A p \in Ops : op'[p].pc \in Active \cup {"idle", "over"}
  BY <1>1, <1>2
<1>4. \A p \in Ops : op'[p].pc \in Active => p = o
  BY <1>2
<1>5. \A p \in Ops : CallOK(p)'
  <2> SUFFICES ASSUME NEW p \in Ops, p # o PROVE CallOK(p)'
    OBVIOUS
  <2>1. op'[p].pc \notin Active
    BY <1>4
  <2> QED BY <2>1 DEF CallOK, Active
<1>6. (\A p \in Ops : op'[p].pc \notin Active) => Good(project.secrets)'
  BY <1>2
<1> QED BY <1>3, <1>4, <1>5, <1>6 DEF DaytonaInv, DaytonaOK

\* The same when the program counter is all of the operation that changes.
LEMMA DaytonaMoves ==
  ASSUME EnvironmentAssumption, DaytonaInv, TypeOK', project'.provider = project.provider,
         Quiet, NEW o \in Ops, op[o].pc \in Active,
         NEW pc \in Active \cup {"over"}, Goto(o, pc),
         Good(sandbox.secrets)', pc = "over" => Good(project.secrets)',
         pc \in {"d.start", "d.secrets", "d.env", "d.upsert", "d.unset", "d.remaining", "d.destroy"}
           => op[o].seen = project'.secrets,
         pc \in {"d.env", "d.upsert", "d.delete", "d.destroy"}
           => \A n \in op[o].names : op[o].seen[n] # None => sandbox'.secrets[n] = None,
         pc = "d.delete" => \A n \in op[o].names : project'.secrets[n] = None,
         pc \in Active \ {"d.record"} => Good(project.secrets)',
         pc = "d.record" =>
           \A n \in Names : Without(project'.secrets, op[o].names)[n] # None =>
             <<n, Without(project'.secrets, op[o].names)[n]>> \in vault'
  PROVE  DaytonaInv'
<1>1. op \in [Ops -> Op] /\ \A p \in Ops : p # o => op[p].pc \notin Active
  BY TypeParts DEF DaytonaInv, DaytonaOK
<1>2. pc \in PC
  BY DEF Active, PC
<1>3. PICK l \in Op :
        /\ op' = [op EXCEPT ![o] = l]
        /\ l.pc = pc /\ l.names = op[o].names /\ l.import = op[o].import
        /\ l.seen = op[o].seen /\ l.created = op[o].created
        /\ l.written = op[o].written /\ l.committed = op[o].committed
  BY <1>1, <1>2, GotoIs
<1>4. op'[o] = l
  BY <1>1, <1>3, OpSteps
<1>5. Dropped(o)' <=> \A n \in op[o].names : op[o].seen[n] # None => sandbox'.secrets[n] = None
  BY <1>3, <1>4 DEF Dropped
<1>6. Good(Without(project.secrets, op[o].names))' <=>
        \A n \in Names : Without(project'.secrets, op[o].names)[n] # None =>
          <<n, Without(project'.secrets, op[o].names)[n]>> \in vault'
  BY <1>3, <1>4 DEF Good, Without
<1>7. CallOK(o)'
  BY <1>3, <1>4, <1>5, <1>6 DEF CallOK
<1> QED BY <1>1, <1>3, <1>7, DaytonaKeeps

LEMMA DaytonaSteps ==
  ASSUME EnvironmentAssumption, DaytonaInv, TypeOK', project'.provider = project.provider,
         NEW o \in Ops, DaytonaStep(o)
  PROVE  DaytonaInv'
<1>0. /\ op \in [Ops -> Op] /\ project \in Project /\ sandbox \in Sandbox
      /\ vault \in SUBSET (Names \X (Ops \cup {Original})) /\ faults \in Nat
      /\ project.secrets \in Secrets
  BY TypeParts DEF DaytonaInv, EnvironmentAssumption, Project
<1>l. op[o] \in Op /\ op[o].names \in SUBSET Names /\ op[o].seen \in Secrets
  BY <1>0 DEF Op
\* a call that fails leaves nothing to show
<1>f. ASSUME ~Quiet' PROVE DaytonaInv'
  BY <1>f DEF DaytonaInv, DaytonaOK
<1>e. ASSUME NEW pc, Fail(o, pc) \/ Lose(o, pc) PROVE DaytonaInv'
  <2>1. faults' # 0
    BY <1>0, <1>e DEF Fail, Lose
  <2> QED BY <1>f, <2>1 DEF Quiet
<1>a. UNCHANGED <<faults, slips>> => (Quiet' <=> Quiet)
  BY DEF Quiet
<1>c. ASSUME Quiet
      PROVE  /\ op[o].pc \in Active \cup {"idle", "over"} /\ CallOK(o)
             /\ Good(sandbox.secrets)
  BY <1>c DEF DaytonaInv, DaytonaOK
<1>s. ASSUME NEW x \in Secrets, sandbox' = [sandbox EXCEPT !.secrets = x]
      PROVE  sandbox'.secrets = x
  BY <1>0, <1>s DEF Sandbox
\* what is left of the secrets without those of the operation
<1>w. ASSUME NEW x \in Secrets
      PROVE  /\ Without(x, op[o].names) \in Secrets
             /\ \A n \in Names : Without(x, op[o].names)[n] =
                                   IF n \in op[o].names THEN None ELSE x[n]
  BY <1>l, SecretsAre
<1>g. ASSUME NEW x \in Secrets, Good(x) PROVE Good(Without(x, op[o].names))
  BY <1>w, <1>g DEF Good
\* the destruction of secrets that x does not name
<1>r. ASSUME NEW x \in Secrets, Good(x), vault' = vault \ Replaced(o),
             \A n \in op[o].names : op[o].seen[n] # None => x[n] # op[o].seen[n]
      PROVE  \A n \in Names : x[n] # None => <<n, x[n]>> \in vault'
  <2> SUFFICES ASSUME NEW n \in Names, x[n] # None PROVE <<n, x[n]>> \in vault'
    OBVIOUS
  <2>1. <<n, x[n]>> \in vault /\ x[n] \in Origin
    BY <1>r DEF Good, Secrets
  <2>2. <<n, x[n]>> \notin Replaced(o)
    BY <1>0, <1>r, <2>1, ReplacedIs
  <2> QED BY <1>r, <2>1, <2>2
<1>1. CASE StartDaytona(o)
  <2> SUFFICES ASSUME Quiet,
                      Goto(o, IF ~op[o].import THEN "d.unset"
                              ELSE IF Legacy(o) THEN "d.secrets" ELSE "d.env"),
                      UNCHANGED <<project, sandbox, vault, lock, faults>>
               PROVE  DaytonaInv'
    BY <1>1, <1>a, <1>e, <1>f DEF StartDaytona, Answer, stores
  <2> DEFINE pc == IF ~op[o].import THEN "d.unset"
                   ELSE IF Legacy(o) THEN "d.secrets" ELSE "d.env"
  <2>1. op[o].pc = "d.start" /\ op[o].pc \in Active
    BY <1>1 DEF StartDaytona, At, Active
  <2>2. op[o].seen = project.secrets /\ Good(project.secrets) /\ Good(sandbox.secrets)
    BY <1>c, <2>1 DEF CallOK, Active
  <2>3. pc \in {"d.unset", "d.secrets", "d.env"} /\ (pc = "d.env" => ~Legacy(o))
    OBVIOUS
  <2>4. ~Legacy(o) => \A n \in op[o].names : op[o].seen[n] = None
    BY DEF Legacy, SecretsOf
  <2>5. Good(project.secrets)' /\ Good(sandbox.secrets)'
    BY <2>2 DEF Good
  <2>6. Goto(o, pc)
    OBVIOUS
  <2> HIDE DEF pc
  <2>7. pc \in Active \cup {"over"}
    BY <2>3 DEF Active
  <2> QED BY <2>1, <2>2, <2>3, <2>4, <2>5, <2>6, <2>7, DaytonaMoves
<1>2. CASE DropLegacySecrets(o) \/ UpdateRemainingSecrets(o)
  <2> DEFINE pc == IF At(o, "d.secrets") THEN "d.env" ELSE "d.destroy"
  <2> SUFFICES ASSUME Quiet, op[o].pc \in {"d.secrets", "d.remaining"},
                      sandbox' = [sandbox EXCEPT !.secrets = Without(op[o].seen, op[o].names)],
                      Goto(o, pc), UNCHANGED <<project, vault, lock, faults>>
               PROVE  DaytonaInv'
    BY <1>2, <1>a, <1>e, <1>f DEF DropLegacySecrets, UpdateRemainingSecrets, At, Answer
  <2>1. op[o].pc \in Active /\ pc \in {"d.env", "d.destroy"}
    BY DEF Active
  <2>2. op[o].seen = project.secrets /\ Good(project.secrets)
    BY <1>c DEF CallOK, Active
  <2>3. sandbox'.secrets = Without(op[o].seen, op[o].names)
    BY <1>l, <1>s, <1>w
  <2>4. Good(Without(op[o].seen, op[o].names))
    BY <1>l, <1>g, <2>2
  <2>5. Good(project.secrets)' /\ Good(sandbox.secrets)'
    BY <2>2, <2>3, <2>4 DEF Good
  <2>6. \A n \in op[o].names : sandbox'.secrets[n] = None
    BY <1>l, <1>w, <2>3
  <2>7. Goto(o, pc)
    OBVIOUS
  <2> HIDE DEF pc
  <2>8. pc \in Active \cup {"over"}
    BY <2>1 DEF Active
  <2> QED BY <2>1, <2>2, <2>5, <2>6, <2>7, <2>8, DaytonaMoves
<1>3. CASE UpdateEnv(o)
  <2> SUFFICES ASSUME Quiet,
                      sandbox' = [sandbox EXCEPT !.variables = @ \cup op[o].names],
                      Goto(o, "d.upsert"), UNCHANGED <<project, vault, lock, faults>>
               PROVE  DaytonaInv'
    BY <1>3, <1>a, <1>e, <1>f DEF UpdateEnv, Answer, stores
  <2>1. op[o].pc = "d.env" /\ op[o].pc \in Active
    BY <1>3 DEF UpdateEnv, At, Active
  <2>2. /\ op[o].seen = project.secrets /\ Good(project.secrets) /\ Good(sandbox.secrets)
        /\ Dropped(o)
    BY <1>c, <2>1 DEF CallOK, Active
  <2>3. sandbox'.secrets = sandbox.secrets
    BY <1>0 DEF Sandbox
  <2>4. Good(project.secrets)' /\ Good(sandbox.secrets)'
    BY <2>2, <2>3 DEF Good
  <2> QED BY <2>1, <2>2, <2>3, <2>4, DaytonaMoves DEF Active, Dropped
<1>4. CASE UpsertVariables(o)
  <2> SUFFICES ASSUME Quiet,
                      project' = [project EXCEPT !.secrets = Without(@, op[o].names),
                                                 !.variables = @ \cup op[o].names],
                      Goto(o, "d.delete"), UNCHANGED <<sandbox, vault, lock, faults>>
               PROVE  DaytonaInv'
    BY <1>4, <1>a, <1>e, <1>f DEF UpsertVariables, Answer, stores
  <2>1. op[o].pc = "d.upsert" /\ op[o].pc \in Active
    BY <1>4 DEF UpsertVariables, At, Active
  <2>2. Good(project.secrets) /\ Good(sandbox.secrets) /\ Dropped(o)
    BY <1>c, <2>1 DEF CallOK, Active
  <2>3. project'.secrets = Without(project.secrets, op[o].names)
    BY <1>0 DEF Project
  <2>4. Good(Without(project.secrets, op[o].names))
    BY <1>0, <1>g, <2>2
  <2>5. Good(project.secrets)' /\ Good(sandbox.secrets)'
    BY <2>2, <2>3, <2>4 DEF Good
  <2>6. \A n \in op[o].names : project'.secrets[n] = None
    BY <1>0, <1>l, <1>w, <2>3
  <2> QED BY <2>1, <2>2, <2>5, <2>6, DaytonaMoves DEF Active, Dropped
<1>5. CASE DeleteLegacySecrets(o)
  <2> SUFFICES ASSUME Quiet, vault' = vault \ Replaced(o),
                      Goto(o, "over"), UNCHANGED <<project, sandbox, lock, faults>>
               PROVE  DaytonaInv'
    <3>1. PICK gone \in SUBSET Replaced(o) :
            /\ vault' = vault \ gone /\ Together(gone, Replaced(o))
            /\ Goto(o, "over") /\ UNCHANGED <<project, sandbox, lock>>
      BY <1>5 DEF DeleteLegacySecrets
    <3>2. gone # Replaced(o) => faults' # 0
      BY <1>0, <3>1 DEF Together
    <3>3. gone = Replaced(o) => UNCHANGED <<faults, slips>>
      BY <1>0, <3>1 DEF Together
    <3>4. gone # Replaced(o) => ~Quiet'
      BY <3>2 DEF Quiet
    <3> QED BY <1>a, <1>f, <3>1, <3>3, <3>4
  <2>1. op[o].pc = "d.delete" /\ op[o].pc \in Active
    BY <1>5 DEF DeleteLegacySecrets, At, Active
  <2>2. /\ Good(project.secrets) /\ Good(sandbox.secrets) /\ Dropped(o)
        /\ \A n \in op[o].names : project.secrets[n] = None
    BY <1>c, <2>1 DEF CallOK, Active
  <2>3. Good(project.secrets)'
    BY <1>0, <1>r, <2>2 DEF Good
  <2>4. Good(sandbox.secrets)'
    BY <1>0, <1>r, <2>2 DEF Good, Dropped, Sandbox
  <2> QED BY <2>1, <2>3, <2>4, DaytonaMoves DEF Active
<1>6. CASE UnsetVariable(o)
  <2> DEFINE pc == IF Legacy(o) THEN "d.remaining" ELSE "d.record"
  <2> SUFFICES ASSUME Quiet,
                      sandbox' = [sandbox EXCEPT !.variables = @ \ op[o].names],
                      Goto(o, pc), UNCHANGED <<project, vault, lock, faults>>
               PROVE  DaytonaInv'
    BY <1>6, <1>a, <1>e, <1>f DEF UnsetVariable, Answer, stores
  <2>1. op[o].pc = "d.unset" /\ op[o].pc \in Active /\ pc \in {"d.remaining", "d.record"}
    BY <1>6 DEF UnsetVariable, At, Active
  <2>2. op[o].seen = project.secrets /\ Good(project.secrets) /\ Good(sandbox.secrets)
    BY <1>c, <2>1 DEF CallOK, Active
  <2>3. sandbox'.secrets = sandbox.secrets
    BY <1>0 DEF Sandbox
  <2>4. Good(project.secrets)' /\ Good(sandbox.secrets)'
    BY <2>2, <2>3 DEF Good
  <2>5. \A n \in Names : Without(project'.secrets, op[o].names)[n] # None =>
          <<n, Without(project'.secrets, op[o].names)[n]>> \in vault'
    BY <1>0, <1>g, <2>2 DEF Good
  <2>6. Goto(o, pc)
    OBVIOUS
  <2> HIDE DEF pc
  <2>7. pc \in Active \cup {"over"}
    BY <2>1 DEF Active
  <2> QED BY <2>1, <2>2, <2>4, <2>5, <2>6, <2>7, DaytonaMoves
<1>7. CASE DeleteSecret(o)
  <2> SUFFICES ASSUME Quiet, vault' = vault \ Replaced(o),
                      Goto(o, "d.record"), UNCHANGED <<project, sandbox, lock, faults>>
               PROVE  DaytonaInv'
    BY <1>7, <1>a, <1>e, <1>f DEF DeleteSecret, Answer, stores
  <2>1. op[o].pc = "d.destroy" /\ op[o].pc \in Active
    BY <1>7 DEF DeleteSecret, At, Active
  <2>2. /\ Good(project.secrets) /\ Good(sandbox.secrets) /\ Dropped(o)
    BY <1>c, <2>1 DEF CallOK, Active
  <2>3. Good(sandbox.secrets)'
    BY <1>0, <1>r, <2>2 DEF Good, Dropped, Sandbox
  <2>4. /\ Without(project.secrets, op[o].names) \in Secrets
        /\ Good(Without(project.secrets, op[o].names))
        /\ \A n \in op[o].names : Without(project.secrets, op[o].names)[n] = None
    BY <1>0, <1>l, <1>g, <1>w, <2>2
  <2>5. \A n \in Names : Without(project.secrets, op[o].names)[n] # None =>
          <<n, Without(project.secrets, op[o].names)[n]>> \in vault'
    BY <1>r, <2>4
  <2> QED BY <2>1, <2>3, <2>5, DaytonaMoves DEF Active
<1>8. CASE RecordRemoval(o)
  <2> SUFFICES ASSUME Quiet,
                      project' = [project EXCEPT !.secrets = Without(@, op[o].names),
                                                 !.variables = @ \ op[o].names],
                      Goto(o, "over"), UNCHANGED <<sandbox, vault, lock, faults>>
               PROVE  DaytonaInv'
    BY <1>8, <1>a, <1>e, <1>f DEF RecordRemoval, Answer, stores
  <2>1. op[o].pc = "d.record" /\ op[o].pc \in Active
    BY <1>8 DEF RecordRemoval, At, Active
  <2>2. Good(Without(project.secrets, op[o].names)) /\ Good(sandbox.secrets)
    BY <1>c, <2>1 DEF CallOK, Active
  <2>3. project'.secrets = Without(project.secrets, op[o].names)
    BY <1>0 DEF Project
  <2>4. Good(project.secrets)' /\ Good(sandbox.secrets)'
    BY <2>2, <2>3 DEF Good
  <2> QED BY <2>1, <2>4, DaytonaMoves DEF Active
<1>9. CASE RestoreLegacySecrets(o)
  <2>1. op[o].pc = "d.restore"
    BY <1>9 DEF RestoreLegacySecrets, At
  <2>2. ~Quiet
    BY <1>c, <2>1 DEF Active
  <2> QED BY <1>9, <1>a, <1>e, <1>f, <2>2 DEF RestoreLegacySecrets, Answer
<1> QED BY <1>1, <1>2, <1>3, <1>4, <1>5, <1>6, <1>7, <1>8, <1>9 DEF DaytonaStep

LEMMA DaytonaNext ==
  ASSUME EnvironmentAssumption, DaytonaInv, [Next]_vars
  PROVE  DaytonaInv'
<1>1. TypeOK' /\ project'.provider = project.provider
  BY TypeKept DEF DaytonaInv
<1>2. op \in [Ops -> Op] /\ project.provider = "daytona" /\ project \in Project
      /\ project.secrets \in Secrets /\ faults \in Nat
  BY TypeParts DEF DaytonaInv, Project, EnvironmentAssumption
<1>3. ASSUME Quiet
      PROVE  /\ \A p \in Ops : op[p].pc \in Active \cup {"idle", "over"} /\ CallOK(p)
             /\ Good(sandbox.secrets)
             /\ (\A p \in Ops : op[p].pc \notin Active) => Good(project.secrets)
  BY <1>3 DEF DaytonaInv, DaytonaOK
<1>f. ASSUME ~Quiet' PROVE DaytonaInv'
  BY <1>1, <1>2, <1>f DEF DaytonaInv, DaytonaOK
\* what has failed or overlapped stays so
<1>q. Quiet' => Quiet
  <2>1. faults' >= faults /\ slips \subseteq slips'
    BY Grows DEF DaytonaInv
  <2> QED BY <1>2, <2>1 DEF Quiet
<1>4. ASSUME NEW o \in Ops, DaytonaStep(o) PROVE DaytonaInv'
  BY <1>1, <1>4, DaytonaSteps
\* the steps of E2B begin where nobody is before a call failed
<1>5. ASSUME NEW o \in Ops, E2BStep(o) PROVE DaytonaInv'
  <2>1. op[o].pc \in Locked \cup {"acquire"}
    BY <1>5 DEF E2BStep, Acquire, CreateSecrets, EnsureStarted, Require, UploadManifest, Commit,
         DestroyReplaced, RestartForRollback, RenewForRollback, ReaddReference, RestoreManifest,
         DiscardCreated, Release, At, Locked
  <2>2. ~Quiet
    BY <1>3, <2>1 DEF Active, Locked
  <2> QED BY <1>f, <1>q, <2>2
<1>6. ASSUME NEW o \in Ops, Die(o) PROVE DaytonaInv'
  <2>1. faults' # 0
    BY <1>2, <1>6 DEF Die, Fail
  <2> QED BY <1>f, <2>1 DEF Quiet
<1>7. ASSUME NEW o \in Ops, NEW import \in BOOLEAN, NEW names \in SUBSET Names,
             Begin(o, import, names)
      PROVE  DaytonaInv'
  <2> SUFFICES ASSUME Quiet, Quiet' PROVE DaytonaInv'
    BY <1>f, <1>q
  <2> DEFINE l == [op[o] EXCEPT !.pc = "d.start", !.names = names, !.import = import,
                                !.seen = project.secrets]
  <2>1. /\ UNCHANGED <<project, sandbox, vault, lock, faults>>
        /\ \A p \in Ops : op[p].pc \in {"idle", "over", "dead"}
    BY <1>2, <1>7 DEF Begin, Quiet, stores
  <2>2. \A p \in Ops : op[p].pc \notin Active
    BY <2>1 DEF Active
  <2>3. op[o] \in Op
    BY <1>2
  <2>4. l \in Op
    BY <1>2, <2>3 DEF Op, PC
  <2>5. op' = [op EXCEPT ![o] = l]
    BY <1>2, <1>7 DEF Begin
  <2>6. l.pc = "d.start" /\ l.seen = project.secrets
    BY <2>3 DEF Op
  <2> HIDE DEF l
  <2>7. op'[o] = l
    BY <1>2, <2>5
  <2>8. Good(project.secrets) /\ Good(sandbox.secrets)
    BY <1>3, <2>2
  <2>9. Good(project.secrets)' /\ Good(sandbox.secrets)'
    BY <2>1, <2>8 DEF Good
  <2>10. CallOK(o)'
    BY <2>1, <2>6, <2>7, <2>9 DEF CallOK
  <2>11. l.pc \in Active \cup {"over"} /\ l.pc # "over"
    BY <2>6 DEF Active
  <2> QED BY <1>1, <2>2, <2>4, <2>5, <2>9, <2>10, <2>11, DaytonaKeeps
<1>8. CASE Lapse \/ UNCHANGED vars
  <2>1. UNCHANGED <<project, sandbox, vault, op, faults, slips>>
    BY <1>8 DEF Lapse, vars
  <2> QED BY <1>1, <2>1 DEF DaytonaInv, DaytonaOK, CallOK, Good, Dropped, Without, Quiet
<1> QED BY <1>4, <1>5, <1>6, <1>7, <1>8 DEF Next

-----------------------------------------------------------------------------
(* The theorems. *)

\* Every reachable state is well typed; a name is listed as a secret or as a
\* variable, never as both.
THEOREM EnvironmentTypeCorrect == ASSUME EnvironmentAssumption PROVE Spec => []TypeOK
<1>1. Init => TypeOK
  <2> SUFFICES ASSUME Init PROVE TypeOK
    OBVIOUS
  <2>1. PICK before \in SUBSET Names, provider \in Providers :
          /\ project = [provider |-> provider, secrets |-> With(NoSecrets, before, Original),
                        variables |-> {}]
          /\ vault = before \X {Original}
    BY DEF Init
  <2>2. With(NoSecrets, before, Original) \in Secrets /\ NoSecrets \in Secrets
    BY DEF With, NoSecrets, Secrets, Origin
  <2>3. project \in Project /\ project.variables = {} /\ project.secrets \in Secrets
    BY <2>1, <2>2 DEF Project
  <2>4. sandbox \in Sandbox
    BY <2>3 DEF Init, Sandbox
  <2>5. op \in [Ops -> Op]
    BY <2>2 DEF Init, Op, PC
  <2>6. /\ lock \in [owner : Ops \cup {None}, live : BOOLEAN]
        /\ faults \in 0 .. MaxFaults /\ slips \in SUBSET Slips
    BY DEF Init, EnvironmentAssumption
  <2>7. vault \in SUBSET (Names \X (Ops \cup {Original}))
    BY <2>1
  <2> QED BY <2>3, <2>4, <2>5, <2>6, <2>7, TypeParts
<1>2. TypeOK /\ [Next]_vars => TypeOK'
  BY TypeKept
<1> QED BY <1>1, <1>2, PTL DEF Spec

\* Before anything happened, what is listed is there, and nobody made it.
LEMMA EnvironmentStarts ==
  ASSUME EnvironmentAssumption, Init
  PROVE  (project.provider = "e2b" /\ E2BOK) \/ (project.provider = "daytona" /\ DaytonaOK)
<1>1. PICK before \in SUBSET Names, provider \in Providers :
        /\ project = [provider |-> provider, secrets |-> With(NoSecrets, before, Original),
                      variables |-> {}]
        /\ vault = before \X {Original}
  BY DEF Init
<1>2. project.secrets = With(NoSecrets, before, Original) /\ project.provider \in Providers
  BY <1>1
<1>3. \A n \in Names : project.secrets[n] = IF n \in before THEN Original ELSE None
  BY <1>2 DEF With, NoSecrets
<1>4. Good(project.secrets)
  BY <1>1, <1>3 DEF Good
<1>5. sandbox.secrets = project.secrets
  BY DEF Init
<1>6. \A o \in Ops : NotBy(o, project.secrets)
  BY <1>3 DEF NotBy, EnvironmentAssumption
<1>7. \A o \in Ops : op[o].pc = "idle" /\ ~op[o].written /\ ~op[o].committed
  BY DEF Init
<1>8. \A o \in Ops : StageOK(o) /\ CallOK(o)
  BY <1>7 DEF StageOK, CallOK, Locked, Apart, Undoing, Active
<1>9. \A o \in Ops : op[o].pc \notin Locked /\ op[o].pc \notin Active
  BY <1>7 DEF Locked, Active
<1>10. E2BOK
  BY <1>4, <1>5, <1>6, <1>7, <1>8, <1>9 DEF E2BOK
<1>11. DaytonaOK
  BY <1>4, <1>5, <1>7, <1>8, <1>9 DEF DaytonaOK
<1> QED BY <1>2, <1>10, <1>11 DEF EnvironmentAssumption

\* A project stays with its provider.
EnvironmentInv == TypeOK /\ (E2BInv \/ DaytonaInv \/ (project.provider = "e2b" /\ ~Sound))

LEMMA EnvironmentInvHolds ==
  ASSUME EnvironmentAssumption, ~OutliveLock PROVE Spec => []EnvironmentInv
<1>1. Init /\ TypeOK => EnvironmentInv
  <2> SUFFICES ASSUME Init, TypeOK PROVE EnvironmentInv
    OBVIOUS
  <2>1. NoneDied
    BY DEF Init, NoneDied
  <2> QED BY <2>1, EnvironmentStarts DEF EnvironmentInv, E2BInv, DaytonaInv
<1>2. EnvironmentInv /\ [Next]_vars => EnvironmentInv'
  <2> SUFFICES ASSUME EnvironmentInv, [Next]_vars PROVE EnvironmentInv'
    OBVIOUS
  <2>1. TypeOK /\ TypeOK' /\ project'.provider = project.provider
    BY TypeKept DEF EnvironmentInv
  <2>2. Sound' => Sound
    <3>1. faults \in Nat /\ faults' \in Nat /\ faults' >= faults /\ slips \subseteq slips'
      BY <2>1, Grows, TypeParts DEF EnvironmentAssumption
    <3> QED BY <3>1 DEF Sound
  <2>3. CASE E2BInv
    <3>1. Sound' => E2BInv'
      BY <2>3, E2BNext
    <3> QED BY <2>1, <2>3, <3>1 DEF EnvironmentInv, E2BInv
  <2>4. CASE DaytonaInv
    BY <2>1, <2>4, DaytonaNext DEF EnvironmentInv
  <2>5. CASE project.provider = "e2b" /\ ~Sound
    BY <2>1, <2>2, <2>5 DEF EnvironmentInv
  <2> QED BY <2>3, <2>4, <2>5 DEF EnvironmentInv
<1>3. Spec => []TypeOK
  BY EnvironmentTypeCorrect
<1> QED BY <1>1, <1>2, <1>3, PTL DEF Spec

\* No command of the agent is told of a secret that was destroyed: on E2B also
\* after one call failed or lost its answer, or one operation died, at whatever
\* step, unless the call took effect and the rollback assumes it did not; on
\* Daytona as long as no call failed and no two operations overlapped.
THEOREM NoDanglingSecretHolds ==
  ASSUME EnvironmentAssumption, ~OutliveLock PROVE Spec => []NoDanglingSecret
<1>1. EnvironmentInv => NoDanglingSecret
  <2>1. E2BInv => NoDanglingSecret
    BY DEF E2BInv, E2BOK, Good, NoDanglingSecret
  <2>2. DaytonaInv => NoDanglingSecret
    BY DEF DaytonaInv, DaytonaOK, Good, NoDanglingSecret
  <2> QED BY <2>1, <2>2 DEF EnvironmentInv, NoDanglingSecret
<1> QED BY <1>1, EnvironmentInvHolds, PTL

\* With the same exceptions an update on E2B leaves the sandbox and the document
\* in agreement, whether it went through or was rolled back: they differ only
\* while one holds the lock or after one died, and never when an update that
\* committed gives the lock back.
THEOREM SandboxMatchesRecordHolds ==
  ASSUME EnvironmentAssumption, ~OutliveLock PROVE Spec => []SandboxMatchesRecord
<1>1. EnvironmentInv => SandboxMatchesRecord
  <2>1. ASSUME E2BInv PROVE SandboxMatchesRecord
    <3> SUFFICES ASSUME sandbox.secrets # project.secrets
                 PROVE  /\ lock.owner # None \/ \E o \in Ops : At(o, "dead")
                        /\ \A o \in Ops : At(o, "release") => ~op[o].committed
      BY DEF SandboxMatchesRecord
    <3>1. \A o \in Ops : StageOK(o)
      BY <2>1 DEF E2BInv, E2BOK
    <3>2. CASE ~NoneDied
      BY <3>1, <3>2 DEF NoneDied, At, StageOK
    <3>3. ASSUME NEW o \in Ops, op[o].pc \in Apart
          PROVE  lock.owner # None
      <4>1. op[o].pc \in Locked
        BY <3>3 DEF Apart, Locked
      <4>2. lock.owner = o
        BY <3>1, <4>1 DEF StageOK
      <4> QED BY <4>2 DEF EnvironmentAssumption
    <3>4. ~NoneDied \/ \E o \in Ops : op[o].pc \in Apart
      BY <2>1 DEF E2BInv, E2BOK
    <3>5. \A o \in Ops : At(o, "release") => ~op[o].committed
      BY <3>1 DEF StageOK, At
    <3> QED BY <3>2, <3>3, <3>4, <3>5
  <2>2. DaytonaInv => SandboxMatchesRecord
    BY DEF DaytonaInv, SandboxMatchesRecord
  <2> QED BY <2>1, <2>2 DEF EnvironmentInv, SandboxMatchesRecord
<1> QED BY <1>1, EnvironmentInvHolds, PTL

-----------------------------------------------------------------------------
(* The desktop of a sandbox. *)

DesktopBounds == None \notin Requests \cup Desktop!Ops /\ MaxFaults \in Nat

RequestSteps == {"idle", "enter", "shared", "queued", "settling", "falling"}
           \cup Desktop!Starting \cup Desktop!Working \cup Desktop!Ended
RequestRecord == [op : Desktop!Ops \cup {None}, pc : RequestSteps, on : Requests \cup {None},
            down : SUBSET {"vnc", "web"}]

\* Who opens the desktop or recovers its stream, and has the preview to do it.
Opens(l) == (l.pc \in Desktop!Starting /\ l.op # "start") \/ l.pc \in Desktop!Working
\* vnc may be restarted: no stream is cut, or nobody could tell.
Restartable == ~connected /\ (vnc = "down" \/ slips # {})
\* What a request is for, and what it knows of the vnc it is about to restart.
DesktopRequestIs ==
  {l \in RequestRecord :
     /\ l.pc \in {"enter", "shared", "queued"} \cup Desktop!Starting => l.op \in {"start", "open", "recover"}
     /\ l.pc \in {"enter", "shared", "queued"} \cup Desktop!Working => l.op \in {"open", "recover"}
     /\ l.pc = "revnc" => Restartable
     /\ l.pc = "fix" /\ "vnc" \in l.down => Restartable}
DesktopTypes ==
  /\ box \in {"stopped", "starting", "started", "stopping"}
  /\ starter \in Requests \cup {None} /\ preview \in Requests \cup {None}
  /\ cached \in BOOLEAN /\ connected \in BOOLEAN /\ dropped \in BOOLEAN
  /\ vnc \in {"up", "down"} /\ web \in {"up", "down", "stale"}
  /\ late \in SUBSET (Requests \X {"vnc", "web"}) /\ slips \in SUBSET Desktop!Slips
  /\ faults \in 0 .. MaxFaults
DesktopInv ==
  /\ DesktopTypes /\ req \in [Requests -> RequestRecord]
  /\ \A r \in Requests : req[r] \in DesktopRequestIs /\ (Opens(req[r]) => preview = r)
  /\ (dropped => slips # {}) /\ (connected => vnc = "up" /\ web = "up")

\* What a step of one request must leave: no other one opens, or the services are as
\* they were.
LEMMA OneRequest ==
  ASSUME DesktopBounds, DesktopInv, NEW r \in Requests, NEW new \in RequestRecord,
         req' = [req EXCEPT ![r] = new], DesktopTypes', new \in DesktopRequestIs',
         Opens(new) => preview' = r,
         preview' = preview \/ preview \in {r, None},
         Restartable => Restartable' \/ preview = r,
         dropped' => slips' # {}, connected' => vnc' = "up" /\ web' = "up"
  PROVE  DesktopInv'
<1>1. req' \in [Requests -> RequestRecord] /\ req'[r] = new
  BY DEF DesktopInv
<1>2. ASSUME NEW q \in Requests, q # r
      PROVE  req'[q] \in DesktopRequestIs' /\ (Opens(req'[q]) => preview' = q)
  <2> DEFINE l == req[q]
  <2>1. req'[q] = l /\ l \in RequestRecord /\ l \in DesktopRequestIs /\ (Opens(l) => preview = q)
    BY <1>2 DEF DesktopInv
  <2>2. Opens(l) => preview' = q /\ (Restartable => Restartable')
    BY <1>2, <2>1 DEF DesktopBounds
  <2> HIDE DEF l
  <2>3. l.pc \in {"fix", "revnc"} => Opens(l)
    BY DEF Opens, Desktop!Working
  <2>4. l \in DesktopRequestIs'
    BY <2>1, <2>2, <2>3 DEF DesktopRequestIs
  <2> QED BY <2>1, <2>2, <2>4
<1> QED BY <1>1, <1>2 DEF DesktopInv

LEMMA ServicesRest ==
  ASSUME DesktopBounds, DesktopInv, NEW r \in Requests, NEW new \in DesktopRequestIs,
         req' = [req EXCEPT ![r] = new], UNCHANGED <<vnc, web, connected, dropped, slips>>,
         DesktopTypes', Opens(new) => preview' = r,
         preview' = preview \/ preview \in {r, None}
  PROVE  DesktopInv'
<1>1. Restartable' = Restartable
  BY DEF Restartable
<1>2. new \in RequestRecord /\ new \in DesktopRequestIs'
  BY <1>1 DEF DesktopRequestIs
<1>3. (dropped' => slips' # {}) /\ (connected' => vnc' = "up" /\ web' = "up")
  BY DEF DesktopInv
<1> QED BY <1>1, <1>2, <1>3, OneRequest

\* A request gets to another step, and what it waits for may change.
LEMMA GoesOn ==
  ASSUME DesktopBounds, DesktopInv, NEW r \in Requests, NEW pc \in RequestSteps,
         Desktop!Goes(r, pc) \/ \E on \in Requests \cup {None} : Desktop!Waits(r, pc, on),
         UNCHANGED <<vnc, web, connected, dropped, slips>>, DesktopTypes',
         pc \in {"enter", "shared", "queued"} \cup Desktop!Starting => req[r].op \in {"start", "open", "recover"},
         pc \in {"enter", "shared", "queued"} \cup Desktop!Working => req[r].op \in {"open", "recover"},
         pc = "revnc" => Restartable,
         pc = "fix" /\ "vnc" \in req[r].down => Restartable,
         (pc \in Desktop!Starting /\ req[r].op # "start") \/ pc \in Desktop!Working => preview' = r,
         preview' = preview \/ preview \in {r, None}
  PROVE  DesktopInv'
<1>1. PICK new \in RequestRecord : /\ req' = [req EXCEPT ![r] = new]
                             /\ new.pc = pc /\ new.op = req[r].op /\ new.down = req[r].down
  <2>1. req[r] \in RequestRecord
    BY DEF DesktopInv
  <2>2. CASE Desktop!Goes(r, pc)
    <3> DEFINE new == [req[r] EXCEPT !.pc = pc]
    <3>1. req' = [req EXCEPT ![r] = new]
      BY <2>2 DEF Desktop!Goes, DesktopInv
    <3>2. new \in RequestRecord /\ new.pc = pc /\ new.op = req[r].op /\ new.down = req[r].down
      BY <2>1 DEF RequestRecord
    <3> HIDE DEF new
    <3> QED BY <3>1, <3>2
  <2>3. ASSUME NEW on \in Requests \cup {None}, Desktop!Waits(r, pc, on)
        PROVE  \E new \in RequestRecord : /\ req' = [req EXCEPT ![r] = new]
                             /\ new.pc = pc /\ new.op = req[r].op /\ new.down = req[r].down
    <3> DEFINE new == [req[r] EXCEPT !.pc = pc, !.on = on]
    <3>1. req' = [req EXCEPT ![r] = new]
      BY <2>3 DEF Desktop!Waits, DesktopInv
    <3>2. new \in RequestRecord /\ new.pc = pc /\ new.op = req[r].op /\ new.down = req[r].down
      BY <2>1 DEF RequestRecord
    <3> HIDE DEF new
    <3> QED BY <3>1, <3>2
  <2> QED BY <2>2, <2>3
<1>2. new \in DesktopRequestIs /\ (Opens(new) => preview' = r)
  BY <1>1 DEF DesktopRequestIs, Opens
<1> QED BY <1>1, <1>2, ServicesRest

LEMMA EndsIs ==
  ASSUME DesktopBounds, DesktopInv, NEW r \in Requests, NEW pc \in {"done", "failed", "settling", "falling"},
         Desktop!Goes(r, pc), UNCHANGED <<vnc, web, connected, dropped, slips>>, DesktopTypes',
         preview' = preview \/ preview \in {r, None}
  PROVE  DesktopInv'
<1>1. pc \in RequestSteps /\ pc \notin {"enter", "shared", "queued"} \cup Desktop!Starting \cup Desktop!Working
  BY DEF RequestSteps, Desktop!Starting, Desktop!Working, Desktop!Ended
<1> QED BY <1>1, GoesOn DEF Desktop!Working

\* A request settles, and leaves the preview if it is its own.
LEMMA SettlesStep ==
  ASSUME DesktopBounds, DesktopInv, NEW r \in Requests, NEW pc \in {"done", "failed"},
         Desktop!Settles(r, pc), UNCHANGED <<vnc, web, connected, dropped, slips>>,
         DesktopTypes /\ preview' \in Requests \cup {None} => DesktopTypes'
  PROVE  DesktopInv'
<1>1. Desktop!Goes(r, pc) /\ preview' = IF preview = r THEN None ELSE preview
  BY DEF Desktop!Settles
<1>2. DesktopTypes'
  BY <1>1 DEF DesktopInv, DesktopTypes
<1> QED BY <1>1, <1>2, EndsIs

LEMMA BeginsStep ==
  ASSUME DesktopBounds, DesktopInv, NEW r \in Requests, req[r].pc \in Desktop!Starting,
         \/ Desktop!Goes(r, Desktop!Begins(r))
         \/ Desktop!Waits(r, Desktop!Begins(r), None),
         UNCHANGED <<vnc, web, connected, dropped, late, slips, preview>>, DesktopTypes'
  PROVE  DesktopInv'
<1>1. req[r].op \in {"start", "open", "recover"} /\ (req[r].op # "start" => preview = r)
  BY DEF DesktopInv, DesktopRequestIs, Opens
<1>2. /\ Desktop!Begins(r) \in {"done", "inspect", "probe"}
      /\ Desktop!Begins(r) # "done" => req[r].op \in {"open", "recover"}
  BY <1>1 DEF Desktop!Begins
<1>3. /\ Desktop!Begins(r) \in RequestSteps
      /\ Desktop!Begins(r) \notin {"enter", "shared", "queued", "revnc", "fix"} \cup Desktop!Starting
      /\ Desktop!Begins(r) \in Desktop!Working => Desktop!Begins(r) # "done"
  BY <1>2 DEF RequestSteps, Desktop!Starting, Desktop!Working, Desktop!Ended
<1> DEFINE b == Desktop!Begins(r)
<1> HIDE DEF b
<1>4. b \in RequestSteps /\ (Desktop!Goes(r, b) \/ \E on \in Requests \cup {None} : Desktop!Waits(r, b, on))
  BY <1>3 DEF b
<1>5. /\ b \notin {"enter", "shared", "queued", "revnc", "fix"} \cup Desktop!Starting
      /\ b \in Desktop!Working => req[r].op \in {"open", "recover"} /\ preview' = r
  BY <1>1, <1>2, <1>3 DEF b
<1> QED BY <1>4, <1>5, GoesOn

LEMMA RequestStep ==
  ASSUME DesktopBounds, DesktopInv, NEW r \in Requests, Desktop!Request(r)
  PROVE  DesktopInv'
<1>1. PICK task \in Desktop!Ops :
        /\ req' = [req EXCEPT ![r].op = task,
                     ![r].pc = CASE task = "start" -> "boot"
                                 [] task = "stop" -> "settling"
                                 [] OTHER -> "enter",
                     ![r].on = IF task = "stop" THEN starter ELSE None]
        /\ UNCHANGED <<box, starter, cached, preview, vnc, web, connected, dropped, late, slips, faults>>
  BY DEF Desktop!Request, Desktop!desktop
<1> DEFINE pc == CASE task = "start" -> "boot" [] task = "stop" -> "settling" [] OTHER -> "enter"
           on == IF task = "stop" THEN starter ELSE None
           new == [req[r] EXCEPT !.op = task, !.pc = pc, !.on = on]
<1>2. req' = [req EXCEPT ![r] = new] /\ req[r] \in RequestRecord /\ starter \in Requests \cup {None}
  BY <1>1 DEF DesktopInv, DesktopTypes
<1>3. pc \in RequestSteps /\ on \in Requests \cup {None} /\ task \in {"start", "stop", "open", "recover"}
  BY <1>1, <1>2 DEF RequestSteps, Desktop!Starting, Desktop!Ops
<1>4. /\ task = "start" => pc = "boot"
      /\ task = "stop" => pc = "settling"
      /\ task \in {"open", "recover"} => pc = "enter"
  OBVIOUS
<1> HIDE DEF pc, on
<1>5. new \in RequestRecord /\ new.pc = pc /\ new.op = task
  BY <1>2, <1>3 DEF RequestRecord
<1> HIDE DEF new
<1>6. new \in DesktopRequestIs /\ ~Opens(new)
  BY <1>3, <1>4, <1>5 DEF DesktopRequestIs, Opens, Desktop!Starting, Desktop!Working
<1>7. DesktopTypes'
  BY <1>1 DEF DesktopInv, DesktopTypes
<1> QED BY <1>1, <1>2, <1>6, <1>7, ServicesRest

LEMMA EnterStep ==
  ASSUME DesktopBounds, DesktopInv, NEW r \in Requests, Desktop!Enter(r)
  PROVE  DesktopInv'
<1>1. /\ req[r].pc = "enter" /\ UNCHANGED <<box, starter, cached, vnc, web, connected, dropped, late, slips, faults>>
      /\ \/ \E pc \in {"queued", "shared"} :
              Desktop!Waits(r, pc, preview) /\ preview' = preview
         \/ Desktop!Goes(r, "boot") /\ preview' = r /\ preview = None
  BY DEF Desktop!Enter, Desktop!At, Desktop!desktop, Desktop!MustQueue
<1>2. req[r].op \in {"open", "recover"} /\ preview \in Requests \cup {None} /\ DesktopTypes'
  BY <1>1 DEF DesktopInv, DesktopRequestIs, DesktopTypes
<1>3. {"queued", "shared", "boot"} \subseteq RequestSteps /\ "boot" \in Desktop!Starting
      /\ \A pc \in {"queued", "shared"} : pc \notin Desktop!Starting \cup Desktop!Working
      /\ "boot" \notin Desktop!Working
  BY DEF RequestSteps, Desktop!Starting, Desktop!Working
<1>4. CASE Desktop!Goes(r, "boot") /\ preview' = r /\ preview = None
  BY <1>1, <1>2, <1>3, <1>4, GoesOn
<1>5. ASSUME NEW pc \in {"queued", "shared"}, Desktop!Waits(r, pc, preview), preview' = preview
      PROVE  DesktopInv'
  BY <1>1, <1>2, <1>3, <1>5, GoesOn
<1> QED BY <1>1, <1>4, <1>5

LEMMA AwakesStep ==
  ASSUME DesktopBounds, DesktopInv, NEW r \in Requests, Desktop!Awakes(r)
  PROVE  DesktopInv'
<1>1. PICK pc \in {"enter"} \cup Desktop!Ended :
        /\ Desktop!Waits(r, pc, None) /\ req[r].pc \in {"queued", "shared"}
        /\ UNCHANGED <<box, starter, cached, preview, vnc, web, connected, dropped, late, slips, faults>>
  BY DEF Desktop!Awakes, Desktop!desktop
<1>2. pc \in RequestSteps /\ pc \notin {"shared", "queued"} \cup Desktop!Starting \cup Desktop!Working
  BY DEF RequestSteps, Desktop!Starting, Desktop!Working, Desktop!Ended
<1>3. req[r].op \in {"open", "recover"} /\ DesktopTypes'
  BY <1>1 DEF DesktopInv, DesktopRequestIs, DesktopTypes
<1> QED BY <1>1, <1>2, <1>3, GoesOn DEF Desktop!Working

\* The sandbox is started and stopped.
LEMMA BootStep ==
  ASSUME DesktopBounds, DesktopInv, NEW r \in Requests, Desktop!Start(r) \/ Desktop!FailStart(r)
  PROVE  DesktopInv'
<1>1. DesktopTypes /\ req[r].pc \in RequestSteps
  BY DEF DesktopInv, RequestRecord
<1>2. CASE Desktop!Boot(r)
  <2>1. /\ req[r].pc = "boot" /\ UNCHANGED <<box, cached, preview, vnc, web, connected, dropped, late, slips, faults>>
        /\ starter' \in {starter, r}
    BY <1>2 DEF Desktop!Boot, Desktop!At, Desktop!desktop
  <2>2. DesktopTypes' /\ req[r].pc \in Desktop!Starting
    BY <1>1, <2>1 DEF DesktopTypes, Desktop!Starting
  <2>3. CASE Desktop!Goes(r, Desktop!Begins(r))
    BY <2>1, <2>2, <2>3, BeginsStep
  <2>4. ASSUME NEW pc \in {"joined", "get"},
               Desktop!Goes(r, pc) \/ (starter # None /\ Desktop!Waits(r, pc, starter))
        PROVE  DesktopInv'
    <3>1. pc \in RequestSteps /\ pc \in Desktop!Starting /\ pc \notin Desktop!Working
      BY DEF RequestSteps, Desktop!Starting, Desktop!Working
    <3>2. /\ req[r].op \in {"start", "open", "recover"}
          /\ req[r].op # "start" => preview = r
      BY <2>2 DEF DesktopInv, DesktopRequestIs, Opens
    <3>3. Desktop!Goes(r, pc) \/ \E on \in Requests \cup {None} : Desktop!Waits(r, pc, on)
      BY <1>1, <2>4 DEF DesktopTypes
    <3> QED BY <2>1, <2>2, <3>1, <3>2, <3>3, GoesOn
  <2> QED BY <1>2, <2>3, <2>4 DEF Desktop!Boot
<1>3. CASE Desktop!Get(r)
  <2>1. req[r].pc = "get" /\ UNCHANGED <<preview, vnc, web, connected, dropped, late, slips, faults>>
    BY <1>3 DEF Desktop!Get, Desktop!At, Desktop!desktop
  <2>2. DesktopTypes' /\ req[r].pc \in Desktop!Starting
    BY <1>1, <1>3, <2>1 DEF DesktopTypes, Desktop!Starting, Desktop!Get
  <2>3. CASE Desktop!Goes(r, "rising")
    <3>1. "rising" \in RequestSteps /\ "rising" \in Desktop!Starting /\ "rising" \notin Desktop!Working
      BY DEF RequestSteps, Desktop!Starting, Desktop!Working
    <3>2. /\ req[r].op \in {"start", "open", "recover"}
          /\ req[r].op # "start" => preview = r
      BY <2>2 DEF DesktopInv, DesktopRequestIs, Opens
    <3> QED BY <2>1, <2>2, <2>3, <3>1, <3>2, GoesOn
  <2> QED BY <1>3, <2>1, <2>2, <2>3, BeginsStep DEF Desktop!Get
<1>4. CASE Desktop!Rise(r)
  <2>1. req[r].pc = "rising" /\ UNCHANGED <<box, preview, vnc, web, connected, dropped, late, slips, faults>>
    BY <1>4 DEF Desktop!Rise, Desktop!At, Desktop!desktop
  <2>2. DesktopTypes' /\ req[r].pc \in Desktop!Starting
    BY <1>1, <1>4, <2>1 DEF DesktopTypes, Desktop!Starting, Desktop!Rise
  <2> QED BY <1>4, <2>1, <2>2, BeginsStep DEF Desktop!Rise
<1>5. CASE Desktop!Joined(r)
  <2>1. req[r].pc = "joined" /\ UNCHANGED <<box, starter, cached, vnc, web, connected, dropped, late, slips, faults>>
    BY <1>5 DEF Desktop!Joined, Desktop!At, Desktop!desktop
  <2>2. req[r].pc \in Desktop!Starting
    BY <2>1 DEF Desktop!Starting
  <2>3. CASE Desktop!Settles(r, "failed")
    <3>1. DesktopTypes /\ preview' \in Requests \cup {None} => DesktopTypes'
      BY <2>1 DEF DesktopTypes
    <3> QED BY <2>1, <2>3, <3>1, SettlesStep
  <2>4. CASE Desktop!Waits(r, Desktop!Begins(r), None) /\ preview' = preview
    <3>1. DesktopTypes'
      BY <1>1, <2>1, <2>4 DEF DesktopTypes
    <3> QED BY <2>1, <2>2, <2>4, <3>1, BeginsStep
  <2> QED BY <1>5, <2>3, <2>4 DEF Desktop!Joined
<1>6. CASE Desktop!FailStart(r)
  <2>1. /\ Desktop!Settles(r, "failed") /\ UNCHANGED <<box, cached, vnc, web, connected, dropped, late, slips>>
        /\ starter' = None /\ faults < MaxFaults /\ faults' = faults + 1
    BY <1>6 DEF Desktop!FailStart, Desktop!Fails, Desktop!desktop
  <2>2. faults' \in 0 .. MaxFaults
    BY <1>1, <2>1 DEF DesktopTypes, DesktopBounds
  <2>3. DesktopTypes /\ preview' \in Requests \cup {None} => DesktopTypes'
    BY <2>1, <2>2 DEF DesktopTypes
  <2> QED BY <2>1, <2>3, SettlesStep
<1> QED BY <1>2, <1>3, <1>4, <1>5, <1>6 DEF Desktop!Start

LEMMA StopStep ==
  ASSUME DesktopBounds, DesktopInv, NEW r \in Requests, Desktop!Stop(r) \/ Desktop!Fallen(r)
  PROVE  DesktopInv'
<1>1. PICK pc \in {"falling", "done", "failed"} :
        Desktop!Goes(r, pc) /\ UNCHANGED <<starter, preview, vnc, web, connected, dropped, late, slips, faults>>
  BY DEF Desktop!Stop, Desktop!Fallen, Desktop!desktop
<1>2. box' \in {"stopped", "starting", "started", "stopping"} /\ cached' \in BOOLEAN
  BY DEF Desktop!Stop, Desktop!Fallen, DesktopInv, DesktopTypes
<1>3. DesktopTypes'
  BY <1>1, <1>2 DEF DesktopInv, DesktopTypes
<1> QED BY <1>1, <1>3, EndsIs

\* The sandbox goes down with its services, or one of them breaks.
LEMMA WorldStep ==
  ASSUME DesktopBounds, DesktopInv, Desktop!BoxMoves \/ Desktop!Breaks \/ Desktop!Expire
  PROVE  DesktopInv'
<1>1. /\ UNCHANGED <<starter, preview, req, dropped, slips>>
      /\ vnc' \in {vnc, "down"} /\ (connected' => connected /\ UNCHANGED <<vnc, web>>)
  BY
  DEF Desktop!BoxMoves, Desktop!Breaks, Desktop!Expire, Desktop!desktop, DesktopInv,
      DesktopTypes
<1>2. DesktopTypes'
  <2>1. CASE Desktop!BoxMoves
    BY <2>1 DEF Desktop!BoxMoves, Desktop!desktop, DesktopInv, DesktopTypes
  <2>2. CASE Desktop!Breaks
    <3>1. faults' \in 0 .. MaxFaults /\ UNCHANGED <<box, starter, cached, preview, dropped, late, slips>>
      BY <2>2 DEF Desktop!Breaks, Desktop!Fails, DesktopInv, DesktopTypes, DesktopBounds
    <3>2. vnc' \in {"up", "down"} /\ web' \in {"up", "down", "stale"} /\ connected' = FALSE
      BY <2>2 DEF Desktop!Breaks, DesktopInv, DesktopTypes
    <3> QED BY <3>1, <3>2 DEF DesktopInv, DesktopTypes
  <2>3. CASE Desktop!Expire
    BY <2>3 DEF Desktop!Expire, Desktop!desktop, DesktopInv, DesktopTypes
  <2> QED BY <2>1, <2>2, <2>3
<1>3. DesktopRequestIs \subseteq DesktopRequestIs'
  BY <1>1 DEF DesktopRequestIs, Restartable
<1> QED BY <1>1, <1>2, <1>3 DEF DesktopInv

\* The services.
LEMMA InspectStep ==
  ASSUME DesktopBounds, DesktopInv, NEW r \in Requests, Desktop!Inspect(r)
  PROVE  DesktopInv'
<1> DEFINE pc == IF Desktop!Down = {} THEN "check" ELSE "fix"
           down == Desktop!Down
           new == [req[r] EXCEPT !.pc = pc, !.down = down]
<1>1. /\ req[r].pc = "inspect" /\ req' = [req EXCEPT ![r] = new]
      /\ UNCHANGED <<box, starter, cached, preview, vnc, web, connected, dropped, late, slips, faults>>
  BY DEF Desktop!Inspect, Desktop!At, Desktop!desktop, DesktopInv
<1>2. /\ pc \in {"check", "fix"} /\ down \in SUBSET {"vnc", "web"}
      /\ "vnc" \in down => Restartable
  BY DEF Desktop!Down, Restartable, DesktopInv
<1>3. req[r] \in RequestRecord /\ req[r].op \in {"open", "recover"} /\ preview = r /\ DesktopTypes'
  BY <1>1 DEF DesktopInv, DesktopRequestIs, Opens, Desktop!Working, DesktopTypes
<1>4. pc \in RequestSteps /\ pc \in Desktop!Working /\ pc \notin {"enter", "shared", "queued"} \cup Desktop!Starting
  BY <1>2 DEF RequestSteps, Desktop!Starting, Desktop!Working
<1> HIDE DEF pc, down
<1>5. new \in RequestRecord /\ new.pc = pc /\ new.op = req[r].op /\ new.down = down
  BY <1>2, <1>3, <1>4 DEF RequestRecord
<1> HIDE DEF new
<1>6. new \in DesktopRequestIs
  BY <1>2, <1>3, <1>4, <1>5 DEF DesktopRequestIs
<1> QED BY <1>1, <1>3, <1>6, ServicesRest

\* Whoever works on the services may restart the vnc that is down.
LEMMA VncStarts ==
  ASSUME DesktopBounds, DesktopInv, NEW r \in Requests, NEW new \in RequestRecord, Desktop!StartVnc,
         req[r].pc \in Desktop!Working, new.pc \in {"fix", "reweb", "erred"}, new.op = req[r].op,
         "vnc" \notin new.down \/ new.pc # "fix", Restartable,
         req' = [req EXCEPT ![r] = new], faults' \in 0 .. MaxFaults,
         UNCHANGED <<box, starter, cached, preview, connected, late, slips>>
  PROVE  DesktopInv'
<1>1. req[r].op \in {"open", "recover"} /\ preview = r
  BY DEF DesktopInv, DesktopRequestIs, Opens
<1>2. ~connected' /\ (dropped' => slips' # {})
  BY DEF DesktopInv, Restartable, Desktop!StartVnc
<1>3. DesktopTypes' /\ preview' = r
  BY <1>1 DEF DesktopInv, DesktopTypes, Desktop!StartVnc
<1>4. new \in DesktopRequestIs'
  BY <1>1 DEF DesktopRequestIs, Desktop!Starting
<1> QED BY <1>1, <1>2, <1>3, <1>4, OneRequest

\* Whoever works on the services may replace web, which connects no stream to a vnc
\* that is down.
LEMMA WebStarts ==
  ASSUME DesktopBounds, DesktopInv, NEW r \in Requests, NEW new \in DesktopRequestIs',
         req[r].pc \in Desktop!Working, Opens(new) => preview' = r,
         Desktop!StartWeb \/ UNCHANGED web,
         connected' = connected \/ (connected' = (vnc = "up") /\ Desktop!StartWeb),
         req' = [req EXCEPT ![r] = new], faults' \in 0 .. MaxFaults,
         preview' \in {preview, None},
         UNCHANGED <<box, starter, cached, vnc, dropped, late, slips>>
  PROVE  DesktopInv'
<1>1. preview = r
  BY DEF DesktopInv, Opens
<1>2. connected' \in BOOLEAN /\ web' \in {"up", "down", "stale"}
  BY DEF DesktopInv, DesktopTypes, Desktop!StartWeb
<1>3. DesktopTypes'
  BY <1>1, <1>2 DEF DesktopInv, DesktopTypes
<1>4. (dropped' => slips' # {}) /\ (connected' => vnc' = "up" /\ web' = "up")
  <2>1. (dropped => slips # {}) /\ (connected => vnc = "up" /\ web = "up")
    BY DEF DesktopInv
  <2>2. UNCHANGED <<dropped, slips, vnc>> /\ connected \in BOOLEAN /\ connected' \in BOOLEAN
    BY <1>2 DEF DesktopInv, DesktopTypes
  <2>3. ASSUME connected' = TRUE PROVE web' = "up" /\ vnc = "up"
    BY ONLY <2>1, <2>2, <2>3, Desktop!StartWeb \/ UNCHANGED web,
            connected' = connected \/ (connected' = (vnc = "up") /\ Desktop!StartWeb)
    DEF Desktop!StartWeb
  <2> QED BY ONLY <2>1, <2>2, <2>3
<1>5. new \in RequestRecord
  BY DEF DesktopRequestIs
<1> QED BY <1>1, <1>3, <1>4, <1>5, OneRequest

LEMMA FailsIs ==
  ASSUME DesktopBounds, DesktopInv, Desktop!Fails \/ UNCHANGED faults
  PROVE  faults' \in 0 .. MaxFaults
BY DEF DesktopBounds, DesktopInv, DesktopTypes, Desktop!Fails

LEMMA FixStep ==
  ASSUME DesktopBounds, DesktopInv, NEW r \in Requests, Desktop!Fix(r)
  PROVE  DesktopInv'
<1>1. /\ req[r].pc = "fix" /\ UNCHANGED <<box, starter, cached, preview, connected, late, slips>>
      /\ faults' \in 0 .. MaxFaults
  BY FailsIs DEF Desktop!Fix, Desktop!At, Desktop!desktop
<1>2. /\ req[r] \in RequestRecord /\ req[r].op \in {"open", "recover"} /\ preview = r
      /\ "vnc" \in req[r].down => Restartable
      /\ req[r].pc \in Desktop!Working
  BY <1>1 DEF DesktopInv, DesktopRequestIs, Opens, Desktop!Working
<1>3. CASE req[r].down = {}
  <2>1. Desktop!Goes(r, "check") /\ UNCHANGED <<vnc, web, connected, dropped>>
    BY <1>3 DEF Desktop!Fix, Desktop!desktop
  <2>2. DesktopTypes' /\ "check" \in RequestSteps
    BY <1>1, <2>1 DEF DesktopInv, DesktopTypes, RequestSteps, Desktop!Working
  <2>3. "check" \notin Desktop!Starting
    BY DEF Desktop!Starting
  <2> QED BY <1>1, <1>2, <2>1, <2>2, <2>3, GoesOn
<1>4. CASE req[r].down # {}
  <2>1. PICK p \in {"vnc", "web"} :
          /\ p = "vnc" <=> "vnc" \in req[r].down
          /\ req' = [req EXCEPT ![r].down = @ \ {p}]
          /\ Desktop!Restarts(p) \/ UNCHANGED <<vnc, web, dropped>>
    BY <1>4 DEF Desktop!Fix
  <2> DEFINE new == [req[r] EXCEPT !.down = @ \ {p}]
  <2>2. req' = [req EXCEPT ![r] = new]
    BY <2>1 DEF DesktopInv
  <2>3. /\ new \in RequestRecord /\ new.pc = "fix" /\ new.op = req[r].op
        /\ new.down \subseteq req[r].down /\ p \notin new.down
    BY <1>1, <1>2 DEF RequestRecord
  <2> HIDE DEF new
  <2>4. CASE p = "vnc" /\ Desktop!StartVnc
    BY <1>1, <1>2, <2>1, <2>2, <2>3, <2>4, VncStarts
  <2>5. CASE UNCHANGED <<vnc, dropped>> /\ (Desktop!StartWeb \/ UNCHANGED web)
    <3>1. Restartable' = Restartable
      BY <1>1, <2>5 DEF Restartable
    <3>2. new \in DesktopRequestIs'
      BY <1>2, <2>3, <3>1 DEF DesktopRequestIs, Desktop!Starting
    <3> QED BY <1>1, <1>2, <2>2, <2>5, <3>2, WebStarts
  <2> QED BY <2>1, <2>4, <2>5 DEF Desktop!Restarts
<1> QED BY <1>3, <1>4

LEMMA RecoverStep ==
  ASSUME DesktopBounds, DesktopInv, NEW r \in Requests,
         \/ Desktop!Probe(r) \/ Desktop!RestartVnc(r) \/ Desktop!ReplaceWeb(r)
         \/ Desktop!AfterError(r)
  PROVE  DesktopInv'
<1>1. /\ req[r].pc \in {"probe", "revnc", "reweb", "erred"}
      /\ UNCHANGED <<box, starter, cached, late>> /\ faults' \in 0 .. MaxFaults
  BY FailsIs
  DEF Desktop!Probe, Desktop!RestartVnc, Desktop!ReplaceWeb, Desktop!AfterError, Desktop!At,
      Desktop!desktop
<1>2. /\ req[r] \in RequestRecord /\ req[r].op \in {"open", "recover"} /\ preview = r
      /\ req[r].pc = "revnc" => Restartable
      /\ req[r].pc \in Desktop!Working
  BY <1>1 DEF DesktopInv, DesktopRequestIs, Opens, Desktop!Working
<1> DEFINE new(pc) == [req[r] EXCEPT !.pc = pc]
<1>3. \A pc : Desktop!Goes(r, pc) => req' = [req EXCEPT ![r] = new(pc)]
  BY DEF Desktop!Goes, DesktopInv
<1>4. \A pc \in {"reweb", "revnc", "erred", "done", "failed"} :
        new(pc) \in RequestRecord /\ new(pc).pc = pc /\ new(pc).op = req[r].op
  BY <1>2 DEF RequestRecord, RequestSteps, Desktop!Working, Desktop!Ended
<1> HIDE DEF new
<1>5. CASE Desktop!Probe(r)
  <2>1. PICK pc \in {"reweb", "revnc"} :
          /\ Desktop!Goes(r, pc) /\ (pc = "revnc" => vnc # "up" \/ slips' # {})
          /\ connected' \in {connected, FALSE} /\ (slips' # slips => connected' = FALSE /\ slips' # {})
          /\ pc = "revnc" /\ vnc = "up" => connected' = FALSE
          /\ slips' \in {slips, slips \cup {"misread"}} /\ UNCHANGED <<preview, vnc, web, dropped>>
    BY <1>5 DEF Desktop!Probe, Desktop!desktop
  <2>2. DesktopTypes'
    BY <1>1, <2>1 DEF DesktopInv, DesktopTypes, Desktop!Slips
  <2>3. Restartable => Restartable'
    BY <2>1 DEF Restartable
  <2>4. pc = "revnc" => Restartable'
    BY <2>1 DEF Restartable, DesktopInv, DesktopTypes
  <2>5. new(pc) \in DesktopRequestIs'
    BY <1>2, <1>4, <2>1, <2>4 DEF DesktopRequestIs, Desktop!Starting
  <2>6. (dropped' => slips' # {}) /\ (connected' => vnc' = "up" /\ web' = "up")
    <3>1. (dropped => slips # {}) /\ (connected => vnc = "up" /\ web = "up")
      BY DEF DesktopInv
    <3>2. UNCHANGED <<dropped, vnc, web>> /\ (slips # {} => slips' # {})
      BY <2>1
    <3>3. connected' => connected
      <4>1. connected' = connected \/ connected' = FALSE
        BY <2>1
      <4> QED BY ONLY <4>1
    <3> QED BY ONLY <3>1, <3>2, <3>3
  <2> QED BY <1>2, <1>3, <1>4, <2>1, <2>2, <2>3, <2>5, <2>6, OneRequest
<1>6. CASE Desktop!RestartVnc(r)
  <2>1. PICK pc \in {"reweb", "erred"} :
          /\ Desktop!Goes(r, pc) /\ (Desktop!StartVnc \/ UNCHANGED <<vnc, web, dropped>>)
          /\ UNCHANGED <<connected, preview, slips>> /\ req[r].pc = "revnc"
    BY <1>6 DEF Desktop!RestartVnc, Desktop!At
  <2>2. CASE Desktop!StartVnc
    BY <1>1, <1>2, <1>3, <1>4, <2>1, <2>2, VncStarts
  <2>3. CASE UNCHANGED <<vnc, web, dropped>>
    <3>1. new(pc) \in DesktopRequestIs'
      BY <1>2, <1>4, <2>1 DEF DesktopRequestIs, Desktop!Starting
    <3> QED BY <1>1, <1>2, <1>3, <2>1, <2>3, <3>1, WebStarts
  <2> QED BY <2>1, <2>2, <2>3
<1>7. CASE Desktop!ReplaceWeb(r) \/ Desktop!AfterError(r)
  <2>1. PICK pc \in {"done", "failed"} :
          /\ Desktop!Settles(r, pc) /\ UNCHANGED <<vnc, dropped, slips>>
          /\ Desktop!StartWeb \/ UNCHANGED web
          /\ connected' = connected \/ (connected' = (vnc = "up") /\ Desktop!StartWeb)
    BY <1>7 DEF Desktop!ReplaceWeb, Desktop!AfterError
  <2>2. req' = [req EXCEPT ![r] = new(pc)] /\ preview' = None
    BY <1>2, <1>3, <2>1 DEF Desktop!Settles
  <2>3. new(pc) \in DesktopRequestIs' /\ ~Opens(new(pc))
    BY <1>4 DEF DesktopRequestIs, Opens, Desktop!Working, Desktop!Starting
  <2> QED BY <1>1, <1>2, <2>1, <2>2, <2>3, WebStarts
<1> QED BY <1>5, <1>6, <1>7

\* A request that runs out of time leaves its restarts to the sandbox, where they land.
LEMMA AbandonStep ==
  ASSUME DesktopBounds, DesktopInv, NEW r \in Requests, Desktop!Abandon(r)
  PROVE  DesktopInv'
<1>1. /\ Desktop!Settles(r, "failed")
      /\ UNCHANGED <<box, starter, cached, vnc, web, connected, dropped, slips>>
      /\ late' = late \cup ({r} \X Desktop!Abandons(r)) /\ faults' \in 0 .. MaxFaults
  BY FailsIs DEF Desktop!Abandon
<1>2. Desktop!Abandons(r) \subseteq {"vnc", "web"}
  BY DEF Desktop!Abandons, DesktopInv, RequestRecord
<1>3. late' \in SUBSET (Requests \X {"vnc", "web"})
  BY <1>1, <1>2 DEF DesktopInv, DesktopTypes
<1>4. DesktopTypes /\ preview' \in Requests \cup {None} => DesktopTypes'
  BY <1>1, <1>3 DEF DesktopTypes
<1> QED BY <1>1, <1>4, SettlesStep

LEMMA LandStep ==
  ASSUME DesktopBounds, DesktopInv, NEW r \in Requests, NEW p \in {"vnc", "web"}, Desktop!Land(r, p)
  PROVE  DesktopInv'
<1>1. /\ UNCHANGED <<box, starter, cached, preview, req, faults>> /\ late' \subseteq late
      /\ connected' = (connected /\ p # "vnc")
      /\ slips' = IF p = "vnc" THEN slips \cup {"landed"} ELSE slips
      /\ IF p = "vnc" THEN Desktop!StartVnc ELSE UNCHANGED <<vnc, dropped>> /\ Desktop!StartWeb
  BY DEF Desktop!Land, Desktop!Restarts
<1>2. DesktopTypes'
  BY <1>1 DEF DesktopInv, DesktopTypes, Desktop!Slips, Desktop!StartVnc, Desktop!StartWeb
<1>3. Restartable => Restartable'
  BY <1>1 DEF Restartable
<1>4. DesktopRequestIs \subseteq DesktopRequestIs'
  BY <1>3 DEF DesktopRequestIs
<1>5. (dropped' => slips' # {}) /\ (connected' => vnc' = "up" /\ web' = "up")
  BY <1>1 DEF DesktopInv, Desktop!StartWeb
<1> QED BY <1>1, <1>2, <1>4, <1>5 DEF DesktopInv

LEMMA OtherWorkStep ==
  ASSUME DesktopBounds, DesktopInv, NEW r \in Requests, Desktop!Retry(r) \/ Desktop!Check(r)
  PROVE  DesktopInv'
<1>1. UNCHANGED <<box, starter, cached, vnc, web, connected, dropped, late, slips, faults>>
  BY DEF Desktop!Retry, Desktop!Check, Desktop!desktop
<1>2. CASE Desktop!Goes(r, "boot") /\ preview' = preview /\ req[r].pc \in Desktop!Working
  <2>1. req[r].op \in {"open", "recover"} /\ preview = r
    BY <1>2 DEF DesktopInv, DesktopRequestIs, Opens
  <2>2. DesktopTypes' /\ "boot" \in RequestSteps /\ "boot" \notin Desktop!Working
    BY <1>1, <1>2
    DEF DesktopInv, DesktopTypes, RequestSteps, Desktop!Working, Desktop!Starting
  <2> QED BY <1>1, <1>2, <2>1, <2>2, GoesOn
<1>3. ASSUME NEW pc \in {"done", "failed"}, Desktop!Settles(r, pc) PROVE DesktopInv'
  <2>1. DesktopTypes /\ preview' \in Requests \cup {None} => DesktopTypes'
    BY <1>1 DEF DesktopTypes
  <2> QED BY <1>1, <1>3, <2>1, SettlesStep
<1> QED BY <1>2, <1>3 DEF Desktop!Retry, Desktop!Check

\* StreamIsKept: whatever requests start, stop, open and recover at once and whatever fails,
\* wherever a deadline leaves a restart that lands later, a vnc that serves is restarted only
\* where one has landed or a probe went unanswered, and a stream that was recovered stays
\* connected until something breaks.
THEOREM StreamIsKeptHolds ==
  ASSUME DesktopBounds
  PROVE  Desktop!Spec => [](Desktop!TypeOK /\ Desktop!StreamIsKept)
<1>1. Desktop!Init => DesktopInv
  <2> SUFFICES ASSUME Desktop!Init PROVE DesktopInv
    OBVIOUS
  <2> DEFINE new == [op |-> None, pc |-> "idle", on |-> None, down |-> {}]
  <2>1. /\ req = [r \in Requests |-> new] /\ new \in RequestRecord
        /\ new.pc = "idle" /\ new.down = {}
    BY DEF Desktop!Init, RequestRecord, RequestSteps
  <2> HIDE DEF new
  <2>3. new \in DesktopRequestIs /\ ~Opens(new)
    BY <2>1 DEF DesktopRequestIs, Opens, Desktop!Starting, Desktop!Working
  <2>2. DesktopTypes /\ ~dropped /\ ~connected
    <3>1. late = {} /\ slips = {} /\ dropped = FALSE /\ connected = FALSE /\ faults = 0 /\ 0 \in 0 .. MaxFaults
      BY DEF Desktop!Init, DesktopBounds
    <3>2. box \in {"stopped", "started"} /\ starter = None /\ cached = FALSE /\ preview = None
          /\ vnc = "down" /\ web = "down"
      BY DEF Desktop!Init
    <3> QED BY <3>1, <3>2 DEF DesktopTypes
  <2> QED BY <2>1, <2>2, <2>3 DEF DesktopInv
<1>2. DesktopBounds /\ DesktopInv /\ [Desktop!Next]_Desktop!vars => DesktopInv'
  <2> SUFFICES ASSUME DesktopInv, [Desktop!Next]_Desktop!vars PROVE DesktopInv'
    OBVIOUS
  <2>1. CASE UNCHANGED Desktop!vars
    <3>1. UNCHANGED <<box, starter, cached, preview, vnc, web, req, connected, dropped, late, slips, faults>>
      BY <2>1 DEF Desktop!vars
    <3>2. DesktopTypes' /\ DesktopRequestIs' = DesktopRequestIs
      BY <3>1 DEF DesktopInv, DesktopTypes, DesktopRequestIs, Restartable
    <3> QED BY <3>1, <3>2 DEF DesktopInv
  <2>2. ASSUME NEW r \in Requests,
               \/ Desktop!Request(r) \/ Desktop!Enter(r) \/ Desktop!Awakes(r) \/ Desktop!Start(r)
               \/ Desktop!FailStart(r) \/ Desktop!Stop(r) \/ Desktop!Fallen(r)
        PROVE  DesktopInv'
    BY <2>2, RequestStep, EnterStep, AwakesStep, BootStep, StopStep
  <2>3. ASSUME NEW r \in Requests, Desktop!Work(r) PROVE DesktopInv'
    BY <2>3, InspectStep, FixStep, RecoverStep, OtherWorkStep, AbandonStep DEF Desktop!Work
  <2> QED BY <2>1, <2>2, <2>3, WorldStep, LandStep DEF Desktop!Next
<1>3. DesktopInv => Desktop!TypeOK /\ Desktop!StreamIsKept
  BY
  DEF DesktopInv, DesktopTypes, RequestRecord, RequestSteps, Desktop!TypeOK,
      Desktop!StreamIsKept
<1> QED BY <1>1, <1>2, <1>3, PTL DEF Desktop!Spec

-----------------------------------------------------------------------------
(* Making the desktop ready. *)

ReadinessBounds ==
  /\ SessionOf \in [Calls -> Sessions] /\ "none" \notin Calls /\ IsFiniteSet(Sessions)
  /\ MaxFaults \in Nat

CallRecord == [pc : Readiness!Steps, down : SUBSET Services, found : {"down", "unsafe", "safe"}]
\* The steps of the call that works for its session.
Works == {"inspect", "restart", "poll"}
OneSession == \A s, t \in Sessions : s = t

ReadinessTypes ==
  /\ call \in [Calls -> CallRecord]
  /\ up \subseteq Services /\ gateway \in {"down", "unsafe", "safe"}
  /\ ready \subseteq Sessions /\ known \subseteq Sessions
  /\ pending \in [Sessions -> Calls \cup {"none"}] /\ recovery \in Calls \cup {"none"}
  /\ late \in SUBSET (Calls \X (Services \cup {"start"}))
  /\ landed \subseteq Services /\ disturbed \subseteq Services
  /\ cooling \in BOOLEAN /\ faults \in 0 .. MaxFaults
\* A call works for its session exactly when the session's promise is its own; who waits
\* waits for one.
CallIs(c) ==
  /\ call[c].pc \in Works => pending[SessionOf[c]] = c
  /\ call[c].pc = "wait" => pending[SessionOf[c]] # "none"
  /\ call[c].pc = "join" => recovery # "none"
  /\ call[c].pc = "restart" /\ OneSession => call[c].down \cap up \subseteq landed
PendingOK ==
  \A s \in Sessions : pending[s] # "none" => SessionOf[pending[s]] = s /\ call[pending[s]].pc \in Works
ReadinessInv ==
  /\ ReadinessTypes /\ PendingOK /\ (OneSession => disturbed \subseteq landed)
  /\ \A c \in Calls : CallIs(c)

LEMMA CallsAre ==
  ASSUME ReadinessBounds, ReadinessInv, NEW c \in Calls
  PROVE  /\ call[c] \in CallRecord /\ call[c].pc \in Readiness!Steps /\ call[c].down \subseteq Services
         /\ SessionOf[c] \in Sessions /\ c # "none" /\ Readiness!Session(c) = SessionOf[c]
         /\ pending[SessionOf[c]] \in Calls \cup {"none"} /\ CallIs(c)
BY DEF ReadinessBounds, ReadinessInv, ReadinessTypes, CallRecord, Readiness!Session

\* What a step of one call must leave.  Where there is one session, one call restarts.
LEMMA OneCall ==
  ASSUME ReadinessBounds, ReadinessInv, NEW c \in Calls, NEW new \in CallRecord,
         call' = [call EXCEPT ![c] = new], ReadinessTypes', pending' = pending,
         recovery # "none" => recovery' # "none",
         up' = up \/ call[c].pc = "restart", landed' = landed, OneSession => disturbed' \subseteq landed,
         new.pc \in Works <=> call[c].pc \in Works,
         new.pc = "wait" => pending[SessionOf[c]] # "none",
         new.pc = "join" => recovery' # "none",
         new.pc = "restart" /\ OneSession => new.down \cap up' \subseteq landed
  PROVE  ReadinessInv'
<1>1. call'[c] = new /\ call \in [Calls -> CallRecord] /\ PendingOK
  BY DEF ReadinessInv, ReadinessTypes
<1>2. CallIs(c)'
  <2>1. new.pc \in Works => pending[SessionOf[c]] = c
    BY CallsAre DEF CallIs
  <2> QED BY <1>1, <2>1 DEF CallIs, OneSession
<1>3. ASSUME NEW d \in Calls, d # c PROVE CallIs(d)'
  <2>1. call'[d] = call[d] /\ CallIs(d)
    BY <1>1, <1>3, CallsAre
  <2>2. CASE up' = up
    BY <2>1, <2>2 DEF CallIs, OneSession
  <2>3. CASE call[c].pc = "restart"
    <3>1. OneSession => call[d].pc # "restart"
      BY <1>3, <2>1, <2>3, CallsAre DEF CallIs, OneSession, Works
    <3> QED BY <2>1, <3>1 DEF CallIs, OneSession
  <2> QED BY <2>2, <2>3
<1>4. PendingOK'
  <2> SUFFICES ASSUME NEW s \in Sessions, pending[s] # "none"
               PROVE  SessionOf[pending[s]] = s /\ call'[pending[s]].pc \in Works
    BY DEF PendingOK
  <2>1. pending[s] \in Calls /\ SessionOf[pending[s]] = s /\ call[pending[s]].pc \in Works
    BY <1>1 DEF PendingOK, ReadinessInv, ReadinessTypes
  <2> QED BY <1>1, <2>1
<1> QED BY <1>2, <1>3, <1>4 DEF ReadinessInv, OneSession

LEMMA GoesCall ==
  ASSUME ReadinessBounds, ReadinessInv, NEW c \in Calls, NEW pc \in Readiness!Steps, Readiness!Goes(c, pc)
  PROVE  \E new \in CallRecord : /\ call' = [call EXCEPT ![c] = new]
                                 /\ new.pc = pc /\ new.down = call[c].down
<1> DEFINE new == [call[c] EXCEPT !.pc = pc]
<1>1. call' = [call EXCEPT ![c] = new]
  BY DEF Readiness!Goes, ReadinessInv, ReadinessTypes
<1>2. new \in CallRecord /\ new.pc = pc /\ new.down = call[c].down
  BY CallsAre DEF CallRecord
<1> HIDE DEF new
<1> QED BY <1>1, <1>2

\* A call that does not work for its session gets to a step that asks for nothing.
LEMMA GoesFreely ==
  ASSUME ReadinessBounds, ReadinessInv, NEW c \in Calls, NEW pc \in Readiness!Steps,
         Readiness!Goes(c, pc), call[c].pc \notin Works,
         pc \notin Works \cup {"wait", "join"} \/ (pc = "join" /\ recovery' # "none")
           \/ (pc = "wait" /\ pending[SessionOf[c]] # "none"),
         UNCHANGED <<up, pending, late, landed, disturbed>>, recovery # "none" => recovery' # "none",
         ReadinessTypes'
  PROVE  ReadinessInv'
<1>1. PICK new \in CallRecord : /\ call' = [call EXCEPT ![c] = new]
                                /\ new.pc = pc /\ new.down = call[c].down
  BY GoesCall
<1>2. OneSession => disturbed' \subseteq landed
  BY DEF ReadinessInv
<1>3. new.pc \notin Works /\ new.pc # "restart"
  BY <1>1 DEF Works
<1> QED BY <1>1, <1>2, <1>3, OneCall

\* What a step leaves of the types when it only moves calls.
LEMMA CallTypes ==
  ASSUME ReadinessInv, call' \in [Calls -> CallRecord],
         UNCHANGED <<up, gateway, ready, pending, known, recovery, cooling, late, landed, disturbed, faults>>
  PROVE  ReadinessTypes'
BY DEF ReadinessInv, ReadinessTypes

LEMMA GoesTyped ==
  ASSUME ReadinessBounds, ReadinessInv, NEW c \in Calls, NEW pc \in Readiness!Steps, Readiness!Goes(c, pc)
  PROVE  call' \in [Calls -> CallRecord]
BY GoesCall DEF ReadinessInv, ReadinessTypes

LEMMA EnsureStep ==
  ASSUME ReadinessBounds, ReadinessInv, NEW c \in Calls, Readiness!Ensure(c)
  PROVE  ReadinessInv'
<1>1. /\ call[c].pc = "new"
      /\ UNCHANGED <<up, gateway, ready, known, recovery, cooling, late, landed, disturbed, faults>>
      /\ \/ Readiness!Goes(c, "gateway") /\ pending' = pending
         \/ Readiness!Goes(c, "wait") /\ pending' = pending /\ pending[SessionOf[c]] # "none"
         \/ /\ Readiness!Goes(c, "inspect") /\ pending' = [pending EXCEPT ![SessionOf[c]] = c]
            /\ pending[SessionOf[c]] = "none"
  BY CallsAre
  DEF Readiness!Ensure, Readiness!At, Readiness!Shared, Readiness!NoCall, Readiness!client, Readiness!history
<1>2. {"gateway", "wait", "inspect"} \subseteq Readiness!Steps /\ "new" \notin Works
      /\ "gateway" \notin Works \cup {"wait", "join"}
  BY DEF Readiness!Steps, Works
<1>3. CASE \/ Readiness!Goes(c, "gateway") /\ pending' = pending
           \/ Readiness!Goes(c, "wait") /\ pending' = pending /\ pending[SessionOf[c]] # "none"
  <2>1. ReadinessTypes'
    BY <1>1, <1>2, <1>3, GoesTyped, CallTypes
  <2> QED BY <1>1, <1>2, <1>3, <2>1, GoesFreely
<1>4. CASE /\ Readiness!Goes(c, "inspect") /\ pending' = [pending EXCEPT ![SessionOf[c]] = c]
           /\ pending[SessionOf[c]] = "none"
  <2>1. PICK new \in CallRecord : /\ call' = [call EXCEPT ![c] = new] /\ new.pc = "inspect"
    BY <1>2, <1>4, GoesCall
  <2>2. /\ call \in [Calls -> CallRecord] /\ pending \in [Sessions -> Calls \cup {"none"}]
        /\ PendingOK
    BY DEF ReadinessInv, ReadinessTypes
  <2>3. ReadinessTypes'
    BY <1>1, <1>4, <2>1, <2>2 DEF ReadinessInv, ReadinessTypes
  <2>4. ASSUME NEW d \in Calls PROVE CallIs(d)'
    <3>1. CASE d = c
      BY <1>4, <2>1, <2>2, <3>1, CallsAre DEF CallIs
    <3>2. CASE d # c
      <4>1. call'[d] = call[d] /\ CallIs(d) /\ SessionOf[d] \in Sessions
        BY <2>1, <2>2, <3>2, CallsAre
      <4>2. call[d].pc \in Works => SessionOf[d] # SessionOf[c]
        BY <1>4, <4>1, CallsAre DEF CallIs
      <4>3. pending[SessionOf[d]] # "none" => pending'[SessionOf[d]] = pending[SessionOf[d]]
        BY <1>4, <2>2, <4>1
      <4>4. call[d].pc \in Works => pending'[SessionOf[d]] = d
        BY <4>1, <4>3, CallsAre DEF CallIs
      <4> QED BY <1>1, <4>1, <4>3, <4>4 DEF CallIs, OneSession
    <3> QED BY <3>1, <3>2
  <2>5. PendingOK'
    <3> SUFFICES ASSUME NEW s \in Sessions, pending'[s] # "none"
                 PROVE  SessionOf[pending'[s]] = s /\ call'[pending'[s]].pc \in Works
      BY DEF PendingOK
    <3>1. CASE s = SessionOf[c]
      BY <1>4, <2>1, <2>2, <3>1 DEF Works
    <3>2. CASE s # SessionOf[c]
      <4>1. pending'[s] = pending[s] /\ pending[s] \in Calls
        BY <1>4, <2>2, <3>2
      <4>2. SessionOf[pending[s]] = s /\ call[pending[s]].pc \in Works /\ pending[s] # c
        BY <2>2, <4>1, <3>2 DEF PendingOK
      <4> QED BY <2>1, <2>2, <4>1, <4>2
    <3> QED BY <3>1, <3>2
  <2> QED BY <1>1, <2>3, <2>4, <2>5 DEF ReadinessInv, OneSession
<1> QED BY <1>1, <1>3, <1>4

\* The promise of a session settles.
LEMMA SettlesCall ==
  ASSUME ReadinessBounds, ReadinessInv, NEW c \in Calls, NEW ok \in BOOLEAN,
         Readiness!Settles(c, ok), call[c].pc \in Works,
         UNCHANGED <<up, gateway, known, recovery, cooling, landed, disturbed>>, faults' \in 0 .. MaxFaults,
         late' \in SUBSET (Calls \X (Services \cup {"start"}))
  PROVE  ReadinessInv'
<1> DEFINE pc == IF ok THEN "gateway" ELSE "failed"
           gone == {d \in Calls : d = c \/ (call[d].pc = "wait" /\ SessionOf[d] = SessionOf[c])}
<1>1. /\ call \in [Calls -> CallRecord] /\ pending \in [Sessions -> Calls \cup {"none"}]
      /\ ready \subseteq Sessions /\ PendingOK /\ pending[SessionOf[c]] = c
  BY CallsAre DEF ReadinessInv, ReadinessTypes, CallIs
<1>2. /\ pending' = [pending EXCEPT ![SessionOf[c]] = "none"]
      /\ ready' \subseteq ready \cup {SessionOf[c]}
      /\ call' = [d \in Calls |-> IF d \in gone THEN [call[d] EXCEPT !.pc = pc] ELSE call[d]]
  <2>1. \A d \in Calls : Readiness!Session(d) = SessionOf[d]
    BY CallsAre
  <2>2. /\ pending' = [pending EXCEPT ![SessionOf[c]] = "none"]
        /\ ready' \subseteq ready \cup {SessionOf[c]}
        /\ call' = [d \in Calls |->
                     IF d = c \/ (call[d].pc = "wait" /\ SessionOf[d] = SessionOf[c])
                     THEN [call[d] EXCEPT !.pc = pc] ELSE call[d]]
    BY <2>1 DEF Readiness!Settles, Readiness!NoCall
  <2> QED BY <2>2
<1>3. pc \in Readiness!Steps /\ pc \notin Works \cup {"wait", "join", "restart"}
  BY DEF Readiness!Steps, Works
<1> HIDE DEF pc
<1>4. \A d \in Calls : /\ d \in gone => call'[d] \in CallRecord /\ call'[d].pc = pc
                       /\ d \notin gone => call'[d] = call[d]
  BY <1>1, <1>2, <1>3 DEF CallRecord
<1>5. \A d \in Calls : d \in gone <=> d = c \/ (call[d].pc = "wait" /\ SessionOf[d] = SessionOf[c])
  OBVIOUS
<1>6. call' = [d \in Calls |-> call'[d]] /\ \A d \in Calls : call'[d] \in CallRecord
  BY <1>1, <1>2, <1>4
<1> HIDE DEF gone
<1>7. ReadinessTypes'
  BY <1>1, <1>2, <1>6, CallsAre DEF ReadinessInv, ReadinessTypes
<1>8. ASSUME NEW d \in Calls PROVE CallIs(d)'
  <2>1. CASE d \in gone
    BY <1>3, <1>4, <2>1 DEF CallIs
  <2>2. CASE d \notin gone
    <3>1. call'[d] = call[d] /\ CallIs(d) /\ SessionOf[d] \in Sessions
      BY <1>4, <2>2, CallsAre
    <3>2. call[d].pc \in Works \cup {"wait"} => SessionOf[d] # SessionOf[c]
      BY <1>1, <1>5, <2>2, <3>1 DEF CallIs
    <3>3. call[d].pc \in Works \cup {"wait"} => pending'[SessionOf[d]] = pending[SessionOf[d]]
      BY <1>1, <1>2, <3>1, <3>2
    <3> QED BY <3>1, <3>3 DEF CallIs, OneSession
  <2> QED BY <2>1, <2>2
<1>9. PendingOK'
  <2> SUFFICES ASSUME NEW s \in Sessions, pending'[s] # "none"
               PROVE  SessionOf[pending'[s]] = s /\ call'[pending'[s]].pc \in Works
    BY DEF PendingOK
  <2>1. s # SessionOf[c] /\ pending'[s] = pending[s] /\ pending[s] \in Calls
    BY <1>1, <1>2
  <2>2. SessionOf[pending[s]] = s /\ call[pending[s]].pc \in Works
    BY <1>1, <2>1 DEF PendingOK
  <2>3. pending[s] \notin gone
    BY <1>5, <2>1, <2>2 DEF Works
  <2> QED BY <1>4, <2>1, <2>2, <2>3
<1> QED BY <1>7, <1>8, <1>9 DEF ReadinessInv, OneSession

\* A call of a session that works goes on working.
LEMMA WorksOn ==
  ASSUME ReadinessBounds, ReadinessInv, NEW c \in Calls, NEW new \in CallRecord,
         new.pc \in {"restart", "poll"}, call' = [call EXCEPT ![c] = new],
         call[c].pc \in Works, up' = up \/ call[c].pc = "restart", up' \subseteq Services,
         OneSession => disturbed' \cup (new.down \cap up') \subseteq landed, disturbed' \subseteq Services,
         faults' \in 0 .. MaxFaults,
         UNCHANGED <<gateway, ready, pending, known, recovery, cooling, late, landed>>
  PROVE  ReadinessInv'
<1>1. ReadinessTypes'
  BY DEF ReadinessInv, ReadinessTypes
<1>2. new.pc \in Works /\ new.pc \notin {"wait", "join"}
  BY DEF Works
<1> QED BY <1>1, <1>2, OneCall

LEMMA FaultIs ==
  ASSUME ReadinessBounds, ReadinessInv, Readiness!Fault
  PROVE  faults' \in 0 .. MaxFaults
BY DEF ReadinessBounds, ReadinessInv, ReadinessTypes, Readiness!Fault

LEMMA InspectCall ==
  ASSUME ReadinessBounds, ReadinessInv, NEW c \in Calls, Readiness!Inspect(c)
  PROVE  ReadinessInv'
<1>1. /\ call[c].pc = "inspect" /\ call[c].pc \in Works
      /\ UNCHANGED <<up, gateway, known, recovery, cooling, late, landed, disturbed>>
      /\ faults' \in 0 .. MaxFaults
  <2>1. call[c].pc = "inspect" /\ UNCHANGED <<up, gateway, known, recovery, cooling, late, landed, disturbed>>
    BY DEF Readiness!Inspect, Readiness!At, Readiness!client, Readiness!history
  <2>2. faults' = faults \/ Readiness!Fault
    BY DEF Readiness!Inspect
  <2> QED BY <2>1, <2>2, FaultIs DEF Works, ReadinessInv, ReadinessTypes
<1>2. ASSUME NEW down \in SUBSET (Services \ up), UNCHANGED <<ready, pending>>,
             call' = [call EXCEPT ![c].pc = "restart", ![c].down = down]
      PROVE  ReadinessInv'
  <2> DEFINE new == [call[c] EXCEPT !.pc = "restart", !.down = down]
  <2>1. call' = [call EXCEPT ![c] = new]
    BY <1>2 DEF ReadinessInv, ReadinessTypes
  <2>2. new \in CallRecord /\ new.pc = "restart" /\ new.down = down
    BY CallsAre DEF CallRecord, Readiness!Steps
  <2> HIDE DEF new
  <2>3. /\ up' \subseteq Services /\ disturbed' \subseteq Services
        /\ OneSession => disturbed' \cup (new.down \cap up') \subseteq landed
    BY <1>1, <2>2 DEF ReadinessInv, ReadinessTypes
  <2> QED BY <1>1, <1>2, <2>1, <2>2, <2>3, WorksOn
<1>3. late' \in SUBSET (Calls \X (Services \cup {"start"}))
  BY <1>1 DEF ReadinessInv, ReadinessTypes
<1> QED BY <1>1, <1>2, <1>3, SettlesCall DEF Readiness!Inspect, Readiness!desktop

LEMMA RestartCall ==
  ASSUME ReadinessBounds, ReadinessInv, NEW c \in Calls, Readiness!Restart(c)
  PROVE  ReadinessInv'
<1>1. /\ call[c].pc = "restart" /\ call[c].pc \in Works /\ call[c].down \subseteq Services
      /\ UNCHANGED <<gateway, ready, pending, known, recovery, cooling, late, landed>>
      /\ faults' \in 0 .. MaxFaults /\ up \subseteq Services
      /\ OneSession => disturbed \cup (call[c].down \cap up) \subseteq landed
  <2>1. /\ call[c].pc = "restart" /\ UNCHANGED <<gateway, ready, pending, known, recovery, cooling, late, landed>>
    BY DEF Readiness!Restart, Readiness!At, Readiness!client, Readiness!desktop
  <2>2. faults' = faults \/ Readiness!Fault
    BY DEF Readiness!Restart
  <2> QED BY <2>1, <2>2, FaultIs, CallsAre DEF Works, ReadinessInv, ReadinessTypes, CallIs
<1>2. ASSUME NEW p \in call[c].down,
             call' = [call EXCEPT ![c].down = @ \ {p},
                        ![c].pc = IF call[c].down = {p} THEN "poll" ELSE @],
             disturbed' = disturbed \cup ({p} \cap up), up' = up \cup {p} \/ up' = up
      PROVE  ReadinessInv'
  <2> DEFINE pc == IF call[c].down = {p} THEN "poll" ELSE call[c].pc
             new == [call[c] EXCEPT !.down = @ \ {p}, !.pc = pc]
  <2>1. call' = [call EXCEPT ![c] = new]
    BY <1>2 DEF ReadinessInv, ReadinessTypes
  <2>2. pc \in {"restart", "poll"} /\ pc \in Readiness!Steps
    BY <1>1 DEF Readiness!Steps
  <2> HIDE DEF pc
  <2>3. new \in CallRecord /\ new.pc = pc /\ new.down = call[c].down \ {p}
    BY <2>2, CallsAre DEF CallRecord
  <2> HIDE DEF new
  <2>4. up' \subseteq Services /\ disturbed' \subseteq Services
    BY <1>1, <1>2 DEF ReadinessInv, ReadinessTypes
  <2>5. OneSession => disturbed' \cup (new.down \cap up') \subseteq landed
    BY <1>1, <1>2, <2>3
  <2> QED BY <1>1, <2>1, <2>2, <2>3, <2>4, <2>5, WorksOn
<1>3. CASE /\ call[c].down = {} /\ Readiness!Goes(c, "poll") /\ UNCHANGED disturbed
           /\ up' = Services \/ up' = up
  <2>1. PICK new \in CallRecord : call' = [call EXCEPT ![c] = new] /\ new.pc = "poll" /\ new.down = {}
    BY <1>3, GoesCall DEF Readiness!Steps
  <2>2. disturbed' \subseteq Services /\ up' \subseteq Services
        /\ (OneSession => disturbed' \cup (new.down \cap up') \subseteq landed)
    BY <1>1, <1>3, <2>1 DEF ReadinessInv, ReadinessTypes
  <2> QED BY <1>1, <2>1, <2>2, WorksOn
<1> QED BY <1>2, <1>3 DEF Readiness!Restart

\* A call that runs out of time leaves its restarts to the sandbox, where they land.
LEMMA AbandonCall ==
  ASSUME ReadinessBounds, ReadinessInv, NEW c \in Calls, Readiness!Abandon(c)
  PROVE  ReadinessInv'
<1>1. /\ call[c].pc = "restart" /\ Readiness!Settles(c, FALSE) /\ Readiness!Fault
      /\ UNCHANGED <<up, gateway, known, recovery, cooling, landed, disturbed>>
      /\ late' = late \cup ({c} \X IF call[c].down = {} THEN {"start"} ELSE call[c].down)
  BY DEF Readiness!Abandon, Readiness!At, Readiness!client
<1>2. late' \in SUBSET (Calls \X (Services \cup {"start"}))
  BY <1>1, CallsAre DEF ReadinessInv, ReadinessTypes
<1> QED BY <1>1, <1>2, FaultIs, SettlesCall DEF Works

LEMMA LandCall ==
  ASSUME ReadinessBounds, ReadinessInv, NEW c \in Calls, NEW p \in Services \cup {"start"},
         Readiness!Land(c, p)
  PROVE  ReadinessInv'
<1>1. PICK reached \in SUBSET Services :
        /\ up' = up \cup reached /\ landed' = landed \cup reached
        /\ disturbed' = disturbed \cup (reached \cap up) /\ late' \subseteq late
        /\ UNCHANGED <<call, gateway, ready, pending, known, recovery, cooling, faults>>
  BY DEF Readiness!Land, Readiness!desktop, Readiness!client
<1>2. ReadinessTypes'
  BY <1>1 DEF ReadinessInv, ReadinessTypes
<1>3. ASSUME NEW d \in Calls PROVE CallIs(d)'
  <2>1. CallIs(d) /\ (OneSession' <=> OneSession)
    BY DEF ReadinessInv, OneSession
  <2> QED BY <1>1, <2>1 DEF CallIs
<1>4. PendingOK' /\ (OneSession' => disturbed' \subseteq landed')
  BY <1>1 DEF ReadinessInv, PendingOK, OneSession
<1> QED BY <1>2, <1>3, <1>4 DEF ReadinessInv

LEMMA PollCall ==
  ASSUME ReadinessBounds, ReadinessInv, NEW c \in Calls, Readiness!Poll(c)
  PROVE  ReadinessInv'
<1>1. /\ call[c].pc = "poll" /\ UNCHANGED <<up, gateway, known, recovery, cooling, late, landed, disturbed>>
      /\ faults' = faults \/ Readiness!Fault
      /\ Readiness!Settles(c, up = Services) \/ Readiness!Settles(c, up # Services)
  BY DEF Readiness!Poll, Readiness!At, Readiness!client, Readiness!history
<1>2. /\ faults' \in 0 .. MaxFaults /\ call[c].pc \in Works
      /\ late' \in SUBSET (Calls \X (Services \cup {"start"}))
  BY <1>1, FaultIs DEF Works, ReadinessInv, ReadinessTypes
<1>3. \A ok \in BOOLEAN : Readiness!Settles(c, ok) => ReadinessInv'
  BY <1>1, <1>2, SettlesCall
<1>4. (up = Services) \in BOOLEAN /\ (up # Services) \in BOOLEAN
  OBVIOUS
<1> QED BY <1>1, <1>3, <1>4

\* The gateway.
LEMMA EndsCall ==
  ASSUME ReadinessBounds, ReadinessInv, NEW c \in Calls, NEW pc \in {"ok", "failed"},
         Readiness!Ends(c, pc), call[c].pc \notin Works, known' \subseteq known \cup {SessionOf[c]},
         UNCHANGED <<up, gateway, pending, recovery, cooling, late, landed, disturbed, faults>>
  PROVE  ReadinessInv'
<1>1. pc \in Readiness!Steps /\ pc \notin Works \cup {"wait", "join"}
  BY DEF Readiness!Steps, Works
<1>2. Readiness!Goes(c, pc) /\ ready' \subseteq ready
  BY DEF Readiness!Ends
<1>3. call' \in [Calls -> CallRecord]
  BY <1>1, <1>2, GoesTyped
<1>4. ReadinessTypes'
  BY <1>2, <1>3, CallsAre DEF ReadinessInv, ReadinessTypes
<1> QED BY <1>1, <1>2, <1>4, GoesFreely

LEMMA CheckGatewayCall ==
  ASSUME ReadinessBounds, ReadinessInv, NEW c \in Calls, Readiness!CheckGateway(c)
  PROVE  ReadinessInv'
<1>1. /\ call[c].pc = "gateway" /\ call[c].pc \notin Works
      /\ UNCHANGED <<up, gateway, pending, recovery, cooling, late, landed, disturbed>>
  BY DEF Readiness!CheckGateway, Readiness!At, Readiness!history, Works
<1>2. CASE Readiness!Ends(c, "ok") /\ known' \subseteq known \cup {SessionOf[c]} /\ faults' = faults
  BY <1>1, <1>2, EndsCall
<1>3. ASSUME NEW found \in {"down", "unsafe", "safe"}, UNCHANGED <<ready, known>>,
             call' = [call EXCEPT ![c].pc = "launch", ![c].found = found],
             faults' \in 0 .. MaxFaults
      PROVE  ReadinessInv'
  <2> DEFINE new == [call[c] EXCEPT !.pc = "launch", !.found = found]
  <2>1. call' = [call EXCEPT ![c] = new]
    BY <1>3 DEF ReadinessInv, ReadinessTypes
  <2>2. new \in CallRecord /\ new.pc = "launch"
    BY CallsAre DEF CallRecord, Readiness!Steps
  <2> HIDE DEF new
  <2>3. ReadinessTypes'
    BY <1>1, <1>3, <2>1, <2>2 DEF ReadinessInv, ReadinessTypes
  <2>4. new.pc \notin Works \cup {"wait", "join", "restart"} /\ (OneSession => disturbed' \subseteq landed)
    BY <1>1, <2>2 DEF Works, ReadinessInv
  <2> QED BY <1>1, <2>1, <2>2, <2>3, <2>4, OneCall
<1>4. gateway \in {"down", "unsafe", "safe"} /\ faults \in 0 .. MaxFaults
  BY DEF ReadinessInv, ReadinessTypes
<1>5. CASE Readiness!Fault /\ \E found \in {"down", gateway} :
             /\ call' = [call EXCEPT ![c].pc = "launch", ![c].found = found]
             /\ UNCHANGED <<ready, known>>
  BY <1>3, <1>4, <1>5, FaultIs
<1>6. CASE /\ call' = [call EXCEPT ![c].pc = "launch", ![c].found = gateway]
           /\ UNCHANGED <<ready, known, faults>>
  BY <1>3, <1>4, <1>6
<1> QED BY <1>2, <1>5, <1>6, CallsAre DEF Readiness!CheckGateway

LEMMA RecoverCall ==
  ASSUME ReadinessBounds, ReadinessInv, NEW c \in Calls, Readiness!Recover(c) \/ Readiness!Await(c)
  PROVE  ReadinessInv'
<1>1. /\ call[c].pc \in {"launch", "await"} /\ call[c].pc \notin Works
      /\ UNCHANGED <<up, gateway, pending, late, landed, disturbed, faults>>
  BY DEF Readiness!Recover, Readiness!Await, Readiness!At, Readiness!history, Works
<1>2. ASSUME NEW pc \in {"ok", "failed"}, Readiness!Remembers(c, pc), UNCHANGED <<recovery, cooling>>
      PROVE  ReadinessInv'
  <2>1. Readiness!Ends(c, pc) /\ known' \subseteq known \cup {SessionOf[c]}
    BY <1>2, CallsAre DEF Readiness!Remembers
  <2> QED BY <1>1, <1>2, <2>1, EndsCall
<1>3. ASSUME NEW pc \in {"join", "await"}, Readiness!Goes(c, pc), UNCHANGED <<ready, known>>,
             \/ UNCHANGED <<recovery, cooling>>
             \/ recovery' = c /\ cooling' = TRUE,
             pc = "join" => recovery' # "none"
      PROVE  ReadinessInv'
  <2>1. pc \in Readiness!Steps /\ pc \notin Works \cup {"wait"}
    BY DEF Readiness!Steps, Works
  <2>2. call' \in [Calls -> CallRecord]
    BY <1>3, <2>1, GoesTyped
  <2>3. ReadinessTypes' /\ (recovery # "none" => recovery' # "none")
    BY <1>1, <1>3, <2>2, CallsAre DEF ReadinessInv, ReadinessTypes
  <2> QED BY <1>1, <1>3, <2>1, <2>3, GoesFreely
<1>4. CASE Readiness!Recover(c)
  BY <1>2, <1>3, <1>4, CallsAre DEF Readiness!Recover, Readiness!NoCall
<1>5. CASE Readiness!Await(c)
  BY <1>2, <1>5 DEF Readiness!Await
<1> QED BY <1>4, <1>5

LEMMA LaunchedStep ==
  ASSUME ReadinessBounds, ReadinessInv, Readiness!Launched
  PROVE  ReadinessInv'
<1>1. /\ call \in [Calls -> CallRecord] /\ PendingOK
      /\ recovery' = "none" /\ UNCHANGED <<up, pending, late, landed, disturbed>>
  BY DEF Readiness!Launched, Readiness!NoCall, Readiness!history, ReadinessInv, ReadinessTypes
<1>2. PICK ok \in BOOLEAN : call' = [d \in Calls |->
        IF d \notin {e \in Calls : call[e].pc = "join"} THEN call[d]
        ELSE [call[d] EXCEPT !.pc = IF ok THEN "await"
                                    ELSE IF call[d].found = "down" THEN "failed" ELSE "ok"]]
  BY DEF Readiness!Launched
<1>3. ASSUME NEW d \in Calls
      PROVE  /\ call'[d] \in CallRecord
             /\ call[d].pc # "join" => call'[d] = call[d]
             /\ call[d].pc = "join" => call'[d].pc \in {"await", "failed", "ok"}
  <2>1. CASE call[d].pc # "join"
    BY <1>1, <1>2, <2>1
  <2>2. CASE call[d].pc = "join"
    <3> DEFINE pc == IF ok THEN "await" ELSE IF call[d].found = "down" THEN "failed" ELSE "ok"
    <3>1. call'[d] = [call[d] EXCEPT !.pc = pc]
      BY <1>2, <2>2
    <3>2. pc \in {"await", "failed", "ok"} /\ pc \in Readiness!Steps
      BY DEF Readiness!Steps
    <3> HIDE DEF pc
    <3> QED BY <1>1, <2>2, <3>1, <3>2 DEF CallRecord
  <2> QED BY <2>1, <2>2
<1>4. call' \in [Calls -> CallRecord]
  BY <1>2, <1>3
<1>5. /\ ready' \subseteq ready /\ known' \subseteq Sessions /\ cooling' \in BOOLEAN
      /\ gateway' \in {gateway, "safe"} /\ faults' \in 0 .. MaxFaults
  <2>1. \A d \in Calls : Readiness!Session(d) \in Sessions
    BY CallsAre
  <2>2. faults' = faults \/ Readiness!Fault
    BY DEF Readiness!Launched
  <2>3. faults' \in 0 .. MaxFaults
    BY <2>2, FaultIs DEF ReadinessInv, ReadinessTypes
  <2>4. /\ ready' \subseteq ready /\ cooling' \in {cooling, FALSE} /\ gateway' \in {gateway, "safe"}
        /\ \/ known' = known
           \/ known' = known \cup {Readiness!Session(d) : d \in
                         {e \in {d \in Calls : call[d].pc = "join"} : call[e].found # "down"}}
    BY DEF Readiness!Launched
  <2>5. known' \subseteq Sessions
    BY <2>1, <2>4 DEF ReadinessInv, ReadinessTypes
  <2> QED BY <2>3, <2>4, <2>5 DEF ReadinessInv, ReadinessTypes
<1>6. ReadinessTypes'
  BY <1>1, <1>4, <1>5 DEF ReadinessInv, ReadinessTypes
<1>7. \A d \in Calls : CallIs(d)'
  BY <1>1, <1>3 DEF ReadinessInv, CallIs, OneSession, Works
<1>8. PendingOK'
  <2> SUFFICES ASSUME NEW s \in Sessions, pending[s] # "none"
               PROVE  SessionOf[pending[s]] = s /\ call'[pending[s]].pc \in Works
    BY <1>1 DEF PendingOK
  <2>1. pending[s] \in Calls /\ SessionOf[pending[s]] = s /\ call[pending[s]].pc \in Works
    BY <1>1 DEF PendingOK, ReadinessInv, ReadinessTypes
  <2> QED BY <1>3, <2>1 DEF Works
<1> QED BY <1>1, <1>6, <1>7, <1>8 DEF ReadinessInv, OneSession

\* A service or the gateway stops, or what was known expires.
LEMMA DesktopMoves ==
  ASSUME ReadinessBounds, ReadinessInv,
         Readiness!GatewayDies \/ Readiness!Expire \/ \E p \in Services : Readiness!Stop(p)
  PROVE  ReadinessInv'
<1>1. UNCHANGED <<call, pending, recovery, late, landed, disturbed>> /\ up' \subseteq up
  BY
  DEF Readiness!GatewayDies, Readiness!Expire, Readiness!Stop, Readiness!desktop,
      Readiness!client, Readiness!history
<1>2. /\ gateway' \in {gateway, "down"} /\ ready' \subseteq ready /\ known' \subseteq known
      /\ cooling' \in {cooling, FALSE}
  BY
  DEF Readiness!GatewayDies, Readiness!Expire, Readiness!Stop, Readiness!desktop,
      Readiness!client
<1>3. faults' \in 0 .. MaxFaults
  <2>1. faults' = faults \/ Readiness!Fault
    BY DEF Readiness!GatewayDies, Readiness!Expire, Readiness!Stop
  <2> QED BY <2>1, FaultIs DEF ReadinessInv, ReadinessTypes
<1>4. ReadinessTypes'
  BY <1>1, <1>2, <1>3 DEF ReadinessInv, ReadinessTypes
<1>5. \A d \in Calls : CallIs(d)'
  BY <1>1 DEF ReadinessInv, CallIs, OneSession
<1>6. PendingOK'
  BY <1>1 DEF ReadinessInv, PendingOK
<1> QED BY <1>1, <1>4, <1>5, <1>6 DEF ReadinessInv, OneSession

LEMMA ReadinessBegins ==
  ASSUME ReadinessBounds, Readiness!Init
  PROVE  ReadinessInv
<1> DEFINE new == [pc |-> "new", down |-> {}, found |-> "down"]
<1>1. call = [c \in Calls |-> new] /\ new \in CallRecord /\ new.pc = "new"
  BY DEF Readiness!Init, CallRecord, Readiness!Steps
<1> HIDE DEF new
<1>2. /\ up \subseteq Services /\ gateway \in {"down", "unsafe", "safe"}
      /\ ready = {} /\ known = {} /\ pending = [s \in Sessions |-> "none"]
      /\ recovery = "none"
  BY DEF Readiness!Init, Readiness!NoCall
<1>3. /\ late = {} /\ landed = {} /\ disturbed = {}
      /\ cooling = FALSE /\ faults \in 0 .. MaxFaults
  BY DEF Readiness!Init, ReadinessBounds
<1>4. ReadinessTypes /\ PendingOK
  BY <1>1, <1>2, <1>3 DEF ReadinessTypes, PendingOK
<1>5. \A c \in Calls : CallIs(c)
  BY <1>1 DEF CallIs, Works
<1> QED BY <1>3, <1>4, <1>5 DEF ReadinessInv

\* NoServiceIsDisturbed: the calls of one session restart a service that runs only if a
\* restart that one of them had abandoned reached it, and a call that waits is waited for by
\* a call that works.
THEOREM NoServiceIsDisturbedHolds ==
  ASSUME ReadinessBounds
  PROVE  Readiness!Spec => [](Readiness!TypeOK /\ Readiness!NoServiceIsDisturbed)
<1>1. ReadinessBounds /\ Readiness!Init => ReadinessInv
  BY ReadinessBegins
<1>2. ReadinessBounds /\ ReadinessInv /\ [Readiness!Next]_Readiness!vars => ReadinessInv'
  <2> SUFFICES ASSUME ReadinessInv, [Readiness!Next]_Readiness!vars PROVE ReadinessInv'
    OBVIOUS
  <2>1. CASE UNCHANGED Readiness!vars
    <3>1. UNCHANGED <<call, up, gateway, ready, pending, known, recovery, cooling, late, landed, disturbed, faults>>
      BY <2>1 DEF Readiness!vars
    <3>2. ReadinessTypes' /\ PendingOK' /\ \A c \in Calls : CallIs(c)'
      BY <3>1 DEF ReadinessInv, ReadinessTypes, PendingOK, CallIs, OneSession
    <3> QED BY <3>1, <3>2 DEF ReadinessInv, OneSession
  <2>2. ASSUME NEW c \in Calls,
               \/ Readiness!Ensure(c) \/ Readiness!Inspect(c) \/ Readiness!Restart(c)
               \/ Readiness!Abandon(c) \/ Readiness!Poll(c) \/ Readiness!CheckGateway(c)
               \/ Readiness!Recover(c) \/ Readiness!Await(c)
        PROVE  ReadinessInv'
    BY <2>2, EnsureStep, InspectCall, RestartCall, AbandonCall, PollCall, CheckGatewayCall, RecoverCall
  <2> QED BY <2>1, <2>2, LaunchedStep, DesktopMoves, LandCall DEF Readiness!Next
<1>3. ReadinessBounds /\ ReadinessInv => Readiness!TypeOK /\ Readiness!NoServiceIsDisturbed
  <2> SUFFICES ASSUME ReadinessInv PROVE Readiness!TypeOK /\ Readiness!NoServiceIsDisturbed
    OBVIOUS
  <2>1. Readiness!TypeOK
    BY DEF ReadinessInv, ReadinessTypes, CallRecord, Readiness!TypeOK, Readiness!NoCall
  <2>2. Cardinality(Sessions) = 1 => OneSession
    BY FS_Singleton DEF ReadinessBounds, OneSession
  <2>3. ASSUME NEW c \in Calls
        PROVE  /\ call[c].pc = "wait" => /\ pending[SessionOf[c]] # "none"
                                         /\ call[pending[SessionOf[c]]].pc \in Works
               /\ call[c].pc = "join" => recovery # "none"
    <3>1. CallIs(c) /\ SessionOf[c] \in Sessions /\ PendingOK
      BY CallsAre DEF ReadinessInv
    <3> QED BY <3>1 DEF CallIs, PendingOK
  <2>4. OneSession => disturbed \subseteq landed
    BY DEF ReadinessInv
  <2>5. ASSUME NEW c \in Calls
        PROVE  /\ Readiness!At(c, "wait") =>
                    /\ pending[Readiness!Session(c)] # Readiness!NoCall
                    /\ call[pending[Readiness!Session(c)]].pc \in {"inspect", "restart", "poll"}
               /\ Readiness!At(c, "join") => recovery # Readiness!NoCall
    BY <2>3 DEF Works, Readiness!At, Readiness!NoCall, Readiness!Session
  <2>6. Readiness!Cardinality(Sessions) = Cardinality(Sessions)
    BY DEF Readiness!Cardinality, Cardinality
  <2>7. Readiness!NoServiceIsDisturbed
    BY <2>2, <2>4, <2>5, <2>6 DEF Readiness!NoServiceIsDisturbed
  <2> QED BY <2>1, <2>7
<1> QED BY <1>1, <1>2, <1>3, PTL DEF Readiness!Spec

-----------------------------------------------------------------------------
(* What a sandbox costs. *)

Run == [start : Nat, stop : Nat \cup {None}]
Runs == Seq(Run) \ {<< >>}
Listed == [type : {"created", "paused", "resumed", "killed"}, run : Nat, at : Nat]
SyncRecord ==
  [pc : {"idle", "fetch", "snapshot", "record"}, events : SUBSET Nat, checkedAt : Nat \cup {None},
   older : SUBSET Syncs, stale : BOOLEAN,
   snapshot : [running : BOOLEAN, startedAt : Nat] \cup {None}]
UsageTypes ==
  /\ now \in Nat /\ log \in Seq(Listed) /\ sync \in [Syncs -> SyncRecord]
  /\ box \in [state : {"running", "paused", "gone"}, runs : Runs]
  /\ row = [status |-> row.status, watched |-> row.watched, deletedAt |-> row.deletedAt,
            price |-> row.price, complete |-> row.complete, executions |-> row.executions]

Gone == box.state = "gone"
SaysKilled(i) == log[i].type = "killed"
\* The sync was told that the sandbox is gone.
ToldOfEnd(s) == \E i \in sync[s].events : SaysKilled(i)
\* The sync is about to record that the sandbox was there.
SawItAlive(s) == sync[s].pc = "record" /\ sync[s].snapshot # None

\* Who was told of the end began after whoever saw the sandbox alive.
EndOfLog == \A i \in 1 .. Len(log) : SaysKilled(i) => Gone
EventsListed == \A s \in Syncs : sync[s].events \subseteq 1 .. Len(log)
LaterIsFinal ==
  \A s \in Syncs : ToldOfEnd(s) =>
    \A o \in Syncs \ {s} : SawItAlive(o) => sync[o].stale \/ o \in sync[s].older
RowIsFinal ==
  row.status = "finalized" /\ row.complete => Gone /\ \A s \in Syncs : SawItAlive(s) => sync[s].stale
UsageInv == UsageTypes /\ EndOfLog /\ EventsListed /\ LaterIsFinal /\ RowIsFinal

\* What happens to the sandbox: it does not come back, and its end is listed when it
\* is gone.
BoxSteps ==
  /\ box' \in [state : {"running", "paused", "gone"}, runs : Runs] /\ (Gone => Gone')
  /\ \/ log' = log
     \/ \E e \in Listed : log' = Append(log, e) /\ (e.type = "killed" => Gone')

LEMMA BoxStepsKeep ==
  ASSUME UsageInv, BoxSteps, UNCHANGED <<now, row, sync>> PROVE UsageInv'
<1>1. UsageTypes /\ EndOfLog /\ EventsListed /\ LaterIsFinal /\ RowIsFinal
  BY DEF UsageInv
<1> DEFINE Kept == /\ log' \in Seq(Listed) /\ Len(log') \in Nat /\ Len(log) \in Nat
                   /\ Len(log) <= Len(log') /\ \A i \in 1 .. Len(log) : log'[i] = log[i]
                   /\ \A i \in 1 .. Len(log') :
                        i \in 1 .. Len(log) \/ (log'[i].type = "killed" => Gone')
<1>2. Kept
  <2>1. CASE log' = log
    BY <1>1, <2>1 DEF UsageTypes
  <2>2. ASSUME NEW e \in Listed, log' = Append(log, e), e.type = "killed" => Gone'
        PROVE  Kept
    BY <1>1, <2>2 DEF UsageTypes
  <2> QED BY <2>1, <2>2 DEF BoxSteps
<1>3. UsageTypes'
  BY <1>1, <1>2 DEF UsageTypes, BoxSteps
<1>4. EndOfLog'
  BY <1>1, <1>2 DEF EndOfLog, SaysKilled, BoxSteps
<1>5. EventsListed'
  BY <1>1, <1>2 DEF EventsListed
<1>6. \A s \in Syncs : (ToldOfEnd(s)' => ToldOfEnd(s)) /\ (SawItAlive(s)' <=> SawItAlive(s))
  BY <1>1, <1>2 DEF EventsListed, ToldOfEnd, SawItAlive, SaysKilled
<1>7. LaterIsFinal'
  BY <1>1, <1>6 DEF LaterIsFinal
<1>8. RowIsFinal'
  BY <1>1, <1>6 DEF RowIsFinal, BoxSteps
<1> QED BY <1>3, <1>4, <1>5, <1>7, <1>8 DEF UsageInv

LEMMA StoppedRuns ==
  ASSUME UsageTypes PROVE Usage!Stopped \in Runs /\ Len(Usage!Stopped) \in Nat
<1> DEFINE n == Len(box.runs)
           last == [box.runs[n] EXCEPT !.stop = IF @ = None THEN now ELSE @]
<1>1. box.runs \in Seq(Run) /\ n \in Nat /\ n > 0 /\ now \in Nat
  BY DEF UsageTypes, Runs
<1>2. last \in Run
  <2>1. box.runs[n] \in Run
    BY <1>1
  <2> QED BY <1>1, <2>1 DEF Run
<1>3. Usage!Stopped = [box.runs EXCEPT ![n] = last]
  BY DEF Usage!Stopped, Usage!Current
<1> HIDE DEF last
<1>4. Usage!Stopped \in Seq(Run) /\ Len(Usage!Stopped) = n
  BY <1>1, <1>2, <1>3
<1> QED BY <1>1, <1>4 DEF Runs

LEMMA PausesIs == ASSUME UsageTypes, Usage!Pauses PROVE BoxSteps
<1>1. box' = [state |-> "paused", runs |-> Usage!Stopped] /\ ~Gone /\ now \in Nat
  BY DEF Usage!Pauses, Usage!Running, Gone, UsageTypes
<1>2. log' = Append(log, [type |-> "paused", run |-> Len(box'.runs), at |-> now])
  BY DEF Usage!Pauses, Usage!Happens
<1> QED BY <1>1, <1>2, StoppedRuns DEF BoxSteps, Listed

LEMMA DiesIs == ASSUME UsageTypes, Usage!Dies PROVE BoxSteps
<1>1. box' = [state |-> "gone", runs |-> Usage!Stopped] /\ now \in Nat
  BY DEF Usage!Dies, UsageTypes
<1>2. \/ log' = Append(log, [type |-> "killed", run |-> Len(box'.runs), at |-> now])
      \/ log' = log
  BY DEF Usage!Dies, Usage!Happens
<1> QED BY <1>1, <1>2, StoppedRuns DEF BoxSteps, Listed, Gone

LEMMA ResumesIs == ASSUME UsageTypes, Usage!Resumes PROVE BoxSteps
<1> DEFINE run == [start |-> now, stop |-> None]
<1>1. /\ box' = [state |-> "running", runs |-> Append(box.runs, run)]
      /\ ~Gone /\ now \in Nat /\ box.runs \in Seq(Run)
  BY DEF Usage!Resumes, Gone, UsageTypes, Runs
<1>2. log' = Append(log, [type |-> "resumed", run |-> Len(box'.runs), at |-> now])
  BY DEF Usage!Resumes, Usage!Happens
<1>3. run \in Run
  BY <1>1 DEF Run
<1> HIDE DEF run
<1>4. Append(box.runs, run) \in Runs /\ Len(Append(box.runs, run)) \in Nat
  <2>1. /\ Append(box.runs, run) \in Seq(Run) /\ Len(Append(box.runs, run)) = Len(box.runs) + 1
        /\ Len(box.runs) \in Nat /\ Len(<< >>) = 0
    BY <1>1, <1>3
  <2> QED BY <2>1 DEF Runs
<1>5. box'.runs = Append(box.runs, run) /\ box'.state = "running"
  BY <1>1
<1>6. [type |-> "resumed", run |-> Len(box'.runs), at |-> now] \in Listed
  BY <1>1, <1>4, <1>5 DEF Listed
<1> QED BY <1>1, <1>2, <1>4, <1>6 DEF BoxSteps

\* A sync that ends, and what it leaves the others.
LEMMA DoneIs ==
  ASSUME UsageTypes, NEW s \in Syncs, NEW recorded \in BOOLEAN, sync' = Usage!Done(s, recorded)
  PROVE  /\ sync' \in [Syncs -> SyncRecord]
         /\ sync'[s].events = {} /\ sync'[s].pc = "idle"
         /\ \A o \in Syncs \ {s} :
              /\ sync'[o].pc = sync[o].pc /\ sync'[o].snapshot = sync[o].snapshot
              /\ sync'[o].events = sync[o].events /\ sync'[o].older = sync[o].older \ {s}
              /\ (sync'[o].stale <=> sync[o].stale \/ (recorded /\ o \in sync[s].older))
<1>1. sync \in [Syncs -> SyncRecord]
  BY DEF UsageTypes
<1>2. sync'[s] = [pc |-> "idle", events |-> {}, checkedAt |-> None, older |-> {}, stale |-> FALSE,
                  snapshot |-> None]
  BY DEF Usage!Done
<1>3. \A o \in Syncs \ {s} :
        sync'[o] = [sync[o] EXCEPT !.older = @ \ {s},
                                   !.stale = @ \/ (recorded /\ o \in sync[s].older)]
  BY DEF Usage!Done
<1>4. ASSUME NEW o \in Syncs \ {s}
      PROVE  /\ sync'[o] \in SyncRecord
             /\ sync'[o].pc = sync[o].pc /\ sync'[o].snapshot = sync[o].snapshot
             /\ sync'[o].events = sync[o].events /\ sync'[o].older = sync[o].older \ {s}
             /\ (sync'[o].stale <=> sync[o].stale \/ (recorded /\ o \in sync[s].older))
  <2> DEFINE stale == sync[o].stale \/ (recorded /\ o \in sync[s].older)
  <2>1. sync[o] \in SyncRecord /\ stale \in BOOLEAN
    BY <1>1 DEF SyncRecord
  <2>2. sync'[o] = [sync[o] EXCEPT !.older = @ \ {s}, !.stale = stale]
    BY <1>3
  <2> HIDE DEF stale
  <2>3. /\ sync'[o] \in SyncRecord
        /\ sync'[o].pc = sync[o].pc /\ sync'[o].snapshot = sync[o].snapshot
        /\ sync'[o].events = sync[o].events /\ sync'[o].older = sync[o].older \ {s}
        /\ sync'[o].stale = stale
    BY <2>1, <2>2 DEF SyncRecord
  <2> QED BY <2>3 DEF stale
<1>5. sync' \in [Syncs -> SyncRecord]
  <2>1. sync'[s] \in SyncRecord
    BY <1>2 DEF SyncRecord
  <2> QED BY <1>4, <2>1 DEF Usage!Done
<1> QED BY <1>2, <1>4, <1>5

LEMMA EndsKeeps ==
  ASSUME UsageInv, NEW s \in Syncs, sync' = Usage!Done(s, FALSE), UNCHANGED <<now, box, log, row>>
  PROVE  UsageInv'
<1>1. UsageTypes /\ EndOfLog /\ EventsListed /\ LaterIsFinal /\ RowIsFinal
  BY DEF UsageInv
<1>2. /\ sync' \in [Syncs -> SyncRecord]
      /\ sync'[s].events = {} /\ sync'[s].pc = "idle"
      /\ \A o \in Syncs \ {s} :
           /\ sync'[o].pc = sync[o].pc /\ sync'[o].snapshot = sync[o].snapshot
           /\ sync'[o].events = sync[o].events /\ sync'[o].older = sync[o].older \ {s}
           /\ (sync'[o].stale <=> sync[o].stale \/ (FALSE /\ o \in sync[s].older))
  BY <1>1, DoneIs
<1>3. UsageTypes' /\ EndOfLog'
  BY <1>1, <1>2 DEF UsageTypes, EndOfLog, SaysKilled, Gone
<1>4. EventsListed'
  BY <1>1, <1>2 DEF EventsListed
<1>5. /\ ~SawItAlive(s)' /\ ~ToldOfEnd(s)'
      /\ \A o \in Syncs \ {s} : /\ SawItAlive(o)' <=> SawItAlive(o)
                                /\ ToldOfEnd(o)' <=> ToldOfEnd(o)
                                /\ sync'[o].stale <=> sync[o].stale
  <2>1. ~SawItAlive(s)' /\ ~ToldOfEnd(s)'
    BY <1>2 DEF SawItAlive, ToldOfEnd
  <2> SUFFICES ASSUME NEW o \in Syncs \ {s}
               PROVE  /\ SawItAlive(o)' <=> SawItAlive(o)
                      /\ ToldOfEnd(o)' <=> ToldOfEnd(o)
                      /\ sync'[o].stale <=> sync[o].stale
    BY <2>1
  <2>2. (SawItAlive(o)' <=> SawItAlive(o)) /\ (ToldOfEnd(o)' <=> ToldOfEnd(o))
    BY <1>2 DEF SawItAlive, ToldOfEnd, SaysKilled
  <2>3. sync'[o].stale <=> sync[o].stale \/ (FALSE /\ o \in sync[s].older)
    BY <1>2
  <2>4. sync'[o].stale <=> sync[o].stale
    BY ONLY <2>3, Zenon
  <2> QED BY <2>2, <2>4
<1>6. LaterIsFinal'
  <2> SUFFICES ASSUME NEW b \in Syncs, ToldOfEnd(b)', NEW o \in Syncs \ {b}, SawItAlive(o)'
               PROVE  sync'[o].stale \/ o \in sync'[b].older
    BY DEF LaterIsFinal
  <2>1. b # s /\ o # s /\ (sync[o].stale \/ o \in sync[b].older)
    BY <1>1, <1>5 DEF LaterIsFinal
  <2>2. sync'[b].older = sync[b].older \ {s}
    BY <1>2, <2>1
  <2> QED BY <1>5, <2>1, <2>2
<1>7. RowIsFinal'
  BY <1>1, <1>5 DEF RowIsFinal, Gone
<1> QED BY <1>3, <1>4, <1>6, <1>7 DEF UsageInv

\* A step of one sync that is not its last.
LEMMA SyncStepKeeps ==
  ASSUME UsageInv, NEW s \in Syncs, NEW new \in SyncRecord, sync' = [sync EXCEPT ![s] = new],
         UNCHANGED <<now, box, log, row>>, new.events \subseteq 1 .. Len(log),
         new.pc = "record" /\ new.snapshot # None => ~Gone,
         \/ new.events = sync[s].events /\ new.older = sync[s].older
         \/ \A o \in Syncs \ {s} : SawItAlive(o) => o \in new.older
  PROVE  UsageInv'
<1>1. UsageTypes /\ EndOfLog /\ EventsListed /\ LaterIsFinal /\ RowIsFinal
  BY DEF UsageInv
<1>2. /\ sync' \in [Syncs -> SyncRecord] /\ sync'[s] = new
      /\ \A o \in Syncs \ {s} : sync'[o] = sync[o]
  BY <1>1 DEF UsageTypes
<1>3. UsageTypes' /\ EndOfLog'
  BY <1>1, <1>2 DEF UsageTypes, EndOfLog, SaysKilled, Gone
<1>4. EventsListed'
  BY <1>1, <1>2 DEF EventsListed
<1>5. /\ SawItAlive(s)' => ~Gone
      /\ \A o \in Syncs \ {s} : /\ SawItAlive(o)' <=> SawItAlive(o)
                                /\ ToldOfEnd(o)' <=> ToldOfEnd(o)
                                /\ sync'[o] = sync[o]
  BY <1>2 DEF SawItAlive, ToldOfEnd, SaysKilled
<1>6. \A o \in Syncs : ToldOfEnd(o)' => Gone
  <2> SUFFICES ASSUME NEW o \in Syncs, ToldOfEnd(o)' PROVE Gone
    OBVIOUS
  <2>1. PICK i \in sync'[o].events : log[i].type = "killed"
    BY DEF ToldOfEnd, SaysKilled
  <2> QED BY <1>1, <1>4, <2>1 DEF EndOfLog, EventsListed, SaysKilled
<1>7. ASSUME NEW b \in Syncs, ToldOfEnd(b)', NEW o \in Syncs \ {b}, SawItAlive(o)'
      PROVE  sync'[o].stale \/ o \in sync'[b].older
  <2>1. o # s
    BY <1>5, <1>6, <1>7
  <2>2. CASE b # s
    BY <1>1, <1>5, <1>7, <2>1, <2>2 DEF LaterIsFinal
  <2>3. CASE b = s /\ new.events = sync[s].events /\ new.older = sync[s].older
    <3>1. ToldOfEnd(s)
      BY <1>2, <1>7, <2>3 DEF ToldOfEnd, SaysKilled
    <3> QED BY <1>1, <1>2, <1>5, <1>7, <2>1, <2>3, <3>1 DEF LaterIsFinal
  <2>4. CASE b = s /\ \A p \in Syncs \ {s} : SawItAlive(p) => p \in new.older
    BY <1>2, <1>5, <1>7, <2>1, <2>4
  <2> QED BY <2>2, <2>3, <2>4
<1>8. LaterIsFinal'
  BY <1>7 DEF LaterIsFinal
<1>9. RowIsFinal'
  BY <1>1, <1>5 DEF RowIsFinal, Gone
<1> QED BY <1>3, <1>4, <1>8, <1>9 DEF UsageInv

LEMMA BeginKeeps == ASSUME UsageInv, NEW s \in Syncs, Usage!Begin(s) PROVE UsageInv'
<1>1. UsageTypes /\ EventsListed
  BY DEF UsageInv
<1>2. /\ sync[s] \in SyncRecord /\ sync' = [sync EXCEPT ![s] = [sync[s] EXCEPT !.pc = "fetch"]]
      /\ UNCHANGED <<now, box, log, row>>
  BY <1>1 DEF Usage!Begin, UsageTypes
<1> DEFINE new == [sync[s] EXCEPT !.pc = "fetch"]
<1>3. /\ new \in SyncRecord /\ new.pc = "fetch" /\ new.events = sync[s].events
      /\ new.older = sync[s].older
  BY <1>2 DEF SyncRecord
<1>4. new.events \subseteq 1 .. Len(log)
  BY <1>1, <1>3 DEF EventsListed
<1>5. sync' = [sync EXCEPT ![s] = new]
  BY <1>2
<1> HIDE DEF new
<1> QED BY <1>2, <1>3, <1>4, <1>5, SyncStepKeeps

LEMMA FetchEventsKeeps == ASSUME UsageInv, NEW s \in Syncs, Usage!FetchEvents(s) PROVE UsageInv'
<1>1. UsageTypes /\ sync[s] \in SyncRecord
  BY DEF UsageInv, UsageTypes
<1>2. PICK young \in SUBSET (DOMAIN log \ Usage!Old) :
        sync' = [sync EXCEPT
          ![s].pc = "snapshot", ![s].events = Usage!Old \cup young, ![s].checkedAt = now,
          ![s].older = {o \in Syncs \ {s} : sync[o].pc \in {"snapshot", "record"}}]
  BY DEF Usage!FetchEvents
<1> DEFINE events == Usage!Old \cup young
           older == {o \in Syncs \ {s} : sync[o].pc \in {"snapshot", "record"}}
           new == [sync[s] EXCEPT !.pc = "snapshot", !.events = events, !.checkedAt = now,
                                  !.older = older]
<1>3. events \subseteq 1 .. Len(log) /\ events \in SUBSET Nat
  BY <1>1 DEF UsageTypes, Usage!Old
<1>4. older \in SUBSET Syncs /\ \A o \in Syncs \ {s} : SawItAlive(o) => o \in older
  BY DEF SawItAlive
<1>5. sync' = [sync EXCEPT ![s] = new] /\ UNCHANGED <<now, box, log, row>> /\ now \in Nat
  BY <1>1, <1>2 DEF Usage!FetchEvents, UsageTypes
<1> HIDE DEF events, older
<1>6. new \in SyncRecord /\ new.pc = "snapshot" /\ new.events = events /\ new.older = older
  BY <1>1, <1>3, <1>4, <1>5 DEF SyncRecord
<1> HIDE DEF new
<1> QED BY <1>3, <1>4, <1>5, <1>6, SyncStepKeeps

LEMMA TakeSnapshotKeeps == ASSUME UsageInv, NEW s \in Syncs, Usage!TakeSnapshot(s) PROVE UsageInv'
<1>1. UsageTypes /\ EventsListed /\ sync[s] \in SyncRecord
  BY DEF UsageInv, UsageTypes
<1> DEFINE shot == IF box.state = "gone" THEN None
                   ELSE [running |-> Usage!Running, startedAt |-> box.runs[Usage!Current].start]
           new == [sync[s] EXCEPT !.pc = "record", !.snapshot = shot]
<1>2. sync' = [sync EXCEPT ![s] = new] /\ UNCHANGED <<now, box, log, row>>
  BY <1>1 DEF Usage!TakeSnapshot, UsageTypes
<1>3. shot \in [running : BOOLEAN, startedAt : Nat] \cup {None} /\ (shot # None => ~Gone)
  <2>1. box.runs \in Seq(Run) /\ Usage!Current \in 1 .. Len(box.runs)
    BY <1>1 DEF UsageTypes, Runs, Usage!Current
  <2>2. box.runs[Usage!Current] \in Run
    BY <2>1
  <2>3. box.runs[Usage!Current].start \in Nat
    BY <2>2 DEF Run
  <2> QED BY <2>3 DEF Gone, Usage!Running
<1> HIDE DEF shot
<1>4. /\ new \in SyncRecord /\ new.events = sync[s].events /\ new.older = sync[s].older
      /\ new.snapshot = shot
  BY <1>1, <1>3 DEF SyncRecord
<1>5. new.events \subseteq 1 .. Len(log)
  BY <1>1, <1>4 DEF EventsListed
<1> HIDE DEF new
<1> QED BY <1>2, <1>3, <1>4, <1>5, SyncStepKeeps

LEMMA AllStaleKeeps == ASSUME UsageInv, Usage!AllStale, UNCHANGED <<now, box, log, row>> PROVE UsageInv'
<1>1. UsageTypes /\ EndOfLog /\ EventsListed /\ LaterIsFinal /\ RowIsFinal
  BY DEF UsageInv
<1>2. sync' = [s \in Syncs |-> [sync[s] EXCEPT !.stale = TRUE]] /\ sync \in [Syncs -> SyncRecord]
  BY <1>1 DEF Usage!AllStale, UsageTypes
<1>3. \A s \in Syncs : /\ sync'[s] \in SyncRecord /\ sync'[s].stale = TRUE
                       /\ sync'[s].pc = sync[s].pc /\ sync'[s].events = sync[s].events
                       /\ sync'[s].snapshot = sync[s].snapshot
  <2> SUFFICES ASSUME NEW s \in Syncs
               PROVE  /\ sync'[s] \in SyncRecord /\ sync'[s].stale = TRUE
                      /\ sync'[s].pc = sync[s].pc /\ sync'[s].events = sync[s].events
                      /\ sync'[s].snapshot = sync[s].snapshot
    OBVIOUS
  <2>1. sync'[s] = [sync[s] EXCEPT !.stale = TRUE] /\ sync[s] \in SyncRecord
    BY <1>2
  <2> QED BY <2>1 DEF SyncRecord
<1>4. sync' \in [Syncs -> SyncRecord]
  BY <1>2, <1>3
<1>5. UsageTypes' /\ EndOfLog'
  BY <1>1, <1>4 DEF UsageTypes, EndOfLog, SaysKilled, Gone
<1>6. EventsListed'
  BY <1>1, <1>3 DEF EventsListed
<1>7. LaterIsFinal'
  BY <1>3 DEF LaterIsFinal
<1>8. RowIsFinal'
  BY <1>1, <1>3 DEF RowIsFinal, Gone
<1> QED BY <1>5, <1>6, <1>7, <1>8 DEF UsageInv

\* What a sync makes of the row that is not stale.
LEMMA RecordDoes ==
  ASSUME UsageTypes, NEW s \in Syncs, Usage!Record(s), ~sync[s].stale
  PROVE  /\ sync' = Usage!Done(s, TRUE)
         /\ row' = [status |-> row'.status, watched |-> row'.watched, deletedAt |-> row'.deletedAt,
                    price |-> row'.price, complete |-> row'.complete,
                    executions |-> row'.executions]
         /\ row'.status = "finalized" /\ row'.complete => ToldOfEnd(s)
         /\ row.status = "finalized" /\ sync[s].snapshot = None => row'.status = "finalized"
<1> DEFINE shot == sync[s].snapshot
           events == {log[i] : i \in sync[s].events}
           kills == {e.at : e \in {k \in events : k.type = "killed"}}
           killedAt == IF kills = {} THEN None ELSE Usage!Max(kills)
<1> DEFINE executions == Usage!Merge(row.executions, sync[s].events)
           done == Usage!Completed(executions)
           open == Usage!Known(executions) \ done
           current == IF shot # None /\ shot.running /\ open # {} THEN {Usage!Max(open)} ELSE {}
           missing == \/ open \ current # {}
                      \/ \E e \in events : Usage!Terminal(e) /\ e.run \notin done
           created == \E e \in events : e.type = "created"
           deletedAt == IF shot # None THEN row.deletedAt
                        ELSE IF killedAt # None THEN killedAt
                        ELSE IF row.deletedAt # None THEN row.deletedAt
                        ELSE sync[s].checkedAt
           expired == deletedAt # None /\ Usage!Passed(deletedAt, Window)
           finalized == shot = None /\ (killedAt # None \/ row.status = "finalized" \/ expired)
           complete == /\ created \/ row.complete
                       /\ ~missing /\ (shot # None \/ killedAt # None)
           hasUsage == done # {} \/ (shot # None /\ shot.running)
           watched == ~(finalized /\ (Usage!Settled(s, killedAt, complete) \/ expired))
           price == IF hasUsage \/ complete
                    THEN Usage!Total(executions) + Usage!Active(s, executions) ELSE None
<1>1. row' = [status |-> IF finalized THEN "finalized"
                         ELSE IF shot = None \/ row.status = "pending_finalization"
                         THEN "pending_finalization" ELSE "active",
              watched |-> watched, deletedAt |-> deletedAt, complete |-> complete,
              executions |-> executions, price |-> price]
  BY Zenon DEF Usage!Record, Usage!Dropped
<1>2. sync' = Usage!Done(s, TRUE)
  BY Zenon DEF Usage!Record, Usage!Dropped
<1>3. killedAt # None => ToldOfEnd(s)
  BY DEF ToldOfEnd, SaysKilled
<1>4. complete => shot # None \/ killedAt # None
  OBVIOUS
<1>5. finalized => shot = None
  OBVIOUS
<1>6. row.status = "finalized" /\ shot = None => finalized
  OBVIOUS
<1> HIDE DEF killedAt, finalized, complete, watched, price, deletedAt, executions
<1> QED BY <1>1, <1>2, <1>3, <1>4, <1>5, <1>6

LEMMA RecordKeeps == ASSUME UsageInv, NEW s \in Syncs, Usage!Record(s) PROVE UsageInv'
<1>1. UsageTypes /\ EndOfLog /\ EventsListed /\ LaterIsFinal /\ RowIsFinal
  BY DEF UsageInv
<1>2. UNCHANGED <<now, box, log>>
  BY DEF Usage!Record
<1>3. CASE sync[s].stale
  BY <1>2, <1>3, EndsKeeps DEF Usage!Record, Usage!Dropped
<1>4. CASE ~sync[s].stale
  <2>1. /\ sync' = Usage!Done(s, TRUE)
        /\ row' = [status |-> row'.status, watched |-> row'.watched, deletedAt |-> row'.deletedAt,
                   price |-> row'.price, complete |-> row'.complete,
                   executions |-> row'.executions]
        /\ row'.status = "finalized" /\ row'.complete => ToldOfEnd(s)
    BY <1>1, <1>4, RecordDoes
  <2>2. /\ sync' \in [Syncs -> SyncRecord]
        /\ sync'[s].events = {} /\ sync'[s].pc = "idle"
        /\ \A o \in Syncs \ {s} :
             /\ sync'[o].pc = sync[o].pc /\ sync'[o].snapshot = sync[o].snapshot
             /\ sync'[o].events = sync[o].events /\ sync'[o].older = sync[o].older \ {s}
             /\ (sync'[o].stale <=> sync[o].stale \/ (TRUE /\ o \in sync[s].older))
    BY <1>1, <2>1, DoneIs
  <2>3. UsageTypes' /\ EndOfLog'
    BY <1>1, <1>2, <2>1, <2>2 DEF UsageTypes, EndOfLog, SaysKilled, Gone
  <2>4. EventsListed'
    BY <1>1, <1>2, <2>2 DEF EventsListed
  <2>5. /\ ~SawItAlive(s)' /\ ~ToldOfEnd(s)'
        /\ \A o \in Syncs \ {s} :
             /\ SawItAlive(o)' <=> SawItAlive(o)
             /\ ToldOfEnd(o)' <=> ToldOfEnd(o)
             /\ sync[o].stale \/ o \in sync[s].older => sync'[o].stale
             /\ sync'[o].older = sync[o].older \ {s}
    BY <1>2, <2>2 DEF SawItAlive, ToldOfEnd, SaysKilled
  <2>6. LaterIsFinal'
    BY <1>1, <2>5 DEF LaterIsFinal
  <2>7. ToldOfEnd(s) => Gone
    BY <1>1 DEF ToldOfEnd, EventsListed, EndOfLog
  <2>8. RowIsFinal'
    BY <1>1, <1>2, <2>1, <2>5, <2>7 DEF RowIsFinal, LaterIsFinal, Gone
  <2> QED BY <2>3, <2>4, <2>6, <2>8 DEF UsageInv
<1> QED BY <1>3, <1>4

LEMMA MarkPendingKeeps == ASSUME UsageInv, Usage!MarkPending PROVE UsageInv' /\ Usage!StaysFinal
<1>1. UsageTypes /\ EndOfLog /\ EventsListed /\ LaterIsFinal /\ RowIsFinal
  BY DEF UsageInv
<1>2. /\ UNCHANGED <<now, box, log, sync>>
      /\ row' = IF row.status = "finalized" THEN row
                ELSE [row EXCEPT !.status = "pending_finalization", !.watched = TRUE,
                                 !.deletedAt = IF @ = None THEN now ELSE @]
  BY DEF Usage!MarkPending
<1> DEFINE Shape(r) == r = [status |-> r.status, watched |-> r.watched, deletedAt |-> r.deletedAt,
                            price |-> r.price, complete |-> r.complete,
                            executions |-> r.executions]
<1>3. Shape(row)' /\ (row'.status = "finalized" <=> row.status = "finalized")
      /\ (row.status = "finalized" => row' = row)
  <2>1. CASE row.status = "finalized"
    BY <1>1, <1>2, <2>1 DEF UsageTypes
  <2>2. CASE row.status # "finalized"
    <3>1. row' = [status |-> "pending_finalization", watched |-> TRUE,
                  deletedAt |-> IF row.deletedAt = None THEN now ELSE row.deletedAt,
                  price |-> row.price, complete |-> row.complete, executions |-> row.executions]
      BY <1>1, <1>2, <2>2 DEF UsageTypes
    <3> QED BY <2>2, <3>1
  <2> QED BY <2>1, <2>2
<1>4. UsageTypes' /\ EndOfLog' /\ EventsListed' /\ LaterIsFinal'
  BY <1>1, <1>2, <1>3
  DEF UsageTypes, EndOfLog, EventsListed, LaterIsFinal, ToldOfEnd, SaysKilled, SawItAlive,
      Gone
<1>5. RowIsFinal'
  BY <1>1, <1>2, <1>3 DEF RowIsFinal, SawItAlive, Gone
<1> QED BY <1>3, <1>4, <1>5 DEF UsageInv, Usage!StaysFinal

\* A step of the sandbox, of its clock or of the user's calls leaves the row.
LEMMA UsageSteps == UsageInv /\ [Usage!Next]_(Usage!vars) => UsageInv' /\ [Usage!StaysFinal]_(Usage!vars)
<1> SUFFICES ASSUME UsageInv, [Usage!Next]_(Usage!vars) PROVE UsageInv' /\ Usage!StaysFinal
  OBVIOUS
<1>1. UsageTypes /\ RowIsFinal
  BY DEF UsageInv
<1>2. ASSUME UNCHANGED row PROVE Usage!StaysFinal
  BY <1>2 DEF Usage!StaysFinal
<1>3. ASSUME UNCHANGED <<box, log>> PROVE BoxSteps
  BY <1>1, <1>3 DEF BoxSteps, UsageTypes, Gone
<1>4. CASE Usage!Provider
  BY <1>1, <1>2, <1>4, PausesIs, DiesIs, BoxStepsKeep DEF Usage!Provider
<1>5. CASE Usage!Tick
  <2>1. now' \in Nat /\ UNCHANGED <<box, log, measured, row, sync, control>>
    BY <1>1, <1>5 DEF Usage!Tick, UsageTypes
  <2> QED BY <1>2, <2>1
    DEF UsageInv, UsageTypes, EndOfLog, EventsListed, LaterIsFinal, RowIsFinal, ToldOfEnd,
        SawItAlive, SaysKilled, Gone
<1>6. CASE Usage!StartOrPreview
  BY <1>1, <1>2, <1>3, <1>6, ResumesIs, BoxStepsKeep DEF Usage!StartOrPreview
<1>7. CASE Usage!Stop
  BY <1>1, <1>2, <1>7, PausesIs, BoxStepsKeep DEF Usage!Stop
<1>8. CASE Usage!ScheduleSync
  <2>1. UNCHANGED <<now, box, log, row>> /\ (Usage!AllStale \/ UNCHANGED sync)
    BY <1>8 DEF Usage!ScheduleSync
  <2> QED BY <1>2, <1>3, <2>1, AllStaleKeeps, BoxStepsKeep
<1>9. CASE Usage!MarkPending
  BY <1>9, MarkPendingKeeps
<1>10. CASE Usage!Delete
  BY <1>1, <1>2, <1>3, <1>10, DiesIs, BoxStepsKeep DEF Usage!Delete
<1>11. ASSUME NEW s \in Syncs, Usage!Begin(s) \/ Usage!FailSync(s) \/ Usage!SyncStep(s)
       PROVE  UsageInv' /\ Usage!StaysFinal
  <2>1. CASE Usage!Begin(s)
    BY <1>2, <2>1, BeginKeeps DEF Usage!Begin
  <2>2. CASE Usage!FailSync(s)
    BY <1>2, <2>2, EndsKeeps DEF Usage!FailSync
  <2>3. CASE Usage!FetchEvents(s)
    BY <1>2, <2>3, FetchEventsKeeps DEF Usage!FetchEvents
  <2>4. CASE Usage!TakeSnapshot(s)
    BY <1>2, <2>4, TakeSnapshotKeeps DEF Usage!TakeSnapshot
  <2>5. CASE Usage!Record(s)
    <3>1. CASE sync[s].stale
      BY <1>2, <2>5, <3>1, RecordKeeps DEF Usage!Record, Usage!Dropped
    <3>2. CASE ~sync[s].stale
      <4>1. row.status = "finalized" /\ sync[s].snapshot = None => row'.status = "finalized"
        BY <1>1, <2>5, <3>2, RecordDoes
      <4>2. sync[s].pc = "record"
        BY <2>5 DEF Usage!Record, Usage!At
      <4>3. Usage!StaysFinal
        BY <1>1, <3>2, <4>1, <4>2 DEF RowIsFinal, SawItAlive, Usage!StaysFinal
      <4> QED BY <2>5, <4>3, RecordKeeps
    <3> QED BY <3>1, <3>2
  <2> QED BY <1>11, <2>1, <2>2, <2>3, <2>4, <2>5 DEF Usage!SyncStep
<1>12. CASE UNCHANGED Usage!vars
  BY <1>2, <1>3, <1>12, BoxStepsKeep DEF Usage!vars
<1> QED BY <1>4, <1>5, <1>6, <1>7, <1>8, <1>9, <1>10, <1>11, <1>12 DEF Usage!Next

LEMMA UsageStarts == Usage!Init => UsageInv
<1> SUFFICES ASSUME Usage!Init PROVE UsageInv
  OBVIOUS
<1>1. /\ now = 0 /\ box = [state |-> "running", runs |-> <<[start |-> 0, stop |-> None]>>]
      /\ log = <<[type |-> "created", run |-> 1, at |-> 0]>>
      /\ row = [status |-> "active", watched |-> TRUE, deletedAt |-> None, price |-> None,
                complete |-> FALSE, executions |-> [r \in 1 .. MaxRuns |-> None]]
      /\ sync = [s \in Syncs |-> [pc |-> "idle", events |-> {}, checkedAt |-> None,
                                  older |-> {}, stale |-> FALSE, snapshot |-> None]]
  BY DEF Usage!Init
<1> DEFINE run == [start |-> 0, stop |-> None]
           created == [type |-> "created", run |-> 1, at |-> 0]
<1>2. <<run>> \in Runs /\ <<created>> \in Seq(Listed)
  <2>1. run \in Run /\ created \in Listed
    BY DEF Run, Listed
  <2> HIDE DEF run, created
  <2> QED BY <2>1 DEF Runs
<1>3. sync \in [Syncs -> SyncRecord]
  BY <1>1 DEF SyncRecord
<1>4. UsageTypes
  BY <1>1, <1>2, <1>3 DEF UsageTypes
<1>5. EndOfLog /\ EventsListed /\ LaterIsFinal /\ RowIsFinal
  BY <1>1 DEF EndOfLog, EventsListed, LaterIsFinal, RowIsFinal, SaysKilled, ToldOfEnd
<1> QED BY <1>4, <1>5 DEF UsageInv

\* A row that was settled on the provider's word that the sandbox was killed stays so,
\* whatever syncs overlapped: one that saw the sandbox alive took its time before and is
\* dropped (sandboxCosts.ts:249).
THEOREM FinalizedIsFinalHolds == Usage!Spec => Usage!FinalizedIsFinal
<1>1. UsageInv /\ [Usage!Next]_(Usage!vars) => UsageInv' /\ [Usage!StaysFinal]_(Usage!vars)
  BY UsageSteps
<1> QED BY <1>1, UsageStarts, PTL DEF Usage!Spec, Usage!FinalizedIsFinal
=============================================================================
