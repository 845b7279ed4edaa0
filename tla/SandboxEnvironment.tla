------------------------- MODULE SandboxEnvironment -------------------------
(***************************************************************************)
(* The environment of a project's sandbox: what the project's document     *)
(* lists, what the sandbox was told, and the secrets the provider keeps.   *)
(* Two actions change all three, one call at a time:                       *)
(* importSandboxEnvironmentVariables and removeSandboxEnvironmentVariable  *)
(* (projectActions.ts).  On E2B they work under a lock in the document     *)
(* that lapses after ten minutes (projects.ts) and roll back what they     *)
(* did when a call fails; on Daytona there is no lock, and two may overlap.*)
(* A call that throws may have taken effect all the same.                  *)
(*                                                                         *)
(* A secret is named by the variable and the operation that created it,    *)
(* which is how e2bEnvironmentSecretName names it.  Values, limits on      *)
(* names and sizes, and timestamps are left out.                           *)
(***************************************************************************)
EXTENDS Naturals

CONSTANTS
  Ops,          \* the operations: one call of an action each
  Names,        \* the names of variables
  None,
  Original,     \* the origin of a secret that was there before
  Providers,    \* the providers of the instance
  OutliveLock,  \* may an operation go on when its lock has lapsed?
  MaxFaults     \* bound: calls that fail, operations that die

EnvironmentAssumption ==
  /\ None \notin Ops /\ Original \notin Ops /\ None # Original
  /\ Providers \subseteq {"e2b", "daytona"} /\ Providers # {}
  /\ OutliveLock \in BOOLEAN /\ MaxFaults \in Nat

VARIABLES
  project,  \* the project's document: provider, secrets and variables
  sandbox,  \* the sandbox: the secrets and the variables it was told
  vault,    \* the provider's secrets
  lock,     \* sandboxEnvironmentUpdateLock
  op,       \* the local state of each operation
  faults,
  slips     \* what went unnoticed: a history of the run, read by nobody

stores == <<project, sandbox, vault, lock>>
vars == <<project, sandbox, vault, lock, op, faults, slips>>

\* A rollback took a call that had its effect for one that had none; two
\* operations worked on a Daytona project at once.
Slips == {"misjudged", "overlap"}

Origin == Ops \cup {Original, None}
PC == {"idle", "acquire", "create", "start", "check", "upload", "recheck", "commit",
       "destroy", "restart", "renew", "readd", "restore", "discard", "release",
       "d.start", "d.secrets", "d.env", "d.upsert", "d.delete", "d.restore",
       "d.unset", "d.remaining", "d.destroy", "d.record", "over", "dead"}

TypeOK ==
  /\ project \in [provider : Providers, secrets : [Names -> Origin], variables : SUBSET Names]
  /\ sandbox \in [secrets : [Names -> Origin], variables : SUBSET Names]
  /\ \A n \in project.variables : project.secrets[n] = None
  /\ vault \subseteq Names \X (Ops \cup {Original})
  /\ lock \in [owner : Ops \cup {None}, live : BOOLEAN]
  /\ op \in [Ops -> [pc : PC, names : SUBSET Names, import : BOOLEAN,
                     seen : [Names -> Origin], created : SUBSET Names,
                     written : BOOLEAN, committed : BOOLEAN, ok : BOOLEAN]]
  /\ faults \in 0 .. MaxFaults /\ slips \subseteq Slips

NoSecrets == [n \in Names |-> None]
Without(secrets, names) == [n \in Names |-> IF n \in names THEN None ELSE secrets[n]]
With(secrets, names, o) == [n \in Names |-> IF n \in names THEN o ELSE secrets[n]]
SecretsOf(secrets, names) == {<<n, secrets[n]>> : n \in {k \in names : secrets[k] # None}}

Init ==
  /\ \E before \in SUBSET Names, provider \in Providers :
       /\ project = [provider |-> provider, secrets |-> With(NoSecrets, before, Original),
                     variables |-> {}]
       /\ vault = before \X {Original}
  /\ sandbox = [secrets |-> project.secrets, variables |-> {}]
  /\ lock = [owner |-> None, live |-> FALSE]
  /\ op = [o \in Ops |-> [pc |-> "idle", names |-> {}, import |-> TRUE, seen |-> NoSecrets,
                          created |-> {}, written |-> FALSE, committed |-> FALSE,
                          ok |-> FALSE]]
  /\ faults = 0 /\ slips = {}

-----------------------------------------------------------------------------
(* What the steps share.  A call answers; it throws without an effect; or  *)
(* it throws though it took effect.  The last is left out where the step   *)
(* goes on as after an answer, or has no effect on this state.             *)

At(o, pc) == op[o].pc = pc
Goto(o, pc) == op' = [op EXCEPT ![o].pc = pc]
Answer(o, pc) == Goto(o, pc) /\ UNCHANGED <<faults, slips>>

\* The code after these calls assumes that one that throws has had no effect.
Misjudges(o) ==
  op[o].pc \in {"upload", "commit"} \/ (At(o, "destroy") /\ ~op[o].import)
\* The call's effect happens and its answer is lost.
Lose(o, pc) ==
  /\ faults < MaxFaults /\ faults' = faults + 1
  /\ slips' = IF Misjudges(o) THEN slips \cup {"misjudged"} ELSE slips
  /\ Goto(o, pc)
Fail(o, pc) ==
  /\ faults < MaxFaults /\ faults' = faults + 1
  /\ Goto(o, pc)
  /\ UNCHANGED <<stores, slips>>
\* Several calls at once, each waited for: done of them take effect.
Together(done, all) ==
  /\ faults' = faults + (IF done = all THEN 0 ELSE 1) /\ faults' <= MaxFaults
  /\ UNCHANGED slips

\* Mutant: the manifest is not restored.
RollbackWithoutRestore(o) == IF op[o].import THEN "discard" ELSE "release"
\* Where the rollback of a failed operation begins.
Rollback(o) ==
  IF op[o].written THEN "restart" ELSE IF op[o].import THEN "discard" ELSE "release"

\* The secrets the operation wants in the sandbox, from those it has read.
Wanted(o) ==
  IF op[o].import THEN With(op[o].seen, op[o].names, o)
  ELSE Without(op[o].seen, op[o].names)
Replaced(o) == SecretsOf(op[o].seen, op[o].names)

Owns(o) == lock.owner = o
OwnsActive(o) == Owns(o) /\ lock.live

\* renewSandboxEnvironmentUpdateInternal: an owner may renew a lapsed lock.
Renew(o) == lock' = [owner |-> o, live |-> TRUE]

-----------------------------------------------------------------------------
(* The call: which names, and what the document says of them now. *)

Begin(o, import, names) ==
  /\ At(o, "idle") /\ names # {}
  /\ import \/ \E n \in Names :
                 names = {n} /\ (project.secrets[n] # None \/ n \in project.variables)
  /\ op' = [op EXCEPT ![o].pc = IF project.provider = "e2b" THEN "acquire" ELSE "d.start",
                      ![o].names = names, ![o].import = import,
                      ![o].seen = project.secrets]
  /\ slips' = IF project.provider = "daytona"
                 /\ \E p \in Ops : op[p].pc \notin {"idle", "over", "dead"}
              THEN slips \cup {"overlap"} ELSE slips
  /\ UNCHANGED <<stores, faults>>

-----------------------------------------------------------------------------
(* E2B. *)

\* acquireSandboxEnvironmentUpdateInternal: refused while another one is live.  It
\* is called outside the try: one that throws leaves the lock to lapse.
MayAcquire(o) == lock.owner \in {None, o} \/ ~lock.live
Acquire(o) ==
  /\ At(o, "acquire")
  /\ \/ ~MayAcquire(o) /\ Answer(o, "over") /\ UNCHANGED stores
     \/ /\ MayAcquire(o) /\ Renew(o) /\ UNCHANGED <<project, sandbox, vault>>
        /\ \/ LET nothing == SecretsOf(project.secrets, op[o].names) = {}
                             /\ op[o].names \cap project.variables = {}
              IN  /\ op' = [op EXCEPT ![o].seen = project.secrets,
                                      ![o].pc = IF op[o].import THEN "create"
                                                ELSE IF nothing THEN "release" ELSE "start"]
                  /\ UNCHANGED <<faults, slips>>
           \/ Lose(o, "over")
     \/ Fail(o, "over")

\* Every creation is waited for, and one whose answer is lost is not known.
CreateSecrets(o) ==
  /\ At(o, "create")
  /\ \E made \in SUBSET op[o].names : \E known \in SUBSET made :
       /\ Together(known, op[o].names)
       /\ vault' = vault \cup (made \X {o})
       /\ op' = [op EXCEPT ![o].created = known,
                           ![o].pc = IF known = op[o].names THEN "start" ELSE "discard"]
  /\ UNCHANGED <<project, sandbox, lock>>

EnsureStarted(o) ==
  /\ At(o, "start")
  /\ (Answer(o, "check") /\ UNCHANGED stores) \/ Fail(o, Rollback(o))

\* requireSandboxEnvironmentUpdate, before the manifest and before the commit.
Require(o) ==
  /\ op[o].pc \in {"check", "recheck"}
  /\ \/ /\ Owns(o) /\ Renew(o) /\ UNCHANGED <<project, sandbox, vault>>
        /\ \/ Answer(o, IF At(o, "check") THEN "upload" ELSE "commit")
           \/ Lose(o, Rollback(o))
     \/ ~Owns(o) /\ Answer(o, Rollback(o)) /\ UNCHANGED stores
     \/ Fail(o, Rollback(o))

\* manifestUpdated is set when the upload has answered.
UploadManifest(o) ==
  /\ At(o, "upload")
  /\ \/ /\ sandbox' = [sandbox EXCEPT !.secrets = Wanted(o)]
        /\ UNCHANGED <<project, vault, lock>>
        /\ \/ /\ op' = [op EXCEPT ![o].pc = "recheck", ![o].written = TRUE]
              /\ UNCHANGED <<faults, slips>>
           \/ Lose(o, Rollback(o))
     \/ Fail(o, Rollback(o))

\* upsertSandboxSecretsInternal and removeSandboxEnvironmentVariableInternal.
MayCommit(o) == OwnsActive(o)
Commit(o) ==
  /\ At(o, "commit")
  /\ \/ /\ MayCommit(o)
        /\ project' = [project EXCEPT
                         !.secrets = IF op[o].import THEN With(@, op[o].names, o)
                                     ELSE Without(@, op[o].names),
                         !.variables = @ \ op[o].names]
        /\ UNCHANGED <<sandbox, vault, lock>>
        /\ \/ /\ op' = [op EXCEPT ![o].pc = "destroy", ![o].committed = TRUE]
              /\ UNCHANGED <<faults, slips>>
           \/ Lose(o, Rollback(o))
     \/ ~MayCommit(o) /\ Answer(o, Rollback(o)) /\ UNCHANGED stores
     \/ Fail(o, Rollback(o))

\* An import ignores secrets it cannot destroy; a removal takes itself back.
DestroyReplaced(o) ==
  /\ At(o, "destroy")
  /\ \E gone \in SUBSET Replaced(o) :
       /\ vault' = vault \ gone
       /\ \/ /\ op[o].import \/ gone = Replaced(o)
             /\ op' = [op EXCEPT ![o].pc = "release", ![o].ok = TRUE]
             /\ Together(gone, Replaced(o))
          \/ /\ ~op[o].import /\ Replaced(o) # {}
             /\ IF gone = {} THEN Fail(o, Rollback(o)) ELSE Lose(o, Rollback(o))
  /\ UNCHANGED <<project, sandbox, lock>>

\* The rollback of a manifest that was written: start, renew, restore.  Its own
\* failures are collected, and what is left of the rollback is skipped.
AfterRestore(o) == IF op[o].import THEN "discard" ELSE "release"
RestartForRollback(o) ==
  /\ At(o, "restart")
  /\ (Answer(o, "renew") /\ UNCHANGED stores) \/ Fail(o, AfterRestore(o))
RenewForRollback(o) ==
  /\ At(o, "renew")
  /\ \/ /\ Owns(o) /\ Renew(o) /\ UNCHANGED <<project, sandbox, vault>>
        /\ \/ Answer(o, IF op[o].committed THEN "readd" ELSE "restore")
           \/ Lose(o, AfterRestore(o))
     \/ ~Owns(o) /\ Answer(o, AfterRestore(o)) /\ UNCHANGED stores
     \/ Fail(o, AfterRestore(o))
ReaddReference(o) ==
  /\ At(o, "readd")
  /\ \/ /\ MayCommit(o)
        /\ project' = [project EXCEPT
                         !.secrets = [n \in Names |-> IF n \in op[o].names
                                                      THEN op[o].seen[n] ELSE @[n]],
                         !.variables = @ \ op[o].names]
        /\ UNCHANGED <<sandbox, vault, lock>>
        /\ (Answer(o, "restore") \/ Lose(o, "release"))
     \/ ~MayCommit(o) /\ Answer(o, "release") /\ UNCHANGED stores
     \/ Fail(o, "release")
RestoreManifest(o) ==
  /\ At(o, "restore")
  /\ \/ /\ sandbox' = [sandbox EXCEPT !.secrets = op[o].seen]
        /\ Answer(o, AfterRestore(o)) /\ UNCHANGED <<project, vault, lock>>
     \/ Fail(o, AfterRestore(o))

DiscardCreated(o) ==
  /\ At(o, "discard")
  /\ \E gone \in SUBSET op[o].created :
       vault' = vault \ (gone \X {o}) /\ Together(gone, op[o].created)
  /\ Goto(o, "release") /\ UNCHANGED <<project, sandbox, lock>>

\* releaseSandboxEnvironmentUpdateInternal; its failure is ignored.
Release(o) ==
  /\ At(o, "release")
  /\ \/ /\ lock' = IF Owns(o) THEN [owner |-> None, live |-> FALSE] ELSE lock
        /\ Answer(o, "over") /\ UNCHANGED <<project, sandbox, vault>>
     \/ Fail(o, "over")

-----------------------------------------------------------------------------
(* Daytona: the same without a lock, on what was read when the call began. *)

Legacy(o) == SecretsOf(op[o].seen, op[o].names) # {}

StartDaytona(o) ==
  /\ At(o, "d.start")
  /\ \/ /\ Answer(o, IF ~op[o].import THEN "d.unset"
                     ELSE IF Legacy(o) THEN "d.secrets" ELSE "d.env")
        /\ UNCHANGED stores
     \/ Fail(o, IF op[o].import /\ Legacy(o) THEN "d.restore" ELSE "over")
DropLegacySecrets(o) ==
  /\ At(o, "d.secrets")
  /\ \/ /\ sandbox' = [sandbox EXCEPT !.secrets = Without(op[o].seen, op[o].names)]
        /\ (Answer(o, "d.env") \/ Lose(o, "d.restore"))
        /\ UNCHANGED <<project, vault, lock>>
     \/ Fail(o, "d.restore")
UpdateEnv(o) ==
  LET failed == IF Legacy(o) THEN "d.restore" ELSE "over"
  IN  /\ At(o, "d.env")
      /\ \/ /\ sandbox' = [sandbox EXCEPT !.variables = @ \cup op[o].names]
            /\ (Answer(o, "d.upsert") \/ Lose(o, failed))
            /\ UNCHANGED <<project, vault, lock>>
         \/ Fail(o, failed)
UpsertVariables(o) ==
  /\ At(o, "d.upsert")
  /\ \/ /\ project' = [project EXCEPT !.secrets = Without(@, op[o].names),
                                     !.variables = @ \cup op[o].names]
        /\ (Answer(o, "d.delete") \/ Lose(o, "over"))
        /\ UNCHANGED <<sandbox, vault, lock>>
     \/ Fail(o, "over")
DeleteLegacySecrets(o) ==
  /\ At(o, "d.delete")
  /\ \E gone \in SUBSET Replaced(o) : vault' = vault \ gone /\ Together(gone, Replaced(o))
  /\ Goto(o, "over") /\ UNCHANGED <<project, sandbox, lock>>
RestoreLegacySecrets(o) ==
  /\ At(o, "d.restore")
  /\ \/ /\ sandbox' = [sandbox EXCEPT !.secrets = op[o].seen]
        /\ Answer(o, "over") /\ UNCHANGED <<project, vault, lock>>
     \/ Fail(o, "over")
UnsetVariable(o) ==
  /\ At(o, "d.unset")
  /\ \/ /\ sandbox' = [sandbox EXCEPT !.variables = @ \ op[o].names]
        /\ \/ Answer(o, IF Legacy(o) THEN "d.remaining" ELSE "d.record")
           \/ Lose(o, "over")
        /\ UNCHANGED <<project, vault, lock>>
     \/ Fail(o, "over")
UpdateRemainingSecrets(o) ==
  /\ At(o, "d.remaining")
  /\ \/ /\ sandbox' = [sandbox EXCEPT !.secrets = Without(op[o].seen, op[o].names)]
        /\ (Answer(o, "d.destroy") \/ Lose(o, "over"))
        /\ UNCHANGED <<project, vault, lock>>
     \/ Fail(o, "over")
DeleteSecret(o) ==
  /\ At(o, "d.destroy")
  /\ \/ /\ vault' = vault \ Replaced(o)
        /\ (Answer(o, "d.record") \/ Lose(o, "over"))
        /\ UNCHANGED <<project, sandbox, lock>>
     \/ Fail(o, "over")
RecordRemoval(o) ==
  /\ At(o, "d.record")
  /\ \/ /\ project' = [project EXCEPT !.secrets = Without(@, op[o].names),
                                     !.variables = @ \ op[o].names]
        /\ Answer(o, "over") /\ UNCHANGED <<sandbox, vault, lock>>
     \/ Fail(o, "over")

-----------------------------------------------------------------------------
(* An operation dies; the lock of a dead one lapses, as does any other     *)
(* when OutliveLock says so.                                               *)

Die(o) ==
  /\ op[o].pc \notin {"idle", "over", "dead"}
  /\ Fail(o, "dead")

Lapse ==
  /\ lock.live
  /\ OutliveLock \/ op[lock.owner].pc \in {"over", "dead"}
  /\ lock' = [lock EXCEPT !.live = FALSE]
  /\ UNCHANGED <<project, sandbox, vault, op, faults, slips>>

E2BStep(o) ==
  \/ Acquire(o) \/ CreateSecrets(o) \/ EnsureStarted(o) \/ Require(o)
  \/ UploadManifest(o) \/ Commit(o) \/ DestroyReplaced(o) \/ RestartForRollback(o)
  \/ RenewForRollback(o) \/ ReaddReference(o) \/ RestoreManifest(o)
  \/ DiscardCreated(o) \/ Release(o)
DaytonaStep(o) ==
  \/ StartDaytona(o) \/ DropLegacySecrets(o) \/ UpdateEnv(o) \/ UpsertVariables(o)
  \/ DeleteLegacySecrets(o) \/ RestoreLegacySecrets(o) \/ UnsetVariable(o)
  \/ UpdateRemainingSecrets(o) \/ DeleteSecret(o) \/ RecordRemoval(o)

Next ==
  \/ \E o \in Ops : E2BStep(o) \/ DaytonaStep(o) \/ Die(o)
  \/ \E o \in Ops, import \in BOOLEAN, names \in SUBSET Names : Begin(o, import, names)
  \/ Lapse

Spec == Init /\ [][Next]_vars

-----------------------------------------------------------------------------
\* One call failed at most, and none of those whose failure the code cannot judge.
Sound == faults <= 1 /\ "misjudged" \notin slips
\* No call failed and no two operations overlapped.
Quiet == faults = 0 /\ "overlap" \notin slips

\* No secret the sandbox is told to fill in has been destroyed: every command of
\* the agent reads this map, and a secret is destroyed only when a later map, or
\* the restored one, has taken its place (projectActions.ts:1709).  On E2B also
\* after a failure, unless it is an upload, a commit or a destruction that took
\* effect: the rollback then destroys what is in use, or restores what is
\* destroyed.  On Daytona only while no call fails and no two operations overlap.
NoDanglingSecret ==
  (IF project.provider = "e2b" THEN Sound ELSE Quiet) =>
    \A n \in Names : sandbox.secrets[n] # None => <<n, sandbox.secrets[n]>> \in vault

\* On E2B the sandbox has exactly the secrets the document lists whenever nobody
\* holds the lock and no operation died, so an update that failed left no trace
\* (the comment at projects.ts:706), with the exceptions above; and when an
\* operation that changed the document gives the lock back, also after another
\* one died half-way.
SandboxMatchesRecord ==
  project.provider = "e2b" /\ Sound =>
    \/ sandbox.secrets = project.secrets
    \/ /\ lock.owner # None \/ \E o \in Ops : At(o, "dead")
       /\ \A o \in Ops : At(o, "release") => ~op[o].committed

\* On E2B an update that answers success has done all it was asked for, however
\* many calls failed before, lost their answer or were misjudged: the sandbox is
\* told what the document lists, an imported secret is new and is there, and a
\* removed one is in neither and destroyed (projectActions.ts:1710, 1847).
SuccessIsWhole ==
  project.provider = "e2b" =>
    \A o \in Ops : At(o, "release") /\ op[o].ok =>
      /\ sandbox.secrets = project.secrets
      /\ \A n \in op[o].names :
           IF op[o].import THEN project.secrets[n] = o /\ <<n, o>> \in vault
           ELSE project.secrets[n] = None /\ <<n, op[o].seen[n]>> \notin vault
=============================================================================
