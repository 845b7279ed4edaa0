------------------------------ MODULE VaultStore ------------------------------
(***************************************************************************)
(* The key-value store over WorkOS Vault (WorkOSVaultStore,                 *)
(* codex-auth-runtime-server.ts): sessions, rate-limit buckets and the      *)
(* grants a run redeems, each an object that several processes read, write  *)
(* under its version and delete.                                            *)
(*                                                                          *)
(* One key.  A write is named by its client, and a value is the set of the  *)
(* writes it contains: a bucket adds to what it holds, a session or a grant *)
(* replaces it.  WorkOS Vault is external.                                  *)
(***************************************************************************)
EXTENDS Naturals, FiniteSets

CONSTANTS
  Clients,
  MaxAttempts,  \* bound of the code: tries of one update or take (4, 3)
  MaxExpiries,  \* bound: values whose time is over
  MaxFaults     \* bound: calls of the vault that fail, or whose answer is lost

VaultAssumption == MaxAttempts \in Nat \ {0} /\ {MaxExpiries, MaxFaults} \subseteq Nat

VARIABLES
  use,     \* what the key holds: a "session", a "bucket" or a "grant"
  object,  \* the vault's object; its id is 0 when there is none
  ids,     \* objects created so far
  client,  \* the operation of each client
  gone,    \* history: the writes that were replaced, taken, deleted or expired
  expiries, faults

vars == <<use, object, ids, client, gone, expiries, faults>>

NoObject == [id |-> 0, version |-> 0, value |-> {}, live |-> TRUE]
\* The operations of each use.
Operations == [session |-> {"set", "get", "delete"}, bucket |-> {"add"},
               grant |-> {"set", "take", "delete"}]
Fault == faults < MaxFaults /\ faults' = faults + 1
At(c, pc) == client[c].pc = pc
Goes(c, pc) == client' = [client EXCEPT ![c].pc = pc]

TypeOK ==
  /\ use \in DOMAIN Operations /\ object.value \subseteq Clients
  /\ object.id \in 0 .. ids /\ object.live \in BOOLEAN /\ gone \subseteq Clients
  /\ \A c \in Clients :
       /\ client[c].pc \in {"new", "read", "write", "remove", "ok", "failed"}
       /\ client[c].seen.id \in 0 .. ids /\ client[c].attempt \in 0 .. MaxAttempts
       /\ client[c].took \subseteq Clients
  /\ expiries \in 0 .. MaxExpiries /\ faults \in 0 .. MaxFaults

Init ==
  /\ use \in DOMAIN Operations /\ object = NoObject /\ ids = 0
  /\ client = [c \in Clients |-> [pc |-> "new", does |-> "get", seen |-> NoObject,
                                  attempt |-> 0, took |-> {}]]
  /\ gone = {} /\ expiries = 0 /\ faults = 0

\* A grant has an id of its own and is set once.
Invoke(c, does) ==
  /\ At(c, "new") /\ does \in Operations[use]
  /\ use = "grant" /\ does = "set" => \A d \in Clients : At(d, "new") \/ client[d].does # "set"
  /\ client' = [client EXCEPT ![c].pc = "read", ![c].does = does]
  /\ UNCHANGED <<use, object, ids, gone, expiries, faults>>
Expire ==
  /\ object.value # {} /\ object.live /\ expiries < MaxExpiries
  /\ expiries' = expiries + 1 /\ object' = [object EXCEPT !.live = FALSE]
  /\ gone' = gone \cup object.value
  /\ UNCHANGED <<use, ids, client, faults>>

\* readObjectByName.  A value that is consumed or over its time is no value: get
\* and take delete it.
Usable(o) == o.value # {} /\ o.live
After(c) ==
  CASE client[c].does \in {"set", "add"} -> "write"
    [] client[c].does = "delete" -> IF object.id = 0 THEN "ok" ELSE "remove"
    [] client[c].does = "take" -> IF object.id = 0 THEN "ok"
                                  ELSE IF Usable(object) THEN "write" ELSE "remove"
    [] OTHER -> IF object.id # 0 /\ ~object.live THEN "remove" ELSE "ok"
Read(c) ==
  /\ At(c, "read")
  /\ \/ client' = [client EXCEPT ![c].pc = After(c), ![c].seen = object] /\ UNCHANGED faults
     \/ Fault /\ Goes(c, "failed")
  /\ UNCHANGED <<use, object, ids, gone, expiries>>

SameObject(c) == object.id = client[c].seen.id  \* mutant: no version check
Unchanged(c) == object.id = client[c].seen.id /\ object.version = client[c].seen.version
NewValue(c) ==
  CASE client[c].does = "add" /\ Usable(client[c].seen) -> client[c].seen.value \cup {c}
    [] client[c].does = "take" -> {}
    [] OTHER -> {c}
\* What the write replaces on purpose.
Replaced(c) == IF client[c].does = "add" THEN {} ELSE object.value
\* updateObject under the version read, or createObject; a conflict is retried,
\* and a take whose object is gone has nothing to take.
Write(c) ==
  /\ At(c, "write")
  /\ \/ /\ Unchanged(c)
        /\ object' = [id |-> IF object.id = 0 THEN ids + 1 ELSE object.id,
                      version |-> object.version + 1, value |-> NewValue(c), live |-> TRUE]
        /\ ids' = IF object.id = 0 THEN ids + 1 ELSE ids
        /\ gone' = gone \cup Replaced(c)
        /\ \/ /\ UNCHANGED faults
              /\ client' = [client EXCEPT
                   ![c].pc = IF client[c].does = "take" THEN "remove" ELSE "ok",
                   ![c].took = IF client[c].does = "take" THEN client[c].seen.value ELSE {}]
           \/ Fault /\ Goes(c, "failed")
     \/ /\ ~Unchanged(c) /\ UNCHANGED <<object, ids, gone, faults>>
        /\ client' = [client EXCEPT ![c].attempt = @ + 1,
             ![c].pc = IF client[c].does = "take" /\ object.id # client[c].seen.id THEN "ok"
                       ELSE IF client[c].attempt + 1 = MaxAttempts THEN "failed" ELSE "read"]
     \/ Fault /\ Goes(c, "failed") /\ UNCHANGED <<object, ids, gone>>
  /\ UNCHANGED <<use, expiries>>

Checked(c) == client[c].does = "get"
Deletes(c) == object.id = client[c].seen.id /\ (Checked(c) => Unchanged(c))
\* deleteObject by id, by get only as it was read: else get reads again.
Remove(c) ==
  /\ At(c, "remove")
  /\ \/ /\ Deletes(c) /\ object' = NoObject /\ Goes(c, "ok")
        /\ gone' = IF client[c].does = "delete" THEN gone \cup object.value ELSE gone
        /\ UNCHANGED faults
     \/ /\ ~Deletes(c) /\ UNCHANGED <<object, gone, faults>>
        /\ Goes(c, IF object.id = client[c].seen.id THEN "read" ELSE "ok")
     \/ /\ Fault /\ UNCHANGED <<object, gone>>
        /\ Goes(c, IF client[c].does = "take" THEN "ok" ELSE "failed")
  /\ UNCHANGED <<use, ids, expiries>>

Next ==
  \/ \E c \in Clients :
       (\E does \in {"set", "add", "get", "take", "delete"} : Invoke(c, does))
       \/ Read(c) \/ Write(c) \/ Remove(c)
  \/ Expire
Spec == Init /\ [][Next]_vars

-----------------------------------------------------------------------------
\* A grant is redeemed by one run at most, and by none once it was revoked; a write
\* that was acknowledged is in the store until it is replaced, taken, deleted or over
\* its time, so that a bucket counts every request and the removal of an expired
\* value never takes a new one with it (codex-auth-runtime-server.ts:222).
NothingLostOrRedeemedTwice ==
  /\ \A c, d \in Clients : c # d => client[c].took \cap client[d].took = {}
  /\ \A c \in Clients : client[c].does \in {"set", "add"} /\ At(c, "ok") =>
       c \in object.value \cup gone
=============================================================================
