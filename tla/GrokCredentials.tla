-------------------------- MODULE GrokCredentials --------------------------
(***************************************************************************)
(* The Grok credentials of one user (grok-auth-runtime-server.ts), an       *)
(* object of a vault that several processes refresh: a refresh token is     *)
(* good for one refresh, so a refresh first writes a lease into the object  *)
(* under the vault's version check, and calls of one process share it.      *)
(*                                                                          *)
(* A refresh token is numbered, and remembers which connection it comes     *)
(* from.  xAI and the vault are external; the device flow that ends in a    *)
(* connection, and the list of models, are left out.                        *)
(***************************************************************************)
EXTENDS Naturals, FiniteSets

CONSTANTS
  Calls,         \* calls that need an access token
  Processes, ProcessOf,
  None,
  OutliveLease,  \* may a refresh take longer than its lease?
  MaxTries,      \* how often an update of the vault is tried, 4 in the code
  MaxTokens,     \* bound: refresh tokens issued
  MaxExpiries,   \* bound: access tokens that expire
  MaxFaults      \* bound: calls of xAI or the vault that fail, processes that die

GrokAssumption ==
  /\ ProcessOf \in [Calls -> Processes] /\ None \notin Calls /\ OutliveLease \in BOOLEAN
  /\ {MaxTries, MaxTokens} \subseteq Nat \ {0} /\ {MaxExpiries, MaxFaults} \subseteq Nat

VARIABLES
  object,     \* the vault's object: version, token, fresh, lease
  issued,     \* refresh tokens issued so far
  good,       \* those not yet used
  origin,     \* the connection each token comes from
  connection, \* history: the connection made last, 0 when disconnected
  call,       \* the local state of each call; tries: the attempts of its update that failed
  shared,     \* refreshPromises of each process
  lost,       \* history: a refresh gave up the new token, as each try to store it conflicted
  expiries, faults

vars == <<object, issued, good, origin, connection, call, shared, lost, expiries, faults>>
xai == <<issued, good, origin>>
Tokens == 1 .. MaxTokens
Gone == [version |-> 0, token |-> 0, fresh |-> FALSE, lease |-> None, live |-> FALSE]
Ended == {"done", "failed"}

TypeOK ==
  /\ object.token \in Tokens \cup {0} /\ object.lease \in Calls \cup {None}
  /\ issued \in 0 .. MaxTokens /\ good \subseteq 1 .. issued
  /\ origin \in [Tokens -> 0 .. MaxTokens] /\ connection \in 0 .. MaxTokens
  /\ shared \in [Processes -> Calls \cup {None}]
  /\ \A c \in Calls :
       /\ call[c].pc \in {"idle", "load", "ask", "shared", "lease", "refresh", "store",
                          "clear", "poll"} \cup Ended
       /\ call[c].seen.token \in Tokens \cup {0} /\ call[c].new \in Tokens \cup {0}
       /\ call[c].tries \in 0 .. MaxTries - 1
  /\ lost \in BOOLEAN
  /\ expiries \in 0 .. MaxExpiries /\ faults \in 0 .. MaxFaults

Init ==
  /\ object = [version |-> 1, token |-> 1, fresh |-> TRUE, lease |-> None, live |-> FALSE]
  /\ issued = 1 /\ good = {1} /\ origin = [t \in Tokens |-> IF t = 1 THEN 1 ELSE 0]
  /\ connection = 1
  /\ call = [c \in Calls |-> [pc |-> "idle", seen |-> Gone, new |-> 0, tries |-> 0]]
  /\ shared = [p \in Processes |-> None]
  /\ lost = FALSE /\ expiries = 0 /\ faults = 0

-----------------------------------------------------------------------------
Exists == object.token # 0
At(c, pc) == call[c].pc = pc
Goes(c, pc) == call' = [call EXCEPT ![c].pc = pc]
\* An update reads the object; when what it read is gone, it reads again.
Sees(c, pc) == call' = [call EXCEPT ![c].pc = pc, ![c].seen = object, ![c].tries = 0]
LastTry(c) == call[c].tries = MaxTries - 1
ReadsAgain(c) == call' = [call EXCEPT ![c].seen = object, ![c].tries = @ + 1]
Leaves(c) == IF shared[ProcessOf[c]] = c THEN [shared EXCEPT ![ProcessOf[c]] = None] ELSE shared
Fault == faults < MaxFaults /\ faults' = faults + 1
Calm == UNCHANGED <<lost, expiries, faults>>
Refreshing(c) == call[c].pc \in {"refresh", "store", "clear"}

\* WorkOSVaultStore.update: what was read is written only if it is still there.
Unchanged(c) == object.version = call[c].seen.version /\ Exists
Written(record) == object' = [record EXCEPT !.version = object.version + 1]

-----------------------------------------------------------------------------
(* The user. *)

Connect ==
  /\ issued < MaxTokens
  /\ issued' = issued + 1 /\ good' = good \cup {issued'}
  /\ origin' = [origin EXCEPT ![issued'] = issued'] /\ connection' = issued'
  /\ Written([Gone EXCEPT !.token = issued', !.fresh = TRUE])
  /\ UNCHANGED <<call, shared>> /\ Calm
Disconnect ==
  /\ Exists /\ object' = [Gone EXCEPT !.version = object.version + 1] /\ connection' = 0
  /\ UNCHANGED <<xai, call, shared>> /\ Calm
AccessTokenExpires ==
  /\ Exists /\ object.fresh /\ expiries < MaxExpiries
  /\ expiries' = expiries + 1 /\ object' = [object EXCEPT !.fresh = FALSE]
  /\ UNCHANGED <<xai, connection, call, shared, lost, faults>>
LeaseExpires ==
  /\ object.live
  /\ OutliveLease \/ ~Refreshing(object.lease)
  /\ object' = [object EXCEPT !.live = FALSE]
  /\ UNCHANGED <<xai, connection, call, shared>> /\ Calm

-----------------------------------------------------------------------------
(* getFreshGrokCredentials. *)

Load(c) ==
  /\ At(c, "idle")
  /\ IF ~Exists THEN Goes(c, "failed")
     ELSE IF object.fresh THEN Goes(c, "done") ELSE Goes(c, "ask")
  /\ UNCHANGED <<object, xai, connection, shared>> /\ Calm
Ask(c) ==
  /\ At(c, "ask")
  /\ IF shared[ProcessOf[c]] # None
     THEN /\ call' = [call EXCEPT ![c].pc = "shared", ![c].new = 0] /\ UNCHANGED shared
     ELSE Sees(c, "lease") /\ shared' = [shared EXCEPT ![ProcessOf[c]] = c]
  /\ UNCHANGED <<object, xai, connection>> /\ Calm
Share(c) ==
  /\ At(c, "shared") /\ shared[ProcessOf[c]] = None /\ Goes(c, "done")
  /\ UNCHANGED <<object, xai, connection, shared>> /\ Calm

-----------------------------------------------------------------------------
(* refreshGrokCredentialsWithLease. *)

Taken(c) == call[c].seen.lease # None /\ call[c].seen.live
IgnoreLease(c) == FALSE  \* mutant: the lease of another call is not respected
Blocked(c) == Taken(c)

Lease(c) ==
  /\ At(c, "lease")
  /\ IF ~Unchanged(c)
     THEN /\ UNCHANGED object
          /\ IF Exists /\ ~LastTry(c) THEN ReadsAgain(c) /\ UNCHANGED shared
             ELSE Goes(c, "failed") /\ shared' = Leaves(c)
     ELSE IF call[c].seen.fresh
     THEN Goes(c, "done") /\ Written(object) /\ shared' = Leaves(c)
     ELSE IF Blocked(c)
     THEN Goes(c, "poll") /\ Written(object) /\ UNCHANGED shared
     ELSE /\ Goes(c, "refresh") /\ UNCHANGED shared
          /\ Written([object EXCEPT !.lease = c, !.live = TRUE])
  /\ UNCHANGED <<xai, connection>> /\ Calm

\* xAI exchanges the refresh token that was read with the lease.
Refresh(c) ==
  LET token == call[c].seen.token IN
  /\ At(c, "refresh") /\ issued < MaxTokens
  /\ IF token \in good
     THEN /\ issued' = issued + 1 /\ good' = (good \ {token}) \cup {issued'}
          /\ origin' = [origin EXCEPT ![issued'] = origin[token]]
          /\ call' = [call EXCEPT ![c].pc = "store", ![c].new = issued', ![c].seen = object,
                                  ![c].tries = 0]
     ELSE Sees(c, "clear") /\ UNCHANGED xai
  /\ UNCHANGED <<object, connection, shared>> /\ Calm
RefreshFails(c) ==
  /\ At(c, "refresh") /\ Fault /\ Sees(c, "clear")
  /\ UNCHANGED <<object, xai, connection, shared, lost, expiries>>

\* The new tokens replace the old ones if the lease is still this call's; they are given
\* up when every try to write them has met another write.
Store(c) ==
  /\ At(c, "store")
  /\ IF ~Exists
     THEN Goes(c, "failed") /\ shared' = Leaves(c) /\ UNCHANGED <<object, lost>>
     ELSE IF ~Unchanged(c)
     THEN /\ UNCHANGED <<object, shared>>
          /\ IF LastTry(c) THEN Sees(c, "clear") /\ lost' = (lost \/ object.lease = c)
             ELSE ReadsAgain(c) /\ UNCHANGED lost
     ELSE /\ Goes(c, "done") /\ shared' = Leaves(c) /\ UNCHANGED lost
          /\ IF object.lease = c
             THEN Written([Gone EXCEPT !.token = call[c].new, !.fresh = TRUE])
             ELSE Written(object)
  /\ UNCHANGED <<xai, connection, expiries, faults>>
StoreFails(c) ==
  /\ At(c, "store") /\ Fault /\ Sees(c, "clear")
  /\ UNCHANGED <<object, xai, connection, shared, lost, expiries>>
Clear(c) ==
  /\ At(c, "clear")
  /\ IF Exists /\ ~Unchanged(c) /\ ~LastTry(c)
     THEN ReadsAgain(c) /\ UNCHANGED <<object, shared>>
     ELSE /\ Goes(c, "failed") /\ shared' = Leaves(c)
          /\ IF Exists /\ Unchanged(c)
             THEN Written([object EXCEPT !.lease = IF @ = c THEN None ELSE @,
                                         !.live = @ /\ object.lease # c])
             ELSE UNCHANGED object
  /\ UNCHANGED <<xai, connection>> /\ Calm

\* waitForGrokCredentialRefresh: until the lease is gone or has expired.
Poll(c) ==
  /\ At(c, "poll")
  /\ IF ~Exists THEN Goes(c, "failed") /\ shared' = Leaves(c)
     ELSE IF object.lease = None /\ object.fresh THEN Goes(c, "done") /\ shared' = Leaves(c)
     ELSE /\ object.lease = None \/ ~object.live
          /\ Sees(c, "lease") /\ UNCHANGED shared
  /\ UNCHANGED <<object, xai, connection>> /\ Calm

Dies(p) ==
  /\ Fault
  /\ \E c \in Calls : ProcessOf[c] = p /\ call[c].pc \notin Ended \cup {"idle"}
  /\ call' = [c \in Calls |-> IF ProcessOf[c] = p /\ ~At(c, "idle")
                              THEN [call[c] EXCEPT !.pc = "failed"] ELSE call[c]]
  /\ shared' = [shared EXCEPT ![p] = None]
  /\ UNCHANGED <<object, xai, connection, lost, expiries>>

-----------------------------------------------------------------------------
Works(c) == Ask(c) \/ Share(c) \/ Lease(c) \/ Refresh(c) \/ Store(c) \/ Clear(c) \/ Poll(c)
Next ==
  \/ Connect \/ Disconnect \/ AccessTokenExpires \/ LeaseExpires
  \/ \E c \in Calls : Load(c) \/ Works(c) \/ RefreshFails(c) \/ StoreFails(c)
  \/ \E p \in Processes : Dies(p)

Spec == Init /\ [][Next]_vars

-----------------------------------------------------------------------------
\* A refresh token is never sent to xAI again once it was used, however many
\* processes need a fresh one, unless a refresh outlives its lease or could not
\* store what it got (grok-auth-runtime-server.ts:217).
NoTokenIsReused ==
  faults = 0 /\ ~lost => \A c \in Calls : At(c, "refresh") /\ Exists => call[c].seen.token \in good

\* What is stored belongs to the connection made last, and can be refreshed
\* unless a refresh is under way, one has failed, or one met another write at each
\* of its tries to store what it got: a refresh never brings back what was
\* disconnected or replaced while it ran (grok-auth-runtime-server.ts:243).
ConnectionIsKept ==
  /\ Exists => origin[object.token] = connection
  /\ Exists /\ faults = 0 /\ ~lost => \/ object.token \in good
                                      \/ \E c \in Calls : At(c, "store") /\ object.lease = c
=============================================================================
