-------------------------- MODULE CredentialProofs --------------------------
(***************************************************************************)
(* Theorems about the credentials of the models and about the voice        *)
(* sessions of a ChatGPT login.                                            *)
(*                                                                         *)
(* GrokCredentials: for every number of calls and of processes, of         *)
(* connections and of access tokens that expire, what is stored belongs to *)
(* the connection made last, and a refresh token is spent once.            *)
(*                                                                         *)
(* VaultStore, below Vault!: for every number of clients, of tries, of     *)
(* values that expire and of calls that fail, no acknowledged write is     *)
(* lost, and no grant is redeemed by two runs.                             *)
(*                                                                         *)
(* ChatGPTSession, below ChatGPT!: for every number of requests and of     *)
(* tokens and codes that expire, those that need tokens do not lose the    *)
(* session.  `issued', `good' and `expiries' are this session's there.     *)
(*                                                                         *)
(* RealtimeSessions, below Voice!: for every number of starts, closes and  *)
(* confirmations and of failures, a login has one open session at most,    *)
(* and an action is done once.  `faults' are this model's there.           *)
(*                                                                         *)
(* RealtimeCall, below Talk!: for every number of tool calls, of events    *)
(* that fit the queue, of messages, of mutes and of failures, a call that  *)
(* ended leaves nothing on, and a tool is done once.  `Calls', `call',     *)
(* `session' and `managed' are this model's there.                         *)
(***************************************************************************)
EXTENDS GrokCredentials, Integers, SequenceTheorems, FiniteSetTheorems, TLAPS

CONSTANTS
  Clients, MaxAttempts,                 \* VaultStore
  Requests, MaxCodes,                   \* ChatGPTSession
  Starts, Closes, Confirms,             \* RealtimeSessions
  MaxQueued, MaxMessages, MaxToggles    \* RealtimeCall

VARIABLES
  use, ids, client, gone,                                         \* VaultStore
  session, codes, lapsed, approved, request, inflight, overlap,   \* ChatGPTSession
  start, close, queue, managed, replaces, process, closing, signedIn, late,
  pending, confirm,                                               \* RealtimeSessions
  phase, peer, voice, ending, inbox, signal, known, delete, events,
  tally, left                                                     \* RealtimeCall

Vault == INSTANCE VaultStore
ChatGPT == INSTANCE ChatGPTSession
Voice == INSTANCE RealtimeSessions
Talk == INSTANCE RealtimeCall

-----------------------------------------------------------------------------
(* Types of the Grok credentials. *)

PC == {"idle", "load", "ask", "shared", "lease", "refresh", "store", "clear", "poll",
       "done", "failed"}
Token == 0 .. MaxTokens
Object == [version : Nat, token : Token, fresh : BOOLEAN, lease : Calls \cup {None},
           live : BOOLEAN]
Tries == 0 .. MaxTries - 1
Call == [pc : PC, seen : Object, new : Token, tries : Tries]

\* No token is known that was not issued.
TypeInv ==
  /\ object \in Object /\ issued \in 1 .. MaxTokens /\ good \in SUBSET (1 .. issued)
  /\ origin \in [Tokens -> Token] /\ connection \in Token
  /\ call \in [Calls -> Call] /\ shared \in [Processes -> Calls \cup {None}]
  /\ object.token <= issued
  /\ \A c \in Calls : call[c].seen.token <= issued /\ call[c].new <= issued
  /\ lost \in BOOLEAN /\ expiries \in 0 .. MaxExpiries /\ faults \in 0 .. MaxFaults

-----------------------------------------------------------------------------
(* The inductive invariant. *)

\* A version names an object: what a call has seen is the object still, but for
\* the times that are over, or is older.
SeenOK(s) ==
  /\ s.version <= object.version
  /\ s.version = object.version =>
       /\ s.token = object.token /\ s.lease = object.lease
       /\ object.live => s.live

\* Whoever has the lease works for the connection that is stored.
LeaseOK(c) ==
  /\ call[c].pc = "refresh" => call[c].seen.token # 0
  /\ call[c].pc = "store" => call[c].new # 0
  /\ call[c].pc = "refresh" /\ object.lease = c => call[c].seen.token = object.token
  /\ call[c].pc = "store" /\ object.lease = c => origin[call[c].new] = connection

StoredIsConnected == Exists => origin[object.token] = connection

KeptInv ==
  /\ TypeInv /\ StoredIsConnected
  /\ \A c \in Calls : SeenOK(call[c].seen) /\ LeaseOK(c)

\* The token a call has in hand: to exchange, or to store.
Hand(k) == IF k.pc = "refresh" THEN k.seen.token ELSE IF k.pc = "store" THEN k.new ELSE 0

\* Until a call of xAI or of the vault fails, or a new token was given up, a token in
\* hand was not used, is in no other hand, and is stored only while its holder has
\* the lease.
OnceInv ==
  faults = 0 /\ ~lost =>
    /\ \A c \in Calls : call[c].pc = "clear" => object.lease # c
    /\ \A c \in Calls : Hand(call[c]) # 0 => Hand(call[c]) \in good
    /\ \A c, d \in Calls : c # d /\ Hand(call[c]) = Hand(call[d]) => Hand(call[c]) = 0
    /\ \A c \in Calls : Hand(call[c]) # 0 /\ Hand(call[c]) = object.token =>
         call[c].pc = "refresh" /\ object.lease = c
    /\ \A c \in Calls : call[c].pc \in {"refresh", "store"} /\ object.lease = c => object.live
    /\ Exists => \/ object.token \in good
                 \/ \E c \in Calls : call[c].pc = "store" /\ object.lease = c

GrokInv == KeptInv /\ (~OutliveLease => OnceInv)

-----------------------------------------------------------------------------
(* Lemmas. *)

\* A call's step, as the record it leaves.
LEMMA CallSteps ==
  ASSUME call \in [Calls -> Call], NEW c \in Calls, NEW k \in Call,
         call' = [call EXCEPT ![c] = k]
  PROVE  /\ call' \in [Calls -> Call]
         /\ call'[c] = k
         /\ \A d \in Calls : d # c => call'[d] = call[d]
OBVIOUS

LEMMA GoesIs ==
  ASSUME TypeInv, NEW c \in Calls, NEW pc \in PC, Goes(c, pc)
  PROVE  \E k \in Call : /\ call' = [call EXCEPT ![c] = k]
                         /\ k.pc = pc /\ k.seen = call[c].seen /\ k.new = call[c].new
<1> DEFINE k == [call[c] EXCEPT !.pc = pc]
<1>1. call[c] \in Call
  BY DEF TypeInv
<1>2. k \in Call
  BY <1>1 DEF Call
<1>3. call' = [call EXCEPT ![c] = k]
  BY DEF Goes
<1> QED BY <1>1, <1>2, <1>3 DEF Call

LEMMA SeesIs ==
  ASSUME GrokAssumption, TypeInv, NEW c \in Calls, NEW pc \in PC, Sees(c, pc)
  PROVE  \E k \in Call : /\ call' = [call EXCEPT ![c] = k]
                         /\ k.pc = pc /\ k.seen = object /\ k.new = call[c].new
<1> DEFINE k == [call[c] EXCEPT !.pc = pc, !.seen = object, !.tries = 0]
<1>1. call[c] \in Call /\ object \in Object /\ 0 \in Tries
  BY DEF TypeInv, GrokAssumption, Tries
<1>2. k \in Call
  BY <1>1 DEF Call
<1>3. call' = [call EXCEPT ![c] = k]
  BY DEF Sees
<1> QED BY <1>1, <1>2, <1>3 DEF Call

LEMMA AgainIs ==
  ASSUME GrokAssumption, TypeInv, NEW c \in Calls, ReadsAgain(c), ~LastTry(c)
  PROVE  \E k \in Call : /\ call' = [call EXCEPT ![c] = k]
                         /\ k.pc = call[c].pc /\ k.seen = object /\ k.new = call[c].new
<1> DEFINE k == [call[c] EXCEPT !.seen = object, !.tries = call[c].tries + 1]
<1>1. call[c] \in Call /\ object \in Object
  BY DEF TypeInv
<1>2. call[c].tries + 1 \in Tries
  <2>1. call[c].tries \in Tries
    BY <1>1 DEF Call
  <2> QED BY <2>1 DEF LastTry, Tries, GrokAssumption
<1>3. k \in Call
  BY <1>1, <1>2 DEF Call
<1>4. call' = [call EXCEPT ![c] = k]
  BY <1>1 DEF ReadsAgain, Call
<1> QED BY <1>1, <1>3, <1>4 DEF Call

\* What a write leaves is an object, of a later version.
LEMMA WrittenIs ==
  ASSUME TypeInv, NEW record \in Object, Written(record)
  PROVE  /\ object' \in Object /\ object'.version = object.version + 1
         /\ object'.token = record.token /\ object'.fresh = record.fresh
         /\ object'.lease = record.lease /\ object'.live = record.live
BY DEF TypeInv, Object, Written

\* What was seen before a write is older than what it leaves.
LEMMA SeenIsOlder ==
  ASSUME KeptInv, object' \in Object, object'.version = object.version + 1,
         NEW c \in Calls, call'[c].seen \in {call[c].seen, object}
  PROVE  SeenOK(call[c].seen)'
BY DEF KeptInv, SeenOK, TypeInv, Object, Call

LEMMA SharedIs ==
  ASSUME GrokAssumption, TypeInv, NEW c \in Calls
  PROVE  /\ Leaves(c) \in [Processes -> Calls \cup {None}]
         /\ [shared EXCEPT ![ProcessOf[c]] = c] \in [Processes -> Calls \cup {None}]
BY DEF GrokAssumption, TypeInv, Leaves

\* What stays, or is written again without its lease or with it, is the same
\* token of the same connection: a step of a call that takes no lease, uses no
\* token and stores none.
Kept ==
  /\ object' \in Object /\ object'.token = object.token
  /\ object' = object \/ object'.version = object.version + 1
  /\ object'.lease \in {object.lease, None}
  /\ UNCHANGED <<xai, connection>>
  /\ shared' \in [Processes -> Calls \cup {None}] /\ lost' \in BOOLEAN
  /\ expiries' \in 0 .. MaxExpiries /\ faults' \in 0 .. MaxFaults

LEMMA KeptMoves ==
  ASSUME GrokAssumption, KeptInv, Kept, NEW c \in Calls, NEW k \in Call,
         call' = [call EXCEPT ![c] = k],
         k.seen \in {call[c].seen, object}, k.new \in {call[c].new, 0},
         k.pc # "refresh",
         k.pc = "store" => call[c].pc = "store" /\ k.new = call[c].new
  PROVE  KeptInv'
<1>0. /\ call' \in [Calls -> Call]
      /\ call'[c] = k
      /\ \A d \in Calls : d # c => call'[d] = call[d]
  BY CallSteps DEF KeptInv, TypeInv
<1>1. TypeInv'
  BY <1>0 DEF KeptInv, TypeInv, Kept, xai, Object
<1>2. StoredIsConnected'
  BY DEF KeptInv, StoredIsConnected, Exists, Kept, xai
<1>3. SeenOK(object)
  BY DEF SeenOK, KeptInv, TypeInv, Object
<1>4. ASSUME NEW d \in Calls PROVE SeenOK(call[d].seen)' /\ LeaseOK(d)'
  <2>1. call'[d].seen \in {call[d].seen, object}
    BY <1>0
  <2>2. SeenOK(call'[d].seen)
    BY <1>3, <2>1 DEF KeptInv
  <2>3. call'[d].seen \in Object
    BY <1>0, <2>1 DEF KeptInv, TypeInv, Call
  <2>4. SeenOK(call[d].seen)'
    BY <2>2, <2>3 DEF SeenOK, Kept, KeptInv, TypeInv, Object
  <2>5. LeaseOK(d)'
    <3>1. LeaseOK(d) /\ LeaseOK(c)
      BY DEF KeptInv
    <3>2. object'.lease = d => object.lease = d
      BY DEF Kept, GrokAssumption
    <3> QED BY <1>0, <3>1, <3>2 DEF LeaseOK, Kept, xai
  <2> QED BY <2>4, <2>5
<1> QED BY <1>1, <1>2, <1>4 DEF KeptInv

\* The same for the token in hand, when a call that has the lease keeps it until
\* nothing is stored.
LEMMA OnceMoves ==
  ASSUME GrokAssumption, GrokInv, ~OutliveLease, Kept, faults' = faults, lost' = lost,
         object'.lease = object.lease, object'.live = object.live,
         NEW c \in Calls, NEW k \in Call,
         call' = [call EXCEPT ![c] = k],
         \/ k.pc = call[c].pc /\ k.pc # "refresh" /\ k.new = call[c].new
         \/ /\ k.pc \notin {"refresh", "store"} /\ (k.pc = "clear" => object.lease # c)
            /\ call[c].pc \notin {"refresh", "store"} \/ ~Exists \/ object.lease # c
  PROVE  OnceInv'
<1>0. /\ call' \in [Calls -> Call]
      /\ call'[c] = k
      /\ \A d \in Calls : d # c => call'[d] = call[d]
  BY CallSteps DEF GrokInv, KeptInv, TypeInv
<1> SUFFICES ASSUME faults = 0, ~lost PROVE OnceInv'
  BY DEF OnceInv
<1>1. \A d \in Calls : Hand(call'[d]) \in {Hand(call[d]), 0}
  BY <1>0 DEF Hand
<1>2. \A d \in Calls : Hand(call'[d]) # 0 => call'[d].pc = call[d].pc
  BY <1>0 DEF Hand
<1>3. \A d \in Calls : call'[d].pc = "clear" => object.lease # d
  BY <1>0 DEF GrokInv, OnceInv
<1>4. \A d \in Calls : call'[d].pc \in {"refresh", "store"} => call'[d].pc = call[d].pc
  BY <1>0
<1>5. \A d \in Calls : Hand(call'[d]) # 0 => Hand(call'[d]) \in good
  BY <1>1 DEF GrokInv, OnceInv
<1>6. \A d, e \in Calls :
        d # e /\ Hand(call'[d]) = Hand(call'[e]) => Hand(call'[d]) = 0
  BY <1>1 DEF GrokInv, OnceInv
<1>7. \A d \in Calls : Hand(call'[d]) # 0 /\ Hand(call'[d]) = object.token =>
        call'[d].pc = "refresh" /\ object.lease = d
  BY <1>1, <1>2 DEF GrokInv, OnceInv
<1>8. \A d \in Calls : call'[d].pc \in {"refresh", "store"} /\ object.lease = d => object.live
  BY <1>4 DEF GrokInv, OnceInv
<1>9. Exists => \/ object.token \in good
                \/ \E d \in Calls : call'[d].pc = "store" /\ object.lease = d
  <2> SUFFICES ASSUME Exists, NEW d \in Calls, call[d].pc = "store", object.lease = d
               PROVE  call'[d].pc = "store"
    BY DEF GrokInv, OnceInv
  <2> QED BY <1>0
<1> QED BY <1>3, <1>5, <1>6, <1>7, <1>8, <1>9 DEF OnceInv, Kept, xai, Exists

\* What is written as it was read.
LEMMA KeptObject ==
  ASSUME GrokAssumption, KeptInv, UNCHANGED <<xai, connection, lost, expiries, faults>>,
         shared' \in [Processes -> Calls \cup {None}],
         UNCHANGED object \/ Written(object)
  PROVE  Kept /\ object'.lease = object.lease /\ object'.live = object.live
<1>1. object \in Object
  BY DEF KeptInv, TypeInv
<1>2. TypeInv
  BY DEF KeptInv
<1>3. CASE UNCHANGED object
  BY <1>1, <1>2, <1>3 DEF Kept, TypeInv
<1>4. CASE Written(object)
  BY <1>1, <1>2, <1>4, WrittenIs DEF Kept, TypeInv
<1> QED BY <1>3, <1>4

\* Both, for a step that writes nothing new.
LEMMA Moves ==
  ASSUME GrokAssumption, GrokInv,
         UNCHANGED <<xai, connection, lost, expiries, faults>>,
         shared' \in [Processes -> Calls \cup {None}],
         UNCHANGED object \/ Written(object),
         NEW c \in Calls, NEW k \in Call,
         call' = [call EXCEPT ![c] = k],
         k.seen \in {call[c].seen, object}, k.new \in {call[c].new, 0},
         \/ k.pc = call[c].pc /\ k.pc # "refresh" /\ k.new = call[c].new
         \/ /\ k.pc \notin {"refresh", "store"} /\ (k.pc = "clear" => object.lease # c)
            /\ call[c].pc \notin {"refresh", "store"} \/ ~Exists \/ object.lease # c
  PROVE  GrokInv'
<1>1. Kept /\ object'.lease = object.lease /\ object'.live = object.live
  BY KeptObject DEF GrokInv
<1>2. KeptInv'
  BY <1>1, KeptMoves DEF GrokInv
<1>3. ASSUME ~OutliveLease PROVE OnceInv'
  BY <1>1, <1>3, OnceMoves
<1> QED BY <1>2, <1>3 DEF GrokInv

\* The same, once a call of xAI or of the vault has failed.
LEMMA MovesAfterFault ==
  ASSUME GrokAssumption, GrokInv, UNCHANGED <<object, xai, connection, lost, expiries>>, Fault,
         shared' \in [Processes -> Calls \cup {None}],
         NEW c \in Calls, NEW k \in Call,
         call' = [call EXCEPT ![c] = k],
         k.seen \in {call[c].seen, object}, k.new = call[c].new,
         k.pc \notin {"refresh", "store"}
  PROVE  GrokInv'
<1>1. faults' \in 0 .. MaxFaults /\ faults' # 0
  BY DEF Fault, GrokInv, KeptInv, TypeInv, GrokAssumption
<1>2. Kept
  BY <1>1 DEF Kept, GrokInv, KeptInv, TypeInv
<1>3. KeptInv'
  BY <1>2, KeptMoves DEF GrokInv
<1> QED BY <1>1, <1>3 DEF GrokInv, OnceInv

-----------------------------------------------------------------------------
(* The steps. *)

LEMMA LoadStep ==
  ASSUME GrokAssumption, GrokInv, NEW c \in Calls, Load(c) PROVE GrokInv'
<1>1. TypeInv
  BY DEF GrokInv, KeptInv
<1>2. PICK pc \in {"failed", "done", "ask"} : Goes(c, pc)
  BY DEF Load
<1>3. PICK k \in Call : /\ call' = [call EXCEPT ![c] = k]
                        /\ k.pc = pc /\ k.seen = call[c].seen /\ k.new = call[c].new
  BY <1>1, <1>2, GoesIs DEF PC
<1>4. shared' \in [Processes -> Calls \cup {None}]
  BY <1>1 DEF Load, TypeInv
<1> QED BY <1>2, <1>3, <1>4, Moves DEF Load, At, Calm

LEMMA AskStep ==
  ASSUME GrokAssumption, GrokInv, NEW c \in Calls, Ask(c) PROVE GrokInv'
<1>1. TypeInv
  BY DEF GrokInv, KeptInv
<1>2. CASE shared[ProcessOf[c]] # None
  <2> DEFINE k == [call[c] EXCEPT !.pc = "shared", !.new = 0]
  <2>1. call[c] \in Call
    BY <1>1 DEF TypeInv
  <2>2. k \in Call
    <3>1. 0 \in Token
      BY DEF Token, GrokAssumption
    <3> QED BY <2>1, <3>1 DEF Call, PC
  <2>3. call' = [call EXCEPT ![c] = k]
    BY <1>2 DEF Ask
  <2>4. k.pc = "shared" /\ k.seen = call[c].seen /\ k.new = 0
    BY <2>1 DEF Call
  <2>5. shared' \in [Processes -> Calls \cup {None}]
    BY <1>1, <1>2 DEF Ask, TypeInv
  <2> HIDE DEF k
  <2> QED BY <2>2, <2>3, <2>4, <2>5, Moves DEF Ask, At, Calm
<1>3. CASE shared[ProcessOf[c]] = None
  <2>1. PICK k \in Call : /\ call' = [call EXCEPT ![c] = k]
                          /\ k.pc = "lease" /\ k.seen = object /\ k.new = call[c].new
    BY <1>1, <1>3, SeesIs DEF PC, Ask
  <2>2. shared' \in [Processes -> Calls \cup {None}]
    BY <1>1, <1>3, SharedIs DEF Ask
  <2> QED BY <2>1, <2>2, Moves DEF Ask, At, Calm
<1> QED BY <1>2, <1>3

LEMMA ShareStep ==
  ASSUME GrokAssumption, GrokInv, NEW c \in Calls, Share(c) PROVE GrokInv'
<1>1. TypeInv
  BY DEF GrokInv, KeptInv
<1>2. PICK k \in Call : /\ call' = [call EXCEPT ![c] = k]
                        /\ k.pc = "done" /\ k.seen = call[c].seen /\ k.new = call[c].new
  BY <1>1, GoesIs DEF PC, Share
<1>3. shared' \in [Processes -> Calls \cup {None}]
  BY <1>1 DEF Share, TypeInv
<1> QED BY <1>2, <1>3, Moves DEF Share, At, Calm

LEMMA PollStep ==
  ASSUME GrokAssumption, GrokInv, NEW c \in Calls, Poll(c) PROVE GrokInv'
<1>1. TypeInv
  BY DEF GrokInv, KeptInv
<1>2. PICK k \in Call : /\ call' = [call EXCEPT ![c] = k]
                        /\ k.pc \in {"failed", "done", "lease"}
                        /\ k.seen \in {call[c].seen, object} /\ k.new = call[c].new
  BY <1>1, GoesIs, SeesIs DEF PC, Poll
<1>3. shared' \in [Processes -> Calls \cup {None}]
  BY <1>1, SharedIs DEF Poll, TypeInv
<1> QED BY <1>2, <1>3, Moves DEF Poll, At, Calm

\* Whoever takes the lease has read what is stored: nobody works for it, and its
\* token was not used.
LEMMA LeaseTaken ==
  ASSUME GrokAssumption, GrokInv, NEW c \in Calls, At(c, "lease"),
         Unchanged(c), ~Taken(c), Goes(c, "refresh"),
         Written([object EXCEPT !.lease = c, !.live = TRUE]),
         UNCHANGED <<xai, connection, shared, lost, expiries, faults>>
  PROVE  GrokInv'
<1>1. TypeInv /\ KeptInv /\ object \in Object
  BY DEF GrokInv, KeptInv, TypeInv
<1>2. PICK k \in Call : /\ call' = [call EXCEPT ![c] = k]
                        /\ k.pc = "refresh" /\ k.seen = call[c].seen /\ k.new = call[c].new
  BY <1>1, GoesIs DEF PC
<1>3. /\ call' \in [Calls -> Call]
      /\ call'[c] = k
      /\ \A d \in Calls : d # c => call'[d] = call[d]
  BY <1>1, <1>2, CallSteps DEF TypeInv
<1>4. /\ object' \in Object /\ object'.version = object.version + 1
      /\ object'.token = object.token /\ object'.lease = c /\ object'.live
  <2> DEFINE record == [object EXCEPT !.lease = c, !.live = TRUE]
  <2>1. /\ record \in Object /\ record.token = object.token /\ record.lease = c
        /\ record.live
    BY <1>1 DEF Object
  <2>2. Written(record)
    OBVIOUS
  <2> HIDE DEF record
  <2> QED BY <1>1, <2>1, <2>2, WrittenIs
<1>5. /\ k.seen.token = object.token /\ object.token # 0
      /\ object.lease = None \/ ~object.live
  BY <1>1, <1>2 DEF KeptInv, SeenOK, Unchanged, Taken, Exists
<1>6. TypeInv'
  BY <1>1, <1>2, <1>3, <1>4 DEF TypeInv, xai
<1>7. StoredIsConnected'
  BY <1>1, <1>4 DEF KeptInv, StoredIsConnected, Exists, xai
<1>8. ASSUME NEW d \in Calls PROVE SeenOK(call[d].seen)' /\ LeaseOK(d)'
  <2>1. call'[d].seen = call[d].seen
    BY <1>2, <1>3
  <2>2. SeenOK(call[d].seen)'
    BY <1>1, <1>4, <2>1, SeenIsOlder
  <2>3. LeaseOK(d)'
    BY <1>1, <1>2, <1>3, <1>4, <1>5 DEF KeptInv, LeaseOK, xai
  <2> QED BY <2>2, <2>3
<1>9. ASSUME ~OutliveLease PROVE OnceInv'
  <2> SUFFICES ASSUME faults = 0, ~lost PROVE OnceInv'
    BY DEF OnceInv
  <2>1. OnceInv
    BY <1>9 DEF GrokInv
  <2>2. \A d \in Calls : object.lease = d => call[d].pc \notin {"refresh", "store"}
    BY <1>5, <2>1 DEF OnceInv, GrokAssumption
  <2>3. object.token \in good
    BY <1>5, <2>1, <2>2 DEF OnceInv, Exists
  <2>4. \A d \in Calls : Hand(call[d]) # object.token
    BY <1>5, <2>1, <2>2 DEF OnceInv
  <2>5. Hand(call'[c]) = object.token /\ \A d \in Calls : d # c => call'[d] = call[d]
    BY <1>2, <1>3, <1>5 DEF Hand
  <2>6. call'[c].pc = "refresh"
    BY <1>2, <1>3
  <2> QED BY <1>4, <1>5, <2>1, <2>3, <2>4, <2>5, <2>6 DEF OnceInv, Exists, xai
<1> QED BY <1>6, <1>7, <1>8, <1>9 DEF GrokInv, KeptInv

LEMMA LeaseStep ==
  ASSUME GrokAssumption, GrokInv, NEW c \in Calls, Lease(c) PROVE GrokInv'
<1>1. TypeInv
  BY DEF GrokInv, KeptInv
<1>2. CASE Unchanged(c) /\ ~call[c].seen.fresh /\ ~Taken(c)
  BY <1>2, LeaseTaken DEF Lease, Blocked, Calm
<1>3. CASE ~(Unchanged(c) /\ ~call[c].seen.fresh /\ ~Taken(c))
  <2>1. PICK k \in Call : /\ call' = [call EXCEPT ![c] = k]
                          /\ k.pc \in {"failed", "done", "lease", "poll"}
                          /\ k.seen \in {call[c].seen, object} /\ k.new = call[c].new
    <3>1. \/ Goes(c, "done") \/ Goes(c, "poll") \/ Goes(c, "failed")
          \/ ReadsAgain(c) /\ ~LastTry(c) /\ call[c].pc = "lease"
      BY <1>3 DEF Lease, Blocked, At
    <3> QED BY <1>1, <3>1, GoesIs, AgainIs DEF PC
  <2>2. shared' \in [Processes -> Calls \cup {None}]
    BY <1>1, <1>3, SharedIs DEF Lease, Blocked, TypeInv
  <2>3. UNCHANGED object \/ Written(object)
    BY <1>3 DEF Lease, Blocked
  <2> QED BY <2>1, <2>2, <2>3, Moves DEF Lease, At, Calm
<1> QED BY <1>2, <1>3

\* xAI takes a token once and issues another, of the same connection.
LEMMA RefreshStep ==
  ASSUME GrokAssumption, GrokInv, NEW c \in Calls, Refresh(c) PROVE GrokInv'
<1> DEFINE token == call[c].seen.token
<1>1. TypeInv /\ KeptInv /\ object \in Object /\ call[c] \in Call
  BY DEF GrokInv, KeptInv, TypeInv
<1>2. shared' \in [Processes -> Calls \cup {None}]
  BY <1>1 DEF Refresh, TypeInv
<1>3. token # 0
  BY <1>1 DEF KeptInv, LeaseOK, Refresh, At
<1>4. CASE token \notin good
  <2>1. PICK k \in Call : /\ call' = [call EXCEPT ![c] = k]
                          /\ k.pc = "clear" /\ k.seen = object /\ k.new = call[c].new
    BY <1>1, <1>4, SeesIs DEF PC, Refresh
  <2>2. Kept
    BY <1>1, <1>2, <1>4 DEF Refresh, Kept, Calm, TypeInv
  <2>3. KeptInv'
    BY <1>1, <2>1, <2>2, KeptMoves
  <2>4. ~OutliveLease => OnceInv'
    <3> SUFFICES ASSUME ~OutliveLease, faults = 0, ~lost PROVE FALSE
      BY DEF OnceInv, Refresh, Calm
    <3>1. Hand(call[c]) = token
      BY DEF Hand, Refresh, At
    <3> QED BY <1>3, <1>4, <3>1 DEF GrokInv, OnceInv
  <2> QED BY <2>3, <2>4 DEF GrokInv
<1>5. CASE token \in good
  <2> DEFINE k == [call[c] EXCEPT !.pc = "store", !.new = issued', !.seen = object,
                                  !.tries = 0]
  <2>1. /\ issued' = issued + 1 /\ good' = (good \ {token}) \cup {issued'}
        /\ origin' = [origin EXCEPT ![issued'] = origin[token]]
        /\ call' = [call EXCEPT ![c] = k]
        /\ UNCHANGED <<object, connection, shared, lost, expiries, faults>>
        /\ call[c].pc = "refresh" /\ issued < MaxTokens
    BY <1>5 DEF Refresh, Calm, At
  <2>2. issued \in Nat /\ MaxTokens \in Nat /\ issued' \in Tokens /\ token \in Tokens
    BY <1>1, <1>3, <2>1 DEF TypeInv, GrokAssumption, Tokens, Call, Object, Token
  <2>3. k \in Call /\ k.pc = "store" /\ k.new = issued' /\ k.seen = object
    <3>1. issued' \in Token /\ 0 \in Tries
      BY <2>2 DEF Token, Tokens, Tries, GrokAssumption
    <3> QED BY <1>1, <3>1 DEF Call, PC
  <2> HIDE DEF k
  <2>4. /\ call' \in [Calls -> Call]
        /\ call'[c] = k
        /\ \A d \in Calls : d # c => call'[d] = call[d]
    BY <1>1, <2>1, <2>3, CallSteps DEF TypeInv
  <2>5. /\ origin'[issued'] = origin[token]
        /\ \A t \in 1 .. issued : origin'[t] = origin[t]
    BY <1>1, <2>1, <2>2 DEF TypeInv, Tokens
  <2>6. TypeInv'
    <3>1. good' \in SUBSET (1 .. issued')
      <4>1. ASSUME NEW t \in good' PROVE t \in 1 .. issued'
        <5>1. t \in 1 .. issued \/ t = issued + 1
          BY <1>1, <2>1 DEF TypeInv
        <5> QED BY <2>1, <2>2, <5>1
      <4> QED BY <4>1
    <3>2. origin' \in [Tokens -> Token]
      BY <1>1, <2>1, <2>2 DEF TypeInv, Tokens, Token
    <3>3. \A d \in Calls : call'[d].seen.token <= issued' /\ call'[d].new <= issued'
      <4> SUFFICES ASSUME NEW d \in Calls
                   PROVE  call'[d].seen.token <= issued' /\ call'[d].new <= issued'
        OBVIOUS
      <4>1. CASE d = c
        BY <1>1, <2>1, <2>2, <2>3, <2>4, <4>1 DEF TypeInv, Object, Token
      <4>2. CASE d # c
        <5>1. call[d] \in Call
          BY <1>1 DEF TypeInv
        <5> QED BY <1>1, <2>1, <2>2, <2>4, <4>2, <5>1 DEF TypeInv, Object, Token, Call
      <4> QED BY <4>1, <4>2
    <3>4. object'.token <= issued' /\ issued' \in 1 .. MaxTokens
      BY <1>1, <2>1, <2>2 DEF TypeInv, Object, Token, Tokens
    <3> QED BY <1>1, <2>1, <2>4, <3>1, <3>2, <3>3, <3>4 DEF TypeInv
  <2>7. StoredIsConnected'
    <3>1. object.token # 0 => object.token \in 1 .. issued
      BY <1>1 DEF TypeInv, Object, Token
    <3> QED BY <1>1, <2>1, <2>5, <3>1 DEF KeptInv, StoredIsConnected, Exists
  <2>8. ASSUME NEW d \in Calls PROVE SeenOK(call[d].seen)' /\ LeaseOK(d)'
    <3>1. SeenOK(call[d].seen) /\ SeenOK(object)
      BY <1>1 DEF KeptInv, SeenOK, Object
    <3>2. SeenOK(call[d].seen)'
      BY <2>1, <2>3, <2>4, <3>1 DEF SeenOK
    <3>3. CASE d = c
      <4>1. object.lease = c => object.token = token
        BY <1>1, <2>1 DEF KeptInv, LeaseOK
      <4>2. object.lease = c => origin[token] = connection
        BY <1>1, <1>3, <4>1 DEF KeptInv, StoredIsConnected, Exists
      <4>3. call'[c].pc = "store" /\ call'[c].new = issued' /\ issued' # 0
        BY <2>2, <2>3, <2>4 DEF Tokens
      <4>4. LeaseOK(c)'
        BY <2>1, <2>5, <4>2, <4>3 DEF LeaseOK
      <4> QED BY <3>2, <3>3, <4>4
    <3>4. CASE d # c
      <4>1. LeaseOK(d) /\ call[d].new \in Token /\ call[d].new <= issued
        BY <1>1 DEF KeptInv, TypeInv, Call
      <4>2. call[d].new # 0 => origin'[call[d].new] = origin[call[d].new]
        BY <2>2, <2>5, <4>1 DEF Token
      <4>3. LeaseOK(d)'
        BY <2>1, <2>4, <3>4, <4>1, <4>2 DEF LeaseOK
      <4> QED BY <3>2, <4>3
    <3> QED BY <3>3, <3>4
  <2>9. ASSUME ~OutliveLease PROVE OnceInv'
    <3> SUFFICES ASSUME faults = 0, ~lost PROVE OnceInv'
      BY <2>1 DEF OnceInv
    <3>1. OnceInv
      BY <2>9 DEF GrokInv
    <3>2. Hand(call[c]) = token /\ Hand(call'[c]) = issued'
      BY <2>1, <2>3, <2>4 DEF Hand
    <3>3. \A d \in Calls : d # c => Hand(call'[d]) = Hand(call[d]) /\ Hand(call[d]) # token
      BY <1>3, <2>4, <3>1, <3>2 DEF OnceInv
    <3>4. \A d \in Calls : Hand(call[d]) # issued'
      <4> SUFFICES ASSUME NEW d \in Calls PROVE Hand(call[d]) # issued'
        OBVIOUS
      <4>1. call[d] \in Call
        BY <1>1 DEF TypeInv
      <4>2. Hand(call[d]) \in Token /\ Hand(call[d]) <= issued
        BY <1>1, <4>1, <2>2 DEF Hand, TypeInv, Call, Object, Token
      <4> QED BY <2>1, <2>2, <4>2 DEF Token
    <3>5. object.token # issued'
      BY <1>1, <2>1, <2>2 DEF TypeInv, Object, Token
    <3>6. \A d \in Calls : call'[d].pc = "clear" => object'.lease # d
      BY <2>1, <2>3, <2>4, <3>1 DEF OnceInv
    <3>7. \A d \in Calls : Hand(call'[d]) # 0 => Hand(call'[d]) \in good'
      BY <2>1, <3>1, <3>2, <3>3 DEF OnceInv
    <3>8. \A d, e \in Calls :
            d # e /\ Hand(call'[d]) = Hand(call'[e]) => Hand(call'[d]) = 0
      BY <3>1, <3>2, <3>3, <3>4 DEF OnceInv
    <3>9. \A d \in Calls : Hand(call'[d]) # 0 /\ Hand(call'[d]) = object'.token =>
            call'[d].pc = "refresh" /\ object'.lease = d
      BY <2>1, <2>4, <3>1, <3>2, <3>3, <3>5 DEF OnceInv
    <3>10. \A d \in Calls : call'[d].pc \in {"refresh", "store"} /\ object'.lease = d =>
             object'.live
      BY <2>1, <2>4, <3>1 DEF OnceInv
    <3>11. Exists' => \/ object'.token \in good'
                      \/ \E d \in Calls : call'[d].pc = "store" /\ object'.lease = d
      <4>1. CASE object.token = token
        BY <1>3, <2>1, <2>3, <2>4, <3>1, <3>2, <4>1 DEF OnceInv
      <4>2. CASE object.token # token
        BY <2>1, <2>4, <3>1, <4>2 DEF OnceInv, Exists
      <4> QED BY <4>1, <4>2
    <3> QED BY <3>6, <3>7, <3>8, <3>9, <3>10, <3>11 DEF OnceInv
  <2> QED BY <2>6, <2>7, <2>8, <2>9 DEF GrokInv, KeptInv
<1> QED BY <1>4, <1>5

LEMMA FailStep ==
  ASSUME GrokAssumption, GrokInv, NEW c \in Calls, RefreshFails(c) \/ StoreFails(c)
  PROVE  GrokInv'
<1>1. TypeInv
  BY DEF GrokInv, KeptInv
<1>2. PICK k \in Call : /\ call' = [call EXCEPT ![c] = k]
                        /\ k.pc = "clear" /\ k.seen = object /\ k.new = call[c].new
  BY <1>1, SeesIs DEF PC, RefreshFails, StoreFails
<1>3. shared' \in [Processes -> Calls \cup {None}]
  BY <1>1 DEF RefreshFails, StoreFails, TypeInv
<1> QED BY <1>2, <1>3, MovesAfterFault DEF RefreshFails, StoreFails

\* Whoever stores new tokens under its lease has them of the connection that is
\* stored, and nobody else has them.
LEMMA TokensStored ==
  ASSUME GrokAssumption, GrokInv, NEW c \in Calls, At(c, "store"), object.lease = c,
         Goes(c, "done"), Written([Gone EXCEPT !.token = call[c].new, !.fresh = TRUE]),
         shared' \in [Processes -> Calls \cup {None}],
         UNCHANGED <<xai, connection, lost, expiries, faults>>
  PROVE  GrokInv'
<1>1. TypeInv /\ KeptInv /\ call[c] \in Call
  BY DEF GrokInv, KeptInv, TypeInv
<1>2. PICK k \in Call : /\ call' = [call EXCEPT ![c] = k]
                        /\ k.pc = "done" /\ k.seen = call[c].seen /\ k.new = call[c].new
  BY <1>1, GoesIs DEF PC
<1>3. /\ call' \in [Calls -> Call]
      /\ call'[c] = k
      /\ \A d \in Calls : d # c => call'[d] = call[d]
  BY <1>1, <1>2, CallSteps DEF TypeInv
<1>4. /\ object' \in Object /\ object'.version = object.version + 1
      /\ object'.token = call[c].new /\ object'.lease = None
  <2> DEFINE record == [Gone EXCEPT !.token = call[c].new, !.fresh = TRUE]
  <2>1. record \in Object /\ record.token = call[c].new /\ record.lease = None
    BY <1>1 DEF Object, Gone, Call
  <2>2. Written(record)
    OBVIOUS
  <2> HIDE DEF record
  <2> QED BY <1>1, <2>1, <2>2, WrittenIs
<1>5. call[c].new # 0 /\ origin[call[c].new] = connection
  BY <1>1 DEF KeptInv, LeaseOK, At
<1>6. TypeInv'
  BY <1>1, <1>2, <1>3, <1>4 DEF TypeInv, xai
<1>7. StoredIsConnected'
  BY <1>4, <1>5 DEF StoredIsConnected, xai
<1>8. ASSUME NEW d \in Calls PROVE SeenOK(call[d].seen)' /\ LeaseOK(d)'
  <2>1. call'[d].seen = call[d].seen
    BY <1>2, <1>3
  <2>2. SeenOK(call[d].seen)'
    BY <1>1, <1>4, <2>1, SeenIsOlder
  <2>3. LeaseOK(d)'
    BY <1>1, <1>2, <1>3, <1>4 DEF KeptInv, LeaseOK, xai, GrokAssumption
  <2> QED BY <2>2, <2>3
<1>9. ASSUME ~OutliveLease PROVE OnceInv'
  <2> SUFFICES ASSUME faults = 0, ~lost PROVE OnceInv'
    BY DEF OnceInv
  <2>1. OnceInv
    BY <1>9 DEF GrokInv
  <2>2. Hand(call[c]) = object'.token /\ Hand(call'[c]) = 0
    BY <1>2, <1>3, <1>4 DEF Hand, At
  <2>3. object'.token \in good /\ object'.token # 0
    BY <1>4, <1>5, <2>1, <2>2 DEF OnceInv
  <2>4. \A d \in Calls : d # c => call'[d] = call[d] /\ Hand(call[d]) # object'.token
    BY <1>3, <2>1, <2>2, <2>3 DEF OnceInv
  <2>5. call'[c].pc = "done"
    BY <1>2, <1>3
  <2> QED BY <1>4, <2>1, <2>2, <2>3, <2>4, <2>5 DEF OnceInv, xai, GrokAssumption
<1> QED BY <1>6, <1>7, <1>8, <1>9 DEF GrokInv, KeptInv

LEMMA StoreStep ==
  ASSUME GrokAssumption, GrokInv, NEW c \in Calls, Store(c) PROVE GrokInv'
<1>1. TypeInv
  BY DEF GrokInv, KeptInv
<1>2. shared' \in [Processes -> Calls \cup {None}]
  BY <1>1, SharedIs DEF Store, TypeInv
<1>3. CASE Exists /\ ~Unchanged(c)
  <2>1. call[c].pc = "store" /\ UNCHANGED <<object, xai, connection, expiries, faults>>
    BY <1>3 DEF Store, At
  <2>2. CASE ~LastTry(c)
    <3>1. ReadsAgain(c) /\ lost' = lost
      BY <1>3, <2>2 DEF Store
    <3>2. PICK k \in Call : /\ call' = [call EXCEPT ![c] = k]
                            /\ k.pc = "store" /\ k.seen = object /\ k.new = call[c].new
      BY <1>1, <2>1, <2>2, <3>1, AgainIs
    <3> QED BY <1>2, <2>1, <3>1, <3>2, Moves
  <2>3. CASE LastTry(c)
    <3>1. Sees(c, "clear") /\ lost' = (lost \/ object.lease = c)
      BY <1>3, <2>3 DEF Store
    <3>2. PICK k \in Call : /\ call' = [call EXCEPT ![c] = k]
                            /\ k.pc = "clear" /\ k.seen = object /\ k.new = call[c].new
      BY <1>1, <3>1, SeesIs DEF PC
    <3>3. CASE object.lease = c
      <4>1. Kept
        BY <1>1, <1>2, <2>1, <3>1 DEF Kept, TypeInv
      <4>2. KeptInv'
        BY <3>2, <4>1, KeptMoves DEF GrokInv
      <4> QED BY <3>1, <3>3, <4>2 DEF GrokInv, OnceInv
    <3>4. CASE object.lease # c
      <4>1. lost' = lost
        BY <1>1, <3>1, <3>4 DEF TypeInv
      <4> QED BY <1>2, <2>1, <3>2, <3>4, <4>1, Moves
    <3> QED BY <3>3, <3>4
  <2> QED BY <2>2, <2>3
<1>4. CASE ~Exists \/ (Unchanged(c) /\ object.lease # c)
  <2>1. PICK k \in Call : /\ call' = [call EXCEPT ![c] = k]
                          /\ k.pc \in {"done", "failed"}
                          /\ k.seen = call[c].seen /\ k.new = call[c].new
    BY <1>1, <1>4, GoesIs DEF PC, Store, Unchanged
  <2>2. UNCHANGED object \/ Written(object)
    BY <1>4 DEF Store, Unchanged
  <2> QED BY <1>2, <1>4, <2>1, <2>2, Moves DEF Store, At, Calm
<1>5. CASE Exists /\ Unchanged(c) /\ object.lease = c
  BY <1>2, <1>5, TokensStored DEF Store, Calm
<1> QED BY <1>3, <1>4, <1>5

LEMMA ClearStep ==
  ASSUME GrokAssumption, GrokInv, NEW c \in Calls, Clear(c) PROVE GrokInv'
<1> DEFINE record == [object EXCEPT !.lease = IF @ = c THEN None ELSE @,
                                    !.live = @ /\ object.lease # c]
<1>1. TypeInv /\ object \in Object
  BY DEF GrokInv, KeptInv, TypeInv
<1>2. shared' \in [Processes -> Calls \cup {None}]
  BY <1>1, SharedIs DEF Clear, TypeInv
<1>3. PICK k \in Call : /\ call' = [call EXCEPT ![c] = k]
                        /\ k.pc \in {"clear", "failed"}
                        /\ k.seen \in {call[c].seen, object} /\ k.new = call[c].new
  <2>1. Goes(c, "failed") \/ (ReadsAgain(c) /\ ~LastTry(c) /\ call[c].pc = "clear")
    BY DEF Clear, At
  <2> QED BY <1>1, <2>1, GoesIs, AgainIs DEF PC
<1>4. UNCHANGED <<xai, connection, lost, expiries, faults>> /\ call[c].pc = "clear"
  BY DEF Clear, Calm, At
<1>5. UNCHANGED object \/ Written(record)
  BY DEF Clear
<1>6. KeptInv'
  <2>1. /\ record \in Object /\ record.token = object.token
        /\ record.lease \in {object.lease, None}
    BY <1>1 DEF Object
  <2> HIDE DEF record
  <2>2. Kept
    BY <1>1, <1>2, <1>4, <1>5, <2>1, WrittenIs DEF Kept, TypeInv
  <2> QED BY <1>3, <2>2, KeptMoves DEF GrokInv
<1>7. CASE faults = 0 /\ ~lost /\ ~OutliveLease
  <2>1. object.lease # c
    BY <1>4, <1>7 DEF GrokInv, OnceInv
  <2>2. record = object
    BY <1>1, <2>1 DEF Object
  <2> HIDE DEF record
  <2>3. UNCHANGED object \/ Written(object)
    BY <1>5, <2>2
  <2> QED BY <1>2, <1>3, <1>4, <2>1, <2>3, Moves
<1> QED BY <1>4, <1>6, <1>7 DEF GrokInv, OnceInv

LEMMA DiesStep ==
  ASSUME GrokAssumption, GrokInv, NEW p \in Processes, Dies(p) PROVE GrokInv'
<1>1. TypeInv /\ KeptInv
  BY DEF GrokInv, KeptInv
<1>2. faults' \in 0 .. MaxFaults /\ faults' # 0
  BY <1>1 DEF Dies, Fault, TypeInv, GrokAssumption
<1>3. ASSUME NEW c \in Calls
      PROVE  /\ call'[c] \in Call
             /\ call'[c].seen = call[c].seen /\ call'[c].new = call[c].new
             /\ call'[c].pc \in {call[c].pc, "failed"}
  <2>1. call[c] \in Call
    BY <1>1 DEF TypeInv
  <2>2. call'[c] \in {call[c], [call[c] EXCEPT !.pc = "failed"]}
    BY DEF Dies
  <2> QED BY <2>1, <2>2 DEF Call, PC
<1>4. call' \in [Calls -> Call]
  <2>1. DOMAIN call' = Calls /\ call' = [c \in Calls |-> call'[c]]
    BY DEF Dies
  <2> QED BY <1>3, <2>1
<1>5. TypeInv'
  BY <1>1, <1>2, <1>3, <1>4 DEF Dies, TypeInv, xai
<1>6. StoredIsConnected'
  BY <1>1 DEF KeptInv, StoredIsConnected, Exists, Dies, xai
<1>7. \A c \in Calls : SeenOK(call[c].seen)' /\ LeaseOK(c)'
  BY <1>1, <1>3 DEF KeptInv, SeenOK, LeaseOK, Dies, xai
<1> QED BY <1>2, <1>5, <1>6, <1>7 DEF GrokInv, KeptInv, OnceInv

\* The user connects again: the new token is nobody's, and no call has the lease.
LEMMA ConnectStep ==
  ASSUME GrokAssumption, GrokInv, Connect PROVE GrokInv'
<1>1. TypeInv /\ KeptInv /\ object \in Object
  BY DEF GrokInv, KeptInv, TypeInv
<1>2. /\ issued' = issued + 1 /\ good' = good \cup {issued'}
      /\ origin' = [origin EXCEPT ![issued'] = issued'] /\ connection' = issued'
      /\ UNCHANGED <<call, shared, lost, expiries, faults>> /\ issued < MaxTokens
  BY DEF Connect, Calm
<1>3. issued \in Nat /\ MaxTokens \in Nat /\ issued' \in Tokens /\ issued' # 0
  BY <1>1, <1>2 DEF TypeInv, GrokAssumption, Tokens
<1>4. /\ object' \in Object /\ object'.version = object.version + 1
      /\ object'.token = issued' /\ object'.lease = None
  <2> DEFINE record == [Gone EXCEPT !.token = issued', !.fresh = TRUE]
  <2>1. record \in Object /\ record.token = issued' /\ record.lease = None
    <3>1. issued' \in Token
      BY <1>3 DEF Tokens, Token
    <3> QED BY <3>1 DEF Object, Gone
  <2>2. Written(record)
    BY DEF Connect
  <2> HIDE DEF record
  <2>3. object' = [record EXCEPT !.version = object.version + 1]
    BY <2>2 DEF Written
  <2> QED BY <1>1, <2>1, <2>3 DEF Object
<1>5. /\ origin'[issued'] = issued'
      /\ \A t \in 1 .. issued : origin'[t] = origin[t]
  BY <1>1, <1>2, <1>3 DEF TypeInv, Tokens
<1>6. TypeInv'
  <2>1. good' \in SUBSET (1 .. issued')
    <3>1. ASSUME NEW t \in good' PROVE t \in 1 .. issued'
      <4>1. t \in 1 .. issued \/ t = issued + 1
        BY <1>1, <1>2 DEF TypeInv
      <4> QED BY <1>2, <1>3, <4>1
    <3> QED BY <3>1
  <2>2. origin' \in [Tokens -> Token] /\ connection' \in Token
    BY <1>1, <1>2, <1>3 DEF TypeInv, Tokens, Token
  <2>3. ASSUME NEW d \in Calls
        PROVE  call[d].seen.token <= issued' /\ call[d].new <= issued'
    <3>1. call[d] \in Call
      BY <1>1 DEF TypeInv
    <3> QED BY <1>1, <1>2, <1>3, <3>1 DEF TypeInv, Object, Token, Call
  <2>4. object'.token <= issued' /\ issued' \in 1 .. MaxTokens
    BY <1>3, <1>4 DEF Tokens
  <2> QED BY <1>1, <1>2, <1>4, <2>1, <2>2, <2>3, <2>4 DEF TypeInv
<1>7. StoredIsConnected'
  BY <1>2, <1>4, <1>5 DEF StoredIsConnected
<1>8. ASSUME NEW d \in Calls PROVE SeenOK(call[d].seen)' /\ LeaseOK(d)'
  <2>1. SeenOK(call[d].seen)'
    BY <1>1, <1>2, <1>4, SeenIsOlder
  <2>2. LeaseOK(d)'
    BY <1>1, <1>2, <1>4 DEF KeptInv, LeaseOK, GrokAssumption
  <2> QED BY <2>1, <2>2
<1>9. ASSUME ~OutliveLease PROVE OnceInv'
  <2> SUFFICES ASSUME faults = 0, ~lost PROVE OnceInv'
    BY <1>2 DEF OnceInv
  <2>1. OnceInv
    BY <1>9 DEF GrokInv
  <2>2. ASSUME NEW d \in Calls PROVE Hand(call[d]) # issued'
    <3>1. call[d] \in Call
      BY <1>1 DEF TypeInv
    <3>2. Hand(call[d]) \in Token /\ Hand(call[d]) <= issued
      BY <1>1, <1>3, <3>1 DEF Hand, TypeInv, Call, Object, Token
    <3> QED BY <1>2, <1>3, <3>2 DEF Token
  <2> QED BY <1>2, <1>4, <2>1, <2>2 DEF OnceInv, GrokAssumption
<1> QED BY <1>6, <1>7, <1>8, <1>9 DEF GrokInv, KeptInv

LEMMA DisconnectStep ==
  ASSUME GrokAssumption, GrokInv, Disconnect PROVE GrokInv'
<1>1. TypeInv /\ KeptInv /\ object \in Object
  BY DEF GrokInv, KeptInv, TypeInv
<1>2. UNCHANGED <<xai, call, shared, lost, expiries, faults>> /\ connection' = 0
  BY DEF Disconnect, Calm
<1>3. /\ object' \in Object /\ object'.version = object.version + 1
      /\ object'.token = 0 /\ object'.lease = None
  <2>1. Gone \in Object /\ Gone.token = 0 /\ Gone.lease = None
    <3>1. 0 \in Token
      BY DEF Token, GrokAssumption
    <3> QED BY <3>1 DEF Object, Gone
  <2>2. object' = [Gone EXCEPT !.version = object.version + 1]
    BY DEF Disconnect
  <2> HIDE DEF Gone
  <2> QED BY <1>1, <2>1, <2>2 DEF Object
<1>4. TypeInv'
  <2>1. 0 <= issued /\ 0 \in Token
    BY <1>1 DEF TypeInv, Token, GrokAssumption
  <2> QED BY <1>1, <1>2, <1>3, <2>1 DEF TypeInv, xai
<1>5. \A d \in Calls : SeenOK(call[d].seen)' /\ LeaseOK(d)'
  BY <1>1, <1>2, <1>3, SeenIsOlder DEF KeptInv, LeaseOK, GrokAssumption
<1>6. ~OutliveLease => OnceInv'
  BY <1>2, <1>3 DEF GrokInv, OnceInv, xai, Exists, GrokAssumption
<1> QED BY <1>3, <1>4, <1>5, <1>6 DEF GrokInv, KeptInv, StoredIsConnected, Exists

\* A lease that is over is nobody's, unless a refresh may outlive it.
LEMMA ExpireStep ==
  ASSUME GrokAssumption, GrokInv, AccessTokenExpires \/ LeaseExpires PROVE GrokInv'
<1>1. TypeInv /\ KeptInv /\ object \in Object
  BY DEF GrokInv, KeptInv, TypeInv
<1>2. /\ UNCHANGED <<xai, connection, call, shared, lost, faults>>
      /\ expiries' \in 0 .. MaxExpiries
  BY <1>1 DEF AccessTokenExpires, LeaseExpires, Calm, TypeInv, GrokAssumption
<1>3. /\ object' \in Object /\ object'.version = object.version
      /\ object'.token = object.token /\ object'.lease = object.lease
      /\ object'.live => object.live
  BY <1>1 DEF AccessTokenExpires, LeaseExpires, Object
<1>4. object.live /\ ~object'.live => OutliveLease \/ ~Refreshing(object.lease)
  BY <1>1 DEF AccessTokenExpires, LeaseExpires, Object
<1>5. TypeInv'
  BY <1>1, <1>2, <1>3 DEF TypeInv, xai
<1>6. \A d \in Calls : SeenOK(call[d].seen)' /\ LeaseOK(d)'
  BY <1>1, <1>2, <1>3 DEF KeptInv, SeenOK, LeaseOK, xai
<1>7. ~OutliveLease => OnceInv'
  BY <1>2, <1>3, <1>4 DEF GrokInv, OnceInv, xai, Exists, Refreshing
<1> QED BY <1>1, <1>2, <1>3, <1>5, <1>6, <1>7
     DEF GrokInv, KeptInv, StoredIsConnected, Exists, xai

-----------------------------------------------------------------------------
(* The theorems. *)

LEMMA InitHolds == ASSUME GrokAssumption, Init PROVE GrokInv
<1>1. 0 \in Token /\ 1 \in Token /\ 1 \in Tokens /\ Tokens \subseteq Token
  BY DEF GrokAssumption, Token, Tokens
<1>2. object \in Object /\ Gone \in Object
  BY <1>1 DEF Init, Gone, Object
<1>3. \A c \in Calls : call[c] = [pc |-> "idle", seen |-> Gone, new |-> 0, tries |-> 0]
  BY DEF Init
<1>4. call \in [Calls -> Call]
  <2>1. 0 \in Tries
    BY DEF Tries, GrokAssumption
  <2>2. [pc |-> "idle", seen |-> Gone, new |-> 0, tries |-> 0] \in Call
    BY <1>1, <1>2, <2>1 DEF Call, PC
  <2> QED BY <2>2 DEF Init
<1>5. /\ expiries \in 0 .. MaxExpiries /\ faults \in 0 .. MaxFaults
      /\ issued \in 1 .. MaxTokens
  <2>1. MaxTokens \in Nat \ {0} /\ MaxExpiries \in Nat /\ MaxFaults \in Nat
    BY DEF GrokAssumption
  <2> QED BY <2>1 DEF Init
<1>6. origin \in [Tokens -> Token] /\ origin[1] = 1
  BY <1>1 DEF Init
<1>7. TypeInv
  <2>1. good \in SUBSET (1 .. issued) /\ connection \in Token
    BY <1>1 DEF Init
  <2>2. shared \in [Processes -> Calls \cup {None}]
    BY DEF Init
  <2>3. object.token <= issued
    BY DEF Init
  <2>4. \A c \in Calls : call[c].seen.token <= issued /\ call[c].new <= issued
    BY <1>3 DEF Init, Gone
  <2>5. lost \in BOOLEAN
    BY DEF Init
  <2> QED BY <1>2, <1>4, <1>5, <1>6, <2>1, <2>2, <2>3, <2>4, <2>5 DEF TypeInv
<1>8. StoredIsConnected
  BY <1>6 DEF StoredIsConnected, Init
<1>9. \A c \in Calls : SeenOK(call[c].seen) /\ LeaseOK(c)
  BY <1>3 DEF SeenOK, LeaseOK, Init, Gone
<1>10. OnceInv
  BY <1>3 DEF OnceInv, Init, Hand
<1> QED BY <1>7, <1>8, <1>9, <1>10 DEF GrokInv, KeptInv

LEMMA NextKeeps == ASSUME GrokAssumption, GrokInv, [Next]_vars PROVE GrokInv'
<1>1. CASE Next
  <2>1. CASE Connect \/ Disconnect \/ AccessTokenExpires \/ LeaseExpires
    BY <2>1, ConnectStep, DisconnectStep, ExpireStep
  <2>2. ASSUME NEW c \in Calls,
               Load(c) \/ Works(c) \/ RefreshFails(c) \/ StoreFails(c)
        PROVE  GrokInv'
    BY <2>2, LoadStep, AskStep, ShareStep, LeaseStep, RefreshStep, StoreStep, ClearStep,
       PollStep, FailStep DEF Works
  <2>3. ASSUME NEW p \in Processes, Dies(p) PROVE GrokInv'
    BY <2>3, DiesStep
  <2> QED BY <1>1, <2>1, <2>2, <2>3 DEF Next
<1>2. CASE UNCHANGED vars
  BY <1>2 DEF vars, xai, GrokInv, KeptInv, TypeInv, StoredIsConnected, SeenOK, LeaseOK,
              OnceInv, Exists
<1> QED BY <1>1, <1>2

LEMMA Invariant == ASSUME GrokAssumption PROVE Spec => []GrokInv
<1>1. Init => GrokInv
  BY InitHolds
<1>2. GrokInv /\ [Next]_vars => GrokInv'
  BY NextKeeps
<1> QED BY <1>1, <1>2, PTL DEF Spec

\* Each call is at a step of getFreshGrokCredentials, knows only tokens xAI has
\* issued, and the stored object has the shape the vault's reader expects
\* (grok-auth-runtime-server.ts:217).
THEOREM GrokTypeCorrect == ASSUME GrokAssumption PROVE Spec => []TypeOK
<1>1. ASSUME GrokInv PROVE TypeOK
  <2>1. TypeInv /\ object \in Object
    BY <1>1 DEF GrokInv, KeptInv, TypeInv
  <2>2. object.token \in Tokens \cup {0} /\ object.lease \in Calls \cup {None}
    BY <2>1 DEF Object, Token, Tokens, GrokAssumption
  <2>3. issued \in 0 .. MaxTokens /\ good \subseteq 1 .. issued
    BY <2>1 DEF TypeInv, GrokAssumption
  <2>4. origin \in [Tokens -> 0 .. MaxTokens] /\ connection \in 0 .. MaxTokens
    BY <2>1 DEF TypeInv, Token
  <2>5. ASSUME NEW c \in Calls
        PROVE  /\ call[c].pc \in {"idle", "load", "ask", "shared", "lease", "refresh", "store",
                                  "clear", "poll"} \cup Ended
               /\ call[c].seen.token \in Tokens \cup {0} /\ call[c].new \in Tokens \cup {0}
               /\ call[c].tries \in 0 .. MaxTries - 1
    <3>1. call[c] \in Call
      BY <2>1 DEF TypeInv
    <3>2. /\ call[c].pc \in PC /\ call[c].seen.token \in Token /\ call[c].new \in Token
          /\ call[c].tries \in Tries
      BY <3>1 DEF Call, Object
    <3> QED BY <3>2 DEF PC, Ended, Token, Tokens, Tries, GrokAssumption
  <2> QED BY <2>1, <2>2, <2>3, <2>4, <2>5 DEF TypeOK, TypeInv
<1> QED BY <1>1, Invariant, PTL

\* What is stored belongs to the connection made last: a refresh never brings back
\* what was disconnected or replaced while it ran, even one that outlives its
\* lease or whose process dies (grok-auth-runtime-server.ts:243).
THEOREM StoredIsConnectedHolds ==
  ASSUME GrokAssumption PROVE Spec => []StoredIsConnected
<1>1. GrokInv => StoredIsConnected
  BY DEF GrokInv, KeptInv
<1> QED BY <1>1, Invariant, PTL

\* A refresh token is sent to xAI once, however many processes need a fresh one,
\* while no refresh outlives its lease, no call fails and no new token is given up
\* because each try to store it met another write (grok-auth-runtime-server.ts:217).
THEOREM NoTokenIsReusedHolds ==
  ASSUME GrokAssumption, ~OutliveLease PROVE Spec => []NoTokenIsReused
<1>1. GrokInv => NoTokenIsReused
  <2> SUFFICES ASSUME GrokInv, faults = 0, ~lost, NEW c \in Calls, At(c, "refresh"), Exists
               PROVE  call[c].seen.token \in good
    BY DEF NoTokenIsReused
  <2>1. call[c].seen.token # 0 /\ Hand(call[c]) = call[c].seen.token
    BY DEF GrokInv, KeptInv, LeaseOK, At, Hand
  <2> QED BY <2>1 DEF GrokInv, OnceInv
<1> QED BY <1>1, Invariant, PTL

\* What is stored can be refreshed while no call fails, no refresh outlives its lease
\* and none has given up, under its lease, a new token that met another write at each
\* try to store it: it is a token nobody has used, or the call that used it has the
\* lease and what xAI gave for it, for any number of tries the vault's update has
\* (grok-auth-runtime-server.ts:243, codex-auth-runtime-server.ts:163).
THEOREM ConnectionIsKeptHolds ==
  ASSUME GrokAssumption, ~OutliveLease PROVE Spec => []ConnectionIsKept
<1>1. GrokInv => ConnectionIsKept
  BY DEF GrokInv, KeptInv, OnceInv, StoredIsConnected, ConnectionIsKept, At
<1> QED BY <1>1, Invariant, PTL


-----------------------------------------------------------------------------
(* Types of the vault store. *)

Use == {"session", "bucket", "grant"}
VaultPC == {"new", "read", "write", "remove", "ok", "failed"}
Does == {"set", "add", "get", "take", "delete"}
VaultObject == [id : Nat, version : Nat, value : SUBSET Clients, live : BOOLEAN]
Client == [pc : VaultPC, does : Does, seen : VaultObject, attempt : 0 .. MaxAttempts,
           took : SUBSET Clients]

\* A client that goes on has a try left.
VaultTypeInv ==
  /\ use \in Use /\ object \in VaultObject /\ ids \in Nat /\ gone \in SUBSET Clients
  /\ client \in [Clients -> Client]
  /\ object.id <= ids
  /\ \A c \in Clients :
       /\ client[c].seen.id <= ids
       /\ client[c].pc \notin {"ok", "failed"} => client[c].attempt < MaxAttempts
       /\ client[c].pc # "new" => client[c].does \in Vault!Operations[use]
  /\ expiries \in 0 .. MaxExpiries /\ faults \in 0 .. MaxFaults

-----------------------------------------------------------------------------
(* The inductive invariant. *)

\* What is over its time is gone.
ObjectOK ==
  /\ object.id = 0 => object = Vault!NoObject
  /\ ~object.live => object.value \subseteq gone

\* Id and version name a value: what a client has seen is the object still, but
\* that its time may be over, or is older than the object.
VaultSeenOK(s) ==
  /\ s.id = 0 => s = Vault!NoObject
  /\ s.id = object.id => s.version <= object.version
  /\ s.id = object.id /\ s.version = object.version =>
       s.value = object.value /\ (object.live => s.live)

\* A client c at a step k: only those who write get there, a get removes what it
\* found over its time, and a take what was taken, empty or over its time.
StepOK(c, k) ==
  /\ k.pc = "write" => k.does \in {"set", "add", "take"}
  /\ k.pc = "write" /\ k.does = "take" => k.seen.id # 0
  /\ k.pc = "remove" => k.does \in {"get", "take", "delete"} /\ k.seen.id # 0
  /\ k.pc = "remove" /\ k.does = "get" => ~k.seen.live
  /\ k.pc = "remove" /\ k.does = "take" /\ k.seen.id = object.id => object.value \subseteq gone
  /\ k.pc = "ok" /\ k.does \in {"set", "add"} => c \in object.value \cup gone

\* A grant has one setter, whose write makes the only object there ever is.
OneSetter ==
  use = "grant" =>
    /\ ids # 0 => \E c \in Clients : client[c].does = "set"
    /\ \A c \in Clients : client[c].does = "set" /\ client[c].pc \in {"read", "write"} => ids = 0
    /\ \A c, d \in Clients :
         c # d /\ client[c].does = "set" => client[d].pc = "new" \/ client[d].does # "set"

\* What was taken was a grant, is in the store no more and with nobody else.
TakenOnce ==
  /\ \A c \in Clients : client[c].pc = "new" => client[c].does = "get"
  /\ \A c \in Clients : client[c].took # {} => use = "grant" /\ ids # 0
  /\ \A c \in Clients : client[c].took \cap object.value = {}
  /\ \A c, d \in Clients : c # d => client[c].took \cap client[d].took = {}

VaultInv ==
  /\ VaultTypeInv /\ ObjectOK /\ OneSetter /\ TakenOnce
  /\ \A c \in Clients : VaultSeenOK(client[c].seen) /\ StepOK(c, client[c])

-----------------------------------------------------------------------------
(* Lemmas. *)

LEMMA OperationsAre ==
  /\ DOMAIN Vault!Operations = Use
  /\ Vault!Operations["session"] = {"set", "get", "delete"}
  /\ Vault!Operations["bucket"] = {"add"}
  /\ Vault!Operations["grant"] = {"set", "take", "delete"}
BY DEF Vault!Operations, Use

\* A client's step, as the record it leaves.
LEMMA ClientSteps ==
  ASSUME client \in [Clients -> Client], NEW c \in Clients, NEW k \in Client,
         client' = [client EXCEPT ![c] = k]
  PROVE  /\ client' \in [Clients -> Client]
         /\ client'[c] = k
         /\ \A d \in Clients : d # c => client'[d] = client[d]
OBVIOUS

LEMMA VaultGoesIs ==
  ASSUME client \in [Clients -> Client], NEW c \in Clients, NEW pc \in VaultPC, Vault!Goes(c, pc)
  PROVE  \E k \in Client :
           /\ client' = [client EXCEPT ![c] = k]
           /\ k.pc = pc /\ k.does = client[c].does /\ k.seen = client[c].seen
           /\ k.attempt = client[c].attempt /\ k.took = client[c].took
<1> DEFINE k == [client[c] EXCEPT !.pc = pc]
<1>1. k \in Client
  BY DEF Client
<1>2. client' = [client EXCEPT ![c] = k]
  BY DEF Vault!Goes
<1>3. client[c] \in Client
  OBVIOUS
<1> QED BY <1>1, <1>2, <1>3 DEF Client

\* A client that moves on while the store stays as it is.
LEMMA MovesOn ==
  ASSUME VaultInv, NEW c \in Clients, NEW k \in Client,
         client' = [client EXCEPT ![c] = k],
         UNCHANGED <<use, object, ids, gone>>,
         expiries' \in 0 .. MaxExpiries, faults' \in 0 .. MaxFaults,
         client[c].pc # "new", k.pc # "new",
         k.does = client[c].does, k.took = client[c].took,
         k.seen = client[c].seen \/ k.seen = object,
         k.pc \notin {"ok", "failed"} => k.attempt < MaxAttempts,
         k.does = "set" /\ k.pc \in {"read", "write"} => client[c].pc \in {"read", "write"},
         StepOK(c, k)
  PROVE  VaultInv'
<1>0. /\ client' \in [Clients -> Client]
      /\ client'[c] = k
      /\ \A d \in Clients : d # c => client'[d] = client[d]
  BY ClientSteps DEF VaultInv, VaultTypeInv
<1>1. VaultTypeInv'
  BY <1>0 DEF VaultInv, VaultTypeInv, VaultObject
<1>2. ObjectOK'
  BY DEF VaultInv, ObjectOK
<1>3. OneSetter'
  BY <1>0 DEF VaultInv, OneSetter
<1>4. TakenOnce'
  BY <1>0 DEF VaultInv, TakenOnce
<1>5. VaultSeenOK(object)
  BY DEF VaultInv, ObjectOK, VaultSeenOK, VaultTypeInv, VaultObject
<1>6. \A d \in Clients : VaultSeenOK(client[d].seen)' /\ StepOK(d, client[d])'
  <2> SUFFICES ASSUME NEW d \in Clients
               PROVE  VaultSeenOK(client[d].seen)' /\ StepOK(d, client[d])'
    OBVIOUS
  <2>1. CASE d = c
    BY <2>1, <1>0, <1>5 DEF VaultInv, VaultSeenOK, StepOK
  <2>2. CASE d # c
    BY <2>2, <1>0 DEF VaultInv, VaultSeenOK, StepOK
  <2> QED BY <2>1, <2>2
<1> QED BY <1>1, <1>2, <1>3, <1>4, <1>6 DEF VaultInv

\* What a write leaves: under the version a client has seen the value is that
\* of the object, so nothing goes but what it replaces or what is over its time.
LEMMA WriteIs ==
  ASSUME VaultInv, NEW c \in Clients, Vault!At(c, "write"), Vault!Unchanged(c)
  PROVE  /\ Vault!NewValue(c) \in SUBSET Clients
         /\ client[c].does \in {"set", "add"} => c \in Vault!NewValue(c)
         /\ object.value \subseteq Vault!NewValue(c) \cup gone \cup Vault!Replaced(c)
         /\ Vault!Replaced(c) \subseteq object.value
         /\ client[c].does = "take" => Vault!NewValue(c) = {} /\ client[c].seen.value = object.value
         /\ client[c].does = "set" => Vault!NewValue(c) = {c}
<1>1. /\ client[c].does \in {"set", "add", "take"}
      /\ client[c].seen.value = object.value
      /\ object.live => client[c].seen.live
      /\ ~object.live => object.value \subseteq gone
      /\ object.value \in SUBSET Clients
  BY DEF VaultInv, VaultTypeInv, Client, VaultObject, StepOK, VaultSeenOK, ObjectOK, Vault!At, Vault!Unchanged
<1>2. CASE client[c].does = "set"
  BY <1>1, <1>2 DEF Vault!NewValue, Vault!Replaced
<1>3. CASE client[c].does = "take"
  BY <1>1, <1>3 DEF Vault!NewValue, Vault!Replaced
<1>4. CASE client[c].does = "add"
  <2>1. CASE Vault!Usable(client[c].seen)
    BY <1>1, <1>4, <2>1 DEF Vault!NewValue, Vault!Replaced
  <2>2. CASE ~Vault!Usable(client[c].seen)
    BY <1>1, <1>4, <2>2 DEF Vault!NewValue, Vault!Replaced, Vault!Usable
  <2> QED BY <2>1, <2>2
<1> QED BY <1>1, <1>2, <1>3, <1>4

\* A write that takes effect, whatever the client hears of it.
LEMMA WritePreserves ==
  ASSUME Vault!VaultAssumption, VaultInv, NEW c \in Clients, Vault!At(c, "write"), Vault!Unchanged(c),
         NEW k \in Client, client' = [client EXCEPT ![c] = k],
         object' = [id |-> IF object.id = 0 THEN ids + 1 ELSE object.id,
                    version |-> object.version + 1, value |-> Vault!NewValue(c), live |-> TRUE],
         ids' = (IF object.id = 0 THEN ids + 1 ELSE ids),
         gone' = gone \cup Vault!Replaced(c),
         UNCHANGED <<use, expiries>>, faults' \in 0 .. MaxFaults,
         k.does = client[c].does, k.seen = client[c].seen, k.attempt = client[c].attempt,
         \/ k.pc = "failed" /\ k.took = client[c].took
         \/ /\ k.pc = (IF client[c].does = "take" THEN "remove" ELSE "ok")
            /\ k.took = (IF client[c].does = "take" THEN client[c].seen.value ELSE {})
  PROVE  VaultInv'
<1>0. /\ client' \in [Clients -> Client]
      /\ client'[c] = k
      /\ \A d \in Clients : d # c => client'[d] = client[d]
  BY ClientSteps DEF VaultInv, VaultTypeInv
<1>1. /\ client[c].does \in {"set", "add", "take"}
      /\ client[c].does = "take" => client[c].seen.id # 0
      /\ object.id = client[c].seen.id /\ object.id \in 0 .. ids
      /\ ids \in Nat /\ object \in VaultObject /\ client[c] \in Client /\ client[c].pc = "write"
  BY DEF VaultInv, VaultTypeInv, VaultObject, StepOK, Vault!At, Vault!Unchanged
<1>2. /\ object'.id \in Nat /\ object'.id # 0 /\ object'.id <= ids' /\ ids' \in Nat
      /\ ids <= ids' /\ ids' # 0
      /\ (object'.id = object.id /\ object.id # 0) \/ object'.id > ids
      /\ object'.version = object.version + 1 /\ object'.value = Vault!NewValue(c)
      /\ object'.live = TRUE
  BY <1>1 DEF VaultObject
<1>3. VaultTypeInv'
  <2>1. object' \in VaultObject /\ gone' \in SUBSET Clients
    BY <1>1, <1>2, WriteIs DEF VaultObject, VaultInv, VaultTypeInv
  <2>2. \A d \in Clients : client[d].seen.id \in Nat /\ client'[d].seen.id = client[d].seen.id
    BY <1>0 DEF VaultInv, VaultTypeInv, Client, VaultObject
  <2>3. \A d \in Clients : client'[d].seen.id <= ids'
    BY <1>1, <1>2, <2>2 DEF VaultInv, VaultTypeInv
  <2>4. \A d \in Clients :
          /\ client'[d].pc \notin {"ok", "failed"} => client'[d].attempt < MaxAttempts
          /\ client'[d].pc # "new" => client'[d].does \in Vault!Operations[use]
    BY <1>0, <1>1 DEF VaultInv, VaultTypeInv
  <2> QED BY <1>0, <1>2, <2>1, <2>3, <2>4 DEF VaultInv, VaultTypeInv
<1>4. ObjectOK'
  BY <1>2 DEF ObjectOK
<1>5. OneSetter'
  <2> SUFFICES ASSUME use = "grant" PROVE OneSetter'
    BY DEF OneSetter
  <2>1. \A d \in Clients : ~(client'[d].does = "set" /\ client'[d].pc \in {"read", "write"})
    <3> SUFFICES ASSUME NEW d \in Clients, client'[d].does = "set",
                        client'[d].pc \in {"read", "write"}
                 PROVE  FALSE
      OBVIOUS
    <3>1. d # c
      BY <1>0
    <3>2. client[d].does = "set" /\ client[d].pc \in {"read", "write"} /\ ids = 0
      BY <3>1, <1>0 DEF VaultInv, OneSetter
    <3>3. client[c].does # "take"
      BY <3>2, <1>1
    <3>4. client[c].does \in Vault!Operations["grant"]
      BY <1>1 DEF VaultInv, VaultTypeInv
    <3>5. client[c].does = "set"
      BY <1>1, <3>3, <3>4, OperationsAre
    <3> QED BY <1>1, <3>1, <3>2, <3>5 DEF VaultInv, OneSetter
  <2>2. \A d, e \in Clients :
          d # e /\ client'[d].does = "set" => client'[e].pc = "new" \/ client'[e].does # "set"
    BY <1>0, <1>1 DEF VaultInv, OneSetter
  <2>3. \E d \in Clients : client'[d].does = "set"
    <3>1. CASE client[c].does = "take"
      BY <3>1, <1>0, <1>1 DEF VaultInv, OneSetter
    <3>2. CASE client[c].does # "take"
      BY <3>2, <1>0, <1>1, OperationsAre DEF VaultInv, VaultTypeInv
    <3> QED BY <3>1, <3>2
  <2> QED BY <2>1, <2>2, <2>3 DEF OneSetter
<1>6. TakenOnce'
  <2>1. \A d \in Clients : client'[d].pc = "new" => client'[d].does = "get"
    BY <1>0, <1>1 DEF VaultInv, TakenOnce
  <2>2. \A d \in Clients : d # c => client'[d].took = client[d].took
    BY <1>0
  <2>3. client[c].does = "take" => use = "grant"
    BY <1>1, OperationsAre DEF VaultInv, VaultTypeInv, Use
  <2>4. CASE client[c].does = "take"
    <3>1. object'.value = {} /\ client'[c].took \in {client[c].took, object.value}
      BY <1>0, <1>2, <2>4, WriteIs
    <3> QED BY <1>2, <2>1, <2>2, <2>3, <2>4, <3>1 DEF VaultInv, TakenOnce
  <2>5. CASE client[c].does # "take"
    <3>1. client'[c].took \in {client[c].took, {}}
      BY <1>0, <2>5
    <3>2. \A d \in Clients : client[d].took = {}
      <4>1. CASE use # "grant"
        BY <4>1 DEF VaultInv, TakenOnce
      <4>2. CASE use = "grant"
        <5>1. client[c].does = "set"
          BY <4>2, <1>1, <2>5, OperationsAre DEF VaultInv, VaultTypeInv
        <5> QED BY <4>2, <5>1, <1>1 DEF VaultInv, OneSetter, TakenOnce
      <4> QED BY <4>1, <4>2
    <3>3. \A d \in Clients : client'[d].took = {}
      BY <2>2, <3>1, <3>2
    <3> QED BY <2>1, <3>3 DEF TakenOnce
  <2> QED BY <2>4, <2>5
<1>7. \A d \in Clients : VaultSeenOK(client[d].seen)' /\ StepOK(d, client[d])'
  <2> SUFFICES ASSUME NEW d \in Clients
               PROVE  VaultSeenOK(client[d].seen)' /\ StepOK(d, client[d])'
    OBVIOUS
  <2>1. /\ client'[d].seen = client[d].seen
        /\ client[d].seen.id \in 0 .. ids /\ client[d].seen.version \in Nat
        /\ object.version \in Nat
    BY <1>0, <1>1 DEF VaultInv, VaultTypeInv, Client, VaultObject
  <2>2. VaultSeenOK(client[d].seen)'
    BY <2>1, <1>1, <1>2 DEF VaultInv, VaultSeenOK
  <2>3. CASE d = c
    <3>1. /\ k.seen = client[c].seen /\ k.does = client[c].does
          /\ client[c].does \in {"set", "add"} => c \in object'.value
          /\ client[c].does = "take" => object'.value = {}
          /\ k.pc = "failed" \/ k.pc = (IF client[c].does = "take" THEN "remove" ELSE "ok")
      BY <1>2, WriteIs
    <3>2. StepOK(c, k)'
      BY <3>1, <1>1 DEF StepOK
    <3> QED BY <2>2, <2>3, <3>2, <1>0
  <2>4. CASE d # c
    <3>1. client'[d] = client[d] /\ StepOK(d, client[d])
      BY <2>4, <1>0 DEF VaultInv
    <3>2. object.value \cup gone \subseteq object'.value \cup gone'
      BY <1>2, WriteIs
    <3>3. ASSUME client[d].pc = "remove", client[d].does = "take",
                 client[d].seen.id = object'.id
          PROVE  object'.value \subseteq gone'
      \* Only takes write to an object somebody takes.
      <4>1. use = "grant" /\ ids # 0 /\ object.id # 0
        BY <3>3, <3>1, <1>2, <2>1, OperationsAre DEF VaultInv, VaultTypeInv, Use, StepOK
      <4>2. client[c].does = "take"
        BY <4>1, <1>1, OperationsAre DEF VaultInv, VaultTypeInv, OneSetter
      <4> QED BY <4>2, <1>2, WriteIs
    <3>4. client[d].pc = "ok" /\ client[d].does \in {"set", "add"} =>
            d \in object'.value \cup gone'
      BY <3>1, <3>2 DEF StepOK
    <3> QED BY <2>2, <3>1, <3>3, <3>4 DEF StepOK
  <2> QED BY <2>2, <2>3, <2>4
<1> QED BY <1>3, <1>4, <1>5, <1>6, <1>7 DEF VaultInv

\* An object that is removed: by delete, over its time, or taken.
LEMMA RemovePreserves ==
  ASSUME VaultInv, NEW c \in Clients, Vault!At(c, "remove"), Vault!Deletes(c), object' = Vault!NoObject,
         Vault!Goes(c, "ok"),
         gone' = (IF client[c].does = "delete" THEN gone \cup object.value ELSE gone),
         UNCHANGED <<use, ids, expiries, faults>>
  PROVE  VaultInv'
<1> PICK k \in Client :
       /\ client' = [client EXCEPT ![c] = k]
       /\ k.pc = "ok" /\ k.does = client[c].does /\ k.seen = client[c].seen
       /\ k.attempt = client[c].attempt /\ k.took = client[c].took
  BY VaultGoesIs DEF VaultInv, VaultTypeInv, VaultPC
<1>0. /\ client' \in [Clients -> Client]
      /\ client'[c] = k
      /\ \A d \in Clients : d # c => client'[d] = client[d]
  BY ClientSteps DEF VaultInv, VaultTypeInv
<1>1. /\ client[c].pc = "remove" /\ client[c].does \in {"get", "take", "delete"}
      /\ object.id = client[c].seen.id /\ object.id # 0
      /\ object'.id = 0 /\ object'.version = 0 /\ object'.value = {} /\ object'.live = TRUE
  BY DEF VaultInv, StepOK, Vault!At, Vault!Deletes, Vault!NoObject
<1>2. object.value \subseteq gone'
  <2>1. CASE client[c].does = "delete"
    BY <2>1
  <2>2. CASE client[c].does = "take"
    BY <2>2, <1>1 DEF VaultInv, StepOK
  <2>3. CASE client[c].does = "get"
    BY <2>3, <1>1 DEF VaultInv, StepOK, VaultSeenOK, ObjectOK, Vault!Deletes, Vault!Checked, Vault!Unchanged
  <2> QED BY <1>1, <2>1, <2>2, <2>3
<1>3. gone \subseteq gone' /\ gone' \in SUBSET Clients
  BY DEF VaultInv, VaultTypeInv, VaultObject
<1>4. VaultTypeInv'
  <2>1. object' \in VaultObject
    BY <1>1 DEF Vault!NoObject, VaultObject
  <2> QED BY <2>1, <1>0, <1>1, <1>3 DEF VaultInv, VaultTypeInv
<1>5. ObjectOK'
  BY <1>1 DEF ObjectOK
<1>6. OneSetter'
  BY <1>0, <1>1 DEF VaultInv, OneSetter
<1>7. TakenOnce'
  BY <1>0, <1>1 DEF VaultInv, TakenOnce
<1>8. \A d \in Clients : VaultSeenOK(client[d].seen)' /\ StepOK(d, client[d])'
  <2> SUFFICES ASSUME NEW d \in Clients
               PROVE  VaultSeenOK(client[d].seen)' /\ StepOK(d, client[d])'
    OBVIOUS
  <2>1. client'[d].seen = client[d].seen /\ VaultSeenOK(client[d].seen) /\ StepOK(d, client[d])
    BY <1>0 DEF VaultInv
  <2>2. VaultSeenOK(client[d].seen)'
    BY <2>1, <1>1 DEF VaultSeenOK, Vault!NoObject
  <2>3. CASE d = c
    <3>1. StepOK(c, k)'
      BY <1>1 DEF StepOK
    <3> QED BY <2>2, <2>3, <3>1, <1>0
  <2>4. CASE d # c
    <3>1. client'[d] = client[d]
      BY <2>4, <1>0
    <3>2. client[d].pc = "ok" /\ client[d].does \in {"set", "add"} =>
            d \in object'.value \cup gone'
      BY <2>1, <3>1, <1>2, <1>3 DEF StepOK
    <3> QED BY <2>1, <2>2, <3>1, <3>2, <1>1 DEF StepOK
  <2> QED BY <2>2, <2>3, <2>4
<1> QED BY <1>4, <1>5, <1>6, <1>7, <1>8 DEF VaultInv

LEMMA ExpirePreserves ==
  ASSUME VaultInv, MaxExpiries \in Nat, Vault!Expire
  PROVE  VaultInv'
<1>1. /\ object' \in VaultObject /\ object'.id = object.id /\ object'.version = object.version
      /\ object'.value = object.value /\ object'.live = FALSE
      /\ gone' = gone \cup object.value /\ gone' \in SUBSET Clients
      /\ object.value # {} /\ expiries' \in 0 .. MaxExpiries
      /\ UNCHANGED <<use, ids, client, faults>>
  <2>1. object \in VaultObject /\ gone \in SUBSET Clients /\ expiries \in 0 .. MaxExpiries
    BY DEF VaultInv, VaultTypeInv
  <2>2. object' = [object EXCEPT !.live = FALSE] /\ object.value \in SUBSET Clients
    BY <2>1 DEF Vault!Expire, VaultObject
  <2>3. /\ object' \in VaultObject /\ object'.id = object.id /\ object'.version = object.version
        /\ object'.value = object.value /\ object'.live = FALSE
    BY <2>1, <2>2 DEF VaultObject
  <2> QED BY <2>1, <2>2, <2>3 DEF Vault!Expire
<1>2. VaultTypeInv'
  BY <1>1 DEF VaultInv, VaultTypeInv
<1>3. ObjectOK'
  BY <1>1 DEF VaultInv, ObjectOK, Vault!NoObject
<1>4. OneSetter' /\ TakenOnce'
  BY <1>1 DEF VaultInv, OneSetter, TakenOnce
<1>5. \A d \in Clients : VaultSeenOK(client[d].seen)' /\ StepOK(d, client[d])'
  BY <1>1 DEF VaultInv, VaultSeenOK, StepOK
<1> QED BY <1>2, <1>3, <1>4, <1>5 DEF VaultInv

LEMMA InvokePreserves ==
  ASSUME VaultInv, NEW c \in Clients, NEW does \in Does, Vault!Invoke(c, does)
  PROVE  VaultInv'
<1> DEFINE k == [client[c] EXCEPT !.pc = "read", !.does = does]
<1>1. /\ client[c] \in Client /\ client[c].pc = "new" /\ does \in Vault!Operations[use]
      /\ UNCHANGED <<use, object, ids, gone, expiries, faults>>
  BY DEF Vault!Invoke, Vault!At, VaultInv, VaultTypeInv
<1>2. k \in Client /\ client' = [client EXCEPT ![c] = k]
  BY <1>1 DEF Client, VaultPC, Vault!Invoke
<1>3. /\ k.pc = "read" /\ k.does = does /\ k.seen = client[c].seen
      /\ k.attempt = client[c].attempt /\ k.took = client[c].took
  BY <1>1 DEF Client
<1> HIDE DEF k
<1>0. /\ client' \in [Clients -> Client]
      /\ client'[c] = k
      /\ \A d \in Clients : d # c => client'[d] = client[d]
  BY <1>2, ClientSteps DEF VaultInv, VaultTypeInv
<1>4. VaultTypeInv'
  BY <1>0, <1>1, <1>3 DEF VaultInv, VaultTypeInv
<1>5. use = "grant" /\ does = "set" =>
        \A d \in Clients : client[d].pc = "new" \/ client[d].does # "set"
  BY DEF Vault!Invoke, Vault!At
<1>6. OneSetter'
  <2> SUFFICES ASSUME use = "grant" PROVE OneSetter'
    BY <1>1 DEF OneSetter
  <2>1. ids' # 0 => \E d \in Clients : client'[d].does = "set"
    BY <1>0, <1>1 DEF VaultInv, OneSetter, TakenOnce
  <2>2. \A d \in Clients :
          client'[d].does = "set" /\ client'[d].pc \in {"read", "write"} => ids' = 0
    BY <1>0, <1>1, <1>3, <1>5 DEF VaultInv, OneSetter, TakenOnce
  <2>3. \A d, e \in Clients :
          d # e /\ client'[d].does = "set" => client'[e].pc = "new" \/ client'[e].does # "set"
    BY <1>0, <1>1, <1>3, <1>5 DEF VaultInv, OneSetter, TakenOnce
  <2> QED BY <1>1, <2>1, <2>2, <2>3 DEF OneSetter
<1>7. ObjectOK' /\ TakenOnce'
  BY <1>0, <1>1, <1>3 DEF VaultInv, TakenOnce, ObjectOK
<1>8. \A d \in Clients : VaultSeenOK(client[d].seen)' /\ StepOK(d, client[d])'
  BY <1>0, <1>1, <1>3 DEF VaultInv, VaultSeenOK, StepOK
<1> QED BY <1>4, <1>6, <1>7, <1>8 DEF VaultInv

-----------------------------------------------------------------------------
(* The theorems. *)

LEMMA VaultInitially == ASSUME Vault!VaultAssumption, Vault!Init PROVE VaultInv
<1>1. /\ Vault!NoObject \in VaultObject /\ Vault!NoObject.id = 0 /\ Vault!NoObject.version = 0
      /\ Vault!NoObject.value = {} /\ Vault!NoObject.live = TRUE
  BY DEF Vault!NoObject, VaultObject
<1>2. /\ use \in Use /\ object = Vault!NoObject /\ ids = 0 /\ gone = {}
      /\ expiries = 0 /\ faults = 0
  BY OperationsAre DEF Vault!Init
<1>3. \A c \in Clients :
        /\ client[c] = [pc |-> "new", does |-> "get", seen |-> Vault!NoObject, attempt |-> 0,
                        took |-> {}]
        /\ client[c] \in Client
  BY <1>1 DEF Vault!Init, Client, VaultPC, Does, Vault!VaultAssumption
<1>4. client \in [Clients -> Client]
  BY <1>3 DEF Vault!Init
<1>5. VaultTypeInv
  BY <1>1, <1>2, <1>3, <1>4 DEF VaultTypeInv, Vault!VaultAssumption
<1>6. \A c \in Clients :
        client[c].pc = "new" /\ client[c].does = "get" /\ client[c].seen = Vault!NoObject
        /\ client[c].took = {}
  BY <1>3
<1>7. ObjectOK
  BY <1>1, <1>2 DEF ObjectOK
<1>8. OneSetter /\ TakenOnce
  BY <1>2, <1>6 DEF OneSetter, TakenOnce
<1>9. \A c \in Clients : VaultSeenOK(client[c].seen) /\ StepOK(c, client[c])
  BY <1>1, <1>2, <1>6 DEF VaultSeenOK, StepOK
<1> QED BY <1>5, <1>7, <1>8, <1>9 DEF VaultInv

LEMMA ReadPreserves ==
  ASSUME Vault!VaultAssumption, VaultInv, NEW c \in Clients, Vault!Read(c) PROVE VaultInv'
<1>1. /\ client[c] \in Client /\ client[c].pc = "read" /\ client[c].attempt < MaxAttempts
      /\ UNCHANGED <<use, object, ids, gone, expiries>>
      /\ expiries \in 0 .. MaxExpiries /\ faults \in 0 .. MaxFaults /\ object \in VaultObject
  BY DEF Vault!Read, Vault!At, VaultInv, VaultTypeInv
<1>2. CASE /\ client' = [client EXCEPT ![c].pc = Vault!After(c), ![c].seen = object]
           /\ UNCHANGED faults
  <2> DEFINE k == [client[c] EXCEPT !.pc = Vault!After(c), !.seen = object]
  <2>1. Vault!After(c) \in {"write", "ok", "remove"}
    BY DEF Vault!After
  <2>2. /\ k \in Client /\ client' = [client EXCEPT ![c] = k]
        /\ k.pc = Vault!After(c) /\ k.does = client[c].does /\ k.seen = object
        /\ k.attempt = client[c].attempt /\ k.took = client[c].took
    BY <1>1, <1>2, <2>1 DEF Client, VaultPC
  <2> HIDE DEF k
  <2>3. client[c].does \in Does /\ (~object.live => object.value \subseteq gone)
    BY <1>1 DEF Client, VaultInv, ObjectOK
  <2>4. StepOK(c, k)
    BY <2>2, <2>3 DEF StepOK, Vault!After, Does, Vault!Usable
  <2> QED BY <1>1, <1>2, <2>1, <2>2, <2>4, MovesOn
<1>3. CASE Vault!Fault /\ Vault!Goes(c, "failed")
  <2>1. PICK k \in Client :
         /\ client' = [client EXCEPT ![c] = k]
         /\ k.pc = "failed" /\ k.does = client[c].does /\ k.seen = client[c].seen
         /\ k.attempt = client[c].attempt /\ k.took = client[c].took
    BY <1>3, VaultGoesIs DEF VaultInv, VaultTypeInv, VaultPC
  <2>2. faults' \in 0 .. MaxFaults
    BY <1>1, <1>3 DEF Vault!Fault, Vault!VaultAssumption
  <2> QED BY <1>1, <2>1, <2>2, MovesOn DEF StepOK
<1> QED BY <1>2, <1>3 DEF Vault!Read

LEMMA WriteKeeps ==
  ASSUME Vault!VaultAssumption, VaultInv, NEW c \in Clients, Vault!Write(c) PROVE VaultInv'
<1>1. /\ client[c] \in Client /\ client[c].pc = "write" /\ client[c].attempt < MaxAttempts
      /\ Vault!At(c, "write") /\ UNCHANGED <<use, expiries>>
      /\ expiries \in 0 .. MaxExpiries /\ faults \in 0 .. MaxFaults
      /\ client[c].does \in {"set", "add", "take"} /\ client[c].attempt \in Nat
      /\ client[c].does = "take" => client[c].seen.id # 0
  BY DEF Vault!Write, Vault!At, VaultInv, VaultTypeInv, StepOK, Client
<1>f. Vault!Fault => faults' \in 0 .. MaxFaults
  BY <1>1 DEF Vault!Fault, Vault!VaultAssumption
<1>2. CASE /\ Vault!Unchanged(c)
           /\ object' = [id |-> IF object.id = 0 THEN ids + 1 ELSE object.id,
                         version |-> object.version + 1, value |-> Vault!NewValue(c), live |-> TRUE]
           /\ ids' = (IF object.id = 0 THEN ids + 1 ELSE ids)
           /\ gone' = gone \cup Vault!Replaced(c)
           /\ \/ /\ UNCHANGED faults
                 /\ client' = [client EXCEPT
                      ![c].pc = IF client[c].does = "take" THEN "remove" ELSE "ok",
                      ![c].took = IF client[c].does = "take" THEN client[c].seen.value ELSE {}]
              \/ Vault!Fault /\ Vault!Goes(c, "failed")
  <2>1. CASE Vault!Fault /\ Vault!Goes(c, "failed")
    <3>1. PICK k \in Client :
           /\ client' = [client EXCEPT ![c] = k]
           /\ k.pc = "failed" /\ k.does = client[c].does /\ k.seen = client[c].seen
           /\ k.attempt = client[c].attempt /\ k.took = client[c].took
      BY <2>1, VaultGoesIs DEF VaultInv, VaultTypeInv, VaultPC
    <3> QED BY <1>1, <1>f, <1>2, <2>1, <3>1, WritePreserves
  <2>2. CASE /\ UNCHANGED faults
             /\ client' = [client EXCEPT
                  ![c].pc = IF client[c].does = "take" THEN "remove" ELSE "ok",
                  ![c].took = IF client[c].does = "take" THEN client[c].seen.value ELSE {}]
    <3> DEFINE k == [client[c] EXCEPT
                       !.pc = IF client[c].does = "take" THEN "remove" ELSE "ok",
                       !.took = IF client[c].does = "take" THEN client[c].seen.value ELSE {}]
    <3>1. /\ k \in Client /\ client' = [client EXCEPT ![c] = k]
          /\ k.pc = (IF client[c].does = "take" THEN "remove" ELSE "ok")
          /\ k.took = (IF client[c].does = "take" THEN client[c].seen.value ELSE {})
          /\ k.does = client[c].does /\ k.seen = client[c].seen
          /\ k.attempt = client[c].attempt
      BY <1>1, <2>2 DEF Client, VaultPC, VaultObject
    <3> HIDE DEF k
    <3> QED BY <1>1, <1>2, <2>2, <3>1, WritePreserves
  <2> QED BY <1>2, <2>1, <2>2
<1>3. CASE /\ ~Vault!Unchanged(c) /\ UNCHANGED <<object, ids, gone, faults>>
           /\ client' = [client EXCEPT ![c].attempt = @ + 1,
                ![c].pc = IF client[c].does = "take" /\ object.id # client[c].seen.id THEN "ok"
                          ELSE IF client[c].attempt + 1 = MaxAttempts THEN "failed" ELSE "read"]
  <2> DEFINE pc == IF client[c].does = "take" /\ object.id # client[c].seen.id THEN "ok"
                   ELSE IF client[c].attempt + 1 = MaxAttempts THEN "failed" ELSE "read"
             k == [client[c] EXCEPT !.attempt = client[c].attempt + 1, !.pc = pc]
  <2>1. pc \in {"ok", "failed", "read"} /\ (pc = "ok" => client[c].does = "take")
        /\ (pc = "read" => client[c].attempt + 1 # MaxAttempts)
    OBVIOUS
  <2>2. client' = [client EXCEPT ![c].attempt = client[c].attempt + 1, ![c].pc = pc]
    BY <1>3
  <2> HIDE DEF pc
  <2>n. client[c].attempt + 1 \in 0 .. MaxAttempts
    BY <1>1 DEF Vault!VaultAssumption
  <2>p. pc \in VaultPC
    BY <2>1 DEF VaultPC
  <2>3. /\ k \in Client /\ client' = [client EXCEPT ![c] = k]
        /\ k.pc = pc /\ k.does = client[c].does /\ k.seen = client[c].seen
        /\ k.attempt = client[c].attempt + 1 /\ k.took = client[c].took
    BY <1>1, <2>n, <2>p, <2>2 DEF Client
  <2> HIDE DEF k
  <2>4. StepOK(c, k)
    BY <1>1, <2>1, <2>3 DEF StepOK
  <2>5. k.pc \notin {"ok", "failed"} => k.attempt < MaxAttempts
    BY <1>1, <2>1, <2>3 DEF Vault!VaultAssumption
  <2> QED BY <1>1, <1>3, <2>1, <2>3, <2>4, <2>5, MovesOn
<1>4. CASE Vault!Fault /\ Vault!Goes(c, "failed") /\ UNCHANGED <<object, ids, gone>>
  <2>1. PICK k \in Client :
         /\ client' = [client EXCEPT ![c] = k]
         /\ k.pc = "failed" /\ k.does = client[c].does /\ k.seen = client[c].seen
         /\ k.attempt = client[c].attempt /\ k.took = client[c].took
    BY <1>4, VaultGoesIs DEF VaultInv, VaultTypeInv, VaultPC
  <2> QED BY <1>1, <1>f, <1>4, <2>1, MovesOn DEF StepOK
<1> QED BY <1>2, <1>3, <1>4 DEF Vault!Write

LEMMA RemoveKeeps ==
  ASSUME Vault!VaultAssumption, VaultInv, NEW c \in Clients, Vault!Remove(c) PROVE VaultInv'
<1>1. /\ client[c] \in Client /\ client[c].pc = "remove" /\ client[c].attempt < MaxAttempts
      /\ Vault!At(c, "remove") /\ UNCHANGED <<use, ids, expiries>>
      /\ expiries \in 0 .. MaxExpiries /\ faults \in 0 .. MaxFaults
      /\ client[c].does \in {"get", "take", "delete"}
  BY DEF Vault!Remove, Vault!At, VaultInv, VaultTypeInv, StepOK
<1>2. CASE /\ Vault!Deletes(c) /\ object' = Vault!NoObject /\ Vault!Goes(c, "ok")
           /\ gone' = (IF client[c].does = "delete" THEN gone \cup object.value ELSE gone)
           /\ UNCHANGED faults
  BY <1>1, <1>2, RemovePreserves
<1>3. ASSUME NEW pc \in {"read", "ok", "failed"}, Vault!Goes(c, pc), UNCHANGED <<object, gone>>,
             faults' \in 0 .. MaxFaults
      PROVE  VaultInv'
  <2>1. PICK k \in Client :
         /\ client' = [client EXCEPT ![c] = k]
         /\ k.pc = pc /\ k.does = client[c].does /\ k.seen = client[c].seen
         /\ k.attempt = client[c].attempt /\ k.took = client[c].took
    BY <1>3, VaultGoesIs DEF VaultInv, VaultTypeInv, VaultPC
  <2>2. StepOK(c, k)
    BY <1>1, <2>1 DEF StepOK
  <2> QED BY <1>1, <1>3, <2>1, <2>2, MovesOn
<1>4. CASE /\ ~Vault!Deletes(c) /\ UNCHANGED <<object, gone, faults>>
           /\ Vault!Goes(c, IF object.id = client[c].seen.id THEN "read" ELSE "ok")
  BY <1>1, <1>3, <1>4
<1>5. CASE /\ Vault!Fault /\ UNCHANGED <<object, gone>>
           /\ Vault!Goes(c, IF client[c].does = "take" THEN "ok" ELSE "failed")
  BY <1>1, <1>3, <1>5 DEF Vault!Fault, Vault!VaultAssumption
<1> QED BY <1>2, <1>4, <1>5 DEF Vault!Remove

LEMMA VaultStepPreserves ==
  ASSUME Vault!VaultAssumption, VaultInv, [Vault!Next]_Vault!vars PROVE VaultInv'
<1>1. ASSUME NEW c \in Clients, NEW does \in {"set", "add", "get", "take", "delete"},
             Vault!Invoke(c, does)
      PROVE  VaultInv'
  BY <1>1, InvokePreserves DEF Does
<1>2. ASSUME NEW c \in Clients, Vault!Read(c) \/ Vault!Write(c) \/ Vault!Remove(c) PROVE VaultInv'
  BY <1>2, ReadPreserves, WriteKeeps, RemoveKeeps
<1>3. CASE Vault!Expire
  BY <1>3, ExpirePreserves DEF Vault!VaultAssumption
<1>4. CASE UNCHANGED Vault!vars
  BY <1>4 DEF Vault!vars, VaultInv, VaultTypeInv, ObjectOK, OneSetter, TakenOnce, VaultSeenOK, StepOK
<1> QED BY <1>1, <1>2, <1>3, <1>4 DEF Vault!Next

LEMMA VaultInvariant == ASSUME Vault!VaultAssumption PROVE Vault!Spec => []VaultInv
BY VaultInitially, VaultStepPreserves, PTL DEF Vault!Spec

\* Every reachable state of the store is well typed; no client tries more often
\* than the code's bound (codex-auth-runtime-server.ts).
THEOREM VaultTypeCorrect == ASSUME Vault!VaultAssumption PROVE Vault!Spec => []Vault!TypeOK
<1>1. VaultInv => Vault!TypeOK
  BY OperationsAre DEF VaultInv, VaultTypeInv, Vault!TypeOK, VaultObject, Client, VaultPC, Use
<1> QED BY <1>1, VaultInvariant, PTL

\* No acknowledged write is lost, though updates race, answers get lost and values
\* expire, and no grant is handed to two runs, though a take whose answer was lost
\* is tried again beside others (codex-auth-runtime-server.ts:222).
THEOREM NothingLostOrRedeemedTwiceHolds ==
  ASSUME Vault!VaultAssumption PROVE Vault!Spec => []Vault!NothingLostOrRedeemedTwice
<1>1. VaultInv => Vault!NothingLostOrRedeemedTwice
  BY DEF VaultInv, TakenOnce, StepOK, Vault!NothingLostOrRedeemedTwice, Vault!At
<1> QED BY <1>1, VaultInvariant, PTL

-----------------------------------------------------------------------------
(* The session of a ChatGPT login. *)

SignInBounds ==
  /\ MaxCodes \in Nat /\ MaxTokens \in Nat \ {0} /\ MaxExpiries \in Nat
  /\ None \notin Requests

SignInSteps == {"new", "ok", "refused", "invalid", "load", "code", "poll", "exchange",
                "refresh", "save", "delete", "join"}
SessionData == [code : Nat, token : Nat, fresh : BOOLEAN]
SignInRequest == [kind : ChatGPT!Kinds, pc : SignInSteps, data : SessionData, shows : Nat]
\* Neither code nor token is known that was not issued.
Known(data) == data.code <= codes /\ data.token <= issued

SignInTypes ==
  /\ session \in SessionData /\ Known(session)
  /\ codes \in 0 .. MaxCodes /\ lapsed \subseteq 1 .. codes /\ approved \subseteq 1 .. codes
  /\ issued \in 0 .. MaxTokens /\ good \subseteq 1 .. issued
  /\ request \in [Requests -> SignInRequest]
  /\ \A r \in Requests : Known(request[r].data) /\ request[r].shows <= codes
  /\ inflight \in Requests \cup {None} /\ overlap \in BOOLEAN /\ expiries \in 0 .. MaxExpiries

\* Who holds tokens it read, or is about to store.
HasData(r) == request[r].pc \in {"code", "poll", "refresh", "save"}
\* While nothing overlaps with it, a status or a login is alone; calls refresh one at
\* a time; and what a request has read is good until it has used it.
StatusAlone ==
  \A q, r \in Requests :
    q # r /\ ChatGPT!Active(q) /\ ChatGPT!Active(r) => ~ChatGPT!Unguarded(r)
SignInOK(r) ==
  /\ request[r].kind = "call" /\ request[r].pc \in {"load", "refresh", "save"} => inflight = r
  /\ request[r].pc = "delete" => request[r].kind = "logout"
  /\ request[r].pc \in {"load", "code", "poll", "exchange", "refresh", "save"}
       => request[r].kind # "logout"
  /\ request[r].pc \in {"code", "poll", "exchange"} => ChatGPT!Unguarded(r)
  /\ HasData(r) => request[r].data.token \in good \cup {0}
  /\ request[r].pc = "refresh" => request[r].data.token # 0
  /\ request[r].pc # "invalid"
TokenKept ==
  session.token # 0 => \/ session.token \in good
                       \/ \E r \in Requests : /\ request[r].pc = "save"
                                              /\ request[r].data.token \in good
SignInInv ==
  /\ SignInTypes
  /\ ~overlap => StatusAlone /\ (\A r \in Requests : SignInOK(r)) /\ TokenKept

\* Of two requests that are active one is a call or a logout, and no two calls load,
\* refresh or save.
LEMMA OneSaves ==
  ASSUME SignInInv, ~overlap, NEW q \in Requests, NEW r \in Requests, q # r,
         request[r].pc \in {"load", "code", "poll", "exchange", "refresh", "save"}
  PROVE  request[q].pc \notin {"load", "code", "poll", "exchange", "refresh", "save"}
<1> SUFFICES ASSUME request[q].pc \in {"load", "code", "poll", "exchange", "refresh", "save"}
             PROVE  FALSE
  OBVIOUS
<1>1. SignInOK(q) /\ SignInOK(r) /\ StatusAlone
  BY DEF SignInInv
<1>2. request[q].kind \in ChatGPT!Kinds /\ request[r].kind \in ChatGPT!Kinds
  BY DEF SignInInv, SignInTypes, SignInRequest
<1>3. ChatGPT!Active(q) /\ ChatGPT!Active(r)
  BY DEF ChatGPT!Active, ChatGPT!Ended
<1>4. request[q].kind = "call" /\ request[r].kind = "call"
  BY <1>1, <1>2, <1>3 DEF StatusAlone, SignInOK, ChatGPT!Unguarded, ChatGPT!Kinds
<1> QED BY <1>1, <1>4 DEF SignInOK, ChatGPT!Unguarded

\* A step of one request.
OneRequestMoves(r, new) ==
  /\ request' = [request EXCEPT ![r] = new] /\ new \in SignInRequest
  /\ new.kind = request[r].kind /\ new.shows <= codes'
  /\ new.data.code <= codes' /\ new.data.token <= issued'
LEMMA RequestStep ==
  ASSUME SignInInv, NEW r \in Requests, NEW new, OneRequestMoves(r, new),
         session' \in SessionData, Known(session)',
         codes' \in 0 .. MaxCodes, codes <= codes', issued' \in 0 .. MaxTokens, issued <= issued',
         lapsed' = lapsed, approved' = approved, good' \subseteq 1 .. issued',
         inflight' \in Requests \cup {None}, expiries' = expiries,
         overlap' \in BOOLEAN, ~overlap' => ~overlap,
         ~overlap' => /\ SignInOK(r)' /\ TokenKept'
                      /\ \A q \in Requests \ {r} : inflight = q => inflight' = q
                      /\ \A q \in Requests \ {r} : HasData(q) /\ request[q].data.token \in good
                                                   => request[q].data.token \in good'
                      /\ \/ new.pc \in ChatGPT!Ended \/ ChatGPT!Active(r)
                         \/ \A q \in Requests \ {r} :
                              ChatGPT!Active(q) => ~ChatGPT!Unguarded(q) /\ ~ChatGPT!Unguarded(r)
  PROVE  SignInInv'
<1>1. /\ request'[r] = new /\ \A q \in Requests \ {r} : request'[q] = request[q]
      /\ request' \in [Requests -> SignInRequest] /\ request \in [Requests -> SignInRequest]
  BY DEF OneRequestMoves, SignInInv, SignInTypes
<1>2. codes \in Nat /\ issued \in Nat /\ codes' \in Nat /\ issued' \in Nat
  BY DEF SignInInv, SignInTypes
<1>3. ASSUME NEW q \in Requests PROVE Known(request[q].data)' /\ request'[q].shows <= codes'
  <2>1. CASE q = r
    BY <1>1, <2>1 DEF OneRequestMoves, Known
  <2>2. CASE q # r
    <3>1. /\ request[q].data.code <= codes /\ request[q].data.token <= issued
          /\ request[q].shows <= codes
      BY DEF SignInInv, SignInTypes, Known
    <3>2. request[q].data.code \in Nat /\ request[q].data.token \in Nat /\ request[q].shows \in Nat
      BY <1>1 DEF SignInRequest, SessionData
    <3> QED BY <1>1, <1>2, <2>2, <3>1, <3>2 DEF Known
  <2> QED BY <2>1, <2>2
<1>4. lapsed' \subseteq 1 .. codes' /\ approved' \subseteq 1 .. codes'
  <2>1. 1 .. codes \subseteq 1 .. codes'
    BY <1>2
  <2> QED BY <2>1 DEF SignInInv, SignInTypes
<1>5. SignInTypes'
  BY <1>1, <1>3, <1>4 DEF SignInInv, SignInTypes, Known
<1>6. SUFFICES ASSUME ~overlap' PROVE StatusAlone' /\ \A q \in Requests : SignInOK(q)'
  BY <1>5 DEF SignInInv
<1>7. ASSUME NEW q \in Requests \ {r} PROVE SignInOK(q)'
  <2>1. SignInOK(q) /\ request'[q] = request[q]
    BY <1>1, <1>6 DEF SignInInv
  <2> QED BY <1>6, <2>1 DEF SignInOK, HasData, ChatGPT!Unguarded
<1>8. StatusAlone'
  <2> SUFFICES ASSUME NEW p \in Requests, NEW q \in Requests, p # q,
                      ChatGPT!Active(p)', ChatGPT!Active(q)'
               PROVE  ~ChatGPT!Unguarded(q)'
    BY DEF StatusAlone
  <2>1. StatusAlone
    BY <1>6 DEF SignInInv
  <2>2. request'[r].kind = request[r].kind
    BY <1>1 DEF OneRequestMoves
  <2>3. CASE p # r /\ q # r
    BY <1>1, <2>1, <2>3 DEF StatusAlone, ChatGPT!Active, ChatGPT!Unguarded
  <2>4. CASE p = r
    BY <1>1, <1>6, <2>1, <2>2, <2>4 DEF StatusAlone, ChatGPT!Active, ChatGPT!Unguarded
  <2>5. CASE q = r
    BY <1>1, <1>6, <2>1, <2>2, <2>5 DEF StatusAlone, ChatGPT!Active, ChatGPT!Unguarded
  <2> QED BY <2>3, <2>4, <2>5
<1> QED BY <1>6, <1>7, <1>8

\* Requests go on, one action at a time.
LEMMA ArriveStep ==
  ASSUME SignInBounds, SignInInv, NEW r \in Requests, ChatGPT!Arrive(r)
  PROVE  SignInInv'
<1> DEFINE step == IF request[r].kind = "logout" THEN "delete"
                   ELSE IF ChatGPT!Shares(r) THEN "join" ELSE "load"
           new == [request[r] EXCEPT !.pc = step]
<1>1. /\ request[r].pc = "new" /\ request' = [request EXCEPT ![r].pc = step]
      /\ overlap' = (overlap \/ \E q \in Requests \ {r} :
                        ChatGPT!Active(q) /\ (ChatGPT!Unguarded(q) \/ ChatGPT!Unguarded(r)))
      /\ UNCHANGED <<session, codes, lapsed, approved, issued, good, expiries>>
      /\ inflight' = IF request[r].kind = "call" /\ inflight = None THEN r ELSE inflight
  BY
  DEF ChatGPT!Arrive, ChatGPT!At, ChatGPT!Goes, ChatGPT!Is, ChatGPT!Shares, ChatGPT!openai
<1>2. request \in [Requests -> SignInRequest] /\ request[r] \in SignInRequest
      /\ Known(request[r].data) /\ request[r].shows <= codes
  BY DEF SignInInv, SignInTypes
<1>3. /\ step \in SignInSteps /\ new \in SignInRequest /\ new.pc = step
      /\ new.kind = request[r].kind /\ new.data = request[r].data /\ new.shows = request[r].shows
  BY <1>2 DEF SignInRequest, SignInSteps
<1>4. request' = [request EXCEPT ![r] = new] /\ request'[r] = new
  BY <1>1, <1>2
<1>5. step = "load" => request[r].kind # "logout" /\ (request[r].kind = "call" => inflight = None)
  BY DEF ChatGPT!Shares, ChatGPT!Is
<1>6. step \in {"delete", "join", "load"} /\ (step = "delete" => request[r].kind = "logout")
  OBVIOUS
<1> HIDE DEF new, step
<1>7. OneRequestMoves(r, new)
  BY <1>1, <1>2, <1>3, <1>4 DEF OneRequestMoves, Known
<1>8. ASSUME ~overlap' PROVE SignInOK(r)'
  BY <1>1, <1>3, <1>4, <1>5, <1>6 DEF SignInOK, HasData
<1>9. ASSUME ~overlap' PROVE TokenKept'
  <2>1. TokenKept
    BY <1>1, <1>9 DEF SignInInv
  <2>2. \A q \in Requests : request[q].pc = "save" => request'[q] = request[q]
    BY <1>1, <1>2, <1>4
  <2> QED BY <1>1, <2>1, <2>2 DEF TokenKept
<1>10. inflight' \in Requests \cup {None} /\ \A q \in Requests \ {r} : inflight = q => inflight' = q
  BY <1>1 DEF SignInInv, SignInTypes, SignInBounds
<1>11. ~overlap' => ~overlap /\ \A q \in Requests \ {r} :
                    ChatGPT!Active(q) => ~ChatGPT!Unguarded(q) /\ ~ChatGPT!Unguarded(r)
  BY <1>1
<1>12. overlap' \in BOOLEAN
  BY <1>1
<1>13. /\ session' \in SessionData /\ Known(session)'
       /\ codes' \in 0 .. MaxCodes /\ codes <= codes' /\ issued' \in 0 .. MaxTokens
       /\ issued <= issued' /\ good' \subseteq 1 .. issued'
       /\ lapsed' = lapsed /\ approved' = approved /\ expiries' = expiries /\ good' = good
  BY <1>1 DEF SignInInv, SignInTypes, Known
<1> HIDE DEF OneRequestMoves
<1> QED BY <1>7, <1>8, <1>9, <1>10, <1>11, <1>12, <1>13, RequestStep

\* A request goes on with what it has read of the session, which it leaves as it is.
LEMMA ReadStep ==
  ASSUME SignInBounds, SignInInv, NEW r \in Requests, NEW new, OneRequestMoves(r, new),
         ChatGPT!Active(r), new.pc # "invalid",
         new.pc \in SignInSteps,
         UNCHANGED <<session, lapsed, approved, issued, good, overlap, expiries>>,
         codes' \in 0 .. MaxCodes, codes <= codes',
         inflight' = inflight \/ (inflight = r /\ inflight' = None /\ new.pc \in ChatGPT!Ended),
         request[r].pc # "save",
         ~overlap => SignInOK(r)'
  PROVE  SignInInv'
<1>1. request'[r] = new /\ \A q \in Requests \ {r} : request'[q] = request[q]
  BY DEF OneRequestMoves, SignInInv, SignInTypes
<1>2. ASSUME ~overlap' PROVE TokenKept'
  <2>1. TokenKept
    BY <1>2 DEF SignInInv
  <2>2. \A q \in Requests : request[q].pc = "save" => request'[q] = request[q]
    BY <1>1
  <2> QED BY <2>1, <2>2 DEF TokenKept
<1>3. inflight' \in Requests \cup {None} /\ \A q \in Requests \ {r} : inflight = q => inflight' = q
  BY DEF SignInInv, SignInTypes, SignInBounds
<1>4. Known(session)' /\ issued' \in 0 .. MaxTokens /\ issued <= issued' /\ good' \subseteq 1 .. issued'
      /\ session' \in SessionData /\ overlap' \in BOOLEAN
  BY DEF SignInInv, SignInTypes, Known, SessionData
<1> QED BY <1>2, <1>3, <1>4, RequestStep

\* What a request that goes on reads is good, because nobody stores a successor.
LEMMA SignInLoadStep ==
  ASSUME SignInBounds, SignInInv, NEW r \in Requests, ChatGPT!Load(r)
  PROVE  SignInInv'
<1>1. /\ request[r].pc = "load" /\ UNCHANGED <<session, codes, lapsed, approved, issued, good>>
      /\ UNCHANGED <<overlap, expiries>>
  BY DEF ChatGPT!Load, ChatGPT!At, ChatGPT!openai
<1>2. request \in [Requests -> SignInRequest] /\ request[r] \in SignInRequest
      /\ Known(request[r].data) /\ request[r].shows <= codes /\ session \in SessionData
      /\ Known(session) /\ codes \in 0 .. MaxCodes
  BY DEF SignInInv, SignInTypes
<1>3. ~overlap => SignInOK(r) /\ session.token \in good \cup {0}
  <2> SUFFICES ASSUME ~overlap PROVE SignInOK(r) /\ session.token \in good \cup {0}
    OBVIOUS
  <2>1. \A q \in Requests : request[q].pc # "save"
    BY <1>1, OneSaves
  <2> QED BY <2>1 DEF SignInInv, TokenKept
<1>4. ChatGPT!Active(r)
  BY <1>1 DEF ChatGPT!Active, ChatGPT!Ended
\* Whatever it does, it takes the session or nothing with it.
<1>5. ASSUME NEW step \in {"ok", "refused", "code", "refresh", "save", "poll"},
             NEW data \in {request[r].data, session, [session EXCEPT !.code = 0]},
             NEW shows \in {request[r].shows, session.code},
             request' = [request EXCEPT ![r] = [kind |-> request[r].kind, pc |-> step,
                                                data |-> data, shows |-> shows]],
             \/ inflight' = inflight
             \/ inflight = r /\ inflight' = None /\ step \in {"ok", "refused"},
             step \notin {"ok", "refused"} => data \in {session, [session EXCEPT !.code = 0]},
             step \in {"code", "poll"} => ChatGPT!Unguarded(r),
             step = "refresh" => data.token # 0,
             step = "save" => request[r].kind = "status"
      PROVE  SignInInv'
  <2> DEFINE new == [kind |-> request[r].kind, pc |-> step, data |-> data, shows |-> shows]
  <2>1. data \in SessionData /\ data.code <= codes /\ data.token <= issued /\ shows \in Nat /\ shows <= codes
    BY <1>2, <1>5 DEF SessionData, Known, SignInRequest
  <2>2. /\ new \in SignInRequest /\ new.kind = request[r].kind /\ new.pc = step
        /\ new.data = data /\ new.shows = shows
    BY <1>2, <2>1, <1>5 DEF SignInRequest, SignInSteps
  <2>3. request' = [request EXCEPT ![r] = new] /\ request'[r] = new
    BY <1>2, <1>5
  <2>4. data \in {session, [session EXCEPT !.code = 0]} => data.token = session.token
    BY <1>2 DEF SessionData
  <2> HIDE DEF new
  <2>5. OneRequestMoves(r, new)
    BY <1>1, <2>1, <2>2, <2>3 DEF OneRequestMoves
  <2>6. ~overlap => SignInOK(r)'
    <3> SUFFICES ASSUME ~overlap PROVE SignInOK(r)'
      OBVIOUS
    <3>1. /\ request'[r].kind = request[r].kind /\ request'[r].pc = step
          /\ request'[r].data.token = data.token
      BY <2>2, <2>3
    <3>2. step \notin {"ok", "refused"} => data.token \in good \cup {0} /\ inflight' = inflight
      BY <1>3, <1>5, <2>4
    <3>3. (request[r].kind = "call" => inflight = r) /\ request[r].kind # "logout"
      BY <1>1, <1>3 DEF SignInOK
    <3>4. request[r].kind \in ChatGPT!Kinds
      BY <1>2 DEF SignInRequest
    <3> QED BY <1>1, <1>5, <3>1, <3>2, <3>3, <3>4
      DEF SignInOK, HasData, ChatGPT!Unguarded, ChatGPT!Kinds
  <2>7. inflight' = inflight \/ (inflight = r /\ inflight' = None /\ new.pc \in ChatGPT!Ended)
    BY <1>5, <2>2 DEF ChatGPT!Ended
  <2>8. new.pc # "invalid" /\ new.pc \in SignInSteps
    BY <1>5, <2>2 DEF SignInSteps
  <2>9. /\ UNCHANGED <<session, lapsed, approved, issued, good, overlap, expiries>>
        /\ codes' \in 0 .. MaxCodes /\ codes <= codes' /\ request[r].pc # "save"
    BY <1>1, <1>2
  <2> HIDE DEF OneRequestMoves
  <2> QED BY <1>4, <2>5, <2>6, <2>7, <2>8, <2>9, ReadStep
<1>6. \A step, shows : request' = [request EXCEPT ![r].pc = step] =>
         request' = [request EXCEPT ![r] = [kind |-> request[r].kind, pc |-> step,
                                            data |-> request[r].data, shows |-> request[r].shows]]
  BY <1>2 DEF SignInRequest
<1>7. \A step, data : ChatGPT!GoesWith(r, step, data) =>
         request' = [request EXCEPT ![r] = [kind |-> request[r].kind, pc |-> step,
                                            data |-> data, shows |-> request[r].shows]]
  BY <1>2 DEF SignInRequest, ChatGPT!GoesWith
<1>8. \A step, shows : request' = [request EXCEPT ![r].pc = step, ![r].shows = shows] =>
         request' = [request EXCEPT ![r] = [kind |-> request[r].kind, pc |-> step,
                                            data |-> request[r].data, shows |-> shows]]
  BY <1>2 DEF SignInRequest
<1>9. request[r].kind \in ChatGPT!Kinds
  BY <1>2 DEF SignInRequest
<1>10. CASE request[r].kind = "login"
  <2>1. CASE request' = [request EXCEPT ![r].pc = "ok", ![r].shows = session.code] /\ UNCHANGED inflight
    BY <1>5, <1>8, <2>1
  <2>2. CASE ChatGPT!GoesWith(r, "code", session) /\ UNCHANGED inflight
    BY <1>5, <1>7, <1>10, <2>2 DEF ChatGPT!Unguarded
  <2> QED BY <1>10, <2>1, <2>2 DEF ChatGPT!Load, ChatGPT!Is
<1>11. CASE request[r].kind # "login" /\ session.token # 0
  <2>1. CASE ChatGPT!GoesWith(r, "refresh", session) /\ UNCHANGED inflight
    BY <1>5, <1>7, <1>11, <2>1
  <2>2. CASE ChatGPT!GoesWith(r, "save", session) /\ UNCHANGED inflight /\ request[r].kind = "status"
    BY <1>5, <1>7, <1>11, <2>2
  <2>3. CASE ChatGPT!Goes(r, "ok") /\ ChatGPT!Leaves(r)
    BY <1>5, <1>6, <2>3 DEF ChatGPT!Goes, ChatGPT!Leaves
  <2> QED BY <1>11, <2>1, <2>2, <2>3 DEF ChatGPT!Load, ChatGPT!Is
<1>12. CASE request[r].kind = "status" /\ session.token = 0
  <2>1. CASE ChatGPT!Goes(r, "ok") /\ UNCHANGED inflight
    BY <1>5, <1>6, <2>1 DEF ChatGPT!Goes
  <2>2. CASE ChatGPT!GoesWith(r, "poll", session) /\ UNCHANGED inflight
    BY <1>5, <1>7, <1>12, <2>2 DEF ChatGPT!Unguarded
  <2>3. CASE ChatGPT!GoesWith(r, "save", [session EXCEPT !.code = 0]) /\ UNCHANGED inflight
    BY <1>5, <1>7, <1>12, <2>3
  <2> QED BY <1>12, <2>1, <2>2, <2>3 DEF ChatGPT!Load, ChatGPT!Is
<1>13. CASE request[r].kind \notin {"login", "status"} /\ session.token = 0
  <2>1. ChatGPT!Goes(r, "refused") /\ ChatGPT!Leaves(r)
    BY <1>13 DEF ChatGPT!Load, ChatGPT!Is
  <2> QED BY <1>5, <1>6, <2>1 DEF ChatGPT!Goes, ChatGPT!Leaves
<1> QED BY <1>10, <1>11, <1>12, <1>13

LEMMA JoinStep ==
  ASSUME SignInBounds, SignInInv, NEW r \in Requests, ChatGPT!Join(r)
  PROVE  SignInInv'
<1> DEFINE new == [request[r] EXCEPT !.pc = "ok"]
<1>1. /\ request[r].pc = "join" /\ request' = [request EXCEPT ![r] = new]
      /\ UNCHANGED <<session, codes, lapsed, approved, issued, good, inflight, overlap, expiries>>
  BY DEF ChatGPT!Join, ChatGPT!At, ChatGPT!Goes, ChatGPT!openai
<1>2. request \in [Requests -> SignInRequest] /\ request[r] \in SignInRequest
      /\ Known(request[r].data) /\ request[r].shows <= codes /\ codes \in 0 .. MaxCodes
  BY DEF SignInInv, SignInTypes
<1>3. /\ new \in SignInRequest /\ new.pc = "ok" /\ new.kind = request[r].kind
      /\ new.data = request[r].data /\ new.shows = request[r].shows
  BY <1>2 DEF SignInRequest, SignInSteps
<1> HIDE DEF new
<1>4. OneRequestMoves(r, new)
  BY <1>1, <1>2, <1>3 DEF OneRequestMoves, Known
<1>5. request'[r] = new /\ ChatGPT!Active(r)
  BY <1>1, <1>2 DEF ChatGPT!Active, ChatGPT!Ended
<1>6. SignInOK(r)'
  BY <1>3, <1>5 DEF SignInOK, HasData
<1>7. new.pc \in SignInSteps /\ codes' \in 0 .. MaxCodes /\ codes <= codes'
  BY <1>1, <1>2, <1>3 DEF SignInSteps
<1> HIDE DEF OneRequestMoves
<1> QED BY <1>1, <1>3, <1>4, <1>5, <1>6, <1>7, ReadStep

LEMMA CodeStep ==
  ASSUME SignInBounds, SignInInv, NEW r \in Requests, ChatGPT!RequestCode(r)
  PROVE  SignInInv'
<1> DEFINE data == [request[r].data EXCEPT !.code = codes + 1]
           new == [kind |-> request[r].kind, pc |-> "save", data |-> data, shows |-> codes + 1]
<1>1. /\ request[r].pc = "code" /\ codes < MaxCodes /\ codes' = codes + 1
      /\ request' = [request EXCEPT ![r].pc = "save", ![r].data.code = codes', ![r].shows = codes']
      /\ UNCHANGED <<session, lapsed, approved, issued, good, inflight, overlap, expiries>>
  BY DEF ChatGPT!RequestCode, ChatGPT!At
<1>2. request \in [Requests -> SignInRequest] /\ request[r] \in SignInRequest
      /\ Known(request[r].data) /\ codes \in 0 .. MaxCodes
  BY DEF SignInInv, SignInTypes
<1>3. request' = [request EXCEPT ![r] = new]
  <2> DEFINE made == [request[r] EXCEPT !.pc = "save", !.data.code = codes + 1, !.shows = codes + 1]
  <2>1. request' = [request EXCEPT ![r] = made]
    BY <1>1
  <2>2. made = new
    <3>1. request[r] \in [kind : ChatGPT!Kinds, pc : SignInSteps, data : SessionData, shows : Nat]
      BY <1>2 DEF SignInRequest
    <3>2. made = [request[r] EXCEPT !.pc = "save", !.data = data, !.shows = codes + 1]
      OBVIOUS
    <3> HIDE DEF data, made
    <3> QED BY <3>1, <3>2
  <2> QED BY <2>1, <2>2
<1>4. /\ data \in SessionData /\ data.code = codes + 1 /\ data.token = request[r].data.token
      /\ data.token <= issued
  BY <1>2 DEF SignInRequest, SessionData, Known
<1>5. /\ new \in SignInRequest /\ new.pc = "save" /\ new.kind = request[r].kind
      /\ new.data = data /\ new.shows = codes + 1
  BY <1>2, <1>4 DEF SignInRequest, SignInSteps
<1> HIDE DEF new, data
<1>6. codes' \in 0 .. MaxCodes /\ codes <= codes' /\ codes + 1 <= codes'
  BY <1>1, <1>2 DEF SignInBounds
<1>7. OneRequestMoves(r, new)
  BY <1>1, <1>3, <1>4, <1>5, <1>6 DEF OneRequestMoves
<1>8. request'[r] = new /\ ChatGPT!Active(r)
  BY <1>1, <1>2, <1>3 DEF ChatGPT!Active, ChatGPT!Ended
<1>9. ~overlap => SignInOK(r)'
  <2> SUFFICES ASSUME ~overlap PROVE SignInOK(r)'
    OBVIOUS
  <2>1. SignInOK(r)
    BY DEF SignInInv
  <2> QED BY <1>1, <1>4, <1>5, <1>8, <2>1 DEF SignInOK, HasData, ChatGPT!Unguarded
<1>10. new.pc \in SignInSteps /\ new.pc # "invalid" /\ request[r].pc # "save"
  BY <1>1, <1>5 DEF SignInSteps
<1> HIDE DEF OneRequestMoves
<1> QED BY <1>1, <1>6, <1>7, <1>8, <1>9, <1>10, ReadStep

LEMMA SignInPollStep ==
  ASSUME SignInBounds, SignInInv, NEW r \in Requests, ChatGPT!Poll(r)
  PROVE  SignInInv'
<1>1. PICK step \in {"exchange", "save", "ok"} : request' = [request EXCEPT ![r].pc = step]
  BY DEF ChatGPT!Poll, ChatGPT!Goes
<1> DEFINE new == [request[r] EXCEPT !.pc = step]
<1>2. /\ request[r].pc = "poll" /\ request' = [request EXCEPT ![r] = new]
      /\ UNCHANGED <<session, codes, lapsed, approved, issued, good, inflight, overlap, expiries>>
  BY <1>1 DEF ChatGPT!Poll, ChatGPT!At, ChatGPT!openai
<1>3. request \in [Requests -> SignInRequest] /\ request[r] \in SignInRequest
      /\ Known(request[r].data) /\ request[r].shows <= codes /\ codes \in 0 .. MaxCodes
  BY DEF SignInInv, SignInTypes
<1>4. /\ new \in SignInRequest /\ new.pc = step /\ new.kind = request[r].kind
      /\ new.data = request[r].data /\ new.shows = request[r].shows
  BY <1>3 DEF SignInRequest, SignInSteps
<1> HIDE DEF new
<1>5. OneRequestMoves(r, new)
  BY <1>2, <1>3, <1>4 DEF OneRequestMoves, Known
<1>6. request'[r] = new /\ ChatGPT!Active(r)
  BY <1>2, <1>3 DEF ChatGPT!Active, ChatGPT!Ended
<1>7. ~overlap => SignInOK(r)'
  <2> SUFFICES ASSUME ~overlap PROVE SignInOK(r)'
    OBVIOUS
  <2>1. SignInOK(r)
    BY DEF SignInInv
  <2> QED BY <1>2, <1>4, <1>6, <2>1 DEF SignInOK, HasData, ChatGPT!Unguarded
<1>8. /\ new.pc \in SignInSteps /\ new.pc # "invalid" /\ codes' \in 0 .. MaxCodes
      /\ codes <= codes'
  BY <1>2, <1>3, <1>4 DEF SignInSteps
<1> HIDE DEF OneRequestMoves
<1> QED BY <1>2, <1>5, <1>6, <1>7, <1>8, ReadStep

\* A token is issued and used: by the one request that has it.
LEMMA ExchangeStep ==
  ASSUME SignInBounds, SignInInv, NEW r \in Requests, ChatGPT!Exchange(r)
  PROVE  SignInInv'
<1> DEFINE data == [code |-> 0, token |-> issued + 1, fresh |-> TRUE]
           new == [request[r] EXCEPT !.pc = "save", !.data = data]
<1>1. /\ request[r].pc = "exchange" /\ issued < MaxTokens /\ issued' = issued + 1
      /\ good' = good \cup {issued + 1} /\ request' = [request EXCEPT ![r] = new]
      /\ UNCHANGED <<session, codes, lapsed, approved, inflight, overlap, expiries>>
  BY DEF ChatGPT!Exchange, ChatGPT!At, ChatGPT!GoesWith
<1>2. request \in [Requests -> SignInRequest] /\ request[r] \in SignInRequest
      /\ request[r].shows <= codes /\ codes \in 0 .. MaxCodes /\ issued \in 0 .. MaxTokens
      /\ good \subseteq 1 .. issued /\ session \in SessionData /\ Known(session)
  BY DEF SignInInv, SignInTypes
<1>3. /\ data \in SessionData /\ data.code = 0 /\ data.token = issued + 1
  BY <1>2 DEF SessionData
<1>4. /\ new \in SignInRequest /\ new.pc = "save" /\ new.kind = request[r].kind
      /\ new.data = data /\ new.shows = request[r].shows
  BY <1>2, <1>3 DEF SignInRequest, SignInSteps
<1> HIDE DEF new, data
<1>5. OneRequestMoves(r, new)
  BY <1>1, <1>2, <1>3, <1>4, 0 <= codes DEF OneRequestMoves
<1>6. request'[r] = new /\ ChatGPT!Active(r) /\ \A q \in Requests \ {r} : request'[q] = request[q]
  BY <1>1, <1>2 DEF ChatGPT!Active, ChatGPT!Ended
<1>7. issued' \in 0 .. MaxTokens /\ issued <= issued' /\ good' \subseteq 1 .. issued'
  <2>1. issued + 1 \in 0 .. MaxTokens /\ issued <= issued + 1 /\ issued + 1 \in 1 .. issued + 1
        /\ 1 .. issued \subseteq 1 .. issued + 1
    BY <1>1, <1>2 DEF SignInBounds
  <2> QED BY <1>1, <1>2, <2>1
<1>8. Known(session)' /\ session' \in SessionData /\ codes' \in 0 .. MaxCodes /\ codes <= codes'
  BY <1>1, <1>2 DEF Known, SessionData
<1>9. ~overlap => SignInOK(r)' /\ TokenKept'
  <2> SUFFICES ASSUME ~overlap PROVE SignInOK(r)' /\ TokenKept'
    OBVIOUS
  <2>1. SignInOK(r) /\ TokenKept
    BY DEF SignInInv
  <2>2. SignInOK(r)'
    BY <1>1, <1>3, <1>4, <1>6, <2>1 DEF SignInOK, HasData, ChatGPT!Unguarded
  <2>3. \A q \in Requests : request[q].pc = "save" => request'[q] = request[q]
    BY <1>1, <1>6
  <2>4. TokenKept'
    BY <1>1, <2>1, <2>3 DEF TokenKept
  <2> QED BY <2>2, <2>4
<1>10. /\ inflight' \in Requests \cup {None} /\ inflight' = inflight /\ overlap' = overlap
       /\ overlap' \in BOOLEAN /\ lapsed' = lapsed /\ approved' = approved /\ expiries' = expiries
       /\ \A x : x \in good => x \in good'
  BY <1>1 DEF SignInInv, SignInTypes
<1> HIDE DEF OneRequestMoves
<1> QED BY <1>5, <1>6, <1>7, <1>8, <1>9, <1>10, RequestStep

LEMMA SignInRefreshStep ==
  ASSUME SignInBounds, SignInInv, NEW r \in Requests, ChatGPT!Refresh(r)
  PROVE  SignInInv'
<1> DEFINE token == request[r].data.token
<1>1. request[r].pc = "refresh" /\ UNCHANGED <<session, codes, lapsed, approved, overlap, expiries>>
  BY DEF ChatGPT!Refresh, ChatGPT!At
<1>2. request \in [Requests -> SignInRequest] /\ request[r] \in SignInRequest
      /\ Known(request[r].data) /\ request[r].data \in SessionData
      /\ request[r].shows <= codes /\ codes \in 0 .. MaxCodes /\ issued \in 0 .. MaxTokens
      /\ good \subseteq 1 .. issued /\ session \in SessionData /\ Known(session)
      /\ inflight \in Requests \cup {None} /\ overlap \in BOOLEAN
  BY DEF SignInInv, SignInTypes, SignInRequest
<1>3. ChatGPT!Active(r)
  BY <1>1 DEF ChatGPT!Active, ChatGPT!Ended
<1>4. ~overlap => /\ SignInOK(r) /\ TokenKept /\ token \in good
                  /\ \A q \in Requests \ {r} : ~HasData(q)
  <2> SUFFICES ASSUME ~overlap
               PROVE  /\ SignInOK(r) /\ TokenKept /\ token \in good
                      /\ \A q \in Requests \ {r} : ~HasData(q)
    OBVIOUS
  <2>1. SignInOK(r) /\ TokenKept
    BY DEF SignInInv
  <2>2. \A q \in Requests \ {r} : ~HasData(q)
    BY <1>1, OneSaves DEF HasData
  <2> QED BY <1>1, <2>1, <2>2 DEF SignInOK, HasData
<1>5. CASE token \in good
  <2> DEFINE data == [request[r].data EXCEPT !.token = issued + 1, !.fresh = TRUE]
             new == [request[r] EXCEPT !.pc = "save", !.data = data]
  <2>1. /\ issued < MaxTokens /\ issued' = issued + 1 /\ good' = (good \ {token}) \cup {issued + 1}
        /\ request' = [request EXCEPT ![r] = new] /\ inflight' = inflight
    BY <1>5 DEF ChatGPT!Refresh, ChatGPT!GoesWith
  <2>2. data \in SessionData /\ data.code = request[r].data.code /\ data.token = issued + 1
    <3>1. issued + 1 \in Nat
      BY <1>2 DEF SignInBounds
    <3> QED BY <1>2, <3>1 DEF SessionData
  <2>3. /\ new \in SignInRequest /\ new.pc = "save" /\ new.kind = request[r].kind
        /\ new.data = data /\ new.shows = request[r].shows
    BY <1>2, <2>2 DEF SignInRequest, SignInSteps
  <2> HIDE DEF new, data
  <2>4. OneRequestMoves(r, new)
    BY <1>1, <1>2, <2>1, <2>2, <2>3 DEF OneRequestMoves, Known
  <2>5. request'[r] = new /\ \A q \in Requests \ {r} : request'[q] = request[q]
    BY <1>2, <2>1
  <2>6. issued' \in 0 .. MaxTokens /\ issued <= issued' /\ good' \subseteq 1 .. issued'
    <3>1. issued + 1 \in 0 .. MaxTokens /\ issued <= issued + 1 /\ issued + 1 \in 1 .. issued + 1
          /\ 1 .. issued \subseteq 1 .. issued + 1
      BY <1>2, <2>1 DEF SignInBounds
    <3> QED BY <1>2, <2>1, <3>1
  <2>7. Known(session)' /\ session' \in SessionData /\ codes' \in 0 .. MaxCodes /\ codes <= codes'
    BY <1>1, <1>2, <2>1 DEF Known, SessionData
  <2>8. TokenKept'
    BY <2>1, <2>2, <2>3, <2>5 DEF TokenKept
  <2>9. ~overlap => SignInOK(r)'
    BY <1>1, <1>4, <2>1, <2>2, <2>3, <2>5 DEF SignInOK, HasData, ChatGPT!Unguarded
  <2>10. /\ inflight' \in Requests \cup {None} /\ inflight' = inflight /\ overlap' = overlap
         /\ overlap' \in BOOLEAN /\ lapsed' = lapsed /\ approved' = approved /\ expiries' = expiries
    BY <1>1, <1>2, <2>1
  <2> HIDE DEF OneRequestMoves
  <2> QED BY <1>3, <1>4, <2>4, <2>6, <2>7, <2>8, <2>9, <2>10, RequestStep
<1>6. CASE token \notin good
  <2> DEFINE step == IF request[r].kind = "status" THEN "delete" ELSE "invalid"
             new == [request[r] EXCEPT !.pc = step]
  <2>1. /\ issued' = issued /\ good' = good /\ request' = [request EXCEPT ![r] = new]
        /\ inflight' = IF inflight = r THEN None ELSE inflight
    BY <1>6 DEF ChatGPT!Refresh, ChatGPT!Goes, ChatGPT!Leaves, ChatGPT!Is
  <2>2. /\ new \in SignInRequest /\ new.kind = request[r].kind
        /\ new.data = request[r].data /\ new.shows = request[r].shows
    BY <1>2 DEF SignInRequest, SignInSteps
  <2> HIDE DEF new
  <2>3. OneRequestMoves(r, new)
    BY <1>1, <1>2, <2>1, <2>2 DEF OneRequestMoves, Known
  <2>4. overlap /\ overlap'
    BY <1>1, <1>2, <1>4, <1>6
  <2>5. /\ Known(session)' /\ session' \in SessionData /\ codes' \in 0 .. MaxCodes /\ codes <= codes'
        /\ issued' \in 0 .. MaxTokens /\ issued <= issued' /\ good' \subseteq 1 .. issued'
        /\ inflight' \in Requests \cup {None} /\ overlap' \in BOOLEAN
        /\ lapsed' = lapsed /\ approved' = approved /\ expiries' = expiries
    BY <1>1, <1>2, <2>1 DEF Known, SessionData
  <2> HIDE DEF OneRequestMoves
  <2> QED BY <2>3, <2>4, <2>5, RequestStep
<1> QED BY <1>5, <1>6

\* A session is stored, or deleted.
LEMMA SignInStoreStep ==
  ASSUME SignInBounds, SignInInv, NEW r \in Requests, ChatGPT!Save(r) \/ ChatGPT!Delete(r)
  PROVE  SignInInv'
<1>1. PICK step \in {"ok", "invalid"} :
        /\ request' = [request EXCEPT ![r].pc = step]
        /\ \/ request[r].pc = "save" /\ step = "ok" /\ session' = request[r].data
           \/ /\ request[r].pc = "delete" /\ session' = ChatGPT!Empty
              /\ step = IF request[r].kind = "status" THEN "invalid" ELSE "ok"
        /\ inflight' = inflight \/ (inflight = r /\ inflight' = None)
        /\ UNCHANGED <<codes, lapsed, approved, issued, good, overlap, expiries>>
  BY DEF ChatGPT!Save, ChatGPT!Delete, ChatGPT!At, ChatGPT!Goes, ChatGPT!Leaves, ChatGPT!Is,
         ChatGPT!openai
<1> DEFINE new == [request[r] EXCEPT !.pc = step]
<1>2. request \in [Requests -> SignInRequest] /\ request[r] \in SignInRequest
      /\ Known(request[r].data) /\ request[r].data \in SessionData
      /\ request[r].shows <= codes /\ codes \in 0 .. MaxCodes /\ issued \in 0 .. MaxTokens
      /\ good \subseteq 1 .. issued /\ inflight \in Requests \cup {None} /\ overlap \in BOOLEAN
  BY DEF SignInInv, SignInTypes, SignInRequest
<1>3. /\ new \in SignInRequest /\ new.kind = request[r].kind /\ new.pc = step
      /\ new.data = request[r].data /\ new.shows = request[r].shows
  BY <1>2 DEF SignInRequest, SignInSteps
<1>4. request' = [request EXCEPT ![r] = new] /\ request'[r] = new
  BY <1>1, <1>2
<1> HIDE DEF new
<1>5. OneRequestMoves(r, new)
  BY <1>1, <1>2, <1>3, <1>4 DEF OneRequestMoves, Known
<1>6. Known(session)' /\ session' \in SessionData /\ codes' \in 0 .. MaxCodes /\ codes <= codes'
      /\ issued' \in 0 .. MaxTokens /\ issued <= issued'
  <2>1. codes \in Nat /\ issued \in Nat /\ ChatGPT!Empty \in SessionData
        /\ ChatGPT!Empty.code = 0 /\ ChatGPT!Empty.token = 0
    BY <1>2 DEF SignInBounds, SessionData, ChatGPT!Empty
  <2>2. session' = request[r].data \/ session' = ChatGPT!Empty
    BY <1>1
  <2> QED BY <1>1, <1>2, <2>1, <2>2 DEF Known
<1>7. ~overlap => SignInOK(r)' /\ TokenKept'
  <2> SUFFICES ASSUME ~overlap PROVE SignInOK(r)' /\ TokenKept'
    OBVIOUS
  <2>1. SignInOK(r)
    BY DEF SignInInv
  <2>2. step = "ok" /\ session'.token \in good \cup {0}
    BY <1>1, <2>1 DEF SignInOK, HasData, ChatGPT!Empty
  <2> QED BY <1>1, <1>3, <1>4, <2>2 DEF SignInOK, HasData, TokenKept
<1>8. /\ inflight' \in Requests \cup {None} /\ overlap' = overlap /\ overlap' \in BOOLEAN
      /\ \A q \in Requests \ {r} : inflight = q => inflight' = q
      /\ lapsed' = lapsed /\ approved' = approved /\ expiries' = expiries
      /\ good' = good /\ good' \subseteq 1 .. issued'
  BY <1>1, <1>2 DEF SignInBounds
<1>9. new.pc \in ChatGPT!Ended
  BY <1>3 DEF ChatGPT!Ended
<1> HIDE DEF OneRequestMoves
<1> QED BY <1>5, <1>6, <1>7, <1>8, <1>9, RequestStep

\* What the user and time do.
LEMMA OutsideStep ==
  ASSUME SignInBounds, SignInInv,
         \/ ChatGPT!AccessTokenExpires
         \/ \E code \in 1 .. MaxCodes : ChatGPT!Approve(code) \/ ChatGPT!CodeLapses(code)
  PROVE  SignInInv'
<1>1. /\ UNCHANGED <<codes, issued, good, request, inflight, overlap>>
      /\ session' \in {session, [session EXCEPT !.fresh = FALSE]}
      /\ approved' = approved \/ \E code \in 1 .. codes : approved' = approved \cup {code}
      /\ lapsed' = lapsed \/ \E code \in 1 .. codes : lapsed' = lapsed \cup {code}
      /\ expiries' = expiries \/ (expiries < MaxExpiries /\ expiries' = expiries + 1)
  BY DEF ChatGPT!AccessTokenExpires, ChatGPT!Approve, ChatGPT!CodeLapses, ChatGPT!openai
<1>2. session' \in SessionData /\ session'.code = session.code /\ session'.token = session.token
  BY <1>1 DEF SignInInv, SignInTypes, SessionData
<1>3. SignInTypes'
  BY <1>1, <1>2 DEF SignInInv, SignInTypes, Known, SignInBounds
<1>4. StatusAlone' <=> StatusAlone
  BY <1>1 DEF StatusAlone, ChatGPT!Active, ChatGPT!Unguarded
<1>5. TokenKept' <=> TokenKept
  BY <1>1, <1>2 DEF TokenKept
<1>6. \A r \in Requests : SignInOK(r)' <=> SignInOK(r)
  BY <1>1 DEF SignInOK, HasData, ChatGPT!Unguarded
<1> QED BY <1>1, <1>3, <1>4, <1>5, <1>6 DEF SignInInv

\* CallsKeepTheSession: unless a status or a login overlapped with another request, the
\* stored token is good or its successor is about to be stored, and no request is told
\* to sign in again.
THEOREM CallsKeepTheSessionHolds ==
  ASSUME SignInBounds
  PROVE  ChatGPT!Spec => [](ChatGPT!TypeOK /\ ChatGPT!CallsKeepTheSession)
<1>1. ChatGPT!Init => SignInInv
  <2> SUFFICES ASSUME ChatGPT!Init PROVE SignInInv
    OBVIOUS
  <2>1. PICK token \in {0, 1} :
          /\ session.code = 0 /\ session.token = token /\ session \in SessionData
          /\ issued = token /\ good = (IF token = 0 THEN {} ELSE {1})
    <3>1. CASE session = ChatGPT!Empty /\ issued = 0 /\ good = {}
      BY <3>1 DEF ChatGPT!Empty, SessionData
    <3>2. CASE session = [code |-> 0, token |-> 1, fresh |-> TRUE] /\ issued = 1 /\ good = {1}
      BY <3>2 DEF SessionData
    <3> QED BY <3>1, <3>2 DEF ChatGPT!Init
  <2>2. /\ codes = 0 /\ lapsed = {} /\ approved = {} /\ inflight = None /\ overlap = FALSE /\ expiries = 0
        /\ request \in [Requests -> {[kind |-> k, pc |-> "new", data |-> ChatGPT!Empty, shows |-> 0] :
                                      k \in ChatGPT!Kinds}]
    BY DEF ChatGPT!Init
  <2>3. ChatGPT!Empty \in SessionData /\ ChatGPT!Empty.code = 0 /\ ChatGPT!Empty.token = 0
    BY DEF SessionData, ChatGPT!Empty
  <2>4. \A r \in Requests : /\ request[r] \in SignInRequest /\ request[r].pc = "new"
                            /\ request[r].data = ChatGPT!Empty /\ request[r].shows = 0
    BY <2>2, <2>3 DEF SignInRequest, SignInSteps
  <2>5. request \in [Requests -> SignInRequest]
    BY <2>2, <2>4
  <2>6. issued \in 0 .. MaxTokens
    BY <2>1 DEF SignInBounds
  <2>7. SignInTypes
    <3>1. Known(session) /\ \A r \in Requests : Known(request[r].data) /\ request[r].shows <= codes
      BY <2>1, <2>2, <2>3, <2>4 DEF Known
    <3>2. good \subseteq 1 .. issued /\ codes \in 0 .. MaxCodes /\ expiries \in 0 .. MaxExpiries
      BY <2>1, <2>2 DEF SignInBounds
    <3> QED BY <2>1, <2>2, <2>5, <2>6, <3>1, <3>2 DEF SignInTypes
  <2>8. StatusAlone /\ (\A r \in Requests : SignInOK(r)) /\ TokenKept
    BY <2>1, <2>4
    DEF StatusAlone, SignInOK, HasData, TokenKept, ChatGPT!Active, ChatGPT!Ended
  <2> QED BY <2>7, <2>8 DEF SignInInv
<1>2. SignInInv /\ [ChatGPT!Next]_ChatGPT!vars => SignInInv'
  <2> SUFFICES ASSUME SignInInv, [ChatGPT!Next]_ChatGPT!vars PROVE SignInInv'
    OBVIOUS
  <2>1. CASE UNCHANGED ChatGPT!vars
    <3>1. UNCHANGED <<session, codes, lapsed, approved, issued, good, request, inflight, overlap,
                      expiries>>
      BY <2>1 DEF ChatGPT!vars
    <3>2. SignInTypes'
      BY <3>1 DEF SignInInv, SignInTypes, Known
    <3>3. /\ StatusAlone' <=> StatusAlone
          /\ TokenKept' <=> TokenKept
          /\ \A r \in Requests : SignInOK(r)' <=> SignInOK(r)
      BY <3>1
      DEF StatusAlone, TokenKept, SignInOK, HasData, ChatGPT!Active, ChatGPT!Unguarded
    <3> QED BY <3>1, <3>2, <3>3 DEF SignInInv
  <2> QED BY <2>1, ArriveStep, JoinStep, SignInLoadStep, CodeStep, SignInPollStep, ExchangeStep,
       SignInRefreshStep, SignInStoreStep,
       OutsideStep DEF ChatGPT!Next
<1>3. SignInInv => ChatGPT!TypeOK /\ ChatGPT!CallsKeepTheSession
  <2> SUFFICES ASSUME SignInInv PROVE ChatGPT!TypeOK /\ ChatGPT!CallsKeepTheSession
    OBVIOUS
  <2>1. codes \in Nat /\ issued \in Nat
    BY DEF SignInInv, SignInTypes
  <2>2. \A x \in SessionData : Known(x) => x \in [code : 0 .. codes, token : 0 .. issued, fresh : BOOLEAN]
    BY <2>1 DEF SessionData, Known
  <2>3. session \in [code : 0 .. codes, token : 0 .. issued, fresh : BOOLEAN]
    BY <2>2 DEF SignInInv, SignInTypes
  <2>4. ASSUME NEW r \in Requests
        PROVE  /\ request[r].kind \in ChatGPT!Kinds
               /\ request[r].pc \in ChatGPT!Ended \cup {"load", "code", "poll", "exchange", "refresh",
                                                         "save", "delete", "join"}
               /\ request[r].data \in [code : 0 .. codes, token : 0 .. issued, fresh : BOOLEAN]
               /\ request[r].shows \in 0 .. codes
    <3>1. request[r] \in SignInRequest /\ Known(request[r].data) /\ request[r].shows <= codes
      BY DEF SignInInv, SignInTypes
    <3>2. request[r].data \in SessionData /\ request[r].shows \in Nat
      BY <3>1 DEF SignInRequest
    <3> QED BY <2>1, <2>2, <3>1, <3>2 DEF SignInRequest, SignInSteps, ChatGPT!Ended
  <2>5. ChatGPT!TypeOK
    BY <2>1, <2>3, <2>4 DEF SignInInv, SignInTypes, ChatGPT!TypeOK
  <2>6. ChatGPT!CallsKeepTheSession
    BY DEF SignInInv, SignInOK, TokenKept, ChatGPT!CallsKeepTheSession, ChatGPT!At
  <2> QED BY <2>5, <2>6
<1> QED BY <1>1, <1>2, <1>3, PTL DEF ChatGPT!Spec

-----------------------------------------------------------------------------
(* Live voice sessions. *)

VoiceBounds == Starts \cap Closes = {} /\ MaxFaults \in Nat

StartPC == {"new", "queued", "tokens", "replace", "launch", "begin", "answer", "undo", "ok", "failed"}
CloseRecord == [pc : {"new", "queued", "wait", "forget", "done"}, targets : SUBSET Starts,
                logout : BOOLEAN]
VoiceTypes ==
  /\ start \in [Starts -> StartPC] /\ close \in [Closes -> CloseRecord]
  /\ queue \in Seq(Starts \cup Closes) /\ managed \in SUBSET Starts /\ late \in SUBSET Starts
  /\ process \in [Starts -> {"none", "running", "stopped"}]
  /\ closing \in [Starts -> {"no", "begun", "over"}]
  /\ signedIn \in BOOLEAN /\ pending \in BOOLEAN
  /\ confirm \in [Confirms -> {"new", "run", "done", "refused", "failed"}]
  /\ faults \in 0 .. MaxFaults

\* The line of the owner: who waits is in it, who works is its head.
InLine(x) == \E i \in 1 .. Len(queue) : queue[i] = x
First(x) == Len(queue) > 0 /\ queue[1] = x
Early == {"new", "queued", "tokens", "replace", "launch"}
Making == {"replace", "launch", "begin", "answer"}
Working == {"tokens", "undo"} \cup Making
LineOK ==
  /\ \A s \in Starts : /\ start[s] = "queued" => InLine(s)
                       /\ start[s] \in Working => First(s)
  /\ \A c \in Closes : /\ close[c].pc = "queued" => InLine(c)
                       /\ close[c].pc = "wait" => First(c)
                       /\ close[c].pc = "forget" => close[c].logout

\* A session is open in the hands of its start or of the map.
IsOpen(s) == process[s] = "running" /\ closing[s] = "no"
SessionOK(s) ==
  /\ start[s] \in Early => process[s] = "none" /\ closing[s] = "no"
  /\ start[s] = "undo" => closing[s] # "no"
  /\ start[s] = "failed" => ~IsOpen(s)
  /\ s \in managed => start[s] = "ok" /\ closing[s] # "over"
  /\ start[s] = "ok" /\ IsOpen(s) => s \in managed
OneOK ==
  /\ \A s \in Starts : start[s] \in Making => managed = {}
  /\ \A s, t \in managed : s = t
\* From a logout on, what is open or being opened got its tokens during it.
Leaving == ~signedIn \/ \E c \in Closes : close[c].logout /\ close[c].pc \in {"wait", "forget"}
LateOK == Leaving => \A s \in Starts : IsOpen(s) \/ start[s] \in Making => s \in late

\* An action waits, or one confirmation has it.
Has(k) == confirm[k] \in {"run", "done"}
ConfirmOK ==
  /\ pending => \A k \in Confirms : ~Has(k)
  /\ ~pending => \E k \in Confirms : Has(k)
  /\ \A k, l \in Confirms : Has(k) /\ Has(l) => k = l

VoiceInv ==
  /\ VoiceTypes /\ LineOK /\ OneOK /\ LateOK /\ ConfirmOK
  /\ \A s \in Starts : SessionOK(s)

\* Joining and leaving the line.
LEMMA JoinsLine ==
  ASSUME VoiceInv, NEW e \in Starts \cup Closes, queue' = Append(queue, e)
  PROVE  /\ queue' \in Seq(Starts \cup Closes) /\ InLine(e)'
         /\ \A x : InLine(x) => InLine(x)'
         /\ \A x : First(x) => First(x)'
<1>1. queue \in Seq(Starts \cup Closes)
  BY DEF VoiceInv, VoiceTypes
<1>2. /\ queue' \in Seq(Starts \cup Closes) /\ Len(queue') = Len(queue) + 1 /\ Len(queue) \in Nat
      /\ queue'[Len(queue) + 1] = e /\ \A i \in 1 .. Len(queue) : queue'[i] = queue[i]
  BY <1>1
<1>3. InLine(e)'
  BY <1>2 DEF InLine
<1>4. \A x : InLine(x) => InLine(x)'
  BY <1>2 DEF InLine
<1>5. \A x : First(x) => First(x)'
  BY <1>2 DEF First
<1> QED BY <1>2, <1>3, <1>4, <1>5

LEMMA LeavesLine ==
  ASSUME VoiceInv, NEW e, First(e), Voice!Leaves
  PROVE  /\ queue' \in Seq(Starts \cup Closes)
         /\ \A x : InLine(x) /\ x # e => InLine(x)'
         /\ \A x : First(x) => x = e
<1>1. queue \in Seq(Starts \cup Closes) /\ queue' = Tail(queue) /\ queue # << >> /\ queue[1] = e
  BY DEF VoiceInv, VoiceTypes, Voice!Leaves, First
<1>2. /\ queue' \in Seq(Starts \cup Closes) /\ Len(queue') = Len(queue) - 1 /\ Len(queue) \in Nat
      /\ \A i \in 1 .. Len(queue) - 1 : queue'[i] = queue[i + 1]
  BY <1>1
<1>3. ASSUME NEW x, InLine(x), x # e PROVE InLine(x)'
  <2>1. PICK i \in 1 .. Len(queue) : queue[i] = x
    BY <1>3 DEF InLine
  <2>2. i # 1 /\ i - 1 \in 1 .. Len(queue') /\ queue'[i - 1] = x
    BY <1>1, <1>2, <1>3, <2>1
  <2> QED BY <2>2 DEF InLine
<1> QED BY <1>1, <1>2, <1>3 DEF First

LEMMA HasLockIs ==
  ASSUME VoiceInv, NEW x, InLine(x), Voice!HasLock(x)
  PROVE  First(x)
<1>1. queue \in Seq(Starts \cup Closes) /\ Head(queue) = x
  BY DEF VoiceInv, VoiceTypes, Voice!HasLock
<1>2. Len(queue) \in Nat /\ Len(queue) > 0 /\ queue # << >>
  BY <1>1 DEF InLine
<1> QED BY <1>1, <1>2 DEF First

\* One works at a time.
LEMMA OneWorks ==
  ASSUME VoiceBounds, VoiceInv, NEW x, First(x)
  PROVE  /\ \A s \in Starts : start[s] \in Working => s = x
         /\ \A c \in Closes : close[c].pc = "wait" => c = x
BY DEF VoiceInv, LineOK, First

\* Whether the line is kept when a start or a close gets on.
LineMoves(x, queued, before, after) ==
  \/ queue' = Append(queue, x) /\ queued /\ ~before /\ ~after
  \/ queue' = queue /\ ~queued /\ (after => First(x))
  \/ Voice!Leaves /\ First(x) /\ ~queued /\ ~after

LEMMA StartsLine ==
  ASSUME VoiceBounds, VoiceInv, NEW s \in Starts, NEW pc \in StartPC,
         start' = [start EXCEPT ![s] = pc], close' = close,
         LineMoves(s, pc = "queued", start[s] \in Working, pc \in Working)
  PROVE  LineOK' /\ queue' \in Seq(Starts \cup Closes)
<1>1. /\ start'[s] = pc /\ \A t \in Starts : t # s => start'[t] = start[t]
      /\ LineOK /\ queue \in Seq(Starts \cup Closes)
  BY DEF VoiceInv, VoiceTypes
<1>2. CASE queue' = Append(queue, s) /\ pc = "queued" /\ pc \notin Working
  BY <1>1, <1>2, JoinsLine DEF LineOK
<1>3. CASE queue' = queue /\ pc # "queued" /\ (pc \in Working => First(s))
  <2>1. \A x : (InLine(x)' <=> InLine(x)) /\ (First(x)' <=> First(x))
    BY <1>3 DEF InLine, First
  <2> QED BY <1>1, <1>3, <2>1 DEF LineOK
<1>4. CASE Voice!Leaves /\ First(s) /\ pc # "queued" /\ pc \notin Working
  <2>1. /\ \A t \in Starts : t # s => start[t] \notin Working
        /\ \A c \in Closes : close[c].pc # "wait" /\ c # s
    BY <1>4, OneWorks DEF VoiceBounds
  <2> QED BY <1>1, <1>4, <2>1, LeavesLine DEF LineOK
<1> QED BY <1>2, <1>3, <1>4 DEF LineMoves

LEMMA ClosesLine ==
  ASSUME VoiceBounds, VoiceInv, NEW c \in Closes, NEW new \in CloseRecord,
         close' = [close EXCEPT ![c] = new], start' = start,
         new.pc = "forget" => new.logout,
         LineMoves(c, new.pc = "queued", close[c].pc = "wait", new.pc = "wait")
  PROVE  LineOK' /\ queue' \in Seq(Starts \cup Closes)
<1>1. /\ close'[c] = new /\ \A d \in Closes : d # c => close'[d] = close[d]
      /\ LineOK /\ queue \in Seq(Starts \cup Closes)
  BY DEF VoiceInv, VoiceTypes
<1>2. CASE queue' = Append(queue, c) /\ new.pc = "queued"
  BY <1>1, <1>2, JoinsLine DEF LineOK
<1>3. CASE queue' = queue /\ new.pc # "queued" /\ (new.pc = "wait" => First(c))
  <2>1. \A x : (InLine(x)' <=> InLine(x)) /\ (First(x)' <=> First(x))
    BY <1>3 DEF InLine, First
  <2> QED BY <1>1, <1>3, <2>1 DEF LineOK
<1>4. CASE Voice!Leaves /\ First(c) /\ new.pc # "queued" /\ new.pc # "wait"
  <2>1. /\ \A s \in Starts : start[s] \notin Working /\ s # c
        /\ \A d \in Closes : d # c => close[d].pc # "wait"
    BY <1>4, OneWorks DEF VoiceBounds
  <2> QED BY <1>1, <1>4, <2>1, LeavesLine DEF LineOK
<1> QED BY <1>2, <1>3, <1>4 DEF LineMoves

\* What a step may do to a session that it does not start.
Keeps(t) ==
  /\ start[t] \in Early => process'[t] = process[t] /\ closing'[t] = closing[t]
  /\ closing[t] # "no" => closing'[t] # "no"
  /\ IsOpen(t)' => IsOpen(t)
  /\ t \in managed' => t \in managed /\ closing'[t] # "over"
  /\ t \in managed /\ t \notin managed' => ~IsOpen(t)'

SessionTypes ==
  /\ managed \in SUBSET Starts /\ late \in SUBSET Starts
  /\ process \in [Starts -> {"none", "running", "stopped"}]
  /\ closing \in [Starts -> {"no", "begun", "over"}]
  /\ faults \in 0 .. MaxFaults

LEMMA KeptSession ==
  ASSUME VoiceInv, NEW t \in Starts, start'[t] = start[t], Keeps(t)
  PROVE  SessionOK(t)'
<1>1. SessionOK(t)
  BY DEF VoiceInv
<1> QED BY <1>1 DEF SessionOK, Keeps, Early

\* Nothing is opened that was not being opened.
LEMMA NothingOpens ==
  ASSUME VoiceInv, managed' \subseteq managed, late \subseteq late', Leaving' => Leaving,
         \A t \in Starts : start'[t] \in Making => start[t] \in Making,
         \A t \in Starts : IsOpen(t)' => IsOpen(t) \/ start[t] \in Making
  PROVE  OneOK' /\ LateOK'
<1>1. OneOK'
  BY DEF VoiceInv, OneOK
<1>2. LateOK'
  BY DEF VoiceInv, LateOK
<1> QED BY <1>1, <1>2

LEMMA StartSteps ==
  ASSUME VoiceBounds, VoiceInv, NEW s \in Starts, NEW pc \in StartPC,
         start' = [start EXCEPT ![s] = pc],
         UNCHANGED <<close, signedIn, pending, confirm>>, SessionTypes',
         LineMoves(s, pc = "queued", start[s] \in Working, pc \in Working),
         OneOK', LateOK', SessionOK(s)', \A t \in Starts \ {s} : Keeps(t)
  PROVE  VoiceInv'
<1>1. VoiceTypes /\ ConfirmOK
  BY DEF VoiceInv
<1>2. LineOK' /\ queue' \in Seq(Starts \cup Closes)
  BY StartsLine
<1>3. VoiceTypes'
  BY <1>1, <1>2 DEF VoiceTypes, SessionTypes
<1>4. ConfirmOK'
  BY <1>1 DEF ConfirmOK, Has
<1>5. ASSUME NEW t \in Starts PROVE SessionOK(t)'
  <2>1. CASE t = s
    BY <2>1
  <2>2. CASE t # s
    <3>1. start'[t] = start[t]
      BY <1>1, <2>2 DEF VoiceTypes
    <3> QED BY <2>2, <3>1, KeptSession
  <2> QED BY <2>1, <2>2
<1> QED BY <1>2, <1>3, <1>4, <1>5 DEF VoiceInv

LEMMA CloseSteps ==
  ASSUME VoiceBounds, VoiceInv, NEW c \in Closes, NEW new \in CloseRecord,
         close' = [close EXCEPT ![c] = new], new.pc = "forget" => new.logout,
         UNCHANGED <<start, pending, confirm>>, SessionTypes', signedIn' \in BOOLEAN,
         LineMoves(c, new.pc = "queued", close[c].pc = "wait", new.pc = "wait"),
         OneOK', LateOK', \A t \in Starts : Keeps(t)
  PROVE  VoiceInv'
<1>1. VoiceTypes /\ ConfirmOK
  BY DEF VoiceInv
<1>2. LineOK' /\ queue' \in Seq(Starts \cup Closes)
  BY ClosesLine
<1>3. VoiceTypes'
  BY <1>1, <1>2 DEF VoiceTypes, SessionTypes
<1>4. ConfirmOK'
  BY <1>1 DEF ConfirmOK, Has
<1>5. ASSUME NEW t \in Starts PROVE SessionOK(t)'
  BY KeptSession
<1> QED BY <1>2, <1>3, <1>4, <1>5 DEF VoiceInv

LEMMA SessionSteps ==
  ASSUME VoiceInv, UNCHANGED <<start, close, queue, signedIn, late, pending, confirm>>,
         SessionTypes', \A t \in Starts : Keeps(t), managed' \subseteq managed
  PROVE  VoiceInv'
<1>1. VoiceTypes /\ ConfirmOK /\ LineOK
  BY DEF VoiceInv
<1>2. VoiceTypes'
  BY <1>1 DEF VoiceTypes, SessionTypes
<1>3. LineOK' /\ (Leaving' => Leaving)
  BY <1>1 DEF LineOK, InLine, First, Leaving
<1>4. ConfirmOK'
  BY <1>1 DEF ConfirmOK, Has
<1>5. OneOK' /\ LateOK'
  BY <1>3, NothingOpens DEF Keeps
<1>6. \A t \in Starts : SessionOK(t)'
  BY KeptSession
<1> QED BY <1>2, <1>3, <1>4, <1>5, <1>6 DEF VoiceInv

LEMMA ConfirmSteps ==
  ASSUME VoiceInv,
         UNCHANGED <<start, close, queue, managed, process, closing, signedIn, late>>,
         ConfirmOK', pending' \in BOOLEAN, faults' \in 0 .. MaxFaults,
         confirm' \in [Confirms -> {"new", "run", "done", "refused", "failed"}]
  PROVE  VoiceInv'
<1>1. VoiceTypes /\ LineOK /\ OneOK /\ LateOK /\ \A s \in Starts : SessionOK(s)
  BY DEF VoiceInv
<1>2. VoiceTypes'
  BY <1>1 DEF VoiceTypes
<1>3. LineOK'
  BY <1>1 DEF LineOK, InLine, First
<1>4. OneOK' /\ LateOK'
  BY <1>1 DEF OneOK, LateOK, Leaving, IsOpen
<1>5. \A s \in Starts : SessionOK(s)'
  BY <1>1 DEF SessionOK, IsOpen
<1> QED BY <1>2, <1>3, <1>4, <1>5 DEF VoiceInv

\* A start that waits or works, and the sessions in its time.
LEMMA WorksAlone ==
  ASSUME VoiceBounds, VoiceInv, NEW s \in Starts, start[s] \in Working
  PROVE  /\ First(s) /\ s \notin managed
         /\ \A t \in Starts : start[t] \in Working => t = s
<1>1. First(s) /\ SessionOK(s)
  BY DEF VoiceInv, LineOK
<1>2. s \notin managed
  BY <1>1 DEF SessionOK, Working, Making
<1> QED BY <1>1, <1>2, OneWorks

\* The steps of a start that close no session.
LEMMA QuietStarts ==
  ASSUME VoiceBounds, VoiceInv, NEW s \in Starts, NEW pc \in StartPC,
         start' = [start EXCEPT ![s] = pc],
         UNCHANGED <<close, managed, process, closing, signedIn, late, pending, confirm, faults>>,
         LineMoves(s, pc = "queued", start[s] \in Working, pc \in Working),
         pc \in Making => start[s] \in Making, SessionOK(s)'
  PROVE  VoiceInv'
<1>1. VoiceTypes /\ \A t \in Starts : SessionOK(t)
  BY DEF VoiceInv
<1>2. start'[s] = pc /\ \A t \in Starts : t # s => start'[t] = start[t]
  BY <1>1 DEF VoiceTypes
<1>3. SessionTypes' /\ (Leaving' => Leaving) /\ \A t \in Starts : IsOpen(t)' => IsOpen(t)
  BY <1>1 DEF VoiceTypes, SessionTypes, Leaving, IsOpen
<1>4. \A t \in Starts : start'[t] \in Making => start[t] \in Making
  BY <1>2
<1>5. OneOK' /\ LateOK'
  BY <1>3, <1>4, NothingOpens
<1>6. \A t \in Starts : Keeps(t)
  BY <1>1, <1>3 DEF Keeps, SessionOK
<1> QED BY <1>3, <1>5, <1>6, StartSteps

LEMMA RequestStartKeeps ==
  ASSUME VoiceBounds, VoiceInv, NEW s \in Starts, Voice!RequestStart(s)
  PROVE  VoiceInv'
<1>1. /\ start[s] = "new" /\ start' = [start EXCEPT ![s] = "queued"] /\ queue' = Append(queue, s)
      /\ UNCHANGED <<close, managed, process, closing, signedIn, late, pending, confirm, faults>>
  BY
  DEF Voice!RequestStart, Voice!At, Voice!Goes, Voice!Enqueue, Voice!sessions,
      Voice!Confirmation
<1>2. VoiceTypes /\ SessionOK(s)
  BY DEF VoiceInv
<1>3. start'[s] = "queued"
  BY <1>1, <1>2 DEF VoiceTypes
<1>4. SessionOK(s)'
  BY <1>1, <1>2, <1>3 DEF SessionOK, IsOpen, Early
<1>5. LineMoves(s, "queued" = "queued", start[s] \in Working, "queued" \in Working)
  BY <1>1 DEF LineMoves, Working, Making
<1> QED BY <1>1, <1>4, <1>5, QuietStarts DEF StartPC, Making

LEMMA EnterKeeps ==
  ASSUME VoiceBounds, VoiceInv, NEW s \in Starts, Voice!Enter(s)
  PROVE  VoiceInv'
<1>1. /\ start[s] = "queued" /\ start' = [start EXCEPT ![s] = "tokens"] /\ Voice!HasLock(s)
      /\ UNCHANGED <<close, queue, managed, process, closing, signedIn, late, pending, confirm,
                     faults>>
  BY DEF Voice!Enter, Voice!At, Voice!Goes, Voice!sessions, Voice!Confirmation
<1>2. VoiceTypes /\ SessionOK(s) /\ InLine(s)
  BY <1>1 DEF VoiceInv, LineOK
<1>3. start'[s] = "tokens" /\ First(s)
  BY <1>1, <1>2, HasLockIs DEF VoiceTypes
<1>4. SessionOK(s)'
  BY <1>1, <1>2, <1>3 DEF SessionOK, IsOpen, Early
<1>5. LineMoves(s, "tokens" = "queued", start[s] \in Working, "tokens" \in Working)
  BY <1>1, <1>3 DEF LineMoves
<1> QED BY <1>1, <1>4, <1>5, QuietStarts DEF StartPC, Making

LEMMA ReplacedKeeps ==
  ASSUME VoiceBounds, VoiceInv, NEW s \in Starts, Voice!Replaced(s)
  PROVE  VoiceInv'
<1>1. /\ start[s] = "replace" /\ start' = [start EXCEPT ![s] = "launch"]
      /\ UNCHANGED <<close, queue, managed, process, closing, signedIn, late, pending, confirm,
                     faults>>
  BY DEF Voice!Replaced, Voice!At, Voice!Goes, Voice!sessions, Voice!Confirmation
<1>2. VoiceTypes /\ SessionOK(s)
  BY DEF VoiceInv
<1>3. start'[s] = "launch" /\ First(s)
  BY <1>1, <1>2, WorksAlone DEF VoiceTypes, Working, Making
<1>4. SessionOK(s)'
  BY <1>1, <1>2, <1>3 DEF SessionOK, IsOpen, Early
<1>5. LineMoves(s, "launch" = "queued", start[s] \in Working, "launch" \in Working)
  BY <1>1, <1>3 DEF LineMoves
<1> QED BY <1>1, <1>4, <1>5, QuietStarts DEF StartPC, Making

LEMMA UndoKeeps ==
  ASSUME VoiceBounds, VoiceInv, NEW s \in Starts, Voice!Undo(s)
  PROVE  VoiceInv'
<1>1. /\ start[s] = "undo" /\ start' = [start EXCEPT ![s] = "failed"] /\ Voice!Leaves
      /\ closing[s] = "over"
      /\ UNCHANGED <<close, managed, process, closing, signedIn, late, pending, confirm, faults>>
  BY DEF Voice!Undo, Voice!At, Voice!Goes, Voice!Over, Voice!sessions, Voice!Confirmation
<1>2. VoiceTypes /\ SessionOK(s)
  BY DEF VoiceInv
<1>3. start'[s] = "failed" /\ First(s)
  BY <1>1, <1>2, WorksAlone DEF VoiceTypes, Working, Making
<1>4. SessionOK(s)'
  BY <1>1, <1>2, <1>3 DEF SessionOK, IsOpen, Early
<1>5. LineMoves(s, "failed" = "queued", start[s] \in Working, "failed" \in Working)
  BY <1>1, <1>3 DEF LineMoves, Working, Making
<1> QED BY <1>1, <1>4, <1>5, QuietStarts DEF StartPC, Making

LEMMA PublishKeeps ==
  ASSUME VoiceBounds, VoiceInv, NEW s \in Starts, Voice!Publish(s)
  PROVE  VoiceInv'
<1>1. /\ start[s] = "answer" /\ Voice!Leaves
      /\ UNCHANGED <<close, process, closing, signedIn, late, pending, confirm, faults>>
  BY DEF Voice!Publish, Voice!At, Voice!Confirmation
<1>2. \/ closing[s] = "over" /\ start' = [start EXCEPT ![s] = "failed"] /\ managed' = managed
      \/ /\ closing[s] # "over" /\ start' = [start EXCEPT ![s] = "ok"]
         /\ managed' = managed \cup {s}
  BY DEF Voice!Publish, Voice!Goes, Voice!ClosedMeanwhile, Voice!Over
<1>3. VoiceTypes /\ SessionOK(s) /\ OneOK /\ LateOK
  BY DEF VoiceInv
<1>4. /\ First(s) /\ s \notin managed
      /\ \A t \in Starts : start[t] \in Working => t = s
  BY <1>1, WorksAlone DEF Working, Making
<1>5. CASE /\ closing[s] = "over" /\ start' = [start EXCEPT ![s] = "failed"]
           /\ managed' = managed
  <2>1. start'[s] = "failed"
    BY <1>3, <1>5 DEF VoiceTypes
  <2>2. SessionOK(s)'
    BY <1>1, <1>3, <1>4, <1>5, <2>1 DEF SessionOK, IsOpen, Early
  <2>3. LineMoves(s, "failed" = "queued", start[s] \in Working, "failed" \in Working)
    BY <1>1, <1>4 DEF LineMoves, Working, Making
  <2> QED BY <1>1, <1>5, <2>2, <2>3, QuietStarts DEF StartPC, Making
<1>6. CASE /\ closing[s] # "over" /\ start' = [start EXCEPT ![s] = "ok"]
           /\ managed' = managed \cup {s}
  <2>1. start'[s] = "ok" /\ \A t \in Starts : t # s => start'[t] = start[t]
    BY <1>3, <1>6 DEF VoiceTypes
  <2>2. managed = {} /\ managed' = {s}
    BY <1>1, <1>3, <1>6 DEF OneOK, Making
  <2>3. \A t \in Starts : start'[t] \notin Making
    BY <1>4, <2>1 DEF Working, Making
  <2>4. OneOK'
    BY <2>2, <2>3 DEF OneOK
  <2>5. Leaving' = Leaving /\ \A t \in Starts : IsOpen(t)' = IsOpen(t)
    BY <1>1 DEF Leaving, IsOpen
  <2>6. LateOK'
    BY <1>1, <1>3, <2>3, <2>5 DEF LateOK
  <2>7. SessionOK(s)'
    BY <1>1, <1>6, <2>1, <2>2 DEF SessionOK, Early
  <2>8. SessionTypes'
    BY <1>1, <1>3, <2>2 DEF VoiceTypes, SessionTypes
  <2>9. \A t \in Starts \ {s} : Keeps(t)
    BY <1>1, <2>2, <2>5 DEF Keeps
  <2>10. LineMoves(s, "ok" = "queued", start[s] \in Working, "ok" \in Working)
    BY <1>1, <1>4 DEF LineMoves, Working, Making
  <2> QED BY <1>1, <1>6, <2>4, <2>6, <2>7, <2>8, <2>9, <2>10, StartSteps DEF StartPC
<1> QED BY <1>2, <1>5, <1>6

LEMMA GetTokensKeeps ==
  ASSUME VoiceBounds, VoiceInv, NEW s \in Starts, Voice!GetTokens(s)
  PROVE  VoiceInv'
<1>1. start[s] = "tokens" /\ UNCHANGED <<close, process, signedIn, pending, confirm, faults>>
  BY DEF Voice!GetTokens, Voice!At, Voice!Confirmation
<1>2. VoiceTypes /\ OneOK /\ LateOK /\ \A t \in Starts : SessionOK(t)
  BY DEF VoiceInv
<1>3. /\ First(s) /\ s \notin managed
      /\ \A t \in Starts : start[t] \in Working => t = s
  BY <1>1, WorksAlone DEF Working, Making
<1>4. \A t \in Starts : IsOpen(t) => t \in managed
  <2> SUFFICES ASSUME NEW t \in Starts, IsOpen(t), t \notin managed PROVE FALSE
    OBVIOUS
  <2>1. SessionOK(t) /\ start[t] \in StartPC
    BY <1>2 DEF VoiceTypes
  <2>2. start[t] \in {"begin", "answer"}
    BY <2>1 DEF SessionOK, IsOpen, Early, StartPC
  <2>3. t = s
    BY <1>3, <2>2 DEF Working, Making
  <2> QED BY <1>1, <2>2, <2>3
<1>5. CASE signedIn
  <2>1. /\ start' = [start EXCEPT ![s] = "replace"] /\ queue' = queue /\ managed' = {}
        /\ closing' = [t \in Starts |-> IF t \in managed /\ closing[t] = "no" THEN "begun"
                                        ELSE closing[t]]
    BY <1>5 DEF Voice!GetTokens, Voice!Goes, Voice!Closed
  <2>2. late' = IF \E c \in Closes : close[c].logout /\ close[c].pc # "done"
                THEN late \cup {s} ELSE late
    BY <1>5 DEF Voice!GetTokens
  <2>3. start'[s] = "replace" /\ \A t \in Starts : t # s => start'[t] = start[t]
    BY <1>2, <2>1 DEF VoiceTypes
  <2>4. \A t \in Starts : ~IsOpen(t)'
    BY <1>1, <1>4, <2>1 DEF IsOpen
  <2>5. \A t \in Starts : start'[t] \in Making => t = s
    BY <1>3, <2>3 DEF Working
  <2>6. OneOK'
    BY <2>1 DEF OneOK
  <2>7. Leaving' => s \in late'
    BY <1>1, <1>5, <2>2 DEF Leaving
  <2>8. LateOK'
    BY <2>4, <2>5, <2>7 DEF LateOK
  <2>9. SessionOK(s)'
    BY <1>1, <1>2, <1>3, <2>1, <2>3 DEF SessionOK, IsOpen, Early
  <2>10. SessionTypes'
    BY <1>1, <1>2, <2>1, <2>2 DEF VoiceTypes, SessionTypes
  <2>11. \A t \in Starts \ {s} : Keeps(t)
    BY <1>1, <1>2, <2>1, <2>4 DEF Keeps, SessionOK, Early
  <2>12. LineMoves(s, "replace" = "queued", start[s] \in Working, "replace" \in Working)
    BY <1>3, <2>1 DEF LineMoves
  <2> QED BY <1>1, <2>1, <2>6, <2>8, <2>9, <2>10, <2>11, <2>12, StartSteps DEF StartPC
<1>6. CASE ~signedIn
  <2>1. /\ start' = [start EXCEPT ![s] = "failed"] /\ Voice!Leaves
        /\ UNCHANGED <<closing, managed, late>>
    BY <1>6 DEF Voice!GetTokens, Voice!Goes
  <2>2. start'[s] = "failed"
    BY <1>2, <2>1 DEF VoiceTypes
  <2>3. SessionOK(s)'
    BY <1>1, <1>2, <1>3, <2>1, <2>2 DEF SessionOK, IsOpen, Early
  <2>4. LineMoves(s, "failed" = "queued", start[s] \in Working, "failed" \in Working)
    BY <1>1, <1>3, <2>1 DEF LineMoves, Working, Making
  <2> QED BY <1>1, <2>1, <2>3, <2>4, QuietStarts DEF StartPC, Making
<1> QED BY <1>5, <1>6

\* The steps of a start that opens its session or gives it up.
LEMMA OpeningSteps ==
  ASSUME VoiceBounds, VoiceInv, NEW s \in Starts, NEW pc \in {"begin", "answer", "undo"},
         start[s] \in {"launch", "begin"}, start' = [start EXCEPT ![s] = pc],
         UNCHANGED <<close, queue, managed, signedIn, late, pending, confirm>>, SessionTypes',
         pc = "undo" => closing'[s] # "no",
         \A t \in Starts \ {s} : process'[t] = process[t] /\ closing'[t] = closing[t]
  PROVE  VoiceInv'
<1>1. /\ VoiceTypes /\ First(s) /\ s \notin managed
      /\ \A t \in Starts : SessionOK(t)
  BY WorksAlone DEF VoiceInv, Working, Making
<1>2. start'[s] = pc /\ \A t \in Starts : t # s => start'[t] = start[t]
  BY <1>1 DEF VoiceTypes
<1>3. Leaving' => Leaving
  BY DEF Leaving
<1>4. \A t \in Starts : start'[t] \in Making => start[t] \in Making
  BY <1>2 DEF Making
<1>5. \A t \in Starts : IsOpen(t)' => IsOpen(t) \/ start[t] \in Making
  BY DEF IsOpen, Making
<1>6. OneOK' /\ LateOK'
  BY <1>3, <1>4, <1>5, NothingOpens
<1>7. SessionOK(s)'
  BY <1>1, <1>2 DEF SessionOK, Early
<1>8. \A t \in Starts \ {s} : Keeps(t)
  BY <1>1 DEF Keeps, SessionOK, IsOpen
<1>9. LineMoves(s, pc = "queued", start[s] \in Working, pc \in Working)
  BY <1>1 DEF LineMoves
<1>10. pc \in StartPC
  BY DEF StartPC
<1> QED BY <1>6, <1>7, <1>8, <1>9, <1>10, StartSteps

\* What the close of sessions leaves.
LEMMA ClosedSessions ==
  ASSUME VoiceInv, NEW set \in SUBSET Starts, Voice!Closed(set)
  PROVE  /\ closing' \in [Starts -> {"no", "begun", "over"}]
         /\ \A t \in set : closing'[t] # "no"
         /\ \A t \in Starts : closing[t] # "no" => closing'[t] = closing[t]
         /\ \A t \in Starts \ set : closing'[t] = closing[t]
         /\ \A t \in Starts : closing'[t] = "over" => closing[t] = "over"
<1>1. closing \in [Starts -> {"no", "begun", "over"}]
  BY DEF VoiceInv, VoiceTypes
<1>2. closing' = [t \in Starts |-> IF t \in set /\ closing[t] = "no" THEN "begun" ELSE closing[t]]
  BY DEF Voice!Closed
<1> QED BY <1>1, <1>2

LEMMA Faulted ==
  ASSUME VoiceBounds, VoiceInv, Voice!Fault
  PROVE  faults' \in 0 .. MaxFaults
BY DEF VoiceBounds, VoiceInv, VoiceTypes, Voice!Fault

LEMMA LaunchKeeps ==
  ASSUME VoiceBounds, VoiceInv, NEW s \in Starts, Voice!Launch(s)
  PROVE  VoiceInv'
<1>1. /\ start[s] = "launch"
      /\ UNCHANGED <<close, queue, managed, signedIn, late, pending, confirm>>
  BY DEF Voice!Launch, Voice!At, Voice!Confirmation
<1>2. VoiceTypes
  BY DEF VoiceInv
<1>3. CASE /\ start' = [start EXCEPT ![s] = "begin"]
           /\ process' = [process EXCEPT ![s] = "running"] /\ UNCHANGED <<closing, faults>>
  <2>1. SessionTypes' /\ \A t \in Starts \ {s} : process'[t] = process[t]
    BY <1>1, <1>2, <1>3 DEF VoiceTypes, SessionTypes
  <2> QED BY <1>1, <1>3, <2>1, OpeningSteps
<1>4. CASE /\ start' = [start EXCEPT ![s] = "undo"] /\ Voice!Closed({s}) /\ Voice!Fault
           /\ UNCHANGED process
  <2>1. SessionTypes'
    BY <1>1, <1>2, <1>4, ClosedSessions, Faulted DEF VoiceTypes, SessionTypes
  <2>2. closing'[s] # "no" /\ \A t \in Starts \ {s} : closing'[t] = closing[t]
    BY <1>4, ClosedSessions
  <2> QED BY <1>1, <1>4, <2>1, <2>2, OpeningSteps
<1> QED BY <1>3, <1>4 DEF Voice!Launch, Voice!Goes

LEMMA HandshakeKeeps ==
  ASSUME VoiceBounds, VoiceInv, NEW s \in Starts, Voice!Handshake(s)
  PROVE  VoiceInv'
<1>1. /\ start[s] = "begin"
      /\ UNCHANGED <<close, queue, managed, process, signedIn, late, pending, confirm>>
  BY DEF Voice!Handshake, Voice!At, Voice!Confirmation
<1>2. VoiceTypes
  BY DEF VoiceInv
<1>3. CASE /\ UNCHANGED <<closing, faults>>
           /\ \/ start' = [start EXCEPT ![s] = "answer"]
              \/ closing[s] = "over" /\ start' = [start EXCEPT ![s] = "undo"]
  <2>1. SessionTypes'
    BY <1>1, <1>2, <1>3 DEF VoiceTypes, SessionTypes
  <2>2. CASE start' = [start EXCEPT ![s] = "answer"]
    BY <1>1, <1>3, <2>1, <2>2, OpeningSteps
  <2>3. CASE closing[s] = "over" /\ start' = [start EXCEPT ![s] = "undo"]
    BY <1>1, <1>3, <2>1, <2>3, OpeningSteps
  <2> QED BY <1>3, <2>2, <2>3
<1>4. CASE start' = [start EXCEPT ![s] = "undo"] /\ Voice!Closed({s}) /\ Voice!Fault
  <2>1. SessionTypes'
    BY <1>1, <1>2, <1>4, ClosedSessions, Faulted DEF VoiceTypes, SessionTypes
  <2>2. closing'[s] # "no" /\ \A t \in Starts \ {s} : closing'[t] = closing[t]
    BY <1>4, ClosedSessions
  <2> QED BY <1>1, <1>4, <2>1, <2>2, OpeningSteps
<1> QED BY <1>3, <1>4 DEF Voice!Handshake, Voice!Goes, Voice!Over

LEMMA ExpireKeeps ==
  ASSUME VoiceBounds, VoiceInv, NEW s \in Starts, Voice!Expire(s)
  PROVE  VoiceInv'
<1>1. /\ s \in managed /\ managed' = managed \ {s} /\ Voice!Closed({s})
      /\ UNCHANGED <<start, close, queue, process, signedIn, late, pending, confirm, faults>>
  BY DEF Voice!Expire, Voice!requests, Voice!Confirmation
<1>2. VoiceTypes /\ \A t \in Starts : SessionOK(t)
  BY DEF VoiceInv
<1>3. /\ closing' \in [Starts -> {"no", "begun", "over"}] /\ closing'[s] # "no"
      /\ \A t \in Starts \ {s} : closing'[t] = closing[t]
  BY <1>1, ClosedSessions
<1>4. SessionTypes'
  BY <1>1, <1>2, <1>3 DEF VoiceTypes, SessionTypes
<1>5. Keeps(s)
  BY <1>1, <1>2, <1>3 DEF Keeps, SessionOK, IsOpen, Early
<1>6. \A t \in Starts \ {s} : Keeps(t)
  BY <1>1, <1>2, <1>3 DEF Keeps, SessionOK, IsOpen
<1> QED BY <1>1, <1>4, <1>5, <1>6, SessionSteps

LEMMA EndCloseKeeps ==
  ASSUME VoiceBounds, VoiceInv, NEW s \in Starts, Voice!EndClose(s)
  PROVE  VoiceInv'
<1>1. /\ closing[s] = "begun" /\ closing' = [closing EXCEPT ![s] = "over"]
      /\ process' = [process EXCEPT ![s] = "stopped"] /\ managed' = managed \ {s}
      /\ UNCHANGED <<start, close, queue, signedIn, late, pending, confirm, faults>>
  BY DEF Voice!EndClose, Voice!requests, Voice!Confirmation
<1>2. VoiceTypes /\ \A t \in Starts : SessionOK(t)
  BY DEF VoiceInv
<1>3. /\ closing'[s] = "over" /\ process'[s] = "stopped"
      /\ \A t \in Starts \ {s} : closing'[t] = closing[t] /\ process'[t] = process[t]
  BY <1>1, <1>2 DEF VoiceTypes
<1>4. SessionTypes'
  BY <1>1, <1>2 DEF VoiceTypes, SessionTypes
<1>5. Keeps(s)
  BY <1>1, <1>2, <1>3 DEF Keeps, SessionOK, IsOpen, Early
<1>6. \A t \in Starts \ {s} : Keeps(t)
  BY <1>1, <1>2, <1>3 DEF Keeps, SessionOK, IsOpen
<1> QED BY <1>1, <1>4, <1>5, <1>6, SessionSteps

LEMMA StopsByItselfKeeps ==
  ASSUME VoiceBounds, VoiceInv, NEW s \in Starts, Voice!StopsByItself(s)
  PROVE  VoiceInv'
<1>1. /\ process[s] = "running" /\ closing[s] = "no" /\ Voice!Fault /\ Voice!Closed({s})
      /\ process' \in {process, [process EXCEPT ![s] = "stopped"]}
      /\ UNCHANGED <<start, close, queue, managed, signedIn, late, pending, confirm>>
  BY DEF Voice!StopsByItself, Voice!requests, Voice!Confirmation
<1>2. VoiceTypes /\ \A t \in Starts : SessionOK(t)
  BY DEF VoiceInv
<1>3. /\ closing' \in [Starts -> {"no", "begun", "over"}] /\ closing'[s] # "no"
      /\ \A t \in Starts \ {s} : closing'[t] = closing[t]
      /\ closing'[s] # "over"
  BY <1>1, ClosedSessions
<1>4. process' \in [Starts -> {"none", "running", "stopped"}]
  BY <1>1, <1>2 DEF VoiceTypes
<1>5. \A t \in Starts \ {s} : process'[t] = process[t]
  BY <1>1, <1>2 DEF VoiceTypes
<1>6. SessionTypes'
  BY <1>1, <1>2, <1>3, <1>4, Faulted DEF VoiceTypes, SessionTypes
<1>7. Keeps(s)
  BY <1>1, <1>2, <1>3 DEF Keeps, SessionOK, IsOpen, Early
<1>8. \A t \in Starts \ {s} : Keeps(t)
  BY <1>1, <1>2, <1>3, <1>5 DEF Keeps, SessionOK, IsOpen
<1> QED BY <1>1, <1>6, <1>7, <1>8, SessionSteps

LEMMA RequestCloseKeeps ==
  ASSUME VoiceBounds, VoiceInv, NEW c \in Closes, NEW targets \in SUBSET Starts,
         NEW logout \in BOOLEAN, Voice!RequestClose(c, targets, logout)
  PROVE  VoiceInv'
<1> DEFINE new == [pc |-> "queued", targets |-> targets, logout |-> logout]
<1>1. /\ close[c].pc = "new" /\ queue' = Append(queue, c) /\ close' = [close EXCEPT ![c] = new]
      /\ UNCHANGED <<start, managed, process, closing, signedIn, late, pending, confirm, faults>>
  BY DEF Voice!RequestClose, Voice!Enqueue, Voice!sessions, Voice!Confirmation
<1>2. new \in CloseRecord /\ new.pc = "queued"
  BY DEF CloseRecord
<1> HIDE DEF new
<1>3. VoiceTypes /\ \A t \in Starts : SessionOK(t)
  BY DEF VoiceInv
<1>4. close'[c] = new /\ \A d \in Closes : d # c => close'[d] = close[d]
  BY <1>1, <1>3 DEF VoiceTypes
<1>5. Leaving' => Leaving
  BY <1>1, <1>2, <1>4 DEF Leaving
<1>6. SessionTypes' /\ signedIn' \in BOOLEAN /\ \A t \in Starts : IsOpen(t)' => IsOpen(t)
  BY <1>1, <1>3 DEF VoiceTypes, SessionTypes, IsOpen
<1>7. OneOK' /\ LateOK'
  BY <1>1, <1>5, <1>6, NothingOpens
<1>8. \A t \in Starts : Keeps(t)
  BY <1>1, <1>3, <1>6 DEF Keeps, SessionOK
<1>9. LineMoves(c, new.pc = "queued", close[c].pc = "wait", new.pc = "wait")
  BY <1>1, <1>2 DEF LineMoves
<1> QED BY <1>1, <1>2, <1>6, <1>7, <1>8, <1>9, CloseSteps

LEMMA CloseKeeps ==
  ASSUME VoiceBounds, VoiceInv, NEW c \in Closes, Voice!Close(c)
  PROVE  VoiceInv'
<1> DEFINE set == IF close[c].logout THEN managed ELSE managed \cap close[c].targets
           new == [[close[c] EXCEPT !.pc = "wait"] EXCEPT !.targets = set]
<1>1. VoiceTypes /\ LineOK /\ OneOK /\ \A t \in Starts : SessionOK(t)
  BY DEF VoiceInv
<1>2. set \in SUBSET managed /\ set \in SUBSET Starts /\ (close[c].logout => set = managed)
  BY <1>1 DEF VoiceTypes
<1>3. close[c] \in CloseRecord
  BY <1>1 DEF VoiceTypes
<1>4. new \in CloseRecord /\ new.pc = "wait" /\ new.logout = close[c].logout
  BY <1>2, <1>3 DEF CloseRecord
<1>5. /\ close[c].pc = "queued" /\ Voice!HasLock(c) /\ managed' = managed \ set
      /\ Voice!Closed(set)
      /\ UNCHANGED <<start, queue, process, signedIn, late, pending, confirm, faults>>
  BY DEF Voice!Close, Voice!Confirmation
<1>6. close' = [close EXCEPT ![c] = new]
  BY <1>1, <1>3 DEF Voice!Close, VoiceTypes, CloseRecord
<1> HIDE DEF set, new
<1>7. close'[c] = new /\ \A d \in Closes : d # c => close'[d] = close[d]
  BY <1>1, <1>6 DEF VoiceTypes
<1>8. First(c)
  BY <1>1, <1>5, HasLockIs DEF LineOK
<1>9. \A t \in Starts : start[t] \notin Working
  BY <1>8, OneWorks DEF VoiceBounds
<1>10. /\ closing' \in [Starts -> {"no", "begun", "over"}] /\ \A t \in set : closing'[t] # "no"
       /\ \A t \in Starts : closing[t] # "no" => closing'[t] = closing[t]
       /\ \A t \in Starts \ set : closing'[t] = closing[t]
       /\ \A t \in Starts : closing'[t] = "over" => closing[t] = "over"
  BY <1>2, <1>5, ClosedSessions
<1>11. SessionTypes' /\ signedIn' \in BOOLEAN
  BY <1>1, <1>5, <1>10 DEF VoiceTypes, SessionTypes
<1>12. \A t \in Starts : IsOpen(t)' => IsOpen(t) /\ t \notin set
  BY <1>5, <1>10 DEF IsOpen
<1>13. \A t \in Starts : Keeps(t)
  BY <1>1, <1>2, <1>5, <1>10, <1>12 DEF Keeps, SessionOK, Early
<1>14. OneOK'
  BY <1>1, <1>5 DEF OneOK
<1>15. LateOK'
  <2>1. CASE close[c].logout
    <3> SUFFICES ASSUME NEW t \in Starts, IsOpen(t)' \/ start'[t] \in Making PROVE FALSE
      BY DEF LateOK
    <3>1. IsOpen(t) /\ t \notin managed
      BY <1>2, <1>5, <1>9, <1>12, <2>1 DEF Working
    <3>2. start[t] \in {"begin", "answer"}
      BY <1>1, <3>1 DEF VoiceTypes, StartPC, SessionOK, IsOpen, Early
    <3> QED BY <1>9, <3>2 DEF Working, Making
  <2>2. CASE ~close[c].logout
    <3>1. Leaving' => Leaving
      BY <1>4, <1>5, <1>7, <2>2 DEF Leaving
    <3> QED BY <1>5, <1>12, <3>1, NothingOpens
  <2> QED BY <2>1, <2>2
<1>16. LineMoves(c, new.pc = "queued", close[c].pc = "wait", new.pc = "wait")
  BY <1>4, <1>5, <1>8 DEF LineMoves
<1> QED BY <1>4, <1>5, <1>6, <1>11, <1>13, <1>14, <1>15, <1>16, CloseSteps

LEMMA EndOfCloseKeeps ==
  ASSUME VoiceBounds, VoiceInv, NEW c \in Closes, Voice!EndOfClose(c)
  PROVE  VoiceInv'
<1> DEFINE pc == IF close[c].logout THEN "forget" ELSE "done"
           new == [close[c] EXCEPT !.pc = pc]
<1>1. VoiceTypes /\ LineOK /\ \A t \in Starts : SessionOK(t)
  BY DEF VoiceInv
<1>2. close[c] \in CloseRecord
  BY <1>1 DEF VoiceTypes
<1>3. pc \in {"forget", "done"} /\ (pc = "forget" => close[c].logout)
  OBVIOUS
<1>4. /\ close[c].pc = "wait" /\ Voice!Leaves /\ close' = [close EXCEPT ![c] = new]
      /\ UNCHANGED <<start, managed, process, closing, signedIn, late, pending, confirm, faults>>
  BY DEF Voice!EndOfClose, Voice!sessions, Voice!Confirmation
<1> HIDE DEF pc
<1>5. new \in CloseRecord /\ new.pc = pc /\ new.logout = close[c].logout
  BY <1>2, <1>3 DEF CloseRecord
<1> HIDE DEF new
<1>6. close'[c] = new /\ \A d \in Closes : d # c => close'[d] = close[d]
  BY <1>1, <1>4 DEF VoiceTypes
<1>7. First(c)
  BY <1>1, <1>4 DEF LineOK
<1>8. Leaving' => Leaving
  BY <1>4, <1>5, <1>6 DEF Leaving
<1>9. SessionTypes' /\ signedIn' \in BOOLEAN /\ \A t \in Starts : IsOpen(t)' => IsOpen(t)
  BY <1>1, <1>4 DEF VoiceTypes, SessionTypes, IsOpen
<1>10. OneOK' /\ LateOK'
  BY <1>4, <1>8, <1>9, NothingOpens
<1>11. \A t \in Starts : Keeps(t)
  BY <1>1, <1>4, <1>9 DEF Keeps, SessionOK
<1>12. LineMoves(c, new.pc = "queued", close[c].pc = "wait", new.pc = "wait")
  BY <1>3, <1>4, <1>5, <1>7 DEF LineMoves
<1> QED BY <1>3, <1>4, <1>5, <1>9, <1>10, <1>11, <1>12, CloseSteps

LEMMA ForgetKeeps ==
  ASSUME VoiceBounds, VoiceInv, NEW c \in Closes, Voice!Forget(c)
  PROVE  VoiceInv'
<1> DEFINE new == [close[c] EXCEPT !.pc = "done"]
<1>1. VoiceTypes /\ LineOK /\ \A t \in Starts : SessionOK(t)
  BY DEF VoiceInv
<1>2. close[c] \in CloseRecord
  BY <1>1 DEF VoiceTypes
<1>3. /\ close[c].pc = "forget" /\ signedIn' = FALSE /\ close' = [close EXCEPT ![c] = new]
      /\ UNCHANGED <<start, queue, managed, process, closing, late, pending, confirm, faults>>
  BY DEF Voice!Forget, Voice!sessions, Voice!Confirmation
<1>4. new \in CloseRecord /\ new.pc = "done"
  BY <1>2 DEF CloseRecord
<1> HIDE DEF new
<1>5. Leaving
  BY <1>1, <1>3 DEF LineOK, Leaving
<1>6. SessionTypes' /\ signedIn' \in BOOLEAN /\ \A t \in Starts : IsOpen(t)' => IsOpen(t)
  BY <1>1, <1>3 DEF VoiceTypes, SessionTypes, IsOpen
<1>7. OneOK' /\ LateOK'
  BY <1>3, <1>5, <1>6, NothingOpens
<1>8. \A t \in Starts : Keeps(t)
  BY <1>1, <1>3, <1>6 DEF Keeps, SessionOK
<1>9. LineMoves(c, new.pc = "queued", close[c].pc = "wait", new.pc = "wait")
  BY <1>3, <1>4 DEF LineMoves
<1> QED BY <1>3, <1>4, <1>6, <1>7, <1>8, <1>9, CloseSteps

LEMMA ClaimKeeps ==
  ASSUME VoiceBounds, VoiceInv, NEW k \in Confirms, Voice!Claim(k)
  PROVE  VoiceInv'
<1>1. /\ confirm[k] = "new"
      /\ UNCHANGED <<start, close, queue, managed, process, closing, signedIn, late, faults>>
  BY DEF Voice!Claim, Voice!requests, Voice!sessions
<1>2. VoiceTypes /\ ConfirmOK
  BY DEF VoiceInv
<1>3. CASE pending /\ confirm' = [confirm EXCEPT ![k] = "run"] /\ pending' = FALSE
  <2>1. confirm'[k] = "run" /\ \A l \in Confirms : l # k => confirm'[l] = confirm[l]
    BY <1>2, <1>3 DEF VoiceTypes
  <2>2. \A l \in Confirms : Has(l)' <=> l = k
    BY <1>2, <1>3, <2>1 DEF ConfirmOK, Has
  <2>3. ConfirmOK'
    BY <1>3, <2>2 DEF ConfirmOK
  <2> QED BY <1>1, <1>2, <1>3, <2>3, ConfirmSteps DEF VoiceTypes
<1>4. CASE ~pending /\ confirm' = [confirm EXCEPT ![k] = "refused"] /\ pending' = pending
  <2>1. confirm'[k] = "refused" /\ \A l \in Confirms : l # k => confirm'[l] = confirm[l]
    BY <1>2, <1>4 DEF VoiceTypes
  <2>2. \A l \in Confirms : Has(l)' <=> Has(l)
    BY <1>1, <2>1 DEF Has
  <2>3. ConfirmOK'
    BY <1>2, <1>4, <2>2 DEF ConfirmOK
  <2> QED BY <1>1, <1>2, <1>4, <2>3, ConfirmSteps DEF VoiceTypes
<1> QED BY <1>3, <1>4 DEF Voice!Claim

LEMMA ConfirmedKeeps ==
  ASSUME VoiceBounds, VoiceInv, NEW k \in Confirms, Voice!Confirmed(k)
  PROVE  VoiceInv'
<1>1. /\ confirm[k] = "run"
      /\ UNCHANGED <<start, close, queue, managed, process, closing, signedIn, late>>
  BY DEF Voice!Confirmed, Voice!requests, Voice!sessions
<1>2. VoiceTypes /\ ConfirmOK
  BY DEF VoiceInv
<1>3. CASE confirm' = [confirm EXCEPT ![k] = "done"] /\ UNCHANGED <<pending, faults>>
  <2>1. confirm'[k] = "done" /\ \A l \in Confirms : l # k => confirm'[l] = confirm[l]
    BY <1>2, <1>3 DEF VoiceTypes
  <2>2. \A l \in Confirms : Has(l)' <=> Has(l)
    BY <1>1, <2>1 DEF Has
  <2>3. ConfirmOK'
    BY <1>2, <1>3, <2>2 DEF ConfirmOK
  <2> QED BY <1>1, <1>2, <1>3, <2>3, ConfirmSteps DEF VoiceTypes
<1>4. CASE confirm' = [confirm EXCEPT ![k] = "failed"] /\ pending' = TRUE /\ Voice!Fault
  <2>1. confirm'[k] = "failed" /\ \A l \in Confirms : l # k => confirm'[l] = confirm[l]
    BY <1>2, <1>4 DEF VoiceTypes
  <2>2. \A l \in Confirms : ~Has(l)'
    BY <1>1, <1>2, <2>1 DEF ConfirmOK, Has
  <2>3. ConfirmOK'
    BY <1>4, <2>2 DEF ConfirmOK
  <2> QED BY <1>1, <1>2, <1>4, <2>3, ConfirmSteps, Faulted DEF VoiceTypes
<1> QED BY <1>3, <1>4 DEF Voice!Confirmed

LEMMA VoiceStarts ==
  ASSUME VoiceBounds, Voice!Init
  PROVE  VoiceInv
<1> USE DEF Voice!Init
<1>1. VoiceTypes
  BY DEF VoiceTypes, StartPC, CloseRecord, VoiceBounds
<1>2. LineOK
  BY DEF LineOK, Working, Making
<1>3. OneOK /\ LateOK /\ ConfirmOK
  BY DEF OneOK, LateOK, ConfirmOK, Leaving, IsOpen, Making, Has
<1>4. \A s \in Starts : SessionOK(s)
  BY DEF SessionOK, Early, IsOpen
<1> QED BY <1>1, <1>2, <1>3, <1>4 DEF VoiceInv

LEMMA VoiceSteps ==
  ASSUME VoiceBounds, VoiceInv, [Voice!Next]_(Voice!vars)
  PROVE  VoiceInv'
<1>1. CASE UNCHANGED Voice!vars
  <2>1. UNCHANGED <<start, close, queue, managed, process, closing, signedIn, late, pending,
                    confirm, faults>>
    BY <1>1 DEF Voice!vars
  <2> QED BY <2>1, ConfirmSteps DEF VoiceInv, VoiceTypes, ConfirmOK, Has
<1>2. ASSUME NEW s \in Starts,
             \/ Voice!RequestStart(s) \/ Voice!Enter(s) \/ Voice!GetTokens(s)
             \/ Voice!Replaced(s) \/ Voice!Launch(s) \/ Voice!Handshake(s) \/ Voice!Undo(s)
             \/ Voice!Publish(s) \/ Voice!Expire(s) \/ Voice!EndClose(s)
             \/ Voice!StopsByItself(s)
      PROVE  VoiceInv'
  BY <1>2, RequestStartKeeps, EnterKeeps, GetTokensKeeps, ReplacedKeeps, LaunchKeeps,
     HandshakeKeeps, UndoKeeps, PublishKeeps, ExpireKeeps, EndCloseKeeps, StopsByItselfKeeps
<1>3. ASSUME NEW c \in Closes, NEW s \in Starts, Voice!RequestClose(c, {s}, FALSE)
      PROVE  VoiceInv'
  BY <1>3, RequestCloseKeeps
<1>4. ASSUME NEW c \in Closes, Voice!RequestClose(c, {}, TRUE)
      PROVE  VoiceInv'
  BY <1>4, RequestCloseKeeps
<1>5. ASSUME NEW c \in Closes, Voice!Close(c) \/ Voice!EndOfClose(c) \/ Voice!Forget(c)
      PROVE  VoiceInv'
  BY <1>5, CloseKeeps, EndOfCloseKeeps, ForgetKeeps
<1>6. ASSUME NEW k \in Confirms, Voice!Claim(k) \/ Voice!Confirmed(k)
      PROVE  VoiceInv'
  BY <1>6, ClaimKeeps, ConfirmedKeeps
<1> QED BY <1>1, <1>2, <1>3, <1>4, <1>5, <1>6 DEF Voice!Next

\* A set with at most one member.
LEMMA AtMostOne ==
  ASSUME NEW S, \A x, y \in S : x = y
  PROVE  Cardinality(S) <= 1
<1>1. CASE S = {}
  BY <1>1, FS_EmptySet
<1>2. CASE S # {}
  <2>1. PICK x : S = {x}
    BY <1>2
  <2> QED BY <2>1, FS_Singleton
<1> QED BY <1>1, <1>2

\* What a start has replaced was in the map.
LEMMA ReplacesSessions ==
  ASSUME VoiceInv, replaces \subseteq Starts, [Voice!Next]_(Voice!vars)
  PROVE  replaces' \subseteq Starts
<1>1. managed \subseteq Starts
  BY DEF VoiceInv, VoiceTypes
<1>2. replaces' = replaces \/ replaces' = managed
  <2>1. CASE UNCHANGED Voice!vars
    BY <2>1 DEF Voice!vars
  <2>2. ASSUME NEW s \in Starts,
               \/ Voice!RequestStart(s) \/ Voice!Enter(s) \/ Voice!GetTokens(s)
               \/ Voice!Replaced(s) \/ Voice!Launch(s) \/ Voice!Handshake(s)
               \/ Voice!Undo(s) \/ Voice!Publish(s) \/ Voice!Expire(s)
               \/ Voice!EndClose(s) \/ Voice!StopsByItself(s)
        PROVE  replaces' = replaces \/ replaces' = managed
    BY <2>2 DEF Voice!RequestStart, Voice!Enter, Voice!GetTokens, Voice!Replaced, Voice!Launch,
       Voice!Handshake, Voice!Undo, Voice!Publish, Voice!Expire, Voice!EndClose,
       Voice!StopsByItself, Voice!sessions
  <2>3. ASSUME NEW c \in Closes, NEW targets, NEW logout,
               \/ Voice!RequestClose(c, targets, logout) \/ Voice!Close(c)
               \/ Voice!EndOfClose(c) \/ Voice!Forget(c)
        PROVE  replaces' = replaces
    BY <2>3 DEF Voice!RequestClose, Voice!Close, Voice!EndOfClose, Voice!Forget, Voice!sessions
  <2>4. ASSUME NEW k \in Confirms, Voice!Claim(k) \/ Voice!Confirmed(k)
        PROVE  replaces' = replaces
    BY <2>4 DEF Voice!Claim, Voice!Confirmed, Voice!sessions
  <2> QED BY <2>1, <2>2, <2>3, <2>4 DEF Voice!Next
<1> QED BY <1>1, <1>2

LEMMA VoiceIsSound ==
  ASSUME VoiceBounds, VoiceInv, replaces \subseteq Starts
  PROVE  Voice!TypeOK /\ Voice!OneLiveSession /\ Voice!ConfirmedOnce
<1>1. VoiceTypes /\ LineOK /\ OneOK /\ LateOK /\ ConfirmOK /\ \A s \in Starts : SessionOK(s)
  BY DEF VoiceInv
<1>2. Voice!TypeOK
  BY <1>1 DEF Voice!TypeOK, VoiceTypes, StartPC, CloseRecord
<1>3. \A s \in Voice!Open : s \in managed \/ start[s] \in {"begin", "answer"}
  BY <1>1 DEF Voice!Open, VoiceTypes, StartPC, SessionOK, IsOpen, Early
<1>4. \A s, t \in Voice!Open : s = t
  <2> SUFFICES ASSUME NEW s \in Voice!Open, NEW t \in Voice!Open PROVE s = t
    OBVIOUS
  <2>1. s \in Starts /\ t \in Starts
    BY DEF Voice!Open
  <2>2. CASE s \in managed /\ t \in managed
    BY <1>1, <2>2 DEF OneOK
  <2>3. CASE start[s] \in {"begin", "answer"} /\ start[t] \in {"begin", "answer"}
    BY <2>1, <2>3, WorksAlone DEF Working, Making
  <2>4. CASE s \in managed /\ start[t] \in {"begin", "answer"}
    BY <1>1, <2>1, <2>4 DEF OneOK, Making
  <2>5. CASE t \in managed /\ start[s] \in {"begin", "answer"}
    BY <1>1, <2>1, <2>5 DEF OneOK, Making
  <2> QED BY <1>3, <2>2, <2>3, <2>4, <2>5
<1>5. \A S : Voice!Cardinality(S) = Cardinality(S)
  BY DEF Voice!Cardinality, Cardinality
<1>6. Voice!Cardinality(Voice!Open) <= 1
  BY <1>4, <1>5, AtMostOne
<1>7. \A s \in managed : ~Voice!Over(s)
  BY <1>1 DEF VoiceTypes, SessionOK, Voice!Over
<1>8. ~signedIn => Voice!Open \subseteq late
  BY <1>1 DEF LateOK, Leaving, Voice!Open, IsOpen
<1>9. Voice!OneLiveSession
  BY <1>3, <1>6, <1>7, <1>8 DEF Voice!OneLiveSession
<1>10. pending \/ \E k \in Confirms : confirm[k] \in {"run", "done"}
  BY <1>1 DEF ConfirmOK, Has
<1> DEFINE Done == {k \in Confirms : confirm[k] = "done"}
<1>11. \A k, l \in Done : k = l
  BY <1>1 DEF ConfirmOK, Has
<1>12. Voice!Cardinality(Done) <= 1
  <2> HIDE DEF Done
  <2> QED BY <1>5, <1>11, AtMostOne
<1>13. Voice!ConfirmedOnce
  BY <1>10, <1>12 DEF Voice!ConfirmedOnce
<1> QED BY <1>2, <1>9, <1>13

\* However start requests, closes and logouts of one login interleave with
\* sessions that stop by themselves or run out: at most one session is open, the map
\* and the starts under way know every open one, no session that is over is listed,
\* and after a logout none is open but one whose start was served meanwhile; and an
\* action that waits for the user is done once however often it is confirmed
\* (realtime-app-server-routes.ts:141, realtime-app-server.ts:225).
THEOREM LiveSessionHolds ==
  ASSUME VoiceBounds
  PROVE  Voice!Spec => [](Voice!TypeOK /\ Voice!OneLiveSession /\ Voice!ConfirmedOnce)
<1> DEFINE Inv == VoiceInv /\ replaces \subseteq Starts
<1>1. Voice!Init => Inv
  BY VoiceStarts DEF Voice!Init
<1>2. Inv /\ [Voice!Next]_(Voice!vars) => Inv'
  BY VoiceSteps, ReplacesSessions
<1>3. Inv => Voice!TypeOK /\ Voice!OneLiveSession /\ Voice!ConfirmedOnce
  BY VoiceIsSound
<1> HIDE DEF Inv
<1> QED BY <1>1, <1>2, <1>3, PTL DEF Voice!Spec

-----------------------------------------------------------------------------
(* One voice call. *)

TalkBounds == {MaxQueued, MaxMessages, MaxToggles, MaxFaults} \subseteq Nat

TalkPhase == {"new", "ice", "signaling", "answered", "opening", "connected", "over"}
ClientTypes ==
  /\ phase \in TalkPhase
  /\ peer \in [mic : BOOLEAN, channel : {"none", "connecting", "open", "closed"}]
  /\ voice \in [state : {"connecting", "listening", "speaking", "halted"}, muted : BOOLEAN,
                outputMuted : BOOLEAN, restore : BOOLEAN]
  /\ ending \in [closed : BOOLEAN, goodbye : BOOLEAN, aborted : BOOLEAN]
  /\ inbox \in SUBSET Talk!Messages /\ known \in BOOLEAN
  /\ signal \in {"no", "sent", "served", "refused", "over"}
  /\ delete \in {"no", "sent", "done", "failed"}
\* What is over is off; only a call that was connected is closed.
EndOK ==
  /\ phase = "new" => ~peer.mic /\ peer.channel # "open" /\ ~known
  /\ phase = "over" => ~peer.mic /\ peer.channel # "open" /\ (known => delete # "no")
  /\ ending.closed => /\ phase = "connected" /\ ~peer.mic /\ peer.channel # "open"
                      /\ delete # "no"
\* The mute of an interruption is the only one the user did not choose.
MuteOK == voice.restore \/ ending.closed \/ voice.muted = voice.outputMuted
ClientOK == ClientTypes /\ EndOK /\ MuteOK

ServerOK ==
  /\ session \in {"none", "running", "closing", "over"} /\ managed \in BOOLEAN
  /\ left \in [{"messages", "toggles", "faults"} -> Nat]

\* The answers of a tool and what was done for it follow from where its call is.
Tally == [answers : Nat, asked : Nat, done : Nat]
Counts(k, answers, asked, done) ==
  tally[k].answers = answers /\ tally[k].asked = asked /\ tally[k].done = done
ToolOK(k) ==
  /\ call[k] \in {"none", "running"} => Counts(k, 0, 0, 0)
  /\ call[k] = "waiting" => Counts(k, 1, 0, 0)
  /\ call[k] = "confirming" => Counts(k, 1, 1, 0)
  /\ call[k] = "completed" => Counts(k, 1, 0, 1)
  /\ call[k] = "failed" => Counts(k, 0, 0, 0) \/ Counts(k, 1, 0, 0)
TalkSteps == {"none", "running", "waiting", "confirming", "completed", "failed"}
ToolsOK ==
  /\ call \in [Calls -> TalkSteps] /\ tally \in [Calls -> Tally]
  /\ \A k \in Calls : ToolOK(k)

\* No event says that a call is completed which is not.
Sayable == {e \in Talk!Event : \A k \in Calls : e = <<"completed", k>> => call[k] = "completed"}
EventsOf(S) == [queued : Seq(S), stream : {"no", "asked", "open", "over"}, sent : Seq(S),
                seen : Seq(S), all : Seq(Talk!Event)]
EventsOK == events \in EventsOf(Sayable) /\ Len(events.queued) <= MaxQueued

TalkInv == ClientOK /\ ServerOK /\ ToolsOK /\ EventsOK

LEMMA UsesLeft ==
  ASSUME ServerOK, NEW what \in {"messages", "toggles", "faults"}, Talk!Uses(what)
  PROVE  left' \in [{"messages", "toggles", "faults"} -> Nat]
BY DEF ServerOK, Talk!Uses

LEMMA WiderSequences ==
  ASSUME NEW S, NEW T, S \subseteq T, NEW s \in Seq(S)
  PROVE  s \in Seq(T)
<1>1. Len(s) \in Nat /\ s \in [1 .. Len(s) -> S]
  OBVIOUS
<1>2. s \in [1 .. Len(s) -> T]
  BY <1>1
<1> QED BY <1>1, <1>2

\* The events when a call gets on.
LEMMA EventsStay ==
  ASSUME EventsOK, Sayable \subseteq Sayable', events' = events
  PROVE  EventsOK'
<1>1. /\ events \in EventsOf(Sayable) /\ Len(events.queued) <= MaxQueued
      /\ events.queued \in Seq(Sayable) /\ events.sent \in Seq(Sayable)
      /\ events.seen \in Seq(Sayable)
  BY DEF EventsOK, EventsOf
<1>2. /\ events.queued \in Seq(Sayable') /\ events.sent \in Seq(Sayable')
      /\ events.seen \in Seq(Sayable')
  BY <1>1, WiderSequences
<1>3. events \in EventsOf(Sayable')
  BY <1>1, <1>2 DEF EventsOf
<1> QED BY <1>1, <1>3 DEF EventsOK, EventsOf

LEMMA EventEmitted ==
  ASSUME TalkBounds, EventsOK, Sayable \subseteq Sayable', NEW e \in Sayable', Talk!Emits(e)
  PROVE  EventsOK'
<1>1. /\ events \in EventsOf(Sayable) /\ Len(events.queued) <= MaxQueued /\ MaxQueued \in Nat
      /\ events.queued \in Seq(Sayable) /\ events.sent \in Seq(Sayable)
      /\ events.seen \in Seq(Sayable) /\ events.all \in Seq(Talk!Event)
  BY DEF EventsOK, EventsOf, TalkBounds
<1>2. /\ events.queued \in Seq(Sayable') /\ events.sent \in Seq(Sayable')
      /\ events.seen \in Seq(Sayable') /\ e \in Talk!Event
  BY <1>1, WiderSequences DEF Sayable
<1>3. Append(events.all, e) \in Seq(Talk!Event)
  BY <1>1, <1>2
<1>4. CASE events.stream = "open"
  <2>1. events' = [events EXCEPT !.all = Append(events.all, e), !.sent = Append(events.sent, e)]
    BY <1>4 DEF Talk!Emits, Talk!EmitTo
  <2>2. Append(events.sent, e) \in Seq(Sayable')
    BY <1>2
  <2>3. events' \in EventsOf(Sayable') /\ events'.queued = events.queued
    BY <1>1, <1>2, <1>3, <2>1, <2>2 DEF EventsOf
  <2> QED BY <1>1, <2>3 DEF EventsOK, EventsOf
<1>5. CASE events.stream # "open"
  <2> DEFINE long == Append(events.queued, e)
             kept == Talk!Newest(long)
  <2>1. events' = [events EXCEPT !.all = Append(events.all, e), !.queued = kept]
    BY <1>5 DEF Talk!Emits, Talk!EmitTo
  <2>2. long \in Seq(Sayable') /\ Len(long) = Len(events.queued) + 1 /\ Len(events.queued) \in Nat
        /\ long # << >>
    BY <1>2
  <2> HIDE DEF long
  <2>3. kept \in Seq(Sayable') /\ Len(kept) <= MaxQueued
    <3>1. CASE Len(long) > MaxQueued
      <4>1. kept = Tail(long)
        BY <3>1 DEF Talk!Newest
      <4>2. Tail(long) \in Seq(Sayable') /\ Len(Tail(long)) = Len(long) - 1
        BY <2>2
      <4> QED BY <1>1, <2>2, <4>1, <4>2
    <3>2. CASE ~(Len(long) > MaxQueued)
      <4>1. kept = long
        BY <3>2 DEF Talk!Newest
      <4> QED BY <1>1, <2>2, <3>2, <4>1
    <3> QED BY <3>1, <3>2
  <2> HIDE DEF kept
  <2>4. events' \in EventsOf(Sayable') /\ events'.queued = kept
    BY <1>1, <1>2, <1>3, <2>1, <2>3 DEF EventsOf
  <2> QED BY <2>3, <2>4 DEF EventsOK, EventsOf
<1> QED BY <1>4, <1>5

LEMMA SayableStays ==
  ASSUME \A k \in Calls : call[k] = "completed" => call'[k] = "completed"
  PROVE  Sayable \subseteq Sayable'
BY DEF Sayable

\* What a change of the events may be that no tool makes.
LEMMA EventsMove ==
  ASSUME EventsOK, call' = call, events' \in EventsOf(Sayable),
         Len(events'.queued) <= MaxQueued
  PROVE  EventsOK'
<1>1. Sayable' = Sayable
  BY DEF Sayable
<1> QED BY <1>1 DEF EventsOK, EventsOf

LEMMA StreamEnded ==
  ASSUME TalkBounds, EventsOK, call' = call, Talk!StreamAborted
  PROVE  EventsOK'
<1>1. /\ events \in EventsOf(Sayable) /\ Len(events.queued) <= MaxQueued
      /\ events' = [events EXCEPT !.stream = "over", !.sent = << >>]
  BY DEF EventsOK, Talk!StreamAborted
<1>2. << >> \in Seq(Sayable)
  OBVIOUS
<1>3. events' \in EventsOf(Sayable) /\ events'.queued = events.queued
  BY <1>1, <1>2 DEF EventsOf
<1> QED BY <1>1, <1>3, EventsMove

LEMMA ToolsStay ==
  ASSUME ToolsOK, UNCHANGED <<call, tally>>
  PROVE  ToolsOK' /\ Sayable \subseteq Sayable'
BY DEF ToolsOK, ToolOK, Counts, Sayable

LEMMA ServerStays ==
  ASSUME ServerOK, UNCHANGED <<session, managed>>,
         \/ left' = left
         \/ \E what \in {"messages", "toggles", "faults"} : Talk!Uses(what)
  PROVE  ServerOK'
BY UsesLeft DEF ServerOK

\* A step of the browser that leaves the server and its events.
LEMMA BrowserSteps ==
  ASSUME TalkInv, ClientOK', UNCHANGED <<session, managed, call, tally, events>>,
         left' = left \/ Talk!Fault \/ Talk!Uses("messages") \/ Talk!Uses("toggles")
  PROVE  TalkInv'
<1>1. ServerOK'
  BY ServerStays DEF TalkInv, Talk!Fault
<1>2. ToolsOK' /\ EventsOK'
  BY ToolsStay, EventsStay DEF TalkInv
<1> QED BY <1>1, <1>2 DEF TalkInv

\* A step that closes the call, and the session with it.
LEMMA ClosingSteps ==
  ASSUME TalkBounds, TalkInv, ClientOK', UNCHANGED <<session, managed, call, tally, left>>,
         Talk!ClosesServer
  PROVE  TalkInv'
<1>1. ServerOK' /\ ToolsOK'
  BY ServerStays, ToolsStay DEF TalkInv
<1>2. EventsOK'
  BY ToolsStay, EventsStay, StreamEnded DEF TalkInv, Talk!ClosesServer
<1> QED BY <1>1, <1>2 DEF TalkInv

\* A step of the server that leaves the browser.
LEMMA ClientStays ==
  ASSUME ClientOK, UNCHANGED <<phase, peer, voice, ending, inbox, known>>,
         signal' \in {"no", "sent", "served", "refused", "over"},
         delete' \in {"no", "sent", "done", "failed"}, delete # "no" => delete' # "no"
  PROVE  ClientOK'
BY DEF ClientOK, ClientTypes, EndOK, MuteOK

\* What connecting does to the client.
LEMMA ConnectSteps ==
  ASSUME TalkBounds, TalkInv,
         Talk!GetMedia \/ Talk!SendOffer \/ Talk!AnswerArrives \/ Talk!ConnectFails
           \/ Talk!SetAnswer \/ Talk!ChannelOpens
  PROVE  TalkInv'
<1> USE DEF Talk!client, Talk!server
<1>1. ClientOK /\ ClientTypes /\ EndOK /\ MuteOK
  BY DEF TalkInv, ClientOK
<1>2. CASE Talk!GetMedia
  <2>1. /\ phase = "new" /\ UNCHANGED <<voice, ending, inbox, signal, known, delete>>
        /\ UNCHANGED <<session, managed, call, tally, events>> /\ (left' = left \/ Talk!Fault)
        /\ \/ phase' = "ice" /\ peer' = [mic |-> TRUE, channel |-> "connecting"]
           \/ phase' = "over" /\ peer' = peer
    BY <1>2 DEF Talk!GetMedia
  <2>2. phase' = "over" => ~peer'.mic /\ peer'.channel # "open" /\ ~known
    BY <1>1, <2>1 DEF EndOK
  <2>3. /\ peer' \in [mic : BOOLEAN, channel : {"none", "connecting", "open", "closed"}]
        /\ phase' \in {"ice", "over"}
    <3>1. peer \in [mic : BOOLEAN, channel : {"none", "connecting", "open", "closed"}]
      BY <1>1 DEF ClientTypes
    <3>2. [mic |-> TRUE, channel |-> "connecting"]
            \in [mic : BOOLEAN, channel : {"none", "connecting", "open", "closed"}]
      OBVIOUS
    <3> QED BY <2>1, <3>1, <3>2, Zenon
  <2>4. ClientTypes'
    BY <1>1, <2>1, <2>3 DEF ClientTypes, TalkPhase
  <2>5. EndOK' /\ MuteOK'
    BY <1>1, <2>1, <2>2, <2>3 DEF EndOK, MuteOK
  <2> QED BY <2>1, <2>4, <2>5, BrowserSteps DEF ClientOK
<1>3. CASE Talk!SendOffer
  <2>1. ClientOK' /\ left' = left /\ UNCHANGED <<session, managed, call, tally, events>>
    BY <1>1, <1>3 DEF Talk!SendOffer, ClientOK, ClientTypes, EndOK, MuteOK, TalkPhase
  <2> QED BY <2>1, BrowserSteps
<1>4. CASE Talk!AnswerArrives
  <2>1. ClientOK' /\ left' = left /\ UNCHANGED <<session, managed, call, tally, events>>
    BY <1>1, <1>4 DEF Talk!AnswerArrives, ClientOK, ClientTypes, EndOK, MuteOK, TalkPhase
  <2> QED BY <2>1, BrowserSteps
<1>5. CASE Talk!ConnectFails
  <2>1. /\ phase \in {"ice", "signaling", "answered", "opening"} /\ phase' = "over"
        /\ peer' = [mic |-> FALSE, channel |-> "closed"]
        /\ delete' = IF known THEN "sent" ELSE delete
        /\ UNCHANGED <<voice, ending, inbox, known, session, managed, call, tally, events>>
        /\ signal' = IF signal = "refused" THEN "over" ELSE signal
        /\ left' = left \/ Talk!Fault
    BY <1>5 DEF Talk!ConnectFails, Talk!GivesUp, Talk!Off
  <2>2. ClientTypes'
    BY <1>1, <2>1 DEF ClientTypes, TalkPhase
  <2>3. EndOK' /\ MuteOK'
    BY <1>1, <2>1 DEF EndOK, MuteOK
  <2> QED BY <2>1, <2>2, <2>3, BrowserSteps DEF ClientOK
<1>6. CASE Talk!SetAnswer
  <2>1. ClientOK' /\ left' = left /\ UNCHANGED <<session, managed, call, tally, events>>
    BY <1>1, <1>6 DEF Talk!SetAnswer, ClientOK, ClientTypes, EndOK, MuteOK, TalkPhase
  <2> QED BY <2>1, BrowserSteps
<1>7. CASE Talk!ChannelOpens
  <2>1. /\ phase \in {"answered", "opening"} /\ peer' = [peer EXCEPT !.channel = "open"]
        /\ UNCHANGED <<phase, voice, ending, inbox, signal, known, delete, events, session,
                       managed, call, tally, left>>
    BY <1>7 DEF Talk!ChannelOpens
  <2>2. ClientTypes'
    BY <1>1, <2>1 DEF ClientTypes
  <2>3. EndOK' /\ MuteOK'
    BY <1>1, <2>1 DEF EndOK, MuteOK
  <2> QED BY <2>1, <2>2, <2>3, BrowserSteps DEF ClientOK
<1> QED BY <1>2, <1>3, <1>4, <1>5, <1>6, <1>7

Voices == [state : {"connecting", "listening", "speaking", "halted"}, muted : BOOLEAN,
           outputMuted : BOOLEAN, restore : BOOLEAN]

\* The ends of a call.
LEMMA ClosesIs ==
  ASSUME ClientOK, phase \in TalkPhase, ~ending.closed, phase' = "connected",
         peer' = Talk!Off, voice' = [voice EXCEPT !.state = "halted", !.restore = FALSE],
         ending' \in [closed : {TRUE}, goodbye : BOOLEAN, aborted : BOOLEAN],
         UNCHANGED <<inbox, known, signal>>, Talk!ClosesServer
  PROVE  ClientOK'
<1>1. ClientTypes
  BY DEF ClientOK
<1>2. delete' \in {"no", "sent", "done", "failed"} /\ delete' # "no"
  BY <1>1 DEF Talk!ClosesServer, ClientTypes
<1>3. ClientTypes'
  BY <1>1, <1>2 DEF ClientTypes, Talk!Off, TalkPhase
<1>4. EndOK' /\ MuteOK'
  BY <1>2 DEF EndOK, MuteOK, Talk!Off
<1> QED BY <1>3, <1>4 DEF ClientOK

LEMMA EndSteps ==
  ASSUME TalkBounds, TalkInv,
         Talk!Connected \/ Talk!Close \/ Talk!CloseServer \/ Talk!Abort \/ Talk!ChannelCloses
  PROVE  TalkInv'
<1> USE DEF Talk!client, Talk!server
<1>1. ClientOK /\ ClientTypes /\ EndOK /\ MuteOK
  BY DEF TalkInv, ClientOK
<1>2. CASE Talk!Connected
  <2>1. /\ phase = "opening" /\ phase' = "connected" /\ ~ending.closed
        /\ UNCHANGED <<inbox, signal, known, session, managed, call, tally, left>>
    BY <1>1, <1>2 DEF Talk!Connected, EndOK
  <2>2. CASE ending.aborted
    <3>1. Talk!Closes /\ Talk!ClosesServer
      BY <1>2, <2>2 DEF Talk!Connected
    <3>2. /\ peer' = Talk!Off /\ voice' = [voice EXCEPT !.state = "halted", !.restore = FALSE]
          /\ ending' = [ending EXCEPT !.closed = TRUE]
      BY <2>1, <3>1 DEF Talk!Closes
    <3>3. ending' \in [closed : {TRUE}, goodbye : BOOLEAN, aborted : BOOLEAN]
      BY <1>1, <3>2 DEF ClientTypes
    <3>4. ClientOK'
      BY <1>1, <2>1, <3>1, <3>2, <3>3, ClosesIs DEF ClientTypes
    <3> QED BY <2>1, <3>1, <3>4, ClosingSteps
  <2>3. CASE ~ending.aborted
    <3>1. /\ voice' = [voice EXCEPT !.state = "listening"]
          /\ events' = [events EXCEPT !.stream = "asked"]
          /\ UNCHANGED <<peer, ending, delete>>
      BY <1>2, <2>3 DEF Talk!Connected
    <3>2. ClientTypes'
      BY <1>1, <2>1, <3>1 DEF ClientTypes, TalkPhase
    <3>3. EndOK'
      BY <2>1, <3>1 DEF EndOK
    <3>4. MuteOK'
      BY <1>1, <2>1, <3>1 DEF MuteOK, ClientTypes
    <3>5. events \in EventsOf(Sayable) /\ Len(events.queued) <= MaxQueued
      BY DEF TalkInv, EventsOK
    <3>6. events' \in EventsOf(Sayable) /\ events'.queued = events.queued
      BY <3>1, <3>5 DEF EventsOf
    <3>7. EventsOK'
      BY <2>1, <3>5, <3>6, EventsMove DEF TalkInv
    <3>8. ServerOK' /\ ToolsOK'
      BY <2>1, ServerStays, ToolsStay DEF TalkInv
    <3> QED BY <3>2, <3>3, <3>4, <3>7, <3>8 DEF TalkInv, ClientOK
  <2> QED BY <2>2, <2>3
<1>3. CASE Talk!Close
  <2>1. /\ phase = "connected" /\ phase' = phase /\ ~ending.closed
        /\ Talk!Closes /\ Talk!ClosesServer
        /\ UNCHANGED <<inbox, signal, known, session, managed, call, tally, left>>
    BY <1>3 DEF Talk!Close
  <2>2. /\ peer' = Talk!Off /\ voice' = [voice EXCEPT !.state = "halted", !.restore = FALSE]
        /\ ending' = [ending EXCEPT !.closed = TRUE]
    BY <2>1 DEF Talk!Closes
  <2>3. ending' \in [closed : {TRUE}, goodbye : BOOLEAN, aborted : BOOLEAN]
    BY <1>1, <2>2 DEF ClientTypes
  <2>4. ClientOK'
    BY <1>1, <2>1, <2>2, <2>3, ClosesIs DEF ClientTypes
  <2> QED BY <2>1, <2>4, ClosingSteps
<1>4. CASE Talk!CloseServer
  <2>1. /\ delete' = "sent" /\ Talk!ClosesServer
        /\ UNCHANGED <<phase, peer, voice, ending, inbox, known, signal, session, managed, call,
                       tally, left>>
    BY <1>4 DEF Talk!CloseServer, Talk!ClosesServer
  <2>2. ClientOK'
    BY <1>1, <2>1, ClientStays DEF ClientTypes
  <2> QED BY <2>1, <2>2, ClosingSteps
<1>5. CASE Talk!Abort
  <2>1. /\ phase # "over" /\ ~ending.aborted
        /\ UNCHANGED <<phase, inbox, signal, known, session, managed, call, tally, left>>
    BY <1>5 DEF Talk!Abort
  <2>2. CASE phase = "connected" /\ ~ending.closed
    <3>1. /\ peer' = Talk!Off /\ voice' = [voice EXCEPT !.state = "halted", !.restore = FALSE]
          /\ ending' = [ending EXCEPT !.closed = TRUE, !.aborted = TRUE] /\ Talk!ClosesServer
      BY <1>5, <2>2 DEF Talk!Abort
    <3>2. ending' \in [closed : {TRUE}, goodbye : BOOLEAN, aborted : BOOLEAN]
      BY <1>1, <3>1 DEF ClientTypes
    <3>3. ClientOK'
      BY <1>1, <2>1, <2>2, <3>1, <3>2, ClosesIs DEF ClientTypes
    <3> QED BY <2>1, <3>1, <3>3, ClosingSteps
  <2>3. CASE phase = "connected" /\ ending.closed
    <3>1. /\ peer' = Talk!Off /\ voice' = [voice EXCEPT !.state = "halted", !.restore = FALSE]
          /\ ending' = [ending EXCEPT !.closed = TRUE, !.aborted = TRUE] /\ Talk!ClosesServer
      BY <1>5, <2>3 DEF Talk!Abort
    <3>2. delete # "no" /\ UNCHANGED <<delete, events>>
      BY <1>1, <2>3, <3>1 DEF EndOK, Talk!ClosesServer
    <3>3. ClientTypes'
      BY <1>1, <2>1, <3>1, <3>2 DEF ClientTypes, Talk!Off
    <3>4. EndOK'
      BY <2>1, <2>3, <3>1, <3>2 DEF EndOK, Talk!Off
    <3>5. MuteOK'
      BY <1>1, <3>1 DEF MuteOK, ClientTypes
    <3> QED BY <2>1, <3>1, <3>3, <3>4, <3>5, ClosingSteps DEF ClientOK
  <2>4. CASE phase # "connected"
    <3>1. ending' = [ending EXCEPT !.aborted = TRUE] /\ UNCHANGED <<peer, voice, delete, events>>
      BY <1>5, <2>4 DEF Talk!Abort
    <3>2. /\ ending' \in [closed : BOOLEAN, goodbye : BOOLEAN, aborted : BOOLEAN]
          /\ ending'.closed = ending.closed
      BY <1>1, <3>1 DEF ClientTypes
    <3>3. ClientTypes'
      BY <1>1, <2>1, <3>1, <3>2 DEF ClientTypes
    <3>4. EndOK' /\ MuteOK'
      BY <1>1, <2>1, <3>1, <3>2 DEF EndOK, MuteOK
    <3> QED BY <2>1, <3>1, <3>3, <3>4, BrowserSteps DEF ClientOK
  <2> QED BY <2>2, <2>3, <2>4
<1>6. CASE Talk!ChannelCloses
  <2>1. /\ phase = "connected" /\ peer' = [peer EXCEPT !.channel = "closed"]
        /\ UNCHANGED <<phase, voice, ending, inbox, signal, known, delete, events, session,
                       managed, call, tally>>
        /\ left' = left \/ Talk!Fault
    BY <1>6 DEF Talk!ChannelCloses
  <2>2. ClientTypes' /\ peer'.mic = peer.mic /\ peer'.channel = "closed"
    BY <1>1, <2>1 DEF ClientTypes
  <2>3. EndOK' /\ MuteOK'
    BY <1>1, <2>1, <2>2 DEF EndOK, MuteOK
  <2> QED BY <2>1, <2>2, <2>3, BrowserSteps DEF ClientOK
<1> QED BY <1>2, <1>3, <1>4, <1>5, <1>6

LEMMA HeardSteps ==
  ASSUME TalkBounds, TalkInv,
         \/ \E m \in Talk!Messages : Talk!MessageArrives(m) \/ Talk!Decoded(m)
         \/ Talk!Interrupt \/ Talk!Restore \/ Talk!SetOutputMuted
  PROVE  TalkInv'
<1>1. ClientOK /\ ClientTypes /\ EndOK /\ MuteOK
  BY DEF TalkInv, ClientOK
<1>2. /\ UNCHANGED <<phase, peer, signal, known, delete>>
      /\ UNCHANGED <<session, managed, call, tally, events>>
      /\ left' = left \/ Talk!Fault \/ Talk!Uses("messages") \/ Talk!Uses("toggles")
  BY
  DEF Talk!MessageArrives, Talk!Decoded, Talk!Interrupt, Talk!Restore, Talk!SetOutputMuted,
     Talk!Unchanged, Talk!server
<1>3. ASSUME NEW m \in Talk!Messages, Talk!MessageArrives(m) PROVE ClientOK'
  BY <1>1, <1>2, <1>3 DEF Talk!MessageArrives, ClientOK, ClientTypes, EndOK, MuteOK
<1>4. ASSUME NEW m \in Talk!Messages, Talk!Decoded(m) PROVE ClientOK'
  <2>1. /\ inbox' = inbox \ {m}
        /\ voice' = [voice EXCEPT !.state = IF m = "goodbye" THEN "halted" ELSE m]
        /\ ending' = [ending EXCEPT !.goodbye = ending.goodbye \/ m = "goodbye"]
    BY <1>4 DEF Talk!Decoded
  <2>2. (IF m = "goodbye" THEN "halted" ELSE m) \in {"speaking", "halted"}
    BY DEF Talk!Messages
  <2>3. voice' \in Voices
        /\ voice'.muted = voice.muted /\ voice'.outputMuted = voice.outputMuted
        /\ voice'.restore = voice.restore
    BY <1>1, <2>1, <2>2 DEF ClientTypes, Voices
  <2>4. ending' \in [closed : BOOLEAN, goodbye : BOOLEAN, aborted : BOOLEAN]
        /\ ending'.closed = ending.closed
    BY <1>1, <2>1 DEF ClientTypes
  <2>5. ClientTypes'
    BY <1>1, <1>2, <2>1, <2>3, <2>4 DEF ClientTypes, Voices
  <2>6. EndOK' /\ MuteOK'
    BY <1>1, <1>2, <2>3, <2>4 DEF EndOK, MuteOK
  <2> QED BY <2>5, <2>6 DEF ClientOK
<1>5. ASSUME Talk!Interrupt PROVE ClientOK'
  <2>1. /\ voice' = [voice EXCEPT !.state = "listening", !.muted = TRUE, !.restore = TRUE]
        /\ UNCHANGED <<ending, inbox>>
    BY <1>5 DEF Talk!Interrupt
  <2>2. voice' \in Voices /\ voice'.restore
    BY <1>1, <2>1 DEF ClientTypes, Voices
  <2>3. ClientTypes'
    BY <1>1, <1>2, <2>1, <2>2 DEF ClientTypes, Voices
  <2>4. EndOK'
    BY <1>1, <1>2, <2>1 DEF EndOK
  <2>5. MuteOK'
    BY <2>2 DEF MuteOK
  <2> QED BY <2>3, <2>4, <2>5 DEF ClientOK
<1>6. ASSUME Talk!Restore PROVE ClientOK'
  <2>1. /\ voice' = [voice EXCEPT !.restore = FALSE, !.muted = voice.outputMuted]
        /\ UNCHANGED <<ending, inbox>>
    BY <1>6 DEF Talk!Restore
  <2>2. voice' \in Voices /\ voice'.muted = voice'.outputMuted
    BY <1>1, <2>1 DEF ClientTypes, Voices
  <2>3. ClientTypes'
    BY <1>1, <1>2, <2>1, <2>2 DEF ClientTypes, Voices
  <2>4. EndOK'
    BY <1>1, <1>2, <2>1 DEF EndOK
  <2>5. MuteOK'
    BY <2>2 DEF MuteOK
  <2> QED BY <2>3, <2>4, <2>5 DEF ClientOK
<1>7. ASSUME Talk!SetOutputMuted PROVE ClientOK'
  <2>1. PICK b \in BOOLEAN : voice' = [voice EXCEPT !.muted = b, !.outputMuted = b]
    BY <1>7 DEF Talk!SetOutputMuted
  <2>2. UNCHANGED <<ending, inbox>>
    BY <1>7 DEF Talk!SetOutputMuted
  <2>3. voice' \in Voices /\ voice'.muted = voice'.outputMuted
    BY <1>1, <2>1 DEF ClientTypes, Voices
  <2>4. ClientTypes'
    BY <1>1, <1>2, <2>2, <2>3 DEF ClientTypes, Voices
  <2>5. EndOK'
    BY <1>1, <1>2, <2>2 DEF EndOK
  <2>6. MuteOK'
    BY <2>3 DEF MuteOK
  <2> QED BY <2>4, <2>5, <2>6 DEF ClientOK
<1>8. ClientOK'
  BY <1>3, <1>4, <1>5, <1>6, <1>7
<1> QED BY <1>2, <1>8, BrowserSteps

LEMMA SessionStepsKeep ==
  ASSUME TalkBounds, TalkInv,
         Talk!SessionStarts \/ Talk!SessionStops \/ Talk!SessionExpires \/ Talk!SessionCloses
           \/ Talk!Deleted
  PROVE  TalkInv'
<1>1. ClientOK /\ ClientTypes /\ ServerOK /\ ToolsOK /\ EventsOK
  BY DEF TalkInv, ClientOK
<1>2. /\ UNCHANGED <<phase, peer, voice, ending, inbox, known, call, tally>>
      /\ left' = left \/ Talk!Fault
  BY DEF Talk!SessionStarts, Talk!SessionStops, Talk!SessionExpires, Talk!SessionCloses,
     Talk!Deleted, Talk!client
<1>3. ToolsOK' /\ Sayable \subseteq Sayable'
  BY <1>1, <1>2, ToolsStay
<1>4. left' \in [{"messages", "toggles", "faults"} -> Nat]
  BY <1>1, <1>2, UsesLeft DEF ServerOK, Talk!Fault
<1>5. <<"started">> \in Sayable' /\ <<"closed">> \in Sayable'
  BY DEF Sayable, Talk!Event
<1>6. ASSUME Talk!SessionStarts
      PROVE  /\ session' \in {"none", "running", "closing", "over"} /\ managed' \in BOOLEAN
             /\ signal' \in {"served", "refused"} /\ delete' = delete /\ EventsOK'
  <2>1. delete' = delete
    BY <1>6 DEF Talk!SessionStarts
  <2>2. CASE /\ signal' = "served" /\ session' = "running" /\ managed' = TRUE
             /\ Talk!Emits(<<"started">>)
    BY <1>1, <1>3, <1>5, <2>1, <2>2, EventEmitted
  <2>3. CASE signal' = "refused" /\ UNCHANGED <<session, managed, events>>
    BY <1>1, <1>3, <2>1, <2>3, EventsStay DEF ServerOK
  <2> QED BY <1>6, <2>2, <2>3 DEF Talk!SessionStarts
<1>7. ASSUME Talk!SessionStops \/ Talk!SessionExpires
      PROVE  /\ session' \in {"none", "running", "closing", "over"} /\ managed' \in BOOLEAN
             /\ UNCHANGED <<signal, delete>> /\ EventsOK'
  <2>1. UNCHANGED <<signal, delete, events>>
    BY <1>7 DEF Talk!SessionStops, Talk!SessionExpires
  <2>2. session' \in {session, "closing"} /\ managed' \in {managed, FALSE}
    BY <1>7 DEF Talk!SessionStops, Talk!SessionExpires
  <2>3. session' \in {"none", "running", "closing", "over"} /\ managed' \in BOOLEAN
    BY <1>1, <2>2 DEF ServerOK
  <2> QED BY <1>1, <1>3, <2>1, <2>3, EventsStay
<1>8. ASSUME Talk!SessionCloses
      PROVE  /\ session' \in {"none", "running", "closing", "over"} /\ managed' \in BOOLEAN
             /\ UNCHANGED <<signal, delete>> /\ EventsOK'
  <2>1. session' = "over" /\ managed' = FALSE /\ Talk!Emits(<<"closed">>) /\ UNCHANGED <<signal, delete>>
    BY <1>8 DEF Talk!SessionCloses
  <2> QED BY <1>1, <1>3, <1>5, <2>1, EventEmitted
<1>9. ASSUME Talk!Deleted
      PROVE  /\ session' \in {"none", "running", "closing", "over"} /\ managed' \in BOOLEAN
             /\ signal' = signal /\ delete' \in {"done", "failed"} /\ EventsOK'
  <2>1. signal' = signal /\ events' = events /\ delete' \in {"done", "failed"}
    BY <1>9 DEF Talk!Deleted
  <2>2. session' \in {session, "closing"} /\ managed' \in {managed, FALSE}
    BY <1>9 DEF Talk!Deleted
  <2>3. session' \in {"none", "running", "closing", "over"} /\ managed' \in BOOLEAN
    BY <1>1, <2>2 DEF ServerOK
  <2> QED BY <1>1, <1>3, <2>1, <2>3, EventsStay
<1>10. /\ session' \in {"none", "running", "closing", "over"} /\ managed' \in BOOLEAN
       /\ EventsOK' /\ signal' \in {signal, "served", "refused"}
       /\ delete' \in {delete, "done", "failed"}
  BY <1>6, <1>7, <1>8, <1>9
<1>11. ServerOK'
  BY <1>4, <1>10 DEF ServerOK
<1>12. /\ signal' \in {"no", "sent", "served", "refused", "over"}
       /\ delete' \in {"no", "sent", "done", "failed"} /\ (delete # "no" => delete' # "no")
  BY <1>1, <1>10 DEF ClientTypes
<1>13. ClientOK'
  BY <1>1, <1>2, <1>12, ClientStays
<1> QED BY <1>3, <1>10, <1>11, <1>13 DEF TalkInv

LEMMA StreamSteps ==
  ASSUME TalkBounds, TalkInv, Talk!StreamOpens \/ Talk!EventArrives \/ Talk!StreamBreaks
  PROVE  TalkInv'
<1>1. /\ ClientOK /\ ClientTypes /\ ServerOK /\ ToolsOK /\ EventsOK
      /\ events \in EventsOf(Sayable) /\ Len(events.queued) <= MaxQueued
  BY DEF TalkInv, ClientOK, EventsOK
<1>2. /\ UNCHANGED <<phase, peer, voice, ending, inbox, known, signal, delete>>
      /\ UNCHANGED <<session, managed, call, tally>> /\ (left' = left \/ Talk!Fault)
  BY DEF Talk!StreamOpens, Talk!EventArrives, Talk!StreamBreaks, Talk!client, Talk!server
<1>3. ClientOK'
  BY <1>1, <1>2, ClientStays DEF ClientTypes
<1>4. ServerOK' /\ ToolsOK'
  BY <1>1, <1>2, ServerStays, ToolsStay DEF Talk!Fault
<1>5. ASSUME Talk!StreamOpens PROVE EventsOK'
  <2>1. CASE managed
    <3> DEFINE all == events.sent \o events.queued
    <3>1. events' = [events EXCEPT !.stream = "open", !.sent = all, !.queued = << >>]
      BY <1>5, <2>1 DEF Talk!StreamOpens, Talk!TakesQueue
    <3>2. all \in Seq(Sayable) /\ << >> \in Seq(Sayable) /\ Len(<< >>) = 0
      BY <1>1 DEF EventsOf
    <3> HIDE DEF all
    <3>3. events' \in EventsOf(Sayable) /\ events'.queued = << >>
      BY <1>1, <3>1, <3>2 DEF EventsOf
    <3>4. Len(events'.queued) <= MaxQueued
      BY <3>2, <3>3 DEF TalkBounds
    <3> QED BY <1>1, <1>2, <3>3, <3>4, EventsMove
  <2>2. CASE ~managed
    <3>1. events' = [events EXCEPT !.stream = "over"]
      BY <1>5, <2>2 DEF Talk!StreamOpens
    <3>2. events' \in EventsOf(Sayable) /\ events'.queued = events.queued
      BY <1>1, <3>1 DEF EventsOf
    <3> QED BY <1>1, <1>2, <3>2, EventsMove
  <2> QED BY <2>1, <2>2
<1>6. ASSUME Talk!EventArrives PROVE EventsOK'
  <2> DEFINE rest == Tail(events.sent)
             read == Append(events.seen, Head(events.sent))
             stream == IF Head(events.sent) = <<"closed">> THEN "over" ELSE events.stream
  <2>1. /\ events.sent # << >>
        /\ events' = [events EXCEPT !.sent = rest, !.seen = read, !.stream = stream]
    BY <1>6 DEF Talk!EventArrives
  <2>2. /\ events.sent \in Seq(Sayable) /\ events.seen \in Seq(Sayable)
        /\ events.stream \in {"no", "asked", "open", "over"}
    BY <1>1 DEF EventsOf
  <2>3. rest \in Seq(Sayable) /\ read \in Seq(Sayable)
    BY <2>1, <2>2
  <2>4. stream \in {"no", "asked", "open", "over"}
    BY <2>2
  <2> HIDE DEF rest, read, stream
  <2>5. events' \in EventsOf(Sayable) /\ events'.queued = events.queued
    BY <1>1, <2>1, <2>3, <2>4 DEF EventsOf
  <2> QED BY <1>1, <1>2, <2>5, EventsMove
<1>7. ASSUME Talk!StreamBreaks PROVE EventsOK'
  BY <1>1, <1>2, <1>7, StreamEnded DEF Talk!StreamBreaks
<1> QED BY <1>3, <1>4, <1>5, <1>6, <1>7 DEF TalkInv

\* A call gets on.
LEMMA ToolMoves ==
  ASSUME TalkBounds, TalkInv, NEW k \in Calls, NEW step \in TalkSteps,
         call' = [call EXCEPT ![k] = step], tally' \in [Calls -> Tally],
         \A l \in Calls : l # k => tally'[l] = tally[l],
         Talk!ToolUnchanged, left' = left \/ Talk!Fault, call[k] # "completed",
         \/ events' = events
         \/ \E type \in {"running", "waiting", "completed", "failed"} :
              Talk!Emits(<<type, k>>) /\ (type = "completed" => step = "completed"),
         step \in {"none", "running"} => Counts(k, 0, 0, 0)',
         step = "waiting" => Counts(k, 1, 0, 0)', step = "confirming" => Counts(k, 1, 1, 0)',
         step = "completed" => Counts(k, 1, 0, 1)',
         step = "failed" => Counts(k, 0, 0, 0)' \/ Counts(k, 1, 0, 0)'
  PROVE  TalkInv'
<1>1. /\ ClientOK /\ ClientTypes /\ ServerOK /\ ToolsOK /\ EventsOK
  BY DEF TalkInv, ClientOK
<1>2. /\ call'[k] = step /\ call' \in [Calls -> TalkSteps]
      /\ \A l \in Calls : l # k => call'[l] = call[l]
  BY <1>1 DEF ToolsOK
<1>3. ToolOK(k)'
  BY <1>2 DEF ToolOK
<1>4. \A l \in Calls : l # k => ToolOK(l)'
  BY <1>1, <1>2 DEF ToolOK, ToolsOK, Counts
<1>5. ToolsOK'
  BY <1>2, <1>3, <1>4 DEF ToolsOK
<1>6. Sayable \subseteq Sayable'
  BY <1>2, SayableStays
<1>7. EventsOK'
  <2>1. CASE events' = events
    BY <1>1, <1>6, <2>1, EventsStay
  <2>2. ASSUME NEW type \in {"running", "waiting", "completed", "failed"},
               Talk!Emits(<<type, k>>), type = "completed" => step = "completed"
        PROVE  EventsOK'
    <3>1. <<type, k>> \in Talk!Event
      BY DEF Talk!Event
    <3>2. <<type, k>> \in Sayable'
      BY <1>2, <2>2, <3>1 DEF Sayable, Talk!Event
    <3> QED BY <1>1, <1>6, <2>2, <3>2, EventEmitted
  <2> QED BY <2>1, <2>2
<1>8. /\ UNCHANGED <<phase, peer, voice, ending, inbox, known, signal, delete>>
      /\ UNCHANGED <<session, managed>>
  BY DEF Talk!ToolUnchanged, Talk!client
<1>9. ClientOK'
  BY <1>1, <1>8, ClientStays DEF ClientTypes
<1>10. ServerOK'
  BY <1>1, <1>8, ServerStays DEF Talk!Fault
<1> QED BY <1>5, <1>7, <1>9, <1>10 DEF TalkInv

LEMMA ToolSteps ==
  ASSUME TalkBounds, TalkInv, NEW k \in Calls,
         \/ Talk!CallTool(k) \/ Talk!ToolReturns(k) \/ Talk!ToolReturnsTooLate(k)
         \/ Talk!Confirm(k) \/ Talk!Confirmed(k)
  PROVE  TalkInv'
<1>1. /\ ToolOK(k) /\ call[k] \in TalkSteps /\ tally \in [Calls -> Tally]
  BY DEF TalkInv, ToolsOK
<1>2. ASSUME UNCHANGED tally
      PROVE  /\ tally' \in [Calls -> Tally] /\ \A l \in Calls : l # k => tally'[l] = tally[l]
             /\ Counts(k, 0, 0, 0) => Counts(k, 0, 0, 0)'
  BY <1>1, <1>2 DEF Counts
<1>3. ASSUME tally' = [tally EXCEPT ![k].answers = tally[k].answers + 1], Counts(k, 0, 0, 0)
      PROVE  /\ tally' \in [Calls -> Tally] /\ \A l \in Calls : l # k => tally'[l] = tally[l]
             /\ Counts(k, 1, 0, 0)'
  BY <1>1, <1>3 DEF Counts, Tally
<1>4. CASE Talk!CallTool(k)
  <2>1. /\ call[k] = "none" /\ call' = [call EXCEPT ![k] = "running"]
        /\ Talk!Emits(<<"running", k>>) /\ tally' = tally /\ left' = left /\ Talk!ToolUnchanged
    BY <1>4 DEF Talk!CallTool
  <2>2. Counts(k, 0, 0, 0)
    BY <1>1, <2>1 DEF ToolOK
  <2> QED BY <1>2, <2>1, <2>2, ToolMoves DEF TalkSteps
<1>5. CASE Talk!ToolReturns(k)
  <2>1. call[k] = "running" /\ Talk!ToolUnchanged /\ Counts(k, 0, 0, 0)
    BY <1>1, <1>5 DEF Talk!ToolReturns, ToolOK
  <2>2. CASE /\ call' = [call EXCEPT ![k] = "completed"] /\ Talk!Emits(<<"completed", k>>)
             /\ tally' = [tally EXCEPT ![k].answers = tally[k].answers + 1,
                                       ![k].done = tally[k].done + 1]
             /\ left' = left
    <3>1. /\ tally' \in [Calls -> Tally] /\ \A l \in Calls : l # k => tally'[l] = tally[l]
          /\ Counts(k, 1, 0, 1)'
      BY <1>1, <2>1, <2>2 DEF Counts, Tally
    <3> QED BY <2>1, <2>2, <3>1, ToolMoves DEF TalkSteps
  <2>3. CASE /\ call' = [call EXCEPT ![k] = "waiting"] /\ Talk!Emits(<<"waiting", k>>)
             /\ tally' = [tally EXCEPT ![k].answers = tally[k].answers + 1] /\ left' = left
    BY <1>3, <2>1, <2>3, ToolMoves DEF TalkSteps
  <2>4. CASE /\ call' = [call EXCEPT ![k] = "failed"] /\ Talk!Emits(<<"failed", k>>)
             /\ tally' = [tally EXCEPT ![k].answers = tally[k].answers + 1] /\ Talk!Fault
    BY <1>3, <2>1, <2>4, ToolMoves DEF TalkSteps
  <2> QED BY <1>5, <2>2, <2>3, <2>4 DEF Talk!ToolReturns, Talk!Answers
<1>6. CASE Talk!ToolReturnsTooLate(k)
  <2>1. /\ call[k] = "running" /\ call' = [call EXCEPT ![k] = "failed"]
        /\ UNCHANGED <<tally, events, left>> /\ Talk!ToolUnchanged
    BY <1>6 DEF Talk!ToolReturnsTooLate
  <2>2. Counts(k, 0, 0, 0)
    BY <1>1, <2>1 DEF ToolOK
  <2> QED BY <1>2, <2>1, <2>2, ToolMoves DEF TalkSteps
<1>7. CASE Talk!Confirm(k)
  <2>1. /\ call[k] = "waiting" /\ call' = [call EXCEPT ![k] = "confirming"]
        /\ tally' = [tally EXCEPT ![k].asked = tally[k].asked + 1]
        /\ UNCHANGED <<events, left>> /\ Talk!ToolUnchanged
    BY <1>7 DEF Talk!Confirm, Talk!MayConfirm
  <2>2. Counts(k, 1, 0, 0)
    BY <1>1, <2>1 DEF ToolOK
  <2>3. /\ tally' \in [Calls -> Tally] /\ \A l \in Calls : l # k => tally'[l] = tally[l]
        /\ Counts(k, 1, 1, 0)'
    BY <1>1, <2>1, <2>2 DEF Counts, Tally
  <2> QED BY <2>1, <2>3, ToolMoves DEF TalkSteps
<1>8. CASE Talk!Confirmed(k)
  <2>1. tally[k].asked > 0 /\ Talk!ToolUnchanged
    BY <1>8 DEF Talk!Confirmed
  <2>2. call[k] = "confirming" /\ Counts(k, 1, 1, 0)
    BY <1>1, <2>1 DEF ToolOK, TalkSteps, Counts
  <2>3. CASE /\ call' = [call EXCEPT ![k] = "completed"] /\ left' = left
             /\ tally' = [tally EXCEPT ![k].asked = tally[k].asked - 1,
                                       ![k].done = tally[k].done + 1]
             /\ events' = events \/ Talk!Emits(<<"completed", k>>)
    <3>1. /\ tally' \in [Calls -> Tally] /\ \A l \in Calls : l # k => tally'[l] = tally[l]
          /\ Counts(k, 1, 0, 1)'
      BY <1>1, <2>2, <2>3 DEF Counts, Tally
    <3> QED BY <2>1, <2>2, <2>3, <3>1, ToolMoves DEF TalkSteps
  <2>4. CASE /\ call' = [call EXCEPT ![k] = "waiting"] /\ Talk!Fault
             /\ tally' = [tally EXCEPT ![k].asked = tally[k].asked - 1] /\ events' = events
    <3>1. /\ tally' \in [Calls -> Tally] /\ \A l \in Calls : l # k => tally'[l] = tally[l]
          /\ Counts(k, 1, 0, 0)'
      BY <1>1, <2>2, <2>4 DEF Counts, Tally
    <3> QED BY <2>1, <2>2, <2>4, <3>1, ToolMoves DEF TalkSteps
  <2> QED BY <1>8, <2>3, <2>4 DEF Talk!Confirmed
<1> QED BY <1>4, <1>5, <1>6, <1>7, <1>8

LEMMA TalkStarts ==
  ASSUME TalkBounds, Talk!Init
  PROVE  TalkInv
<1> USE DEF Talk!Init
<1>1. ClientTypes
  BY DEF ClientTypes, TalkPhase
<1>2. EndOK /\ MuteOK
  BY DEF EndOK, MuteOK
<1>3. ServerOK
  <2>1. \A f : f = [messages |-> MaxMessages, toggles |-> MaxToggles, faults |-> MaxFaults] =>
                 f \in [{"messages", "toggles", "faults"} -> Nat]
    BY DEF TalkBounds
  <2> QED BY <2>1 DEF ServerOK
<1>4. ToolsOK
  BY DEF ToolsOK, ToolOK, Counts, Tally, TalkSteps
<1>5. EventsOK
  BY DEF EventsOK, EventsOf, TalkBounds
<1> QED BY <1>1, <1>2, <1>3, <1>4, <1>5 DEF TalkInv, ClientOK

LEMMA TalkStutters ==
  ASSUME TalkInv, UNCHANGED Talk!vars
  PROVE  TalkInv'
<1>1. /\ UNCHANGED <<phase, peer, voice, ending, inbox, signal, known, delete>>
      /\ UNCHANGED <<session, managed, events, call, tally, left>>
  BY DEF Talk!vars
<1>2. ClientOK'
  BY <1>1, ClientStays DEF TalkInv, ClientOK, ClientTypes
<1> QED BY <1>1, <1>2, BrowserSteps

LEMMA TalkIsSound ==
  ASSUME TalkInv
  PROVE  Talk!TypeOK /\ Talk!NothingIsLeftOn /\ Talk!OutputIsRestored /\ Talk!ToolsAreDoneOnce
<1>1. ClientTypes /\ EndOK /\ MuteOK /\ ServerOK /\ ToolsOK /\ EventsOK
  BY DEF TalkInv, ClientOK
<1>2. /\ events.queued \in Seq(Sayable) /\ events.sent \in Seq(Sayable)
      /\ events.seen \in Seq(Sayable) /\ events.all \in Seq(Talk!Event)
      /\ events.stream \in {"no", "asked", "open", "over"}
      /\ Len(events.queued) <= MaxQueued
  BY <1>1 DEF EventsOK, EventsOf
<1>3. Sayable \subseteq Talk!Event
  BY DEF Sayable
<1>4. /\ events.queued \in Seq(Talk!Event) /\ events.sent \in Seq(Talk!Event)
      /\ events.seen \in Seq(Talk!Event)
  BY <1>2, <1>3, WiderSequences
<1>5. Talk!TypeOK
  <2>1. /\ phase \in {"new", "ice", "signaling", "answered", "opening", "connected", "over"}
        /\ inbox \subseteq Talk!Messages /\ {known, managed} \subseteq BOOLEAN
    BY <1>1 DEF ClientTypes, TalkPhase, ServerOK
  <2>2. /\ call \in [Calls -> TalkSteps]
        /\ tally \in [Calls -> [answers : Nat, asked : Nat, done : Nat]]
    BY <1>1 DEF ToolsOK, Tally
  <2> QED BY <1>1, <1>2, <1>4, <2>1, <2>2 DEF Talk!TypeOK, ClientTypes, ServerOK, TalkSteps
<1>6. Talk!NothingIsLeftOn
  BY <1>1 DEF Talk!NothingIsLeftOn, Talk!IsOver, EndOK
<1>7. Talk!OutputIsRestored
  BY <1>1 DEF Talk!OutputIsRestored, MuteOK
<1>8. ASSUME NEW k \in Calls
      PROVE  /\ tally[k].answers <= 1 /\ tally[k].done <= 1
             /\ call[k] \in {"waiting", "confirming", "completed"} => tally[k].answers = 1
             /\ <<"completed", k>> \in Talk!ToSet(events.seen) => tally[k].done = 1
  <2>1. ToolOK(k) /\ call[k] \in TalkSteps /\ tally[k] \in Tally
    BY <1>1 DEF ToolsOK
  <2>2. tally[k].answers \in {0, 1} /\ tally[k].done \in {0, 1}
    BY <2>1 DEF ToolOK, Counts, TalkSteps
  <2>3. call[k] \in {"waiting", "confirming", "completed"} => tally[k].answers = 1
    BY <2>1 DEF ToolOK, Counts
  <2>4. ASSUME <<"completed", k>> \in Talk!ToSet(events.seen) PROVE tally[k].done = 1
    <3>1. PICK i \in DOMAIN events.seen : events.seen[i] = <<"completed", k>>
      BY <2>4 DEF Talk!ToSet
    <3>2. events.seen[i] \in Sayable
      <4>1. events.seen \in Seq(Sayable)
        BY <1>2
      <4>2. i \in 1 .. Len(events.seen)
        BY <3>1, <4>1
      <4> QED BY <4>1, <4>2
    <3>3. call[k] = "completed"
      BY <3>1, <3>2 DEF Sayable
    <3> QED BY <2>1, <3>3 DEF ToolOK, Counts
  <2> QED BY <2>2, <2>3, <2>4
<1>9. Talk!ToolsAreDoneOnce
  BY <1>8 DEF Talk!ToolsAreDoneOnce
<1> QED BY <1>5, <1>6, <1>7, <1>9

-----------------------------------------------------------------------------
(* The order of the events of a voice call. *)

OnceEach(t) == \A m, n \in 1 .. Len(t) : t[m] = t[n] => m = n

\* What is left of a sequence keeps its order.
LEMMA Joined ==
  ASSUME NEW S, NEW s \in Seq(S), NEW t \in Seq(S), NEW la \in Nat, NEW lb \in Nat,
         Len(s) = la, Len(t) = lb
  PROVE  /\ s \o t \in Seq(S) /\ Len(s \o t) = la + lb
         /\ \A i \in 1 .. la : (s \o t)[i] = s[i]
         /\ \A i \in 1 .. lb : (s \o t)[la + i] = t[i]
OBVIOUS

LEMMA MiddleDropped ==
  ASSUME NEW S, NEW all \in Seq(S), NEW a \in Seq(S), NEW b \in Seq(S), NEW c \in Seq(S),
         Talk!InOrder((a \o b) \o c, all)
  PROVE  Talk!InOrder(a \o c, all)
<1> DEFINE ab == a \o b
           h == ab \o c
           r == a \o c
           la == Len(a)
           lb == Len(b)
           lc == Len(c)
<1>1. la \in Nat /\ lb \in Nat /\ lc \in Nat
  OBVIOUS
<1>2. /\ ab \in Seq(S) /\ Len(ab) = la + lb /\ \A i \in 1 .. la : ab[i] = a[i]
  BY <1>1, Joined
<1>3. /\ r \in Seq(S) /\ Len(r) = la + lc /\ \A i \in 1 .. la : r[i] = a[i]
      /\ \A i \in 1 .. lc : r[la + i] = c[i]
  BY <1>1, Joined
<1> HIDE DEF ab, r
<1>4. h \in Seq(S) /\ Len(h) = la + lb + lc
  <2>1. ab \in Seq(S)
    BY <1>2
  <2>2. h \in Seq(S) /\ Len(h) = Len(ab) + Len(c)
    BY <2>1
  <2> QED BY <1>2, <2>2
<1>5. Talk!InOrder(h, all)
  BY DEF ab
<1>6. \A i \in 1 .. lc : h[la + lb + i] = c[i]
  <2>1. /\ Len(h) = Len(ab) + Len(c)
        /\ \A i \in 1 .. Len(ab) + Len(c) : h[i] = IF i <= Len(ab) THEN ab[i] ELSE c[i - Len(ab)]
    <3>1. ab \in Seq(S)
      BY <1>2
    <3> QED BY <3>1
  <2> SUFFICES ASSUME NEW i \in 1 .. lc PROVE h[la + lb + i] = c[i]
    OBVIOUS
  <2> HIDE DEF h, la, lb, lc
  <2>2. la + lb + i \in 1 .. (la + lb) + lc /\ ~(la + lb + i <= la + lb) /\ (la + lb + i) - (la + lb) = i
    BY <1>1
  <2>3. Len(ab) = la + lb /\ Len(c) = lc
    BY <1>2 DEF lc
  <2> QED BY ONLY <2>1, <2>2, <2>3
<1>7. \A i \in 1 .. la : h[i] = a[i]
  <2> SUFFICES ASSUME NEW i \in 1 .. la PROVE h[i] = a[i]
    OBVIOUS
  <2>1. i \in 1 .. Len(ab) /\ ab[i] = a[i]
    BY <1>1, <1>2
  <2>2. h[i] = ab[i]
    BY <1>2, <2>1
  <2> QED BY <2>1, <2>2
<1>8. Len(r) = la + lc
  BY <1>3
<1> HIDE DEF h, la, lb, lc
<1> DEFINE at(i) == IF i <= la THEN i ELSE i + lb
<1>9. ASSUME NEW i \in 1 .. Len(r) PROVE at(i) \in 1 .. Len(h) /\ r[i] = h[at(i)]
  <2>1. at(i) \in 1 .. Len(h)
    BY ONLY <1>1, <1>4, <1>8, i \in 1 .. Len(r)
  <2>2. CASE i <= la
    BY <1>1, <1>3, <1>7, <1>8, <2>1, <2>2
  <2>3. CASE ~(i <= la)
    <3>1. i - la \in 1 .. lc /\ la + (i - la) = i /\ at(i) = la + lb + (i - la)
      BY ONLY <1>1, <1>8, <2>3, i \in 1 .. Len(r)
    <3>2. r[la + (i - la)] = c[i - la] /\ h[la + lb + (i - la)] = c[i - la]
      BY <1>3, <1>6, <3>1
    <3> QED BY <2>1, <3>1, <3>2
  <2> QED BY <2>2, <2>3
<1>10. ASSUME NEW i \in 1 .. Len(r), NEW j \in 1 .. Len(r), i < j PROVE at(i) < at(j)
  <2>1. i \in Int /\ j \in Int /\ la \in Nat /\ lb \in Nat
    BY <1>1
  <2>2. CASE i <= la
    BY <1>10, <2>1, <2>2
  <2>3. CASE ~(i <= la)
    BY <1>10, <2>1, <2>3
  <2> QED BY <2>2, <2>3
<1> HIDE DEF at
<1>11. ASSUME NEW i \in 1 .. Len(r) PROVE \E m \in 1 .. Len(all) : all[m] = r[i]
  <2>1. at(i) \in 1 .. Len(h) /\ r[i] = h[at(i)]
    BY <1>9
  <2>2. \A k \in 1 .. Len(h) : \E m \in 1 .. Len(all) : all[m] = h[k]
    BY <1>5 DEF Talk!InOrder
  <2> QED BY <2>1, <2>2
<1>12. ASSUME NEW i \in 1 .. Len(r), NEW j \in 1 .. Len(r), i < j
       PROVE  \E m \in 1 .. Len(all) : all[m] = r[i] /\ \E n \in (m + 1) .. Len(all) : all[n] = r[j]
  <2>1. /\ at(i) \in 1 .. Len(h) /\ at(j) \in 1 .. Len(h) /\ at(i) < at(j)
        /\ r[i] = h[at(i)] /\ r[j] = h[at(j)]
    BY <1>9, <1>10, <1>12
  <2>2. \A k, l \in 1 .. Len(h) : k < l =>
          \E m \in 1 .. Len(all) : all[m] = h[k] /\ \E n \in (m + 1) .. Len(all) : all[n] = h[l]
    BY <1>5 DEF Talk!InOrder
  <2> QED BY <2>1, <2>2
<1>13. Talk!InOrder(r, all)
  BY <1>11, <1>12 DEF Talk!InOrder
<1> QED BY <1>13 DEF r

LEMMA AppendedToBoth ==
  ASSUME NEW S, NEW all \in Seq(S), NEW s \in Seq(S), Talk!InOrder(s, all), NEW e \in S
  PROVE  Talk!InOrder(Append(s, e), Append(all, e))
<1> DEFINE r == Append(s, e)
           t == Append(all, e)
<1>1. /\ r \in Seq(S) /\ Len(r) = Len(s) + 1 /\ r[Len(r)] = e
      /\ \A i \in 1 .. Len(s) : r[i] = s[i]
      /\ t \in Seq(S) /\ Len(t) = Len(all) + 1 /\ t[Len(t)] = e
      /\ \A i \in 1 .. Len(all) : t[i] = all[i]
      /\ Len(s) \in Nat /\ Len(all) \in Nat
  BY AppendProperties
<1> HIDE DEF r, t
<1>2. ASSUME NEW i \in 1 .. Len(r) PROVE \E m \in 1 .. Len(t) : t[m] = r[i]
  <2>1. CASE i = Len(r)
    BY <1>1, <2>1
  <2>2. CASE i # Len(r)
    <3>1. i \in 1 .. Len(s)
      BY <1>1, <2>2
    <3>2. PICK m \in 1 .. Len(all) : all[m] = s[i]
      BY <3>1 DEF Talk!InOrder
    <3>3. m \in 1 .. Len(t)
      BY ONLY <1>1, <3>2
    <3>4. t[m] = all[m] /\ r[i] = s[i]
      BY ONLY <1>1, <3>1, <3>2
    <3> QED BY ONLY <3>2, <3>3, <3>4
  <2> QED BY <2>1, <2>2
<1>3. ASSUME NEW i \in 1 .. Len(r), NEW j \in 1 .. Len(r), i < j
      PROVE  \E m \in 1 .. Len(t) : t[m] = r[i] /\ \E n \in (m + 1) .. Len(t) : t[n] = r[j]
  <2>1. i \in 1 .. Len(s)
    BY <1>1, <1>3
  <2>2. CASE j = Len(r)
    <3>1. PICK m \in 1 .. Len(all) : all[m] = s[i]
      BY <2>1 DEF Talk!InOrder
    <3>2. m \in 1 .. Len(t) /\ t[m] = r[i] /\ Len(t) \in (m + 1) .. Len(t) /\ t[Len(t)] = r[j]
      BY <1>1, <2>1, <2>2, <3>1
    <3> QED BY <3>2
  <2>3. CASE j # Len(r)
    <3>1. j \in 1 .. Len(s)
      BY <1>1, <2>3
    <3>2. PICK m \in 1 .. Len(all) : all[m] = s[i] /\ \E n \in (m + 1) .. Len(all) : all[n] = s[j]
      BY <1>3, <2>1, <3>1 DEF Talk!InOrder
    <3>3. PICK n \in (m + 1) .. Len(all) : all[n] = s[j]
      BY <3>2
    <3>4. /\ m \in 1 .. Len(t) /\ t[m] = r[i]
          /\ n \in (m + 1) .. Len(t) /\ n \in 1 .. Len(all) /\ t[n] = r[j]
      BY <1>1, <2>1, <3>1, <3>2, <3>3
    <3> QED BY <3>4
  <2> QED BY <2>2, <2>3
<1> QED BY <1>2, <1>3 DEF Talk!InOrder, r, t

LEMMA OnceAppended ==
  ASSUME NEW S, NEW t \in Seq(S), OnceEach(t), NEW e, \A m \in 1 .. Len(t) : t[m] # e
  PROVE  OnceEach(Append(t, e))
<1>1. /\ Len(Append(t, e)) = Len(t) + 1 /\ Append(t, e)[Len(t) + 1] = e
      /\ \A i \in 1 .. Len(t) : Append(t, e)[i] = t[i] /\ Len(t) \in Nat
  OBVIOUS
<1>2. ASSUME NEW m \in 1 .. Len(t) + 1, NEW n \in 1 .. Len(t) + 1,
             Append(t, e)[m] = Append(t, e)[n]
      PROVE  m = n
  <2>1. m \in 1 .. Len(t) \/ m = Len(t) + 1
    BY <1>1
  <2>2. n \in 1 .. Len(t) \/ n = Len(t) + 1
    BY <1>1
  <2> QED BY <1>1, <1>2, <2>1, <2>2 DEF OnceEach
<1> QED BY <1>1, <1>2 DEF OnceEach

LEMMA FirstNumbers ==
  \A n \in Nat : IsFiniteSet(1 .. n) /\ Cardinality(1 .. n) = n
BY FS_Interval

\* In the order of what has nothing twice, nothing is twice.
LEMMA OrderedOnce ==
  ASSUME NEW S, NEW t \in Seq(S), OnceEach(t), NEW s \in Seq(S), Talk!InOrder(s, t)
  PROVE  Cardinality({s[i] : i \in DOMAIN s}) = Len(s)
<1> DEFINE R == {s[i] : i \in DOMAIN s}
<1>1. Len(s) \in Nat /\ Len(t) \in Nat /\ DOMAIN s = 1 .. Len(s) /\ s \in [1 .. Len(s) -> R]
  OBVIOUS
<1>2. ASSUME NEW i \in 1 .. Len(s), NEW j \in 1 .. Len(s), i < j PROVE s[i] # s[j]
  <2>1. PICK m \in 1 .. Len(t) : t[m] = s[i] /\ \E n \in (m + 1) .. Len(t) : t[n] = s[j]
    BY <1>2 DEF Talk!InOrder
  <2>2. PICK n \in (m + 1) .. Len(t) : t[n] = s[j]
    BY <2>1
  <2>3. m # n /\ n \in 1 .. Len(t)
    BY ONLY Len(t) \in Nat, m \in 1 .. Len(t), n \in (m + 1) .. Len(t)
  <2> QED BY <2>1, <2>2, <2>3 DEF OnceEach
<1>3. \A i, j \in 1 .. Len(s) : s[i] = s[j] => i = j
  <2> SUFFICES ASSUME NEW i \in 1 .. Len(s), NEW j \in 1 .. Len(s), s[i] = s[j] PROVE i = j
    OBVIOUS
  <2>1. i < j \/ j < i \/ i = j
    OBVIOUS
  <2> QED BY <1>2, <2>1
<1>4. \A x \in R : \E i \in 1 .. Len(s) : s[i] = x
  BY <1>1
<1> HIDE DEF R
<1>5. s \in [1 .. Len(s) -> R]
  BY <1>1
<1>6. s \in Bijection(1 .. Len(s), R)
  <2>1. s \in Injection(1 .. Len(s), R)
    BY ONLY <1>3, <1>5 DEF Injection, IsInjective
  <2>2. s \in Surjection(1 .. Len(s), R)
    BY ONLY <1>4, <1>5 DEF Surjection
  <2> QED BY <2>1, <2>2 DEF Bijection
<1>7. ExistsBijection(1 .. Len(s), R)
  BY <1>6 DEF ExistsBijection
<1>8. IsFiniteSet(1 .. Len(s)) /\ Cardinality(1 .. Len(s)) = Len(s)
  BY FirstNumbers, Len(s) \in Nat
<1>9. Cardinality(R) = Len(s)
  BY <1>7, <1>8, FS_Bijection
<1> QED BY <1>9 DEF R

Had(ev) == ev.seen \o ev.sent \o ev.queued
LinedUp(ev) ==
  /\ OnceEach(ev.all) /\ Talk!InOrder(Had(ev), ev.all)
  /\ ev.stream = "open" => ev.queued = << >>
  /\ ev.stream # "over" /\ Len(ev.all) <= MaxQueued => Had(ev) = ev.all

\* Had, as parts.
LEMMA AppendedThird ==
  ASSUME NEW S, NEW a \in Seq(S), NEW b \in Seq(S), NEW c \in Seq(S), NEW e \in S
  PROVE  (a \o b) \o Append(c, e) = Append((a \o b) \o c, e)
<1> DEFINE ab == a \o b
           x == <<e>>
<1>1. ab \in Seq(S) /\ x \in Seq(S) /\ ab \o c \in Seq(S)
  OBVIOUS
<1>2. Append(c, e) = c \o x /\ Append(ab \o c, e) = (ab \o c) \o x
  BY <1>1, AppendIsConcat
<1> HIDE DEF ab, x
<1>3. (ab \o c) \o x = ab \o (c \o x)
  BY <1>1
<1>4. ab \o Append(c, e) = Append(ab \o c, e)
  BY <1>2, <1>3
<1> QED BY <1>4 DEF ab

LEMMA AppendedSecond ==
  ASSUME NEW S, NEW a \in Seq(S), NEW b \in Seq(S), NEW e \in S
  PROVE  (a \o Append(b, e)) \o << >> = Append((a \o b) \o << >>, e)
<1> DEFINE x == <<e>>
<1>1. /\ x \in Seq(S) /\ Append(b, e) \in Seq(S) /\ a \o b \in Seq(S)
      /\ a \o Append(b, e) \in Seq(S)
  OBVIOUS
<1>2. Append(b, e) = b \o x /\ Append(a \o b, e) = (a \o b) \o x
  BY <1>1, AppendIsConcat
<1> HIDE DEF x
<1>3. (a \o b) \o x = a \o (b \o x)
  BY <1>1
<1>4. (a \o Append(b, e)) \o << >> = a \o Append(b, e) /\ (a \o b) \o << >> = a \o b
  BY <1>1, ConcatEmptySeq
<1> QED BY <1>2, <1>3, <1>4

LEMMA WithoutFirst ==
  ASSUME NEW S, NEW all \in Seq(S), NEW a \in Seq(S), NEW s \in Seq(S), s # << >>,
         Talk!InOrder(a \o s, all)
  PROVE  Talk!InOrder(a \o Tail(s), all)
<1> DEFINE x == <<Head(s)>>
           t == Tail(s)
<1>1. x \in Seq(S) /\ t \in Seq(S) /\ s = x \o t
  OBVIOUS
<1> HIDE DEF x, t
<1>2. a \o s = (a \o x) \o t
  BY <1>1
<1>3. Talk!InOrder(a \o t, all)
  BY <1>1, <1>2, MiddleDropped
<1> QED BY <1>3 DEF t

\* What happens to the events there are.
LEMMA StillInLine ==
  ASSUME NEW ev, NEW new, LinedUp(ev), new.all = ev.all, Talk!InOrder(Had(new), ev.all),
         new.stream = "open" => new.queued = << >>,
         new.stream # "over" => ev.stream # "over" /\ Had(new) = Had(ev)
  PROVE  LinedUp(new)
BY DEF LinedUp

LEMMA AbortedInLine ==
  ASSUME NEW S, NEW ev \in EventsOf(S), NEW new \in EventsOf(S), S \subseteq Talk!Event, LinedUp(ev),
         new.all = ev.all, new.seen = ev.seen, new.sent = << >>, new.queued = ev.queued,
         new.stream = "over"
  PROVE  LinedUp(new)
<1>1. /\ ev.seen \in Seq(S) /\ ev.sent \in Seq(S) /\ ev.queued \in Seq(S)
      /\ ev.all \in Seq(Talk!Event)
  BY DEF EventsOf
<1>2. /\ ev.seen \in Seq(Talk!Event) /\ ev.sent \in Seq(Talk!Event)
      /\ ev.queued \in Seq(Talk!Event)
  BY <1>1, WiderSequences
<1>3. Talk!InOrder(ev.seen \o ev.queued, ev.all)
  BY <1>1, <1>2, MiddleDropped DEF LinedUp, Had
<1>4. ev.seen \o << >> = ev.seen
  BY <1>1, ConcatEmptySeq
<1>5. Had(new) = ev.seen \o ev.queued
  BY <1>4 DEF Had
<1> QED BY <1>3, <1>5, StillInLine

LEMMA TakenInLine ==
  ASSUME NEW S, NEW ev \in EventsOf(S), NEW new \in EventsOf(S), LinedUp(ev),
         new.all = ev.all, new.seen = ev.seen, new.sent = ev.sent \o ev.queued,
         new.queued = << >>, ev.stream # "over"
  PROVE  LinedUp(new)
<1> DEFINE a == ev.seen
           b == ev.sent
           c == ev.queued
<1>1. a \in Seq(S) /\ b \in Seq(S) /\ c \in Seq(S)
  BY DEF EventsOf
<1>2. Had(new) = (a \o (b \o c)) \o << >> /\ Had(ev) = (a \o b) \o c
  BY DEF Had
<1> HIDE DEF a, b, c
<1>3. (a \o (b \o c)) \o << >> = (a \o b) \o c
  BY <1>1
<1> QED BY <1>2, <1>3, StillInLine DEF LinedUp

LEMMA ReadInLine ==
  ASSUME NEW S, NEW ev \in EventsOf(S), NEW new \in EventsOf(S), LinedUp(ev), ev.sent # << >>,
         new.all = ev.all, new.seen = Append(ev.seen, Head(ev.sent)), new.sent = Tail(ev.sent),
         new.queued = ev.queued, new.stream = ev.stream \/ new.stream = "over"
  PROVE  LinedUp(new)
<1> DEFINE a == ev.seen
           b == ev.sent
           c == ev.queued
<1>1. a \in Seq(S) /\ b \in Seq(S) /\ b # << >>
  BY DEF EventsOf
<1>2. Had(new) = (Append(a, Head(b)) \o Tail(b)) \o c /\ Had(ev) = (a \o b) \o c
  BY DEF Had
<1> HIDE DEF a, b, c
<1>3. Append(a, Head(b)) \o Tail(b) = a \o b
  <2> DEFINE h == <<Head(b)>>
             t == Tail(b)
  <2>1. Head(b) \in S /\ h \in Seq(S) /\ t \in Seq(S) /\ b = h \o t
    BY <1>1
  <2>2. Append(a, Head(b)) = a \o h
    BY <1>1, <2>1, AppendIsConcat
  <2> HIDE DEF h, t
  <2>3. (a \o h) \o t = a \o (h \o t)
    BY <1>1, <2>1
  <2> QED BY <2>1, <2>2, <2>3 DEF t
<1> QED BY <1>2, <1>3, StillInLine DEF LinedUp

\* No event comes twice: what has been said shows in the session and its calls.
Said == {e \in Talk!Event :
  /\ e = <<"started">> => session # "none"
  /\ e = <<"closed">> => session = "over"
  /\ \A k \in Calls : /\ e = <<"running", k>> => call[k] # "none"
                      /\ e = <<"waiting", k>> => call[k] \in {"waiting", "confirming", "completed"}
                      /\ e = <<"completed", k>> => call[k] = "completed"
                      /\ e = <<"failed", k>> => call[k] = "failed"}
Course ==
  /\ phase \in {"new", "ice"} => signal = "no"
  /\ signal \in {"no", "sent"} => session = "none"
  /\ phase # "connected" => events.stream = "no" /\ events.sent = << >>
EventsInLine == events.all \in Seq(Said) /\ LinedUp(events)
OrderInv == EventsInLine /\ Course

LEMMA AnyEvents ==
  ASSUME NEW S, S \subseteq Talk!Event, NEW ev \in EventsOf(S)
  PROVE  ev \in EventsOf(Talk!Event)
<1>1. ev.queued \in Seq(S) /\ ev.sent \in Seq(S) /\ ev.seen \in Seq(S)
  BY DEF EventsOf
<1>2. ev.queued \in Seq(Talk!Event) /\ ev.sent \in Seq(Talk!Event) /\ ev.seen \in Seq(Talk!Event)
  BY <1>1, WiderSequences
<1> QED BY <1>2 DEF EventsOf

LEMMA SaidStays ==
  ASSUME session # "none" => session' # "none", session = "over" => session' = "over",
         \A k \in Calls :
           /\ call[k] # "none" => call'[k] # "none"
           /\ call[k] \in {"waiting", "confirming", "completed"} =>
                call'[k] \in {"waiting", "confirming", "completed"}
           /\ call[k] = "completed" => call'[k] = "completed"
           /\ call[k] = "failed" => call'[k] = "failed"
  PROVE  Said \subseteq Said'
BY DEF Said

LEMMA EventLineStays ==
  ASSUME EventsInLine, Said \subseteq Said', events' = events
  PROVE  EventsInLine'
<1>1. events.all \in Seq(Said')
  BY WiderSequences DEF EventsInLine
<1> QED BY <1>1 DEF EventsInLine, LinedUp, Had

LEMMA EventLineMoves ==
  ASSUME EventsInLine, UNCHANGED <<session, call>>, events'.all = events.all, LinedUp(events')
  PROVE  EventsInLine'
<1>1. Said' = Said
  BY DEF Said
<1> QED BY <1>1 DEF EventsInLine, LinedUp, Had

LEMMA EventLineGrows ==
  ASSUME TalkBounds, EventsOK, EventsInLine, Said \subseteq Said', NEW e \in Said', e \notin Said,
         Talk!Emits(e)
  PROVE  /\ EventsInLine' /\ events'.stream = events.stream
         /\ events.stream # "open" => events'.sent = events.sent
<1> DEFINE a == events.seen
           b == events.sent
           c == events.queued
           all == events.all
<1>1. events \in EventsOf(Talk!Event)
  BY AnyEvents DEF EventsOK, Sayable
<1>2. /\ a \in Seq(Talk!Event) /\ b \in Seq(Talk!Event) /\ c \in Seq(Talk!Event)
      /\ all \in Seq(Talk!Event) /\ e \in Talk!Event
  BY <1>1 DEF EventsOf, Said
<1>3. all \in Seq(Said) /\ OnceEach(all) /\ Talk!InOrder((a \o b) \o c, all)
  BY DEF EventsInLine, LinedUp, Had
<1>4. \A m \in 1 .. Len(all) : all[m] # e
  <2> HIDE DEF all
  <2> QED BY <1>3
<1>5. Append(all, e) \in Seq(Said')
  <2>1. all \in Seq(Said')
    BY <1>3, WiderSequences
  <2> QED BY <2>1
<1>6. CASE events.stream = "open"
  <2>1. c = << >>
    BY <1>6 DEF EventsInLine, LinedUp
  <2>2. /\ events' = [events EXCEPT !.all = Append(all, e), !.sent = Append(b, e)]
    BY <1>6 DEF Talk!Emits, Talk!EmitTo
  <2>3. /\ events'.all = Append(all, e) /\ events'.sent = Append(b, e) /\ events'.seen = a
        /\ events'.queued = << >> /\ events'.stream = "open"
    BY <1>1, <1>6, <2>1, <2>2 DEF EventsOf
  <2>4. Had(events) = (a \o b) \o << >> /\ Had(events') = (a \o Append(b, e)) \o << >>
    BY <2>1, <2>3 DEF Had
  <2>5. Len(all) \in Nat /\ Len(Append(all, e)) = Len(all) + 1 /\ MaxQueued \in Nat
    BY <1>2 DEF TalkBounds
  <2>6. Len(all) <= MaxQueued => Had(events) = all
    BY <1>6 DEF EventsInLine, LinedUp
  <2>7. Talk!InOrder(Had(events), all)
    BY <1>3 DEF Had
  <2> HIDE DEF a, b, c, all
  <2>8. Had(events') = Append(Had(events), e)
    BY <1>2, <2>4, AppendedSecond
  <2>9. Had(events) \in Seq(Talk!Event)
    BY <1>2, <2>4
  <2>10. OnceEach(Append(all, e)) /\ Talk!InOrder(Append(Had(events), e), Append(all, e))
    BY <1>2, <1>3, <1>4, <2>7, <2>9, OnceAppended, AppendedToBoth
  <2>11. Len(Append(all, e)) <= MaxQueued => Append(Had(events), e) = Append(all, e)
    BY <2>5, <2>6
  <2>12. LinedUp(events')
    BY <2>3, <2>8, <2>10, <2>11 DEF LinedUp
  <2> QED BY <1>5, <1>6, <2>3, <2>12 DEF EventsInLine, LinedUp, Had
<1>7. CASE events.stream # "open"
  <2>1. events' = [events EXCEPT !.all = Append(all, e), !.queued = Talk!Newest(Append(c, e))]
    BY <1>7 DEF Talk!Emits, Talk!EmitTo
  <2>2. /\ events'.all = Append(all, e) /\ events'.sent = b /\ events'.seen = a
        /\ events'.queued = Talk!Newest(Append(c, e)) /\ events'.stream = events.stream
    BY <1>1, <2>1 DEF EventsOf
  <2>3. Had(events') = (a \o b) \o Talk!Newest(Append(c, e))
    BY <2>2 DEF Had
  <2>4. events.stream # "over" /\ Len(all) <= MaxQueued => (a \o b) \o c = all
    BY DEF EventsInLine, LinedUp, Had
  <2>5. Len(all) \in Nat /\ Len(Append(all, e)) = Len(all) + 1 /\ MaxQueued \in Nat
    BY <1>2 DEF TalkBounds
  <2> HIDE DEF a, b, c, all
  <2> DEFINE ab == a \o b
             had == ab \o c
             long == Append(c, e)
             t == Append(all, e)
  <2>6. ab \in Seq(Talk!Event) /\ had \in Seq(Talk!Event) /\ long \in Seq(Talk!Event)
    BY <1>2
  <2>7. ab \o long = Append(had, e)
    BY <1>2, AppendedThird
  <2>8. OnceEach(t) /\ Talk!InOrder(Append(had, e), t)
    BY <1>2, <1>3, <1>4, <2>6, OnceAppended, AppendedToBoth
  <2>9. long # << >> /\ Len(long) = Len(c) + 1 /\ Len(c) \in Nat
    BY <1>2
  <2>10. t \in Seq(Talk!Event)
    BY <1>2
  <2> HIDE DEF ab, long, t
  <2>11. Talk!InOrder(ab \o Talk!Newest(long), t)
    <3>1. Talk!InOrder(ab \o Tail(long), t)
      BY <2>6, <2>7, <2>8, <2>9, <2>10, WithoutFirst
    <3> QED BY <2>7, <2>8, <3>1 DEF Talk!Newest
  <2>12. ASSUME events.stream # "over", Len(t) <= MaxQueued PROVE ab \o Talk!Newest(long) = t
    <3>1. had = all
      BY <2>4, <2>5, <2>12 DEF ab, t
    <3>2. Len(had) = Len(ab) + Len(c) /\ Len(ab) \in Nat
      BY <1>2, <2>6
    <3>3. Len(long) <= MaxQueued /\ Len(long) \in Nat
      BY <2>5, <2>9, <2>12, <3>1, <3>2 DEF t
    <3>4. Talk!Newest(long) = long
      BY <2>5, <3>3 DEF Talk!Newest
    <3> QED BY <2>7, <3>1, <3>4 DEF t
  <2>13. LinedUp(events')
    <3>1. Had(events') = ab \o Talk!Newest(long) /\ events'.all = t
      BY <2>2, <2>3 DEF ab, long, t
    <3> QED BY <1>7, <2>2, <2>8, <2>11, <2>12, <3>1 DEF LinedUp
  <2>14. events'.all \in Seq(Said') /\ events'.sent = events.sent
    BY <1>5, <2>2 DEF b
  <2>15. EventsInLine'
    BY <2>13, <2>14 DEF EventsInLine, LinedUp, Had
  <2> QED BY <2>2, <2>14, <2>15
<1> QED BY <1>6, <1>7

LEMMA EventLineEnds ==
  ASSUME EventsOK, EventsOK', EventsInLine, UNCHANGED <<session, call>>, Talk!StreamAborted
  PROVE  EventsInLine' /\ events'.stream = "over"
<1>1. events \in EventsOf(Talk!Event) /\ events' \in EventsOf(Talk!Event)
  BY AnyEvents DEF EventsOK, Sayable
<1>2. events' = [events EXCEPT !.stream = "over", !.sent = << >>]
  BY DEF Talk!StreamAborted
<1>3. /\ events'.all = events.all /\ events'.seen = events.seen /\ events'.sent = << >>
      /\ events'.queued = events.queued /\ events'.stream = "over"
  BY <1>1, <1>2 DEF EventsOf
<1>4. LinedUp(events')
  BY <1>1, <1>3, AbortedInLine DEF EventsInLine
<1> QED BY <1>3, <1>4, EventLineMoves

LEMMA EventLineCloses ==
  ASSUME EventsOK, EventsOK', EventsInLine, UNCHANGED <<session, call>>, Talk!ClosesServer
  PROVE  EventsInLine' /\ events'.stream \in {events.stream, "over"}
<1>1. Said \subseteq Said'
  BY DEF Said
<1> QED BY <1>1, EventLineStays, EventLineEnds DEF Talk!ClosesServer

LEMMA ConnectInOrder ==
  ASSUME TalkInv, OrderInv,
         Talk!GetMedia \/ Talk!SendOffer \/ Talk!AnswerArrives \/ Talk!ConnectFails
           \/ Talk!SetAnswer \/ Talk!ChannelOpens
  PROVE  OrderInv'
<1> USE DEF Talk!server
<1>1. UNCHANGED <<session, call, events>> /\ phase # "connected"
  BY DEF Talk!GetMedia, Talk!SendOffer, Talk!AnswerArrives, Talk!ConnectFails, Talk!GivesUp,
     Talk!SetAnswer, Talk!ChannelOpens
<1>2. EventsInLine'
  BY <1>1, SaidStays, EventLineStays DEF OrderInv
<1>3. /\ phase' \in {"new", "ice"} => signal' = "no"
      /\ signal' \in {"no", "sent"} => session = "none"
  BY
  DEF OrderInv, Course, Talk!GetMedia, Talk!SendOffer, Talk!AnswerArrives,
      Talk!ConnectFails,
     Talk!GivesUp, Talk!SetAnswer, Talk!ChannelOpens
<1> QED BY <1>1, <1>2, <1>3 DEF OrderInv, Course

LEMMA EndInOrder ==
  ASSUME TalkInv, TalkInv', OrderInv,
         Talk!Connected \/ Talk!Close \/ Talk!CloseServer \/ Talk!Abort \/ Talk!ChannelCloses
  PROVE  OrderInv'
<1> USE DEF Talk!server, Talk!client
<1>1. EventsOK /\ EventsOK' /\ EventsInLine /\ Course
  BY DEF TalkInv, OrderInv
<1>2. UNCHANGED <<signal, session, call>>
  BY DEF Talk!Connected, Talk!Close, Talk!CloseServer, Talk!Abort, Talk!ChannelCloses
<1>3. (phase = "opening" /\ phase' = "connected") \/ phase' = phase
  BY DEF Talk!Connected, Talk!Close, Talk!CloseServer, Talk!Abort, Talk!ChannelCloses
<1>4. \/ events' = events
      \/ Talk!ClosesServer /\ phase' = "connected"
      \/ /\ events' = [events EXCEPT !.stream = "asked"]
         /\ phase = "opening" /\ phase' = "connected"
  BY DEF Talk!Connected, Talk!Close, Talk!CloseServer, Talk!Abort, Talk!ChannelCloses
<1>5. ASSUME events' = events PROVE EventsInLine'
  BY <1>1, <1>2, <1>3, <1>5, SaidStays, EventLineStays DEF Course
<1>6. ASSUME Talk!ClosesServer PROVE EventsInLine'
  BY <1>1, <1>2, <1>6, EventLineCloses
<1>7. ASSUME events' = [events EXCEPT !.stream = "asked"], phase = "opening" PROVE EventsInLine'
  <2>1. events \in EventsOf(Sayable)
    BY <1>1 DEF EventsOK
  <2>2. events'.all = events.all /\ Had(events') = Had(events) /\ events'.stream = "asked"
    BY <1>7, <2>1 DEF EventsOf, Had
  <2>3. events.stream = "no"
    BY <1>1, <1>7 DEF Course
  <2>4. LinedUp(events')
    BY <1>1, <2>2, <2>3 DEF EventsInLine, LinedUp
  <2> QED BY <1>1, <1>2, <2>2, <2>4, EventLineMoves
<1> QED BY <1>1, <1>2, <1>3, <1>4, <1>5, <1>6, <1>7 DEF OrderInv, Course

LEMMA HeardInOrder ==
  ASSUME OrderInv, UNCHANGED <<phase, signal, session, call, events>>
  PROVE  OrderInv'
BY SaidStays, EventLineStays DEF OrderInv, Course

LEMMA SessionInOrder ==
  ASSUME TalkBounds, TalkInv, OrderInv,
         Talk!SessionStarts \/ Talk!SessionStops \/ Talk!SessionExpires \/ Talk!SessionCloses
           \/ Talk!Deleted
  PROVE  OrderInv'
<1>1. EventsOK /\ EventsInLine /\ Course
  BY DEF TalkInv, OrderInv
<1>2. UNCHANGED <<phase, call>>
  BY DEF Talk!SessionStarts, Talk!SessionStops, Talk!SessionExpires, Talk!SessionCloses,
     Talk!Deleted, Talk!client
<1>3. CASE signal' = "served" /\ session' = "running" /\ signal = "sent" /\ Talk!Emits(<<"started">>)
  <2>1. session = "none"
    BY <1>1, <1>3 DEF Course
  <2>2. Said \subseteq Said'
    BY <1>2, <2>1, SaidStays, <1>3
  <2>3. <<"started">> \in Said' /\ <<"started">> \notin Said
    BY <1>3, <2>1 DEF Said, Talk!Event
  <2>4. /\ EventsInLine' /\ events'.stream = events.stream
        /\ events.stream # "open" => events'.sent = events.sent
    BY <1>1, <1>3, <2>2, <2>3, EventLineGrows
  <2> QED BY <1>1, <1>2, <1>3, <2>4 DEF OrderInv, Course
<1>4. CASE session' = "over" /\ session = "closing" /\ signal' = signal /\ Talk!Emits(<<"closed">>)
  <2>1. Said \subseteq Said'
    BY <1>2, <1>4, SaidStays
  <2>2. <<"closed">> \in Said' /\ <<"closed">> \notin Said
    BY <1>4 DEF Said, Talk!Event
  <2>3. /\ EventsInLine' /\ events'.stream = events.stream
        /\ events.stream # "open" => events'.sent = events.sent
    BY <1>1, <1>4, <2>1, <2>2, EventLineGrows
  <2> QED BY <1>1, <1>2, <1>4, <2>3 DEF OrderInv, Course
<1>5. CASE /\ events' = events
           /\ session' = session \/ (session = "running" /\ session' = "closing")
           /\ signal' = signal \/ (signal = "sent" /\ signal' = "refused")
  <2>1. EventsInLine'
    BY <1>1, <1>2, <1>5, SaidStays, EventLineStays
  <2> QED BY <1>1, <1>2, <1>5, <2>1 DEF OrderInv, Course
<1>6. \/ signal' = "served" /\ session' = "running" /\ signal = "sent" /\ Talk!Emits(<<"started">>)
      \/ session' = "over" /\ session = "closing" /\ signal' = signal /\ Talk!Emits(<<"closed">>)
      \/ /\ events' = events
         /\ session' = session \/ (session = "running" /\ session' = "closing")
         /\ signal' = signal \/ (signal = "sent" /\ signal' = "refused")
  BY DEF Talk!SessionStarts, Talk!SessionStops, Talk!SessionExpires, Talk!SessionCloses,
     Talk!Deleted
<1> QED BY <1>3, <1>4, <1>5, <1>6

LEMMA StreamInOrder ==
  ASSUME TalkInv, TalkInv', OrderInv, Talk!StreamOpens \/ Talk!EventArrives \/ Talk!StreamBreaks
  PROVE  OrderInv'
<1>1. /\ EventsOK /\ EventsOK' /\ EventsInLine /\ LinedUp(events) /\ Course
      /\ UNCHANGED <<phase, signal, session, call>>
  BY
  DEF TalkInv, OrderInv, EventsInLine, Talk!StreamOpens, Talk!EventArrives,
      Talk!StreamBreaks,
     Talk!client, Talk!server
<1>2. events \in EventsOf(Talk!Event) /\ events' \in EventsOf(Talk!Event)
  BY <1>1, AnyEvents DEF EventsOK, Sayable
<1>3. ASSUME EventsInLine', events.stream # "no" \/ events.sent # << >> PROVE OrderInv'
  BY <1>1, <1>3 DEF OrderInv, Course
<1>4. CASE Talk!StreamOpens
  <2>1. events.stream = "asked"
    BY <1>4 DEF Talk!StreamOpens
  <2>2. CASE managed
    <3> DEFINE all == events.sent \o events.queued
    <3>1. events' = [events EXCEPT !.stream = "open", !.sent = all, !.queued = << >>]
      BY <1>4, <2>2 DEF Talk!StreamOpens, Talk!TakesQueue
    <3> HIDE DEF all
    <3>2. /\ events'.all = events.all /\ events'.seen = events.seen /\ events'.sent = all
          /\ events'.queued = << >>
      BY <1>2, <3>1 DEF EventsOf
    <3>3. LinedUp(events')
      BY <1>1, <1>2, <2>1, <3>2, TakenInLine DEF all
    <3> QED BY <1>1, <1>3, <2>1, <3>2, <3>3, EventLineMoves
  <2>3. CASE ~managed
    <3>1. events' = [events EXCEPT !.stream = "over"]
      BY <1>4, <2>3 DEF Talk!StreamOpens
    <3>2. events'.all = events.all /\ Had(events') = Had(events) /\ events'.stream = "over"
      BY <1>2, <3>1 DEF EventsOf, Had
    <3>3. LinedUp(events')
      BY <1>1, <3>2 DEF LinedUp
    <3> QED BY <1>1, <1>3, <2>1, <3>2, <3>3, EventLineMoves
  <2> QED BY <2>2, <2>3
<1>5. CASE Talk!EventArrives
  <2> DEFINE rest == Tail(events.sent)
             read == Append(events.seen, Head(events.sent))
             stream == IF Head(events.sent) = <<"closed">> THEN "over" ELSE events.stream
  <2>1. /\ events.sent # << >>
        /\ events' = [events EXCEPT !.sent = rest, !.seen = read, !.stream = stream]
    BY <1>5 DEF Talk!EventArrives
  <2>2. stream \in {events.stream, "over"}
    OBVIOUS
  <2> HIDE DEF rest, read, stream
  <2>3. /\ events'.all = events.all /\ events'.seen = read /\ events'.sent = rest
        /\ events'.queued = events.queued /\ events'.stream = stream
    BY <1>2, <2>1 DEF EventsOf
  <2>4. LinedUp(events')
    BY <1>1, <1>2, <2>1, <2>2, <2>3, ReadInLine DEF rest, read
  <2>5. EventsInLine'
    BY <1>1, <2>3, <2>4, EventLineMoves
  <2> QED BY <1>3, <2>1, <2>5
<1>6. CASE Talk!StreamBreaks
  BY <1>1, <1>3, <1>6, EventLineEnds DEF Talk!StreamBreaks
<1> QED BY <1>4, <1>5, <1>6

LEMMA ToolInOrder ==
  ASSUME TalkBounds, TalkInv, OrderInv, NEW k \in Calls,
         \/ Talk!CallTool(k) \/ Talk!ToolReturns(k) \/ Talk!ToolReturnsTooLate(k)
         \/ Talk!Confirm(k) \/ Talk!Confirmed(k)
  PROVE  OrderInv'
<1>1. /\ EventsOK /\ EventsInLine /\ Course /\ ToolOK(k) /\ call \in [Calls -> TalkSteps]
      /\ tally \in [Calls -> Tally]
  BY DEF TalkInv, OrderInv, ToolsOK
<1>2. UNCHANGED <<phase, signal, session>>
  BY
  DEF Talk!CallTool, Talk!ToolReturns, Talk!ToolReturnsTooLate, Talk!Confirm,
      Talk!Confirmed,
     Talk!ToolUnchanged, Talk!client
<1>3. ASSUME NEW step \in TalkSteps, call' = [call EXCEPT ![k] = step],
             \/ call[k] = "none" /\ step = "running"
             \/ call[k] = "running" /\ step \in {"completed", "waiting", "failed"}
             \/ call[k] = "waiting" /\ step = "confirming"
             \/ call[k] = "confirming" /\ step \in {"completed", "waiting"},
             \/ events' = events
             \/ /\ Talk!Emits(<<step, k>>) /\ step # "confirming"
                /\ ~(call[k] = "confirming" /\ step = "waiting")
      PROVE  OrderInv'
  <2>1. call'[k] = step /\ \A l \in Calls : l # k => call'[l] = call[l]
    BY <1>1, <1>3
  <2>2. Said \subseteq Said'
    BY <1>2, <1>3, <2>1, SaidStays
  <2>3. CASE events' = events
    BY <1>1, <1>2, <2>2, <2>3, EventLineStays DEF OrderInv, Course
  <2>4. CASE /\ Talk!Emits(<<step, k>>) /\ step # "confirming"
             /\ ~(call[k] = "confirming" /\ step = "waiting")
    <3>1. <<step, k>> \in Said' /\ <<step, k>> \notin Said
      BY <1>3, <2>1, <2>4 DEF Said, Talk!Event, TalkSteps
    <3>2. /\ EventsInLine' /\ events'.stream = events.stream
          /\ events.stream # "open" => events'.sent = events.sent
      BY <1>1, <2>2, <2>4, <3>1, EventLineGrows, Zenon
    <3>3. Course'
      BY <1>1, <1>2, <3>2 DEF Course
    <3> QED BY <3>2, <3>3 DEF OrderInv
  <2> QED BY <1>3, <2>3, <2>4
<1>4. CASE Talk!CallTool(k)
  BY <1>3, <1>4 DEF Talk!CallTool, TalkSteps
<1>5. CASE Talk!ToolReturns(k)
  BY <1>3, <1>5 DEF Talk!ToolReturns, TalkSteps
<1>6. CASE Talk!ToolReturnsTooLate(k)
  BY <1>3, <1>6 DEF Talk!ToolReturnsTooLate, TalkSteps
<1>7. CASE Talk!Confirm(k)
  BY <1>3, <1>7 DEF Talk!Confirm, Talk!MayConfirm, TalkSteps
<1>8. CASE Talk!Confirmed(k)
  <2>1. call[k] = "confirming"
    BY <1>1, <1>8 DEF Talk!Confirmed, ToolOK, TalkSteps, Counts
  <2> QED BY <1>3, <1>8, <2>1 DEF Talk!Confirmed, TalkSteps
<1> QED BY <1>4, <1>5, <1>6, <1>7, <1>8

LEMMA OrderStarts ==
  ASSUME Talk!Init
  PROVE  OrderInv
<1>1. /\ events.all = << >> /\ events.seen = << >> /\ events.sent = << >> /\ events.queued = << >>
      /\ events.stream = "no" /\ signal = "no" /\ session = "none"
  BY DEF Talk!Init
<1>2. Had(events) = << >> /\ Len(<< >>) = 0
  BY <1>1 DEF Had
<1>3. LinedUp(events)
  BY <1>1, <1>2 DEF LinedUp, OnceEach, Talk!InOrder
<1>4. << >> \in Seq(Said)
  OBVIOUS
<1> QED BY <1>1, <1>3, <1>4 DEF OrderInv, EventsInLine, Course

LEMMA OrderStep ==
  ASSUME TalkBounds, TalkInv, TalkInv', OrderInv, [Talk!Next]_(Talk!vars)
  PROVE  OrderInv'
<1>1. CASE UNCHANGED Talk!vars
  BY <1>1, HeardInOrder DEF Talk!vars
<1>2. CASE \/ \E m \in Talk!Messages : Talk!MessageArrives(m) \/ Talk!Decoded(m)
           \/ Talk!Interrupt \/ Talk!Restore \/ Talk!SetOutputMuted
  <2>1. UNCHANGED <<phase, signal, session, call, events>>
    BY <1>2 DEF Talk!MessageArrives, Talk!Decoded, Talk!Interrupt, Talk!Restore,
       Talk!SetOutputMuted, Talk!Unchanged, Talk!server
  <2> QED BY <2>1, HeardInOrder
<1>3. CASE Talk!Next
  BY <1>2, <1>3, ConnectInOrder, EndInOrder, SessionInOrder, StreamInOrder, ToolInOrder
     DEF Talk!Next
<1> QED BY <1>1, <1>3

LEMMA OrderIsKept ==
  ASSUME EventsOK, OrderInv
  PROVE  Talk!EventsAreInOrder
<1> DEFINE had == Had(events)
<1>1. events \in EventsOf(Talk!Event) /\ LinedUp(events)
  BY AnyEvents DEF EventsOK, Sayable, OrderInv, EventsInLine
<1>2. /\ events.seen \in Seq(Talk!Event) /\ events.sent \in Seq(Talk!Event)
      /\ events.queued \in Seq(Talk!Event) /\ events.all \in Seq(Talk!Event)
  BY <1>1 DEF EventsOf
<1>3. had \in Seq(Talk!Event)
  BY <1>2 DEF Had
<1>4. OnceEach(events.all) /\ Talk!InOrder(had, events.all)
  BY <1>1 DEF LinedUp
<1>5. events.stream = "open" /\ Len(events.all) <= MaxQueued => had = events.all
  BY <1>1 DEF LinedUp
<1> HIDE DEF had
<1>6. Cardinality({had[i] : i \in DOMAIN had}) = Len(had)
  BY <1>2, <1>3, <1>4, OrderedOnce
<1>7. Talk!Cardinality(Talk!ToSet(had)) = Len(had)
  <2>1. Talk!ToSet(had) = {had[i] : i \in DOMAIN had}
    BY DEF Talk!ToSet
  <2>2. Talk!Cardinality({had[i] : i \in DOMAIN had}) = Cardinality({had[i] : i \in DOMAIN had})
    BY DEF Talk!Cardinality, Cardinality
  <2> QED BY <1>6, <2>1, <2>2
<1>8. had = events.seen \o events.sent \o events.queued
  BY DEF had, Had
<1> QED BY <1>4, <1>5, <1>7, <1>8 DEF Talk!EventsAreInOrder

\* However a call connects, is cut off, aborted and closed, and whatever fails: one
\* that is over has given back microphone and connection and its session is asked to
\* close; what is heard is what the user chose once an interruption is over; the page
\* sees the events of the session in their order and none twice; and a tool is
\* answered once and what waits for the user done once, and shown as completed only
\* then (realtime-app-server-browser.ts:114, realtime-browser.ts:246,
\* realtime-app-server.ts:225).
THEOREM CallIsSoundHolds ==
  ASSUME TalkBounds PROVE Talk!Spec => [](Talk!TypeOK /\ Talk!CallIsSound)
<1>1. Talk!Init => TalkInv /\ OrderInv
  BY TalkStarts, OrderStarts
<1>2. TalkInv /\ [Talk!Next]_(Talk!vars) => TalkInv'
  <2> SUFFICES ASSUME TalkInv, [Talk!Next]_(Talk!vars) PROVE TalkInv'
    OBVIOUS
  <2>1. CASE Talk!Next
    BY <2>1, ConnectSteps, EndSteps, HeardSteps, SessionStepsKeep, StreamSteps, ToolSteps
       DEF Talk!Next
  <2> QED BY <2>1, TalkStutters
<1>3. TalkInv /\ OrderInv /\ [Talk!Next]_(Talk!vars) => (TalkInv /\ OrderInv)'
  BY <1>2, OrderStep
<1>4. TalkInv /\ OrderInv => Talk!TypeOK /\ Talk!CallIsSound
  BY TalkIsSound, OrderIsKept DEF TalkInv, Talk!CallIsSound
<1> QED BY <1>1, <1>3, <1>4, PTL DEF Talk!Spec
=============================================================================
