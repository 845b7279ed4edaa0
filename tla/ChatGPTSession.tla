---------------------------- MODULE ChatGPTSession ----------------------------
(***************************************************************************)
(* One session of the ChatGPT login (packages/chatgpt/src/server): the      *)
(* device flow that signs in, status requests that advance it, requests     *)
(* that need fresh tokens and the logout (session.ts, handler.ts).  One     *)
(* process, whose requests read the session from the store, call OpenAI     *)
(* and write the session back whole.                                        *)
(*                                                                          *)
(* A refresh token is good for one refresh.  OpenAI and the store, which    *)
(* VaultStore models, are external here.                                    *)
(***************************************************************************)
EXTENDS Naturals, FiniteSets

CONSTANTS
  Requests, None,
  MaxCodes, MaxTokens,  \* bounds: device codes and refresh tokens issued
  MaxExpiries           \* bound: access tokens and codes that expire

VARIABLES
  session,   \* what the store holds: a code (0: none), a token (0: none), fresh
  codes,     \* device codes issued
  lapsed,    \* those that are over
  approved,  \* those the user entered
  issued,    \* refresh tokens issued
  good,      \* those not yet used
  request,   \* the local state of each request
  inflight,  \* the request that refreshes for the others, or None
  overlap,   \* history: a status or a login overlapped with another request
  expiries

vars == <<session, codes, lapsed, approved, issued, good, request, inflight, overlap, expiries>>
openai == <<codes, lapsed, approved, issued, good>>

Empty == [code |-> 0, token |-> 0, fresh |-> FALSE]
Kinds == {"login", "status", "call", "logout"}
Ended == {"new", "ok", "refused", "invalid"}

TypeOK ==
  /\ session \in [code : 0 .. codes, token : 0 .. issued, fresh : BOOLEAN]
  /\ lapsed \subseteq 1 .. codes /\ approved \subseteq 1 .. codes /\ good \subseteq 1 .. issued
  /\ codes <= MaxCodes /\ issued <= MaxTokens /\ expiries \in 0 .. MaxExpiries
  /\ \A r \in Requests :
       /\ request[r].kind \in Kinds
       /\ request[r].pc \in Ended \cup {"load", "code", "poll", "exchange", "refresh", "save",
                                        "delete", "join"}
       /\ request[r].data \in [code : 0 .. codes, token : 0 .. issued, fresh : BOOLEAN]
       /\ request[r].shows \in 0 .. codes
  /\ inflight \in Requests \cup {None} /\ overlap \in BOOLEAN

Init ==
  /\ \/ session = Empty /\ issued = 0 /\ good = {}
     \/ session = [code |-> 0, token |-> 1, fresh |-> TRUE] /\ issued = 1 /\ good = {1}
  /\ codes = 0 /\ lapsed = {} /\ approved = {}
  /\ request \in [Requests -> {[kind |-> k, pc |-> "new", data |-> Empty, shows |-> 0] : k \in Kinds}]
  /\ inflight = None /\ overlap = FALSE /\ expiries = 0

At(r, pc) == request[r].pc = pc
Goes(r, pc) == request' = [request EXCEPT ![r].pc = pc]
GoesWith(r, pc, data) == request' = [request EXCEPT ![r].pc = pc, ![r].data = data]
Is(r, kind) == request[r].kind = kind
Leaves(r) == inflight' = IF inflight = r THEN None ELSE inflight

-----------------------------------------------------------------------------
(* The user and time. *)

Approve(code) ==
  /\ \E r \in Requests : request[r].shows = code
  /\ code \in 1 .. codes /\ code \notin approved \cup lapsed
  /\ approved' = approved \cup {code}
  /\ UNCHANGED <<session, codes, lapsed, issued, good, request, inflight, overlap, expiries>>
AccessTokenExpires ==
  /\ session.fresh /\ expiries < MaxExpiries /\ expiries' = expiries + 1
  /\ session' = [session EXCEPT !.fresh = FALSE]
  /\ UNCHANGED <<openai, request, inflight, overlap>>
CodeLapses(code) ==
  /\ code \in (1 .. codes) \ lapsed /\ expiries < MaxExpiries /\ expiries' = expiries + 1
  /\ lapsed' = lapsed \cup {code}
  /\ UNCHANGED <<session, codes, approved, issued, good, request, inflight, overlap>>

-----------------------------------------------------------------------------
(* The routes. *)

Active(r) == request[r].pc \notin Ended
Unguarded(r) == request[r].kind \in {"login", "status"}
Shares(r) == Is(r, "call") /\ inflight # None
Arrive(r) ==
  /\ At(r, "new")
  /\ overlap' = (overlap \/ \E q \in Requests \ {r} : Active(q) /\ (Unguarded(q) \/ Unguarded(r)))
  /\ IF Is(r, "logout") THEN Goes(r, "delete") /\ UNCHANGED inflight
     ELSE IF Shares(r) THEN Goes(r, "join") /\ UNCHANGED inflight
     ELSE Goes(r, "load") /\ inflight' = IF Is(r, "call") THEN r ELSE inflight
  /\ UNCHANGED <<session, openai, expiries>>
\* The outcome is the one of the request in flight.
Join(r) ==
  /\ At(r, "join") /\ inflight = None /\ Goes(r, "ok")
  /\ UNCHANGED <<session, openai, inflight, overlap, expiries>>

HasCode(s) == s.code # 0 /\ s.code \notin lapsed
\* SessionManager.load, and the branches of startDeviceLogin, advance and
\* loadFreshTokens.
Load(r) ==
  /\ At(r, "load")
  /\ CASE Is(r, "login") ->
            /\ IF HasCode(session)
               THEN request' = [request EXCEPT ![r].pc = "ok", ![r].shows = session.code]
               ELSE GoesWith(r, "code", session)
            /\ UNCHANGED inflight
       [] ~Is(r, "login") /\ session.token # 0 ->
            /\ IF ~session.fresh THEN GoesWith(r, "refresh", session) /\ UNCHANGED inflight
               ELSE IF Is(r, "status") THEN GoesWith(r, "save", session) /\ UNCHANGED inflight
               ELSE Goes(r, "ok") /\ Leaves(r)
       [] Is(r, "status") /\ session.token = 0 ->
            /\ IF session.code = 0 THEN Goes(r, "ok")
               ELSE IF HasCode(session) THEN GoesWith(r, "poll", session)
               ELSE GoesWith(r, "save", [session EXCEPT !.code = 0])
            /\ UNCHANGED inflight
       [] OTHER -> Goes(r, "refused") /\ Leaves(r)
  /\ UNCHANGED <<session, openai, overlap, expiries>>

\* requestDeviceCode: the tokens of the session, if any, are kept.
RequestCode(r) ==
  /\ At(r, "code") /\ codes < MaxCodes /\ codes' = codes + 1
  /\ request' = [request EXCEPT ![r].pc = "save", ![r].data.code = codes', ![r].shows = codes']
  /\ UNCHANGED <<session, lapsed, approved, issued, good, inflight, overlap, expiries>>
\* pollDeviceCode, unless the last poll is more recent than the interval.
Poll(r) ==
  /\ At(r, "poll")
  /\ \/ request[r].data.code \in approved /\ Goes(r, "exchange")
     \/ request[r].data.code \notin approved /\ Goes(r, "save")
     \/ Goes(r, "ok")
  /\ UNCHANGED <<session, openai, inflight, overlap, expiries>>
Exchange(r) ==
  /\ At(r, "exchange") /\ issued < MaxTokens
  /\ issued' = issued + 1 /\ good' = good \cup {issued'}
  /\ GoesWith(r, "save", [code |-> 0, token |-> issued', fresh |-> TRUE])
  /\ UNCHANGED <<session, codes, lapsed, approved, inflight, overlap, expiries>>
\* ensureFreshTokens; a token that was used makes a status delete the session.
Refresh(r) ==
  LET token == request[r].data.token IN
  /\ At(r, "refresh")
  /\ IF token \in good
     THEN /\ issued < MaxTokens /\ issued' = issued + 1 /\ good' = (good \ {token}) \cup {issued'}
          /\ GoesWith(r, "save", [request[r].data EXCEPT !.token = issued', !.fresh = TRUE])
          /\ UNCHANGED inflight
     ELSE /\ Goes(r, IF Is(r, "status") THEN "delete" ELSE "invalid") /\ Leaves(r)
          /\ UNCHANGED <<issued, good>>
  /\ UNCHANGED <<session, codes, lapsed, approved, overlap, expiries>>

Save(r) ==
  /\ At(r, "save") /\ Goes(r, "ok") /\ Leaves(r)
  /\ session' = request[r].data
  /\ UNCHANGED <<openai, overlap, expiries>>
Delete(r) ==
  /\ At(r, "delete") /\ session' = Empty
  /\ Goes(r, IF Is(r, "status") THEN "invalid" ELSE "ok")
  /\ UNCHANGED <<openai, inflight, overlap, expiries>>

Next ==
  \/ \E r \in Requests :
       \/ Arrive(r) \/ Join(r) \/ Load(r) \/ RequestCode(r) \/ Poll(r) \/ Exchange(r)
       \/ Refresh(r) \/ Save(r) \/ Delete(r)
  \/ AccessTokenExpires
  \/ \E code \in 1 .. MaxCodes : Approve(code) \/ CodeLapses(code)
Spec == Init /\ [][Next]_vars

-----------------------------------------------------------------------------
\* Requests that need tokens, however many at once and whether or not the user signs
\* out among them, never use up the session: the token that is stored is good or
\* its successor is about to be stored, and no request is told to sign in again.
\* Only a status or a login that overlapped with another request can break it,
\* which have no guard (session.ts:219).
CallsKeepTheSession ==
  ~overlap =>
    /\ session.token # 0 => \/ session.token \in good
                            \/ \E r \in Requests : At(r, "save") /\ request[r].data.token \in good
    /\ \A r \in Requests : ~At(r, "invalid")

\* A user who clicks again is shown the code that is in progress: every code that is
\* shown and not over is the one the session will poll (session.ts:131).
RepeatedClicksKeepTheCode ==
  \A r \in Requests :
    Is(r, "login") /\ At(r, "ok") /\ request[r].shows \notin lapsed =>
      \/ session.code = request[r].shows \/ session.token # 0
      \/ \E q \in Requests : request[q].kind \in {"logout", "status"}
=============================================================================
