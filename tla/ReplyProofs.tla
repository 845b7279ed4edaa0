---------------------------- MODULE ReplyProofs ----------------------------
(***************************************************************************)
(* Theorems about the turns of a session, their steps, and the parts of a  *)
(* reply.                                                                  *)
(*                                                                         *)
(* AgentSession and AssistantParts, below Parts!: for any numbers of       *)
(* messages, saves and readers.  AgentContext, below Context!: for any     *)
(* limits, outputs, calls and faults.  `faults' is this model's in both.   *)
(***************************************************************************)
EXTENDS AgentSession, Integers, FiniteSetTheorems, TLAPS

CONSTANTS
  Long, Short, Saves, Reads, Unavailable, Failed,    \* AssistantParts
  Usable, Keep, Cap, Budgets, FailureLimit, ResultLimit, MaxSubAgents, Outputs,
  MaxSteps, MaxCalls, MaxTurns                       \* AgentContext

VARIABLES
  row, objects, save, seen, read, cache, risked,     \* AssistantParts
  history, checkpoint, phase, prompt, attempt, stream, shown, calls, agents, loop,
  steps, reply, turns                                \* AgentContext

Parts == INSTANCE AssistantParts
Context == INSTANCE AgentContext

-----------------------------------------------------------------------------
(* Lists without repetition *)

Once(s) == \A i, j \in 1 .. Len(s) : s[i] = s[j] => i = j
\* What stands in s in one order stands in t in the same.
InOrder(s, t) == \A i, j \in 1 .. Len(s) : i < j =>
                   \E k, l \in 1 .. Len(t) : k < l /\ t[k] = s[i] /\ t[l] = s[j]

LEMMA RangeOf ==
  ASSUME NEW S, NEW s \in Seq(S)
  PROVE  /\ DOMAIN s = 1 .. Len(s) /\ Len(s) \in Nat
         /\ \A x : x \in Range(s) <=> \E i \in 1 .. Len(s) : s[i] = x
BY DEF Range

LEMMA Joined ==
  ASSUME NEW S, NEW u \in Seq(S), NEW v \in Seq(S)
  PROVE  /\ u \o v \in Seq(S) /\ Len(u \o v) = Len(u) + Len(v)
         /\ \A i \in 1 .. Len(u) : (u \o v)[i] = u[i]
         /\ \A i \in 1 .. Len(v) : (u \o v)[Len(u) + i] = v[i]
OBVIOUS

LEMMA Appended ==
  ASSUME NEW S, NEW s \in Seq(S), NEW e \in S
  PROVE  \A x : x \in Range(Append(s, e)) <=> x \in Range(s) \cup {e}
<1> DEFINE t == Append(s, e)
<1>1. /\ t \in Seq(S) /\ Len(t) = Len(s) + 1 /\ t[Len(s) + 1] = e /\ Len(s) \in Nat
      /\ \A i \in 1 .. Len(s) : t[i] = s[i]
  OBVIOUS
<1> HIDE DEF t
<1>2. \A x : x \in Range(t) <=> \E i \in 1 .. Len(s) + 1 : t[i] = x
  BY <1>1, RangeOf
<1>3. \A x : x \in Range(s) <=> \E i \in 1 .. Len(s) : s[i] = x
  BY RangeOf
<1>4. \A x : x \in Range(t) <=> x \in Range(s) \cup {e}
  BY ONLY <1>1, <1>2, <1>3
<1> QED BY <1>4 DEF t

LEMMA RestOf ==
  ASSUME NEW S, NEW s \in Seq(S), NEW k \in 0 .. Len(s)
  PROVE  /\ SubSeq(s, k + 1, Len(s)) \in Seq(S) /\ Len(SubSeq(s, k + 1, Len(s))) = Len(s) - k
         /\ \A i \in 1 .. Len(s) - k : SubSeq(s, k + 1, Len(s))[i] = s[k + i]
OBVIOUS

\* A list whose element k is taken out.
LEMMA RemovedAt ==
  ASSUME NEW S, NEW s \in Seq(S), NEW k \in 1 .. Len(s)
  PROVE  /\ RemoveAt(s, k) \in Seq(S) /\ Len(RemoveAt(s, k)) = Len(s) - 1
         /\ \A i \in 1 .. Len(s) - 1 : RemoveAt(s, k)[i] = IF i < k THEN s[i] ELSE s[i + 1]
<1> DEFINE u == SubSeq(s, 1, k - 1)
           v == SubSeq(s, k + 1, Len(s))
           t == u \o v
<1>1. Len(s) \in Nat
  OBVIOUS
<1>2. /\ u \in Seq(S) /\ Len(u) = k - 1
      /\ \A i \in 1 .. k - 1 : u[i] = s[i]
  OBVIOUS
<1>3. /\ v \in Seq(S) /\ Len(v) = Len(s) - k
      /\ \A i \in 1 .. Len(s) - k : v[i] = s[k + i]
  OBVIOUS
<1>4. RemoveAt(s, k) = t
  BY DEF RemoveAt
<1> HIDE DEF u, v
<1>5. /\ t \in Seq(S) /\ Len(t) = Len(u) + Len(v)
      /\ \A i \in 1 .. Len(u) : t[i] = u[i]
      /\ \A i \in 1 .. Len(v) : t[Len(u) + i] = v[i]
  <2>1. u \in Seq(S) /\ v \in Seq(S)
    BY <1>2, <1>3
  <2> QED BY ONLY <2>1
<1> HIDE DEF t
<1>6. /\ t \in Seq(S) /\ Len(t) = Len(s) - 1
      /\ \A i \in 1 .. k - 1 : t[i] = u[i]
      /\ \A i \in 1 .. Len(s) - k : t[k - 1 + i] = v[i]
  <2>1. Len(u) + Len(v) = Len(s) - 1
    BY <1>1, <1>2, <1>3
  <2> QED BY <1>2, <1>3, <1>5, <2>1, Zenon
<1>7. ASSUME NEW i \in 1 .. Len(t), i < k PROVE t[i] = s[i]
  BY <1>1, <1>2, <1>6, <1>7
<1>8. ASSUME NEW i \in 1 .. Len(t), ~(i < k) PROVE t[i] = s[i + 1]
  <2> DEFINE n == i - (k - 1)
  <2>1. n \in 1 .. Len(s) - k /\ k + n = i + 1 /\ k - 1 + n = i
    BY <1>1, <1>6, <1>8
  <2> HIDE DEF n
  <2>2. v[n] = s[k + n] /\ t[k - 1 + n] = v[n]
    BY <1>3, <1>6, <2>1
  <2> QED BY <2>1, <2>2
<1> QED BY <1>4, <1>6, <1>7, <1>8

\* Removing the one occurrence of an element.
LEMMA RemovedOnce ==
  ASSUME NEW S, NEW s \in Seq(S), Once(s), NEW e
  PROVE  /\ RemoveFirst(s, e) \in Seq(S) /\ Once(RemoveFirst(s, e))
         /\ Len(RemoveFirst(s, e)) <= Len(s)
         /\ InOrder(RemoveFirst(s, e), s)
         /\ \A x : x \in Range(RemoveFirst(s, e)) <=> x \in Range(s) /\ x # e
         /\ e \notin Range(s) => RemoveFirst(s, e) = s
<1> DEFINE t == RemoveFirst(s, e)
<1>1. CASE ~ \E i \in 1 .. Len(s) : s[i] = e
  <2>1. t = s
    BY <1>1 DEF RemoveFirst
  <2>2. \A x \in Range(s) : x # e
    BY <1>1, RangeOf
  <2>3. InOrder(s, s)
    BY DEF InOrder
  <2> QED BY <2>1, <2>2, <2>3, Len(s) \in Nat
<1>2. CASE \E i \in 1 .. Len(s) : s[i] = e
  <2>1. PICK k \in 1 .. Len(s) : s[k] = e
    BY <1>2
  <2>2. {i \in 1 .. Len(s) : s[i] = e} = {k}
    BY <2>1 DEF Once
  <2>3. SelectInSeq(s, LAMBDA v : v = e) = k
    <3>1. Min({k}) = k
      BY <2>1 DEF Min
    <3> QED BY <2>2, <3>1 DEF SelectInSeq
  <2>4. t = RemoveAt(s, k)
    BY <1>2, <2>3 DEF RemoveFirst
  <2>5. /\ t \in Seq(S) /\ Len(t) = Len(s) - 1
        /\ \A i \in 1 .. Len(t) : t[i] = IF i < k THEN s[i] ELSE s[i + 1]
    BY <2>4, RemovedAt
  <2> HIDE DEF t
  <2>6. Once(t)
    <3> SUFFICES ASSUME NEW i \in 1 .. Len(t), NEW j \in 1 .. Len(t), t[i] = t[j] PROVE i = j
      BY DEF Once
    <3> DEFINE at(n) == IF n < k THEN n ELSE n + 1
    <3>1. at(i) \in 1 .. Len(s) /\ at(j) \in 1 .. Len(s) /\ (at(i) = at(j) => i = j)
      BY <2>1, <2>5
    <3>2. s[at(i)] = t[i] /\ s[at(j)] = t[j]
      BY <2>5
    <3> HIDE DEF at
    <3> QED BY <3>1, <3>2 DEF Once
  <2>7. InOrder(t, s)
    <3> SUFFICES ASSUME NEW i \in 1 .. Len(t), NEW j \in 1 .. Len(t), i < j
                 PROVE  \E m, l \in 1 .. Len(s) : m < l /\ s[m] = t[i] /\ s[l] = t[j]
      BY DEF InOrder
    <3> DEFINE at(n) == IF n < k THEN n ELSE n + 1
    <3>1. at(i) \in 1 .. Len(s) /\ at(j) \in 1 .. Len(s) /\ at(i) < at(j)
      BY <2>1, <2>5
    <3>2. s[at(i)] = t[i] /\ s[at(j)] = t[j]
      BY <2>5
    <3> HIDE DEF at
    <3> QED BY <3>1, <3>2
  <2>8. ASSUME NEW x PROVE x \in Range(t) <=> x \in Range(s) /\ x # e
    <3>1. ASSUME NEW i \in 1 .. Len(t), t[i] = x PROVE x \in Range(s) /\ x # e
      <4>1. CASE i < k
        BY <2>1, <2>5, <3>1, <4>1, RangeOf DEF Once
      <4>2. CASE ~(i < k)
        <5>1. i + 1 \in 1 .. Len(s) /\ i + 1 # k /\ s[i + 1] = x
          BY <2>1, <2>5, <3>1, <4>2
        <5> QED BY <2>1, <5>1, RangeOf DEF Once
      <4> QED BY <4>1, <4>2
    <3>2. ASSUME NEW i \in 1 .. Len(s), s[i] = x, x # e PROVE \E j \in 1 .. Len(t) : t[j] = x
      <4>1. CASE i < k
        BY <2>1, <2>5, <3>2, <4>1
      <4>2. CASE i > k
        <5>1. i - 1 \in 1 .. Len(t) /\ ~(i - 1 < k)
          BY <2>1, <2>5, <4>2
        <5>2. t[i - 1] = x
          BY <2>5, <3>2, <5>1
        <5> QED BY <5>1, <5>2
      <4> QED BY <2>1, <3>2, <4>1, <4>2
    <3> QED BY <2>5, <3>1, <3>2, RangeOf
  <2>9. e \in Range(s)
    BY <2>1, RangeOf
  <2> QED BY <2>5, <2>6, <2>7, <2>8, <2>9 DEF t
<1> QED BY <1>1, <1>2

\* A list without repetition is as long as it has elements.
LEMMA Counted ==
  ASSUME NEW S, NEW s \in Seq(S), Once(s)
  PROVE  IsFiniteSet(Range(s)) /\ Cardinality(Range(s)) = Len(s)
<1>1. ExistsBijection(1 .. Len(s), Range(s))
  <2>1. s \in [1 .. Len(s) -> Range(s)] /\ \A x \in Range(s) : \E i \in 1 .. Len(s) : s[i] = x
    BY RangeOf
  <2>2. s \in Injection(1 .. Len(s), Range(s)) /\ s \in Surjection(1 .. Len(s), Range(s))
    BY <2>1 DEF Once, Injection, Surjection, IsInjective
  <2> QED BY <2>2 DEF ExistsBijection, Bijection
<1>2. IsFiniteSet(1 .. Len(s)) /\ Cardinality(1 .. Len(s)) = Len(s)
  BY FS_Interval, Len(s) \in Nat
<1> QED BY <1>1, <1>2, FS_Bijection

-----------------------------------------------------------------------------
(* The turns of a session *)

Route1 == {"append", "start", "mark", "revoke"}
Early == {"hydrate", "begin", "prepare"}

SessionTypes ==
  /\ posts \in [Posts -> [pc : {"new", "model", "grant", "answered"} \cup Route1,
                          attempts : Nat, answer : {"none", "ok", "failed"}]]
  /\ vault \subseteq Posts /\ grants \in Seq(Posts) /\ issued \in Seq(Posts)
  /\ current \in Posts \cup {None} /\ inbox \in Seq(Posts) /\ taken \in 0 .. Len(inbox)
  /\ turn \in [post : Posts \cup {None}, pc : {"idle", "model", "complete", "revoke"} \cup Early]
  /\ replies \subseteq Posts /\ ran \in [Posts -> Nat] /\ faults \in 0 .. MaxFaults

\* The route of a post is ahead of what the session and the thread have of it.
PostsOK ==
  \A p \in Posts :
    /\ (posts[p].pc \in Route1 \/ posts[p].answer = "ok") => p \in Range(issued)
    /\ posts[p].pc \in {"new", "model", "grant"} => p \notin Range(issued)
    /\ posts[p].answer # "none" => posts[p].pc = "answered"
    /\ p \in Range(inbox) =>
         p \in Range(issued) /\ posts[p].pc \in {"append", "revoke", "answered"}

\* The turn is that of the last message taken; no message is taken twice.
SessionOK ==
  /\ Once(inbox) /\ Once(issued)
  /\ turn.pc = "idle" <=> turn.post = None
  /\ turn.pc # "idle" => taken # 0 /\ turn.post = inbox[taken]

\* A message was taken, and its turn is past the places pcs.
Past(p, pcs) == \E i \in 1 .. taken : inbox[i] = p /\ ~(turn.post = p /\ turn.pc \in pcs)

\* The model's grant is in the vault until the turn takes it, for one use.
VaultOK ==
  \A p \in Posts :
    /\ (posts[p].pc \in Route1 \cup {"grant"} \/ posts[p].answer = "ok") =>
         p \in vault \/ Past(p, Early)
    /\ ran[p] <= 1 /\ (ran[p] = 1 => p \notin vault /\ p \in Range(inbox))

\* The thread has the newest grants, in the order they were issued; what it has not
\* was pushed out by newer ones or spent by its turn.
GrantsOK ==
  /\ Once(grants) /\ Len(grants) <= MaxGrants /\ InOrder(grants, issued)
  /\ \A p \in Range(grants) : p \in Range(issued)
  /\ \A p \in Range(issued) :
       p \in Range(grants) \/ PushedOut(p) \/ Past(p, Early \cup {"complete"})

Taken(p) == \E i \in 1 .. taken : inbox[i] = p
\* Without a fault a turn that is over left its reply, or its grant was pushed out.
SpentOK ==
  faults = 0 =>
    \A p \in Posts :
      /\ Taken(p) /\ p # turn.post => p \notin vault
      /\ Taken(p) /\ (p # turn.post \/ turn.pc = "revoke") =>
           p \notin Range(grants) /\ (p \in replies \/ PushedOut(p))
      /\ current = p => PushedOut(p) \/ (turn.post = p /\ turn.pc # "revoke")

SessionInv == SessionTypes /\ PostsOK /\ SessionOK /\ VaultOK /\ GrantsOK /\ SpentOK
Places == {"new", "model", "grant", "answered"} \cup Route1
Handling == [pc : Places, attempts : Nat, answer : {"none", "ok", "failed"}]

\* A handler changes the record of its own post.
Handles(p, pc, answer) ==
  /\ posts' \in [Posts -> Handling]
  /\ posts'[p].pc = pc /\ posts'[p].answer = answer
  /\ \A q \in Posts : q # p => posts'[q] = posts[q]

LEMMA GoesChanges ==
  ASSUME SessionTypes, NEW p \in Posts, NEW pc \in Places,
         Goes(p, pc)
  PROVE  Handles(p, pc, posts[p].answer)
<1> DEFINE new == [posts[p] EXCEPT !.pc = pc]
<1>1. posts[p] \in Handling /\ posts \in [Posts -> Handling]
  BY DEF SessionTypes, Handling, Places
<1>2. posts' = [posts EXCEPT ![p] = new]
  BY <1>1 DEF Goes
<1>3. new \in Handling /\ new.pc = pc /\ new.answer = posts[p].answer
  BY <1>1 DEF Handling, Places, Route1
<1> HIDE DEF new
<1> QED BY <1>1, <1>2, <1>3 DEF Handles

LEMMA AnswersChanges ==
  ASSUME SessionTypes, NEW p \in Posts, NEW answer \in {"ok", "failed"},
         Answers(p, answer)
  PROVE  Handles(p, "answered", answer)
<1> DEFINE new == [posts[p] EXCEPT !.pc = "answered", !.answer = answer]
<1>1. posts[p] \in Handling /\ posts \in [Posts -> Handling]
  BY DEF SessionTypes, Handling, Places
<1>2. posts' = [posts EXCEPT ![p] = new]
  BY <1>1 DEF Answers
<1>3. new \in Handling /\ new.pc = "answered" /\ new.answer = answer
  BY <1>1 DEF Handling, Places, Route1
<1> HIDE DEF new
<1> QED BY <1>1, <1>2, <1>3 DEF Handles

LEMMA AttemptChanges ==
  ASSUME SessionTypes, NEW p \in Posts, NEW pc \in {"append", "revoke"},
         posts' = [posts EXCEPT ![p].attempts = @ + 1, ![p].pc = pc]
  PROVE  Handles(p, pc, posts[p].answer)
<1> DEFINE n == posts[p].attempts + 1
           new == [posts[p] EXCEPT !.attempts = n, !.pc = pc]
<1>1. posts[p] \in Handling /\ posts \in [Posts -> Handling]
  BY DEF SessionTypes, Handling, Places
<1>2. n \in Nat
  BY <1>1 DEF Handling
<1>3. posts' = [posts EXCEPT ![p].attempts = n, ![p].pc = pc]
  OBVIOUS
<1> HIDE DEF n
<1>4. posts' = [posts EXCEPT ![p] = new]
  BY ONLY <1>1, <1>3
<1>5. new \in Handling /\ new.pc = pc /\ new.answer = posts[p].answer
  BY <1>1, <1>2 DEF Handling, Places, Route1
<1> HIDE DEF new
<1> QED BY <1>1, <1>4, <1>5 DEF Handles

\* The grants newer than p's in a list of them.
Newer(s, p) == {q \in Range(s) : \E i, j \in DOMAIN s : i < j /\ s[i] = p /\ s[j] = q}
LEMMA PushedOutIs ==
  ASSUME NEW p
  PROVE  /\ PushedOut(p) <=> Cardinality(Newer(issued, p)) >= MaxGrants
         /\ PushedOut(p)' <=> Cardinality(Newer(issued', p)) >= MaxGrants
BY DEF PushedOut, NewerThan, Newer

LEMMA PushedOutKept ==
  ASSUME NEW p, issued' = issued
  PROVE  PushedOut(p)' <=> PushedOut(p)
BY PushedOutIs

\* A grant that was pushed out stays so when one more is issued.
LEMMA PushedOutStays ==
  ASSUME NEW S, NEW s \in Seq(S), Once(s), NEW e \in S, e \notin Range(s), NEW p
  PROVE  /\ Append(s, e) \in Seq(S) /\ Once(Append(s, e)) /\ IsFiniteSet(Newer(Append(s, e), p))
         /\ Cardinality(Newer(s, p)) <= Cardinality(Newer(Append(s, e), p))
         /\ Cardinality(Newer(s, p)) \in Nat /\ Cardinality(Newer(Append(s, e), p)) \in Nat
<1> DEFINE t == Append(s, e)
<1>1. t \in Seq(S) /\ Len(t) = Len(s) + 1 /\ t[Len(s) + 1] = e /\ \A i \in 1 .. Len(s) : t[i] = s[i]
  OBVIOUS
<1>2. Len(s) \in Nat /\ \A i \in 1 .. Len(s) : s[i] # e
  BY RangeOf
<1> HIDE DEF t
<1>3. Once(t)
  BY <1>1, <1>2 DEF Once
<1>4. IsFiniteSet(Range(t)) /\ IsFiniteSet(Range(s))
  BY <1>1, <1>3, Counted
<1>5. Newer(s, p) \subseteq Range(s) /\ Newer(t, p) \subseteq Range(t)
  BY DEF Newer
<1>6. Newer(s, p) \subseteq Newer(t, p)
  <2> SUFFICES ASSUME NEW q \in Newer(s, p) PROVE q \in Newer(t, p)
    OBVIOUS
  <2>1. PICK i \in 1 .. Len(s), j \in 1 .. Len(s) : i < j /\ s[i] = p /\ s[j] = q
    BY RangeOf DEF Newer
  <2>2. i \in 1 .. Len(t) /\ j \in 1 .. Len(t) /\ t[i] = p /\ t[j] = q
    BY <1>1, <1>2, <2>1
  <2> QED BY <1>1, <2>1, <2>2, RangeOf DEF Newer
<1>7. IsFiniteSet(Newer(t, p)) /\ IsFiniteSet(Newer(s, p))
  BY <1>4, <1>5, FS_Subset
<1>8. Cardinality(Newer(s, p)) <= Cardinality(Newer(t, p))
  BY <1>6, <1>7, FS_Subset
<1>9. Cardinality(Newer(s, p)) \in Nat /\ Cardinality(Newer(t, p)) \in Nat
  BY <1>7, FS_CardinalityType
<1> QED BY <1>1, <1>3, <1>7, <1>8, <1>9 DEF t

\* Adding a grant keeps the newest MaxGrants; one that falls out is pushed out.
LEMMA NewestKept ==
  ASSUME MaxGrants \in Nat, NEW S, NEW s \in Seq(S), NEW g \in Seq(S), NEW e \in S,
         Once(s), Once(g), InOrder(g, s), Len(g) <= MaxGrants,
         \A x \in Range(g) : x \in Range(s), e \notin Range(s)
  PROVE  /\ Newest(Append(g, e)) \in Seq(S) /\ Once(Newest(Append(g, e)))
         /\ Len(Newest(Append(g, e))) <= MaxGrants
         /\ InOrder(Newest(Append(g, e)), Append(s, e))
         /\ \A x \in Range(Newest(Append(g, e))) : x \in Range(g) \cup {e}
         /\ \A x \in Range(g) \cup {e} :
              \/ x \in Range(Newest(Append(g, e)))
              \/ Cardinality(Newer(Append(s, e), x)) >= MaxGrants
<1> DEFINE a == Append(g, e)
           t == Append(s, e)
           m == IF Len(a) > MaxGrants THEN Len(a) - MaxGrants ELSE 0
           n == Newest(a)
<1>1. a \in Seq(S) /\ Len(a) = Len(g) + 1 /\ a[Len(g) + 1] = e /\ \A i \in 1 .. Len(g) : a[i] = g[i]
  OBVIOUS
<1>2. t \in Seq(S) /\ Len(t) = Len(s) + 1 /\ t[Len(s) + 1] = e /\ \A i \in 1 .. Len(s) : t[i] = s[i]
  OBVIOUS
<1>3. Len(s) \in Nat /\ Len(g) \in Nat /\ \A i \in 1 .. Len(s) : s[i] # e
  BY RangeOf
<1>4. m \in {0, 1} /\ (m = 1 <=> Len(g) = MaxGrants)
  BY <1>1, <1>3
<1>5. n = SubSeq(a, m + 1, Len(a))
  BY <1>1, <1>3 DEF Newest
<1> HIDE DEF a, t
<1>6. n \in Seq(S) /\ Len(n) = Len(a) - m /\ \A i \in 1 .. Len(n) : n[i] = a[i + m]
  <2> HIDE DEF n, m
  <2> DEFINE u == SubSeq(a, m + 1, Len(a))
  <2>1. m \in Nat /\ m <= Len(a) /\ m + 1 <= Len(a) + 1
    BY <1>1, <1>3, <1>4
  <2>2. u \in Seq(S) /\ Len(u) = Len(a) - m /\ \A i \in 1 .. Len(a) - m : u[i] = a[i + m]
    BY <1>1, <1>3, <2>1
  <2> HIDE DEF u
  <2>3. n = u
    BY <1>5 DEF u
  <2> QED BY <2>2, <2>3
<1> HIDE DEF n, m
<1>7. \A i \in 1 .. Len(g) : a[i] # e
  <2> SUFFICES ASSUME NEW i \in 1 .. Len(g) PROVE g[i] # e
    BY <1>1
  <2>1. g[i] \in Range(g)
    BY RangeOf
  <2> QED BY <2>1
<1>8. Once(a)
  BY <1>1, <1>3, <1>7 DEF Once
<1>9. InOrder(a, t)
  <2> SUFFICES ASSUME NEW i \in 1 .. Len(a), NEW j \in 1 .. Len(a), i < j
               PROVE  \E k, l \in 1 .. Len(t) : k < l /\ t[k] = a[i] /\ t[l] = a[j]
    BY DEF InOrder
  <2>1. CASE j <= Len(g)
    <3>1. i \in 1 .. Len(g) /\ j \in 1 .. Len(g)
      BY <1>1, <1>3, <2>1
    <3>2. PICK k, l \in 1 .. Len(s) : k < l /\ s[k] = g[i] /\ s[l] = g[j]
      BY <3>1 DEF InOrder
    <3> QED BY <1>1, <1>2, <1>3, <3>1, <3>2
  <2>2. CASE j = Len(g) + 1
    <3>1. i \in 1 .. Len(g) /\ g[i] \in Range(s)
      BY <1>1, <1>3, <2>2, RangeOf
    <3>2. PICK k \in 1 .. Len(s) : s[k] = g[i]
      BY <3>1, RangeOf
    <3>3. k \in 1 .. Len(t) /\ Len(s) + 1 \in 1 .. Len(t) /\ k < Len(s) + 1
      BY <1>2, <1>3
    <3>4. t[k] = a[i] /\ t[Len(s) + 1] = a[j]
      BY <1>1, <1>2, <2>2, <3>1, <3>2
    <3> QED BY <3>3, <3>4
  <2>3. j <= Len(g) \/ j = Len(g) + 1
    BY <1>1, <1>3
  <2> QED BY <2>1, <2>2, <2>3
<1>10. Once(n) /\ InOrder(n, t) /\ Len(n) <= MaxGrants
  <2>1. Len(n) <= MaxGrants
    BY <1>1, <1>3, <1>4, <1>6
  <2>2. \A i \in 1 .. Len(n) : i + m \in 1 .. Len(a) /\ n[i] = a[i + m]
    BY <1>1, <1>3, <1>4, <1>6
  <2>3. Once(n)
    BY <1>3, <1>4, <1>8, <2>2 DEF Once
  <2>4. InOrder(n, t)
    <3> SUFFICES ASSUME NEW i \in 1 .. Len(n), NEW j \in 1 .. Len(n), i < j
                 PROVE  \E k, l \in 1 .. Len(t) : k < l /\ t[k] = n[i] /\ t[l] = n[j]
      BY DEF InOrder
    <3>1. i + m < j + m
      BY <1>4
    <3> QED BY <1>9, <2>2, <3>1 DEF InOrder
  <2> QED BY <2>1, <2>3, <2>4
<1>11. \A x : x \in Range(n) <=> \E i \in 1 .. Len(a) : i > m /\ a[i] = x
  <2> SUFFICES ASSUME NEW x PROVE x \in Range(n) <=> \E i \in 1 .. Len(a) : i > m /\ a[i] = x
    OBVIOUS
  <2>1. ASSUME NEW i \in 1 .. Len(n), n[i] = x PROVE \E j \in 1 .. Len(a) : j > m /\ a[j] = x
    <3>1. i + m \in 1 .. Len(a) /\ i + m > m
      BY <1>1, <1>3, <1>4, <1>6
    <3> QED BY <1>6, <2>1, <3>1
  <2>2. ASSUME NEW i \in 1 .. Len(a), i > m, a[i] = x PROVE \E j \in 1 .. Len(n) : n[j] = x
    <3>1. i - m \in 1 .. Len(n) /\ (i - m) + m = i
      BY <1>1, <1>3, <1>4, <1>6, <2>2
    <3> QED BY <1>6, <2>2, <3>1
  <2> QED BY <1>6, <2>1, <2>2, RangeOf
<1>12. \A x : x \in Range(a) <=> x \in Range(g) \cup {e}
  BY Appended DEF a
<1>13. ASSUME NEW x \in Range(g) \cup {e}, x \notin Range(n)
       PROVE  Cardinality(Newer(t, x)) >= MaxGrants
  <2>1. m = 1 /\ Len(g) = MaxGrants /\ a[1] = x
    BY <1>1, <1>3, <1>4, <1>11, <1>12, <1>13, RangeOf
  <2>2. Range(n) \subseteq Newer(t, x)
    <3> SUFFICES ASSUME NEW y \in Range(n) PROVE y \in Newer(t, x)
      OBVIOUS
    <3>1. PICK i \in 1 .. Len(a) : i > 1 /\ a[i] = y
      BY <1>11, <2>1
    <3>2. 1 \in 1 .. Len(a)
      BY <1>1, <1>3
    <3>3. \E k, l \in 1 .. Len(t) : k < l /\ t[k] = a[1] /\ t[l] = a[i]
      BY <1>9, <3>1, <3>2 DEF InOrder
    <3>4. PICK k \in 1 .. Len(t), l \in 1 .. Len(t) : k < l /\ t[k] = x /\ t[l] = y
      BY <2>1, <3>1, <3>3
    <3>5. y \in Range(t) /\ DOMAIN t = 1 .. Len(t)
      BY <1>2, <3>4, RangeOf
    <3> QED BY <3>4, <3>5 DEF Newer
  <2>3. IsFiniteSet(Newer(t, x))
    BY PushedOutStays DEF t
  <2>4. Cardinality(Range(n)) = MaxGrants
    BY <1>1, <1>3, <1>6, <1>10, <2>1, Counted
  <2>5. Cardinality(Newer(t, x)) \in Nat
    BY <2>3, FS_CardinalityType
  <2> QED BY <2>2, <2>3, <2>4, <2>5, FS_Subset
<1>14. \A x \in Range(n) : x \in Range(g) \cup {e}
  BY <1>11, <1>12, <1>1, RangeOf
<1> QED BY <1>6, <1>10, <1>13, <1>14 DEF n, a, t

SessionBounds == MaxGrants \in Nat /\ MaxFaults \in Nat

LEMMA FaultCounts ==
  ASSUME SessionTypes, SessionBounds
  PROVE  /\ UNCHANGED faults => faults' \in 0 .. MaxFaults
         /\ Fault => faults' \in 0 .. MaxFaults /\ faults' # 0
BY DEF SessionTypes, SessionBounds, Fault

\* A step of the route that leaves the session and the grants of the thread alone.
LEMMA RouteStep ==
  ASSUME SessionInv, SessionBounds, NEW p \in Posts, NEW pc \in Places, NEW answer,
         Handles(p, pc, answer), UNCHANGED <<thread, issued, session>>,
         faults' \in 0 .. MaxFaults, faults' = 0 => faults = 0,
         pc \in Route1 \/ answer = "ok" => posts[p].pc \in Route1,
         pc \notin {"new", "model"}, pc = "grant" => posts[p].pc = "new",
         answer # "none" => pc = "answered",
         p \in Range(inbox) => pc \in {"append", "revoke", "answered"},
         vault' \in SUBSET Posts, \A q \in Posts : q # p => (q \in vault' <=> q \in vault),
         p \in vault' => p \in vault \/ posts[p].pc = "new",
         (pc \in Route1 \cup {"grant"} \/ answer = "ok") =>
           p \in vault' \/ (p \notin vault /\ posts[p].pc \in Route1)
  PROVE  SessionInv'
<1>1. SessionTypes'
  BY DEF SessionInv, SessionTypes, Handles, thread, session, Handling, Places
<1>2. PostsOK'
  <2> SUFFICES ASSUME NEW q \in Posts
               PROVE  /\ (posts'[q].pc \in Route1 \/ posts'[q].answer = "ok") => q \in Range(issued)
                      /\ posts'[q].pc \in {"new", "model", "grant"} => q \notin Range(issued)
                      /\ posts'[q].answer # "none" => posts'[q].pc = "answered"
                      /\ q \in Range(inbox) =>
                           q \in Range(issued) /\ posts'[q].pc \in {"append", "revoke", "answered"}
    BY DEF PostsOK, session
  <2>1. CASE q # p
    BY <2>1 DEF Handles, SessionInv, PostsOK
  <2>2. CASE q = p
    BY <2>2 DEF Handles, SessionInv, PostsOK
  <2> QED BY <2>1, <2>2
<1>3. SessionOK'
  BY DEF SessionInv, SessionOK, session, Once
<1>4. \A q, pcs : Past(q, pcs)' <=> Past(q, pcs)
  BY DEF Past, session
<1>5. VaultOK'
  <2> SUFFICES ASSUME NEW q \in Posts
               PROVE  /\ (posts'[q].pc \in Route1 \cup {"grant"} \/ posts'[q].answer = "ok") =>
                           q \in vault' \/ Past(q, Early)
                      /\ ran[q] <= 1 /\ (ran[q] = 1 => q \notin vault' /\ q \in Range(inbox))
    BY <1>4 DEF VaultOK, session, Early
  <2>1. CASE q # p
    BY <2>1 DEF Handles, SessionInv, VaultOK
  <2>2. CASE q = p
    <3>1. p \in Range(inbox) => posts[p].pc # "new"
      BY DEF SessionInv, PostsOK
    <3> QED BY <2>2, <3>1 DEF Handles, SessionInv, VaultOK
  <2> QED BY <2>1, <2>2
<1>6. \A q : PushedOut(q)' <=> PushedOut(q)
  BY PushedOutKept, issued' = issued
<1>7. GrantsOK'
  <2>1. GrantsOK /\ grants' = grants /\ issued' = issued
    BY DEF SessionInv, thread
  <2>2. Once(grants)' /\ Len(grants)' <= MaxGrants /\ InOrder(grants, issued)'
    BY <2>1 DEF GrantsOK, Once, InOrder
  <2>3. /\ \A q \in Range(grants)' : q \in Range(issued)'
        /\ \A q \in Range(issued)' :
             q \in Range(grants)' \/ PushedOut(q)' \/ Past(q, Early \cup {"complete"})'
    BY <1>4, <1>6, <2>1 DEF GrantsOK, Early, Range
  <2> QED BY <2>2, <2>3 DEF GrantsOK
<1>8. SpentOK'
  <2> SUFFICES ASSUME faults = 0, NEW q \in Posts
               PROVE  /\ Taken(q) /\ q # turn.post => q \notin vault'
                      /\ Taken(q) /\ (q # turn.post \/ turn.pc = "revoke") =>
                           q \notin Range(grants) /\ (q \in replies \/ PushedOut(q))
                      /\ current = q => PushedOut(q) \/ (turn.post = q /\ turn.pc # "revoke")
    BY <1>6 DEF SpentOK, Taken, thread, session
  <2>1. Taken(q) => posts[q].pc # "new"
    <3>1. Taken(q) => q \in Range(inbox)
      BY RangeOf DEF Taken, SessionInv, SessionTypes
    <3> QED BY <3>1 DEF SessionInv, PostsOK
  <2> QED BY <2>1 DEF SessionInv, SpentOK
<1> QED BY <1>1, <1>2, <1>3, <1>5, <1>7, <1>8 DEF SessionInv

LEMMA RouteSteps ==
  ASSUME SessionInv, SessionBounds, NEW p \in Posts,
         IssueModel(p) \/ StartSession(p) \/ MarkCreated(p) \/ RevokeModel(p)
  PROVE  SessionInv'
<1>1. posts[p].answer # "none" => posts[p].pc = "answered"
  BY DEF SessionInv, PostsOK
<1>2. /\ UNCHANGED faults => faults' \in 0 .. MaxFaults /\ (faults' = 0 => faults = 0)
      /\ Fault => faults' \in 0 .. MaxFaults /\ (faults' = 0 => faults = 0)
  BY FaultCounts DEF SessionInv
<1>3. vault \subseteq Posts /\ SessionTypes
  BY DEF SessionInv, SessionTypes
<1>4. UNCHANGED <<thread, issued, session>>
  BY DEF IssueModel, StartSession, MarkCreated, RevokeModel
<1>5. CASE IssueModel(p)
  <2>1. posts[p].pc = "new" /\ posts[p].answer = "none" /\ p \notin Range(inbox)
    BY <1>1, <1>5 DEF IssueModel, At, SessionInv, PostsOK, SessionTypes
  <2>2. CASE vault' = vault \cup {p} /\ Goes(p, "grant") /\ UNCHANGED faults
    <3>1. Handles(p, "grant", "none")
      BY <1>3, <2>1, <2>2, GoesChanges DEF Places
    <3> QED BY <1>2, <1>3, <1>4, <2>1, <2>2, <3>1, RouteStep DEF Places, Route1
  <2>3. CASE vault' \in {vault, vault \cup {p}} /\ Fault /\ Answers(p, "failed")
    <3>1. Handles(p, "answered", "failed")
      BY <1>3, <2>3, AnswersChanges
    <3> QED BY <1>2, <1>3, <1>4, <2>1, <2>3, <3>1, RouteStep DEF Places, Route1
  <2> QED BY <1>5, <2>2, <2>3 DEF IssueModel
<1>6. CASE StartSession(p)
  <2>1. posts[p].pc = "start" /\ posts[p].answer = "none" /\ p \notin Range(inbox)
    BY <1>1, <1>6 DEF StartSession, At, SessionInv, PostsOK, SessionTypes
  <2>2. PICK pc \in {"mark", "revoke"} : Goes(p, pc) /\ (UNCHANGED faults \/ Fault)
    BY <1>6 DEF StartSession
  <2>3. Handles(p, pc, "none")
    BY <1>3, <2>1, <2>2, GoesChanges DEF Places, Route1
  <2>4. vault' = vault
    BY <1>6 DEF StartSession
  <2> QED BY <1>2, <1>3, <1>4, <2>1, <2>2, <2>3, <2>4, RouteStep DEF Places, Route1
<1>7. CASE MarkCreated(p)
  <2>1. posts[p].pc = "mark" /\ posts[p].answer = "none" /\ p \notin Range(inbox)
    BY <1>1, <1>7 DEF MarkCreated, At, SessionInv, PostsOK, SessionTypes
  <2>2. vault' = vault
    BY <1>7 DEF MarkCreated
  <2>3. CASE Answers(p, "ok") /\ UNCHANGED faults
    <3>1. Handles(p, "answered", "ok")
      BY <1>3, <2>3, AnswersChanges
    <3> QED BY <1>2, <1>3, <1>4, <2>1, <2>2, <2>3, <3>1, RouteStep DEF Places, Route1
  <2>4. CASE Fault /\ Goes(p, "revoke")
    <3>1. Handles(p, "revoke", "none")
      BY <1>3, <2>1, <2>4, GoesChanges DEF Places, Route1
    <3> QED BY <1>2, <1>3, <1>4, <2>1, <2>2, <2>4, <3>1, RouteStep DEF Places, Route1
  <2> QED BY <1>7, <2>3, <2>4 DEF MarkCreated
<1>8. CASE RevokeModel(p)
  <2>1. posts[p].pc = "revoke" /\ Handles(p, "answered", "failed")
    BY <1>3, <1>8, AnswersChanges DEF RevokeModel, At
  <2>2. vault' \in {vault, vault \ {p}} /\ (UNCHANGED faults \/ Fault)
    BY <1>8 DEF RevokeModel, Fault
  <2> QED BY <1>2, <1>3, <1>4, <2>1, <2>2, RouteStep DEF Places, Route1
<1> QED BY <1>5, <1>6, <1>7, <1>8

LEMMA AddGrantStep ==
  ASSUME SessionInv, SessionBounds, NEW p \in Posts, AddGrant(p)
  PROVE  SessionInv'
<1>1. /\ posts[p].pc = "grant" /\ posts[p].answer = "none" /\ p \notin Range(inbox)
      /\ p \notin Range(issued) /\ SessionTypes
  BY DEF AddGrant, At, SessionInv, PostsOK, SessionTypes
<1>2. UNCHANGED <<vault, current, session>>
  BY DEF AddGrant
<1>3. CASE Fault /\ Answers(p, "failed") /\ UNCHANGED <<grants, issued>>
  <2>1. Handles(p, "answered", "failed")
    BY <1>1, <1>3, AnswersChanges
  <2>2. faults' \in 0 .. MaxFaults /\ faults' # 0
    BY <1>1, <1>3, FaultCounts
  <2> QED BY <1>1, <1>2, <1>3, <2>1, <2>2, RouteStep DEF Places, Route1, thread, SessionTypes
<1>4. CASE /\ grants' = Newest(Append(RemoveFirst(grants, p), p)) /\ issued' = Append(issued, p)
           /\ \E pc \in {"append", "start"} : Goes(p, pc)
           /\ UNCHANGED faults
  <2>1. PICK pc \in {"append", "start"} : Handles(p, pc, "none")
    BY <1>1, <1>4, GoesChanges DEF Places, Route1
  <2>2. RemoveFirst(grants, p) = grants
    <3>1. Once(grants) /\ p \notin Range(grants) /\ grants \in Seq(Posts)
      BY <1>1 DEF SessionInv, GrantsOK, SessionTypes
    <3> QED BY <3>1, RemovedOnce
  <2>3. /\ grants' \in Seq(Posts) /\ Once(grants') /\ Len(grants') <= MaxGrants
        /\ InOrder(grants', issued') /\ \A x \in Range(grants') : x \in Range(grants) \cup {p}
        /\ \A x \in Range(grants) \cup {p} :
             x \in Range(grants') \/ Cardinality(Newer(issued', x)) >= MaxGrants
    <3>1. /\ MaxGrants \in Nat /\ issued \in Seq(Posts) /\ grants \in Seq(Posts)
          /\ Once(issued) /\ Once(grants) /\ InOrder(grants, issued) /\ Len(grants) <= MaxGrants
          /\ \A x \in Range(grants) : x \in Range(issued)
      BY DEF SessionInv, GrantsOK, SessionOK, SessionTypes, SessionBounds
    <3> HIDE DEF Once, InOrder, Newer, Newest
    <3> QED BY <1>1, <1>4, <2>2, <3>1, NewestKept
  <2>4. /\ issued' \in Seq(Posts) /\ Once(issued')
        /\ \A q : PushedOut(q) => Cardinality(Newer(issued', q)) >= MaxGrants
    <3>1. issued \in Seq(Posts) /\ Once(issued)
      BY DEF SessionInv, SessionOK, SessionTypes
    <3>2. issued' \in Seq(Posts) /\ Once(issued')
      BY <1>1, <1>4, <3>1, PushedOutStays
    <3>3. ASSUME NEW q, PushedOut(q) PROVE Cardinality(Newer(issued', q)) >= MaxGrants
      <4>1. /\ Cardinality(Newer(issued, q)) <= Cardinality(Newer(issued', q))
            /\ Cardinality(Newer(issued, q)) \in Nat /\ Cardinality(Newer(issued', q)) \in Nat
        BY <1>1, <1>4, <3>1, PushedOutStays
      <4>2. Cardinality(Newer(issued, q)) >= MaxGrants
        BY <3>3, PushedOutIs
      <4> QED BY <4>1, <4>2 DEF SessionBounds
    <3> QED BY <3>2, <3>3
  <2>5. \A q : PushedOut(q) => PushedOut(q)'
    BY <2>4, PushedOutIs
  <2>6. \A x \in Range(grants) \cup {p} : x \in Range(grants') \/ PushedOut(x)'
    BY <2>3, PushedOutIs
  <2>7. \A q : q \in Range(issued') <=> q \in Range(issued) \cup {p}
    BY <1>4, Appended DEF SessionInv, SessionTypes
  <2>8. \A q, pcs : Past(q, pcs)' <=> Past(q, pcs)
    BY <1>2 DEF Past, session
  <2>9. SessionTypes'
    BY <1>1, <1>2, <1>4, <2>1, <2>3, <2>4 DEF SessionTypes, Handles, session, Handling, Places
  <2>10. PostsOK'
    <3> SUFFICES ASSUME NEW q \in Posts
                 PROVE  /\ (posts'[q].pc \in Route1 \/ posts'[q].answer = "ok") => q \in Range(issued')
                        /\ posts'[q].pc \in {"new", "model", "grant"} => q \notin Range(issued')
                        /\ posts'[q].answer # "none" => posts'[q].pc = "answered"
                        /\ q \in Range(inbox) =>
                             q \in Range(issued') /\ posts'[q].pc \in {"append", "revoke", "answered"}
      BY <1>2 DEF PostsOK, session
    <3>1. CASE q # p
      BY <2>1, <2>7, <3>1 DEF Handles, SessionInv, PostsOK
    <3>2. CASE q = p
      BY <1>1, <2>1, <2>7, <3>2 DEF Handles, Route1
    <3> QED BY <3>1, <3>2
  <2>11. SessionOK'
    BY <1>2, <2>4 DEF SessionInv, SessionOK, session, Once
  <2>12. VaultOK'
    <3> SUFFICES ASSUME NEW q \in Posts
                 PROVE  /\ (posts'[q].pc \in Route1 \cup {"grant"} \/ posts'[q].answer = "ok") =>
                             q \in vault \/ Past(q, Early)
                        /\ ran[q] <= 1 /\ (ran[q] = 1 => q \notin vault /\ q \in Range(inbox))
      BY <1>2, <2>8 DEF VaultOK, session, Early
    <3>1. CASE q # p
      BY <2>1, <3>1 DEF Handles, SessionInv, VaultOK
    <3>2. CASE q = p
      BY <1>1, <3>2 DEF SessionInv, VaultOK
    <3> QED BY <3>1, <3>2
  <2>13. GrantsOK'
    <3>1. \A x \in Range(grants') : x \in Range(issued')
      BY <2>3, <2>7 DEF SessionInv, GrantsOK
    <3>2. ASSUME NEW q \in Range(issued')
          PROVE  q \in Range(grants') \/ PushedOut(q)' \/ Past(q, Early \cup {"complete"})
      BY <2>5, <2>6, <2>7 DEF SessionInv, GrantsOK
    <3> QED BY <2>3, <2>8, <3>1, <3>2 DEF GrantsOK, Early
  <2>14. SpentOK'
    <3> SUFFICES ASSUME faults = 0, NEW q \in Posts
                 PROVE  /\ Taken(q) /\ q # turn.post => q \notin vault
                        /\ Taken(q) /\ (q # turn.post \/ turn.pc = "revoke") =>
                             q \notin Range(grants') /\ (q \in replies \/ PushedOut(q)')
                        /\ current = q => PushedOut(q)' \/ (turn.post = q /\ turn.pc # "revoke")
      BY <1>2, <1>4 DEF SpentOK, Taken, session
    <3>1. Taken(q) => q \in Range(inbox)
      BY RangeOf DEF Taken, SessionInv, SessionTypes
    <3>2. Taken(q) => q # p
      BY <1>1, <3>1
    <3> QED BY <2>3, <2>5, <3>2 DEF SessionInv, SpentOK
  <2> QED BY <2>9, <2>10, <2>11, <2>12, <2>13, <2>14 DEF SessionInv
<1> QED BY <1>3, <1>4 DEF AddGrant

\* What one more message in the inbox changes.
LEMMA Accepts ==
  ASSUME SessionTypes, NEW p \in Posts, Once(inbox), Accept(p) \/ inbox' = inbox
  PROVE  /\ inbox' \in Seq(Posts) /\ Once(inbox') /\ taken \in 0 .. Len(inbox')
         /\ \A i \in 1 .. taken : inbox'[i] = inbox[i]
         /\ \A q : q \in Range(inbox') => q \in Range(inbox) \/ q = p
         /\ \A q \in Range(inbox) : q \in Range(inbox')
<1>1. inbox \in Seq(Posts) /\ taken \in 0 .. Len(inbox)
  BY DEF SessionTypes
<1>2. CASE inbox' = inbox
  BY <1>1, <1>2
<1>3. CASE p \notin Range(inbox) /\ inbox' = Append(inbox, p)
  <2>1. /\ inbox' \in Seq(Posts) /\ Len(inbox') = Len(inbox) + 1 /\ inbox'[Len(inbox) + 1] = p
        /\ \A i \in 1 .. Len(inbox) : inbox'[i] = inbox[i]
    BY <1>1, <1>3
  <2>2. Len(inbox) \in Nat /\ \A i \in 1 .. Len(inbox) : inbox[i] # p
    BY <1>1, <1>3, RangeOf
  <2>3. Once(inbox')
    BY <2>1, <2>2 DEF Once
  <2>4. /\ \A q : q \in Range(inbox') => q \in Range(inbox) \/ q = p
        /\ \A q \in Range(inbox) : q \in Range(inbox')
    BY <1>1, <1>3, Appended
  <2>5. taken \in 0 .. Len(inbox') /\ \A i \in 1 .. taken : i \in 1 .. Len(inbox)
    BY <1>1, <2>1, <2>2
  <2> QED BY <2>1, <2>3, <2>4, <2>5
<1> QED BY <1>2, <1>3 DEF Accept

LEMMA AttemptStep ==
  ASSUME SessionInv, SessionBounds, NEW p \in Posts, Attempt(p)
  PROVE  SessionInv'
<1>1. posts[p].pc = "append" /\ posts[p].answer = "none" /\ p \in Range(issued) /\ SessionTypes
  BY DEF Attempt, At, SessionInv, PostsOK, SessionTypes, Route1
<1>2. UNCHANGED <<vault, thread, issued, taken, turn, replies, ran>>
  BY DEF Attempt
<1>3. PICK pc \in {"append", "revoke", "answered"}, answer \in {"none", "ok"} :
        /\ Handles(p, pc, answer) /\ (answer = "ok" => pc = "answered")
        /\ Accept(p) \/ inbox' = inbox
        /\ faults' \in 0 .. MaxFaults /\ (faults' = 0 => faults = 0)
  <2>1. CASE Accept(p) /\ Answers(p, "ok") /\ UNCHANGED faults
    BY <1>1, <2>1, AnswersChanges, FaultCounts
  <2>2. CASE \E retryable \in BOOLEAN, accepted \in BOOLEAN :
               /\ Fault /\ (accepted => retryable)
               /\ posts' = [posts EXCEPT ![p].attempts = @ + 1,
                              ![p].pc = IF GivenUp(p, retryable) THEN "revoke" ELSE "append"]
               /\ IF accepted THEN Accept(p) ELSE UNCHANGED inbox
    <3>1. PICK pc \in {"append", "revoke"} :
            posts' = [posts EXCEPT ![p].attempts = @ + 1, ![p].pc = pc]
      BY <2>2
    <3>2. Handles(p, pc, "none")
      BY <1>1, <3>1, AttemptChanges
    <3> QED BY <1>1, <2>2, <3>2, FaultCounts
  <2> QED BY <2>1, <2>2 DEF Attempt
<1>4. /\ inbox' \in Seq(Posts) /\ Once(inbox') /\ taken \in 0 .. Len(inbox')
      /\ \A i \in 1 .. taken : inbox'[i] = inbox[i]
      /\ \A q : q \in Range(inbox') => q \in Range(inbox) \/ q = p
      /\ \A q \in Range(inbox) : q \in Range(inbox')
  BY <1>1, <1>3, Accepts DEF SessionInv, SessionOK
<1>5. \A q : PushedOut(q)' <=> PushedOut(q)
  BY <1>2, PushedOutKept
<1>6. /\ \A q, pcs : Past(q, pcs)' <=> Past(q, pcs)
      /\ \A q : Taken(q)' <=> Taken(q)
  BY <1>2, <1>4 DEF Past, Taken
<1>7. SessionTypes'
  BY <1>1, <1>2, <1>3, <1>4 DEF SessionTypes, Handles, thread, Handling, Places
<1>8. PostsOK'
  <2> SUFFICES ASSUME NEW q \in Posts
               PROVE  /\ (posts'[q].pc \in Route1 \/ posts'[q].answer = "ok") => q \in Range(issued)
                      /\ posts'[q].pc \in {"new", "model", "grant"} => q \notin Range(issued)
                      /\ posts'[q].answer # "none" => posts'[q].pc = "answered"
                      /\ q \in Range(inbox') =>
                           q \in Range(issued) /\ posts'[q].pc \in {"append", "revoke", "answered"}
    BY <1>2 DEF PostsOK
  <2>1. CASE q # p
    BY <1>3, <1>4, <2>1 DEF Handles, SessionInv, PostsOK
  <2>2. CASE q = p
    BY <1>1, <1>3, <2>2 DEF Handles
  <2> QED BY <2>1, <2>2
<1>9. SessionOK'
  <2>1. taken # 0 => inbox'[taken] = inbox[taken]
    BY <1>1, <1>4 DEF SessionTypes
  <2> QED BY <1>2, <1>4, <2>1 DEF SessionInv, SessionOK, Once
<1>10. VaultOK'
  <2> SUFFICES ASSUME NEW q \in Posts
               PROVE  /\ (posts'[q].pc \in Route1 \cup {"grant"} \/ posts'[q].answer = "ok") =>
                           q \in vault \/ Past(q, Early)
                      /\ ran[q] <= 1 /\ (ran[q] = 1 => q \notin vault /\ q \in Range(inbox'))
    BY <1>2, <1>6 DEF VaultOK, Early
  <2>1. CASE q # p
    BY <1>3, <1>4, <2>1 DEF Handles, SessionInv, VaultOK
  <2>2. CASE q = p
    BY <1>1, <1>4, <2>2 DEF SessionInv, VaultOK, Route1
  <2> QED BY <2>1, <2>2
<1>11. GrantsOK'
  BY <1>2, <1>5, <1>6 DEF SessionInv, GrantsOK, thread, Once, InOrder, Early
<1>12. SpentOK'
  BY <1>2, <1>3, <1>5, <1>6 DEF SessionInv, SpentOK, thread
<1> QED BY <1>7, <1>8, <1>9, <1>10, <1>11, <1>12 DEF SessionInv

Turning == {"idle", "model", "complete", "revoke"} \cup Early

LEMMA TakeStep ==
  ASSUME SessionInv, SessionBounds, None \notin Posts, Take
  PROVE  SessionInv'
<1>1. /\ turn.pc = "idle" /\ turn.post = None /\ taken < Len(inbox) /\ taken' = taken + 1
      /\ turn' = [post |-> inbox[taken + 1], pc |-> "hydrate"]
      /\ UNCHANGED <<Route, vault, thread, inbox, replies, ran, faults>>
      /\ SessionTypes /\ Once(inbox)
  BY DEF Take, In, SessionInv, SessionOK
<1>2. /\ taken \in Nat /\ taken + 1 \in 1 .. Len(inbox) /\ inbox[taken + 1] \in Posts
      /\ \A i \in 1 .. taken : i \in 1 .. Len(inbox) /\ i # taken + 1
      /\ \A i \in 1 .. taken + 1 : i = taken + 1 \/ i \in 1 .. taken
      /\ \A i \in 1 .. taken : i \in 1 .. taken + 1
  BY <1>1 DEF SessionTypes
<1>3. turn'.post = inbox[taken + 1] /\ turn'.pc = "hydrate"
  BY <1>1
<1>4. \A i \in 1 .. taken : inbox[i] # turn'.post
  BY <1>1, <1>2, <1>3 DEF Once
<1>5. \A q : PushedOut(q)' <=> PushedOut(q)
  BY <1>1, PushedOutKept DEF Route
<1>6. \A q, pcs : Past(q, pcs) => Past(q, pcs)'
  BY <1>1, <1>2, <1>4 DEF Past
<1>7. \A q : Taken(q)' => Taken(q) \/ q = turn'.post
  BY <1>1, <1>2, <1>3 DEF Taken
<1>8. SessionTypes'
  <2>1. turn' \in [post : Posts \cup {None}, pc : {"idle", "model", "complete", "revoke"} \cup Early]
    BY <1>1, <1>2 DEF Early
  <2>2. taken' \in 0 .. Len(inbox)
    BY <1>1, <1>2
  <2> QED BY <1>1, <2>1, <2>2 DEF SessionTypes, Route, thread
<1>9. PostsOK'
  BY <1>1 DEF SessionInv, PostsOK, Route
<1>10. SessionOK'
  <2>1. taken' # 0 /\ turn'.post = inbox[taken'] /\ turn'.post # None
    BY <1>1, <1>2, <1>3
  <2> QED BY <1>1, <1>3, <2>1 DEF SessionInv, SessionOK, Route, Once
<1>11. VaultOK'
  BY <1>1, <1>6 DEF SessionInv, VaultOK, Route, Early
<1>12. GrantsOK'
  BY <1>1, <1>5, <1>6 DEF SessionInv, GrantsOK, Route, thread, Once, InOrder, Early
<1>13. SpentOK'
  <2> SUFFICES ASSUME faults = 0, NEW q \in Posts
               PROVE  /\ Taken(q)' /\ q # turn'.post => q \notin vault
                      /\ Taken(q)' /\ (q # turn'.post \/ turn'.pc = "revoke") =>
                           q \notin Range(grants) /\ (q \in replies \/ PushedOut(q))
                      /\ current = q => PushedOut(q) \/ (turn'.post = q /\ turn'.pc # "revoke")
    BY <1>1, <1>5 DEF SpentOK, thread
  <2>1. q # turn.post
    BY <1>1
  <2> QED BY <1>3, <1>7, <2>1 DEF SessionInv, SpentOK
<1> QED BY <1>8, <1>9, <1>10, <1>11, <1>12, <1>13 DEF SessionInv

\* A step of a turn, or its end.
TurnGoes(pc) == /\ turn.pc # "idle" /\ UNCHANGED <<posts, issued, inbox, taken>>
                /\ turn' \in [post : Posts \cup {None}, pc : Turning] /\ turn'.pc = pc
                /\ turn'.post = IF pc = "idle" THEN None ELSE turn.post

LEMMA TurnFrame ==
  ASSUME SessionInv, None \notin Posts, NEW pc \in Turning, TurnGoes(pc)
  PROVE  /\ PostsOK' /\ SessionOK' /\ turn.post \in Posts /\ Taken(turn.post)
         /\ \A q : PushedOut(q)' <=> PushedOut(q)
         /\ \A q : Taken(q)' <=> Taken(q)
         /\ \A q, pcs : Past(q, pcs) /\ (pc \in pcs => turn.pc \in pcs) => Past(q, pcs)'
         /\ \A q, pcs : q = turn.post /\ pc \notin pcs => Past(q, pcs)'
         /\ \A q, pcs : Past(q, pcs) => Taken(q)
<1>1. UNCHANGED <<posts, issued, inbox, taken>>
  BY DEF TurnGoes
<1>2. /\ turn.pc # "idle" /\ turn.post = inbox[taken] /\ taken # 0 /\ SessionTypes
      /\ turn.post # None
  BY DEF TurnGoes, SessionInv, SessionOK
<1>3. taken \in 1 .. taken /\ turn.post \in Posts
  BY <1>2 DEF SessionTypes
<1>4. Taken(turn.post)
  BY <1>2, <1>3 DEF Taken
<1>5. PostsOK'
  BY <1>1 DEF SessionInv, PostsOK
<1>6. SessionOK'
  BY <1>1, <1>2, <1>3 DEF SessionInv, SessionOK, TurnGoes, Once
<1>7. \A q : PushedOut(q)' <=> PushedOut(q)
  BY <1>1, PushedOutKept
<1>8. \A q : Taken(q)' <=> Taken(q)
  BY <1>1 DEF Taken
<1>9. ASSUME NEW q, NEW pcs, Past(q, pcs), pc \in pcs => turn.pc \in pcs
      PROVE  Past(q, pcs)'
  <2>1. PICK i \in 1 .. taken : inbox[i] = q /\ ~(turn.post = q /\ turn.pc \in pcs)
    BY <1>9 DEF Past
  <2>2. inbox[i] \in Posts
    BY <1>2 DEF SessionTypes
  <2>3. ~(turn'.post = q /\ turn'.pc \in pcs)
    BY <1>9, <2>1, <2>2 DEF TurnGoes
  <2> QED BY <1>1, <2>1, <2>3 DEF Past
<1>10. ASSUME NEW q, q = turn.post, NEW pcs, pc \notin pcs PROVE Past(q, pcs)'
  BY <1>1, <1>2, <1>3, <1>10 DEF Past, TurnGoes
<1>11. \A q, pcs : Past(q, pcs) => Taken(q)
  BY DEF Past, Taken
<1> QED BY <1>3, <1>4, <1>5, <1>6, <1>7, <1>8, <1>9, <1>10, <1>11

LEMMA TurnSteps ==
  ASSUME SessionInv, SessionBounds, None \notin Posts,
         Hydrate \/ BeginTurn \/ RunModel \/ CompleteTurn \/ EndTurn \/ RunDies
  PROVE  SessionInv'
<1>1. /\ UNCHANGED faults => faults' \in 0 .. MaxFaults
      /\ Fault => faults' \in 0 .. MaxFaults /\ faults' # 0
  BY FaultCounts DEF SessionInv
<1>2. SessionTypes /\ turn \in [post : Posts \cup {None}, pc : Turning]
  BY DEF SessionInv, SessionTypes, Turning
<1>3. ASSUME NEW pc \in Turning, turn.pc # "idle", Turns(pc), pc # "idle"
      PROVE  turn' \in [post : Posts \cup {None}, pc : Turning] /\ turn'.pc = pc
             /\ turn'.post = turn.post
  BY <1>2, <1>3 DEF Turns
<1>4. CASE Hydrate
  <2>1. PICK pc \in {"begin", "complete"} : TurnGoes(pc)
    BY <1>3, <1>4 DEF Hydrate, In, TurnGoes, Turning, Early, Route
  <2>2. /\ turn.pc = "hydrate" /\ UNCHANGED <<Route, vault, thread, inbox, taken, replies, ran>>
        /\ faults' \in 0 .. MaxFaults /\ (faults' = 0 => faults = 0)
    BY <1>1, <1>4 DEF Hydrate, In
  <2>3. /\ PostsOK' /\ SessionOK' /\ turn.post \in Posts
        /\ \A q : (PushedOut(q)' <=> PushedOut(q)) /\ (Taken(q)' <=> Taken(q))
        /\ \A q : Past(q, Early) => Past(q, Early)'
        /\ \A q : Past(q, Early \cup {"complete"}) => Past(q, Early \cup {"complete"})'
    BY <2>1, <2>2, TurnFrame DEF Early, Turning
  <2>4. SessionTypes'
    BY <1>2, <2>1, <2>2 DEF SessionTypes, TurnGoes, Turning, thread
  <2>5. VaultOK'
    BY <2>2, <2>3 DEF SessionInv, VaultOK, Route, Early
  <2>6. GrantsOK'
    BY <2>2, <2>3 DEF SessionInv, GrantsOK, Route, thread, Once, InOrder, Early
  <2>7. SpentOK'
    BY <2>1, <2>2, <2>3 DEF SessionInv, SpentOK, TurnGoes, thread
  <2> QED BY <2>3, <2>4, <2>5, <2>6, <2>7 DEF SessionInv
<1>5. CASE BeginTurn
  <2>1. PICK pc \in {"prepare", "complete"} : TurnGoes(pc)
    BY <1>3, <1>5 DEF BeginTurn, In, TurnGoes, Turning, Early, Route
  <2>2. /\ turn.pc = "begin" /\ UNCHANGED <<Route, vault, grants, inbox, taken, replies, ran>>
        /\ faults' \in 0 .. MaxFaults /\ (faults' = 0 => faults = 0)
        /\ current' \in {turn.post, current}
    BY <1>1, <1>5 DEF BeginTurn, In
  <2>3. /\ PostsOK' /\ SessionOK' /\ turn.post \in Posts
        /\ \A q : (PushedOut(q)' <=> PushedOut(q)) /\ (Taken(q)' <=> Taken(q))
        /\ \A q : Past(q, Early) => Past(q, Early)'
        /\ \A q : Past(q, Early \cup {"complete"}) => Past(q, Early \cup {"complete"})'
    BY <2>1, <2>2, TurnFrame DEF Early, Turning
  <2>4. SessionTypes'
    BY <1>2, <2>1, <2>2, <2>3 DEF SessionTypes, TurnGoes, Turning
  <2>5. VaultOK'
    BY <2>2, <2>3 DEF SessionInv, VaultOK, Route, Early
  <2>6. GrantsOK'
    BY <2>2, <2>3 DEF SessionInv, GrantsOK, Route, Once, InOrder, Early
  <2>7. SpentOK'
    BY <2>1, <2>2, <2>3 DEF SessionInv, SpentOK, TurnGoes
  <2> QED BY <2>3, <2>4, <2>5, <2>6, <2>7 DEF SessionInv
<1>6. CASE RunModel
  <2>1. TurnGoes("complete")
    BY <1>3, <1>6 DEF RunModel, In, TurnGoes, Turning, Early, Route
  <2>2. /\ turn.pc = "prepare" /\ UNCHANGED <<Route, thread, inbox, taken, replies>>
        /\ faults' \in 0 .. MaxFaults /\ (faults' = 0 => faults = 0)
        /\ \/ /\ turn.post \in vault /\ vault' = vault \ {turn.post}
              /\ ran' = [ran EXCEPT ![turn.post] = @ + 1]
           \/ UNCHANGED <<vault, ran>>
    BY <1>1, <1>6 DEF RunModel, In
  <2>3. /\ PostsOK' /\ SessionOK' /\ turn.post \in Posts /\ Taken(turn.post)
        /\ \A q : (PushedOut(q)' <=> PushedOut(q)) /\ (Taken(q)' <=> Taken(q))
        /\ \A q : Past(q, Early) \/ q = turn.post => Past(q, Early)'
        /\ \A q : Past(q, Early \cup {"complete"}) => Past(q, Early \cup {"complete"})'
    BY <2>1, <2>2, TurnFrame DEF Early, Turning
  <2>4. /\ vault' \subseteq vault /\ \A q \in vault : q # turn.post => q \in vault'
        /\ ran' \in [Posts -> Nat] /\ \A q \in Posts : q # turn.post => ran'[q] = ran[q]
        /\ \/ ran'[turn.post] = ran[turn.post] + 1 /\ turn.post \in vault \ vault'
           \/ ran'[turn.post] = ran[turn.post] /\ vault' = vault
    <3>1. ran \in [Posts -> Nat] /\ ran[turn.post] \in Nat
      BY <1>2, <2>3 DEF SessionTypes
    <3>2. CASE /\ turn.post \in vault /\ vault' = vault \ {turn.post}
               /\ ran' = [ran EXCEPT ![turn.post] = @ + 1]
      BY <2>3, <3>1, <3>2
    <3>3. CASE UNCHANGED <<vault, ran>>
      BY <3>1, <3>3
    <3> QED BY <2>2, <3>2, <3>3
  <2>5. SessionTypes'
    BY <1>2, <2>1, <2>2, <2>4 DEF SessionTypes, TurnGoes, Turning, Route, thread
  <2>6. VaultOK'
    <3> SUFFICES ASSUME NEW q \in Posts
                 PROVE  /\ (posts[q].pc \in Route1 \cup {"grant"} \/ posts[q].answer = "ok") =>
                             q \in vault' \/ Past(q, Early)'
                        /\ ran'[q] <= 1 /\ (ran'[q] = 1 => q \notin vault' /\ q \in Range(inbox))
      BY <2>2 DEF VaultOK, Route, Early
    <3>1. ran[q] \in Nat /\ ran[q] <= 1 /\ (ran[q] = 1 => q \notin vault /\ q \in Range(inbox))
      BY <1>2 DEF SessionInv, VaultOK, SessionTypes
    <3>2. turn.post \in Range(inbox)
      BY <1>2, <2>3, RangeOf DEF Taken, SessionTypes
    <3>3. ran'[q] <= 1 /\ (ran'[q] = 1 => q \notin vault' /\ q \in Range(inbox))
      BY <2>3, <2>4, <3>1, <3>2
    <3> QED BY <2>3, <2>4, <3>3 DEF SessionInv, VaultOK
  <2>7. GrantsOK'
    BY <2>2, <2>3 DEF SessionInv, GrantsOK, Route, thread, Once, InOrder, Early
  <2>8. SpentOK'
    BY <2>1, <2>2, <2>3, <2>4 DEF SessionInv, SpentOK, TurnGoes, thread
  <2> QED BY <2>3, <2>5, <2>6, <2>7, <2>8 DEF SessionInv
<1>7. CASE CompleteTurn
  <2>1. TurnGoes("revoke")
    BY <1>3, <1>7 DEF CompleteTurn, In, TurnGoes, Turning, Early, Route
  <2>2. turn.pc = "complete" /\ UNCHANGED <<Route, vault, inbox, taken, ran>>
    BY <1>7 DEF CompleteTurn, In
  <2>3. /\ PostsOK' /\ SessionOK' /\ turn.post \in Posts /\ Taken(turn.post)
        /\ \A q : (PushedOut(q)' <=> PushedOut(q)) /\ (Taken(q)' <=> Taken(q))
        /\ \A q : Past(q, Early) => Past(q, Early)'
        /\ \A q : Past(q, Early \cup {"complete"}) \/ q = turn.post =>
                    Past(q, Early \cup {"complete"})'
    BY <2>1, <2>2, TurnFrame DEF Early, Turning
  <2>4. turn'.post = turn.post /\ turn'.pc = "revoke"
    BY <2>1 DEF TurnGoes
  <2>5. VaultOK'
    BY <2>2, <2>3 DEF SessionInv, VaultOK, Route, Early
  <2>6. CASE /\ Granted /\ current' = None /\ grants' = RemoveFirst(grants, turn.post)
             /\ replies' = replies \cup {turn.post} /\ UNCHANGED faults
    <3>1. /\ grants' \in Seq(Posts) /\ Once(grants') /\ Len(grants') <= Len(grants)
          /\ InOrder(grants', grants)
          /\ \A x : x \in Range(grants') <=> x \in Range(grants) /\ x # turn.post
      <4>1. grants \in Seq(Posts) /\ Once(grants)
        BY <1>2 DEF SessionInv, GrantsOK, SessionTypes
      <4> QED BY <2>6, <4>1, RemovedOnce
    <3>2. InOrder(grants', issued)
      <4>1. InOrder(grants, issued)
        BY DEF SessionInv, GrantsOK
      <4> SUFFICES ASSUME NEW i \in 1 .. Len(grants'), NEW j \in 1 .. Len(grants'), i < j
                   PROVE  \E k, l \in 1 .. Len(issued) :
                            k < l /\ issued[k] = grants'[i] /\ issued[l] = grants'[j]
        BY DEF InOrder
      <4>2. PICK m \in 1 .. Len(grants), n \in 1 .. Len(grants) :
              m < n /\ grants[m] = grants'[i] /\ grants[n] = grants'[j]
        BY <3>1 DEF InOrder
      <4>3. PICK k \in 1 .. Len(issued), l \in 1 .. Len(issued) :
              k < l /\ issued[k] = grants[m] /\ issued[l] = grants[n]
        BY <4>1, <4>2 DEF InOrder
      <4> QED BY <4>2, <4>3
    <3>3. Len(grants') <= MaxGrants
      BY <1>2, <3>1 DEF SessionInv, GrantsOK, SessionTypes, SessionBounds
    <3>4. SessionTypes'
      BY <1>1, <1>2, <2>1, <2>2, <2>3, <2>6, <3>1 DEF SessionTypes, TurnGoes, Turning, Route
    <3>5. GrantsOK'
      BY <2>2, <2>3, <3>1, <3>2, <3>3 DEF SessionInv, GrantsOK, Route, Early
    <3>6. SpentOK'
      BY <2>2, <2>3, <2>4, <2>6, <3>1 DEF SessionInv, SpentOK
    <3> QED BY <2>3, <2>5, <3>4, <3>5, <3>6 DEF SessionInv
  <2>7. CASE ~Granted /\ UNCHANGED <<thread, replies, faults>>
    <3>1. SessionTypes'
      BY <1>1, <1>2, <2>1, <2>2, <2>7 DEF SessionTypes, TurnGoes, Turning, Route, thread
    <3>2. GrantsOK'
      BY <2>2, <2>3, <2>7 DEF SessionInv, GrantsOK, Route, thread, Once, InOrder, Early
    <3>3. turn.post \notin Range(grants) /\ PushedOut(turn.post)
      <4>1. turn.post \in Range(issued)
        <5>1. turn.post \in Range(inbox)
          BY <1>2, <2>3, RangeOf DEF Taken, SessionTypes
        <5> QED BY <2>3, <5>1 DEF SessionInv, PostsOK
      <4>2. ~Past(turn.post, Early \cup {"complete"})
        BY <2>2 DEF Past
      <4> QED BY <2>7, <4>1, <4>2 DEF SessionInv, GrantsOK, Granted
    <3>4. SpentOK'
      BY <2>2, <2>3, <2>4, <2>7, <3>3 DEF SessionInv, SpentOK, thread
    <3> QED BY <2>3, <2>5, <3>1, <3>2, <3>4 DEF SessionInv
  <2>8. CASE Fault /\ UNCHANGED <<thread, replies>>
    <3>1. SessionTypes'
      BY <1>1, <1>2, <2>1, <2>2, <2>8 DEF SessionTypes, TurnGoes, Turning, Route, thread
    <3>2. GrantsOK'
      BY <2>2, <2>3, <2>8 DEF SessionInv, GrantsOK, Route, thread, Once, InOrder, Early
    <3>3. SpentOK'
      BY <1>1, <2>8 DEF SpentOK
    <3> QED BY <2>3, <2>5, <3>1, <3>2, <3>3 DEF SessionInv
  <2> QED BY <1>7, <2>6, <2>7, <2>8 DEF CompleteTurn
<1>8. CASE EndTurn
  <2>1. TurnGoes("idle") /\ turn.pc = "revoke"
    BY <1>2, <1>8 DEF EndTurn, In, TurnGoes, Turning, Free, Route
  <2>2. /\ UNCHANGED <<Route, thread, inbox, taken, replies, ran>>
        /\ vault' \in {vault, vault \ {turn.post}}
        /\ (vault' = vault \ {turn.post} /\ faults' = faults) \/ Fault
    BY <1>8 DEF EndTurn, Fault
  <2>3. /\ PostsOK' /\ SessionOK' /\ turn.post \in Posts /\ Taken(turn.post)
        /\ \A q : (PushedOut(q)' <=> PushedOut(q)) /\ (Taken(q)' <=> Taken(q))
        /\ \A q : Past(q, Early) \/ q = turn.post => Past(q, Early)'
        /\ \A q : Past(q, Early \cup {"complete"}) => Past(q, Early \cup {"complete"})'
    BY <2>1, <2>2, TurnFrame DEF Early, Turning
  <2>4. SessionTypes'
    BY <1>1, <1>2, <2>1, <2>2 DEF SessionTypes, TurnGoes, Turning, Route, thread
  <2>5. VaultOK'
    BY <2>2, <2>3 DEF SessionInv, VaultOK, Route, Early
  <2>6. GrantsOK'
    BY <2>2, <2>3 DEF SessionInv, GrantsOK, Route, thread, Once, InOrder, Early
  <2>7. SpentOK'
    BY <1>1, <2>1, <2>2, <2>3 DEF SessionInv, SpentOK, TurnGoes, thread
  <2> QED BY <2>3, <2>4, <2>5, <2>6, <2>7 DEF SessionInv
<1>9. CASE RunDies
  <2>1. TurnGoes("idle") /\ turn.pc \in Turning /\ turn.pc # "idle"
    BY <1>2, <1>9 DEF RunDies, In, TurnGoes, Turning, Free, Route
  <2>2. UNCHANGED <<Route, vault, thread, inbox, taken, replies, ran>> /\ Fault
    BY <1>9 DEF RunDies
  <2>3. /\ PostsOK' /\ SessionOK' /\ turn.post \in Posts
        /\ \A q : (PushedOut(q)' <=> PushedOut(q)) /\ (Taken(q)' <=> Taken(q))
        /\ \A q : Past(q, Early) => Past(q, Early)'
        /\ \A q : Past(q, Early \cup {"complete"}) => Past(q, Early \cup {"complete"})'
    BY <2>1, <2>2, TurnFrame DEF Early, Turning
  <2>4. SessionTypes'
    BY <1>1, <1>2, <2>1, <2>2 DEF SessionTypes, TurnGoes, Turning, Route, thread
  <2>5. VaultOK'
    BY <2>2, <2>3 DEF SessionInv, VaultOK, Route, Early
  <2>6. GrantsOK'
    BY <2>2, <2>3 DEF SessionInv, GrantsOK, Route, thread, Once, InOrder, Early
  <2>7. SpentOK'
    BY <1>1, <2>2 DEF SpentOK
  <2> QED BY <2>3, <2>4, <2>5, <2>6, <2>7 DEF SessionInv
<1> QED BY <1>4, <1>5, <1>6, <1>7, <1>8, <1>9

\* AcceptedMessageRuns and TurnSpendsItsGrants: a message the client was told is
\* accepted reaches the model at most once and has what its turn needs, unless its
\* grant was pushed out; and without a fault a turn leaves its reply and no grant.
THEOREM AcceptedMessageRunsHolds ==
  ASSUME SessionBounds, None \notin Posts
  PROVE  Spec => [](AcceptedMessageRuns /\ TurnSpendsItsGrants)
<1>1. Init => SessionInv
  <2> SUFFICES ASSUME Init PROVE SessionInv
    OBVIOUS
  <2>1. /\ grants = <<>> /\ issued = <<>> /\ inbox = <<>> /\ taken = 0 /\ turn = Free
        /\ current = None /\ vault = {} /\ replies = {} /\ faults = 0
        /\ \A p \in Posts : posts[p].pc = "new" /\ posts[p].answer = "none" /\ ran[p] = 0
    BY DEF Init
  <2>2. \A q : q \notin Range(<<>>)
    BY DEF Range
  <2>3. posts \in [Posts -> [pc : {"new", "model", "grant", "answered"} \cup Route1,
                             attempts : Nat, answer : {"none", "ok", "failed"}]]
    BY DEF Init
  <2>4. SessionTypes
    BY <2>1, <2>3 DEF Init, SessionTypes, SessionBounds, Free
  <2>5. Once(<<>>) /\ InOrder(<<>>, <<>>) /\ Len(<<>>) = 0
    BY DEF Once, InOrder
  <2>6. PostsOK /\ SessionOK /\ VaultOK /\ GrantsOK /\ SpentOK
    BY <2>1, <2>2, <2>5
       DEF PostsOK, SessionOK, VaultOK, GrantsOK, SpentOK, Route1, Taken, Free, SessionBounds
  <2> QED BY <2>4, <2>6 DEF SessionInv
<1>2. SessionInv /\ [Next]_vars => SessionInv'
  <2> SUFFICES ASSUME SessionInv, [Next]_vars PROVE SessionInv'
    OBVIOUS
  <2>1. CASE \E p \in Posts :
               \/ IssueModel(p) \/ AddGrant(p) \/ Attempt(p)
               \/ StartSession(p) \/ MarkCreated(p) \/ RevokeModel(p)
    BY <2>1, RouteSteps, AddGrantStep, AttemptStep
  <2>2. CASE Take
    BY <2>2, TakeStep
  <2>3. CASE Hydrate \/ BeginTurn \/ RunModel \/ CompleteTurn \/ EndTurn \/ RunDies
    BY <2>3, TurnSteps
  <2>4. CASE UNCHANGED vars
    <3>1. \A q : PushedOut(q)' <=> PushedOut(q)
      BY <2>4, PushedOutKept DEF vars
    <3>2. /\ \A q, pcs : Past(q, pcs)' <=> Past(q, pcs)
          /\ \A q : Taken(q)' <=> Taken(q)
      BY <2>4 DEF Past, Taken, vars
    <3>3. SessionTypes' /\ PostsOK' /\ SessionOK' /\ VaultOK'
      BY <2>4, <3>2
         DEF SessionInv, SessionTypes, PostsOK, SessionOK, VaultOK, Once, Early, vars
    <3>4. GrantsOK' /\ SpentOK'
      BY <2>4, <3>1, <3>2 DEF SessionInv, GrantsOK, SpentOK, Once, InOrder, Early, vars
    <3> QED BY <3>3, <3>4 DEF SessionInv
  <2> QED BY <2>1, <2>2, <2>3, <2>4 DEF Next
<1>3. SessionInv => AcceptedMessageRuns /\ TurnSpendsItsGrants
  <2> SUFFICES ASSUME SessionInv PROVE AcceptedMessageRuns /\ TurnSpendsItsGrants
    OBVIOUS
  <2>1. /\ inbox \in Seq(Posts) /\ Once(inbox) /\ taken \in 0 .. Len(inbox) /\ SessionTypes
        /\ Len(inbox) \in Nat /\ DOMAIN inbox = 1 .. Len(inbox)
    BY DEF SessionInv, SessionOK, SessionTypes
  <2>2. ASSUME NEW p \in Posts PROVE Cardinality({i \in DOMAIN inbox : inbox[i] = p}) <= 1
    <3> DEFINE I == {i \in DOMAIN inbox : inbox[i] = p}
    <3>1. I = {} \/ \E i \in I : I = {i}
      BY <2>1 DEF Once
    <3> HIDE DEF I
    <3>2. ASSUME I = {} PROVE Cardinality(I) <= 1
      <4>1. Cardinality(I) = 0
        BY <3>2, FS_EmptySet, Zenon
      <4>2. 0 <= 1
        OBVIOUS
      <4> QED BY <4>1, <4>2, Zenon
    <3>3. ASSUME \E i \in I : I = {i} PROVE Cardinality(I) <= 1
      <4>1. Cardinality(I) = 1
        BY <3>3, FS_Singleton, Zenon
      <4>2. 1 <= 1
        OBVIOUS
      <4> QED BY <4>1, <4>2, Zenon
    <3>4. Cardinality(I) <= 1
      BY <3>1, <3>2, <3>3
    <3> QED BY <3>4 DEF I
  <2>3. ASSUME NEW p \in Posts, posts[p].answer = "ok", Waits(p)
        PROVE  p \in vault /\ (p \in Range(grants) \/ PushedOut(p))
    <3>1. p \in Range(issued) /\ (p \in vault \/ Past(p, Early))
      BY <2>3 DEF SessionInv, PostsOK, VaultOK
    <3>2. ASSUME NEW pcs, pcs \in {Early, Early \cup {"complete"}} PROVE ~Past(p, pcs)
      <4>1. CASE turn.post = p /\ turn.pc \in Early
        BY <3>2, <4>1 DEF Past
      <4>2. CASE p \in Range(SubSeq(inbox, taken + 1, Len(inbox)))
        <5>1. PICK i \in 1 .. Len(inbox) : i > taken /\ inbox[i] = p
          <6>1. /\ SubSeq(inbox, taken + 1, Len(inbox)) \in Seq(Posts)
                /\ Len(SubSeq(inbox, taken + 1, Len(inbox))) = Len(inbox) - taken
                /\ \A i \in 1 .. Len(inbox) - taken :
                     SubSeq(inbox, taken + 1, Len(inbox))[i] = inbox[taken + i]
            BY <2>1, RestOf
          <6>2. \E i \in 1 .. Len(inbox) - taken : SubSeq(inbox, taken + 1, Len(inbox))[i] = p
            BY <4>2, <6>1, RangeOf, Zenon
          <6>3. PICK i \in 1 .. Len(inbox) - taken : inbox[taken + i] = p
            BY <6>1, <6>2
          <6>4. taken + i \in 1 .. Len(inbox) /\ taken + i > taken
            BY <2>1
          <6> QED BY <6>3, <6>4
        <5>2. \A j \in 1 .. taken : j \in 1 .. Len(inbox) /\ j # i
          BY <2>1, <5>1
        <5> QED BY <2>1, <5>1, <5>2 DEF Past, Once
      <4> QED BY <2>3, <4>1, <4>2 DEF Waits, Early
    <3> QED BY <3>1, <3>2 DEF SessionInv, GrantsOK
  <2>4. AcceptedMessageRuns
    BY <2>2, <2>3 DEF AcceptedMessageRuns, SessionInv, VaultOK
  <2>5. TurnSpendsItsGrants
    <3> SUFFICES ASSUME faults = 0
                 PROVE  /\ \A i \in 1 .. taken :
                             LET p == inbox[i]
                             IN  p # turn.post => /\ p \notin vault /\ p \notin Range(grants)
                                                  /\ p \in replies \/ PushedOut(p)
                        /\ current # None => turn.post = current \/ PushedOut(current)
      BY DEF TurnSpendsItsGrants
    <3>1. \A i \in 1 .. taken : inbox[i] \in Posts /\ Taken(inbox[i])
      BY <2>1 DEF Taken
    <3>2. current # None => current \in Posts
      BY <2>1 DEF SessionTypes
    <3> QED BY <3>1, <3>2 DEF SessionInv, SpentOK
  <2> QED BY <2>4, <2>5
<1> QED BY <1>1, <1>2, <1>3, PTL DEF Spec

-----------------------------------------------------------------------------
(* The parts of a reply *)

SaveSteps == {"new", "store", "patch", "drop", "undo", "done", "dead"}
SaveRecord == [pc : SaveSteps, content : Parts!Contents \cup {None}, stored : BOOLEAN,
               previous : Parts!Contents \cup {None}]
PartsTypes ==
  /\ row \in Parts!Contents \cup {None, "removed"}
  /\ seen \in Parts!Contents \cup {None, "removed"} /\ objects \subseteq Long
  /\ save \in [Saves -> SaveRecord] /\ risked \subseteq Parts!Contents
  /\ read \in [Reads -> [pc : {"idle", "query", "fetch", "answer"}, name : Long \cup {None},
                         parts : Long \cup {Unavailable, Failed}]]
  /\ cache \in [Long -> Long \cup {None, Unavailable, Failed}]
  /\ faults \in 0 .. MaxFaults

\* A save of this content is past its patch; two saves have this content.
Over(c) == \E s \in Saves : save[s].content = c /\ save[s].pc \notin {"store", "patch"}
Repeated(c) == \E s \in Saves : save[s].content = c /\ Parts!Repeats(save, s)

SaveOK(s) ==
  /\ save[s].pc = "new" <=> save[s].content = None
  /\ save[s].pc = "store" => save[s].content \in Long
  /\ save[s].pc = "undo" => save[s].stored
  /\ save[s].pc = "drop" /\ save[s].previous \in Parts!Contents => Over(save[s].previous)
SavesOK == \A s \in Saves : SaveOK(s)

\* A content no save of which crosses another: whoever deletes its object has stored it
\* and not put it in the row, or has taken it from the row, and nobody has it then.
Referred(c) == row = c => c \in objects
Stored(c) ==
  \A s \in Saves : save[s].content = c /\ save[s].pc = "patch" /\ row # "removed" => c \in objects
Dropped(c) ==
  \A s \in Saves : save[s].pc = "drop" /\ save[s].previous = c /\ save[s].content # c =>
    /\ row # c
    /\ \A t \in Saves : save[t].content = c => save[t].pc \notin {"store", "patch"}
Undone(c) ==
  \A s \in Saves :
    save[s].content = c /\ save[s].stored /\ save[s].pc \in {"patch", "undo"} => row # c
Apart(c) == \A s \in Saves : save[s].content = c => ~Parts!Crosses(save, s)
Sure(c) == Referred(c) /\ Stored(c) /\ Dropped(c) /\ Undone(c) /\ Apart(c)
SureOK == \A c \in Long \ risked : Sure(c)

RowOK ==
  /\ row \in Parts!Contents => Over(row)
  /\ seen \in Parts!Contents => Over(seen)
  /\ seen # None => row # None

\* A request asks for an object the row had, and finds it missing only when the row
\* has it no more, or a later save has its content again.
Absent(c) == row # c \/ c \in risked \/ Repeated(c)
ReadOK(r) ==
  /\ read[r].pc # "idle" => row # None
  /\ read[r].name \in Long => Over(read[r].name)
  /\ read[r].pc = "fetch" => read[r].parts \in Long /\ read[r].name \in {None, read[r].parts}
  /\ read[r].pc = "query" => read[r].parts = Unavailable
  /\ read[r].pc = "answer" /\ read[r].name # None =>
       \/ read[r].parts \in {read[r].name, Failed}
       \/ read[r].parts = Unavailable /\ Absent(read[r].name)
ReadsOK == \A r \in Reads : ReadOK(r)
CacheOK ==
  \A c \in Long : /\ cache[c] # None => Over(c)
                  /\ \/ cache[c] \in {None, c, Failed}
                     \/ cache[c] = Unavailable /\ Absent(c)

\* Until something fails, an object is in use or will be.
Claims(s, o) ==
  \/ save[s].pc = "drop" /\ save[s].previous = o /\ save[s].content # o
  \/ save[s].pc \in {"patch", "undo"} /\ save[s].stored /\ save[s].content = o
ObjectsOK == faults = 0 => \A o \in objects : o = row \/ \E s \in Saves : Claims(s, o)

PartsInv == PartsTypes /\ SavesOK /\ SureOK /\ RowOK /\ ReadsOK /\ CacheOK /\ ObjectsOK

NamesApart == None \notin Parts!Contents /\ "removed" \notin Parts!Contents /\ None # "removed"

\* One save moves on; what it stored and what it replaced may be new.
Saved(s, p, c, stored, previous) ==
  /\ save'[s].pc = p /\ save'[s].content = c
  /\ save'[s].stored = stored /\ save'[s].previous = previous
  /\ \A t \in Saves : t # s => save'[t] = save[t]
  /\ save' \in [Saves -> SaveRecord]

LEMMA SaveChanges ==
  ASSUME PartsTypes, NEW s \in Saves, NEW p \in SaveSteps
  PROVE  /\ Parts!Goes(s, p) =>
              Saved(s, p, save[s].content, save[s].stored, save[s].previous)
         /\ \A c \in Parts!Contents : save' = [save EXCEPT ![s].pc = p, ![s].content = c] =>
              Saved(s, p, c, save[s].stored, save[s].previous)
         /\ \A b \in BOOLEAN : save' = [save EXCEPT ![s].pc = p, ![s].stored = b] =>
              Saved(s, p, save[s].content, b, save[s].previous)
         /\ \A o \in Parts!Contents \cup {None} :
              save' = [save EXCEPT ![s].pc = p, ![s].previous = o] =>
                Saved(s, p, save[s].content, save[s].stored, o)
<1>1. save \in [Saves -> SaveRecord] /\ save[s] \in SaveRecord
  BY DEF PartsTypes
<1>2. ASSUME NEW new \in SaveRecord, save' = [save EXCEPT ![s] = new]
      PROVE  Saved(s, new.pc, new.content, new.stored, new.previous)
  <2>1. save' \in [Saves -> SaveRecord] /\ save'[s] = new
        /\ \A t \in Saves : t # s => save'[t] = save[t]
    BY <1>1, <1>2
  <2> QED BY <2>1 DEF Saved
<1>3. ASSUME Parts!Goes(s, p)
      PROVE  Saved(s, p, save[s].content, save[s].stored, save[s].previous)
  <2>1. save' = [save EXCEPT ![s] = [save[s] EXCEPT !.pc = p]]
    BY <1>1, <1>3 DEF Parts!Goes
  <2>2. [save[s] EXCEPT !.pc = p] \in SaveRecord
    BY <1>1 DEF SaveRecord
  <2> QED BY <1>1, <1>2, <2>1, <2>2 DEF SaveRecord
<1>4. ASSUME NEW c \in Parts!Contents, save' = [save EXCEPT ![s].pc = p, ![s].content = c]
      PROVE  Saved(s, p, c, save[s].stored, save[s].previous)
  <2> DEFINE new == [save[s] EXCEPT !.pc = p, !.content = c]
  <2>1. new \in SaveRecord /\ new.pc = p /\ new.content = c
        /\ new.stored = save[s].stored /\ new.previous = save[s].previous
    BY <1>1 DEF SaveRecord
  <2>2. save' = [save EXCEPT ![s] = new]
    BY <1>1, <1>4
  <2> QED BY <1>2, <2>1, <2>2
<1>5. ASSUME NEW b \in BOOLEAN, save' = [save EXCEPT ![s].pc = p, ![s].stored = b]
      PROVE  Saved(s, p, save[s].content, b, save[s].previous)
  <2> DEFINE new == [save[s] EXCEPT !.pc = p, !.stored = b]
  <2>1. new \in SaveRecord /\ new.pc = p /\ new.content = save[s].content
        /\ new.stored = b /\ new.previous = save[s].previous
    BY <1>1 DEF SaveRecord
  <2>2. save' = [save EXCEPT ![s] = new]
    BY <1>1, <1>5
  <2> QED BY <1>2, <2>1, <2>2
<1>6. ASSUME NEW o \in Parts!Contents \cup {None},
             save' = [save EXCEPT ![s].pc = p, ![s].previous = o]
      PROVE  Saved(s, p, save[s].content, save[s].stored, o)
  <2> DEFINE new == [save[s] EXCEPT !.pc = p, !.previous = o]
  <2>1. new \in SaveRecord /\ new.pc = p /\ new.content = save[s].content
        /\ new.stored = save[s].stored /\ new.previous = o
    BY <1>1 DEF SaveRecord
  <2>2. save' = [save EXCEPT ![s] = new]
    BY <1>1, <1>6
  <2> QED BY <1>2, <2>1, <2>2
<1> QED BY <1>3, <1>4, <1>5, <1>6

\* What is over stays over, and what is repeated is.
LEMMA SavesAhead ==
  ASSUME PartsTypes, SavesOK, NamesApart, NEW s \in Saves, NEW p, NEW c, NEW stored,
         NEW previous, Saved(s, p, c, stored, previous),
         save[s].pc \notin {"new", "store", "patch"} => p \notin {"store", "patch"},
         c = save[s].content \/ save[s].pc = "new"
  PROVE  /\ \A d \in Parts!Contents : Over(d) => Over(d)'
         /\ \A d \in Parts!Contents : Repeated(d) => Repeated(d)'
<1>1. \A t \in Saves : save[t].content \in Parts!Contents => save'[t].content = save[t].content
  BY DEF Saved, SavesOK, SaveOK, NamesApart
<1>2. ASSUME NEW d \in Parts!Contents, Over(d) PROVE Over(d)'
  <2>1. PICK t \in Saves : save[t].content = d /\ save[t].pc \notin {"store", "patch"}
    BY <1>2 DEF Over
  <2>2. save[t].pc # "new" /\ save'[t].content = d
    BY <1>1, <2>1 DEF SavesOK, SaveOK, NamesApart
  <2>3. save'[t].pc \notin {"store", "patch"}
    BY <2>1, <2>2 DEF Saved
  <2> QED BY <2>2, <2>3 DEF Over
<1>3. ASSUME NEW d \in Parts!Contents, Repeated(d) PROVE Repeated(d)'
  BY <1>1, <1>3 DEF Repeated, Parts!Repeats
<1> QED BY <1>2, <1>3

\* A save that goes on crosses no more than before.
LEMMA StillApart ==
  ASSUME NEW s \in Saves, NEW p, NEW stored, NEW previous,
         Saved(s, p, save[s].content, stored, previous), Parts!Active(save[s]),
         NEW c, Apart(c)
  PROVE  Apart(c)'
<1>1. \A t \in Saves : /\ save'[t].content = save[t].content
                       /\ Parts!Active(save'[t]) => Parts!Active(save[t])
  BY DEF Saved
<1> QED BY <1>1 DEF Apart, Parts!Crosses, Parts!Repeats

\* Of two saves of such a content, one under way is alone under way.
LEMMA AloneUnderWay ==
  ASSUME NEW c, Apart(c), NEW s \in Saves, NEW t \in Saves, NEW u \in Saves, s # t, u # s,
         save[s].content = c, save[t].content = c,
         Parts!Active(save[s]), Parts!Active(save[u])
  PROVE  FALSE
BY DEF Apart, Parts!Crosses, Parts!Repeats

\* A client has what it had, while what comes back into the row is repeated.
LEMMA ClientKept ==
  ASSUME PartsTypes, NamesApart, ReadsOK, CacheOK, UNCHANGED <<read, cache>>,
         row # None => row' # None, risked \subseteq risked',
         \A d \in Parts!Contents : Over(d) => Over(d)',
         \A d \in Parts!Contents : Repeated(d) => Repeated(d)',
         \A d \in Long : row' = d /\ Over(d) => row = d \/ Repeated(d)'
  PROVE  (ReadsOK /\ CacheOK)'
<1>1. Long \subseteq Parts!Contents /\ None \notin Long
  BY DEF Parts!Contents, NamesApart
<1>2. ASSUME NEW d \in Long, Over(d), Absent(d) PROVE Absent(d)'
  BY <1>1, <1>2 DEF Absent
<1>3. ReadsOK'
  <2> SUFFICES ASSUME NEW r \in Reads PROVE ReadOK(r)'
    BY DEF ReadsOK
  <2>1. PICK n : n = read[r].name /\ n = read'[r].name
    OBVIOUS
  <2>2. n \in Long \cup {None} /\ ReadOK(r)
    BY <2>1 DEF PartsTypes, ReadsOK
  <2>3. n # None => Over(n) /\ Over(n)' /\ (Absent(n) => Absent(n)')
    BY <1>1, <1>2, <2>1, <2>2 DEF ReadOK
  <2>4. read'[r] = read[r] /\ (row # None => row' # None)
    OBVIOUS
  <2> QED BY ONLY <1>1, <2>1, <2>2, <2>3, <2>4 DEF ReadOK
<1>4. CacheOK'
  BY <1>1, <1>2 DEF CacheOK
<1> QED BY <1>3, <1>4

\* What a step leaves of the claims on an object.
LEMMA ClaimsKept ==
  ASSUME ObjectsOK, faults = 0, objects' \subseteq objects, NEW s \in Saves, NEW p, NEW c,
         NEW stored, NEW previous, Saved(s, p, c, stored, previous),
         \A o \in objects' : o = row \/ Claims(s, o) => o = row' \/ Claims(s, o)'
  PROVE  ObjectsOK'
<1> SUFFICES ASSUME NEW o \in objects' PROVE o = row' \/ \E t \in Saves : Claims(t, o)'
  BY DEF ObjectsOK
<1>1. CASE o = row
  BY <1>1
<1>2. ASSUME NEW t \in Saves, Claims(t, o) PROVE o = row' \/ \E u \in Saves : Claims(u, o)'
  <2>1. CASE t = s
    BY <1>2, <2>1
  <2>2. CASE t # s
    BY <1>2, <2>2 DEF Claims, Saved
  <2> QED BY <2>1, <2>2
<1> QED BY <1>1, <1>2 DEF ObjectsOK

LEMMA BeginKeeps ==
  ASSUME MaxFaults \in Nat, NamesApart, PartsInv, NEW s \in Saves, NEW c \in Parts!Contents,
         Parts!Begin(s, c)
  PROVE  PartsInv'
<1> USE DEF PartsInv
<1> DEFINE p == IF c \in Long THEN "store" ELSE "patch"
<1>1. /\ save[s].pc = "new" /\ Saved(s, p, c, save[s].stored, save[s].previous)
      /\ risked' = risked \cup {save'[t].content : t \in {u \in Saves : Parts!Crosses(save', u)}}
      /\ UNCHANGED <<row, objects, seen, read, cache, faults>>
  BY SaveChanges DEF Parts!Begin, Parts!At, Parts!Client, SaveSteps
<1>2. c # None /\ save[s].content = None /\ (c \in Long <=> p = "store") /\ p \in {"store", "patch"}
  BY <1>1 DEF SavesOK, SaveOK, NamesApart
<1> HIDE DEF p
<1>3. /\ \A d \in Parts!Contents : Over(d) => Over(d)'
      /\ \A d \in Parts!Contents : Repeated(d) => Repeated(d)'
  BY <1>1, SavesAhead
<1>4. PartsTypes'
  <2>1. \A u \in Saves : Parts!Crosses(save', u) => save'[u].content \in Parts!Contents
    <3> SUFFICES ASSUME NEW u \in Saves, Parts!Active(save'[u])
                 PROVE  save'[u].content \in Parts!Contents
      BY DEF Parts!Crosses
    <3>1. CASE u = s
      BY <1>1, <3>1 DEF Saved
    <3>2. CASE u # s
      BY <1>1, <3>2 DEF Saved, SavesOK, SaveOK, PartsTypes, SaveRecord, Parts!Active
    <3> QED BY <3>1, <3>2
  <2>2. risked' \subseteq Parts!Contents
    BY <1>1, <2>1 DEF PartsTypes
  <2> QED BY <1>1, <2>2 DEF PartsTypes, Saved
<1>5. SavesOK'
  <2> SUFFICES ASSUME NEW t \in Saves PROVE SaveOK(t)'
    BY DEF SavesOK
  <2>1. CASE t = s
    BY <1>1, <1>2, <2>1 DEF Saved, SaveOK
  <2>2. CASE t # s
    BY <1>1, <1>3, <2>2 DEF Saved, SavesOK, SaveOK
  <2> QED BY <2>1, <2>2
<1>6. SureOK'
  <2> SUFFICES ASSUME NEW d \in Long \ risked' PROVE Sure(d)'
    BY DEF SureOK, Sure, Referred, Stored, Dropped, Undone, Apart
  <2>1. Sure(d)
    BY <1>1 DEF SureOK
  <2>2. \A t \in Saves : t # s => save'[t] = save[t]
    BY <1>1 DEF Saved
  <2>3. Apart(d)'
    BY <1>1 DEF Apart
  <2>4. Referred(d)' /\ Stored(d)' /\ Undone(d)'
    BY <1>1, <1>2, <2>1, <2>2 DEF Sure, Referred, Stored, Undone, Saved
  <2>5. Dropped(d)'
    <3> SUFFICES ASSUME NEW u \in Saves, save'[u].pc = "drop", save'[u].previous = d,
                        save'[u].content # d
                 PROVE  /\ row' # d
                        /\ \A t \in Saves : save'[t].content = d =>
                             save'[t].pc \notin {"store", "patch"}
      BY DEF Dropped
    <3>1. u # s /\ save'[u] = save[u]
      BY <1>1, <1>2, <2>2 DEF Saved
    <3>2. /\ row # d
          /\ \A t \in Saves : save[t].content = d => save[t].pc \notin {"store", "patch"}
      BY <2>1, <3>1 DEF Sure, Dropped
    <3>3. c # d
      <4> SUFFICES ASSUME c = d PROVE FALSE
        OBVIOUS
      <4>1. PICK v \in Saves : save[v].content = d /\ save[v].pc \notin {"store", "patch"}
        BY <3>1 DEF SavesOK, SaveOK, Over, Parts!Contents
      <4>2. v # s /\ save'[v].content = d
        BY <1>2, <2>2, <4>1
      <4>3. Parts!Active(save'[s]) /\ save'[s].content = d /\ Parts!Active(save'[u])
        BY <1>1, <1>2, <3>1 DEF Saved, Parts!Active
      <4>4. Parts!Crosses(save', s)
        BY <3>1, <4>2, <4>3 DEF Parts!Crosses, Parts!Repeats
      <4> QED BY <2>3, <4>3, <4>4 DEF Apart
    <3> QED BY <1>1, <2>2, <3>2, <3>3 DEF Saved
  <2> QED BY <2>3, <2>4, <2>5 DEF Sure
<1>7. RowOK'
  BY <1>1, <1>3 DEF RowOK
<1>8. ReadsOK' /\ CacheOK'
  BY <1>1, <1>3, ClientKept
<1>9. ObjectsOK'
  <2> SUFFICES ASSUME faults = 0 PROVE ObjectsOK'
    BY <1>1 DEF ObjectsOK
  <2>1. \A o : ~Claims(s, o)
    BY <1>1 DEF Claims
  <2> QED BY <1>1, <2>1, ClaimsKept
<1> QED BY <1>4, <1>5, <1>6, <1>7, <1>8, <1>9

\* A save that goes on and leaves the row as it is.
LEMMA QuietSave ==
  ASSUME NamesApart, PartsInv, NEW s \in Saves, NEW p \in SaveSteps, NEW stored,
         Saved(s, p, save[s].content, stored, save[s].previous), Parts!Active(save[s]),
         p \in {"patch", "undo", "done", "dead"},
         p = "patch" => save[s].pc = "store",
         p = "undo" => stored /\ save[s].pc = "patch" /\ stored = save[s].stored,
         UNCHANGED <<row, seen, read, cache>>, risked \subseteq risked',
         faults' \in 0 .. MaxFaults, objects' \subseteq Long, risked' \subseteq Parts!Contents
  PROVE  /\ PartsTypes' /\ SavesOK' /\ RowOK' /\ ReadsOK' /\ CacheOK'
         /\ \A d : Apart(d) => Apart(d)'
         /\ \A d \in Parts!Contents : Over(d) => Over(d)'
<1> USE DEF PartsInv
<1>1. /\ \A d \in Parts!Contents : Over(d) => Over(d)'
      /\ \A d \in Parts!Contents : Repeated(d) => Repeated(d)'
  BY SavesAhead DEF Parts!Active
<1>2. PartsTypes'
  BY DEF PartsTypes, Saved
<1>3. SavesOK'
  <2> SUFFICES ASSUME NEW t \in Saves PROVE SaveOK(t)'
    BY DEF SavesOK
  <2>1. CASE t = s
    BY <2>1 DEF Saved, SavesOK, SaveOK, Parts!Active
  <2>2. CASE t # s
    BY <1>1, <2>2 DEF Saved, SavesOK, SaveOK
  <2> QED BY <2>1, <2>2
<1>4. RowOK'
  BY <1>1 DEF RowOK
<1>5. ReadsOK' /\ CacheOK'
  BY <1>1, ClientKept
<1> QED BY <1>1, <1>2, <1>3, <1>4, <1>5, StillApart

LEMMA StoreKeeps ==
  ASSUME MaxFaults \in Nat, NamesApart, PartsInv, NEW s \in Saves, Parts!Store(s)
  PROVE  PartsInv'
<1> USE DEF PartsInv
<1> DEFINE own == save[s].content
<1>1. /\ save[s].pc = "store" /\ own \in Long /\ UNCHANGED <<row, seen, read, cache, risked>>
      /\ Parts!Active(save[s])
  BY DEF Parts!Store, Parts!At, Parts!Client, SavesOK, SaveOK, Parts!Active
<1>2. CASE /\ objects' = objects \cup {own} /\ UNCHANGED faults
           /\ save' = [save EXCEPT ![s].pc = "patch", ![s].stored = own \notin objects]
  <2>1. Saved(s, "patch", own, own \notin objects, save[s].previous)
    BY <1>2, SaveChanges DEF SaveSteps
  <2>2. /\ PartsTypes' /\ SavesOK' /\ RowOK' /\ ReadsOK' /\ CacheOK'
        /\ \A d : Apart(d) => Apart(d)'
    BY <1>1, <1>2, <2>1, QuietSave DEF PartsTypes, SaveSteps
  <2>3. SureOK'
    <3> SUFFICES ASSUME NEW d \in Long \ risked PROVE Sure(d)'
      BY <1>1 DEF SureOK
    <3>1. Sure(d)
      BY DEF SureOK
    <3>2. Referred(d)' /\ Stored(d)' /\ Apart(d)'
      BY <1>1, <1>2, <2>1, <2>2, <3>1 DEF Sure, Referred, Stored, Saved
    <3>3. Dropped(d)'
      BY <1>1, <2>1, <3>1 DEF Sure, Dropped, Saved
    <3>4. Undone(d)'
      BY <1>1, <2>1, <3>1 DEF Sure, Undone, Referred, Saved
    <3> QED BY <3>2, <3>3, <3>4 DEF Sure
  <2>4. ObjectsOK'
    <3> SUFFICES ASSUME faults = 0, NEW o \in objects', o # row
                 PROVE  \E t \in Saves : Claims(t, o)'
      BY <1>1, <1>2 DEF ObjectsOK
    <3>1. CASE o \in objects
      <4>1. PICK t \in Saves : Claims(t, o)
        BY <3>1 DEF ObjectsOK
      <4>2. t # s
        BY <1>1, <4>1 DEF Claims
      <4> QED BY <2>1, <4>1, <4>2 DEF Claims, Saved
    <3>2. CASE o \notin objects
      BY <1>2, <2>1, <3>2 DEF Claims, Saved
    <3> QED BY <3>1, <3>2
  <2> QED BY <2>2, <2>3, <2>4
<1>3. CASE /\ Parts!Fault /\ Parts!Goes(s, "done") /\ objects' \in {objects, objects \cup {own}}
  <2>1. Saved(s, "done", own, save[s].stored, save[s].previous)
    BY <1>3, SaveChanges DEF SaveSteps
  <2>2. faults' \in 0 .. MaxFaults /\ faults' # 0
    BY <1>3 DEF Parts!Fault, PartsTypes
  <2>3. /\ PartsTypes' /\ SavesOK' /\ RowOK' /\ ReadsOK' /\ CacheOK'
        /\ \A d : Apart(d) => Apart(d)'
    BY <1>1, <1>3, <2>1, <2>2, QuietSave DEF PartsTypes, SaveSteps
  <2>4. SureOK'
    <3> SUFFICES ASSUME NEW d \in Long \ risked PROVE Sure(d)'
      BY <1>1 DEF SureOK
    <3>1. Sure(d)
      BY DEF SureOK
    <3>2. Referred(d)' /\ Stored(d)' /\ Apart(d)'
      BY <1>1, <1>3, <2>1, <2>3, <3>1 DEF Sure, Referred, Stored, Saved
    <3>3. Dropped(d)' /\ Undone(d)'
      BY <1>1, <2>1, <3>1 DEF Sure, Dropped, Undone, Saved
    <3> QED BY <3>2, <3>3 DEF Sure
  <2> QED BY <2>2, <2>3, <2>4 DEF ObjectsOK
<1> QED BY <1>2, <1>3 DEF Parts!Store

\* The row has what a save has stored, and the save is to delete what the row had.
LEMMA PatchedKeeps ==
  ASSUME MaxFaults \in Nat, NamesApart, PartsInv, NEW s \in Saves, save[s].pc = "patch",
         row # "removed", row' = save[s].content, UNCHANGED <<objects, seen, read, cache>>,
         \/ /\ Saved(s, "drop", save[s].content, save[s].stored, row)
            /\ UNCHANGED <<risked, faults>>
         \/ /\ Saved(s, Parts!Undoes(s), save[s].content, save[s].stored, save[s].previous)
            /\ faults' \in 0 .. MaxFaults /\ faults' # 0
            /\ risked' = IF save[s].stored THEN risked \cup {save[s].content} ELSE risked
  PROVE  PartsInv'
<1> USE DEF PartsInv
<1> DEFINE own == save[s].content
<1>1. own \in Parts!Contents /\ Parts!Active(save[s])
  BY DEF SavesOK, SaveOK, PartsTypes, SaveRecord, Parts!Active, NamesApart
<1>2. PICK p, previous :
        /\ Saved(s, p, own, save[s].stored, previous)
        /\ \/ p = "drop" /\ previous = row
           \/ p = "undo" /\ save[s].stored /\ own \in risked'
           \/ p = "done" /\ ~save[s].stored
        /\ p \in SaveSteps
  BY <1>1 DEF Parts!Undoes, SaveSteps
<1>3. /\ \A d \in Parts!Contents : Over(d) => Over(d)'
      /\ \A d \in Parts!Contents : Repeated(d) => Repeated(d)'
  BY <1>2, SavesAhead
<1>4. Over(own)' /\ risked \subseteq risked' /\ risked' \subseteq risked \cup {own}
  <2>1. Over(own)'
    BY <1>2 DEF Over, Saved
  <2> QED BY <2>1
<1>5. PartsTypes'
  BY <1>1, <1>2, <1>4 DEF PartsTypes, Saved
<1>6. SavesOK'
  <2> SUFFICES ASSUME NEW t \in Saves PROVE SaveOK(t)'
    BY DEF SavesOK
  <2>1. CASE t = s
    <3>1. \A o \in Parts!Contents : o = row => Over(o)'
      BY <1>3 DEF RowOK
    <3> QED BY <1>1, <1>2, <2>1, <3>1 DEF SaveOK, Saved, NamesApart
  <2>2. CASE t # s
    BY <1>2, <1>3, <2>2 DEF Saved, SavesOK, SaveOK
  <2> QED BY <2>1, <2>2
<1>7. SureOK'
  <2> SUFFICES ASSUME NEW d \in Long \ risked' PROVE Sure(d)'
    BY DEF SureOK
  <2>1. Sure(d) /\ d \in Parts!Contents
    BY <1>4 DEF SureOK, Parts!Contents
  <2>2. \A t \in Saves : t # s => save'[t] = save[t]
    BY <1>2 DEF Saved
  <2>3. Apart(d)'
    BY <1>1, <1>2, <2>1, StillApart DEF Sure
  <2>4. Referred(d)' /\ Stored(d)'
    BY <1>2, <2>1, <2>2 DEF Sure, Referred, Stored, Saved
  <2>5. Undone(d)'
    <3> SUFFICES ASSUME NEW t \in Saves, save'[t].content = d, save'[t].stored,
                        save'[t].pc \in {"patch", "undo"}, own = d
                 PROVE  FALSE
      BY DEF Undone
    <3>1. CASE t = s
      BY <1>2, <3>1 DEF Saved
    <3>2. CASE t # s
      <4>1. save[t].content = d /\ Parts!Active(save[t])
        BY <2>2, <3>2 DEF Parts!Active
      <4> QED BY <1>1, <2>1, <3>2, <4>1, AloneUnderWay DEF Sure
    <3> QED BY <3>1, <3>2
  <2>6. Dropped(d)'
    <3> SUFFICES ASSUME NEW u \in Saves, save'[u].pc = "drop", save'[u].previous = d,
                        save'[u].content # d
                 PROVE  /\ own # d
                        /\ \A t \in Saves : save'[t].content = d =>
                             save'[t].pc \notin {"store", "patch"}
      BY DEF Dropped
    <3>1. CASE u # s
      <4>1. save'[u] = save[u]
        BY <2>2, <3>1
      <4>2. \A t \in Saves : save[t].content = d => save[t].pc \notin {"store", "patch"}
        BY <2>1, <4>1 DEF Sure, Dropped
      <4>3. own # d
        BY <4>2
      <4> QED BY <1>2, <2>2, <4>2, <4>3 DEF Saved
    <3>2. CASE u = s
      <4>1. row = d /\ own # d
        BY <1>2, <3>2 DEF Saved
      <4>2. PICK v \in Saves : save[v].content = d /\ save[v].pc \notin {"store", "patch"}
        BY <2>1, <4>1 DEF RowOK, Over
      <4>3. ASSUME NEW t \in Saves, save'[t].content = d, save'[t].pc \in {"store", "patch"}
            PROVE  FALSE
        <5>1. t # s
          BY <1>2, <4>1, <4>3 DEF Saved
        <5>2. save[t].content = d /\ save[t].pc \in {"store", "patch"}
          BY <2>2, <4>3, <5>1
        <5>3. t # v /\ Parts!Active(save[t])
          BY <4>2, <5>2 DEF Parts!Active
        <5> QED BY <1>1, <2>1, <4>2, <5>1, <5>2, <5>3, AloneUnderWay DEF Sure
      <4> QED BY <4>1, <4>3
    <3> QED BY <3>1, <3>2
  <2> QED BY <2>3, <2>4, <2>5, <2>6 DEF Sure
<1>8. RowOK'
  <2>1. PICK o : o = own /\ o = row' /\ Over(o)'
    BY <1>2 DEF Over, Saved
  <2> QED BY <1>1, <1>3, <2>1 DEF RowOK, NamesApart
<1>9. ReadsOK' /\ CacheOK'
  <2>1. own # None
    BY <1>1 DEF NamesApart
  <2>2. ASSUME NEW d \in Long, own = d, Over(d) PROVE Repeated(d)'
    <3>1. PICK v \in Saves : save[v].content = d /\ save[v].pc \notin {"store", "patch"}
      BY <2>2 DEF Over
    <3>2. v # s /\ save'[v].content = d /\ save'[s].content = d
      BY <1>2, <2>2, <3>1 DEF Saved
    <3> QED BY <3>2 DEF Repeated, Parts!Repeats
  <2> QED BY <1>3, <1>4, <2>1, <2>2, ClientKept
<1>10. ObjectsOK'
  <2>1. CASE faults' # 0
    BY <2>1 DEF ObjectsOK
  <2>2. CASE faults' = 0
    <3>1. Saved(s, "drop", own, save[s].stored, row) /\ faults = 0
      BY <2>2
    <3>2. \A o : Claims(s, o) => o = row'
      BY DEF Claims
    <3>3. \A o : o = row => o = row' \/ Claims(s, o)'
      BY <3>1 DEF Claims, Saved
    <3> QED BY <3>1, <3>2, <3>3, ClaimsKept
  <2> QED BY <2>1, <2>2
<1> QED BY <1>5, <1>6, <1>7, <1>8, <1>9, <1>10

LEMMA PatchKeeps ==
  ASSUME MaxFaults \in Nat, NamesApart, PartsInv, NEW s \in Saves, Parts!Patch(s)
  PROVE  PartsInv'
<1> USE DEF PartsInv
<1> DEFINE p == Parts!Undoes(s)
<1>1. /\ save[s].pc = "patch" /\ UNCHANGED <<objects, seen, read, cache>>
      /\ Parts!Active(save[s])
  BY DEF Parts!Patch, Parts!At, Parts!Client, Parts!Active
<1>2. p \in {"undo", "done"} /\ (p = "undo" <=> save[s].stored) /\ p \in SaveSteps
  BY DEF Parts!Undoes, SaveSteps
<1>3. Parts!Fault => faults' \in 0 .. MaxFaults /\ faults' # 0
  BY DEF Parts!Fault, PartsTypes
<1>4. Parts!Goes(s, p) => Saved(s, p, save[s].content, save[s].stored, save[s].previous)
  BY <1>2, SaveChanges
<1>5. CASE /\ row # "removed" /\ row' = save[s].content /\ UNCHANGED <<risked, faults>>
           /\ save' = [save EXCEPT ![s].pc = "drop", ![s].previous = row]
  <2>1. row \in Parts!Contents \cup {None}
    BY <1>5 DEF PartsTypes
  <2>2. Saved(s, "drop", save[s].content, save[s].stored, row)
    BY <1>5, <2>1, SaveChanges DEF SaveSteps
  <2> QED BY <1>1, <1>5, <2>2, PatchedKeeps
<1>6. CASE /\ row # "removed" /\ row' = save[s].content /\ Parts!Fault /\ Parts!Goes(s, p)
           /\ risked' = IF save[s].stored THEN risked \cup {save[s].content} ELSE risked
  BY <1>1, <1>3, <1>4, <1>6, PatchedKeeps
<1>7. ASSUME Parts!Goes(s, p), UNCHANGED <<row, risked>>,
             (row = "removed" /\ UNCHANGED faults) \/ Parts!Fault
      PROVE  PartsInv'
  <2>1. Saved(s, p, save[s].content, save[s].stored, save[s].previous)
    BY <1>4, <1>7
  <2>2. faults' \in 0 .. MaxFaults
    BY <1>3, <1>7 DEF PartsTypes
  <2>3. /\ PartsTypes' /\ SavesOK' /\ RowOK' /\ ReadsOK' /\ CacheOK'
        /\ \A d : Apart(d) => Apart(d)'
    BY <1>1, <1>2, <1>7, <2>1, <2>2, QuietSave DEF PartsTypes
  <2>4. SureOK'
    <3> SUFFICES ASSUME NEW d \in Long \ risked PROVE Sure(d)'
      BY <1>7 DEF SureOK
    <3>1. Sure(d)
      BY DEF SureOK
    <3>2. Referred(d)' /\ Stored(d)' /\ Apart(d)'
      BY <1>1, <1>2, <1>7, <2>1, <2>3, <3>1 DEF Sure, Referred, Stored, Saved
    <3>3. Dropped(d)' /\ Undone(d)'
      BY <1>1, <1>2, <1>7, <2>1, <3>1 DEF Sure, Dropped, Undone, Saved
    <3> QED BY <3>2, <3>3 DEF Sure
  <2>5. ObjectsOK'
    <3>1. CASE faults' # 0
      BY <3>1 DEF ObjectsOK
    <3>2. CASE faults' = 0
      <4>1. faults = 0
        BY <1>3, <1>7, <3>2
      <4>2. \A o : Claims(s, o) => Claims(s, o)'
        BY <1>1, <1>2, <2>1 DEF Claims, Saved
      <4> QED BY <1>1, <1>7, <2>1, <4>1, <4>2, ClaimsKept
    <3> QED BY <3>1, <3>2
  <2> QED BY <2>3, <2>4, <2>5
<1> QED BY <1>5, <1>6, <1>7 DEF Parts!Patch

\* A save deletes what it took from the row, or what it stored in vain.
LEMMA DeleteKeeps ==
  ASSUME MaxFaults \in Nat, NamesApart, PartsInv, NEW s \in Saves,
         Parts!Drop(s) \/ Parts!Undo(s)
  PROVE  PartsInv'
<1> USE DEF PartsInv
<1>1. /\ save[s].pc \in {"drop", "undo"} /\ UNCHANGED <<row, seen, read, cache, risked>>
      /\ Parts!Active(save[s])
      /\ Saved(s, "done", save[s].content, save[s].stored, save[s].previous)
  BY SaveChanges DEF Parts!Drop, Parts!Undo, Parts!At, Parts!Client, Parts!Active, SaveSteps
<1>2. \/ /\ save[s].pc = "drop" /\ UNCHANGED faults
         /\ objects' = objects \ ({save[s].previous} \ {save[s].content})
      \/ save[s].pc = "undo" /\ UNCHANGED faults /\ objects' = objects \ {save[s].content}
      \/ faults' \in 0 .. MaxFaults /\ faults' # 0 /\ UNCHANGED objects
  BY DEF Parts!Drop, Parts!Undo, Parts!At, Parts!Fault, PartsTypes
<1>3. /\ objects' \subseteq objects
      /\ \A o \in objects \ objects' :
           \/ save[s].pc = "drop" /\ o = save[s].previous /\ o # save[s].content
           \/ save[s].pc = "undo" /\ o = save[s].content
  BY <1>2
<1>4. faults' \in 0 .. MaxFaults
  BY <1>2 DEF PartsTypes
<1>5. /\ PartsTypes' /\ SavesOK' /\ RowOK' /\ ReadsOK' /\ CacheOK'
      /\ \A d : Apart(d) => Apart(d)'
  BY <1>1, <1>3, <1>4, QuietSave DEF PartsTypes, SaveSteps
<1>6. SureOK'
  <2> SUFFICES ASSUME NEW d \in Long \ risked PROVE Sure(d)'
    BY <1>1 DEF SureOK
  <2>1. Sure(d)
    BY DEF SureOK
  <2>2. Dropped(d)' /\ Undone(d)' /\ Apart(d)'
    BY <1>1, <1>5, <2>1 DEF Sure, Dropped, Undone, Saved
  <2>3. ASSUME row = d, d \in objects PROVE d \in objects'
    BY <1>3, <2>1, <2>3 DEF Sure, Dropped, Undone, SavesOK, SaveOK
  <2>4. Referred(d)'
    BY <1>1, <2>1, <2>3 DEF Sure, Referred
  <2>5. ASSUME NEW t \in Saves, save'[t].content = d, save'[t].pc = "patch", row # "removed"
        PROVE  d \in objects'
    <3>1. t # s /\ save[t].content = d /\ save[t].pc = "patch"
      BY <1>1, <2>5 DEF Saved
    <3>2. d \in objects
      BY <2>1, <2>5, <3>1 DEF Sure, Stored
    <3>3. ~(save[s].pc = "drop" /\ d = save[s].previous /\ d # save[s].content)
      BY <2>1, <3>1 DEF Sure, Dropped
    <3>4. ~(save[s].pc = "undo" /\ d = save[s].content)
      BY <1>1, <2>1, <3>1, AloneUnderWay DEF Sure, Parts!Active
    <3> QED BY <1>3, <3>2, <3>3, <3>4
  <2>6. Stored(d)'
    BY <1>1, <2>5 DEF Stored
  <2> QED BY <2>2, <2>4, <2>6 DEF Sure
<1>7. ObjectsOK'
  <2>1. CASE faults' # 0
    BY <2>1 DEF ObjectsOK
  <2>2. CASE faults' = 0
    <3>1. faults = 0 /\ \A o \in objects' : ~Claims(s, o)
      BY <1>2, <2>2 DEF Claims
    <3> QED BY <1>1, <1>3, <3>1, ClaimsKept
  <2> QED BY <2>1, <2>2
<1> QED BY <1>5, <1>6, <1>7

LEMMA SaveDies ==
  ASSUME MaxFaults \in Nat, NamesApart, PartsInv, NEW s \in Saves, Parts!Dies(s)
  PROVE  PartsInv'
<1> USE DEF PartsInv
<1>1. /\ UNCHANGED <<row, objects, seen, read, cache, risked>> /\ Parts!Active(save[s])
      /\ Saved(s, "dead", save[s].content, save[s].stored, save[s].previous)
      /\ faults' \in 0 .. MaxFaults /\ faults' # 0
  <2>1. Saved(s, "dead", save[s].content, save[s].stored, save[s].previous)
    BY SaveChanges DEF Parts!Dies, SaveSteps
  <2> QED BY <2>1 DEF Parts!Dies, Parts!Client, Parts!Active, Parts!Fault, PartsTypes
<1>2. /\ PartsTypes' /\ SavesOK' /\ RowOK' /\ ReadsOK' /\ CacheOK'
      /\ \A d : Apart(d) => Apart(d)'
  BY <1>1, QuietSave DEF PartsTypes, SaveSteps
<1>3. ASSUME NEW d \in Long \ risked PROVE Sure(d)'
  <2>1. Sure(d)
    BY DEF SureOK
  <2>2. Referred(d)' /\ Stored(d)' /\ Apart(d)'
    BY <1>1, <1>2, <2>1 DEF Sure, Referred, Stored, Saved
  <2>3. Dropped(d)' /\ Undone(d)'
    BY <1>1, <2>1 DEF Sure, Dropped, Undone, Saved
  <2> QED BY <2>2, <2>3 DEF Sure
<1> QED BY <1>1, <1>2, <1>3 DEF SureOK, ObjectsOK

LEMMA RemoveKeeps ==
  ASSUME MaxFaults \in Nat, NamesApart, PartsInv, Parts!Remove
  PROVE  PartsInv'
<1> USE DEF PartsInv
<1>1. /\ row' = "removed" /\ row # "removed" /\ objects' = objects \ {row}
      /\ UNCHANGED <<save, seen, read, cache, risked, faults>>
  BY DEF Parts!Remove, Parts!Client
<1>2. \A d : (Over(d) <=> Over(d)') /\ (Repeated(d) <=> Repeated(d)')
  BY <1>1 DEF Over, Repeated
<1>3. PartsTypes' /\ SavesOK'
  BY <1>1, <1>2 DEF PartsTypes, SavesOK, SaveOK
<1>4. ASSUME NEW d \in Long \ risked PROVE Sure(d)'
  <2>1. Sure(d) /\ d # "removed"
    BY DEF SureOK, NamesApart, Parts!Contents
  <2> QED BY <1>1, <2>1 DEF Sure, Referred, Stored, Dropped, Undone, Apart
<1>5. RowOK'
  BY <1>1, <1>2 DEF RowOK, NamesApart
<1>6. ReadsOK' /\ CacheOK'
  <2>1. \A d \in Long : row' # d
    BY <1>1 DEF NamesApart, Parts!Contents
  <2> QED BY <1>1, <1>2, <2>1, ClientKept DEF NamesApart
<1>7. ObjectsOK'
  BY <1>1 DEF ObjectsOK, Claims
<1> QED BY <1>1, <1>3, <1>4, <1>5, <1>6, <1>7 DEF SureOK

\* A step of a client.
LEMMA ClientStep ==
  ASSUME MaxFaults \in Nat, PartsInv, UNCHANGED <<row, objects, save, risked>>,
         faults' = faults \/ (faults < MaxFaults /\ faults' = faults + 1),
         PartsTypes', RowOK', (ReadsOK /\ CacheOK)'
  PROVE  PartsInv'
<1> USE DEF PartsInv
<1>1. \A d : Over(d) <=> Over(d)'
  BY DEF Over
<1>2. SavesOK'
  BY <1>1 DEF SavesOK, SaveOK
<1>3. SureOK'
  BY DEF SureOK, Sure, Referred, Stored, Dropped, Undone, Apart
<1>4. ObjectsOK'
  BY DEF ObjectsOK, PartsTypes, Claims
<1> QED BY <1>2, <1>3, <1>4

LEMMA RowArrivesKeeps ==
  ASSUME MaxFaults \in Nat, PartsInv, Parts!RowArrives
  PROVE  PartsInv'
<1> USE DEF PartsInv
<1>1. seen' = row /\ seen # row /\ UNCHANGED <<row, objects, save, read, cache, risked, faults>>
  BY DEF Parts!RowArrives
<1>2. \A d : (Over(d) <=> Over(d)') /\ (Absent(d) <=> Absent(d)')
  BY <1>1 DEF Over, Absent, Repeated
<1>3. PartsTypes' /\ RowOK' /\ (ReadsOK /\ CacheOK)'
  BY <1>1, <1>2 DEF PartsTypes, RowOK, ReadsOK, ReadOK, CacheOK
<1> QED BY <1>1, <1>3, ClientStep

LEMMA AskKeeps ==
  ASSUME MaxFaults \in Nat, NamesApart, PartsInv, NEW r \in Reads, Parts!Ask(r)
  PROVE  PartsInv'
<1> USE DEF PartsInv
<1>1. /\ read[r].pc = "idle" /\ seen \in Long /\ cache[seen] = None
      /\ UNCHANGED <<row, objects, save, seen, cache, risked, faults>>
      /\ read' = [q \in Reads |->
           IF q = r THEN [pc |-> "query", name |-> seen, parts |-> Unavailable]
           ELSE IF read[q].name = seen THEN read[q] ELSE [read[q] EXCEPT !.name = None]]
  BY DEF Parts!Ask, Parts!Missing
<1>2. Over(seen) /\ row # None
  BY <1>1 DEF RowOK, Parts!Contents, NamesApart
<1>3. \A d : (Over(d) <=> Over(d)') /\ (Absent(d) <=> Absent(d)')
  BY <1>1 DEF Over, Absent, Repeated
<1>4. read'[r] = [pc |-> "query", name |-> seen, parts |-> Unavailable]
  BY <1>1
<1>5. \A q \in Reads : q # r =>
        /\ read'[q].pc = read[q].pc /\ read'[q].parts = read[q].parts
        /\ read'[q].name = read[q].name \/ read'[q].name = None
  BY <1>1 DEF PartsTypes
<1>6. read' \in [Reads -> [pc : {"idle", "query", "fetch", "answer"}, name : Long \cup {None},
                           parts : Long \cup {Unavailable, Failed}]]
  BY <1>1 DEF PartsTypes
<1>7. PartsTypes' /\ RowOK'
  BY <1>1, <1>3, <1>6 DEF PartsTypes, RowOK
<1>8. ReadsOK'
  <2> SUFFICES ASSUME NEW q \in Reads PROVE ReadOK(q)'
    BY DEF ReadsOK
  <2>1. CASE q = r
    BY <1>1, <1>2, <1>3, <1>4, <2>1 DEF ReadOK
  <2>2. CASE q # r
    BY <1>1, <1>3, <1>5, <2>2 DEF ReadsOK, ReadOK, NamesApart, Parts!Contents
  <2> QED BY <2>1, <2>2
<1>9. CacheOK'
  BY <1>1, <1>3 DEF CacheOK
<1> QED BY <1>1, <1>7, <1>8, <1>9, ClientStep

\* A request goes on with its name and what it was given.
LEMMA GivenKeeps ==
  ASSUME MaxFaults \in Nat, PartsInv, NEW r \in Reads, read[r].pc \in {"query", "fetch"},
         NEW p \in {"fetch", "answer"}, NEW parts \in Long \cup {Unavailable, Failed},
         read' = [read EXCEPT ![r] = [@ EXCEPT !.pc = p, !.parts = parts]],
         p = "fetch" => parts \in Long /\ read[r].name = parts,
         p = "answer" /\ read[r].name # None =>
           \/ parts \in {read[r].name, Failed}
           \/ parts = Unavailable /\ Absent(read[r].name),
         UNCHANGED <<row, objects, save, seen, cache, risked>>,
         faults' = faults \/ (faults < MaxFaults /\ faults' = faults + 1)
  PROVE  PartsInv'
<1> USE DEF PartsInv
<1>1. \A d : (Over(d) <=> Over(d)') /\ (Absent(d) <=> Absent(d)')
  BY DEF Over, Absent, Repeated
<1>2. /\ read'[r].pc = p /\ read'[r].parts = parts /\ read'[r].name = read[r].name
      /\ \A q \in Reads : q # r => read'[q] = read[q]
      /\ read' \in [Reads -> [pc : {"idle", "query", "fetch", "answer"}, name : Long \cup {None},
                              parts : Long \cup {Unavailable, Failed}]]
  <2> DEFINE new == [read[r] EXCEPT !.pc = p, !.parts = parts]
  <2>1. /\ new \in [pc : {"idle", "query", "fetch", "answer"}, name : Long \cup {None},
                    parts : Long \cup {Unavailable, Failed}]
        /\ new.pc = p /\ new.parts = parts /\ new.name = read[r].name
    BY DEF PartsTypes
  <2>2. read' = [read EXCEPT ![r] = new]
    OBVIOUS
  <2> HIDE DEF new
  <2> QED BY <2>1, <2>2 DEF PartsTypes
<1>3. PartsTypes'
  <2>1. faults' \in 0 .. MaxFaults
    BY DEF PartsTypes
  <2> QED BY <1>2, <2>1 DEF PartsTypes
<1>4. RowOK'
  BY <1>1 DEF RowOK
<1>5. ReadsOK'
  <2> SUFFICES ASSUME NEW q \in Reads PROVE ReadOK(q)'
    BY DEF ReadsOK
  <2>1. CASE q = r
    BY <1>1, <1>2, <2>1 DEF ReadsOK, ReadOK
  <2>2. CASE q # r
    BY <1>1, <1>2, <2>2 DEF ReadsOK, ReadOK
  <2> QED BY <2>1, <2>2
<1>6. CacheOK'
  BY <1>1 DEF CacheOK
<1> QED BY <1>3, <1>4, <1>5, <1>6, ClientStep

LEMMA QueryKeeps ==
  ASSUME MaxFaults \in Nat, NamesApart, PartsInv, NEW r \in Reads, Parts!Query(r)
  PROVE  PartsInv'
<1>1. /\ read[r].pc = "query" /\ read[r].parts = Unavailable
      /\ UNCHANGED <<row, objects, save, seen, cache, risked, faults>>
      /\ read[r].name \in Long \cup {None} /\ row # None
  BY DEF Parts!Query, PartsInv, PartsTypes, ReadsOK, ReadOK
<1>2. CASE row = read[r].name
  <2>1. read' = [read EXCEPT ![r] = [@ EXCEPT !.pc = "fetch", !.parts = row]]
    BY <1>2 DEF Parts!Query, PartsInv, PartsTypes
  <2> QED BY <1>1, <1>2, <2>1, GivenKeeps
<1>3. CASE row # read[r].name
  <2>1. read' = [read EXCEPT ![r] = [@ EXCEPT !.pc = "answer", !.parts = Unavailable]]
    BY <1>1, <1>3 DEF Parts!Query, PartsInv, PartsTypes
  <2>2. Absent(read[r].name)
    BY <1>3 DEF Absent
  <2> QED BY <1>1, <2>1, <2>2, GivenKeeps
<1> QED BY <1>2, <1>3

LEMMA FetchKeeps ==
  ASSUME MaxFaults \in Nat, NamesApart, PartsInv, NEW r \in Reads, Parts!Fetch(r)
  PROVE  PartsInv'
<1>1. /\ read[r].pc = "fetch" /\ UNCHANGED <<row, objects, save, seen, cache, risked>>
      /\ read[r].parts \in Long /\ read[r].name \in {None, read[r].parts}
  BY DEF Parts!Fetch, PartsInv, ReadsOK, ReadOK
<1>2. ASSUME NEW parts, Parts!Fetched(r, parts)
      PROVE  read' = [read EXCEPT ![r] = [@ EXCEPT !.pc = "answer", !.parts = parts]]
  BY <1>2 DEF Parts!Fetched, PartsInv, PartsTypes
<1>3. CASE Parts!Fetched(r, read[r].parts) /\ UNCHANGED faults
  BY <1>1, <1>2, <1>3, GivenKeeps
<1>4. CASE Parts!Fetched(r, Unavailable) /\ read[r].parts \notin objects /\ UNCHANGED faults
  <2>1. Absent(read[r].parts)
    BY <1>1, <1>4 DEF PartsInv, SureOK, Sure, Referred, Absent
  <2> QED BY <1>1, <1>2, <1>4, <2>1, GivenKeeps
<1>5. CASE Parts!Fetched(r, Failed) /\ Parts!Fault
  BY <1>1, <1>2, <1>5, GivenKeeps DEF Parts!Fault
<1> QED BY <1>3, <1>4, <1>5 DEF Parts!Fetch

LEMMA AnswerKeeps ==
  ASSUME MaxFaults \in Nat, NamesApart, PartsInv, NEW r \in Reads, Parts!Answer(r)
  PROVE  PartsInv'
<1> USE DEF PartsInv
<1>1. /\ read[r].pc = "answer" /\ UNCHANGED <<row, objects, save, seen, risked, faults>>
      /\ read' = [read EXCEPT ![r] = [pc |-> "idle", name |-> None, parts |-> Unavailable]]
      /\ cache' = IF read[r].name = None THEN cache
                  ELSE [cache EXCEPT ![read[r].name] = read[r].parts]
  BY DEF Parts!Answer
<1>2. \A d : (Over(d) <=> Over(d)') /\ (Absent(d) <=> Absent(d)')
  BY <1>1 DEF Over, Absent, Repeated
<1>3. PartsTypes' /\ RowOK'
  BY <1>1, <1>2 DEF PartsTypes, RowOK
<1>4. ReadsOK'
  <2> SUFFICES ASSUME NEW q \in Reads PROVE ReadOK(q)'
    BY DEF ReadsOK
  <2>1. /\ q = r => read'[q] = [pc |-> "idle", name |-> None, parts |-> Unavailable]
        /\ q # r => read'[q] = read[q]
    BY <1>1 DEF PartsTypes
  <2>2. CASE q = r
    BY <2>1, <2>2 DEF ReadOK, NamesApart, Parts!Contents
  <2>3. CASE q # r
    BY <1>1, <1>2, <2>1, <2>3 DEF ReadsOK, ReadOK
  <2> QED BY <2>2, <2>3
<1>5. CacheOK'
  <2>1. CASE read[r].name = None
    BY <1>1, <1>2, <2>1 DEF CacheOK
  <2>2. CASE read[r].name # None
    <3>1. /\ read[r].name \in Long /\ Over(read[r].name)
          /\ \/ read[r].parts \in {read[r].name, Failed}
             \/ read[r].parts = Unavailable /\ Absent(read[r].name)
      BY <1>1, <2>2 DEF ReadsOK, ReadOK, PartsTypes
    <3>2. /\ cache'[read[r].name] = read[r].parts
          /\ \A c \in Long : c # read[r].name => cache'[c] = cache[c]
      BY <1>1, <2>2, <3>1 DEF PartsTypes
    <3> QED BY <1>1, <1>2, <3>1, <3>2 DEF CacheOK
  <2> QED BY <2>1, <2>2
<1> QED BY <1>1, <1>3, <1>4, <1>5, ClientStep

LEMMA PartsStep ==
  ASSUME MaxFaults \in Nat, NamesApart, PartsInv, [Parts!Next]_Parts!vars
  PROVE  PartsInv'
<1>1. CASE UNCHANGED Parts!vars
  <2>1. UNCHANGED <<row, objects, save, seen, read, cache, risked, faults>>
    BY <1>1 DEF Parts!vars
  <2>2. \A d : (Over(d) <=> Over(d)') /\ (Absent(d) <=> Absent(d)')
    BY <2>1 DEF Over, Absent, Repeated
  <2>3. PartsTypes' /\ RowOK' /\ (ReadsOK /\ CacheOK)'
    BY <2>1, <2>2 DEF PartsInv, PartsTypes, RowOK, ReadsOK, ReadOK, CacheOK
  <2> QED BY <2>1, <2>3, ClientStep
<1>2. CASE \E s \in Saves : (\E c \in Parts!Contents : Parts!Begin(s, c)) \/ Parts!Save(s)
  BY <1>2, BeginKeeps, StoreKeeps, PatchKeeps, DeleteKeeps, SaveDies DEF Parts!Save
<1>3. CASE \E r \in Reads : Parts!Ask(r) \/ Parts!Query(r) \/ Parts!Fetch(r) \/ Parts!Answer(r)
  BY <1>3, AskKeeps, QueryKeeps, FetchKeeps, AnswerKeeps
<1> QED BY <1>1, <1>2, <1>3, RemoveKeeps, RowArrivesKeeps DEF Parts!Next

\* messages.ts:1046: the object a row refers to is in R2, and who has the row shows
\* its parts or is still to load them, however many saves, removals and reads overlap
\* and whatever fails, contents saved again included, but for a content whose patch
\* took effect and answered with an error or one of whose saves crossed another; and
\* until something fails no object is left that nobody uses.
THEOREM ReplyIsReadableHolds ==
  ASSUME MaxFaults \in Nat, NamesApart
  PROVE  Parts!Spec => [](Parts!ReplyIsReadable /\ Parts!NoObjectIsLeft)
<1>1. Parts!Init => PartsInv
  <2> SUFFICES ASSUME Parts!Init PROVE PartsInv
    OBVIOUS
  <2> USE DEF Parts!Init
  <2>1. PartsTypes
    BY DEF PartsTypes, SaveRecord, SaveSteps
  <2>2. SavesOK /\ RowOK
    BY DEF SavesOK, SaveOK, RowOK, NamesApart, Parts!Contents
  <2>3. ReadsOK /\ CacheOK /\ ObjectsOK
    BY DEF ReadsOK, ReadOK, CacheOK, ObjectsOK, NamesApart, Parts!Contents
  <2>4. \A s \in Saves : save[s].pc = "new" /\ ~Parts!Active(save[s])
    BY DEF Parts!Active
  <2>5. ASSUME NEW d \in Long PROVE Sure(d)
    <3>1. row # d
      BY DEF NamesApart, Parts!Contents
    <3> QED BY <2>4, <3>1 DEF Sure, Referred, Stored, Dropped, Undone, Apart, Parts!Crosses
  <2> QED BY <2>1, <2>2, <2>3, <2>5 DEF PartsInv, SureOK
<1>2. PartsInv => Parts!ReplyIsReadable /\ Parts!NoObjectIsLeft
  <2> SUFFICES ASSUME PartsInv PROVE Parts!ReplyIsReadable /\ Parts!NoObjectIsLeft
    OBVIOUS
  <2>1. Parts!ReplyIsReadable
    BY DEF PartsInv, SureOK, Sure, Referred, CacheOK, Absent, Repeated, Parts!ReplyIsReadable
  <2>2. Parts!NoObjectIsLeft
    BY DEF PartsInv, ObjectsOK, Claims, Parts!NoObjectIsLeft
  <2> QED BY <2>1, <2>2
<1>3. PartsInv /\ [Parts!Next]_Parts!vars => PartsInv'
  BY PartsStep
<1> QED BY <1>1, <1>2, <1>3, PTL DEF Parts!Spec

-----------------------------------------------------------------------------
(* The steps of a turn. *)

Meta == <<"meta">>
Words == <<"text">>
Problem == <<"error">>
Call == Context!Calls
Chunk == {Meta, Words, Problem} \cup Call
Entry == Nat \X Chunk
Part == [text : BOOLEAN, calls : SUBSET Call, ended : SUBSET Call, size : Nat]
StepTypes ==
  /\ attempt \in Nat /\ shown \in Seq(Entry) /\ reply \in Seq(Part)
  /\ stream \in [buffered : {<< >>, <<Meta>>}, emitted : BOOLEAN, ended : BOOLEAN]
  /\ DOMAIN calls \subseteq Call /\ calls = [k \in DOMAIN calls |-> calls[k]]
  /\ IsFiniteSet(DOMAIN calls)
  /\ agents \in [active : Int, running : SUBSET Call] /\ IsFiniteSet(agents.running)
  /\ loop \in [fails : Nat, same : Nat, stopped : BOOLEAN] /\ steps.done \in Nat

\* What the stream of the step has passed on is of this attempt, each chunk once but
\* metadata: the text that is in the reply, the calls that were made, an error at its end.
Shows(x) == \E i \in 1 .. Len(shown) : shown[i][2] = x
ShownOnce ==
  \A i, j \in 1 .. Len(shown) : shown[i][2] = shown[j][2] /\ shown[i][2] # Meta => i = j
ShownOK ==
  /\ \A i \in 1 .. Len(shown) : shown[i][1] = attempt
  /\ ShownOnce
  /\ phase = "requesting" => shown = << >>
  /\ phase = "streaming" => /\ ~Shows(Problem)
                            /\ Shows(Words) => reply[Len(reply)].text
                            /\ ~stream.emitted /\ ~stream.ended => shown = << >>
  /\ \A k \in Call : Shows(k) <=> k \in DOMAIN calls
\* Calls are numbered, and the reply has the step that makes them.
CallsOK ==
  phase = "streaming" =>
    Len(reply) > 0 /\ \A k \in DOMAIN calls : k[3] <= Cardinality(DOMAIN calls)
\* The agents at work are calls of the step, which does not end before them.
AgentsOK ==
  /\ agents.active = Cardinality(agents.running)
  /\ \A k \in agents.running : k \in DOMAIN calls /\ calls[k] = "running"
  /\ phase = "ready" => agents.running = {}
\* A turn whose loop was stopped calls nothing more; one that goes on is below the limits.
Below(a, b) == loop.fails <= a /\ loop.same <= b
LoopOK ==
  /\ Below(FailureLimit, ResultLimit)
  /\ phase \in {"requesting", "streaming"} =>
       IF loop.stopped THEN calls = << >> ELSE Below(FailureLimit - 1, ResultLimit - 1)
  /\ phase = "ready" => ~loop.stopped
ContextInv == StepTypes /\ ShownOK /\ CallsOK /\ AgentsOK /\ LoopOK

LEMMA ChunksDiffer ==
  /\ Meta # Words /\ Meta # Problem /\ Words # Problem
  /\ \A k \in Call : k # Meta /\ k # Words /\ k # Problem
<1>1. Meta[1] = "meta" /\ Words[1] = "text" /\ Problem[1] = "error"
  BY DEF Meta, Words, Problem
<1>2. Len(Meta) = 1 /\ Len(Words) = 1 /\ Len(Problem) = 1
  BY DEF Meta, Words, Problem
<1>3. \A k \in Call : Len(k) = 3
  BY DEF Call, Context!Calls
<1> QED BY <1>1, <1>2, <1>3

\* What is passed on is metadata, and at the end one chunk that was not shown before.
Ending(cs, c) ==
  /\ cs \in Seq(Chunk) /\ Len(cs) > 0 /\ cs[Len(cs)] = c
  /\ \A i \in 1 .. Len(cs) - 1 : cs[i] = Meta
LEMMA PassedOn ==
  ASSUME StepTypes, \A i \in 1 .. Len(shown) : shown[i][1] = attempt, ShownOnce,
         NEW c \in Chunk, NEW cs, Ending(cs, c), c = Meta \/ ~Shows(c), Context!Passes(cs)
  PROVE  /\ shown' \in Seq(Entry) /\ \A i \in 1 .. Len(shown') : shown'[i][1] = attempt
         /\ ShownOnce'
         /\ \A x : x # Meta => (Shows(x)' <=> Shows(x) \/ x = c)
<1> DEFINE n == Len(shown)
           m == Len(cs)
           more == [i \in 1 .. m |-> <<attempt, cs[i]>>]
<1>1. n \in Nat /\ m \in Nat /\ m > 0 /\ attempt \in Nat /\ shown \in Seq(Entry)
  BY DEF StepTypes, Ending
<1>2. more \in Seq(Entry) /\ Len(more) = m
  <2>1. \A i \in 1 .. m : <<attempt, cs[i]>> \in Entry
    BY <1>1 DEF Ending, Entry
  <2> QED BY <1>1, <2>1
<1>3. \A i \in 1 .. m : more[i] = <<attempt, cs[i]>>
  OBVIOUS
<1>4. shown' = shown \o more
  BY DEF Context!Passes
<1> HIDE DEF more
<1>5. /\ shown' \in Seq(Entry) /\ Len(shown') = n + m
      /\ \A i \in 1 .. n : shown'[i] = shown[i]
      /\ \A i \in 1 .. m : shown'[n + i] = more[i]
  <2>1. /\ shown \o more \in Seq(Entry) /\ Len(shown \o more) = Len(shown) + Len(more)
        /\ \A i \in 1 .. Len(shown) : (shown \o more)[i] = shown[i]
        /\ \A i \in 1 .. Len(more) : (shown \o more)[Len(shown) + i] = more[i]
    BY ONLY <1>1, <1>2
  <2> QED BY <1>1, <1>2, <1>4, <2>1
<1>6. \A i \in n + 1 .. n + m - 1 : shown'[i] = <<attempt, Meta>>
  <2> SUFFICES ASSUME NEW i \in n + 1 .. n + m - 1 PROVE shown'[i] = <<attempt, Meta>>
    OBVIOUS
  <2>1. i - n \in 1 .. m - 1 /\ i - n \in 1 .. m /\ n + (i - n) = i
    BY <1>1
  <2> QED BY <1>3, <1>5, <2>1 DEF Ending
<1>7. shown'[n + m] = <<attempt, c>> /\ n + m \in 1 .. n + m
  <2>1. m \in 1 .. m /\ cs[m] = c
    BY <1>1 DEF Ending
  <2> QED BY <1>1, <1>3, <1>5, <2>1
<1>8. \A i \in 1 .. n + m : i \in 1 .. n \/ i \in n + 1 .. n + m - 1 \/ i = n + m
  BY <1>1
<1>9. \A i \in 1 .. n + m : shown'[i][1] = attempt
  <2> SUFFICES ASSUME NEW i \in 1 .. n + m PROVE shown'[i][1] = attempt
    OBVIOUS
  <2>1. CASE i \in 1 .. n
    BY <1>5, <2>1
  <2>2. CASE i \in n + 1 .. n + m - 1
    BY <1>6, <2>2
  <2>3. CASE i = n + m
    BY <1>7, <2>3
  <2> QED BY <1>8, <2>1, <2>2, <2>3
<1>10. \A i \in 1 .. n + m :
         \/ i \in 1 .. n /\ shown'[i][2] = shown[i][2]
         \/ shown'[i][2] = Meta
         \/ i = n + m /\ shown'[i][2] = c
  BY <1>5, <1>6, <1>7, <1>8
<1>11. ShownOnce'
  <2> SUFFICES ASSUME NEW i \in 1 .. n + m, NEW j \in 1 .. n + m,
                      shown'[i][2] = shown'[j][2], shown'[i][2] # Meta
               PROVE  i = j
    BY <1>5 DEF ShownOnce
  <2>1. CASE i \in 1 .. n /\ shown'[i][2] = shown[i][2]
    BY <1>10, <2>1 DEF ShownOnce, Shows
  <2>2. CASE i = n + m /\ shown'[i][2] = c
    BY <1>10, <2>2 DEF Shows
  <2> QED BY <1>10, <2>1, <2>2
<1>12. \A x : x # Meta => (Shows(x)' <=> Shows(x) \/ x = c)
  <2> SUFFICES ASSUME NEW x, x # Meta PROVE Shows(x)' <=> Shows(x) \/ x = c
    OBVIOUS
  <2>1. ASSUME Shows(x)' PROVE Shows(x) \/ x = c
    BY <1>5, <1>10, <2>1 DEF Shows
  <2>2. ASSUME Shows(x) PROVE Shows(x)'
    <3>1. PICK i \in 1 .. n : shown[i][2] = x
      BY <2>2 DEF Shows
    <3>2. i \in 1 .. n + m /\ shown'[i][2] = x
      BY <1>1, <1>5, <3>1
    <3> QED BY <1>5, <3>2 DEF Shows
  <2>3. ASSUME x = c PROVE Shows(x)'
    BY <1>5, <1>7, <2>3 DEF Shows
  <2> QED BY <2>1, <2>2, <2>3
<1> QED BY <1>5, <1>9, <1>11, <1>12

LEMMA LimitsAre ==
  ASSUME Context!ContextAssumption
  PROVE  FailureLimit \in Nat \ {0, 1} /\ ResultLimit \in Nat \ {0, 1}
BY DEF Context!ContextAssumption

LEMMA NumberedCalls == ASSUME NEW k \in Call PROVE k[3] \in Nat
BY DEF Call, Context!Calls

LEMMA SameCount == \A S : Context!Cardinality(S) = Cardinality(S)
BY DEF Context!Cardinality, Cardinality

LEMMA AppendedOne ==
  ASSUME NEW S, NEW s \in Seq(S), NEW e \in S
  PROVE  /\ Append(s, e) \in Seq(S) /\ Len(Append(s, e)) = Len(s) + 1
         /\ \A i \in 1 .. Len(s) : Append(s, e)[i] = s[i]
         /\ Append(s, e)[Len(s) + 1] = e
OBVIOUS

LEMMA LargerOne == ASSUME NEW a \in Nat, NEW b \in Nat PROVE Context!Max({a, b}) \in Nat
<1>1. \E x \in {a, b} : \A y \in {a, b} : x >= y
  OBVIOUS
<1> QED BY <1>1 DEF Context!Max

\* A request that is repeated, and one whose stream begins.
LEMMA PrepareKeeps ==
  ASSUME Context!ContextAssumption, ContextInv, Context!PrepareStep
  PROVE  ContextInv'
<1>1. /\ phase = "ready" /\ phase' = "requesting" /\ attempt' = 0 /\ stream' = Context!NoStream
      /\ shown' = << >> /\ calls' = << >> /\ UNCHANGED <<agents, steps, reply>>
      /\ loop' = [loop EXCEPT !.stopped = @ \/ Context!IsLooping]
  BY DEF Context!PrepareStep
<1>2. StepTypes /\ AgentsOK /\ LoopOK
  BY DEF ContextInv
<1>3. DOMAIN calls' = {} /\ Len(shown') = 0 /\ IsFiniteSet({})
  BY <1>1, FS_EmptySet
<1>4. /\ loop' \in [fails : Nat, same : Nat, stopped : BOOLEAN]
      /\ loop'.fails = loop.fails /\ loop'.same = loop.same
      /\ (loop'.stopped <=> loop.stopped \/ Context!IsLooping)
  <2> DEFINE stopped == loop.stopped \/ Context!IsLooping
  <2>1. loop \in [fails : Nat, same : Nat, stopped : BOOLEAN] /\ stopped \in BOOLEAN
    BY <1>2 DEF StepTypes, Context!IsLooping
  <2>2. loop' = [loop EXCEPT !.stopped = stopped]
    BY <1>1
  <2> HIDE DEF stopped
  <2>3. /\ loop' \in [fails : Nat, same : Nat, stopped : BOOLEAN]
        /\ loop'.fails = loop.fails /\ loop'.same = loop.same /\ loop'.stopped = stopped
    BY <2>1, <2>2
  <2> QED BY <2>3 DEF stopped
<1>5. StepTypes'
  <2>1. stream' \in [buffered : {<< >>, <<Meta>>}, emitted : BOOLEAN, ended : BOOLEAN]
    BY <1>1 DEF Context!NoStream
  <2>2. calls' = [k \in DOMAIN calls' |-> calls'[k]]
    BY <1>1
  <2>3. shown' \in Seq(Entry)
    BY <1>1
  <2> QED BY <1>1, <1>2, <1>3, <1>4, <2>1, <2>2, <2>3 DEF StepTypes
<1>6. ShownOK'
  BY <1>1, <1>3 DEF ShownOK, ShownOnce, Shows
<1>7. CallsOK' /\ AgentsOK'
  BY <1>1, <1>2 DEF CallsOK, AgentsOK
<1>8. LoopOK'
  <2>1. /\ ~loop.stopped /\ FailureLimit \in Nat /\ ResultLimit \in Nat
        /\ loop.fails \in Nat /\ loop.same \in Nat
    BY <1>1, <1>2, LimitsAre DEF LoopOK, StepTypes
  <2>2. loop'.stopped <=> loop.fails >= FailureLimit \/ loop.same >= ResultLimit
    BY <1>4, <2>1 DEF Context!IsLooping
  <2> QED BY <1>1, <1>2, <1>4, <2>1, <2>2 DEF LoopOK, Below
<1> QED BY <1>5, <1>6, <1>7, <1>8 DEF ContextInv

\* What neither shows nor calls anything.
LEMMA QuietKeeps ==
  ASSUME Context!ContextAssumption, ContextInv,
         UNCHANGED <<shown, calls, agents, loop, steps>>, StepTypes',
         phase' = phase \/ phase' \in {"failed", "stopped"},
         UNCHANGED reply, UNCHANGED attempt,
         phase' = "streaming" =>
           stream'.emitted = stream.emitted /\ stream'.ended = stream.ended
  PROVE  ContextInv'
<1>1. ShownOK /\ CallsOK /\ AgentsOK /\ LoopOK
  BY DEF ContextInv
<1>2. ShownOK'
  BY <1>1 DEF ShownOK, ShownOnce, Shows
<1>3. CallsOK' /\ AgentsOK'
  BY <1>1 DEF CallsOK, AgentsOK
<1>4. LoopOK'
  BY <1>1 DEF LoopOK, Below
<1> QED BY <1>2, <1>3, <1>4 DEF ContextInv

\* A step that shows nothing yet is tried again, or its stream begins.
LEMMA TriedAgain ==
  ASSUME Context!ContextAssumption, ContextInv,
         phase \in {"requesting", "streaming"}, shown = << >>,
         UNCHANGED <<shown, calls, agents, loop, steps>>, StepTypes',
         phase' = "requesting" \/ 
           (phase' = "streaming" /\ stream' = Context!NoStream /\ Len(reply') > 0)
  PROVE  ContextInv'
<1>1. StepTypes /\ ShownOK /\ CallsOK /\ AgentsOK /\ LoopOK
  BY DEF ContextInv
<1>2. Len(shown) = 0 /\ DOMAIN calls = {}
  <2>1. Len(shown) = 0
    OBVIOUS
  <2>2. \A k \in Call : ~Shows(k)
    BY <2>1 DEF Shows
  <2> QED BY <1>1, <2>1, <2>2 DEF ShownOK, StepTypes
<1>3. ShownOK'
  BY <1>1, <1>2 DEF ShownOK, ShownOnce, Shows
<1>4. CallsOK' /\ AgentsOK'
  BY <1>1, <1>2 DEF CallsOK, AgentsOK
<1>5. LoopOK'
  BY <1>1 DEF LoopOK, Below
<1> QED BY <1>3, <1>4, <1>5 DEF ContextInv

LEMMA RequestKeeps ==
  ASSUME Context!ContextAssumption, ContextInv, Context!Request
  PROVE  ContextInv'
<1>1. StepTypes /\ ShownOK
  BY DEF ContextInv
<1>2. phase = "requesting" /\ UNCHANGED <<shown, calls, agents, loop, steps>> /\ shown = << >>
  BY <1>1 DEF Context!Request, Context!StepUnchanged, ShownOK
<1> DEFINE new == [text |-> FALSE, calls |-> {}, ended |-> {}, size |-> 1]
<1>3. CASE /\ phase' = "streaming" /\ stream' = Context!NoStream /\ UNCHANGED attempt
           /\ reply' = IF Len(reply) > steps.done THEN reply ELSE Append(reply, new)
  <2>1. new \in Part
    BY DEF Part
  <2> HIDE DEF new
  <2>2. reply' \in Seq(Part) /\ Len(reply') > 0
    <3>1. reply \in Seq(Part) /\ Len(reply) \in Nat /\ steps.done \in Nat
      BY <1>1 DEF StepTypes
    <3>2. Append(reply, new) \in Seq(Part) /\ Len(Append(reply, new)) = Len(reply) + 1
      BY <2>1, <3>1
    <3> QED BY <1>3, <3>1, <3>2
  <2>3. stream' \in [buffered : {<< >>, <<Meta>>}, emitted : BOOLEAN, ended : BOOLEAN]
    BY <1>3 DEF Context!NoStream
  <2>4. StepTypes'
    BY <1>1, <1>2, <1>3, <2>2, <2>3 DEF StepTypes
  <2> QED BY <1>2, <1>3, <2>2, <2>4, TriedAgain
<1>4. CASE attempt' = attempt + 1 /\ UNCHANGED <<phase, stream, reply>>
  <2>1. StepTypes'
    BY <1>1, <1>2, <1>4 DEF StepTypes
  <2> QED BY <1>2, <1>4, <2>1, TriedAgain
<1>5. CASE phase' = "failed" /\ UNCHANGED <<attempt, stream, reply>>
  <2>1. StepTypes'
    BY <1>1, <1>2, <1>5 DEF StepTypes
  <2> QED BY <1>2, <1>5, <2>1, QuietKeeps
<1> QED BY <1>3, <1>4, <1>5 DEF Context!Request

LEMMA MetadataKeeps ==
  ASSUME Context!ContextAssumption, ContextInv, Context!Metadata
  PROVE  ContextInv'
<1>1. StepTypes /\ UNCHANGED <<phase, attempt, shown, calls, agents, reply, loop, steps>>
  BY DEF ContextInv, Context!Metadata, Context!StepUnchanged
<1>2. stream' = [stream EXCEPT !.buffered = <<Meta>>]
  BY DEF Context!Metadata, Meta
<1>3. /\ stream' \in [buffered : {<< >>, <<Meta>>}, emitted : BOOLEAN, ended : BOOLEAN]
      /\ stream'.emitted = stream.emitted /\ stream'.ended = stream.ended
  BY <1>1, <1>2 DEF StepTypes
<1>4. StepTypes'
  BY <1>1, <1>3 DEF StepTypes
<1> QED BY <1>1, <1>3, <1>4, QuietKeeps

LEMMA StopKeeps ==
  ASSUME Context!ContextAssumption, ContextInv, Context!Stop
  PROVE  ContextInv'
<1>1. /\ StepTypes /\ phase' = "stopped"
      /\ UNCHANGED <<attempt, stream, shown, calls, agents, reply, loop, steps>>
  BY DEF ContextInv, Context!Stop, Context!StepUnchanged
<1>2. StepTypes'
  BY <1>1 DEF StepTypes
<1> QED BY <1>1, <1>2, QuietKeeps

\* The first output lets go what was held back.
LEMMA OutputPassed ==
  ASSUME Context!ContextAssumption, ContextInv, NEW c \in Chunk, ~Shows(c),
         Context!PassesOutput(c)
  PROVE  /\ shown' \in Seq(Entry) /\ \A i \in 1 .. Len(shown') : shown'[i][1] = attempt
         /\ ShownOnce' /\ \A x : x # Meta => (Shows(x)' <=> Shows(x) \/ x = c)
         /\ stream' \in [buffered : {<< >>, <<Meta>>}, emitted : BOOLEAN, ended : BOOLEAN]
         /\ stream'.emitted
<1> DEFINE cs == IF stream.emitted THEN <<c>> ELSE Append(stream.buffered, c)
<1>1. StepTypes /\ (\A i \in 1 .. Len(shown) : shown[i][1] = attempt) /\ ShownOnce
  BY DEF ContextInv, ShownOK
<1>2. Ending(cs, c)
  <2>1. Ending(<<c>>, c)
    BY DEF Ending
  <2>2. CASE stream.emitted \/ stream.buffered = << >>
    <3>1. Append(<< >>, c) = <<c>>
      OBVIOUS
    <3>2. cs = <<c>>
      BY <2>2, <3>1
    <3> QED BY <2>1, <3>2
  <2>3. CASE ~stream.emitted /\ stream.buffered = <<Meta>>
    <3>1. cs = Append(<<Meta>>, c)
      BY <2>3
    <3>2. Ending(Append(<<Meta>>, c), c)
      <4>1. Meta \in Chunk /\ <<Meta>> \in Seq(Chunk) /\ Len(<<Meta>>) = 1 /\ <<Meta>>[1] = Meta
        BY DEF Chunk
      <4> DEFINE held == <<Meta>>
      <4> HIDE DEF held
      <4>2. held \in Seq(Chunk) /\ Len(held) = 1 /\ held[1] = Meta
        BY <4>1 DEF held
      <4>3. /\ Append(held, c) \in Seq(Chunk) /\ Len(Append(held, c)) = 2
            /\ Append(held, c)[1] = Meta /\ Append(held, c)[2] = c
        <5>1. /\ Append(held, c) \in Seq(Chunk) /\ Len(Append(held, c)) = Len(held) + 1
              /\ \A i \in 1 .. Len(held) : Append(held, c)[i] = held[i]
              /\ Append(held, c)[Len(held) + 1] = c
          BY <4>2, AppendedOne
        <5> QED BY ONLY <4>2, <5>1
      <4>4. Ending(Append(held, c), c)
        BY <4>3 DEF Ending
      <4> QED BY <4>4 DEF held
    <3> QED BY <3>1, <3>2
  <2> QED BY <1>1, <2>2, <2>3 DEF StepTypes
<1>3. Context!Passes(cs) /\ stream' = [stream EXCEPT !.emitted = TRUE]
  BY DEF Context!PassesOutput
<1> HIDE DEF cs
<1>4. /\ shown' \in Seq(Entry) /\ \A i \in 1 .. Len(shown') : shown'[i][1] = attempt
      /\ ShownOnce' /\ \A x : x # Meta => (Shows(x)' <=> Shows(x) \/ x = c)
  BY <1>1, <1>2, <1>3, PassedOn
<1>5. /\ stream' \in [buffered : {<< >>, <<Meta>>}, emitted : BOOLEAN, ended : BOOLEAN]
      /\ stream'.emitted
  BY <1>1, <1>3 DEF StepTypes
<1> QED BY <1>4, <1>5

LEMMA TextKeeps ==
  ASSUME Context!ContextAssumption, ContextInv, Context!Text
  PROVE  ContextInv'
<1>1. StepTypes /\ ShownOK /\ CallsOK /\ AgentsOK /\ LoopOK
  BY DEF ContextInv
<1>2. /\ phase = "streaming" /\ ~reply[Len(reply)].text
      /\ UNCHANGED <<phase, attempt, calls, agents, loop, steps>>
      /\ reply' = [reply EXCEPT ![Len(reply)].text = TRUE] /\ Context!PassesOutput(Words)
  BY DEF Context!Text, Context!StepUnchanged, Context!Here, Words
<1>3. ~Shows(Words) /\ ~Shows(Problem)
  BY <1>1, <1>2 DEF ShownOK
<1>4. /\ shown' \in Seq(Entry) /\ \A i \in 1 .. Len(shown') : shown'[i][1] = attempt
      /\ ShownOnce' /\ \A x : x # Meta => (Shows(x)' <=> Shows(x) \/ x = Words)
      /\ stream' \in [buffered : {<< >>, <<Meta>>}, emitted : BOOLEAN, ended : BOOLEAN]
      /\ stream'.emitted
  BY <1>2, <1>3, OutputPassed DEF Chunk
<1>5. reply' \in Seq(Part) /\ Len(reply') = Len(reply) /\ reply'[Len(reply)].text = TRUE
  <2> DEFINE n == Len(reply)
             last == [reply[n] EXCEPT !.text = TRUE]
  <2>1. reply \in Seq(Part) /\ n \in 1 .. Len(reply)
    BY <1>1, <1>2 DEF StepTypes, CallsOK
  <2>2. last \in Part /\ last.text = TRUE
    <3>1. reply[n] \in Part
      BY <2>1
    <3> QED BY <3>1 DEF Part
  <2>3. reply' = [reply EXCEPT ![n] = last]
    BY <1>2
  <2> HIDE DEF last
  <2> QED BY <2>1, <2>2, <2>3
<1>6. StepTypes'
  BY <1>1, <1>2, <1>4, <1>5 DEF StepTypes
<1>7. ShownOK'
  BY <1>1, <1>2, <1>3, <1>4, <1>5, ChunksDiffer DEF ShownOK
<1>8. CallsOK' /\ AgentsOK'
  BY <1>1, <1>2, <1>5 DEF CallsOK, AgentsOK
<1>9. LoopOK'
  BY <1>1, <1>2 DEF LoopOK, Below
<1> QED BY <1>6, <1>7, <1>8, <1>9 DEF ContextInv

\* Passing something on as the stream ends or breaks.
LEMMA LastPassed ==
  ASSUME Context!ContextAssumption, ContextInv, phase = "streaming",
         UNCHANGED <<attempt, calls, agents, reply, loop, steps>>,
         \/ stream' = [stream EXCEPT !.ended = TRUE] /\ phase' = phase
            /\ Context!Passes(stream.buffered)
         \/ stream' = stream /\ phase' = "failed" /\ Context!Passes(<<Problem>>)
  PROVE  ContextInv'
<1>1. StepTypes /\ ShownOK /\ CallsOK /\ AgentsOK /\ LoopOK
  BY DEF ContextInv
<1>2. /\ stream' \in [buffered : {<< >>, <<Meta>>}, emitted : BOOLEAN, ended : BOOLEAN]
      /\ phase' = "streaming" => stream'.ended
  BY <1>1 DEF StepTypes
<1> DEFINE NewLoop(c) ==
             /\ shown' \in Seq(Entry) /\ \A i \in 1 .. Len(shown') : shown'[i][1] = attempt
             /\ ShownOnce' /\ \A x : x # Meta => (Shows(x)' <=> Shows(x) \/ x = c)
<1>3. (phase' = phase /\ NewLoop(Meta)) \/ (phase' = "failed" /\ NewLoop(Problem))
  <2>1. ASSUME NEW c \in Chunk, c = Meta \/ ~Shows(c), Context!Passes(<<c>>)
        PROVE  NewLoop(c)
    <3>1. Ending(<<c>>, c)
      BY DEF Ending
    <3> QED BY <1>1, <2>1, <3>1, PassedOn DEF ShownOK
  <2>2. CASE phase' = "failed" /\ Context!Passes(<<Problem>>)
    BY <1>1, <2>1, <2>2 DEF ShownOK, Chunk
  <2>3. CASE phase' = phase /\ Context!Passes(stream.buffered) /\ stream.buffered = <<Meta>>
    BY <2>1, <2>3 DEF Chunk
  <2>4. CASE phase' = phase /\ Context!Passes(stream.buffered) /\ stream.buffered = << >>
    <3> DEFINE none == [i \in 1 .. Len(<< >>) |-> <<attempt, << >>[i]>>]
    <3>1. shown' = shown \o none /\ shown \in Seq(Entry)
      BY <1>1, <2>4 DEF Context!Passes, StepTypes
    <3>2. none = << >>
      OBVIOUS
    <3>3. shown' = shown
      BY <3>1, <3>2
    <3> QED BY <1>1, <2>4, <3>1, <3>3 DEF ShownOK, ShownOnce, Shows
  <2> QED BY <1>1, <2>2, <2>3, <2>4 DEF StepTypes
<1>4. StepTypes'
  BY <1>1, <1>2, <1>3 DEF StepTypes
<1>5. ShownOK'
  BY <1>1, <1>2, <1>3, ChunksDiffer DEF ShownOK
<1>6. CallsOK' /\ AgentsOK'
  BY <1>1, <1>3 DEF CallsOK, AgentsOK
<1>7. LoopOK'
  BY <1>1, <1>3 DEF LoopOK, Below
<1> QED BY <1>4, <1>5, <1>6, <1>7 DEF ContextInv

LEMMA OverflowKeeps ==
  ASSUME Context!ContextAssumption, ContextInv, Context!Overflow
  PROVE  ContextInv'
<1>1. StepTypes /\ ShownOK
  BY DEF ContextInv
<1>2. phase = "streaming" /\ ~stream.ended /\ UNCHANGED <<calls, agents, reply, loop, steps>>
  BY DEF Context!Overflow, Context!StepUnchanged
<1>3. CASE /\ Context!MayRetry /\ phase' = "requesting" /\ attempt' = attempt + 1
           /\ stream' = Context!NoStream /\ UNCHANGED shown
  <2>1. shown = << >>
    BY <1>1, <1>2, <1>3 DEF ShownOK, Context!MayRetry
  <2>2. stream' \in [buffered : {<< >>, <<Meta>>}, emitted : BOOLEAN, ended : BOOLEAN]
    BY <1>3 DEF Context!NoStream
  <2>3. StepTypes'
    BY <1>1, <1>2, <1>3, <2>2 DEF StepTypes
  <2> QED BY <1>2, <1>3, <2>1, <2>3, TriedAgain
<1>4. CASE phase' = "failed" /\ Context!Passes(<<Problem>>) /\ UNCHANGED <<attempt, stream>>
  BY <1>2, <1>4, LastPassed
<1> QED BY <1>3, <1>4 DEF Context!Overflow, Problem

LEMMA BreaksKeeps ==
  ASSUME Context!ContextAssumption, ContextInv, Context!Breaks
  PROVE  ContextInv'
BY LastPassed DEF Context!Breaks, Context!StepUnchanged, Problem

LEMMA EndsKeeps ==
  ASSUME Context!ContextAssumption, ContextInv, Context!Ends
  PROVE  ContextInv'
BY LastPassed DEF Context!Ends, Context!StepUnchanged

LEMMA CallKeeps ==
  ASSUME Context!ContextAssumption, ContextInv, NEW k \in Call, NEW isAgent \in BOOLEAN,
         Context!Call(k, isAgent)
  PROVE  ContextInv'
<1>1. StepTypes /\ ShownOK /\ CallsOK /\ AgentsOK /\ LoopOK
  BY DEF ContextInv
<1> DEFINE refused == isAgent /\ agents.active >= MaxSubAgents
           n == Len(reply)
           ended == IF refused THEN reply[n].ended \cup {k} ELSE reply[n].ended
           last == [reply[n] EXCEPT !.calls = @ \cup {k}, !.ended = ended]
<1>2. /\ phase = "streaming" /\ UNCHANGED <<phase, attempt, loop, steps>>
      /\ ~loop.stopped
      /\ k = <<turns, steps.done + 1, Cardinality(DOMAIN calls) + 1>> /\ Context!PassesOutput(k)
      /\ calls' = [c \in DOMAIN calls \cup {k} |->
                     IF c # k THEN calls[c] ELSE IF refused THEN "failed" ELSE "running"]
      /\ agents' = IF ~isAgent \/ refused THEN agents
                   ELSE [active |-> agents.active + 1, running |-> agents.running \cup {k}]
  BY SameCount DEF Context!Call, Context!StepUnchanged
<1>3. reply' = [reply EXCEPT ![n] = last]
  BY DEF Context!Call, Context!Here
<1>4. /\ Cardinality(DOMAIN calls) \in Nat /\ k \notin DOMAIN calls
      /\ IsFiniteSet(DOMAIN calls \cup {k})
      /\ Cardinality(DOMAIN calls \cup {k}) = Cardinality(DOMAIN calls) + 1
  <2>1. IsFiniteSet(DOMAIN calls)
    BY <1>1 DEF StepTypes
  <2>2. Cardinality(DOMAIN calls) \in Nat
    BY <2>1, FS_CardinalityType
  <2>3. k[3] = Cardinality(DOMAIN calls) + 1
    BY <1>2
  <2>4. k \notin DOMAIN calls
    BY <1>1, <1>2, <2>2, <2>3 DEF CallsOK
  <2> QED BY <2>1, <2>2, <2>4, FS_AddElement
<1>5. ~Shows(k) /\ k \in Chunk /\ k # Meta /\ k # Words /\ k # Problem
  BY <1>1, <1>4, ChunksDiffer DEF ShownOK, Chunk
<1>6. /\ shown' \in Seq(Entry) /\ \A i \in 1 .. Len(shown') : shown'[i][1] = attempt
      /\ ShownOnce' /\ \A x : x # Meta => (Shows(x)' <=> Shows(x) \/ x = k)
      /\ stream' \in [buffered : {<< >>, <<Meta>>}, emitted : BOOLEAN, ended : BOOLEAN]
      /\ stream'.emitted
  BY <1>2, <1>5, OutputPassed
<1>7. /\ reply' \in Seq(Part) /\ Len(reply') = Len(reply)
      /\ reply'[Len(reply')].text = reply[Len(reply)].text
  <2>1. reply \in Seq(Part) /\ n \in 1 .. Len(reply) /\ reply[n] \in Part
    BY <1>1, <1>2 DEF StepTypes, CallsOK
  <2>2. ended \in SUBSET Call
    BY <2>1 DEF Part
  <2> HIDE DEF ended
  <2>3. last \in Part /\ last.text = reply[n].text
    BY <2>1, <2>2 DEF Part
  <2> HIDE DEF last
  <2> QED BY <1>3, <2>1, <2>3
<1>8. /\ DOMAIN calls' = DOMAIN calls \cup {k} /\ calls' = [c \in DOMAIN calls' |-> calls'[c]]
      /\ \A c \in DOMAIN calls : calls'[c] = calls[c]
      /\ ~refused => calls'[k] = "running"
  BY <1>2, <1>4
<1>9. /\ agents' \in [active : Int, running : SUBSET Call] /\ IsFiniteSet(agents'.running)
      /\ agents'.active = Cardinality(agents'.running)
      /\ \A c \in agents'.running : c \in DOMAIN calls' /\ calls'[c] = "running"
  <2>1. CASE agents' = agents
    BY <1>1, <1>8, <2>1 DEF StepTypes, AgentsOK
  <2>2. CASE /\ ~refused
             /\ agents' = [active |-> agents.active + 1, running |-> agents.running \cup {k}]
    <3>1. k \notin agents.running /\ IsFiniteSet(agents.running) /\ agents.active \in Int
      BY <1>1, <1>4 DEF StepTypes, AgentsOK
    <3>2. /\ IsFiniteSet(agents.running \cup {k})
          /\ Cardinality(agents.running \cup {k}) = agents.active + 1
      BY <1>1, <3>1, FS_AddElement DEF AgentsOK
    <3>3. \A c \in agents.running \cup {k} : c \in DOMAIN calls' /\ calls'[c] = "running"
      BY <1>1, <1>8, <2>2 DEF AgentsOK
    <3> QED BY <1>1, <2>2, <3>1, <3>2, <3>3 DEF StepTypes
  <2> QED BY <1>2, <2>1, <2>2
<1> HIDE DEF refused, last
<1>10. StepTypes'
  BY <1>1, <1>2, <1>4, <1>6, <1>7, <1>8, <1>9 DEF StepTypes
<1>11. ShownOK'
  <2>1. \A c \in Call : Shows(c)' <=> c \in DOMAIN calls'
    BY <1>1, <1>6, <1>8, ChunksDiffer DEF ShownOK
  <2> QED BY <1>1, <1>2, <1>5, <1>6, <1>7, <2>1, ChunksDiffer DEF ShownOK
<1>12. CallsOK'
  <2>1. Cardinality(DOMAIN calls') = Cardinality(DOMAIN calls) + 1
    BY <1>4, <1>8
  <2>2. k[3] = Cardinality(DOMAIN calls) + 1
    BY <1>2
  <2>3. ASSUME NEW c \in DOMAIN calls PROVE c[3] <= Cardinality(DOMAIN calls) + 1
    <3>1. c[3] \in Nat /\ c[3] <= Cardinality(DOMAIN calls)
      BY <1>1, <1>2, NumberedCalls DEF CallsOK, StepTypes
    <3> QED BY <1>4, <3>1
  <2> QED BY <1>1, <1>2, <1>4, <1>7, <1>8, <2>1, <2>2, <2>3 DEF CallsOK
<1>13. AgentsOK'
  BY <1>2, <1>9 DEF AgentsOK
<1>14. LoopOK'
  BY <1>1, <1>2 DEF LoopOK, Below
<1> QED BY <1>10, <1>11, <1>12, <1>13, <1>14 DEF ContextInv

LEMMA ToolReturnsKeeps ==
  ASSUME Context!ContextAssumption, ContextInv, NEW k \in Call, Context!ToolReturns(k)
  PROVE  ContextInv'
<1>1. StepTypes /\ ShownOK /\ CallsOK /\ AgentsOK /\ LoopOK
  BY DEF ContextInv
<1> DEFINE n == Len(reply)
<1>2. PICK end \in {"done", "failed"}, size \in Outputs :
        /\ calls' = [calls EXCEPT ![k] = end]
        /\ reply' = [reply EXCEPT ![n].ended = @ \cup {k}, ![n].size = Context!Max({@, size})]
  BY DEF Context!ToolReturns, Context!Here
<1>3. /\ phase = "streaming" /\ k \in DOMAIN calls /\ calls[k] = "running"
      /\ UNCHANGED <<phase, attempt, stream, shown, loop, steps>>
      /\ agents' = IF k \in agents.running
                   THEN [active |-> agents.active - 1, running |-> agents.running \ {k}]
                   ELSE agents
  BY DEF Context!ToolReturns, Context!StepUnchanged
<1>4. /\ reply' \in Seq(Part) /\ Len(reply') = n /\ reply'[n].text = reply[n].text /\ n > 0
  <2> DEFINE larger == Context!Max({reply[n].size, size})
             last == [reply[n] EXCEPT !.ended = @ \cup {k}, !.size = larger]
  <2>1. reply \in Seq(Part) /\ n \in 1 .. Len(reply) /\ reply[n] \in Part
    BY <1>1, <1>3 DEF StepTypes, CallsOK
  <2>2. larger \in Nat
    <3>1. size \in Nat /\ reply[n].size \in Nat
      BY <2>1 DEF Part, Context!ContextAssumption
    <3> QED BY <3>1, LargerOne
  <2>3. reply' = [reply EXCEPT ![n] = last]
    BY <1>2, <2>1 DEF Part
  <2> HIDE DEF larger
  <2>4. last \in Part /\ last.text = reply[n].text
    BY <2>1, <2>2 DEF Part
  <2> HIDE DEF last
  <2> QED BY <2>1, <2>3, <2>4
<1>5. /\ DOMAIN calls' = DOMAIN calls /\ calls' = [c \in DOMAIN calls' |-> calls'[c]]
      /\ \A c \in DOMAIN calls \ {k} : calls'[c] = calls[c]
  BY <1>1, <1>2 DEF StepTypes
<1>6. /\ agents' \in [active : Int, running : SUBSET Call] /\ IsFiniteSet(agents'.running)
      /\ agents'.active = Cardinality(agents'.running)
      /\ \A c \in agents'.running : c \in DOMAIN calls' /\ calls'[c] = "running"
  <2>1. CASE k \notin agents.running
    BY <1>1, <1>3, <1>5, <2>1 DEF StepTypes, AgentsOK
  <2>2. CASE k \in agents.running
    <3>1. /\ IsFiniteSet(agents.running \ {k})
          /\ Cardinality(agents.running \ {k}) = agents.active - 1
      BY <1>1, <2>2, FS_RemoveElement DEF StepTypes, AgentsOK
    <3>2. agents' = [active |-> agents.active - 1, running |-> agents.running \ {k}]
      BY <1>3, <2>2
    <3> QED BY <1>1, <1>5, <3>1, <3>2 DEF StepTypes, AgentsOK
  <2> QED BY <2>1, <2>2
<1>7. StepTypes'
  BY <1>1, <1>3, <1>4, <1>5, <1>6 DEF StepTypes
<1>8. ShownOK'
  BY <1>1, <1>3, <1>4, <1>5 DEF ShownOK, ShownOnce, Shows
<1>9. CallsOK'
  BY <1>1, <1>3, <1>4, <1>5 DEF CallsOK
<1>10. AgentsOK'
  BY <1>3, <1>6 DEF AgentsOK
<1>11. LoopOK'
  <2>1. ~loop.stopped
    BY <1>1, <1>3 DEF LoopOK
  <2> QED BY <1>1, <1>3, <2>1 DEF LoopOK, Below
<1> QED BY <1>7, <1>8, <1>9, <1>10, <1>11 DEF ContextInv

LEMMA StepEndsKeeps ==
  ASSUME Context!ContextAssumption, ContextInv, Context!StepEnds
  PROVE  ContextInv'
<1>1. StepTypes /\ ShownOK /\ CallsOK /\ AgentsOK /\ LoopOK
  BY DEF ContextInv
<1>2. /\ phase = "streaming" /\ \A k \in DOMAIN calls : calls[k] # "running"
      /\ UNCHANGED <<attempt, stream, shown, calls, agents, reply>>
      /\ phase' \in {"done", "ready"} /\ (calls = << >> => phase' = "done")
      /\ steps'.done = steps.done + 1
  BY DEF Context!StepEnds
<1> DEFINE Limited == /\ loop' \in [fails : Nat, same : Nat, stopped : BOOLEAN]
                      /\ Below(FailureLimit, ResultLimit)'
                      /\ phase' = "ready" => ~loop'.stopped
<1>3. Limited
  <2>1. CASE calls = << >> /\ loop' = loop
    BY <1>1, <1>2, <2>1 DEF StepTypes, LoopOK, Below
  <2>2. ASSUME calls # << >>, NEW fails \in {0, loop.fails + 1, 1},
               NEW same \in {loop.same + 1, 1},
               loop' = [loop EXCEPT !.fails = fails, !.same = same]
        PROVE  Limited
    <3>1. ~loop.stopped /\ Below(FailureLimit - 1, ResultLimit - 1)
      BY <1>1, <1>2, <2>2 DEF LoopOK
    <3>2. /\ FailureLimit \in Nat \ {0, 1} /\ ResultLimit \in Nat \ {0, 1}
          /\ loop.fails \in Nat /\ loop.same \in Nat
      BY <1>1, LimitsAre DEF StepTypes
    <3>3. fails \in Nat /\ fails <= FailureLimit /\ same \in Nat /\ same <= ResultLimit
      BY <3>1, <3>2 DEF Below
    <3> QED BY <1>1, <2>2, <3>1, <3>3 DEF StepTypes, Below
  <2>3. CASE calls # << >>
    <3>1. PICK repeated \in BOOLEAN, alike \in BOOLEAN :
            loop' = [loop EXCEPT
              !.fails = IF "failed" \notin Context!Range(calls) THEN 0
                        ELSE IF repeated THEN @ + 1 ELSE 1,
              !.same = IF repeated /\ alike THEN @ + 1 ELSE 1]
      BY <2>3 DEF Context!StepEnds
    <3>2. PICK fails \in {0, loop.fails + 1, 1}, same \in {loop.same + 1, 1} :
            loop' = [loop EXCEPT !.fails = fails, !.same = same]
      BY <1>1, <3>1 DEF StepTypes
    <3> QED BY <2>2, <2>3, <3>2
  <2> QED BY <2>1, <2>3 DEF Context!StepEnds
<1> HIDE DEF Limited
<1>4. StepTypes'
  BY <1>1, <1>2, <1>3 DEF StepTypes, Limited
<1>5. ShownOK'
  BY <1>1, <1>2 DEF ShownOK, ShownOnce, Shows
<1>6. CallsOK'
  BY <1>2 DEF CallsOK
<1>7. AgentsOK'
  <2>1. agents.running = {}
    BY <1>1, <1>2 DEF AgentsOK
  <2> QED BY <1>1, <1>2, <2>1 DEF AgentsOK
<1>8. LoopOK'
  BY <1>2, <1>3 DEF LoopOK, Limited
<1> QED BY <1>4, <1>5, <1>6, <1>7, <1>8 DEF ContextInv

LEMMA NextTurnKeeps ==
  ASSUME Context!ContextAssumption, ContextInv, Context!NextTurn
  PROVE  ContextInv'
<1>1. StepTypes
  BY DEF ContextInv
<1>2. /\ phase' = "ready" /\ attempt' = 0 /\ stream' = Context!NoStream /\ shown' = << >>
      /\ calls' = << >> /\ agents' = [active |-> 0, running |-> {}]
      /\ loop' = [fails |-> 0, same |-> 0, stopped |-> FALSE]
      /\ steps' = [done |-> 0, input |-> 0] /\ reply' = << >>
  BY DEF Context!NextTurn
<1>3. DOMAIN calls' = {} /\ Len(shown') = 0
  BY <1>2
<1>4. StepTypes'
  <2>1. stream' \in [buffered : {<< >>, <<Meta>>}, emitted : BOOLEAN, ended : BOOLEAN]
    BY <1>2 DEF Context!NoStream
  <2>2. calls' = [k \in DOMAIN calls' |-> calls'[k]]
    BY <1>2
  <2> QED BY <1>2, <1>3, <2>1, <2>2, FS_EmptySet DEF StepTypes
<1>5. ShownOK'
  BY <1>2, <1>3 DEF ShownOK, ShownOnce, Shows
<1>6. CallsOK' /\ AgentsOK'
  BY <1>2, FS_EmptySet DEF CallsOK, AgentsOK
<1>7. LoopOK'
  BY <1>2, LimitsAre DEF LoopOK, Below
<1> QED BY <1>4, <1>5, <1>6, <1>7 DEF ContextInv

LEMMA ContextStarts ==
  ASSUME Context!ContextAssumption, Context!Init PROVE ContextInv
<1>1. /\ phase = "ready" /\ attempt = 0 /\ stream = Context!NoStream /\ shown = << >>
      /\ calls = << >> /\ agents = [active |-> 0, running |-> {}]
      /\ loop = [fails |-> 0, same |-> 0, stopped |-> FALSE]
      /\ steps = [done |-> 0, input |-> 0] /\ reply = << >>
  BY DEF Context!Init
<1>2. DOMAIN calls = {} /\ Len(shown) = 0
  BY <1>1
<1>3. StepTypes
  <2>1. stream \in [buffered : {<< >>, <<Meta>>}, emitted : BOOLEAN, ended : BOOLEAN]
    BY <1>1 DEF Context!NoStream
  <2>2. calls = [k \in DOMAIN calls |-> calls[k]]
    BY <1>1
  <2> QED BY <1>1, <1>2, <2>1, <2>2, FS_EmptySet DEF StepTypes
<1>4. ShownOK
  BY <1>1, <1>2 DEF ShownOK, ShownOnce, Shows
<1>5. CallsOK /\ AgentsOK
  BY <1>1, FS_EmptySet DEF CallsOK, AgentsOK
<1>6. LoopOK
  BY <1>1, LimitsAre DEF LoopOK, Below
<1> QED BY <1>3, <1>4, <1>5, <1>6 DEF ContextInv

LEMMA ContextSteps ==
  ASSUME Context!ContextAssumption, ContextInv, [Context!Next]_(Context!vars)
  PROVE  ContextInv'
<1>1. CASE Context!PrepareStep
  BY <1>1, PrepareKeeps
<1>2. CASE Context!Request
  BY <1>2, RequestKeeps
<1>3. CASE Context!Metadata
  BY <1>3, MetadataKeeps
<1>4. CASE Context!Text
  BY <1>4, TextKeeps
<1>5. ASSUME NEW k \in Context!Calls, NEW isAgent \in BOOLEAN, Context!Call(k, isAgent)
      PROVE  ContextInv'
  BY <1>5, CallKeeps DEF Call
<1>6. ASSUME NEW k \in Context!Calls, Context!ToolReturns(k) PROVE ContextInv'
  BY <1>6, ToolReturnsKeeps DEF Call
<1>7. CASE Context!Overflow
  BY <1>7, OverflowKeeps
<1>8. CASE Context!Breaks
  BY <1>8, BreaksKeeps
<1>9. CASE Context!Ends
  BY <1>9, EndsKeeps
<1>10. CASE Context!StepEnds
  BY <1>10, StepEndsKeeps
<1>11. CASE Context!Stop
  BY <1>11, StopKeeps
<1>12. CASE Context!NextTurn
  BY <1>12, NextTurnKeeps
<1>13. CASE UNCHANGED Context!vars
  BY <1>13
  DEF Context!vars, ContextInv, StepTypes, ShownOK, ShownOnce, Shows, CallsOK, AgentsOK,
      LoopOK, Below
<1> QED BY <1>1, <1>2, <1>3, <1>4, <1>5, <1>6, <1>7, <1>8, <1>9, <1>10, <1>11, <1>12, <1>13
  DEF Context!Next

LEMMA OneAttempt == ASSUME ContextInv PROVE Context!OneAttemptIsShown
<1>1. StepTypes /\ ShownOK /\ DOMAIN shown = 1 .. Len(shown)
  BY DEF ContextInv, StepTypes
<1>2. \A i, j \in DOMAIN shown : shown[i][1] = shown[j][1]
  BY <1>1 DEF ShownOK
<1>3. \A i, j \in DOMAIN shown : shown[i][2] = shown[j][2] /\ shown[i][2] # <<"meta">> => i = j
  BY <1>1 DEF ShownOK, ShownOnce, Meta
<1>4. \A k \in DOMAIN calls : <<attempt, k>> \in Context!ToSet(shown)
  <2> SUFFICES ASSUME NEW k \in DOMAIN calls PROVE <<attempt, k>> \in Context!ToSet(shown)
    OBVIOUS
  <2>1. PICK i \in 1 .. Len(shown) : shown[i][2] = k
    BY <1>1 DEF ShownOK, Shows, StepTypes
  <2>2. shown[i] \in Entry /\ shown[i][1] = attempt
    BY <1>1 DEF ShownOK, StepTypes
  <2>3. shown[i] = <<attempt, k>>
    BY <2>1, <2>2 DEF Entry
  <2> QED BY <1>1, <2>3 DEF Context!ToSet
<1> QED BY <1>2, <1>3, <1>4 DEF Context!OneAttemptIsShown

LEMMA LoopsStop == ASSUME ContextInv PROVE Context!LoopsAreStopped
<1>1. StepTypes /\ AgentsOK /\ LoopOK
  BY DEF ContextInv
<1>2. agents.running \subseteq {k \in DOMAIN calls : calls[k] = "running"}
  BY <1>1 DEF AgentsOK
<1> QED BY <1>1, <1>2, SameCount DEF AgentsOK, LoopOK, Below, Context!LoopsAreStopped

\* Whatever the provider refuses, breaks off or repeats, what a step shows is of one
\* attempt and shown once, and no tool runs for another one; a loop of tools that gets
\* nowhere ends, and the agents that are counted are those at work
\* (agent-context-compaction.ts, step-controller.ts, sub-agent.ts).
THEOREM StepsAreSoundHolds ==
  ASSUME Context!ContextAssumption
  PROVE  Context!Spec => [](Context!OneAttemptIsShown /\ Context!LoopsAreStopped)
<1>1. Context!Init => ContextInv
  BY ContextStarts
<1>2. ContextInv /\ [Context!Next]_(Context!vars) => ContextInv'
  BY ContextSteps
<1>3. ContextInv => Context!OneAttemptIsShown /\ Context!LoopsAreStopped
  BY OneAttempt, LoopsStop
<1> QED BY <1>1, <1>2, <1>3, PTL DEF Context!Spec
=============================================================================
