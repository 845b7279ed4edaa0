--------------------------- MODULE AssistantParts ---------------------------
(***************************************************************************)
(* The parts of one assistant message (packages/backend/convex/messages.ts):*)
(* short ones are kept in the row, long ones in an R2 object named by their *)
(* hash, which the row refers to.  A save stores the object, patches the    *)
(* row and deletes the object the row had, or its own when the patch        *)
(* answered with an error, whether or not it took effect.  A client reads   *)
(* the row by its query and the object by an action, and keeps the result   *)
(* under the name of the object ($threadId.tsx, useThreadData.ts).          *)
(*                                                                          *)
(* R2 and its metadata table are external.                                  *)
(***************************************************************************)
EXTENDS Naturals, FiniteSets

CONSTANTS
  Long, Short,   \* the contents of the saves: each names its own hash
  Saves, Reads,  \* saves of the message; requests of a client
  None,
  Unavailable, Failed,  \* one text: the object is gone, or could not be fetched
  MaxFaults      \* bound: calls that fail and processes that die

VARIABLES
  row,      \* what the message holds: a content, None before, or "removed"
  objects,  \* the objects in R2
  save,     \* the local state of each save
  seen,     \* the row as the client's query has it
  read,     \* the requests of the client
  cache,    \* what the client keeps under the name of an object
  risked,   \* history: contents of crossing saves, and of patches that took effect
            \* and answered with an error
  faults

vars == <<row, objects, save, seen, read, cache, risked, faults>>
Contents == Long \cup Short
Client == <<seen, read, cache>>

TypeOK ==
  /\ row \in Contents \cup {None, "removed"} /\ seen \in Contents \cup {None, "removed"}
  /\ objects \subseteq Long /\ risked \subseteq Contents /\ faults \in 0 .. MaxFaults
  /\ \A s \in Saves :
       /\ save[s].pc \in {"new", "store", "patch", "drop", "undo", "done", "dead"}
       /\ save[s].content \in Contents \cup {None} /\ save[s].stored \in BOOLEAN
       /\ save[s].previous \in Contents \cup {None}
  /\ \A r \in Reads : /\ read[r].pc \in {"idle", "query", "fetch", "answer"}
                      /\ read[r].name \in Long \cup {None}
                      /\ read[r].parts \in Long \cup {Unavailable, Failed}
  /\ cache \in [Long -> Long \cup {None, Unavailable, Failed}]

Init ==
  /\ row = None /\ objects = {} /\ seen = None /\ risked = {} /\ faults = 0
  /\ save = [s \in Saves |-> [pc |-> "new", content |-> None, stored |-> FALSE, previous |-> None]]
  /\ read = [r \in Reads |-> [pc |-> "idle", name |-> None, parts |-> Unavailable]]
  /\ cache = [c \in Long |-> None]

-----------------------------------------------------------------------------
(* persistAssistantParts. *)

At(s, pc) == save[s].pc = pc
Goes(s, pc) == save' = [save EXCEPT ![s].pc = pc]
Fault == faults < MaxFaults /\ faults' = faults + 1

\* Saves of one content share its object.  A save crosses when it has a content of
\* another save, before it or beside it, and is under way with any other save.
Active(w) == w.pc \in {"store", "patch", "drop", "undo"}
Repeats(all, s) == \E t \in Saves \ {s} : all[t].content = all[s].content
Crosses(all, s) == /\ Active(all[s]) /\ Repeats(all, s)
                   /\ \E t \in Saves \ {s} : Active(all[t])
\* The run's grant or the owner is checked first.
Begin(s, c) ==
  /\ At(s, "new") /\ row # "removed"
  /\ save' = [save EXCEPT ![s].pc = IF c \in Long THEN "store" ELSE "patch", ![s].content = c]
  /\ risked' = risked \cup {save'[t].content : t \in {u \in Saves : Crosses(save', u)}}
  /\ UNCHANGED <<row, objects, Client, faults>>
StoreReplaces(s) ==  \* mutant: the old object goes as the new one is stored
  /\ At(s, "store") /\ objects' = (objects \ {row}) \cup {save[s].content}
  /\ save' = [save EXCEPT ![s].pc = "patch", ![s].stored = save[s].content \notin objects]
  /\ UNCHANGED <<row, Client, risked, faults>>
\* An object that is there already is taken as it is.
Store(s) ==
  /\ At(s, "store")
  /\ \/ /\ objects' = objects \cup {save[s].content}
        /\ save' = [save EXCEPT ![s].pc = "patch", ![s].stored = save[s].content \notin objects]
        /\ UNCHANGED faults
     \/ Fault /\ Goes(s, "done") /\ objects' \in {objects, objects \cup {save[s].content}}
  /\ UNCHANGED <<row, Client, risked>>

Undoes(s) == IF save[s].stored THEN "undo" ELSE "done"
\* patchAssistantInternal or completeAgentSessionTurnInternal, which a removed
\* message or a grant that is gone refuses; an error may also be the answer to a patch
\* that took effect.
Patch(s) ==
  /\ At(s, "patch")
  /\ \/ /\ row # "removed" /\ row' = save[s].content
        /\ save' = [save EXCEPT ![s].pc = "drop", ![s].previous = row]
        /\ UNCHANGED <<risked, faults>>
     \/ row = "removed" /\ Goes(s, Undoes(s)) /\ UNCHANGED <<row, risked, faults>>
     \/ Fault /\ Goes(s, Undoes(s)) /\ UNCHANGED <<row, risked>>
     \/ /\ row # "removed" /\ row' = save[s].content /\ Fault /\ Goes(s, Undoes(s))
        /\ risked' = IF save[s].stored THEN risked \cup {save[s].content} ELSE risked
  /\ UNCHANGED <<objects, Client>>
\* deleteAssistantPartsBlobKeysBestEffort
Drop(s) ==
  /\ At(s, "drop") /\ Goes(s, "done")
  /\ \/ /\ objects' = objects \ ({save[s].previous} \ {save[s].content}) /\ UNCHANGED faults
     \/ Fault /\ UNCHANGED objects
  /\ UNCHANGED <<row, Client, risked>>
Undo(s) ==
  /\ At(s, "undo") /\ Goes(s, "done")
  /\ \/ objects' = objects \ {save[s].content} /\ UNCHANGED faults
     \/ Fault /\ UNCHANGED objects
  /\ UNCHANGED <<row, Client, risked>>
Dies(s) ==
  /\ save[s].pc \in {"store", "patch", "drop", "undo"} /\ Fault
  /\ Goes(s, "dead")
  /\ UNCHANGED <<row, objects, Client, risked>>

\* removeInternal of the thread or the project: the object goes with the row.
Remove ==
  /\ row # "removed" /\ row' = "removed"
  /\ objects' = objects \ {row}
  /\ UNCHANGED <<save, Client, risked, faults>>

-----------------------------------------------------------------------------
(* The client, and hydrateAssistantParts. *)

RowArrives ==
  /\ seen # row /\ seen' = row
  /\ UNCHANGED <<row, objects, save, read, cache, risked, faults>>
Missing(c) == c \in Long /\ cache[c] = None
\* The effect asks for what is missing; what an older effect asked for is
\* cancelled.
Ask(r) ==
  /\ read[r].pc = "idle" /\ Missing(seen)
  /\ read' = [q \in Reads |->
       IF q = r THEN [pc |-> "query", name |-> seen, parts |-> Unavailable]
       ELSE IF read[q].name = seen THEN read[q] ELSE [read[q] EXCEPT !.name = None]]
  /\ UNCHANGED <<row, objects, save, seen, cache, risked, faults>>
\* listAssistantBlobMessagesForHydrationInternal: only a message that still has
\* the object asked for.
Query(r) ==
  /\ read[r].pc = "query"
  /\ read' = IF row = read[r].name THEN [read EXCEPT ![r].pc = "fetch", ![r].parts = row]
             ELSE [read EXCEPT ![r].pc = "answer"]
  /\ UNCHANGED <<row, objects, save, seen, cache, risked, faults>>
Fetched(r, parts) == read' = [read EXCEPT ![r].pc = "answer", ![r].parts = parts]
\* readAssistantPartsForMessage: whatever goes wrong is answered as parts that
\* are unavailable.
Fetch(r) ==
  /\ read[r].pc = "fetch"
  /\ \/ /\ Fetched(r, IF read[r].parts \in objects THEN read[r].parts ELSE Unavailable)
        /\ UNCHANGED faults
     \/ Fault /\ Fetched(r, Failed)
  /\ UNCHANGED <<row, objects, save, seen, cache, risked>>
Answer(r) ==
  /\ read[r].pc = "answer"
  /\ cache' = IF read[r].name = None THEN cache ELSE [cache EXCEPT ![read[r].name] = read[r].parts]
  /\ read' = [read EXCEPT ![r] = [pc |-> "idle", name |-> None, parts |-> Unavailable]]
  /\ UNCHANGED <<row, objects, save, seen, risked, faults>>

-----------------------------------------------------------------------------
Save(s) == Store(s) \/ Patch(s) \/ Drop(s) \/ Undo(s) \/ Dies(s)
Next ==
  \/ \E s \in Saves : (\E c \in Contents : Begin(s, c)) \/ Save(s)
  \/ Remove \/ RowArrives
  \/ \E r \in Reads : Ask(r) \/ Query(r) \/ Fetch(r) \/ Answer(r)
Spec == Init /\ [][Next]_vars

-----------------------------------------------------------------------------
\* The object a row refers to exists, whatever saves, removals and reads overlap and
\* whatever fails (messages.ts:1046), unless a patch took effect and answered with
\* an error, after which the save deletes the object the row now refers to, or a save
\* of a content that was saved before crossed another one.  A client that has the row
\* shows its parts or is still to load them; only a fetch that failed is kept in
\* their place, or, for a content saved twice, that its object was gone in between.
ReplyIsReadable ==
  /\ row \in Long => row \in objects \cup risked
  /\ seen = row /\ row \in Long =>
       \/ cache[row] \in {None, row, Failed} \/ row \in risked
       \/ \E s \in Saves : save[s].content = row /\ Repeats(save, s)

\* Without a failure no object outlives its use: it is the row's, or a save under
\* way will refer to it or delete it.
NoObjectIsLeft ==
  faults = 0 =>
    \A o \in objects : \/ o = row
                       \/ \E s \in Saves :
                            \/ save[s].pc = "drop" /\ save[s].previous = o /\ save[s].content # o
                            \/ /\ save[s].pc \in {"patch", "undo"} /\ save[s].stored
                               /\ save[s].content = o
=============================================================================
