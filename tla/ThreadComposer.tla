--------------------------- MODULE ThreadComposer ---------------------------
(***************************************************************************)
(* The composer of a thread in the web app (thread-chat.tsx with the prompt  *)
(* input of ai-elements), for a thread whose runs are tasks: a message waits *)
(* for the stop, the demo setting and the images it depends on before it is *)
(* posted, and the route takes it unless a run is live.                     *)
(*                                                                          *)
(* A run is named by the message it answers, or is one of Others. The route *)
(* and the stop route answer in one step each (AgentRun has their steps),   *)
(* and what the reply says is left out.                                     *)
(***************************************************************************)
EXTENDS Naturals

CONSTANTS
  Messages,
  Images,        \* the messages that have an image
  Others,        \* runs that other clients start
  None,
  MaxToggles,    \* bound: changes of the demo setting
  MaxFaults      \* bound: requests that fail

VARIABLES
  message,  \* per message: its step, the demo setting it was sent with and the
            \* one its run was given, the run whose stop it waits for, the runs
            \* whose stop had been asked for when it was submitted and did not
            \* fail, and the run it was refused for
  upload,   \* the upload of each message's image
  page,     \* what the page holds, see TypeOK
  server,   \* the thread's live run and its demo setting
  seen,     \* currentRunId, as the page last received it
  stop,     \* the request to stop each run
  toggles, faults

vars == <<message, upload, page, server, seen, stop, toggles, faults>>

Runs == Messages \cup Others
Steps == {"draft", "converting", "awaitStop", "awaitDemo", "images", "posting",
          "left", "accepted", "sent", "refused", "dropped"}

TypeOK ==
  /\ message \in [Messages -> [step : Steps, demo : BOOLEAN \cup {None}, given : BOOLEAN \cup {None},
                               waits : Runs \cup {None},
                               stopped : SUBSET Runs, by : Runs \cup {None}]]
  /\ upload \in [Images -> {"uploading", "uploaded", "error"}]
  /\ page \in [status : {"ready", "submitted", "streaming", "error"},
               active      : Runs \cup {None},     \* activeRunIdRef
               resumed     : SUBSET Runs,          \* resumedRunIdsRef
               pendingStop : Runs \cup {None},     \* pendingStopRef
               choice      : BOOLEAN \cup {None},  \* pendingDemoEnabled
               saving      : BOOLEAN]              \* pendingDemoSaveRef
  /\ server \in [run : Runs \cup {None}, demo : BOOLEAN, had : SUBSET Runs]
  /\ seen \in Runs \cup {None}
  /\ stop \in [Runs -> {"none", "asked", "done", "failed"}]
  /\ toggles \in 0 .. MaxToggles /\ faults \in 0 .. MaxFaults

Init ==
  /\ message = [m \in Messages |-> [step |-> "draft", demo |-> None, given |-> None,
                 waits |-> None, stopped |-> {}, by |-> None]]
  /\ upload = [m \in Images |-> "uploading"]
  /\ page = [status |-> "ready", active |-> None, resumed |-> {}, pendingStop |-> None,
             choice |-> None, saving |-> FALSE]
  /\ server = [run |-> None, demo |-> FALSE, had |-> {}] /\ seen = None
  /\ stop = [r \in Runs |-> "none"] /\ toggles = 0 /\ faults = 0

At(m, step) == message[m].step = step
Goes(m, step) == message' = [message EXCEPT ![m].step = step]
Fault == faults < MaxFaults /\ faults' = faults + 1
Ready == page.status = "ready" /\ seen = None
Busy == page.status \in {"submitted", "streaming"}
Shown == IF page.choice = None THEN server.demo ELSE page.choice
\* Every render takes the run of the thread's row, when it shows one.
Rendered(p, run) == IF run = None THEN p ELSE [p EXCEPT !.active = run]

-----------------------------------------------------------------------------
(* A message on its way.  The closure that submits it has read the status    *)
(* when the user pressed Enter, when the composer was ready.                 *)

\* The upload that began when the image was attached to the draft.
UploadEnds(m) ==
  /\ upload[m] = "uploading"
  /\ \/ upload' = [upload EXCEPT ![m] = "uploaded"] /\ UNCHANGED faults
     \/ upload' = [upload EXCEPT ![m] = "error"] /\ Fault
  /\ UNCHANGED <<message, page, server, seen, stop, toggles>>

\* Enter: the images are converted before onSubmit runs.
Submit(m) ==
  /\ At(m, "draft") /\ Ready
  /\ message' = [message EXCEPT ![m].step = "converting",
                                ![m].stopped = {r \in Runs : stop[r] \in {"asked", "done"}}]
  /\ UNCHANGED <<upload, page, server, seen, stop, toggles, faults>>

\* After the waits: the images are resolved, then the message is sent.
OnceDecided(l) == [l EXCEPT !.step = "images", !.demo = Shown]
OnceStopped(l) == IF page.saving THEN [l EXCEPT !.step = "awaitDemo"] ELSE OnceDecided(l)
AwaitNoStop(m) ==  \* mutant: the stop under way is not awaited
  /\ At(m, "converting")
  /\ message' = [message EXCEPT ![m] = OnceStopped(@)]
  /\ UNCHANGED <<upload, page, server, seen, stop, toggles, faults>>
\* submitMessage
SubmitMessage(m) ==
  /\ At(m, "converting")
  /\ message' = [message EXCEPT ![m] =
       IF page.pendingStop # None
       THEN [@ EXCEPT !.step = "awaitStop", !.waits = page.pendingStop]
       ELSE OnceStopped(@)]
  /\ UNCHANGED <<upload, page, server, seen, stop, toggles, faults>>

\* resolveMessageImages and sendMessage; an image that was not uploaded loses
\* the message, whose draft is already cleared.
ImagesResolved(m) == m \in Images => upload[m] = "uploaded"
SendMessage(m) ==
  /\ At(m, "images")
  /\ \/ /\ ImagesResolved(m)
        /\ Goes(m, "posting")
        /\ page' = Rendered([page EXCEPT !.status = "submitted"], seen)
     \/ m \in Images /\ upload[m] = "error" /\ Goes(m, "dropped") /\ UNCHANGED page
  /\ UNCHANGED <<upload, server, seen, stop, toggles, faults>>

\* The route: a message is refused while a run is live.
Post(m) ==
  /\ message[m].step \in {"posting", "left"}
  /\ \/ /\ server.run = None
        /\ message' = [message EXCEPT ![m].step = IF @ = "left" THEN "sent" ELSE "accepted",
                                      ![m].given = server.demo]
        /\ server' = [server EXCEPT !.run = m, !.had = @ \cup {m}]
        /\ UNCHANGED page
     \/ /\ server.run # None
        /\ message' = [message EXCEPT ![m].step = "refused", ![m].by = server.run]
        /\ page' = IF At(m, "left") THEN page
                   ELSE Rendered([page EXCEPT !.status = "error"], seen)
        /\ UNCHANGED server
  /\ UNCHANGED <<upload, seen, stop, toggles, faults>>

\* handleChatSendMessage: the answer names the run.
Answered(m) ==
  /\ At(m, "accepted") /\ Goes(m, "sent")
  /\ page' = Rendered([page EXCEPT !.status = "streaming", !.active = m,
                                   !.resumed = @ \cup {m}], seen)
  /\ UNCHANGED <<upload, server, seen, stop, toggles, faults>>

-----------------------------------------------------------------------------
(* Runs, as the page follows them. *)

OtherPosts ==
  /\ server.run = None
  /\ \E r \in Others \ server.had :
       server' = [server EXCEPT !.run = r, !.had = @ \cup {r}]
  /\ UNCHANGED <<message, upload, page, seen, stop, toggles, faults>>

RunEnds ==
  /\ server.run # None /\ server' = [server EXCEPT !.run = None]
  /\ UNCHANGED <<message, upload, page, seen, stop, toggles, faults>>

RowArrives ==
  /\ seen # server.run /\ seen' = server.run
  /\ page' = Rendered(page, server.run)
  /\ UNCHANGED <<message, upload, server, stop, toggles, faults>>

\* A run the page did not start is attached to, once, unless its reply is shown.
Resume ==
  /\ page.status = "ready" /\ seen \notin page.resumed \cup {None}
  /\ \E status \in {"ready", "streaming"} :
       page' = [page EXCEPT !.status = status, !.resumed = @ \cup {seen}]
  /\ UNCHANGED <<message, upload, server, seen, stop, toggles, faults>>

\* handleChatEnd
StreamEnds ==
  /\ page.status = "streaming" /\ server.run # page.active
  /\ page' = Rendered([page EXCEPT !.status = "ready", !.active = None], seen)
  /\ UNCHANGED <<message, upload, server, seen, stop, toggles, faults>>

\* stopGeneration: a run whose id is not known yet cannot be asked to stop.
StopGeneration ==
  LET r == page.active
  IN /\ Busy
     /\ message' = [m \in Messages |->
          [message[m] EXCEPT !.step = CASE @ = "posting" -> "left" [] @ = "accepted" -> "sent"
                                        [] OTHER -> @]]
     /\ page' = Rendered([page EXCEPT !.status = "ready", !.active = None,
                            !.pendingStop = IF r = None THEN @ ELSE r], seen)
     /\ stop' = IF r = None THEN stop ELSE [stop EXCEPT ![r] = "asked"]
     /\ UNCHANGED <<upload, server, seen, faults, toggles>>

\* Whoever awaited the stop of a run goes on, whatever came of it.
After(m, r) ==
  IF At(m, "awaitStop") /\ message[m].waits = r THEN OnceStopped(message[m])
  ELSE message[m]

\* The stop route cancels the run and answers; or it fails, before or after that.
StopAnswered(r) ==
  /\ stop[r] = "asked"
  /\ server' = IF server.run = r THEN [server EXCEPT !.run = None] ELSE server
  /\ stop' = [stop EXCEPT ![r] = "done"]
  /\ page' = [page EXCEPT !.pendingStop = IF @ = r THEN None ELSE @]
  /\ message' = [m \in Messages |-> After(m, r)]
  /\ UNCHANGED <<upload, seen, faults, toggles>>

StopFails(r) ==
  /\ stop[r] = "asked" /\ stop' = [stop EXCEPT ![r] = "failed"] /\ Fault
  /\ \/ UNCHANGED server
     \/ server.run = r /\ server' = [server EXCEPT !.run = None]
  /\ page' = [page EXCEPT !.pendingStop = IF @ = r THEN None ELSE @]
  /\ message' = [m \in Messages |->
       [After(m, r) EXCEPT !.stopped = @ \ {r}]]
  /\ UNCHANGED <<upload, seen, toggles>>

-----------------------------------------------------------------------------
(* The demo setting. *)

\* toggleDemoEnabled: the switch is disabled while a save is under way. A message
\* that is past its wait when the user changes the setting may have either.
ToggleDemo ==
  /\ ~page.saving /\ toggles < MaxToggles /\ toggles' = toggles + 1
  /\ page' = [page EXCEPT !.choice = ~Shown, !.saving = TRUE]
  /\ message' = [m \in Messages |->
       [message[m] EXCEPT !.demo = IF message[m].given = None THEN None ELSE @]]
  /\ UNCHANGED <<upload, server, seen, stop, faults>>

\* The save is answered: whoever awaited it goes on, or gives up when it failed.
DemoSaved ==
  /\ page.saving
  /\ server' = [server EXCEPT !.demo = page.choice]
  /\ page' = [page EXCEPT !.saving = FALSE]
  /\ message' = [m \in Messages |->
       IF At(m, "awaitDemo") THEN OnceDecided(message[m]) ELSE message[m]]
  /\ UNCHANGED <<upload, seen, stop, toggles, faults>>

DemoNotSaved ==
  /\ page.saving /\ Fault
  /\ page' = [page EXCEPT !.saving = FALSE, !.choice = None]
  /\ message' = [m \in Messages |->
       IF At(m, "awaitDemo") THEN [message[m] EXCEPT !.step = "dropped"] ELSE message[m]]
  /\ UNCHANGED <<upload, server, seen, stop, toggles>>

-----------------------------------------------------------------------------
Next ==
  \/ \E m \in Messages :
       \/ Submit(m) \/ SubmitMessage(m)
       \/ SendMessage(m) \/ Post(m) \/ Answered(m)
  \/ \E m \in Images : UploadEnds(m)
  \/ OtherPosts \/ RunEnds \/ RowArrives \/ Resume \/ StreamEnds
  \/ StopGeneration
  \/ \E r \in Runs : StopAnswered(r) \/ StopFails(r)
  \/ ToggleDemo \/ DemoSaved \/ DemoNotSaved

Spec == Init /\ [][Next]_vars

-----------------------------------------------------------------------------
\* A run records a demo exactly when the composer said so as its message was
\* sent, unless the setting was changed after that.
SentAsShown ==
  \A m \in Messages :
    message[m].given = None \/ message[m].demo = None \/ message[m].given = message[m].demo

\* A message is not refused on account of a run the user had stopped before
\* submitting it, unless the request to stop failed.
StopComesFirst == \A m \in Messages : message[m].by \notin message[m].stopped
=============================================================================
