---------------------------- MODULE RecordingUpload ----------------------------
(***************************************************************************)
(* The upload of a recording to R2: the action that a client may call again *)
(* at any time (recordingArtifactActions.ts) and the row of the recording   *)
(* (recordingArtifacts.ts), whose uploadAttemptId says whose result counts. *)
(*                                                                          *)
(* The sandbox and R2 are external; an object that exists is not stored     *)
(* again.                                                                   *)
(***************************************************************************)
EXTENDS Naturals

CONSTANTS
  Attempts, None,
  MaxFaults   \* bound: reads, stores and mutations that fail, actions that die

VARIABLES
  row,     \* status, attempt (uploadAttemptId) and whether r2Key is set
  object,  \* the object is in R2
  pc,      \* the step of each call of ensureUploaded
  latest,  \* the attempt that marked the row last
  faults

vars == <<row, object, pc, latest, faults>>
Steps == {"new", "read", "mark", "store", "complete", "look", "fail", "uploaded", "failed", "dead"}
Fault == faults < MaxFaults /\ faults' = faults + 1

TypeOK ==
  /\ row \in [status : {"none", "uploading", "uploaded", "failed"}, attempt : Attempts \cup {None}]
  /\ object \in BOOLEAN /\ pc \in [Attempts -> Steps]
  /\ latest \in Attempts \cup {None} /\ faults \in 0 .. MaxFaults

Init ==
  /\ row = [status |-> "none", attempt |-> None] /\ object = FALSE
  /\ pc = [a \in Attempts |-> "new"] /\ latest = None /\ faults = 0

At(a, step) == pc[a] = step
Goes(a, step) == pc' = [pc EXCEPT ![a] = step]
Uploaded == row.status = "uploaded"

\* getForUploadInternal
Begin(a) ==
  /\ At(a, "new") /\ Goes(a, IF Uploaded THEN "uploaded" ELSE "read")
  /\ UNCHANGED <<row, object, latest, faults>>
\* The recording is looked up in the sandbox until it can be played.
FindRecording(a) ==
  /\ At(a, "read")
  /\ \/ Goes(a, "mark") /\ UNCHANGED faults
     \/ Fault /\ Goes(a, "failed")
  /\ UNCHANGED <<row, object, latest>>
\* markUploadingInternal: the newest attempt takes over.
MarkUploading(a) ==
  /\ At(a, "mark")
  /\ IF Uploaded THEN Goes(a, "uploaded") /\ UNCHANGED <<row, latest>>
     ELSE /\ row' = [status |-> "uploading", attempt |-> a] /\ latest' = a
          /\ Goes(a, "store")
  /\ UNCHANGED <<object, faults>>
\* readSource and r2.store
Store(a) ==
  /\ At(a, "store")
  /\ \/ object' = TRUE /\ Goes(a, "complete") /\ UNCHANGED faults
     \/ Fault /\ Goes(a, "fail") /\ object' \in {object, TRUE}
  /\ UNCHANGED <<row, latest>>

IsUploading(a) == row.status = "uploading"  \* mutant: the attempt is not compared
Owns(a) == row.status = "uploading" /\ row.attempt = a
\* markUploadedInternal, which a newer attempt may have outrun; its answer may be lost.
MarkUploaded(a) ==
  /\ At(a, "complete")
  /\ \/ /\ Owns(a) /\ row' = [status |-> "uploaded", attempt |-> None]
        /\ (Goes(a, "uploaded") /\ UNCHANGED faults) \/ (Fault /\ Goes(a, "fail"))
     \/ ~Owns(a) /\ Goes(a, "look") /\ UNCHANGED <<row, faults>>
     \/ Fault /\ Goes(a, "fail") /\ UNCHANGED row
  /\ UNCHANGED <<object, latest>>
\* What the newer attempt has done is looked up.
Look(a) ==
  /\ At(a, "look")
  /\ \/ Goes(a, IF Uploaded THEN "uploaded" ELSE "fail") /\ UNCHANGED faults
     \/ Fault /\ Goes(a, "fail")
  /\ UNCHANGED <<row, object, latest>>
\* markFailedInternal
MarkFailed(a) ==
  /\ At(a, "fail") /\ Goes(a, "failed")
  /\ \/ /\ row' = IF Owns(a) THEN [status |-> "failed", attempt |-> None] ELSE row
        /\ UNCHANGED faults
     \/ Fault /\ UNCHANGED row
  /\ UNCHANGED <<object, latest>>
Dies(a) ==
  /\ pc[a] \notin {"new", "uploaded", "failed", "dead"} /\ Fault /\ Goes(a, "dead")
  /\ UNCHANGED <<row, object, latest>>

Next ==
  \E a \in Attempts :
    \/ Begin(a) \/ FindRecording(a) \/ MarkUploading(a) \/ Store(a)
    \/ MarkUploaded(a) \/ Look(a) \/ MarkFailed(a) \/ Dies(a)
Spec == Init /\ [][Next]_vars

\* Who was told the recording is uploaded can play it, and the row says what became
\* of the newest attempt: an older one that ends late neither fails the row nor
\* completes it (recordingArtifacts.ts:215), and one whose answer was lost does not
\* take an uploaded row back.
RowFollowsLatestAttempt ==
  /\ Uploaded => object
  /\ (\E a \in Attempts : At(a, "uploaded")) => Uploaded
  /\ row.status = "failed" => pc[latest] \in {"failed"}
  /\ row.status = "uploading" =>
       \/ pc[latest] \in {"store", "complete", "fail"}
       \/ faults > 0 /\ pc[latest] \in {"failed", "dead"}
  /\ Uploaded => \/ At(latest, "uploaded")
                 \/ faults > 0 /\ pc[latest] \in {"fail", "failed", "dead"}
=============================================================================
