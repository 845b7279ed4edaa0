---------------------------- MODULE AtomicFiles ----------------------------
(***************************************************************************)
(* What the write and edit tools promise of the files of a sandbox: every  *)
(* call changes its file at most once, in one step, from the content the   *)
(* file has at that moment.                                                *)
(*                                                                         *)
(* A content is the set of the calls whose changes are in it: an edit adds *)
(* its change to the content, a write replaces the whole of it.            *)
(***************************************************************************)
CONSTANTS Calls, Files

VARIABLES content, applied

vars == <<content, applied>>

Kind == {"write", "edit"}
Effect(c, kind, text) == IF kind = "write" THEN {c} ELSE text \cup {c}

Init ==
  /\ content = [f \in Files |-> {}]
  /\ applied = {}

Change(c, f, kind) ==
  /\ c \notin applied
  /\ applied' = applied \cup {c}
  /\ content' = [content EXCEPT ![f] = Effect(c, kind, @)]

Next == \E c \in Calls, f \in Files, kind \in Kind : Change(c, f, kind)

Spec == Init /\ [][Next]_vars
=============================================================================
