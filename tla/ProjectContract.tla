-------------------------- MODULE ProjectContract ---------------------------
(***************************************************************************)
(* What the platform promises about the end of a project, whatever jobs,   *)
(* scans and requests are at work on it: it is buried (soft-deleted) only  *)
(* with a backup behind it, its data is destroyed only once the recovery   *)
(* window has closed on the grave, nobody comes back, and the row says     *)
(* 'deleted' only when the data really is gone.                            *)
(***************************************************************************)

VARIABLES
  phase,      \* "open", "buried" (soft-deleted) or "purged"
  covered,    \* a backup succeeded
  closed,     \* the recovery window has closed
  destroyed   \* the data is gone

Init == phase = "open" /\ covered = FALSE /\ closed = FALSE /\ destroyed = FALSE

BackUp ==
  /\ phase = "open"
  /\ covered' = TRUE
  /\ UNCHANGED <<phase, closed, destroyed>>

Bury ==
  /\ phase = "open" /\ covered
  /\ phase' = "buried"
  /\ UNCHANGED <<covered, closed, destroyed>>

Close ==
  /\ phase = "buried"
  /\ closed' = TRUE
  /\ UNCHANGED <<phase, covered, destroyed>>

Destroy ==
  /\ phase = "buried" /\ closed
  /\ destroyed' = TRUE
  /\ UNCHANGED <<phase, covered, closed>>

Finish ==
  /\ phase = "buried" /\ destroyed
  /\ phase' = "purged"
  /\ UNCHANGED <<covered, closed, destroyed>>

Next == BackUp \/ Bury \/ Close \/ Destroy \/ Finish

Spec == Init /\ [][Next]_<<phase, covered, closed, destroyed>>
=============================================================================
