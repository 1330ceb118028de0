-------------------------- MODULE SessionContract ---------------------------
(***************************************************************************)
(* What a session promises the user who signed in, with no database, no    *)
(* transaction and no second request in sight: one refresh token of it     *)
(* works at a time, a refresh exchanges that token for one never issued    *)
(* before, and a session that is over stays over.                          *)
(***************************************************************************)

CONSTANTS Sessions, Tokens

VARIABLES
  opened,    \* the sessions ever opened
  current,   \* per session, the tokens that work: one while it lives, then none
  issued     \* the tokens ever handed out

Init ==
  /\ opened = {}
  /\ current = [s \in Sessions |-> {}]
  /\ issued = {}

Issue(s, t) ==
  /\ t \notin issued
  /\ issued' = issued \cup {t}
  /\ current' = [current EXCEPT ![s] = {t}]

Open(s, t) ==
  /\ s \notin opened
  /\ opened' = opened \cup {s}
  /\ Issue(s, t)

Exchange(s, t) ==
  /\ current[s] # {}
  /\ Issue(s, t)
  /\ UNCHANGED opened

End(S) ==
  /\ current' = [s \in Sessions |-> IF s \in S THEN {} ELSE current[s]]
  /\ UNCHANGED <<opened, issued>>

Next ==
  \/ \E s \in Sessions, t \in Tokens : Open(s, t) \/ Exchange(s, t)
  \/ \E S \in SUBSET Sessions : End(S)

Spec == Init /\ [][Next]_<<opened, current, issued>>
=============================================================================
