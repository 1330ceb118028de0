------------------------ MODULE EndUserSessionsProofs -----------------------
(***************************************************************************)
(* For any number of requests, sessions and tokens: no two tokens of a     *)
(* session work at once, a session that is over has none left (unless      *)
(* DELETE /sessions/:id ended it), nobody who has been banned or deleted   *)
(* and signed out refreshes again, and requests, retries and races         *)
(* together come to what SessionContract promises.                         *)
(*                                                                         *)
(* The argument is about two row locks.  A rotation that has spent a token *)
(* holds its row until it commits, so whoever else wants to spend or       *)
(* revoke it waits; and to commit it must update the session's row, which  *)
(* a sign-out holds from before it selects the tokens until it has revoked *)
(* them.  So no child appears behind a sign-out's back.                    *)
(***************************************************************************)
EXTENDS EndUserSessions, TLAPS

Pcs == {"idle", "open", "user", "rotate", "commit", "judge", "replace", "recommit",
        "own", "ban", "scrub", "sessions", "tokens", "finish"}
Opers == {"none", "login", "refresh", "signout", "own", "ban", "delete"}
ReqType == [op : Opers, pc : Pcs, tok : Tokens \cup {None}, ses : Sessions \cup {Nobody},
            spent : BOOLEAN, child : Tokens \cup {None}, scope : SUBSET Sessions,
            got : SUBSET Sessions, todo : SUBSET Tokens]
Uses == {"unissued", "unspent", "fresh", "late"}

(* A request past its read of the token it was given. *)
Refreshing(r) == req[r].pc \in {"user", "rotate", "commit", "judge", "replace", "recommit"}
(* ... and past the check of the user. *)
Flying(r) == req[r].pc \in {"rotate", "commit", "judge", "replace", "recommit"}
(* A request between its two UPDATEs, or with the second still waiting. *)
Ending(r) == req[r].pc \in {"tokens", "finish"}

(* A request knows what it works on. *)
Sound(r) ==
  /\ Refreshing(r) => /\ req[r].op = "refresh"
                      /\ req[r].tok \in Issued /\ family[req[r].tok] = req[r].ses
                      /\ req[r].ses \in opened
  /\ req[r].pc \in {"replace", "recommit"} =>
       /\ req[r].child \in Issued /\ family[req[r].child] = req[r].ses
  /\ req[r].pc = "own" => req[r].op = "own"
  /\ req[r].pc = "ban" => req[r].op = "ban"
  /\ req[r].pc = "scrub" => req[r].op = "delete"
  /\ req[r].op = "refresh" => req[r].ses \in opened
  /\ req[r].op = "own" => req[r].ses \in opened /\ req[r].pc \in {"own", "tokens", "finish"}
  /\ req[r].op \in {"ban", "delete"} => req[r].scope = Sessions
  /\ Ending(r) => req[r].got \subseteq opened
  /\ req[r].pc = "finish" => req[r].todo \subseteq Issued

(* A rotation between its first statement and its COMMIT. *)
Holding(r) ==
  /\ req[r].pc = "commit" => tokLock[req[r].tok] = r /\ Live(req[r].tok)
  /\ req[r].pc = "recommit" => tokLock[req[r].child] = r /\ Live(req[r].child)

(* Token rows: issued ones belong to opened sessions, a child to its parent's. *)
RowsFit ==
  /\ revoked \subseteq Issued
  /\ \A t \in Issued : family[t] \in opened
  /\ \A t \in Tokens \ Issued : parent[t] = None /\ family[t] = Nobody
  /\ \A t \in Tokens : parent[t] # None => family[t] = family[parent[t]]

(* A sign-out between its UPDATEs holds the sessions; once it has selected the tokens, *)
(* every one that works is among them.                                                 *)
Closing(r) ==
  Ending(r) =>
    /\ IF req[r].op = "own" THEN req[r].got \subseteq cut
       ELSE \A s \in req[r].got :
              /\ sesLock[s] = r
              /\ req[r].pc = "finish" => LiveOf(s) \subseteq req[r].todo

IInv ==
  /\ TypeOK
  /\ RowsFit
  /\ \A r \in Reqs : Sound(r)
  /\ \A r \in Reqs : Holding(r)
  /\ \A r \in Reqs : Closing(r)
  /\ LineageIsSingle
  /\ EndedIsDead

(* A ban or a deletion on its way: nobody it does not reach is past the user check. *)
Banning(r) ==
  /\ req[r].op = "delete" /\ req[r].pc \in {"sessions", "tokens", "finish"} =>
       /\ userLock = r
       /\ Ending(r) => opened \subseteq req[r].got \cup ended
  /\ req[r].op = "ban" /\ req[r].pc \in {"sessions", "tokens", "finish"} =>
       /\ user # "active"
       /\ Ending(r) => \A q \in Reqs : Flying(q) => req[q].ses \in req[r].got \cup ended

Barred == shut => user # "active" /\ \A q \in Reqs : Flying(q) => req[q].ses \in ended

SInv == IInv /\ (\A r \in Reqs : Banning(r)) /\ Barred

-----------------------------------------------------------------------------
(* Types *)

LEMMA NoReqType == NoReq \in ReqType
BY DEF NoReq, ReqType, Pcs, Opers

LEMMA Types ==
  TypeOK <=>
    /\ user \in {"active", "banned", "deleted"}
    /\ opened \subseteq Sessions
    /\ ended \subseteq opened /\ idle \subseteq opened /\ cut \subseteq ended
    /\ used \in [Tokens -> Uses]
    /\ revoked \subseteq Tokens
    /\ family \in [Tokens -> Sessions \cup {Nobody}]
    /\ parent \in [Tokens -> Tokens \cup {None}]
    /\ tokLock \in [Tokens -> Reqs \cup {Nobody}]
    /\ sesLock \in [Sessions -> Reqs \cup {Nobody}]
    /\ userLock \in Reqs \cup {Nobody}
    /\ req \in [Reqs -> ReqType]
    /\ shut \in BOOLEAN
    /\ calls \in 0..MaxCalls /\ breaks \in 0..MaxBreaks
BY DEF TypeOK, ReqType, Pcs, Opers, Uses

LEMMA NoneIsNoToken == None \notin Tokens
BY DEF None, Tokens

\* The ways a request's record changes keep its type.
LEMMA NowType ==
  ASSUME TypeOK, NEW r \in Reqs, NEW pc \in Pcs
  PROVE  Now(r, pc) \in ReqType
<1>1. req[r] \in ReqType
  BY Types
<1> QED
  BY <1>1 DEF ReqType, Now

LEMMA GotoType ==
  ASSUME TypeOK, NEW r \in Reqs, NEW pc \in Pcs, Goto(r, pc)
  PROVE  req' \in [Reqs -> ReqType]
BY NowType, Types DEF Goto, Becomes

LEMMA DoneType ==
  ASSUME TypeOK, NEW r \in Reqs, Done(r)
  PROVE  req' \in [Reqs -> ReqType]
BY NoReqType, Types DEF Done, Becomes

LEMMA ReleaseType ==
  ASSUME TypeOK, NEW r \in Reqs, Release(r)
  PROVE  /\ tokLock' \in [Tokens -> Reqs \cup {Nobody}]
         /\ sesLock' \in [Sessions -> Reqs \cup {Nobody}]
         /\ userLock' \in Reqs \cup {Nobody}
BY Types DEF Release, Unlocked

\* Giving locks back frees what r held and leaves everybody else's alone.
LEMMA Released ==
  ASSUME TypeOK, NEW r \in Reqs, Release(r)
  PROVE  /\ \A t \in Tokens : tokLock'[t] = IF tokLock[t] = r THEN Nobody ELSE tokLock[t]
         /\ \A s \in Sessions : sesLock'[s] = IF sesLock[s] = r THEN Nobody ELSE sesLock[s]
BY Types DEF Release, Unlocked

LEMMA TypesNext ==
  ASSUME user' \in {"active", "banned", "deleted"}, opened' \subseteq Sessions,
         ended' \subseteq opened', idle' \subseteq opened', cut' \subseteq ended',
         used' \in [Tokens -> Uses], revoked' \subseteq Tokens,
         family' \in [Tokens -> Sessions \cup {Nobody}],
         parent' \in [Tokens -> Tokens \cup {None}],
         tokLock' \in [Tokens -> Reqs \cup {Nobody}],
         sesLock' \in [Sessions -> Reqs \cup {Nobody}],
         userLock' \in Reqs \cup {Nobody},
         req' \in [Reqs -> ReqType], shut' \in BOOLEAN,
         calls' \in 0..MaxCalls, breaks' \in 0..MaxBreaks
  PROVE  TypeOK'
BY DEF TypeOK, ReqType, Pcs, Opers, Uses

\* A step that moves one request and at most takes or gives back locks.
LEMMA QuietType ==
  ASSUME TypeOK, req' \in [Reqs -> ReqType],
         tokLock' \in [Tokens -> Reqs \cup {Nobody}],
         sesLock' \in [Sessions -> Reqs \cup {Nobody}],
         userLock' \in Reqs \cup {Nobody},
         UNCHANGED <<rows, cut, calls, breaks>>, shut' \in BOOLEAN
  PROVE  TypeOK'
<1> USE DEF rows
<1> QED
  BY Types, TypesNext

LEMMA BeginType ==
  ASSUME TypeOK, NEW r \in Reqs, NEW q \in ReqType, Begin(r, q)
  PROVE  TypeOK'
<1>1. req' \in [Reqs -> ReqType] /\ calls' \in 0..MaxCalls
  BY Types, SessionsAssumption DEF Begin, Becomes
<1> QED
  BY <1>1, Types, TypesNext DEF Begin, rows, locks

\* What a request that has just begun looks like.
BegunType == {q \in ReqType :
  /\ q.pc \in {"idle", "open", "user", "sessions", "own", "ban", "scrub"}
  /\ q.got = {}
  /\ q.pc = "idle" => q.op = "none"
  /\ q.pc = "user" \/ q.op = "refresh" =>
       /\ q.op = "refresh" /\ q.pc \in {"user", "sessions"}
       /\ q.tok \in Issued /\ family[q.tok] = q.ses
  /\ q.op = "own" <=> q.pc = "own"
  /\ q.op = "own" => q.ses \in opened
  /\ q.op = "ban" <=> q.pc = "ban"
  /\ q.op = "delete" <=> q.pc = "scrub"
  /\ q.op \in {"ban", "delete"} => q.scope = Sessions}

LEMMA Calls ==
  ASSUME TypeOK, NEW r \in Reqs, Call(r)
  PROVE  \E q \in BegunType : Begin(r, q)
<1>1. CASE SignIn(r)
  <2> DEFINE q == [NoReq EXCEPT !.op = "login", !.pc = "open"]
  <2>1. q \in BegunType
    BY DEF BegunType, ReqType, Pcs, Opers, NoReq
  <2> QED
    BY <1>1, <2>1 DEF SignIn
<1>2. CASE Present(r)
  <2>1. PICK t \in Issued :
          LET s == family[t]
              refused == t \in revoked \/ s \in ended
              q == [NoReq EXCEPT !.op = "refresh", !.tok = t, !.ses = s,
                                 !.spent = used[t] # "unspent",
                                 !.pc = IF s \in idle THEN "sessions" ELSE "user"]
          IN Begin(r, IF refused THEN NoReq ELSE q)
    BY <1>2 DEF Present
  <2> DEFINE q == [NoReq EXCEPT !.op = "refresh", !.tok = t, !.ses = family[t],
                                !.spent = used[t] # "unspent",
                                !.pc = IF family[t] \in idle THEN "sessions" ELSE "user"]
  <2>2. t \in Tokens /\ family[t] \in Sessions \cup {Nobody}
    BY Types DEF Issued
  <2>3. q \in BegunType
    BY <2>2 DEF BegunType, ReqType, Pcs, Opers, NoReq
  <2>4. NoReq \in BegunType
    BY DEF BegunType, ReqType, Pcs, Opers, NoReq
  <2> QED
    BY <2>1, <2>3, <2>4
<1>3. CASE SignOut(r)
  <2>1. PICK s \in opened : \E scope \in {{s}, Sessions, Sessions \ {s}} :
          Begin(r, [NoReq EXCEPT !.op = "signout", !.scope = scope, !.pc = "sessions"])
    BY <1>3 DEF SignOut
  <2>2. PICK scope \in {{s}, Sessions, Sessions \ {s}} :
          Begin(r, [NoReq EXCEPT !.op = "signout", !.scope = scope, !.pc = "sessions"])
    BY <2>1
  <2>3. scope \in SUBSET Sessions
    BY <2>2, Types
  <2>4. [NoReq EXCEPT !.op = "signout", !.scope = scope, !.pc = "sessions"] \in BegunType
    BY <2>3 DEF BegunType, ReqType, Pcs, Opers, NoReq
  <2> QED
    BY <2>2, <2>4
<1>4. CASE DeleteSession(r)
  <2>1. PICK s \in opened : Begin(r, [NoReq EXCEPT !.op = "own", !.ses = s, !.pc = "own"])
    BY <1>4 DEF DeleteSession
  <2>2. [NoReq EXCEPT !.op = "own", !.ses = s, !.pc = "own"] \in BegunType
    BY Types DEF BegunType, ReqType, Pcs, Opers, NoReq
  <2> QED
    BY <2>1, <2>2
<1>5. CASE AdminBan(r)
  <2>1. [NoReq EXCEPT !.op = "ban", !.scope = Sessions, !.pc = "ban"] \in BegunType
    BY DEF BegunType, ReqType, Pcs, Opers, NoReq
  <2> QED
    BY <1>5, <2>1 DEF AdminBan
<1>6. CASE AdminDelete(r)
  <2>1. [NoReq EXCEPT !.op = "delete", !.scope = Sessions, !.pc = "scrub"] \in BegunType
    BY DEF BegunType, ReqType, Pcs, Opers, NoReq
  <2> QED
    BY <1>6, <2>1 DEF AdminDelete
<1> QED
  BY <1>1, <1>2, <1>3, <1>4, <1>5, <1>6 DEF Call

(* Types, what a request works on, and which rows belong together. *)
TInv == TypeOK /\ RowsFit /\ \A r \in Reqs : Sound(r)

LEMMA TypeStep ==
  ASSUME TInv, [Next]_vars
  PROVE  TypeOK'
<1>0. TypeOK
  BY DEF TInv
<1>1. CASE UNCHANGED vars
  BY <1>0, <1>1, Types, TypesNext DEF vars, rows, locks
<1>2. ASSUME NEW r \in Reqs, Call(r) PROVE TypeOK'
  BY <1>0, <1>2, Calls, BeginType DEF BegunType
<1>3. ASSUME NEW r \in Reqs, Serve(r) PROVE TypeOK'
  <2>0. Sound(r)
    BY DEF TInv
  <2>1. CASE OpenSession(r)
    <3>1. PICK s \in Sessions \ opened, t \in Tokens :
            /\ Insert(t, s, None)
            /\ used' = [used EXCEPT ![t] = "unspent"]
            /\ opened' = opened \cup {s}
      BY <2>1 DEF OpenSession
    <3>2. req' \in [Reqs -> ReqType]
      BY <1>0, <2>1, DoneType DEF OpenSession
    <3> QED
      BY <1>0, <2>1, <3>1, <3>2, Types, TypesNext DEF OpenSession, Insert, locks, Uses
  <2>2. CASE ReadUser(r)
    <3>1. req' \in [Reqs -> ReqType]
      BY <1>0, <2>2, GotoType DEF ReadUser, Pcs
    <3> QED
      BY <1>0, <2>2, <3>1, Types, QuietType DEF ReadUser, locks
  <2>3. CASE Rotate(r)
    <3>1. req' \in [Reqs -> ReqType]
      BY <1>0, <2>3, GotoType, DoneType DEF Rotate, Pcs
    <3> QED
      BY <1>0, <2>3, <3>1, Types, QuietType DEF Rotate
  <2>4. CASE Commit(r)
    <3>1. PICK c \in Tokens :
            /\ Insert(c, req[r].ses, req[r].tok)
            /\ used' = [used EXCEPT ![req[r].tok] = "fresh", ![c] = "unspent"]
      BY <2>4 DEF Commit
    <3>2. req' \in [Reqs -> ReqType] /\ req[r] \in ReqType
      BY <1>0, <2>4, DoneType, Types DEF Commit
    <3> QED
      BY <1>0, <2>4, <3>1, <3>2, ReleaseType, Types, TypesNext
         DEF Commit, Insert, locks, Uses, ReqType
  <2>5. CASE Judge(r)
    <3>1. CASE Goto(r, "sessions")
      <4>1. req' \in [Reqs -> ReqType]
        BY <1>0, <3>1, GotoType DEF Pcs
      <4> QED
        BY <1>0, <2>5, <4>1, Types, QuietType DEF Judge, locks
    <3>2. CASE ~Goto(r, "sessions")
      <4>1. PICK c \in Tokens : Becomes(r, [Now(r, "replace") EXCEPT !.child = c])
        BY <2>5, <3>2 DEF Judge
      <4>2. [Now(r, "replace") EXCEPT !.child = c] \in ReqType
        BY <1>0, NowType DEF ReqType, Pcs
      <4>3. req' \in [Reqs -> ReqType]
        BY <1>0, <4>1, <4>2, Types DEF Becomes
      <4> QED
        BY <1>0, <2>5, <4>3, Types, QuietType DEF Judge, locks
    <3> QED
      BY <3>1, <3>2
  <2>6. CASE Replace(r)
    <3>1. req' \in [Reqs -> ReqType]
      BY <1>0, <2>6, GotoType DEF Replace, Pcs
    <3> QED
      BY <1>0, <2>6, <3>1, Types, QuietType DEF Replace
  <2>7. CASE Recommit(r)
    <3>1. PICK c \in Tokens :
            /\ Insert(c, req[r].ses, req[r].tok)
            /\ used' = [used EXCEPT ![c] = "unspent"]
      BY <2>7 DEF Recommit
    <3>2. req' \in [Reqs -> ReqType] /\ req[r] \in ReqType
      BY <1>0, <2>7, DoneType, Types DEF Recommit
    <3>3. req[r].child \in Tokens
      BY <2>0, <2>7 DEF Sound, Recommit, At, Issued
    <3> QED
      BY <1>0, <2>7, <3>1, <3>2, <3>3, ReleaseType, NoneIsNoToken, Types, TypesNext
         DEF Recommit, Insert, locks, Uses, ReqType
  <2>8. CASE Ban(r)
    <3>1. req' \in [Reqs -> ReqType]
      BY <1>0, <2>8, GotoType, DoneType DEF Ban, Pcs
    <3> QED
      BY <1>0, <2>8, <3>1, Types, TypesNext DEF Ban, locks
  <2>9. CASE Scrub(r)
    <3>1. req' \in [Reqs -> ReqType]
      BY <1>0, <2>9, GotoType, DoneType DEF Scrub, Pcs
    <3> QED
      BY <1>0, <2>9, <3>1, Types, QuietType DEF Scrub
  <2>10. CASE EndSessions(r)
    <3>1. Matched(r) \subseteq Sessions
      BY <1>0, Types DEF Matched
    <3>2. [Now(r, "tokens") EXCEPT !.got = Matched(r)] \in ReqType
      BY <1>0, <3>1, NowType DEF ReqType, Pcs
    <3>3. req' \in [Reqs -> ReqType]
      BY <1>0, <2>10, <3>2, DoneType, Types DEF EndSessions, Becomes
    <3>4. sesLock' \in [Sessions -> Reqs \cup {Nobody}]
      BY <1>0, <2>10, Types DEF EndSessions
    <3> QED
      BY <1>0, <2>10, <3>3, <3>4, Types, QuietType DEF EndSessions
  <2>11. CASE EndOwn(r)
    <3>1. req[r].ses \in opened
      BY <2>0, <2>11 DEF Sound, EndOwn, At
    <3>2. {req[r].ses} \subseteq Sessions /\ Now(r, "tokens") \in ReqType
      BY <1>0, <3>1, NowType, Types DEF Pcs
    <3>4. [Now(r, "tokens") EXCEPT !.got = {req[r].ses}] \in ReqType
      BY <3>2 DEF ReqType
    <3>3. req' \in [Reqs -> ReqType]
      BY <1>0, <2>11, <3>4, DoneType, Types DEF EndOwn, Becomes
    <3> QED
      BY <1>0, <2>11, <3>1, <3>3, Types, TypesNext DEF EndOwn, locks
  <2>12. CASE SelectTokens(r)
    <3> DEFINE T == {t \in Issued \ revoked : family[t] \in req[r].got \/ req[r].op = "delete"}
    <3>1. [Now(r, "finish") EXCEPT !.todo = T] \in ReqType
      BY <1>0, NowType DEF ReqType, Pcs, Issued
    <3>2. req' \in [Reqs -> ReqType]
      BY <1>0, <2>12, <3>1, Types DEF SelectTokens, Becomes
    <3> QED
      BY <1>0, <2>12, <3>2, Types, QuietType DEF SelectTokens, locks
  <2>13. CASE Finish(r)
    <3>1. req[r] \in ReqType /\ req' \in [Reqs -> ReqType]
      BY <1>0, <2>13, DoneType, Types DEF Finish
    <3>2. req[r].got \subseteq opened
      BY <2>0, <2>13 DEF Sound, Ending, Finish, At
    <3> QED
      BY <1>0, <2>13, <3>1, <3>2, ReleaseType, Types, TypesNext DEF Finish, ReqType
  <2>14. CASE Timeout(r)
    <3>1. req' \in [Reqs -> ReqType]
      BY <1>0, <2>14, DoneType DEF Timeout, Abort
    <3> QED
      BY <1>0, <2>14, <3>1, ReleaseType, Types, QuietType DEF Timeout, Abort
  <2> QED
    BY <1>3, <2>1, <2>2, <2>3, <2>4, <2>5, <2>6, <2>7, <2>8, <2>9, <2>10, <2>11, <2>12,
       <2>13, <2>14 DEF Serve
<1>4. ASSUME NEW r \in Reqs, Break(r) PROVE TypeOK'
  <2>1. req' \in [Reqs -> ReqType] /\ breaks' \in 0..MaxBreaks
    BY <1>0, <1>4, DoneType, Types, SessionsAssumption DEF Break, Abort
  <2> QED
    BY <1>0, <1>4, <2>1, ReleaseType, Types, TypesNext DEF Break, Abort, rows
<1>5. ASSUME NEW t \in Tokens, GraceEnds(t) PROVE TypeOK'
  BY <1>0, <1>5, Types, TypesNext DEF GraceEnds, locks, Uses
<1>6. ASSUME NEW s \in Sessions, GoesIdle(s) PROVE TypeOK'
  BY <1>0, <1>6, Types, TypesNext DEF GoesIdle, LiveSession, locks
<1> QED
  BY <1>1, <1>2, <1>3, <1>4, <1>5, <1>6 DEF Next

-----------------------------------------------------------------------------
(* Rows *)

\* A token is born: c, in session s, of parent p.
Birth(c, s, p) ==
  /\ c \in Tokens \ Issued /\ Insert(c, s, p)
  /\ s \in Sessions /\ opened' = opened \cup {s}
  /\ \/ p = None /\ s \notin opened
     \/ p \in Issued /\ family[p] = s /\ s \in opened
  /\ Issued' = Issued \cup {c}
  /\ Live(c)'
  /\ \A t \in Tokens \ {c} : Live(t)' => Live(t)
  /\ UNCHANGED ended /\ revoked' \subseteq Issued

NoBirth ==
  /\ UNCHANGED <<family, parent, opened>>
  /\ Issued' = Issued /\ revoked' \subseteq Issued
  /\ \A t \in Tokens : Live(t)' => Live(t)

\* What the two forms of the UPDATE and INSERT do to who works.
LEMMA Fresh ==
  ASSUME used \in [Tokens -> Uses], NEW c \in Tokens \ Issued, revoked \subseteq Issued,
         revoked' \subseteq Issued, revoked \subseteq revoked',
         \/ used' = [used EXCEPT ![c] = "unspent"]
         \/ \E t \in Issued : used' = [used EXCEPT ![t] = "fresh", ![c] = "unspent"]
  PROVE  /\ Issued' = Issued \cup {c}
         /\ Live(c)'
         /\ \A t \in Tokens \ {c} : Live(t)' => Live(t)
<1>1. CASE used' = [used EXCEPT ![c] = "unspent"]
  <2>1. used'[c] = "unspent" /\ \A t \in Tokens \ {c} : used'[t] = used[t]
    BY <1>1
  <2> QED
    BY <2>1 DEF Issued, Live
<1>2. ASSUME NEW t \in Issued, used' = [used EXCEPT ![t] = "fresh", ![c] = "unspent"]
      PROVE  /\ Issued' = Issued \cup {c}
             /\ Live(c)'
             /\ \A u \in Tokens \ {c} : Live(u)' => Live(u)
  <2>1. /\ t \in Tokens /\ used[t] # "unissued"
        /\ used'[c] = "unspent" /\ used'[t] = "fresh"
        /\ \A u \in Tokens \ {c, t} : used'[u] = used[u]
    BY <1>2 DEF Issued
  <2> QED
    BY <2>1 DEF Issued, Live
<1> QED
  BY <1>1, <1>2

LEMMA Births ==
  ASSUME TInv, NEW r \in Reqs, OpenSession(r) \/ Commit(r) \/ Recommit(r)
  PROVE  \E c \in Tokens, s \in Sessions, p \in Tokens \cup {None} : Birth(c, s, p)
<1>0. TypeOK /\ Sound(r) /\ revoked \subseteq Issued
  BY DEF TInv, RowsFit
<1>1. CASE OpenSession(r)
  <2>1. PICK s \in Sessions \ opened, c \in Tokens :
          /\ Insert(c, s, None)
          /\ used' = [used EXCEPT ![c] = "unspent"]
          /\ opened' = opened \cup {s}
    BY <1>1 DEF OpenSession
  <2>2. used \in [Tokens -> Uses] /\ c \notin Issued /\ UNCHANGED <<revoked, ended>>
    BY <1>0, <1>1, <2>1, Types DEF OpenSession, Insert, IsNext
  <2>3. Birth(c, s, None)
    BY <1>0, <2>1, <2>2, Types, Fresh DEF Birth
  <2> QED
    BY <2>3
<1>2. CASE Commit(r)
  <2>1. PICK c \in Tokens :
          /\ Insert(c, req[r].ses, req[r].tok)
          /\ used' = [used EXCEPT ![req[r].tok] = "fresh", ![c] = "unspent"]
    BY <1>2 DEF Commit
  <2>2. /\ used \in [Tokens -> Uses] /\ c \notin Issued
        /\ UNCHANGED <<revoked, opened, ended>>
    BY <1>0, <1>2, <2>1, Types DEF Commit, Insert, IsNext
  <2>3. /\ req[r].tok \in Issued /\ req[r].tok \in Tokens
        /\ family[req[r].tok] = req[r].ses /\ req[r].ses \in opened
    BY <1>0, <1>2 DEF Sound, Refreshing, Commit, At, Issued
  <2>4. req[r].ses \in Sessions
    BY <1>0, <2>3, Types
  <2>5. Birth(c, req[r].ses, req[r].tok)
    BY <1>0, <2>1, <2>2, <2>3, <2>4, Fresh DEF Birth
  <2> QED
    BY <2>3, <2>4, <2>5
<1>3. CASE Recommit(r)
  <2>1. PICK c \in Tokens :
          /\ Insert(c, req[r].ses, req[r].tok)
          /\ used' = [used EXCEPT ![c] = "unspent"]
    BY <1>3 DEF Recommit
  <2>2. /\ used \in [Tokens -> Uses] /\ c \notin Issued
        /\ UNCHANGED <<opened, ended>> /\ revoked' = revoked \cup {req[r].child}
    BY <1>0, <1>3, <2>1, Types DEF Recommit, Insert, IsNext
  <2>3. /\ req[r].tok \in Issued /\ req[r].tok \in Tokens
        /\ family[req[r].tok] = req[r].ses /\ req[r].ses \in opened
        /\ req[r].child \in Issued
    BY <1>0, <1>3 DEF Sound, Refreshing, Recommit, At, Issued
  <2>4. req[r].ses \in Sessions
    BY <1>0, <2>3, Types
  <2>5. Birth(c, req[r].ses, req[r].tok)
    BY <1>0, <2>1, <2>2, <2>3, <2>4, Fresh DEF Birth
  <2> QED
    BY <2>3, <2>4, <2>5
<1> QED
  BY <1>1, <1>2, <1>3

\* Every other step lets no token be born or come back.
LEMMA NoBirths ==
  ASSUME TInv, [Next]_vars,
         \A r \in Reqs : ~OpenSession(r) /\ ~Commit(r) /\ ~Recommit(r)
  PROVE  NoBirth
<1>0. TypeOK /\ revoked \subseteq Issued
  BY DEF TInv, RowsFit
<1>1. ASSUME UNCHANGED <<used, family, parent, opened>>, revoked \subseteq revoked',
             revoked' \subseteq Issued
      PROVE  NoBirth
  BY <1>1 DEF NoBirth, Issued, Live
<1>2. CASE UNCHANGED vars
  BY <1>0, <1>1, <1>2 DEF vars, rows
<1>3. ASSUME NEW r \in Reqs, Call(r) PROVE NoBirth
  <2>1. PICK q \in BegunType : Begin(r, q)
    BY <1>0, <1>3, Calls
  <2> QED
    BY <1>0, <1>1, <2>1 DEF Begin, rows
<1>4. ASSUME NEW r \in Reqs, Serve(r) PROVE NoBirth
  <2>1. CASE \/ ReadUser(r) \/ Rotate(r) \/ Judge(r) \/ Replace(r) \/ Ban(r) \/ Scrub(r)
             \/ EndSessions(r) \/ EndOwn(r) \/ SelectTokens(r) \/ Finish(r) \/ Timeout(r)
    <3>0. At(r, "finish") => req[r].todo \subseteq Issued
      BY DEF TInv, Sound, At
    <3>1. /\ UNCHANGED <<used, family, parent, opened>>
          /\ revoked \subseteq revoked' /\ revoked' \subseteq Issued
      BY <1>0, <2>1, <3>0 DEF ReadUser, Rotate, Judge, Replace, Ban, Scrub, EndSessions, EndOwn,
         SelectTokens, Finish, Timeout, Abort, rows
    <3> QED
      BY <1>1, <3>1
  <2> QED
    BY <1>4, <2>1 DEF Serve
<1>5. ASSUME NEW r \in Reqs, Break(r) PROVE NoBirth
  BY <1>0, <1>1, <1>5 DEF Break, Abort, rows
<1>6. ASSUME NEW t \in Tokens, GraceEnds(t) PROVE NoBirth
  BY <1>0, <1>6, Types DEF GraceEnds, NoBirth, Issued, Live
<1>7. ASSUME NEW s \in Sessions, GoesIdle(s) PROVE NoBirth
  BY <1>0, <1>1, <1>7 DEF GoesIdle
<1> QED
  BY <1>2, <1>3, <1>4, <1>5, <1>6, <1>7 DEF Next

LEMMA RowsStep ==
  ASSUME TInv, [Next]_vars
  PROVE  RowsFit'
<1>0. TypeOK /\ RowsFit /\ TypeOK'
  BY TypeStep DEF TInv
<1>1. ASSUME NEW c \in Tokens, NEW s \in Sessions, NEW p \in Tokens \cup {None}, Birth(c, s, p)
      PROVE  RowsFit'
  <2>0. revoked' \subseteq Issued'
    BY <1>1 DEF Birth
  <2>1. /\ family' = [family EXCEPT ![c] = s] /\ parent' = [parent EXCEPT ![c] = p]
        /\ family \in [Tokens -> Sessions \cup {Nobody}]
        /\ parent \in [Tokens -> Tokens \cup {None}]
        /\ Issued' = Issued \cup {c} /\ Issued \subseteq Tokens /\ c \notin Issued
        /\ opened' = opened \cup {s}
    BY <1>0, <1>1, Types DEF Birth, Insert, Issued
  <2>2. p # None => p \in Issued /\ family[p] = s
    BY <1>1 DEF Birth
  <2>3. \A t \in Issued : family[t] \in opened
    BY <1>0 DEF RowsFit
  <2>4. \A t \in Tokens \ Issued : parent[t] = None /\ family[t] = Nobody
    BY <1>0 DEF RowsFit
  <2>5. \A t \in Tokens : parent[t] # None => family[t] = family[parent[t]]
    BY <1>0 DEF RowsFit
  <2>6. ASSUME NEW t \in Tokens, parent'[t] # None PROVE family'[t] = family'[parent'[t]]
    <3>1. CASE t = c
      BY <2>1, <2>2, <2>6, <3>1
    <3>2. CASE t # c
      <4>1. t \in Issued /\ parent'[t] = parent[t]
        BY <2>1, <2>4, <2>6, <3>2
      <4>2. parent[t] # c
        <5>1. family[t] \in Sessions
          BY <1>0, <2>3, <4>1, Types
        <5> QED
          BY <2>1, <2>4, <2>5, <2>6, <4>1, <5>1, SessionsAssumption
      <4> QED
        BY <2>1, <2>5, <2>6, <3>2, <4>1, <4>2
    <3> QED
      BY <3>1, <3>2
  <2>7. \A t \in Issued' : family'[t] \in opened'
    BY <2>1, <2>3
  <2>8. \A t \in Tokens \ Issued' : parent'[t] = None /\ family'[t] = Nobody
    BY <2>1, <2>4
  <2> QED
    BY <2>0, <2>6, <2>7, <2>8 DEF RowsFit
<1>2. CASE NoBirth
  BY <1>0, <1>2 DEF RowsFit, NoBirth
<1> QED
  BY <1>1, <1>2, Births, NoBirths

-----------------------------------------------------------------------------
(* Requests *)

\* Rows only grow, and an issued token keeps its session and its parent.
LEMMA Growing ==
  ASSUME TInv, [Next]_vars
  PROVE  /\ opened \subseteq opened' /\ Issued \subseteq Issued'
         /\ \A t \in Issued : family'[t] = family[t]
<1>0. TypeOK
  BY DEF TInv
<1>1. ASSUME NEW c \in Tokens, NEW s \in Sessions, NEW p \in Tokens \cup {None}, Birth(c, s, p)
      PROVE  /\ opened \subseteq opened' /\ Issued \subseteq Issued'
             /\ \A t \in Issued : family'[t] = family[t]
  BY <1>0, <1>1, Types DEF Birth, Insert, Issued
<1>2. CASE NoBirth
  BY <1>2 DEF NoBirth
<1> QED
  BY <1>1, <1>2, Births, NoBirths

\* A step moves one request.
LEMMA Moving ==
  ASSUME TInv, NEW r \in Reqs, Call(r) \/ Serve(r) \/ Break(r)
  PROVE  \E q \in ReqType : Becomes(r, q)
<1>0. TypeOK /\ Sound(r)
  BY DEF TInv
<1>1. CASE Call(r)
  BY <1>0, <1>1, Calls DEF BegunType, Begin
<1>2. ASSUME NEW pc \in Pcs, Goto(r, pc) PROVE \E q \in ReqType : Becomes(r, q)
  BY <1>0, <1>2, NowType DEF Goto
<1>3. ASSUME Done(r) PROVE \E q \in ReqType : Becomes(r, q)
  BY <1>3, NoReqType DEF Done
<1>4. ASSUME Serve(r) PROVE \E q \in ReqType : Becomes(r, q)
  <2>1. CASE OpenSession(r) \/ Commit(r) \/ Recommit(r) \/ Finish(r) \/ Timeout(r)
    BY <1>3, <2>1 DEF OpenSession, Commit, Recommit, Finish, Timeout, Abort
  <2>2. CASE ReadUser(r) \/ Rotate(r) \/ Replace(r) \/ Ban(r) \/ Scrub(r)
    BY <1>2, <1>3, <2>2 DEF ReadUser, Rotate, Replace, Ban, Scrub, Pcs
  <2>3. CASE Judge(r)
    <3>1. CASE Goto(r, "sessions")
      BY <1>2, <3>1 DEF Pcs
    <3>2. CASE ~Goto(r, "sessions")
      <4>1. PICK c \in Tokens : Becomes(r, [Now(r, "replace") EXCEPT !.child = c])
        BY <2>3, <3>2 DEF Judge
      <4>2. [Now(r, "replace") EXCEPT !.child = c] \in ReqType
        BY <1>0, NowType DEF ReqType, Pcs
      <4> QED
        BY <4>1, <4>2
    <3> QED
      BY <3>1, <3>2
  <2>4. CASE EndSessions(r)
    <3>1. Matched(r) \subseteq Sessions
      BY <1>0, Types DEF Matched
    <3>2. [Now(r, "tokens") EXCEPT !.got = Matched(r)] \in ReqType
      BY <1>0, <3>1, NowType DEF ReqType, Pcs
    <3> QED
      BY <1>3, <2>4, <3>2 DEF EndSessions
  <2>5. CASE EndOwn(r)
    <3> DEFINE q == [Now(r, "tokens") EXCEPT !.got = {req[r].ses}]
    <3>1. CASE req[r].ses \in ended
      BY <1>3, <2>5, <3>1 DEF EndOwn
    <3>2. CASE req[r].ses \notin ended
      <4>0. req[r].ses \in Sessions
        BY <1>0, <2>5, Types DEF Sound, EndOwn, At
      <4>1. {req[r].ses} \subseteq Sessions /\ Now(r, "tokens") \in ReqType
        BY <1>0, <4>0, NowType DEF Pcs
      <4>2. q \in ReqType
        BY <4>1 DEF ReqType
      <4> QED
        BY <2>5, <3>2, <4>2 DEF EndOwn
    <3> QED
      BY <2>5, <3>1, <3>2 DEF EndOwn
  <2>6. CASE SelectTokens(r)
    <3> DEFINE T == {t \in Issued \ revoked : family[t] \in req[r].got \/ req[r].op = "delete"}
    <3>1. [Now(r, "finish") EXCEPT !.todo = T] \in ReqType
      BY <1>0, NowType DEF ReqType, Pcs, Issued
    <3> QED
      BY <2>6, <3>1 DEF SelectTokens
  <2> QED
    BY <1>4, <2>1, <2>2, <2>3, <2>4, <2>5, <2>6 DEF Serve
<1>5. CASE Break(r)
  BY <1>3, <1>5 DEF Break, Abort
<1> QED
  BY <1>1, <1>4, <1>5

LEMMA GotoFields ==
  ASSUME TypeOK, NEW r \in Reqs, NEW pc, Goto(r, pc)
  PROVE  /\ req'[r].pc = pc /\ req'[r].op = req[r].op /\ req'[r].tok = req[r].tok
         /\ req'[r].ses = req[r].ses /\ req'[r].child = req[r].child
         /\ req'[r].scope = req[r].scope /\ req'[r].got = req[r].got
         /\ req'[r].todo = req[r].todo
<1>1. req \in [Reqs -> ReqType] /\ req[r] \in ReqType
  BY Types
<1>2. req'[r] = Now(r, pc)
  BY <1>1 DEF Goto, Becomes
<1> QED
  BY <1>1, <1>2 DEF Now, ReqType

LEMMA DoneFields ==
  ASSUME TypeOK, NEW r \in Reqs, Done(r)
  PROVE  req'[r] = NoReq
BY Types DEF Done, Becomes

\* What one request is known to work on stays true while it waits.
LEMMA SoundKept ==
  ASSUME TInv, [Next]_vars, NEW q \in Reqs, req'[q] = req[q]
  PROVE  Sound(q)'
<1>1. Sound(q) /\ TypeOK
  BY DEF TInv
<1>2. req[q] \in ReqType
  BY <1>1, Types
<1> QED
  BY <1>1, <1>2, Growing DEF Sound, Refreshing, Ending, ReqType

LEMMA SoundStep ==
  ASSUME TInv, [Next]_vars
  PROVE  \A q \in Reqs : Sound(q)'
<1>0. TypeOK /\ TypeOK' /\ \A q \in Reqs : Sound(q)
  BY TypeStep DEF TInv
<1>1. CASE UNCHANGED req
  BY <1>1, SoundKept
<1>2. ASSUME NEW r \in Reqs, Call(r) \/ Serve(r) \/ Break(r) PROVE \A q \in Reqs \ {r} : Sound(q)'
  <2>1. \A q \in Reqs \ {r} : req'[q] = req[q]
    BY <1>0, <1>2, Moving, Types DEF Becomes
  <2> QED
    BY <2>1, SoundKept
<1>3. ASSUME NEW r \in Reqs, Done(r) PROVE Sound(r)'
  BY <1>0, <1>3, DoneFields DEF Sound, Refreshing, Ending, NoReq
<1>4. ASSUME NEW r \in Reqs, Call(r) PROVE Sound(r)'
  <2>1. PICK b \in BegunType : Begin(r, b)
    BY <1>0, <1>4, Calls
  <2>2. req'[r] = b /\ UNCHANGED <<opened, used, family>>
    BY <1>0, <2>1, Types DEF Begin, Becomes, rows
  <2>3. \A t \in Issued : family[t] \in opened
    BY DEF TInv, RowsFit
  <2> QED
    BY <2>2, <2>3 DEF Sound, Refreshing, Ending, BegunType, Issued
<1>5. ASSUME NEW r \in Reqs, NEW pc \in {"sessions", "judge", "rotate", "commit"}, Goto(r, pc),
             pc = "sessions" \/ Refreshing(r),
             req[r].pc \in {"user", "rotate", "judge", "replace", "ban", "scrub"}
      PROVE  Sound(r)'
  <2>1. Sound(r)
    BY <1>0
  <2>2. req[r].tok \in Issued => req[r].tok \in Issued' /\ family'[req[r].tok] = family[req[r].tok]
    BY Growing, <1>5
  <2> QED
    BY <1>0, <1>5, <2>1, <2>2, Growing, GotoFields DEF Sound, Refreshing, Ending
<1>6. ASSUME NEW r \in Reqs, Serve(r) PROVE Sound(r)'
  <2>0. Sound(r) /\ req[r] \in ReqType
    BY <1>0, Types
  <2>1. CASE OpenSession(r) \/ Commit(r) \/ Recommit(r) \/ Finish(r) \/ Timeout(r)
    BY <1>3, <2>1 DEF OpenSession, Commit, Recommit, Finish, Timeout, Abort
  <2>2. CASE ReadUser(r) \/ Rotate(r) \/ Ban(r) \/ Scrub(r)
    BY <1>3, <1>5, <2>2 DEF ReadUser, Rotate, Ban, Scrub, At, Refreshing
  <2>3. CASE Judge(r)
    <3>1. CASE Goto(r, "sessions")
      BY <1>5, <2>3, <3>1 DEF Judge, At
    <3>2. CASE ~Goto(r, "sessions")
      <4>1. PICK c \in Tokens : IsChild(c, req[r].tok) /\ Becomes(r, [Now(r, "replace") EXCEPT !.child = c])
        BY <2>3, <3>2 DEF Judge
      <4>2. /\ req'[r].pc = "replace" /\ req'[r].op = req[r].op /\ req'[r].tok = req[r].tok
            /\ req'[r].ses = req[r].ses /\ req'[r].child = c /\ req'[r].scope = req[r].scope
            /\ req'[r].got = req[r].got
        BY <1>0, <2>0, <4>1, Types DEF Becomes, Now, ReqType
      <4>3. req[r].pc = "judge" /\ UNCHANGED <<used, family, opened>>
        BY <2>3 DEF Judge, At, rows
      <4>4. req[r].tok \in Issued /\ req[r].tok # None
        BY <2>0, <4>3, NoneIsNoToken DEF Sound, Refreshing, Issued
      <4>5. c \in Issued /\ family[c] = family[req[r].tok]
        BY <4>1, <4>4 DEF TInv, RowsFit, IsChild
      <4> QED
        BY <2>0, <4>2, <4>3, <4>5 DEF Sound, Refreshing, Ending, Issued
    <3> QED
      BY <3>1, <3>2
  <2>4. CASE Replace(r)
    <3>1. req[r].pc = "replace" /\ UNCHANGED <<used, family, opened>>
      BY <2>4 DEF Replace, At, rows
    <3>2. CASE Goto(r, "recommit")
      BY <1>0, <2>0, <3>1, <3>2, GotoFields DEF Sound, Refreshing, Ending, Issued
    <3> QED
      BY <1>5, <2>4, <3>1, <3>2 DEF Replace
  <2>5. CASE EndSessions(r) /\ ~Done(r)
    <3>1. Matched(r) \subseteq opened
      BY DEF Matched
    <3>2. Becomes(r, [Now(r, "tokens") EXCEPT !.got = Matched(r)]) /\ UNCHANGED opened
      BY <2>5 DEF EndSessions, rows
    <3>3. /\ req'[r].pc = "tokens" /\ req'[r].got = Matched(r) /\ req'[r].op = req[r].op
          /\ req'[r].ses = req[r].ses /\ req'[r].scope = req[r].scope
      BY <1>0, <2>0, <3>2, Types DEF Becomes, Now, ReqType
    <3> QED
      BY <2>0, <3>1, <3>2, <3>3 DEF Sound, Refreshing, Ending
  <2>6. CASE EndOwn(r) /\ ~Done(r)
    <3>1. req[r].pc = "own" /\ req[r].op = "own" /\ req[r].ses \in opened
      BY <2>0, <2>6 DEF Sound, EndOwn, At
    <3>2. Becomes(r, [Now(r, "tokens") EXCEPT !.got = {req[r].ses}]) /\ UNCHANGED opened
      BY <2>6 DEF EndOwn
    <3>3. /\ req'[r].pc = "tokens" /\ req'[r].got = {req[r].ses} /\ req'[r].op = req[r].op
          /\ req'[r].ses = req[r].ses /\ req'[r].scope = req[r].scope
      BY <1>0, <2>0, <3>2, Types DEF Becomes, Now, ReqType
    <3> QED
      BY <3>1, <3>2, <3>3 DEF Sound, Refreshing, Ending
  <2>7. CASE SelectTokens(r)
    <3> DEFINE T == {t \in Issued \ revoked : family[t] \in req[r].got \/ req[r].op = "delete"}
    <3>1. req[r].pc = "tokens" /\ UNCHANGED <<opened, used>>
          /\ Becomes(r, [Now(r, "finish") EXCEPT !.todo = T])
      BY <2>7 DEF SelectTokens, At, rows
    <3>2. /\ req'[r].pc = "finish" /\ req'[r].todo = T /\ req'[r].op = req[r].op
          /\ req'[r].ses = req[r].ses /\ req'[r].scope = req[r].scope /\ req'[r].got = req[r].got
      <4> HIDE DEF T
      <4> QED
        BY <1>0, <2>0, <3>1, Types DEF Becomes, Now, ReqType
    <3> QED
      BY <2>0, <3>1, <3>2 DEF Sound, Refreshing, Ending, Issued
  <2> QED
    BY <1>3, <1>6, <2>1, <2>2, <2>3, <2>4, <2>5, <2>6, <2>7 DEF Serve
<1>7. ASSUME NEW r \in Reqs, Break(r) PROVE Sound(r)'
  BY <1>3, <1>7 DEF Break, Abort
<1> QED
  BY <1>1, <1>2, <1>4, <1>6, <1>7 DEF Next, GraceEnds, GoesIdle, vars

LEMMA InitTypes == ASSUME Init PROVE TInv
<1>1. /\ used \in [Tokens -> Uses] /\ family \in [Tokens -> Sessions \cup {Nobody}]
      /\ parent \in [Tokens -> Tokens \cup {None}]
      /\ tokLock \in [Tokens -> Reqs \cup {Nobody}]
      /\ sesLock \in [Sessions -> Reqs \cup {Nobody}]
  BY DEF Init, Uses
<1>2. req \in [Reqs -> ReqType] /\ \A r \in Reqs : req[r] = NoReq
  BY NoReqType DEF Init
<1>6. calls \in 0..MaxCalls /\ breaks \in 0..MaxBreaks
  BY SessionsAssumption DEF Init
<1>7. /\ user \in {"active", "banned", "deleted"} /\ shut \in BOOLEAN
      /\ opened = {} /\ ended = {} /\ idle = {} /\ cut = {} /\ revoked = {}
      /\ userLock \in Reqs \cup {Nobody}
  BY DEF Init
<1>3. TypeOK
  BY <1>1, <1>2, <1>6, <1>7, Types
<1>4. RowsFit
  BY NoneIsNoToken DEF Init, RowsFit, Issued
<1>5. ASSUME NEW r \in Reqs PROVE Sound(r)
  <2>1. req[r] = NoReq
    BY <1>2
  <2> QED
    BY <2>1 DEF Sound, Refreshing, Ending, NoReq
<1> QED
  BY <1>3, <1>4, <1>5 DEF TInv

\* Every variable keeps its type (TypeOK), for any number of requests, sessions and tokens.
THEOREM TypeCorrect == Spec => []TypeOK
<1>1. Init => TInv
  BY InitTypes
<1>2. TInv /\ [Next]_vars => TInv'
  BY TypeStep, RowsStep, SoundStep DEF TInv
<1>3. TInv => TypeOK
  BY DEF TInv
<1> QED
  BY <1>1, <1>2, <1>3, PTL DEF Spec

-----------------------------------------------------------------------------
(* The two locks *)

\* Nobody takes a lock that is held, and nobody gives back another's.
LEMMA LocksKept ==
  ASSUME TInv, NEW r \in Reqs, Call(r) \/ Serve(r) \/ Break(r), NEW q \in Reqs \ {r}
  PROVE  /\ \A t \in Tokens : tokLock[t] = q => tokLock'[t] = q
         /\ \A s \in Sessions : sesLock[s] = q => sesLock'[s] = q
         /\ userLock = q => userLock' = q
<1>0. TypeOK /\ q # Nobody
  BY SessionsAssumption DEF TInv
<1>1. CASE UNCHANGED locks
  BY <1>1 DEF locks
<1>2. CASE Release(r)
  BY <1>0, <1>2, Released DEF Release
<1>3. CASE Call(r)
  BY <1>0, <1>1, <1>3, Calls DEF Begin
<1>4. CASE Serve(r)
  <2>1. CASE \/ OpenSession(r) \/ ReadUser(r) \/ Judge(r) \/ Ban(r) \/ EndOwn(r) \/ SelectTokens(r)
    BY <1>1, <2>1 DEF OpenSession, ReadUser, Judge, Ban, EndOwn, SelectTokens
  <2>2. CASE Commit(r) \/ Recommit(r) \/ Finish(r) \/ Timeout(r)
    BY <1>2, <2>2 DEF Commit, Recommit, Finish, Timeout, Abort
  <2>3. CASE Rotate(r) \/ Replace(r)
    <3>1. UNCHANGED sesLock /\ UNCHANGED userLock
      BY <2>3 DEF Rotate, Replace
    <3>2. tokLock' = tokLock
          \/ \E t \in {req[r].tok, req[r].child} :
               tokLock[t] = Nobody /\ tokLock' = [tokLock EXCEPT ![t] = r]
      BY <2>3 DEF Rotate, Replace
    <3> QED
      BY <1>0, <3>1, <3>2, Types
  <2>4. CASE Scrub(r)
    BY <1>0, <2>4 DEF Scrub
  <2>5. CASE EndSessions(r)
    <3>1. /\ UNCHANGED tokLock /\ UNCHANGED userLock
          /\ \A s \in Sessions : sesLock'[s] = r => sesLock[s] \in {r, Nobody}
          /\ \A s \in Sessions : sesLock'[s] # r => sesLock'[s] = sesLock[s]
      BY <2>5 DEF EndSessions
    <3> QED
      BY <1>0, <3>1
  <2> QED
    BY <1>4, <2>1, <2>2, <2>3, <2>4, <2>5 DEF Serve
<1>5. CASE Break(r)
  BY <1>2, <1>5 DEF Break, Abort
<1> QED
  BY <1>3, <1>4, <1>5

(* What the locks are for. *)
LInv == TInv /\ (\A r \in Reqs : Holding(r))

\* A token whose row another request holds keeps working.
LEMMA LiveKept ==
  ASSUME LInv, NEW r \in Reqs, Call(r) \/ Serve(r) \/ Break(r), NEW q \in Reqs \ {r},
         NEW t \in Tokens, tokLock[t] = q, Live(t)
  PROVE  Live(t)'
<1>0. TypeOK /\ q # Nobody /\ Holding(r) /\ t \in Issued
  BY SessionsAssumption DEF LInv, TInv, Live, Issued
<1>1. CASE UNCHANGED rows
  BY <1>1 DEF rows, Live
<1>2. CASE Call(r)
  BY <1>0, <1>1, <1>2, Calls DEF Begin
<1>3. CASE Serve(r)
  <2>1. CASE \/ ReadUser(r) \/ Rotate(r) \/ Judge(r) \/ Replace(r) \/ Scrub(r) \/ EndSessions(r)
             \/ SelectTokens(r) \/ Timeout(r)
    BY <1>1, <2>1 DEF ReadUser, Rotate, Judge, Replace, Scrub, EndSessions, SelectTokens,
       Timeout, Abort
  <2>2. CASE Ban(r) \/ EndOwn(r)
    BY <2>2 DEF Ban, EndOwn, Live
  <2>3. CASE OpenSession(r)
    <3>1. PICK c \in Tokens : IsNext(c) /\ used' = [used EXCEPT ![c] = "unspent"]
      BY <2>3 DEF OpenSession, Insert
    <3> QED
      BY <1>0, <2>3, <3>1, Types DEF OpenSession, IsNext, Live
  <2>4. CASE Commit(r)
    <3>1. PICK c \in Tokens :
            IsNext(c) /\ used' = [used EXCEPT ![req[r].tok] = "fresh", ![c] = "unspent"]
      BY <2>4 DEF Commit, Insert
    <3>2. req[r].tok # t /\ UNCHANGED revoked
      BY <1>0, <2>4 DEF Commit, At, Holding
    <3> QED
      BY <1>0, <3>1, <3>2, Types DEF IsNext, Live
  <2>5. CASE Recommit(r)
    <3>1. PICK c \in Tokens : IsNext(c) /\ used' = [used EXCEPT ![c] = "unspent"]
      BY <2>5 DEF Recommit, Insert
    <3>2. req[r].child # t /\ revoked' = revoked \cup {req[r].child}
      BY <1>0, <2>5 DEF Recommit, At, Holding
    <3> QED
      BY <1>0, <3>1, <3>2, Types DEF IsNext, Live
  <2>6. CASE Finish(r)
    <3>1. t \notin req[r].todo
      BY <1>0, <2>6 DEF Finish
    <3> QED
      BY <2>6, <3>1 DEF Finish, Live
  <2> QED
    BY <1>3, <2>1, <2>2, <2>3, <2>4, <2>5, <2>6 DEF Serve
<1>4. CASE Break(r)
  BY <1>1, <1>4 DEF Break, Abort
<1> QED
  BY <1>2, <1>3, <1>4

LEMMA Actors ==
  ASSUME [Next]_vars
  PROVE  \/ UNCHANGED <<req, locks, opened, ended, revoked, family, cut>>
            /\ (\A t \in Tokens : used[t] = "unspent" => used'[t] = "unspent")
         \/ \E r \in Reqs : Call(r) \/ Serve(r) \/ Break(r)
<1>1. CASE UNCHANGED vars
  BY <1>1 DEF vars, rows
<1>2. ASSUME NEW t \in Tokens, GraceEnds(t)
      PROVE  /\ UNCHANGED <<req, locks, opened, ended, revoked, family, cut>>
             /\ \A u \in Tokens : used[u] = "unspent" => used'[u] = "unspent"
  <2>1. used[t] = "fresh" /\ used' = [used EXCEPT ![t] = "late"]
    BY <1>2 DEF GraceEnds
  <2> QED
    BY <1>2, <2>1 DEF GraceEnds
<1>3. ASSUME NEW s \in Sessions, GoesIdle(s)
      PROVE  UNCHANGED <<req, locks, opened, ended, revoked, family, cut, used>>
  BY <1>3 DEF GoesIdle
<1> QED
  BY <1>1, <1>2, <1>3 DEF Next

LEMMA HoldingStep ==
  ASSUME LInv, [Next]_vars
  PROVE  \A q \in Reqs : Holding(q)'
<1>0. TInv /\ TypeOK /\ \A q \in Reqs : Sound(q) /\ Holding(q)
  BY DEF LInv, TInv
<1>1. CASE UNCHANGED <<req, locks, revoked>>
           /\ (\A t \in Tokens : used[t] = "unspent" => used'[t] = "unspent")
  BY <1>0, <1>1 DEF Holding, Live, locks, Sound, Refreshing, Issued
<1>2. ASSUME NEW r \in Reqs, Call(r) \/ Serve(r) \/ Break(r), NEW q \in Reqs \ {r}
      PROVE  Holding(q)'
  <2>1. req'[q] = req[q]
    BY <1>0, <1>2, Moving, Types DEF Becomes
  <2>2. /\ req[q].pc = "commit" => req[q].tok \in Tokens
        /\ req[q].pc = "recommit" => req[q].child \in Tokens
    BY <1>0 DEF Sound, Refreshing, Issued
  <2> QED
    BY <1>0, <1>2, <2>1, <2>2, LocksKept, LiveKept DEF Holding
<1>3. ASSUME NEW r \in Reqs, req'[r].pc \notin {"commit", "recommit"} PROVE Holding(r)'
  BY <1>3 DEF Holding
<1>4. ASSUME NEW r \in Reqs, Done(r) PROVE Holding(r)'
  <2>1. req'[r].pc = "idle"
    BY <1>0, <1>4, DoneFields DEF NoReq
  <2> QED
    BY <1>3, <2>1
<1>5. ASSUME NEW r \in Reqs, NEW pc, Goto(r, pc), pc \notin {"commit", "recommit"} PROVE Holding(r)'
  BY <1>0, <1>3, <1>5, GotoFields
<1>6. ASSUME NEW r \in Reqs, NEW q \in ReqType, Becomes(r, q), q.pc \notin {"commit", "recommit"}
      PROVE  Holding(r)'
  BY <1>0, <1>3, <1>6, Types DEF Becomes
<1>7. ASSUME NEW r \in Reqs, Call(r) PROVE Holding(r)'
  <2>1. PICK b \in BegunType : Begin(r, b)
    BY <1>0, <1>7, Calls
  <2> QED
    BY <1>6, <2>1 DEF Begin, BegunType
<1>8. ASSUME NEW r \in Reqs, Serve(r) PROVE Holding(r)'
  <2>0. Sound(r) /\ req[r] \in ReqType
    BY <1>0, Types
  <2>1. CASE OpenSession(r) \/ Commit(r) \/ Recommit(r) \/ Finish(r) \/ Timeout(r)
    BY <1>4, <2>1 DEF OpenSession, Commit, Recommit, Finish, Timeout, Abort
  <2>2. CASE ReadUser(r) \/ Ban(r) \/ Scrub(r)
    BY <1>4, <1>5, <2>2 DEF ReadUser, Ban, Scrub
  <2>3. CASE Judge(r)
    <3>1. ASSUME NEW c PROVE [Now(r, "replace") EXCEPT !.child = c].pc = "replace"
      BY <2>0 DEF Now, ReqType
    <3>2. ASSUME NEW c, Becomes(r, [Now(r, "replace") EXCEPT !.child = c]) PROVE Holding(r)'
      BY <1>0, <1>3, <3>1, <3>2, Types DEF Becomes
    <3> QED
      BY <1>5, <2>3, <3>2 DEF Judge
  <2>4. CASE Rotate(r)
    <3>1. CASE Live(req[r].tok)
      <4>1. Goto(r, "commit") /\ UNCHANGED <<used, revoked>>
            /\ tokLock' = [tokLock EXCEPT ![req[r].tok] = r]
        BY <2>4, <3>1 DEF Rotate, rows
      <4>2. req[r].tok \in Tokens
        BY <2>0, <2>4 DEF Sound, Refreshing, Issued, Rotate, At
      <4>3. req'[r].pc = "commit" /\ req'[r].tok = req[r].tok
        BY <1>0, <4>1, GotoFields
      <4> QED
        BY <1>0, <3>1, <4>1, <4>2, <4>3, Types DEF Holding, Live
    <3>2. CASE ~Live(req[r].tok)
      BY <1>4, <1>5, <2>4, <3>2 DEF Rotate
    <3> QED
      BY <3>1, <3>2
  <2>5. CASE Replace(r)
    <3>1. CASE Live(req[r].child)
      <4>1. Goto(r, "recommit") /\ UNCHANGED <<used, revoked>>
            /\ tokLock' = [tokLock EXCEPT ![req[r].child] = r]
        BY <2>5, <3>1 DEF Replace, rows
      <4>2. req[r].child \in Tokens
        BY <2>0, <2>5 DEF Sound, Issued, Replace, At
      <4>3. req'[r].pc = "recommit" /\ req'[r].child = req[r].child
        BY <1>0, <4>1, GotoFields
      <4> QED
        BY <1>0, <3>1, <4>1, <4>2, <4>3, Types DEF Holding, Live
    <3>2. CASE ~Live(req[r].child)
      BY <1>5, <2>5, <3>2 DEF Replace
    <3> QED
      BY <3>1, <3>2
  <2>6. CASE EndSessions(r) \/ EndOwn(r) \/ SelectTokens(r)
    <3>1. ASSUME NEW x PROVE /\ [Now(r, "tokens") EXCEPT !.got = x].pc = "tokens"
                            /\ [Now(r, "finish") EXCEPT !.todo = x].pc = "finish"
      BY <2>0 DEF Now, ReqType
    <3>2. ASSUME NEW x, \/ Becomes(r, [Now(r, "tokens") EXCEPT !.got = x])
                       \/ Becomes(r, [Now(r, "finish") EXCEPT !.todo = x])
          PROVE Holding(r)'
      BY <1>0, <1>3, <3>1, <3>2, Types DEF Becomes
    <3> QED
      BY <1>4, <2>6, <3>2 DEF EndSessions, EndOwn, SelectTokens
  <2> QED
    BY <1>8, <2>1, <2>2, <2>3, <2>4, <2>5, <2>6 DEF Serve
<1>9. ASSUME NEW r \in Reqs, Break(r) PROVE Holding(r)'
  BY <1>4, <1>9 DEF Break, Abort
<1> QED
  BY <1>1, <1>2, <1>7, <1>8, <1>9, Actors

\* Of the session that gets a token, none is left that worked before.
LEMMA Replaced ==
  ASSUME IInv, [Next]_vars, NEW c \in Tokens, NEW s \in Sessions, NEW p \in Tokens \cup {None},
         NEW r \in Reqs, OpenSession(r) \/ Commit(r) \/ Recommit(r), Birth(c, s, p)
  PROVE  /\ \A t \in Tokens : family'[t] = s /\ Live(t)' => t = c
         /\ s \in ended => s \in cut
         /\ s \in opened => /\ sesLock[s] = Nobody /\ LiveOf(s) # {}
                            /\ Flying(r) /\ req[r].ses = s
<1>0. /\ TypeOK /\ RowsFit /\ Sound(r) /\ Holding(r) /\ LineageIsSingle /\ EndedIsDead
      /\ TInv /\ c \notin Issued /\ family' = [family EXCEPT ![c] = s]
  BY DEF IInv, Birth, Insert, TInv
<1>1. \A t \in Tokens \ {c} : family'[t] = s /\ Live(t)' => t \in LiveOf(s)
  BY <1>0, Types DEF Birth, LiveOf
<1>2. CASE s \notin opened
  <2>1. LiveOf(s) = {}
    BY <1>0, <1>2 DEF RowsFit, LiveOf, Live, Issued
  <2>2. s \notin ended
    BY <1>0, <1>2, Types
  <2> QED
    BY <1>1, <1>2, <2>1, <2>2
<1>3. CASE s \in opened
  <2>0. ~OpenSession(r)
    <3>1. CASE OpenSession(r)
      <4>1. PICK z \in Sessions \ opened, t \in Tokens : Insert(t, z, None) /\ opened' = opened \cup {z}
        BY <3>1 DEF OpenSession
      <4> QED
        BY <1>3, <4>1 DEF Birth
    <3> QED
      BY <3>1
  <2>1. \E t \in LiveOf(s) : ~Live(t)'
    <3>1. CASE Commit(r)
      <4>1. PICK d \in Tokens : /\ Insert(d, req[r].ses, req[r].tok)
                               /\ used' = [used EXCEPT ![req[r].tok] = "fresh", ![d] = "unspent"]
        BY <3>1 DEF Commit
      <4>2. /\ req[r].tok \in Issued /\ req[r].tok \in Tokens /\ family[req[r].tok] = req[r].ses
            /\ Live(req[r].tok) /\ req[r].ses \in Sessions
        BY <1>0, <3>1, Types DEF Sound, Refreshing, Holding, Commit, At, Issued
      <4>3. d = c /\ req[r].ses = s
        <5>1. /\ d \notin Issued /\ family' = [family EXCEPT ![d] = req[r].ses]
              /\ family \in [Tokens -> Sessions \cup {Nobody}]
          BY <1>0, <4>1, Types DEF Insert, IsNext
        <5>2. family[c] = Nobody /\ family[d] = Nobody
          BY <1>0, <5>1 DEF RowsFit
        <5> QED
          BY <1>0, <4>2, <5>1, <5>2, SessionsAssumption
      <4>4. used'[req[r].tok] = "fresh"
        BY <1>0, <4>1, <4>2, <4>3, Types
      <4> QED
        BY <4>2, <4>3, <4>4 DEF LiveOf, Live
    <3>2. CASE Recommit(r)
      <4>1. PICK d \in Tokens : Insert(d, req[r].ses, req[r].tok)
        BY <3>2 DEF Recommit
      <4>2. /\ req[r].child \in Tokens /\ family[req[r].child] = req[r].ses
            /\ Live(req[r].child) /\ req[r].ses \in Sessions
        BY <1>0, <3>2, Types DEF Sound, Refreshing, Holding, Recommit, At, Issued
      <4>3. req[r].ses = s
        <5>1. /\ d \notin Issued /\ family' = [family EXCEPT ![d] = req[r].ses]
              /\ family \in [Tokens -> Sessions \cup {Nobody}]
          BY <1>0, <4>1, Types DEF Insert, IsNext
        <5>2. family[c] = Nobody /\ family[d] = Nobody
          BY <1>0, <5>1 DEF RowsFit
        <5> QED
          BY <1>0, <4>2, <5>1, <5>2, SessionsAssumption
      <4>4. req[r].child \in revoked'
        BY <3>2 DEF Recommit
      <4> QED
        BY <4>2, <4>3, <4>4 DEF LiveOf, Live
    <3> QED
      BY <2>0, <3>1, <3>2
  <2>2. \A t \in Tokens : family'[t] = s /\ Live(t)' => t = c
    BY <1>0, <1>1, <2>1 DEF LineageIsSingle
  <2>3. s \in ended => s \in cut
    BY <1>0, <2>1 DEF EndedIsDead
  <2>4. sesLock[s] = Nobody /\ Flying(r) /\ req[r].ses = s
    <3>1. \E d \in Tokens : Insert(d, req[r].ses, req[r].tok) /\ sesLock[req[r].ses] = Nobody
      BY <2>0 DEF Commit, Recommit
    <3>2. PICK d \in Tokens : Insert(d, req[r].ses, req[r].tok)
      BY <3>1
    <3>3. /\ d \notin Issued /\ family' = [family EXCEPT ![d] = req[r].ses]
          /\ family \in [Tokens -> Sessions \cup {Nobody}]
      BY <1>0, <3>2, Types DEF Insert, IsNext
    <3>4. family[c] = Nobody /\ family[d] = Nobody
      BY <1>0, <3>3 DEF RowsFit
    <3>5. req[r].ses = s
      BY <1>0, <3>3, <3>4, SessionsAssumption
    <3>6. Flying(r)
      BY <2>0 DEF Flying, Commit, Recommit, At
    <3> QED
      BY <3>1, <3>5, <3>6
  <2> QED
    BY <2>1, <2>2, <2>3, <2>4
<1> QED
  BY <1>2, <1>3

LEMMA LineageStep ==
  ASSUME IInv, [Next]_vars
  PROVE  LineageIsSingle'
<1>0. TypeOK /\ RowsFit /\ LineageIsSingle /\ TInv
  BY DEF IInv, TInv
<1>1. CASE NoBirth
  BY <1>0, <1>1 DEF NoBirth, LineageIsSingle, LiveOf
<1>2. ASSUME NEW r \in Reqs, OpenSession(r) \/ Commit(r) \/ Recommit(r) PROVE LineageIsSingle'
  <2>1. PICK c \in Tokens, s \in Sessions, p \in Tokens \cup {None} : Birth(c, s, p)
    BY <1>0, <1>2, Births
  <2>2. \A t \in Tokens : family'[t] = s /\ Live(t)' => t = c
    BY <1>2, <2>1, Replaced
  <2>3. family'[c] = s /\ \A t \in Tokens \ {c} : family'[t] = family[t]
    BY <1>0, <2>1, Types DEF Birth, Insert
  <2>4. \A t \in Tokens \ {c} : Live(t)' => Live(t)
    BY <2>1 DEF Birth
  <2>5. ASSUME NEW z \in Sessions, z # s PROVE \A t, u \in LiveOf(z)' : t = u
    <3>1. LiveOf(z)' \subseteq LiveOf(z)
      BY <2>3, <2>4, <2>5 DEF LiveOf
    <3> QED
      BY <1>0, <3>1 DEF LineageIsSingle
  <2>6. \A t, u \in LiveOf(s)' : t = u
    BY <2>2 DEF LiveOf
  <2> QED
    BY <2>5, <2>6 DEF LineageIsSingle
<1> QED
  BY <1>0, <1>1, <1>2, NoBirths

-----------------------------------------------------------------------------
(* Sessions that end *)

\* Only the commit of a sign-out and revokeOwnSession's UPDATE end sessions.
LEMMA Endings ==
  ASSUME [Next]_vars, NEW s \in ended' \ ended
  PROVE  \E r \in Reqs : (Finish(r) /\ s \in req[r].got) \/ (EndOwn(r) /\ s \in cut')
<1>1. CASE UNCHANGED ended
  BY <1>1
<1>2. ASSUME NEW r \in Reqs, Call(r) PROVE UNCHANGED ended
  BY <1>2 DEF Call, SignIn, Present, SignOut, DeleteSession, AdminBan, AdminDelete, Begin, rows
<1>3. ASSUME NEW r \in Reqs, Serve(r), ~Finish(r), ~EndOwn(r) PROVE UNCHANGED ended
  BY <1>3 DEF Serve, OpenSession, ReadUser, Rotate, Commit, Judge, Replace, Recommit, Ban,
     Scrub, EndSessions, SelectTokens, Timeout, Abort, rows
<1>4. ASSUME NEW r \in Reqs, Finish(r) PROVE s \in req[r].got
  BY <1>4 DEF Finish
<1>5. ASSUME NEW r \in Reqs, EndOwn(r) PROVE s \in cut'
  BY <1>5 DEF EndOwn
<1>6. ASSUME NEW r \in Reqs, Break(r) PROVE UNCHANGED ended
  BY <1>6 DEF Break, Abort, rows
<1> QED
  BY <1>1, <1>2, <1>3, <1>4, <1>5, <1>6 DEF Next, GraceEnds, GoesIdle, vars, rows

LEMMA Cuts == [Next]_vars => cut \subseteq cut'
<1> SUFFICES ASSUME [Next]_vars PROVE cut \subseteq cut'
  OBVIOUS
<1>1. ASSUME NEW r \in Reqs, Call(r) PROVE UNCHANGED cut
  BY <1>1 DEF Call, SignIn, Present, SignOut, DeleteSession, AdminBan, AdminDelete, Begin
<1>2. ASSUME NEW r \in Reqs, Serve(r), ~EndOwn(r) PROVE UNCHANGED cut
  BY <1>2 DEF Serve, OpenSession, ReadUser, Rotate, Commit, Judge, Replace, Recommit, Ban,
     Scrub, EndSessions, SelectTokens, Finish, Timeout, Abort
<1>3. ASSUME NEW r \in Reqs, EndOwn(r) PROVE cut \subseteq cut'
  BY <1>3 DEF EndOwn
<1>4. ASSUME NEW r \in Reqs, Break(r) PROVE UNCHANGED cut
  BY <1>4 DEF Break, Abort
<1> QED
  BY <1>1, <1>2, <1>3, <1>4 DEF Next, GraceEnds, GoesIdle, vars

LEMMA EndedStep ==
  ASSUME IInv, [Next]_vars
  PROVE  EndedIsDead'
<1>0. TypeOK /\ TypeOK' /\ RowsFit /\ EndedIsDead /\ TInv
  BY TypeStep DEF IInv, TInv
<1> SUFFICES ASSUME NEW z \in ended', z \notin cut' PROVE LiveOf(z)' = {}
  BY DEF EndedIsDead
<1>1. z \in ended => LiveOf(z) = {}
  BY <1>0, Cuts DEF EndedIsDead
<1>2. CASE NoBirth
  <2>1. LiveOf(z)' \subseteq LiveOf(z)
    BY <1>2 DEF NoBirth, LiveOf
  <2>2. CASE z \in ended
    BY <1>1, <2>1, <2>2
  <2>3. CASE z \notin ended
    <3>1. PICK r \in Reqs : (Finish(r) /\ z \in req[r].got) \/ (EndOwn(r) /\ z \in cut')
      BY <2>3, Endings
    <3>2. Finish(r) /\ z \in req[r].got /\ UNCHANGED cut
      BY <3>1 DEF Finish
    <3>3. req[r].op # "own"
      BY <3>2 DEF IInv, Closing, Ending, Finish, At
    <3>4. LiveOf(z) \subseteq req[r].todo
      BY <3>2, <3>3 DEF IInv, Closing, Ending, Finish, At
    <3>5. \A t \in req[r].todo : t \in revoked'
      BY <3>2 DEF Finish
    <3> QED
      BY <2>1, <3>4, <3>5 DEF LiveOf, Live
  <2> QED
    BY <2>2, <2>3
<1>3. ASSUME NEW r \in Reqs, OpenSession(r) \/ Commit(r) \/ Recommit(r) PROVE LiveOf(z)' = {}
  <2>1. PICK c \in Tokens, s \in Sessions, p \in Tokens \cup {None} : Birth(c, s, p)
    BY <1>0, <1>3, Births
  <2>2. s \in ended => s \in cut
    BY <1>3, <2>1, Replaced
  <2>3. z \in ended /\ z # s
    BY <2>1, <2>2, Cuts DEF Birth
  <2>4. family'[c] = s /\ \A t \in Tokens \ {c} : family'[t] = family[t]
    BY <1>0, <2>1, Types DEF Birth, Insert
  <2>5. LiveOf(z)' \subseteq LiveOf(z)
    BY <2>1, <2>3, <2>4 DEF LiveOf, Birth
  <2> QED
    BY <1>1, <2>3, <2>5
<1> QED
  BY <1>0, <1>2, <1>3, NoBirths

LEMMA ClosingStep ==
  ASSUME IInv, [Next]_vars
  PROVE  \A q \in Reqs : Closing(q)'
<1>0. /\ TInv /\ TypeOK /\ TypeOK' /\ RowsFit /\ LInv
      /\ \A q \in Reqs : Sound(q) /\ Closing(q)
  BY TypeStep DEF IInv, TInv, LInv
<1>1. ASSUME NEW q \in Reqs, req'[q] = req[q], \A s \in Sessions : sesLock[s] = q => sesLock'[s] = q
      PROVE  Closing(q)'
  <2>1. CASE ~Ending(q)
    BY <1>1, <2>1 DEF Closing, Ending
  <2>2. CASE Ending(q) /\ req[q].op = "own"
    BY <1>0, <1>1, <2>2, Cuts DEF Closing, Ending
  <2>3. CASE Ending(q) /\ req[q].op # "own"
    <3>1. req[q].got \subseteq opened /\ req[q].got \subseteq Sessions
      BY <1>0, <2>3, Types DEF Sound
    <3>2. ASSUME NEW s \in req[q].got PROVE LiveOf(s)' \subseteq LiveOf(s)
      <4>1. CASE NoBirth
        BY <4>1 DEF NoBirth, LiveOf
      <4>2. ASSUME NEW r \in Reqs, OpenSession(r) \/ Commit(r) \/ Recommit(r)
            PROVE LiveOf(s)' \subseteq LiveOf(s)
        <5>1. PICK c \in Tokens, z \in Sessions, p \in Tokens \cup {None} : Birth(c, z, p)
          BY <1>0, <4>2, Births
        <5>2. z \in opened => sesLock[z] = Nobody
          BY <4>2, <5>1, Replaced
        <5>3. sesLock[s] = q /\ q # Nobody
          BY <1>0, <2>3, SessionsAssumption DEF Closing
        <5>4. z # s
          BY <3>1, <5>2, <5>3
        <5>5. family'[c] = z /\ \A t \in Tokens \ {c} : family'[t] = family[t]
          BY <1>0, <5>1, Types DEF Birth, Insert
        <5> QED
          BY <5>1, <5>4, <5>5 DEF LiveOf, Birth
      <4> QED
        BY <1>0, <4>1, <4>2, NoBirths
    <3> QED
      BY <1>0, <1>1, <2>3, <3>1, <3>2 DEF Closing, Ending
  <2> QED
    BY <2>1, <2>2, <2>3
<1>2. CASE UNCHANGED <<req, locks>>
  BY <1>1, <1>2 DEF locks
<1>3. ASSUME NEW r \in Reqs, Call(r) \/ Serve(r) \/ Break(r), NEW q \in Reqs \ {r} PROVE Closing(q)'
  <2>1. req'[q] = req[q]
    BY <1>0, <1>3, Moving, Types DEF Becomes
  <2> QED
    BY <1>0, <1>1, <1>3, <2>1, LocksKept
<1>4. ASSUME NEW r \in Reqs, req'[r].pc \notin {"tokens", "finish"} PROVE Closing(r)'
  BY <1>4 DEF Closing, Ending
<1>5. ASSUME NEW r \in Reqs, Done(r) PROVE Closing(r)'
  <2>1. req'[r].pc = "idle"
    BY <1>0, <1>5, DoneFields DEF NoReq
  <2> QED
    BY <1>4, <2>1
<1>6. ASSUME NEW r \in Reqs, NEW pc, Goto(r, pc), pc \notin {"tokens", "finish"} PROVE Closing(r)'
  BY <1>0, <1>4, <1>6, GotoFields
<1>7. ASSUME NEW r \in Reqs, Call(r) PROVE Closing(r)'
  <2>1. PICK b \in BegunType : Begin(r, b)
    BY <1>0, <1>7, Calls
  <2>2. req'[r] = b
    BY <1>0, <2>1, Types DEF Begin, Becomes
  <2> QED
    BY <1>4, <2>2 DEF BegunType
<1>8. ASSUME NEW r \in Reqs, Serve(r) PROVE Closing(r)'
  <2>0. Sound(r) /\ req[r] \in ReqType
    BY <1>0, Types
  <2>1. CASE OpenSession(r) \/ Commit(r) \/ Recommit(r) \/ Finish(r) \/ Timeout(r)
    BY <1>5, <2>1 DEF OpenSession, Commit, Recommit, Finish, Timeout, Abort
  <2>2. CASE ReadUser(r) \/ Rotate(r) \/ Replace(r) \/ Ban(r) \/ Scrub(r)
    BY <1>5, <1>6, <2>2 DEF ReadUser, Rotate, Replace, Ban, Scrub
  <2>3. CASE Judge(r)
    <3>1. ASSUME NEW c, Becomes(r, [Now(r, "replace") EXCEPT !.child = c]) PROVE Closing(r)'
      <4>1. req'[r].pc = "replace"
        BY <1>0, <2>0, <3>1, Types DEF Becomes, Now, ReqType
      <4> QED
        BY <1>4, <4>1
    <3> QED
      BY <1>6, <2>3, <3>1 DEF Judge
  <2>4. CASE EndSessions(r) /\ ~Done(r)
    <3> DEFINE M == Matched(r)
    <3>1. /\ Becomes(r, [Now(r, "tokens") EXCEPT !.got = M]) /\ req[r].pc = "sessions"
          /\ M \subseteq opened /\ sesLock' = [s \in Sessions |-> IF s \in M THEN r ELSE sesLock[s]]
      BY <2>4 DEF EndSessions, At, Matched
    <3>2. req'[r].pc = "tokens" /\ req'[r].got = M /\ req'[r].op = req[r].op
      <4> HIDE DEF M
      <4> QED
        BY <1>0, <2>0, <3>1, Types DEF Becomes, Now, ReqType
    <3>3. req'[r].op # "own"
      BY <2>0, <3>1, <3>2 DEF Sound
    <3>4. \A s \in M : sesLock'[s] = r
      BY <1>0, <3>1, Types
    <3> QED
      BY <3>2, <3>3, <3>4 DEF Closing, Ending
  <2>5. CASE EndOwn(r) /\ ~Done(r)
    <3>1. /\ Becomes(r, [Now(r, "tokens") EXCEPT !.got = {req[r].ses}]) /\ req[r].op = "own"
          /\ req[r].ses \in cut'
      BY <2>0, <2>5 DEF EndOwn, At, Sound
    <3>2. req'[r].pc = "tokens" /\ req'[r].got = {req[r].ses} /\ req'[r].op = "own"
      BY <1>0, <2>0, <3>1, Types DEF Becomes, Now, ReqType
    <3> QED
      BY <3>1, <3>2 DEF Closing, Ending
  <2>6. CASE SelectTokens(r)
    <3> DEFINE T == {t \in Issued \ revoked : family[t] \in req[r].got \/ req[r].op = "delete"}
    <3>1. /\ Becomes(r, [Now(r, "finish") EXCEPT !.todo = T]) /\ req[r].pc = "tokens"
          /\ UNCHANGED <<cut, used, revoked, family, sesLock>>
      BY <2>6 DEF SelectTokens, At, rows, locks
    <3>2. /\ req'[r].pc = "finish" /\ req'[r].todo = T /\ req'[r].op = req[r].op
          /\ req'[r].got = req[r].got
      <4> HIDE DEF T
      <4> QED
        BY <1>0, <2>0, <3>1, Types DEF Becomes, Now, ReqType
    <3>3. \A s \in req[r].got : LiveOf(s)' \subseteq T
      BY <3>1 DEF LiveOf, Live, Issued
    <3> QED
      BY <1>0, <3>1, <3>2, <3>3 DEF Closing, Ending
  <2> QED
    BY <1>5, <1>8, <2>1, <2>2, <2>3, <2>4, <2>5, <2>6 DEF Serve
<1>9. ASSUME NEW r \in Reqs, Break(r) PROVE Closing(r)'
  BY <1>5, <1>9 DEF Break, Abort
<1> QED
  BY <1>2, <1>3, <1>7, <1>8, <1>9, Actors

LEMMA IInvInit == Init => IInv
<1> SUFFICES ASSUME Init PROVE IInv
  OBVIOUS
<1>1. TInv
  BY InitTypes
<1>2. Issued = {} /\ cut = {} /\ ended = {} /\ \A r \in Reqs : req[r] = NoReq
  BY DEF Init, Issued
<1>3. ASSUME NEW r \in Reqs PROVE Holding(r) /\ Closing(r)
  <2>1. req[r] = NoReq
    BY <1>2
  <2> QED
    BY <2>1 DEF Holding, Closing, Ending, NoReq
<1>4. \A s \in Sessions : LiveOf(s) = {}
  BY <1>2 DEF LiveOf, Live, Issued
<1> QED
  BY <1>1, <1>2, <1>3, <1>4 DEF IInv, TInv, LineageIsSingle, EndedIsDead

LEMMA IInvStep == IInv /\ [Next]_vars => IInv'
<1> SUFFICES ASSUME IInv, [Next]_vars PROVE IInv'
  OBVIOUS
<1>1. TInv /\ LInv
  BY DEF IInv, TInv, LInv
<1> QED
  BY <1>1, TypeStep, RowsStep, SoundStep, HoldingStep, ClosingStep, LineageStep, EndedStep DEF IInv

\* At most one refresh token of a session works at any time (LineageIsSingle), whatever
\* retries, tabs, sign-outs and lost connections do.
THEOREM LineageSingle == Spec => []LineageIsSingle
<1>1. IInv => LineageIsSingle
  BY DEF IInv
<1> QED
  BY <1>1, IInvInit, IInvStep, PTL DEF Spec

\* A session that is over has no token that works (EndedIsDead), a rotation caught half
\* way included, unless DELETE /sessions/:id ended it.
THEOREM EndedDead == Spec => []EndedIsDead
<1>1. IInv => EndedIsDead
  BY DEF IInv
<1> QED
  BY <1>1, IInvInit, IInvStep, PTL DEF Spec

-----------------------------------------------------------------------------
(* Banned and deleted users *)

LEMMA EndedGrows == [Next]_vars => ended \subseteq ended'
<1> SUFFICES ASSUME [Next]_vars PROVE ended \subseteq ended'
  OBVIOUS
<1>1. ASSUME NEW r \in Reqs, Call(r) PROVE UNCHANGED ended
  BY <1>1 DEF Call, SignIn, Present, SignOut, DeleteSession, AdminBan, AdminDelete, Begin, rows
<1>2. ASSUME NEW r \in Reqs, Serve(r) PROVE ended \subseteq ended'
  BY <1>2 DEF Serve, OpenSession, ReadUser, Rotate, Commit, Judge, Replace, Recommit, Ban,
     Scrub, EndSessions, EndOwn, SelectTokens, Finish, Timeout, Abort, rows
<1>3. ASSUME NEW r \in Reqs, Break(r) PROVE UNCHANGED ended
  BY <1>3 DEF Break, Abort, rows
<1> QED
  BY <1>1, <1>2, <1>3 DEF Next, GraceEnds, GoesIdle, vars, rows

\* Nobody is unbanned, and while a user is not active no refresh gets past the check.
LEMMA NoUnban ==
  ASSUME TInv, [Next]_vars, user # "active"
  PROVE  /\ user' # "active"
         /\ \A q \in Reqs : Flying(q)' => Flying(q) /\ req'[q].ses = req[q].ses
<1>0. TypeOK /\ \A q \in Reqs : req[q] \in ReqType
  BY Types DEF TInv
<1>1. ASSUME NEW r \in Reqs, Call(r) PROVE UNCHANGED user
  BY <1>1 DEF Call, SignIn, Present, SignOut, DeleteSession, AdminBan, AdminDelete, Begin, rows
<1>2. ASSUME NEW r \in Reqs, Serve(r) PROVE user' # "active"
  BY <1>2 DEF Serve, OpenSession, ReadUser, Rotate, Commit, Judge, Replace, Recommit, Ban,
     Scrub, EndSessions, EndOwn, SelectTokens, Finish, Timeout, Abort, rows
<1>3. ASSUME NEW r \in Reqs, Break(r) PROVE UNCHANGED user
  BY <1>3 DEF Break, Abort, rows
<1>4. user' # "active"
  BY <1>1, <1>2, <1>3 DEF Next, GraceEnds, GoesIdle, vars, rows
<1>5. CASE UNCHANGED req
  BY <1>4, <1>5 DEF Flying
<1>6. ASSUME NEW r \in Reqs, Call(r) \/ Serve(r) \/ Break(r), NEW q \in Reqs \ {r}
      PROVE  req'[q] = req[q]
  BY <1>0, <1>6, Moving, Types DEF Becomes
<1>7. ASSUME NEW r \in Reqs, Done(r) PROVE ~Flying(r)'
  <2>1. req'[r].pc = "idle"
    BY <1>0, <1>7, DoneFields DEF NoReq
  <2> QED
    BY <2>1 DEF Flying
<1>8. ASSUME NEW r \in Reqs, NEW pc, Goto(r, pc), pc = "sessions" \/ Flying(r)
      PROVE  Flying(r)' => Flying(r) /\ req'[r].ses = req[r].ses
  <2>1. req'[r].pc = pc /\ req'[r].ses = req[r].ses
    BY <1>0, <1>8, GotoFields
  <2> QED
    BY <1>8, <2>1 DEF Flying
<1>9. ASSUME NEW r \in Reqs, Call(r) PROVE ~Flying(r)'
  <2>1. PICK b \in BegunType : Begin(r, b)
    BY <1>0, <1>9, Calls
  <2>2. req'[r] = b
    BY <1>0, <2>1, Types DEF Begin, Becomes
  <2> QED
    BY <2>2 DEF BegunType, Flying
<1>10. ASSUME NEW r \in Reqs, Serve(r)
       PROVE  Flying(r)' => Flying(r) /\ req'[r].ses = req[r].ses
  <2>1. CASE OpenSession(r) \/ Commit(r) \/ Recommit(r) \/ Finish(r) \/ Timeout(r)
    BY <1>7, <2>1 DEF OpenSession, Commit, Recommit, Finish, Timeout, Abort
  <2>2. CASE ReadUser(r) \/ Rotate(r) \/ Replace(r) \/ Ban(r) \/ Scrub(r)
    BY <1>7, <1>8, <2>2 DEF ReadUser, Rotate, Replace, Ban, Scrub, Flying, At
  <2>3. CASE Judge(r)
    <3>1. ASSUME NEW c, Becomes(r, [Now(r, "replace") EXCEPT !.child = c])
          PROVE  req'[r].ses = req[r].ses
      BY <1>0, <3>1, Types DEF Becomes, Now, ReqType
    <3> QED
      BY <1>8, <2>3, <3>1 DEF Judge, Flying, At
  <2>4. CASE EndSessions(r) \/ EndOwn(r) \/ SelectTokens(r)
    <3>1. ASSUME NEW x PROVE /\ [Now(r, "tokens") EXCEPT !.got = x].pc = "tokens"
                            /\ [Now(r, "finish") EXCEPT !.todo = x].pc = "finish"
      BY <1>0 DEF Now, ReqType
    <3>2. ASSUME NEW x, \/ Becomes(r, [Now(r, "tokens") EXCEPT !.got = x])
                       \/ Becomes(r, [Now(r, "finish") EXCEPT !.todo = x])
          PROVE ~Flying(r)'
      BY <1>0, <3>1, <3>2, Types DEF Becomes, Flying
    <3> QED
      BY <1>7, <2>4, <3>2 DEF EndSessions, EndOwn, SelectTokens
  <2> QED
    BY <1>10, <2>1, <2>2, <2>3, <2>4 DEF Serve
<1>11. ASSUME NEW r \in Reqs, Break(r) PROVE ~Flying(r)'
  BY <1>7, <1>11 DEF Break, Abort
<1>12. ASSUME NEW r \in Reqs, Call(r) \/ Serve(r) \/ Break(r), NEW q \in Reqs
       PROVE  Flying(q)' => Flying(q) /\ req'[q].ses = req[q].ses
  <2>1. CASE q = r
    BY <1>9, <1>10, <1>11, <1>12, <2>1
  <2>2. CASE q # r
    BY <1>6, <1>12, <2>2 DEF Flying
  <2> QED
    BY <2>1, <2>2
<1> QED
  BY <1>4, <1>5, <1>12 DEF Next, GraceEnds, GoesIdle, vars

\* A deletion keeps new sessions out: their INSERT waits for the user's row.
LEMMA Openings ==
  ASSUME TInv, [Next]_vars, userLock # Nobody
  PROVE  UNCHANGED opened
<1>1. ASSUME NEW r \in Reqs, OpenSession(r) PROVE FALSE
  BY <1>1 DEF OpenSession
<1>2. ASSUME NEW r \in Reqs, Commit(r) \/ Recommit(r) PROVE UNCHANGED opened
  BY <1>2 DEF Commit, Recommit
<1> QED
  BY <1>1, <1>2, NoBirths DEF NoBirth

LEMMA BanningKept ==
  ASSUME SInv, [Next]_vars, NEW q \in Reqs, req'[q] = req[q], userLock = q => userLock' = q
  PROVE  Banning(q)'
<1>0. TInv /\ Banning(q) /\ q # Nobody /\ req[q] \in ReqType
  BY Types, SessionsAssumption DEF SInv, IInv, TInv
<1>1. CASE req[q].op = "delete" /\ req[q].pc \in {"sessions", "tokens", "finish"}
  <2>1. userLock = q /\ UNCHANGED opened /\ ended \subseteq ended'
    BY <1>0, <1>1, Openings, EndedGrows DEF Banning
  <2> QED
    BY <1>0, <1>1, <2>1 DEF Banning, Ending
<1>2. CASE req[q].op = "ban" /\ req[q].pc \in {"sessions", "tokens", "finish"}
  <2>1. user # "active"
    BY <1>0, <1>2 DEF Banning
  <2>2. /\ user' # "active" /\ ended \subseteq ended'
        /\ \A p \in Reqs : Flying(p)' => Flying(p) /\ req'[p].ses = req[p].ses
    BY <1>0, <2>1, NoUnban, EndedGrows
  <2>3. Ending(q) => \A p \in Reqs : Flying(p) => req[p].ses \in req[q].got \cup ended
    BY <1>0, <1>2 DEF Banning
  <2> QED
    BY <1>2, <2>2, <2>3 DEF Banning, Ending
<1> QED
  BY <1>1, <1>2 DEF Banning

LEMMA BanningStep ==
  ASSUME SInv, [Next]_vars
  PROVE  \A q \in Reqs : Banning(q)'
<1>0. TInv /\ TypeOK /\ \A q \in Reqs : Sound(q) /\ Banning(q)
  BY DEF SInv, IInv, TInv
<1>1. CASE UNCHANGED <<req, locks>>
  BY <1>1, BanningKept DEF locks
<1>2. ASSUME NEW r \in Reqs, Call(r) \/ Serve(r) \/ Break(r), NEW q \in Reqs \ {r} PROVE Banning(q)'
  <2>1. req'[q] = req[q]
    BY <1>0, <1>2, Moving, Types DEF Becomes
  <2> QED
    BY <1>0, <1>2, <2>1, BanningKept, LocksKept
<1>3. ASSUME NEW r \in Reqs, req'[r].op \notin {"ban", "delete"} PROVE Banning(r)'
  BY <1>3 DEF Banning
<1>4. ASSUME NEW r \in Reqs, Done(r) PROVE Banning(r)'
  <2>1. req'[r].op = "none"
    BY <1>0, <1>4, DoneFields DEF NoReq
  <2> QED
    BY <1>3, <2>1
<1>5. ASSUME NEW r \in Reqs, NEW pc, Goto(r, pc), Refreshing(r) PROVE Banning(r)'
  <2>1. req'[r].op = "refresh"
    BY <1>0, <1>5, GotoFields DEF Sound
  <2> QED
    BY <1>3, <2>1
<1>6. ASSUME NEW r \in Reqs, Call(r) PROVE Banning(r)'
  <2>1. PICK b \in BegunType : Begin(r, b)
    BY <1>0, <1>6, Calls
  <2>2. req'[r] = b
    BY <1>0, <2>1, Types DEF Begin, Becomes
  <2> QED
    BY <2>2 DEF BegunType, Banning
<1>7. ASSUME NEW r \in Reqs, Serve(r) PROVE Banning(r)'
  <2>0. Sound(r) /\ req[r] \in ReqType /\ Banning(r)
    BY <1>0, Types
  <2>1. CASE OpenSession(r) \/ Commit(r) \/ Recommit(r) \/ Finish(r) \/ Timeout(r)
    BY <1>4, <2>1 DEF OpenSession, Commit, Recommit, Finish, Timeout, Abort
  <2>2. CASE ReadUser(r) \/ Rotate(r) \/ Replace(r)
    BY <1>4, <1>5, <2>2 DEF ReadUser, Rotate, Replace, Refreshing, At
  <2>3. CASE Judge(r)
    <3>1. ASSUME NEW c, Becomes(r, [Now(r, "replace") EXCEPT !.child = c]) PROVE Banning(r)'
      <4>1. req'[r].op = "refresh"
        BY <1>0, <2>0, <2>3, <3>1, Types DEF Becomes, Now, ReqType, Sound, Refreshing, Judge, At
      <4> QED
        BY <1>3, <4>1
    <3> QED
      BY <1>5, <2>3, <3>1 DEF Judge, Refreshing, At
  <2>4. CASE Ban(r) /\ ~Done(r)
    <3>1. req'[r].op = "ban" /\ req'[r].pc = "sessions" /\ user' = "banned"
      BY <1>0, <2>0, <2>4, GotoFields DEF Ban, At, Sound
    <3> QED
      BY <3>1 DEF Banning, Ending
  <2>5. CASE Scrub(r) /\ ~Done(r)
    <3>1. req'[r].op = "delete" /\ req'[r].pc = "sessions" /\ userLock' = r
      BY <1>0, <2>0, <2>5, GotoFields DEF Scrub, At, Sound
    <3> QED
      BY <3>1 DEF Banning, Ending
  <2>6. CASE EndSessions(r) /\ ~Done(r)
    <3> DEFINE M == Matched(r)
    <3>1. /\ Becomes(r, [Now(r, "tokens") EXCEPT !.got = M]) /\ req[r].pc = "sessions"
          /\ UNCHANGED <<user, opened, ended, userLock>>
      BY <2>6 DEF EndSessions, At, rows
    <3>2. req'[r].pc = "tokens" /\ req'[r].got = M /\ req'[r].op = req[r].op
      <4> HIDE DEF M
      <4> QED
        BY <1>0, <2>0, <3>1, Types DEF Becomes, Now, ReqType
    <3>3. CASE req[r].op \in {"ban", "delete"}
      <4>1. opened \subseteq M \cup ended
        BY <1>0, <2>0, <3>3, Types DEF Matched, Sound
      <4>2. ASSUME user # "active", NEW p \in Reqs, Flying(p)' PROVE req'[p].ses \in M \cup ended
        <5>1. Flying(p) /\ req'[p].ses = req[p].ses
          BY <1>0, <4>2, NoUnban
        <5> QED
          BY <1>0, <4>1, <5>1 DEF Sound, Refreshing, Flying
      <4> HIDE DEF M
      <4> QED
        BY <2>0, <3>1, <3>2, <3>3, <4>1, <4>2 DEF Banning, Ending
    <3> QED
      BY <1>3, <3>2, <3>3
  <2>7. CASE EndOwn(r) /\ ~Done(r)
    <3>1. Becomes(r, [Now(r, "tokens") EXCEPT !.got = {req[r].ses}]) /\ req[r].op = "own"
      BY <2>0, <2>7 DEF EndOwn, At, Sound
    <3>2. req'[r].op = "own"
      BY <1>0, <2>0, <3>1, Types DEF Becomes, Now, ReqType
    <3> QED
      BY <1>3, <3>2
  <2>8. CASE SelectTokens(r)
    <3> DEFINE T == {t \in Issued \ revoked : family[t] \in req[r].got \/ req[r].op = "delete"}
    <3>1. /\ Becomes(r, [Now(r, "finish") EXCEPT !.todo = T]) /\ req[r].pc = "tokens"
          /\ UNCHANGED <<user, opened, ended, userLock>>
      BY <2>8 DEF SelectTokens, At, rows, locks
    <3>2. req'[r].pc = "finish" /\ req'[r].got = req[r].got /\ req'[r].op = req[r].op
      <4> HIDE DEF T
      <4> QED
        BY <1>0, <2>0, <3>1, Types DEF Becomes, Now, ReqType
    <3>3. ASSUME user # "active", NEW p \in Reqs, Flying(p)'
          PROVE  Flying(p) /\ req'[p].ses = req[p].ses
      BY <1>0, <3>3, NoUnban
    <3> QED
      BY <2>0, <3>1, <3>2, <3>3 DEF Banning, Ending
  <2> QED
    BY <1>4, <1>7, <2>1, <2>2, <2>3, <2>4, <2>5, <2>6, <2>7, <2>8 DEF Serve
<1>8. ASSUME NEW r \in Reqs, Break(r) PROVE Banning(r)'
  BY <1>4, <1>8 DEF Break, Abort
<1> QED
  BY <1>1, <1>2, <1>6, <1>7, <1>8, Actors

\* A request that signs a banned or deleted user out leaves nobody behind.
LEMMA BarredStep ==
  ASSUME SInv, [Next]_vars
  PROVE  Barred'
<1>0. /\ TInv /\ TypeOK /\ Barred /\ \A q \in Reqs : Sound(q) /\ Banning(q)
  BY DEF SInv, IInv, TInv
<1>1. ASSUME user # "active", \A q \in Reqs : Flying(q) => req[q].ses \in ended'
      PROVE  Barred'
  BY <1>0, <1>1, NoUnban DEF Barred
<1>2. CASE shut
  BY <1>0, <1>1, <1>2, EndedGrows DEF Barred
<1>3. CASE ~shut /\ shut'
  <2>1. PICK r \in Reqs : \/ EndSessions(r) /\ Matched(r) = {} /\ req[r].op = "ban"
                          \/ Finish(r) /\ req[r].op \in {"ban", "delete"}
    <3>1. ASSUME NEW r \in Reqs, Call(r) PROVE UNCHANGED shut
      BY <3>1 DEF Call, SignIn, Present, SignOut, DeleteSession, AdminBan, AdminDelete, Begin
    <3>2. ASSUME NEW r \in Reqs, Serve(r), ~EndSessions(r), ~Finish(r) PROVE UNCHANGED shut
      BY <3>2 DEF Serve, OpenSession, ReadUser, Rotate, Commit, Judge, Replace, Recommit, Ban,
         Scrub, EndOwn, SelectTokens, Timeout, Abort
    <3>3. ASSUME NEW r \in Reqs, Break(r) PROVE UNCHANGED shut
      BY <3>3 DEF Break, Abort
    <3>4. ASSUME NEW r \in Reqs, EndSessions(r) PROVE Matched(r) = {} /\ req[r].op = "ban"
      BY <1>3, <3>4 DEF EndSessions
    <3>5. ASSUME NEW r \in Reqs, Finish(r) PROVE req[r].op \in {"ban", "delete"}
      BY <1>3, <3>5 DEF Finish
    <3> QED
      BY <1>3, <3>1, <3>2, <3>3, <3>4, <3>5 DEF Next, GraceEnds, GoesIdle, vars
  <2>2. CASE EndSessions(r) /\ Matched(r) = {} /\ req[r].op = "ban"
    <3>1. user # "active" /\ req[r].scope = Sessions
      BY <1>0, <2>2 DEF Banning, Sound, EndSessions, At
    <3>2. opened \subseteq ended
      BY <1>0, <2>2, <3>1, Types DEF Matched
    <3> QED
      BY <1>0, <1>1, <3>1, <3>2, EndedGrows DEF Sound, Refreshing, Flying
  <2>3. CASE Finish(r) /\ req[r].op = "ban"
    <3>1. /\ user # "active" /\ ended' = ended \cup req[r].got
          /\ \A q \in Reqs : Flying(q) => req[q].ses \in req[r].got \cup ended
      BY <1>0, <2>3 DEF Banning, Finish, At, Ending
    <3> QED
      BY <1>1, <3>1
  <2>4. CASE Finish(r) /\ req[r].op = "delete"
    <3>1. /\ opened \subseteq ended' /\ user' = "deleted"
      BY <1>0, <2>4 DEF Banning, Finish, At, Ending
    <3>2. ASSUME NEW q \in Reqs, Flying(q)' PROVE req'[q].ses \in ended'
      <4>1. Sound(q)' /\ UNCHANGED opened
        BY <1>0, <2>4, SoundStep DEF Finish
      <4> QED
        BY <3>1, <3>2, <4>1 DEF Sound, Refreshing, Flying
    <3> QED
      BY <3>1, <3>2 DEF Barred
  <2> QED
    BY <2>1, <2>2, <2>3, <2>4
<1>4. CASE ~shut'
  BY <1>4 DEF Barred
<1> QED
  BY <1>2, <1>3, <1>4

LEMMA SInvInit == Init => SInv
<1> SUFFICES ASSUME Init PROVE SInv
  OBVIOUS
<1>1. \A r \in Reqs : req[r] = NoReq
  BY DEF Init
<1>2. ASSUME NEW r \in Reqs PROVE Banning(r)
  <2>1. req[r] = NoReq
    BY <1>1
  <2> QED
    BY <2>1 DEF Banning, Ending, NoReq
<1>3. Barred
  BY DEF Init, Barred
<1> QED
  BY <1>2, <1>3, IInvInit DEF SInv

LEMMA SInvStep == SInv /\ [Next]_vars => SInv'
BY IInvStep, BanningStep, BarredStep DEF SInv

\* Once a ban or a deletion has signed the user out, no refresh gives a token (ShutOut).
THEOREM ShutForGood == Spec => ShutOut
<1> DEFINE A == shut => \A t \in Tokens :
       used[t] = "unissued" /\ used'[t] # "unissued" => parent'[t] = None \/ family'[t] \in cut
<1>1. SInv /\ [Next]_vars => [A]_vars
  <2> SUFFICES ASSUME SInv, [Next]_vars, shut, NEW t \in Tokens,
                      used[t] = "unissued", used'[t] # "unissued"
               PROVE  parent'[t] = None \/ family'[t] \in cut
    OBVIOUS
  <2>1. TInv /\ TypeOK /\ IInv /\ Barred
    BY DEF SInv, IInv, TInv
  <2>2. t \notin Issued /\ t \in Issued'
    BY DEF Issued
  <2>3. PICK r \in Reqs : OpenSession(r) \/ Commit(r) \/ Recommit(r)
    BY <2>1, <2>2, NoBirths DEF NoBirth
  <2>4. PICK c \in Tokens, s \in Sessions, p \in Tokens \cup {None} : Birth(c, s, p)
    BY <2>1, <2>3, Births
  <2>5. t = c /\ parent'[t] = p /\ family'[t] = s
    BY <2>1, <2>2, <2>4, Types DEF Birth, Insert
  <2>6. CASE p = None
    BY <2>5, <2>6
  <2>7. CASE p # None
    <3>1. s \in opened
      BY <2>4, <2>7 DEF Birth
    <3>2. Flying(r) /\ req[r].ses = s /\ (s \in ended => s \in cut)
      BY <2>1, <2>3, <2>4, <3>1, Replaced
    <3> QED
      BY <2>1, <2>5, <3>2 DEF Barred
  <2> QED
    BY <2>6, <2>7
<1> QED
  BY <1>1, SInvInit, SInvStep, PTL DEF Spec, ShutOut

-----------------------------------------------------------------------------
(* The contract *)

\* A token born in one session leaves the others as they are.
LEMMA Elsewhere ==
  ASSUME IInv, [Next]_vars, NEW r \in Reqs, OpenSession(r) \/ Commit(r) \/ Recommit(r),
         NEW c \in Tokens, NEW s \in Sessions, NEW p \in Tokens \cup {None}, Birth(c, s, p),
         NEW t \in Tokens \ {c}, family[t] # s, Live(t)
  PROVE  Live(t)'
<1>0. TypeOK /\ TInv /\ Sound(r) /\ t \in Issued /\ used \in [Tokens -> Uses]
  BY Types DEF IInv, TInv, Live, Issued
<1>1. CASE OpenSession(r)
  <2>1. PICK d \in Tokens : IsNext(d) /\ used' = [used EXCEPT ![d] = "unspent"]
    BY <1>1 DEF OpenSession, Insert
  <2>2. UNCHANGED revoked
    BY <1>1 DEF OpenSession
  <2> QED
    BY <1>0, <2>1, <2>2 DEF IsNext, Live
<1>2. CASE Commit(r) \/ Recommit(r)
  <2>1. s \in opened => req[r].ses = s
    BY <1>2, Replaced
  <2>2. s \in opened
    <3>1. UNCHANGED opened
      BY <1>2 DEF Commit, Recommit
    <3> QED
      BY <3>1 DEF Birth
  <2>3. CASE Commit(r)
    <3>1. PICK d \in Tokens :
            IsNext(d) /\ used' = [used EXCEPT ![req[r].tok] = "fresh", ![d] = "unspent"]
      BY <2>3 DEF Commit, Insert
    <3>2. req[r].tok # t /\ UNCHANGED revoked
      BY <1>0, <2>1, <2>2, <2>3 DEF Commit, At, Sound, Refreshing
    <3> QED
      BY <1>0, <3>1, <3>2 DEF IsNext, Live
  <2>4. CASE Recommit(r)
    <3>1. PICK d \in Tokens : IsNext(d) /\ used' = [used EXCEPT ![d] = "unspent"]
      BY <2>4 DEF Recommit, Insert
    <3>2. req[r].child # t /\ revoked' = revoked \cup {req[r].child}
      BY <1>0, <2>1, <2>2, <2>4 DEF Recommit, At, Sound
    <3> QED
      BY <1>0, <3>1, <3>2 DEF IsNext, Live
  <2> QED
    BY <1>2, <2>3, <2>4
<1> QED
  BY <1>1, <1>2

LEMMA ContractStep ==
  ASSUME IInv, [Next]_vars
  PROVE  Contract!Next
<1>0. /\ TypeOK /\ TInv /\ LineageIsSingle /\ RowsFit
  BY DEF IInv, TInv
<1>1. CASE NoBirth
  <2> DEFINE S == {s \in Sessions : LiveOf(s)' = {}}
  <2>1. ASSUME NEW s \in Sessions PROVE LiveOf(s)' = IF s \in S THEN {} ELSE LiveOf(s)
    <3>1. LiveOf(s)' \subseteq LiveOf(s)
      BY <1>1 DEF NoBirth, LiveOf
    <3>2. \A t, u \in LiveOf(s) : t = u
      BY <1>0 DEF LineageIsSingle
    <3> QED
      BY <3>1, <3>2
  <2>2. [s \in Sessions |-> LiveOf(s)]'
        = [s \in Sessions |-> IF s \in S THEN {} ELSE [z \in Sessions |-> LiveOf(z)][s]]
    BY <2>1
  <2>3. opened' = opened /\ Issued' = Issued /\ S \in SUBSET Sessions
    BY <1>1 DEF NoBirth
  <2>4. Contract!End(S)
    BY <2>2, <2>3 DEF Contract!End
  <2> QED
    BY <2>3, <2>4 DEF Contract!Next
<1>2. ASSUME NEW r \in Reqs, OpenSession(r) \/ Commit(r) \/ Recommit(r) PROVE Contract!Next
  <2>1. PICK c \in Tokens, s \in Sessions, p \in Tokens \cup {None} : Birth(c, s, p)
    BY <1>0, <1>2, Births
  <2>2. /\ family'[c] = s /\ \A t \in Tokens \ {c} : family'[t] = family[t]
        /\ family[c] = Nobody
    BY <1>0, <2>1, Types DEF Birth, Insert, RowsFit
  <2>3. LiveOf(s)' = {c}
    <3>1. \A t \in Tokens : family'[t] = s /\ Live(t)' => t = c
      BY <1>2, <2>1, Replaced
    <3> QED
      BY <2>1, <2>2, <3>1 DEF LiveOf, Birth
  <2>4. ASSUME NEW z \in Sessions, z # s PROVE LiveOf(z)' = LiveOf(z)
    <3>1. LiveOf(z)' \subseteq LiveOf(z)
      BY <2>1, <2>2, <2>4 DEF LiveOf, Birth
    <3>2. ASSUME NEW t \in LiveOf(z) PROVE t \in LiveOf(z)'
      <4>1. t \in Tokens \ {c} /\ family[t] # s /\ Live(t) /\ family[t] = z
        BY <2>1, <2>4 DEF LiveOf, Birth, Live, Issued
      <4> QED
        BY <1>2, <2>1, <2>2, <4>1, Elsewhere DEF LiveOf
    <3> QED
      BY <3>1, <3>2
  <2>5. Contract!Issue(s, c)
    <3>1. [z \in Sessions |-> LiveOf(z)]' = [[z \in Sessions |-> LiveOf(z)] EXCEPT ![s] = {c}]
      BY <2>3, <2>4
    <3> QED
      BY <2>1, <3>1 DEF Birth, Contract!Issue
  <2>6. CASE s \notin opened
    BY <2>1, <2>5, <2>6 DEF Birth, Contract!Open, Contract!Next
  <2>7. CASE s \in opened
    <3>1. LiveOf(s) # {} /\ opened' = opened
      BY <1>2, <2>1, <2>7, Replaced DEF Birth
    <3> QED
      BY <2>5, <3>1 DEF Contract!Exchange, Contract!Next
  <2> QED
    BY <2>6, <2>7
<1> QED
  BY <1>0, <1>1, <1>2, NoBirths

\* Requests, retries, races and lost connections come to SessionContract
\* (ImplementsContract): a session has one token, or none for ever.
THEOREM Implementation == Spec => ImplementsContract
<1>1. Init => Contract!Init
  BY DEF Init, Contract!Init, Issued, LiveOf, Live
<1>2. IInv /\ [Next]_vars => [Contract!Next]_<<opened, [s \in Sessions |-> LiveOf(s)], Issued>>
  BY ContractStep
<1> QED
  BY <1>1, <1>2, IInvInit, IInvStep, PTL DEF Spec, ImplementsContract, Contract!Spec
=============================================================================
