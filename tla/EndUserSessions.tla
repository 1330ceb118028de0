-------------------------- MODULE EndUserSessions ---------------------------
(***************************************************************************)
(* The sessions and refresh tokens of one end user of a project            *)
(* (services/api/src/modules/project-auth: the refresh and session half of *)
(* store.ts, and the routes that call it).                                 *)
(*                                                                         *)
(* A refresh spends the token it is given and inserts a child; a token     *)
(* spent within the last ten seconds is a retry and gets a replacement for *)
(* the child; anything else presented twice is theft and ends the session. *)
(* Logging out, changing a password, a ban and a deletion end sessions     *)
(* from other requests.  Every request has a connection of its own.        *)
(*                                                                         *)
(* A statement reads what is committed when it starts (READ COMMITTED) and *)
(* waits for row locks; after a wait only the rows it already selected are *)
(* looked at again.  A transaction's writes become visible when it ends,   *)
(* and so its last statement and its COMMIT are one step.                  *)
(***************************************************************************)
EXTENDS Naturals

CONSTANTS
  Reqs,       \* requests in progress side by side
  Sessions,   \* session ids
  Nobody,
  MaxToken,   \* bound: refresh tokens ever issued
  MaxCalls,   \* bound: requests made
  MaxBreaks   \* bound: connections lost

ASSUME SessionsAssumption ==
  /\ MaxToken \in Nat /\ MaxCalls \in Nat /\ MaxBreaks \in Nat
  /\ Nobody \notin Reqs /\ Nobody \notin Sessions

None == 0
Tokens == 1..MaxToken      \* refresh_tokens.id, an identity column

VARIABLES
  user,       \* auth.users: "active", "banned" or "deleted"
  opened,     \* the sessions with a row,
  ended,      \* those with revoked_at set,
  idle,       \* and those not refreshed for longer than the idle limit
  used,       \* per token: "unissued", "unspent", or how long ago it was spent
  revoked,    \* the tokens with revoked = true
  family,     \* per token: session_id
  parent,     \* per token: parent_id
  tokLock, sesLock, userLock,   \* row locks
  req,        \* per request slot, the request being served
  cut,        \* history: the sessions ended by DELETE /sessions/:id
  shut,       \* history: a ban or a deletion has signed the user out everywhere
  calls, breaks

rows == <<user, opened, ended, idle, used, revoked, family, parent>>
locks == <<tokLock, sesLock, userLock>>
vars == <<rows, locks, req, cut, shut, calls, breaks>>

\* tok, ses: the token presented and its session; spent: used_at was set when read;
\* child: the child to be replaced; scope: the sessions a sign-out asks for; got:
\* those its UPDATE matched; todo: the tokens its second UPDATE selected.
NoReq == [op |-> "none", pc |-> "idle", tok |-> None, ses |-> Nobody, spent |-> FALSE,
          child |-> None, scope |-> {}, got |-> {}, todo |-> {}]

Init ==
  /\ user = "active"
  /\ opened = {} /\ ended = {} /\ idle = {}
  /\ used = [t \in Tokens |-> "unissued"]
  /\ revoked = {}
  /\ family = [t \in Tokens |-> Nobody]
  /\ parent = [t \in Tokens |-> None]
  /\ tokLock = [t \in Tokens |-> Nobody]
  /\ sesLock = [s \in Sessions |-> Nobody]
  /\ userLock = Nobody
  /\ req = [r \in Reqs |-> NoReq]
  /\ cut = {} /\ shut = FALSE
  /\ calls = 0 /\ breaks = 0

-----------------------------------------------------------------------------
(* Rows and requests *)

Issued == {t \in Tokens : used[t] # "unissued"}
Live(t) == used[t] = "unspent" /\ t \notin revoked
LiveOf(s) == {t \in Tokens : family[t] = s /\ Live(t)}
LiveSession(s) == s \in opened /\ s \notin ended

At(r, pc) == req[r].pc = pc
Becomes(r, q) == req' = [req EXCEPT ![r] = q]
Now(r, pc) == [req[r] EXCEPT !.pc = pc]
Goto(r, pc) == Becomes(r, Now(r, pc))
Done(r) == Becomes(r, NoReq)

\* withProjectDb opens a connection and runs the handler.
Begin(r, q) ==
  /\ At(r, "idle") /\ calls < MaxCalls
  /\ calls' = calls + 1
  /\ Becomes(r, q)
  /\ UNCHANGED <<rows, locks, cut, shut, breaks>>

\* COMMIT, ROLLBACK, and the end of the connection all give the locks back.
Unlocked(lock, r) == [x \in DOMAIN lock |-> IF lock[x] = r THEN Nobody ELSE lock[x]]
Release(r) ==
  /\ tokLock' = Unlocked(tokLock, r)
  /\ sesLock' = Unlocked(sesLock, r)
  /\ userLock' = IF userLock = r THEN Nobody ELSE userLock

IsNext(t) == t \in Tokens \ Issued /\ \A u \in Tokens \ Issued : t <= u

\* INSERT INTO auth.refresh_tokens: t becomes p's child (or a root) in session s.
Insert(t, s, p) ==
  /\ IsNext(t)
  /\ family' = [family EXCEPT ![t] = s]
  /\ parent' = [parent EXCEPT ![t] = p]

-----------------------------------------------------------------------------
(* Signing in: a password that verified, or a link that was consumed, then   *)
(* openSession.  The gate was passed when the user row was read; a foreign   *)
(* key makes the INSERT wait for a row locked FOR UPDATE.                    *)

SignIn(r) ==
  /\ user # "deleted"        \* a link is not refused to a banned user
  /\ Begin(r, [NoReq EXCEPT !.op = "login", !.pc = "open"])

OpenSession(r) ==
  /\ At(r, "open") /\ userLock = Nobody
  /\ \E s \in Sessions \ opened, t \in Tokens :
       /\ Insert(t, s, None)
       /\ used' = [used EXCEPT ![t] = "unspent"]
       /\ opened' = opened \cup {s}
  /\ Done(r)
  /\ UNCHANGED <<user, ended, idle, revoked, locks, cut, shut, calls, breaks>>

-----------------------------------------------------------------------------
(* POST /token?grant_type=refresh_token *)

\* findRefreshToken: the token joined to its session.
Present(r) ==
  \E t \in Issued :
    LET s == family[t]
        refused == t \in revoked \/ s \in ended
        q == [NoReq EXCEPT !.op = "refresh", !.tok = t, !.ses = s,
                           !.spent = used[t] # "unspent",
                           !.pc = IF s \in idle THEN "sessions" ELSE "user"]
    IN Begin(r, IF refused THEN NoReq ELSE q)

\* Mutant: the ban is looked at by sign-in only.
ReadUserIgnoresBan(r) ==
  /\ At(r, "user")
  /\ Goto(r, IF user = "deleted" THEN "sessions"
             ELSE IF req[r].spent THEN "judge" ELSE "rotate")
  /\ UNCHANGED <<rows, locks, cut, shut, calls, breaks>>

\* findUserById: a deleted or banned user's session ends here.
ReadUser(r) ==
  /\ At(r, "user")
  /\ Goto(r, IF user # "active" THEN "sessions"
             ELSE IF req[r].spent THEN "judge" ELSE "rotate")
  /\ UNCHANGED <<rows, locks, cut, shut, calls, breaks>>

\* Mutant: the check is left to the SELECT that read the token.
RotateUnchecked(r) ==
  LET t == req[r].tok
  IN /\ At(r, "rotate") /\ tokLock[t] = Nobody
     /\ tokLock' = [tokLock EXCEPT ![t] = r]
     /\ Goto(r, "commit")
     /\ UNCHANGED <<rows, sesLock, userLock, cut, shut, calls, breaks>>

\* rotateRefreshToken: UPDATE ... WHERE used_at IS NULL AND revoked = false.  With
\* no row back it rolls back, and the token is read again.
Rotate(r) ==
  LET t == req[r].tok
  IN /\ At(r, "rotate") /\ tokLock[t] = Nobody
     /\ IF Live(t)
        THEN tokLock' = [tokLock EXCEPT ![t] = r] /\ Goto(r, "commit")
        ELSE /\ IF used[t] = "unspent" THEN Done(r) ELSE Goto(r, "judge")
             /\ UNCHANGED tokLock
     /\ UNCHANGED <<rows, sesLock, userLock, cut, shut, calls, breaks>>

\* Mutant: the session's last_refreshed_at is not kept in the transaction.
CommitLeavesSession(r) ==
  LET t == req[r].tok  s == req[r].ses
  IN /\ At(r, "commit") /\ userLock = Nobody
     /\ \E c \in Tokens :
          /\ Insert(c, s, t)
          /\ used' = [used EXCEPT ![t] = "fresh", ![c] = "unspent"]
     /\ Release(r) /\ Done(r)
     /\ UNCHANGED <<user, opened, ended, idle, revoked, cut, shut, calls, breaks>>

\* INSERT of the child, UPDATE of the session, COMMIT.
Commit(r) ==
  LET t == req[r].tok  s == req[r].ses
  IN /\ At(r, "commit") /\ sesLock[s] = Nobody /\ userLock = Nobody
     /\ \E c \in Tokens :
          /\ Insert(c, s, t)
          /\ used' = [used EXCEPT ![t] = "fresh", ![c] = "unspent"]
     /\ idle' = idle \ {s}
     /\ Release(r) /\ Done(r)
     /\ UNCHANGED <<user, opened, ended, revoked, cut, shut, calls, breaks>>

\* findChildToken: the oldest child.
IsChild(c, t) == parent[c] = t /\ \A d \in Tokens : parent[d] = t => c <= d

\* Spent within the grace, with a first child nobody has used: a retry.  Otherwise theft.
Judge(r) ==
  LET t == req[r].tok
      retry == used[t] = "fresh" /\ \E c \in Tokens : IsChild(c, t) /\ Live(c)
  IN /\ At(r, "judge")
     /\ \/ /\ retry
           /\ \E c \in Tokens :
                /\ IsChild(c, t)
                /\ Becomes(r, [Now(r, "replace") EXCEPT !.child = c])
        \/ ~retry /\ Goto(r, "sessions")
     /\ UNCHANGED <<rows, locks, cut, shut, calls, breaks>>

\* graceRotate: UPDATE the child ... WHERE used_at IS NULL AND revoked = false.
Replace(r) ==
  LET c == req[r].child
  IN /\ At(r, "replace") /\ tokLock[c] = Nobody
     /\ IF Live(c)
        THEN tokLock' = [tokLock EXCEPT ![c] = r] /\ Goto(r, "recommit")
        ELSE UNCHANGED tokLock /\ Goto(r, "sessions")
     /\ UNCHANGED <<rows, sesLock, userLock, cut, shut, calls, breaks>>

\* Mutant: the replaced child is not revoked.
RecommitKeepsChild(r) ==
  LET s == req[r].ses
  IN /\ At(r, "recommit") /\ sesLock[s] = Nobody /\ userLock = Nobody
     /\ \E c \in Tokens :
          /\ Insert(c, s, req[r].tok)
          /\ used' = [used EXCEPT ![c] = "unspent"]
     /\ idle' = idle \ {s}
     /\ Release(r) /\ Done(r)
     /\ UNCHANGED <<user, opened, ended, revoked, cut, shut, calls, breaks>>

Recommit(r) ==
  LET s == req[r].ses
  IN /\ At(r, "recommit") /\ sesLock[s] = Nobody /\ userLock = Nobody
     /\ \E c \in Tokens :
          /\ Insert(c, s, req[r].tok)
          /\ used' = [used EXCEPT ![c] = "unspent"]
     /\ revoked' = revoked \cup {req[r].child}
     /\ idle' = idle \ {s}
     /\ Release(r) /\ Done(r)
     /\ UNCHANGED <<user, opened, ended, cut, shut, calls, breaks>>

-----------------------------------------------------------------------------
(* Ending sessions.  Two UPDATEs in one transaction, sessions and then their *)
(* tokens: revokeSessionFamily after a refresh that was refused,             *)
(* revokeUserSessions for logout, password and email changes and admin       *)
(* sign-outs, softDeleteUser with the user row locked around both.           *)
(* revokeOwnSession makes the same two UPDATEs in no transaction.            *)

Bearer == user # "deleted" /\ \E s \in Sessions : LiveSession(s)   \* requireLiveSession

\* POST /logout by scope, PUT /user with a password (others), an email change or an
\* administrator (all).
SignOut(r) ==
  \E s \in opened : \E scope \in {{s}, Sessions, Sessions \ {s}} :
    Begin(r, [NoReq EXCEPT !.op = "signout", !.scope = scope, !.pc = "sessions"])

\* Mutant: any id will do.
DeleteSessionAny(r) ==
  /\ Bearer
  /\ \E s \in Sessions : Begin(r, [NoReq EXCEPT !.op = "own", !.ses = s, !.pc = "own"])

DeleteSession(r) ==
  /\ Bearer
  /\ \E s \in opened : Begin(r, [NoReq EXCEPT !.op = "own", !.ses = s, !.pc = "own"])

AdminBan(r) ==
  Begin(r, [NoReq EXCEPT !.op = "ban", !.scope = Sessions, !.pc = "ban"])

AdminDelete(r) ==
  Begin(r, [NoReq EXCEPT !.op = "delete", !.scope = Sessions, !.pc = "scrub"])

\* adminUpdateUser, WHERE deleted_at IS NULL; a ban then signs out everywhere.
Ban(r) ==
  /\ At(r, "ban") /\ userLock = Nobody
  /\ IF user = "deleted"
     THEN Done(r) /\ UNCHANGED user
     ELSE Goto(r, "sessions") /\ user' = "banned"
  /\ UNCHANGED <<opened, ended, idle, used, revoked, family, parent, locks, cut, shut,
                 calls, breaks>>

\* softDeleteUser's SELECT ... FOR UPDATE, and the scrub it commits later.
Scrub(r) ==
  /\ At(r, "scrub") /\ userLock = Nobody
  /\ IF user = "deleted"
     THEN Done(r) /\ UNCHANGED userLock
     ELSE Goto(r, "sessions") /\ userLock' = r
  /\ UNCHANGED <<rows, tokLock, sesLock, cut, shut, calls, breaks>>

\* The rows the first UPDATE matches: a family whatever its state, a scope's live ones.
Matched(r) ==
  {s \in opened : IF req[r].op = "refresh" THEN s = req[r].ses
                  ELSE s \in req[r].scope /\ s \notin ended}

\* The first UPDATE; revokeUserSessions commits here when no row came back.
EndSessions(r) ==
  LET S == Matched(r)
      nothing == S = {} /\ req[r].op # "delete"
  IN /\ At(r, "sessions") /\ \A s \in S : sesLock[s] = Nobody
     /\ sesLock' = [s \in Sessions |-> IF s \in S THEN r ELSE sesLock[s]]
     /\ IF nothing
        THEN Done(r)
        ELSE Becomes(r, [Now(r, "tokens") EXCEPT !.got = S])
     /\ shut' = (shut \/ (nothing /\ req[r].op = "ban"))
     /\ UNCHANGED <<rows, tokLock, userLock, cut, calls, breaks>>

\* revokeOwnSession's first UPDATE, which commits by itself.
EndOwn(r) ==
  LET s == req[r].ses
  IN /\ At(r, "own") /\ sesLock[s] = Nobody
     /\ IF s \in ended
        THEN Done(r) /\ UNCHANGED <<ended, cut>>
        ELSE /\ ended' = ended \cup {s} /\ cut' = cut \cup {s}
             /\ Becomes(r, [Now(r, "tokens") EXCEPT !.got = {s}])
     /\ UNCHANGED <<user, opened, idle, used, revoked, family, parent, locks, shut,
                    calls, breaks>>

\* The second UPDATE selects its tokens (a deletion's go by user) ...
SelectTokens(r) ==
  LET T == {t \in Issued \ revoked : family[t] \in req[r].got \/ req[r].op = "delete"}
  IN /\ At(r, "tokens")
     /\ Becomes(r, [Now(r, "finish") EXCEPT !.todo = T])
     /\ UNCHANGED <<rows, locks, cut, shut, calls, breaks>>

\* ... waits for those that are locked, and the transaction commits.
Finish(r) ==
  /\ At(r, "finish") /\ \A t \in req[r].todo : tokLock[t] = Nobody
  /\ ended' = ended \cup req[r].got
  /\ revoked' = revoked \cup req[r].todo
  /\ user' = IF req[r].op = "delete" THEN "deleted" ELSE user
  /\ shut' = (shut \/ req[r].op \in {"ban", "delete"})
  /\ Release(r) /\ Done(r)
  /\ UNCHANGED <<opened, idle, used, family, parent, cut, calls, breaks>>

-----------------------------------------------------------------------------
(* What happens by itself *)

GraceEnds(t) ==
  /\ used[t] = "fresh"
  /\ used' = [used EXCEPT ![t] = "late"]
  /\ UNCHANGED <<user, opened, ended, idle, revoked, family, parent, locks, req, cut, shut,
                 calls, breaks>>

GoesIdle(s) ==
  /\ LiveSession(s) /\ s \notin idle
  /\ idle' = idle \cup {s}
  /\ UNCHANGED <<user, opened, ended, used, revoked, family, parent, locks, req, cut, shut,
                 calls, breaks>>

\* A statement that waits for a row lock (or finds the model's ids used up).
NoIds == Issued = Tokens
Waiting(r) ==
  \/ At(r, "rotate") /\ tokLock[req[r].tok] # Nobody
  \/ At(r, "replace") /\ tokLock[req[r].child] # Nobody
  \/ req[r].pc \in {"commit", "recommit"}
     /\ (sesLock[req[r].ses] # Nobody \/ userLock # Nobody \/ NoIds)
  \/ At(r, "open") /\ (userLock # Nobody \/ NoIds \/ opened = Sessions)
  \/ req[r].pc \in {"ban", "scrub"} /\ userLock # Nobody
  \/ At(r, "sessions") /\ \E s \in Matched(r) : sesLock[s] # Nobody
  \/ At(r, "own") /\ sesLock[req[r].ses] # Nobody
  \/ At(r, "finish") /\ \E t \in req[r].todo : tokLock[t] # Nobody

Abort(r) ==
  /\ Release(r) /\ Done(r)
  /\ UNCHANGED <<rows, cut, shut, calls>>

\* Mutant: the server is left to wait for ever.
TimeoutNever(r) == FALSE /\ Waiting(r) /\ Abort(r) /\ UNCHANGED breaks

\* statement_timeout, or the server's choice of a deadlock's victim.
Timeout(r) == Waiting(r) /\ Abort(r) /\ UNCHANGED breaks

\* The process or the connection goes at any other point.
Break(r) ==
  /\ ~At(r, "idle") /\ breaks < MaxBreaks
  /\ breaks' = breaks + 1
  /\ Abort(r)

-----------------------------------------------------------------------------

Call(r) == SignIn(r) \/ Present(r) \/ SignOut(r) \/ DeleteSession(r) \/ AdminBan(r) \/ AdminDelete(r)

Serve(r) ==
  \/ OpenSession(r)
  \/ ReadUser(r) \/ Rotate(r) \/ Commit(r) \/ Judge(r) \/ Replace(r) \/ Recommit(r)
  \/ Ban(r) \/ Scrub(r) \/ EndSessions(r) \/ EndOwn(r) \/ SelectTokens(r) \/ Finish(r)
  \/ Timeout(r)

Next ==
  \/ \E r \in Reqs : Call(r) \/ Serve(r) \/ Break(r)
  \/ \E t \in Tokens : GraceEnds(t)
  \/ \E s \in Sessions : GoesIdle(s)

\* A handler that has begun runs on, and the server times out what waits.
Fairness == \A r \in Reqs : WF_vars(Serve(r))

Spec == Init /\ [][Next]_vars /\ Fairness

-----------------------------------------------------------------------------
(* Properties *)

TypeOK ==
  /\ user \in {"active", "banned", "deleted"}
  /\ opened \subseteq Sessions
  /\ ended \subseteq opened /\ idle \subseteq opened /\ cut \subseteq ended
  /\ used \in [Tokens -> {"unissued", "unspent", "fresh", "late"}]
  /\ revoked \subseteq Tokens
  /\ family \in [Tokens -> Sessions \cup {Nobody}]
  /\ parent \in [Tokens -> Tokens \cup {None}]
  /\ tokLock \in [Tokens -> Reqs \cup {Nobody}]
  /\ sesLock \in [Sessions -> Reqs \cup {Nobody}]
  /\ userLock \in Reqs \cup {Nobody}
  /\ req \in [Reqs -> [op : {"none", "login", "refresh", "signout", "own", "ban", "delete"},
       pc : {"idle", "open", "user", "rotate", "commit", "judge", "replace", "recommit",
             "own", "ban", "scrub", "sessions", "tokens", "finish"},
       tok : Tokens \cup {None}, ses : Sessions \cup {Nobody}, spent : BOOLEAN,
       child : Tokens \cup {None}, scope : SUBSET Sessions, got : SUBSET Sessions,
       todo : SUBSET Tokens]]
  /\ shut \in BOOLEAN
  /\ calls \in 0..MaxCalls /\ breaks \in 0..MaxBreaks

\* No two tokens of one session work at the same time, whatever retries and tabs
\* race: "the exact state reuse detection exists to make impossible" (store.ts,
\* rotateRefreshToken).
LineageIsSingle ==
  \A s \in Sessions : \A t, u \in LiveOf(s) : t = u

\* A session that is over has no working token left, although a rotation may be under
\* way when it ends.  The exception is a session ended by DELETE /sessions/:id, whose
\* two UPDATEs are not one transaction: a rotation that straddles them, or a lost
\* connection, leaves its token behind.
EndedIsDead ==
  \A s \in ended \ cut : LiveOf(s) = {}

\* Once a ban or a deletion has signed the user out, no refresh succeeds: not of a
\* session a sign-in opened after the sign-out looked, nor by a request that had
\* passed the user check before (again but for sessions DELETE has cut).
ShutOut ==
  [][shut => \A t \in Tokens :
       used[t] = "unissued" /\ used'[t] # "unissued" => parent'[t] = None \/ family'[t] \in cut]_vars

\* Every request ends, although a rotation and a sign-out lock tokens and sessions in
\* opposite orders.
EveryRequestEnds ==
  \A r \in Reqs : ~At(r, "idle") ~> At(r, "idle")

Contract == INSTANCE SessionContract WITH
  Sessions <- Sessions, Tokens <- Tokens,
  opened <- opened, issued <- Issued, current <- [s \in Sessions |-> LiveOf(s)]

\* Requests, retries, races and lost connections come to what SessionContract promises.
ImplementsContract == Contract!Spec
=============================================================================
