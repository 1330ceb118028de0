------------------------------ MODULE AuthLinks -----------------------------
(***************************************************************************)
(* The links a project mails to one of its end users, and the mail that    *)
(* carries them (services/api/src/modules/project-auth: the one-time       *)
(* tokens of store.ts, the routes that issue and consume them, mailer.ts;  *)
(* packages/email gate.ts; packages/queue enqueueAuthEmail; the worker's   *)
(* email-sender.ts).                                                       *)
(*                                                                         *)
(* A user has one link of each kind, and asking again replaces it.  Its    *)
(* mail passes a counter, gets a row in email_sends and then a job whose   *)
(* id is the kind and the user.  A worker sends it and updates the row.    *)
(* Every statement commits by itself, so requests interleave at each one.  *)
(* A handler that stops for too long loses its job to another, and may     *)
(* wake up and go on: BullMQ delivers a job twice before it gives it up.   *)
(***************************************************************************)
EXTENDS Integers, FiniteSets

CONSTANTS
  Reqs,        \* API requests in progress side by side
  Workers,     \* deliveries of jobs handled side by side
  Singles,     \* kinds of link that sign in by themselves
  Addresses,   \* addresses the user may change to
  Home,        \* ... and the one the account began with
  Cap,         \* sends the counter allows in its window
  Attempts,    \* 3 in the code: AUTH_EMAIL attempts
  MaxStalls,   \* 1 in the code: BullMQ's maxStalledCount, which is not set
  MaxToken,    \* bound: links issued
  MaxCalls,    \* bound: requests made
  MaxFaults,   \* bound: crashes, stalls, provider, database and Redis errors
  MaxEvents,   \* bound: links that expire, jobs forgotten, addresses taken, deletions
  MaxTogether  \* bound: calls, faults and events of one behaviour

ASSUME LinksAssumption ==
  /\ IsFiniteSet(Reqs)
  /\ Singles \subseteq {"confirmation", "recovery"}
  /\ Home \notin Addresses
  /\ Cap \in Nat /\ Attempts \in Nat \ {0} /\ MaxStalls \in Nat
  /\ MaxToken \in Nat /\ MaxCalls \in Nat /\ MaxFaults \in Nat
  /\ MaxEvents \in Nat /\ MaxTogether \in Nat
  /\ "deleted" \notin Addresses \cup {Home}

None == 0
Tokens == 1..MaxToken
Changes == {"new", "current"}      \* email_change_new, email_change_current
Kinds == Singles \cup Changes

VARIABLES
  double,     \* emailChangeConfirm: both addresses must confirm a change
  email,      \* auth.users.email, or "deleted"
  confirmed,  \* email_confirmed_at is set
  taken,      \* addresses other users have
  last,       \* the newest token
  to,         \* per token: relates_to, the address proposed
  link,       \* per kind: the row of one_time_tokens
  row,        \* per kind: email_sends.status
  job,        \* per kind: the auth-email job with that delivery id
  hand,       \* per worker: the delivery it handles, and whether it still has the job's lock
  spent,      \* Redis: the counter of the window
  mails,      \* per token: how often its mail was accepted by the provider
  sessions,   \* the live sessions, by the link that opened them
  req,        \* per request slot, the request being served
  admitted,   \* history: sends the counter has let through
  opens,      \* history: per token, the sessions it opened
  stranded,   \* history: kinds whose row says queued with nobody left to send
  noted,      \* history: tokens whose mail was recorded as sent
  reset,      \* history: kinds whose row left "sent" because a new mail was asked for
  overrun,    \* history: kinds whose handler went on after it had lost its job
  calls, faults, events

user == <<double, email, confirmed, taken>>
tokens == <<last, to, link>>
outbox == <<row, job, hand, mails>>
history == <<admitted, opens, stranded, noted, reset, overrun>>
vars == <<user, tokens, outbox, spent, sessions, req, history, calls, faults, events>>

NoReq == [pc |-> "idle", kind |-> "new", tok |-> None, addr |-> Home]
NoJob == [pc |-> "none", tok |-> None, tries |-> 0, stalls |-> 0]
NoHand == [pc |-> "idle", kind |-> "new", tok |-> None, tries |-> 0, lasting |-> FALSE,
           holds |-> FALSE]
NoLink == [tok |-> None, state |-> "none"]

Init ==
  /\ double \in BOOLEAN
  /\ email = Home /\ confirmed = FALSE /\ taken = {}
  /\ last = None /\ to = [t \in Tokens |-> Home]
  /\ link = [k \in Kinds |-> NoLink]
  /\ row = [k \in Kinds |-> "none"]
  /\ job = [k \in Kinds |-> NoJob] /\ hand = [w \in Workers |-> NoHand]
  /\ spent \in 0..Cap           \* what the project's other mail has used
  /\ mails = [t \in Tokens |-> 0]
  /\ sessions = {}
  /\ req = [r \in Reqs |-> NoReq]
  /\ admitted = spent /\ opens = [t \in Tokens |-> 0]
  /\ stranded = {} /\ noted = {} /\ reset = {} /\ overrun = {}
  /\ calls = 0 /\ faults = 0 /\ events = 0

-----------------------------------------------------------------------------
(* Requests *)

Room == calls + faults + events < MaxTogether
Happens == events < MaxEvents /\ Room /\ events' = events + 1
Fault == faults < MaxFaults /\ Room /\ faults' = faults + 1

At(r, pc) == req[r].pc = pc
Goto(r, pc) == req' = [req EXCEPT ![r].pc = pc]
Done(r) == req' = [req EXCEPT ![r] = NoReq]

Begin(r, q) ==
  /\ At(r, "idle") /\ calls < MaxCalls /\ Room
  /\ calls' = calls + 1
  /\ req' = [req EXCEPT ![r] = q]
  /\ UNCHANGED <<user, tokens, outbox, spent, sessions, history, faults, events>>

\* POST /recover, and POST /resend or a second sign-up while the address is unconfirmed.
Ask(r) ==
  /\ email # "deleted"
  /\ \E k \in Singles :
       /\ k = "confirmation" => ~confirmed
       /\ Begin(r, [NoReq EXCEPT !.pc = "issue", !.kind = k])

\* PUT /user with an address: proposeEmailChange.
Propose(r) ==
  /\ email # "deleted"
  /\ \E a \in Addresses \ {email} :
       Begin(r, [NoReq EXCEPT !.pc = "issue", !.kind = "new", !.addr = a])

\* GET or POST /verify, with a token read in a mail.
Click(r) ==
  \E t \in Tokens :
    /\ mails[t] > 0
    /\ Begin(r, [NoReq EXCEPT !.pc = "consume", !.tok = t])

-----------------------------------------------------------------------------
(* Issuing a link and handing its mail over *)

\* issueOneTimeToken: the upsert by (user, type).
Issue(r) ==
  LET k == req[r].kind  t == last + 1
  IN /\ At(r, "issue") /\ t \in Tokens
     /\ last' = t
     /\ to' = [to EXCEPT ![t] = req[r].addr]
     /\ link' = [link EXCEPT ![k] = [tok |-> t, state |-> "good"]]
     /\ req' = [req EXCEPT ![r].pc = "gate", ![r].tok = t]
     /\ UNCHANGED <<user, outbox, spent, sessions, history, calls, faults, events>>

\* What a request does once mailer.enqueue has returned, whatever came of it:
\* a change goes on to the old address, or deletes the link that address had.
Mailed(r) ==
  IF req[r].kind # "new" THEN Done(r)
  ELSE IF double THEN req' = [req EXCEPT ![r].pc = "issue", ![r].kind = "current"]
  ELSE Goto(r, "drop")

\* Mutant: the counter is compared before it is raised.
GateComparesFirst(r) ==
  /\ At(r, "gate")
  /\ spent' = spent + 1
  /\ IF spent > Cap
     THEN Goto(r, "undo") /\ UNCHANGED admitted
     ELSE Goto(r, "record") /\ admitted' = admitted + 1
  /\ UNCHANGED <<user, tokens, outbox, sessions, opens, stranded, noted, reset, overrun,
                 calls, faults, events>>

\* checkAndConsume: INCR first, compare after.
Gate(r) ==
  /\ At(r, "gate")
  /\ spent' = spent + 1
  /\ IF spent + 1 > Cap
     THEN Goto(r, "undo") /\ UNCHANGED admitted
     ELSE Goto(r, "record") /\ admitted' = admitted + 1
  /\ UNCHANGED <<user, tokens, outbox, sessions, opens, stranded, noted, reset, overrun,
                 calls, faults, events>>

\* Mutant: a suppressed mail gives back a send it never took.
SuppressGivesBack(r) ==
  /\ At(r, "gate")
  /\ Goto(r, "undo")
  /\ UNCHANGED <<user, tokens, outbox, spent, sessions, history, calls, faults, events>>

\* The recipient is on a suppression list: the counter is left alone.
Suppress(r) ==
  /\ At(r, "gate")
  /\ Goto(r, "refuse")
  /\ UNCHANGED <<user, tokens, outbox, spent, sessions, history, calls, faults, events>>

\* DECR after a refusal.
Undo(r) ==
  /\ At(r, "undo")
  /\ spent' = spent - 1
  /\ Goto(r, "refuse")
  /\ UNCHANGED <<user, tokens, outbox, sessions, history, calls, faults, events>>

\* record('suppressed') and record('rate_limited').
Refuse(r) ==
  /\ At(r, "refuse")
  /\ row' = [row EXCEPT ![req[r].kind] = "refused"]
  /\ reset' = IF row[req[r].kind] = "sent" THEN reset \cup {req[r].kind} ELSE reset
  /\ Mailed(r)
  /\ UNCHANGED <<user, tokens, job, hand, mails, spent, sessions, admitted, opens,
                 stranded, noted, overrun, calls, faults, events>>

\* record('queued'), whatever the row said.
Record(r) ==
  /\ At(r, "record")
  /\ row' = [row EXCEPT ![req[r].kind] = "queued"]
  /\ reset' = IF row[req[r].kind] = "sent" THEN reset \cup {req[r].kind} ELSE reset
  /\ stranded' = stranded \ {req[r].kind}
  /\ Goto(r, "enqueue")
  /\ UNCHANGED <<user, tokens, job, hand, mails, spent, sessions, admitted, opens,
                 noted, overrun, calls, faults, events>>

\* Somebody will still look after the mail of this kind.
Acts(k) ==
  \/ job[k].pc = "waiting"
  \/ \E w \in Workers : /\ hand[w].holds /\ hand[w].kind = k
                        /\ hand[w].pc \in {"look", "send", "note", "fail", "again"}

\* enqueueAuthEmail: a job with this id, queued, running or finished, wins.
Enqueue(r) ==
  LET k == req[r].kind
  IN /\ At(r, "enqueue")
     /\ job' = IF job[k].pc = "none"
               THEN [job EXCEPT ![k] = [NoJob EXCEPT !.pc = "waiting", !.tok = req[r].tok]]
               ELSE job
     /\ stranded' = IF job[k].pc = "none" \/ Acts(k) THEN stranded ELSE stranded \cup {k}
     /\ Mailed(r)
     /\ UNCHANGED <<user, tokens, row, hand, mails, spent, sessions, admitted, opens,
                    noted, reset, overrun, calls, faults, events>>

\* emailChangeConfirm = new_only: a link an earlier attempt sent to the old address goes.
Drop(r) ==
  /\ At(r, "drop")
  /\ link' = [link EXCEPT !["current"] = NoLink]
  /\ Done(r)
  /\ UNCHANGED <<user, last, to, outbox, spent, sessions, history, calls, faults, events>>

-----------------------------------------------------------------------------
(* Following a link *)

Opened(t) == CHOOSE k \in Kinds : link[k].tok = t
Works(t) == email # "deleted" /\ \E k \in Kinds : link[k].tok = t /\ link[k].state = "good"

Spend(r) ==
  LET t == req[r].tok  k == Opened(t)
  IN /\ link' = [link EXCEPT ![k].state = "used"]
     /\ req' = [req EXCEPT ![r].kind = k,
          ![r].pc = IF k \in Singles THEN "confirm" ELSE IF double THEN "sibling" ELSE "apply"]

\* Mutant: used_at is not looked at.
ConsumeAgain(r) ==
  LET t == req[r].tok
  IN /\ At(r, "consume")
     /\ IF email # "deleted" /\ \E k \in Kinds : link[k].tok = t
        THEN Spend(r)
        ELSE Done(r) /\ UNCHANGED link
     /\ UNCHANGED <<user, last, to, outbox, spent, sessions, admitted, opens, stranded,
                    noted, reset, overrun, calls, faults, events>>

\* consumeOneTimeToken, consumeEitherToken: one UPDATE looks and spends.
Consume(r) ==
  /\ At(r, "consume")
  /\ IF Works(req[r].tok)
     THEN Spend(r)
     ELSE Done(r) /\ UNCHANGED link
  /\ UNCHANGED <<user, last, to, outbox, spent, sessions, admitted, opens, stranded,
                 noted, reset, overrun, calls, faults, events>>

\* findUserById and markEmailConfirmed.
Confirm(r) ==
  /\ At(r, "confirm")
  /\ IF email = "deleted"
     THEN Done(r) /\ UNCHANGED confirmed
     ELSE Goto(r, "open") /\ confirmed' = TRUE
  /\ UNCHANGED <<double, email, taken, tokens, outbox, spent, sessions, history, calls, faults, events>>

\* issueSession.
Open(r) ==
  /\ At(r, "open")
  /\ sessions' = sessions \cup {req[r].tok}
  /\ opens' = [opens EXCEPT ![req[r].tok] = @ + 1]
  /\ Done(r)
  /\ UNCHANGED <<user, tokens, outbox, spent, admitted, stranded, noted, reset, overrun,
                 calls, faults, events>>

\* siblingConsumed: has the link sent to the other address been spent?
Sibling(r) ==
  LET other == IF req[r].kind = "new" THEN "current" ELSE "new"
  IN /\ At(r, "sibling")
     /\ IF link[other].state = "used" THEN Goto(r, "apply") ELSE Done(r)
     /\ UNCHANGED <<user, tokens, outbox, spent, sessions, history, calls, faults, events>>

\* applyEmailChange; the unique index refuses an address somebody else has by now.
Apply(r) ==
  LET a == to[req[r].tok]
  IN /\ At(r, "apply")
     /\ IF email = "deleted" \/ a \in taken
        THEN Goto(r, "abandon") /\ UNCHANGED <<email, confirmed>>
        ELSE Goto(r, "clear") /\ email' = a /\ confirmed' = TRUE
     /\ UNCHANGED <<double, taken, tokens, outbox, spent, sessions, history, calls, faults, events>>

\* Mutant: a conflict keeps the links.
ClearIfApplied(r) ==
  /\ req[r].pc \in {"clear", "abandon"}
  /\ link' = [k \in Kinds |-> IF k \in Changes /\ At(r, "clear") THEN NoLink ELSE link[k]]
  /\ IF At(r, "clear") THEN Goto(r, "revoke") ELSE Done(r)
  /\ UNCHANGED <<user, last, to, outbox, spent, sessions, history, calls, faults, events>>

\* clearEmailChangeTokens.
Clear(r) ==
  /\ req[r].pc \in {"clear", "abandon"}
  /\ link' = [k \in Kinds |-> IF k \in Changes THEN NoLink ELSE link[k]]
  /\ IF At(r, "clear") THEN Goto(r, "revoke") ELSE Done(r)
  /\ UNCHANGED <<user, last, to, outbox, spent, sessions, history, calls, faults, events>>

\* revokeUserSessions, global.
Revoke(r) ==
  /\ At(r, "revoke")
  /\ sessions' = {}
  /\ Done(r)
  /\ UNCHANGED <<user, tokens, outbox, spent, history, calls, faults, events>>

-----------------------------------------------------------------------------
(* The worker *)

\* An attempt is left after the one that w is at.
More(w) == hand[w].tries + 1 < Attempts
Step(w, pc) == hand' = [hand EXCEPT ![w].pc = pc]
Work == UNCHANGED <<user, tokens, spent, sessions, req, admitted, opens, reset, calls>>

\* The handler throws.  When the last attempt ends like this, nobody will try again.
Throw(w) ==
  /\ Step(w, IF More(w) THEN "again" ELSE "over")
  /\ stranded' = IF hand[w].holds /\ ~More(w) THEN stranded \cup {hand[w].kind} ELSE stranded

Take(w, k) ==
  /\ hand[w].pc = "idle" /\ job[k].pc = "waiting"
  /\ job' = [job EXCEPT ![k].pc = "active"]
  /\ hand' = [hand EXCEPT ![w] = [pc |-> "look", kind |-> k, tok |-> job[k].tok,
                                  tries |-> job[k].tries, lasting |-> FALSE, holds |-> TRUE]]
  /\ Work /\ UNCHANGED <<row, mails, stranded, noted, overrun, faults, events>>

\* Mutant: the row is not looked at first.
LookBlind(w) ==
  /\ hand[w].pc = "look"
  /\ Step(w, "send")
  /\ Work /\ UNCHANGED <<row, job, mails, stranded, noted, overrun, faults, events>>

\* A row already sent makes a redelivery return at once.
Look(w) ==
  /\ hand[w].pc = "look"
  /\ Step(w, IF row[hand[w].kind] = "sent" THEN "over" ELSE "send")
  /\ Work /\ UNCHANGED <<row, job, mails, stranded, noted, overrun, faults, events>>

\* Neither SELECT is inside the try: the row keeps what it says.
LookFails(w) ==
  /\ hand[w].pc = "look" /\ Fault
  /\ Throw(w)
  /\ Work /\ UNCHANGED <<row, job, mails, noted, overrun, events>>

Send(w) ==
  /\ hand[w].pc = "send"
  /\ mails' = [mails EXCEPT ![hand[w].tok] = @ + 1]
  /\ Step(w, "note")
  /\ Work /\ UNCHANGED <<row, job, stranded, noted, overrun, faults, events>>

\* The template does not render; the provider refuses, for now or for good; or it accepts
\* and the answer is lost.
SendFails(w) ==
  /\ hand[w].pc = "send" /\ Fault
  /\ \E lasting \in BOOLEAN, accepted \in BOOLEAN :
       /\ hand' = [hand EXCEPT ![w].pc = "fail", ![w].lasting = lasting]
       /\ mails' = IF accepted THEN [mails EXCEPT ![hand[w].tok] = @ + 1] ELSE mails
  /\ Work /\ UNCHANGED <<row, job, stranded, noted, overrun, events>>

Note(w) ==
  /\ hand[w].pc = "note"
  /\ row' = [row EXCEPT ![hand[w].kind] = "sent"]
  /\ noted' = noted \cup {hand[w].tok}
  /\ Step(w, "over")
  /\ Work /\ UNCHANGED <<job, mails, stranded, overrun, faults, events>>

\* The UPDATE after a send is inside the same try.  It fails, or only its answer is lost.
NoteFails(w) ==
  /\ hand[w].pc = "note" /\ Fault
  /\ \E took \in BOOLEAN : row' = IF took THEN [row EXCEPT ![hand[w].kind] = "sent"] ELSE row
  /\ Step(w, "fail")
  /\ Work /\ UNCHANGED <<job, mails, stranded, noted, overrun, events>>

\* Mutant: the row is not told.
FailSilently(w) ==
  /\ hand[w].pc = "fail"
  /\ Step(w, IF ~hand[w].lasting /\ More(w) THEN "again" ELSE "over")
  /\ Work /\ UNCHANGED <<row, job, mails, stranded, noted, overrun, faults, events>>

\* fail, and a throw while there is something to hope for.  A handler that has given up
\* returns, and its job counts as completed.
Fail(w) ==
  /\ hand[w].pc = "fail"
  /\ row' = [row EXCEPT ![hand[w].kind] = "failed"]
  /\ Step(w, IF ~hand[w].lasting /\ More(w) THEN "again" ELSE "over")
  /\ Work /\ UNCHANGED <<job, mails, stranded, noted, overrun, faults, events>>

\* The UPDATE of fail is in no try: it fails, or its answer is lost, and that is thrown.
FailThrows(w) ==
  /\ hand[w].pc = "fail" /\ Fault
  /\ \E took \in BOOLEAN : row' = IF took THEN [row EXCEPT ![hand[w].kind] = "failed"] ELSE row
  /\ Throw(w)
  /\ Work /\ UNCHANGED <<job, mails, noted, overrun, events>>

\* BullMQ is told how it ended.  A handler that has lost its lock is not listened to.
Settle(w) ==
  LET again == hand[w].pc = "again"
  IN /\ hand[w].pc \in {"again", "over"}
     /\ job' = IF hand[w].holds
               THEN [job EXCEPT ![hand[w].kind].pc = IF again THEN "waiting" ELSE "done",
                                ![hand[w].kind].tries = @ + 1]
               ELSE job
     /\ hand' = [hand EXCEPT ![w] = NoHand]
     /\ Work /\ UNCHANGED <<row, mails, stranded, noted, overrun, faults, events>>

\* The lock is not renewed for twenty seconds: the worker is dead, or it is only stuck and
\* goes on later.  The job is delivered again, until it has stalled too often.
Stall(w) ==
  LET k == hand[w].kind  final == job[k].stalls >= MaxStalls
  IN /\ hand[w].holds /\ Fault
     /\ job' = [job EXCEPT ![k].pc = IF final THEN "done" ELSE "waiting", ![k].stalls = @ + 1]
     /\ stranded' = IF final THEN stranded \cup {k} ELSE stranded
     /\ \/ hand' = [hand EXCEPT ![w] = NoHand] /\ UNCHANGED overrun
        \/ hand' = [hand EXCEPT ![w].holds = FALSE] /\ overrun' = overrun \cup {k}
     /\ Work /\ UNCHANGED <<row, mails, noted, events>>

\* Redis loses the job; a handler that has it goes on.
Lose(k) ==
  /\ job[k].pc \in {"waiting", "active"} /\ Fault
  /\ job' = [job EXCEPT ![k] = NoJob]
  /\ hand' = [w \in Workers |-> [hand[w] EXCEPT !.holds = @ /\ hand[w].kind # k]]
  /\ stranded' = stranded \cup {k}
  /\ overrun' = IF job[k].pc = "active" THEN overrun \cup {k} ELSE overrun
  /\ Work /\ UNCHANGED <<row, mails, noted, events>>

\* A thousand jobs later, five thousand if it failed: removeOnComplete, removeOnFail.
Evict(k) ==
  /\ job[k].pc = "done"
  /\ job' = [job EXCEPT ![k] = NoJob]
  /\ Happens
  /\ Work /\ UNCHANGED <<row, hand, mails, stranded, noted, overrun, faults>>

-----------------------------------------------------------------------------
(* What happens by itself *)

\* An error in the mailer is swallowed; the request goes on.
MailerFails(r) ==
  /\ req[r].pc \in {"gate", "undo", "refuse", "record", "enqueue"} /\ Fault
  /\ stranded' = IF At(r, "enqueue") THEN stranded \cup {req[r].kind} ELSE stranded
  /\ Mailed(r)
  /\ UNCHANGED <<user, tokens, outbox, spent, sessions, admitted, opens, noted,
                 reset, overrun, calls, events>>

Crash(r) ==
  /\ ~At(r, "idle") /\ Fault
  /\ stranded' = IF At(r, "enqueue") THEN stranded \cup {req[r].kind} ELSE stranded
  /\ Done(r)
  /\ UNCHANGED <<user, tokens, outbox, spent, sessions, admitted, opens, noted,
                 reset, overrun, calls, events>>

Expire(k) ==
  /\ link[k].state = "good"
  /\ Happens
  /\ link' = [link EXCEPT ![k].state = "late"]
  /\ UNCHANGED <<user, last, to, outbox, spent, sessions, req, history, calls, faults>>

\* Another user confirms the address first.
Taken(a) ==
  /\ a \notin taken /\ a # email
  /\ Happens
  /\ taken' = taken \cup {a}
  /\ UNCHANGED <<double, email, confirmed, tokens, outbox, spent, sessions, req, history, calls, faults>>

\* softDeleteUser.
Delete ==
  /\ email # "deleted"
  /\ Happens
  /\ email' = "deleted" /\ confirmed' = FALSE
  /\ link' = [k \in Kinds |-> NoLink]
  /\ sessions' = {}
  /\ UNCHANGED <<double, taken, last, to, outbox, spent, req, history, calls, faults>>

-----------------------------------------------------------------------------

Call(r) == Ask(r) \/ Propose(r) \/ Click(r)

Serve(r) ==
  \/ Issue(r) \/ Gate(r) \/ Suppress(r) \/ Undo(r) \/ Refuse(r) \/ Record(r) \/ Enqueue(r)
  \/ Drop(r)
  \/ Consume(r) \/ Confirm(r) \/ Open(r)
  \/ Sibling(r) \/ Apply(r) \/ Clear(r) \/ Revoke(r)

Deliver(w) ==
  \/ \E k \in Kinds : Take(w, k)
  \/ Look(w) \/ LookFails(w) \/ Send(w) \/ SendFails(w) \/ Note(w) \/ NoteFails(w)
  \/ Fail(w) \/ FailThrows(w) \/ Settle(w) \/ Stall(w)

Next ==
  \/ \E r \in Reqs : Call(r) \/ Serve(r) \/ MailerFails(r) \/ Crash(r)
  \/ \E w \in Workers : Deliver(w)
  \/ \E k \in Kinds : Lose(k) \/ Evict(k) \/ Expire(k)
  \/ \E a \in Addresses : Taken(a)
  \/ Delete

Spec == Init /\ [][Next]_vars

-----------------------------------------------------------------------------
(* Properties *)

TypeOK ==
  /\ double \in BOOLEAN
  /\ email \in Addresses \cup {Home, "deleted"} /\ confirmed \in BOOLEAN
  /\ taken \subseteq Addresses
  /\ last \in 0..MaxToken
  /\ to \in [Tokens -> Addresses \cup {Home}]
  /\ link \in [Kinds -> [tok : 0..MaxToken, state : {"none", "good", "used", "late"}]]
  /\ row \in [Kinds -> {"none", "queued", "refused", "sent", "failed"}]
  /\ job \in [Kinds -> [pc : {"none", "waiting", "active", "done"},
                        tok : 0..MaxToken, tries : Nat, stalls : Nat]]
  /\ hand \in [Workers -> [pc : {"idle", "look", "send", "note", "fail", "again", "over"},
                           kind : Kinds, tok : 0..MaxToken, tries : Nat,
                           lasting : BOOLEAN, holds : BOOLEAN]]
  /\ spent \in Nat /\ mails \in [Tokens -> Nat] /\ sessions \subseteq Tokens
  /\ req \in [Reqs -> [pc : {"idle", "issue", "gate", "undo", "refuse", "record", "enqueue",
                             "drop", "consume", "confirm", "open", "sibling", "apply",
                             "clear", "abandon", "revoke"},
                       kind : Kinds, tok : 0..MaxToken, addr : Addresses \cup {Home}]]
  /\ admitted \in Nat /\ opens \in [Tokens -> Nat]
  /\ stranded \subseteq Kinds /\ noted \subseteq Tokens
  /\ reset \subseteq Kinds /\ overrun \subseteq Kinds
  /\ calls \in 0..MaxCalls /\ faults \in 0..MaxFaults /\ events \in 0..MaxEvents

\* However many clients follow a link at once (prefetches, double clicks), it signs in at
\* most one of them (store.ts, consumeOneTimeToken).
LinkOpensOnce == \A t \in Tokens : opens[t] <= 1

\* Two requests that race for the last send do not both get it, and what a refusal
\* gives back is its own (gate.ts, checkAndConsume).
CapHolds ==
  /\ admitted <= Cap
  /\ admitted <= spent

\* Both addresses have confirmed and everybody has gone home: the change was made.  Two
\* clicks at once each spend a link before they look at the other's.
Calm == \A r \in Reqs : At(r, "idle")
BothMeansApplied ==
  Calm /\ faults = 0 /\ double =>
    ~(link["new"].state = "used" /\ link["current"].state = "used")

\* A mail that was recorded as sent is not sent again, although the worker dies before its
\* job is settled or the delivery is retried.  The exceptions are a row that another request
\* has reset, and a handler that goes on after its job was given to another.  (A record
\* whose answer is lost is one the worker does not know of: fail writes over it.)
SentOnce ==
  [][\A w \in Workers :
       /\ hand[w].pc = "send" /\ hand[w].tok \in noted
       /\ mails'[hand[w].tok] > mails[hand[w].tok]
       => hand[w].kind \in reset \cup overrun]_vars

\* A row that says a mail is owed has somebody who owes it: a request about to enqueue
\* it, a job that waits, or a handler that has not ended.  `stranded` names the exceptions:
\* a request that fell between the record and the job, a delivery id that belonged to a
\* job which had ended, a last attempt ended by a query that threw, one stall too many,
\* and a job that Redis lost.
Owed(k) == Acts(k) \/ \E r \in Reqs : At(r, "enqueue") /\ req[r].kind = k
QueuedIsOwed == \A k \in Kinds : row[k] = "queued" => Owed(k) \/ k \in stranded

=============================================================================
