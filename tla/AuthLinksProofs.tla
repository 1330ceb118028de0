--------------------------- MODULE AuthLinksProofs --------------------------
(***************************************************************************)
(* For any number of requests, kinds of link, addresses, sends and faults: *)
(* a link signs in at most one client, the counter lets through no more    *)
(* than its cap, a change both addresses confirmed is made, a mail the     *)
(* table says is owed has somebody who owes it but for the named losses,   *)
(* and a mail recorded as sent is sent again only after another request    *)
(* has reset its row or where a handler goes on without its job.           *)
(*                                                                         *)
(* The argument is about who carries a token.  A token is issued once, and *)
(* lies in one link, one request or one job at a time: the UPDATE that     *)
(* looks at a link also spends it, so one request signs in with it; the    *)
(* request that posts it hands it to the job when it forgets it.  A job's  *)
(* lock has one handler; two handlers that carry one token are of one      *)
(* kind, and one of them has overrun its lock.  The counter is at all      *)
(* times above what it admitted and what refusals are about to give back.  *)
(***************************************************************************)
EXTENDS AuthLinks, FiniteSetTheorems, TLAPS

Pcs == {"idle", "issue", "gate", "undo", "refuse", "record", "enqueue", "drop", "consume", "confirm",
        "open", "sibling", "apply", "clear", "abandon", "revoke"}
ReqType == [pc : Pcs, kind : Kinds, tok : 0..MaxToken, addr : Addresses \cup {Home}]
LinkType == [tok : 0..MaxToken, state : {"none", "good", "used", "late"}]
JobType == [pc : {"none", "waiting", "active", "done"},
            tok : 0..MaxToken, tries : Nat, stalls : Nat]
HandPcs == {"idle", "look", "send", "note", "fail", "again", "over"}
HandType == [pc : HandPcs, kind : Kinds, tok : 0..MaxToken, tries : Nat,
             lasting : BOOLEAN, holds : BOOLEAN]
RowStates == {"none", "queued", "refused", "sent", "failed"}

(* What a refusal gives back is its own. *)
Undoing == {r \in Reqs : At(r, "undo")}
Counting == admitted <= Cap /\ admitted + Cardinality(Undoing) <= spent

(* A token that a request, a job or a handler carries has been issued. *)
Mailing == {"gate", "undo", "refuse", "record", "enqueue"}
Following == {"consume", "confirm", "open", "sibling", "apply"}
Carrying ==
  /\ \A r \in Reqs : /\ req[r].pc \in Mailing => req[r].tok \in 1..last
                     /\ req[r].pc \in Following => req[r].tok \in Tokens
  /\ \A k \in Kinds : job[k].pc # "none" => job[k].tok \in 1..last
  /\ \A w \in Workers : hand[w].pc # "idle" => hand[w].tok \in 1..last

(* A handler has the lock of an active job, alone; one that lost it is on record. *)
Busy(w) == hand[w].pc # "idle"
Locking ==
  /\ \A w \in Workers : hand[w].holds => /\ Busy(w) /\ job[hand[w].kind].pc = "active"
                                         /\ job[hand[w].kind].tok = hand[w].tok
  /\ \A v, w \in Workers : hand[v].holds /\ hand[w].holds /\ hand[v].kind = hand[w].kind => v = w
  /\ \A w \in Workers : Busy(w) /\ ~hand[w].holds => hand[w].kind \in overrun

Base == TypeOK /\ Counting /\ Carrying /\ Locking

-----------------------------------------------------------------------------
(* Types and the counter.                                                  *)

LEMMA Types ==
  ASSUME Base
  PROVE  /\ last \in 0..MaxToken /\ to \in [Tokens -> Addresses \cup {Home}]
         /\ link \in [Kinds -> LinkType] /\ row \in [Kinds -> RowStates]
         /\ job \in [Kinds -> JobType] /\ hand \in [Workers -> HandType] /\ req \in [Reqs -> ReqType]
         /\ spent \in Nat /\ admitted \in Nat
         /\ mails \in [Tokens -> Nat] /\ opens \in [Tokens -> Nat] /\ sessions \subseteq Tokens
         /\ stranded \subseteq Kinds /\ noted \subseteq Tokens /\ reset \subseteq Kinds
         /\ overrun \subseteq Kinds
         /\ calls \in 0..MaxCalls /\ faults \in 0..MaxFaults /\ events \in 0..MaxEvents
BY DEF Base, TypeOK, ReqType, LinkType, JobType, HandType, HandPcs, RowStates, Pcs

LEMMA KindFacts == /\ Changes \subseteq Kinds /\ Singles \subseteq Kinds /\ MaxToken \in Nat
                   /\ "new" \in Kinds /\ "current" \in Kinds /\ Singles \cap Changes = {}
BY LinksAssumption DEF Kinds, Changes

LEMMA GotoMoves ==
  ASSUME Base, NEW r \in Reqs, NEW pc \in Pcs, Goto(r, pc)
  PROVE  /\ req' \in [Reqs -> ReqType]
         /\ req'[r].pc = pc /\ req'[r].tok = req[r].tok /\ req'[r].kind = req[r].kind
         /\ req'[r].addr = req[r].addr
         /\ \A q \in Reqs \ {r} : req'[q] = req[q]
<1>1. req \in [Reqs -> ReqType] /\ req' = [req EXCEPT ![r].pc = pc]
  BY Types DEF Goto
<1>2. [req[r] EXCEPT !.pc = pc] \in ReqType
  BY <1>1 DEF ReqType
<1> QED
  BY <1>1, <1>2 DEF ReqType

LEMMA NoReqType == NoReq \in ReqType /\ NoReq.pc = "idle" /\ NoReq.tok = 0 /\ NoReq.addr = Home
BY KindFacts DEF NoReq, ReqType, Pcs, None

LEMMA DoneMoves ==
  ASSUME Base, NEW r \in Reqs, Done(r)
  PROVE  /\ req' \in [Reqs -> ReqType] /\ req'[r].pc = "idle"
         /\ \A q \in Reqs \ {r} : req'[q] = req[q]
BY Types, NoReqType DEF Done

LEMMA MailedMoves ==
  ASSUME Base, NEW r \in Reqs, Mailed(r)
  PROVE  /\ req' \in [Reqs -> ReqType] /\ req'[r].pc \in {"idle", "issue", "drop"}
         /\ \A q \in Reqs \ {r} : req'[q] = req[q]
<1>1. CASE Done(r)
  BY <1>1, DoneMoves
<1>2. CASE Goto(r, "drop")
  BY <1>2, GotoMoves DEF Pcs
<1>3. CASE req' = [req EXCEPT ![r].pc = "issue", ![r].kind = "current"]
  <2>1. [req[r] EXCEPT !.pc = "issue", !.kind = "current"] \in ReqType
    BY Types, KindFacts DEF ReqType, Pcs
  <2>2. req' = [req EXCEPT ![r] = [req[r] EXCEPT !.pc = "issue", !.kind = "current"]]
    BY <1>3, Types
  <2>3. [req[r] EXCEPT !.pc = "issue", !.kind = "current"].pc = "issue"
    BY Types DEF ReqType
  <2> QED
    BY <2>1, <2>2, <2>3, Types
<1> QED
  BY <1>1, <1>2, <1>3 DEF Mailed

\* The counter is above what it admitted and what is to be given back.
LEMMA CountingFrame ==
  ASSUME Base, NEW r \in Reqs, req' \in [Reqs -> ReqType], \A q \in Reqs \ {r} : req'[q] = req[q],
         req'[r].pc # "undo", spent' = spent, admitted' = admitted
  PROVE  Counting'
<1>1. IsFiniteSet(Undoing) /\ Undoing' \subseteq Undoing
  <2>1. IsFiniteSet(Undoing)
    BY LinksAssumption, FS_Subset DEF Undoing
  <2>2. Undoing' \subseteq Undoing
    BY DEF Undoing, At
  <2> QED
    BY <2>1, <2>2
<1>2. IsFiniteSet(Undoing') /\ Cardinality(Undoing') <= Cardinality(Undoing)
  BY <1>1, FS_Subset
<1>3. Cardinality(Undoing) \in Nat /\ Cardinality(Undoing') \in Nat
  BY <1>1, <1>2, FS_CardinalityType
<1> QED
  BY <1>2, <1>3, Types, LinksAssumption DEF Base, Counting

LEMMA CountingGate ==
  ASSUME Base, NEW r \in Reqs, Gate(r)
  PROVE  Counting'
<1>0. IsFiniteSet(Undoing) /\ Cardinality(Undoing) \in Nat
  BY LinksAssumption, FS_Subset, FS_CardinalityType DEF Undoing
<1>1. CASE spent + 1 > Cap
  <2>1. Goto(r, "undo") /\ admitted' = admitted /\ spent' = spent + 1
    BY <1>1 DEF Gate
  <2>2. Undoing' = Undoing \cup {r} /\ r \notin Undoing
    <3>1. /\ req'[r].pc = "undo" /\ \A q \in Reqs \ {r} : req'[q] = req[q]
      BY <2>1, GotoMoves DEF Pcs
    <3> QED
      BY <3>1 DEF Undoing, At, Gate
  <2>3. Cardinality(Undoing') = Cardinality(Undoing) + 1
    BY <1>0, <2>2, FS_AddElement
  <2> QED
    BY <1>0, <2>1, <2>3, Types DEF Base, Counting
<1>2. CASE ~(spent + 1 > Cap)
  <2>1. Goto(r, "record") /\ admitted' = admitted + 1 /\ spent' = spent + 1
    BY <1>2 DEF Gate
  <2>2. Undoing' = Undoing
    <3>1. /\ req'[r].pc = "record" /\ \A q \in Reqs \ {r} : req'[q] = req[q]
      BY <2>1, GotoMoves DEF Pcs
    <3> QED
      BY <3>1 DEF Undoing, At, Gate
  <2> QED
    BY <1>0, <1>2, <2>1, <2>2, Types, LinksAssumption DEF Base, Counting
<1> QED
  BY <1>1, <1>2

LEMMA CountingUndo ==
  ASSUME Base, NEW r \in Reqs, Undo(r)
  PROVE  Counting' /\ spent' \in Nat
<1>0. IsFiniteSet(Undoing) /\ Cardinality(Undoing) \in Nat
  BY LinksAssumption, FS_Subset, FS_CardinalityType DEF Undoing
<1>1. Goto(r, "refuse") /\ admitted' = admitted /\ spent' = spent - 1
  BY DEF Undo, history
<1>2. Undoing' = Undoing \ {r} /\ r \in Undoing
  <2>1. /\ req'[r].pc = "refuse" /\ \A q \in Reqs \ {r} : req'[q] = req[q]
    BY <1>1, GotoMoves DEF Pcs
  <2> QED
    BY <2>1 DEF Undoing, At, Undo
<1>3. Cardinality(Undoing') = Cardinality(Undoing) - 1
  BY <1>0, <1>2, FS_RemoveElement
<1>4. Cardinality(Undoing') \in Nat
  BY <1>0, <1>2, FS_RemoveElement, FS_CardinalityType
<1> QED
  BY <1>0, <1>1, <1>3, <1>4, Types DEF Base, Counting

LEMMA BaseInit == Init => Base
<1> SUFFICES ASSUME Init PROVE Base
  OBVIOUS
<1> USE LinksAssumption, KindFacts
<1>1. req \in [Reqs -> ReqType] /\ Undoing = {}
  BY NoReqType DEF Init, Undoing, At
<1>2. /\ job \in [Kinds -> JobType] /\ link \in [Kinds -> LinkType] /\ row \in [Kinds -> RowStates]
      /\ hand \in [Workers -> HandType]
  BY DEF Init, NoJob, NoHand, NoLink, None, JobType, HandType, HandPcs, LinkType, RowStates
<1>3. /\ spent \in Nat /\ admitted \in Nat /\ admitted <= Cap
      /\ calls \in 0..MaxCalls /\ faults \in 0..MaxFaults /\ events \in 0..MaxEvents /\ last \in 0..MaxToken
  BY DEF Init, None
<1>4. /\ mails \in [Tokens -> Nat] /\ opens \in [Tokens -> Nat]
      /\ to \in [Tokens -> Addresses \cup {Home}]
  BY DEF Init
<1>5. TypeOK
  BY <1>1, <1>2, <1>3, <1>4 DEF Init, TypeOK, ReqType, LinkType, JobType, HandType, HandPcs, RowStates, Pcs
<1>6. Counting
  BY <1>1, <1>3, FS_EmptySet DEF Init, Counting
<1>7. Carrying
  BY DEF Init, Carrying, NoReq, NoJob, NoHand, Mailing, Following
<1>8. Locking
  BY DEF Init, Locking, NoHand, Busy
<1> QED
  BY <1>5, <1>6, <1>7, <1>8 DEF Base

LEMMA SpendMoves ==
  ASSUME Base, NEW r \in Reqs, Spend(r), \E k \in Kinds : link[k].tok = req[r].tok /\ link[k].state = "good"
  PROVE  LET k == Opened(req[r].tok)
         IN /\ k \in Kinds /\ link[k].tok = req[r].tok
            /\ link' = [link EXCEPT ![k].state = "used"] /\ link' \in [Kinds -> LinkType]
            /\ link'[k].state = "used" /\ \A j \in Kinds : link'[j].tok = link[j].tok
            /\ \A j \in Kinds \ {k} : link'[j] = link[j]
            /\ req' \in [Reqs -> ReqType] /\ req'[r].kind = k /\ req'[r].tok = req[r].tok
            /\ req'[r].pc = (IF k \in Singles THEN "confirm" ELSE IF double THEN "sibling" ELSE "apply")
            /\ \A q \in Reqs \ {r} : req'[q] = req[q]
<1> DEFINE k == Opened(req[r].tok)
           pc == IF k \in Singles THEN "confirm" ELSE IF double THEN "sibling" ELSE "apply"
<1>1. k \in Kinds /\ link[k].tok = req[r].tok
  BY DEF Opened
<1>2. link' = [link EXCEPT ![k].state = "used"] /\ req' = [req EXCEPT ![r].kind = k, ![r].pc = pc]
  BY DEF Spend
<1>3. pc \in Pcs /\ pc = (IF k \in Singles THEN "confirm" ELSE IF double THEN "sibling" ELSE "apply")
  BY DEF Pcs
<1> HIDE DEF k, pc
<1>4. [link[k] EXCEPT !.state = "used"] \in LinkType /\ [link[k] EXCEPT !.state = "used"].tok = link[k].tok
      /\ [link[k] EXCEPT !.state = "used"].state = "used"
  BY <1>1, Types DEF LinkType
<1>5. link' = [link EXCEPT ![k] = [link[k] EXCEPT !.state = "used"]]
  BY <1>1, <1>2, Types
<1>6. [req[r] EXCEPT !.kind = k, !.pc = pc] \in ReqType
      /\ [req[r] EXCEPT !.kind = k, !.pc = pc].kind = k /\ [req[r] EXCEPT !.kind = k, !.pc = pc].pc = pc
      /\ [req[r] EXCEPT !.kind = k, !.pc = pc].tok = req[r].tok
  BY <1>1, <1>3, Types DEF ReqType
<1>7. req' = [req EXCEPT ![r] = [req[r] EXCEPT !.kind = k, !.pc = pc]]
  BY <1>2, Types
<1>8. /\ link' \in [Kinds -> LinkType] /\ link'[k].state = "used" /\ link'[k].tok = link[k].tok
      /\ \A j \in Kinds \ {k} : link'[j] = link[j]
  BY <1>1, <1>4, <1>5, Types
<1>9. /\ req' \in [Reqs -> ReqType] /\ req'[r].kind = k /\ req'[r].pc = pc /\ req'[r].tok = req[r].tok
      /\ \A q \in Reqs \ {r} : req'[q] = req[q]
  BY <1>6, <1>7, Types
<1> QED
  BY <1>1, <1>2, <1>3, <1>8, <1>9 DEF k

LEMMA NewIssue ==
  ASSUME NEW q \in ReqType, NEW k \in Kinds
  PROVE  /\ [q EXCEPT !.pc = "issue", !.kind = k] \in ReqType
         /\ [q EXCEPT !.pc = "issue", !.kind = k].pc = "issue"
BY DEF ReqType, Pcs

LEMMA NewChange ==
  ASSUME NEW q \in ReqType, NEW k \in Kinds, NEW a \in Addresses \cup {Home}
  PROVE  /\ [q EXCEPT !.pc = "issue", !.kind = k, !.addr = a] \in ReqType
         /\ [q EXCEPT !.pc = "issue", !.kind = k, !.addr = a].pc = "issue"
BY DEF ReqType, Pcs

LEMMA NewClick ==
  ASSUME NEW q \in ReqType, NEW t \in 0..MaxToken
  PROVE  /\ [q EXCEPT !.pc = "consume", !.tok = t] \in ReqType
         /\ [q EXCEPT !.pc = "consume", !.tok = t].pc = "consume"
         /\ [q EXCEPT !.pc = "consume", !.tok = t].tok = t
BY DEF ReqType, Pcs

LEMMA CallMoves ==
  ASSUME Base, NEW r \in Reqs, Call(r)
  PROVE  /\ req' \in [Reqs -> ReqType] /\ req'[r].pc \in {"issue", "consume"}
         /\ \A q \in Reqs \ {r} : req'[q] = req[q]
         /\ req'[r].pc = "consume" => Click(r) /\ req'[r].tok \in Tokens
<1> USE KindFacts
<1>1. ASSUME NEW q \in ReqType, Begin(r, q), q.pc = "issue" \/ (q.pc = "consume" /\ Click(r) /\ q.tok \in Tokens)
      PROVE  /\ req' \in [Reqs -> ReqType] /\ req'[r] = q
             /\ \A p \in Reqs \ {r} : req'[p] = req[p]
  BY <1>1, Types DEF Begin
<1>2. CASE Ask(r)
  <2>1. PICK k \in Singles : Begin(r, [NoReq EXCEPT !.pc = "issue", !.kind = k])
    BY <1>2 DEF Ask
  <2>2. [NoReq EXCEPT !.pc = "issue", !.kind = k] \in ReqType /\ [NoReq EXCEPT !.pc = "issue", !.kind = k].pc = "issue"
    BY NewIssue, NoReqType
  <2> QED
    BY <1>1, <2>1, <2>2
<1>3. CASE Propose(r)
  <2>1. PICK a \in Addresses : Begin(r, [NoReq EXCEPT !.pc = "issue", !.kind = "new", !.addr = a])
    BY <1>3 DEF Propose
  <2>2. /\ [NoReq EXCEPT !.pc = "issue", !.kind = "new", !.addr = a] \in ReqType
        /\ [NoReq EXCEPT !.pc = "issue", !.kind = "new", !.addr = a].pc = "issue"
    BY NewChange, NoReqType
  <2> QED
    BY <1>1, <2>1, <2>2
<1>4. CASE Click(r)
  <2>1. PICK t \in Tokens : Begin(r, [NoReq EXCEPT !.pc = "consume", !.tok = t])
    BY <1>4 DEF Click
  <2>2. /\ [NoReq EXCEPT !.pc = "consume", !.tok = t] \in ReqType
        /\ [NoReq EXCEPT !.pc = "consume", !.tok = t].pc = "consume"
        /\ [NoReq EXCEPT !.pc = "consume", !.tok = t].tok = t
    <3>1. t \in 0..MaxToken
      BY DEF Tokens
    <3> QED
      BY <3>1, NewClick, NoReqType
  <2>3. /\ req' \in [Reqs -> ReqType] /\ req'[r] = [NoReq EXCEPT !.pc = "consume", !.tok = t]
        /\ \A p \in Reqs \ {r} : req'[p] = req[p]
    BY <1>1, <1>4, <2>1, <2>2
  <2> QED
    BY <1>4, <2>2, <2>3
<1> QED
  BY <1>2, <1>3, <1>4 DEF Call

LEMMA IssuedType ==
  ASSUME NEW q \in ReqType, NEW t \in 0..MaxToken
  PROVE  LET p == [q EXCEPT !.pc = "gate", !.tok = t]
         IN p \in ReqType /\ p.pc = "gate" /\ p.tok = t
BY DEF ReqType, Pcs

\* What a request may do to the requests: its own entry moves on.
LEMMA RequestMoves ==
  ASSUME Base, NEW r \in Reqs, Call(r) \/ Serve(r) \/ MailerFails(r) \/ Crash(r)
  PROVE  /\ req' \in [Reqs -> ReqType]
         /\ \A q \in Reqs \ {r} : req'[q] = req[q]
         /\ req'[r].pc = "undo" => Gate(r)
         /\ req'[r].pc \in Mailing => \/ /\ Issue(r)
                                        /\ req'[r].tok = last + 1
                                     \/ /\ req[r].pc \in Mailing
                                        /\ req'[r].tok = req[r].tok /\ req'[r].kind = req[r].kind
         /\ req'[r].pc \in Following => \/ /\ Click(r) /\ req'[r].pc = "consume"
                                          /\ req'[r].tok \in Tokens
                                       \/ /\ req[r].pc \in Following
                                          /\ req'[r].tok = req[r].tok
<1> USE KindFacts, LinksAssumption
<1> USE DEF Mailing, Following
<1>1. CASE Call(r)
  BY <1>1, CallMoves
<1>2. CASE Issue(r)
  <2>1. last + 1 \in 0..MaxToken
    BY <1>2 DEF Issue, Tokens
  <2>2. [req[r] EXCEPT !.pc = "gate", !.tok = last + 1] \in ReqType
        /\ [req[r] EXCEPT !.pc = "gate", !.tok = last + 1].pc = "gate"
        /\ [req[r] EXCEPT !.pc = "gate", !.tok = last + 1].tok = last + 1
    <3>1. req[r] \in ReqType
      BY Types
    <3> QED
      BY <2>1, <3>1, IssuedType
  <2>3. req' = [req EXCEPT ![r] = [req[r] EXCEPT !.pc = "gate", !.tok = last + 1]]
    BY <1>2, Types DEF Issue
  <2>4. req'[r] = [req[r] EXCEPT !.pc = "gate", !.tok = last + 1] /\ \A q \in Reqs \ {r} : req'[q] = req[q]
    BY <2>3, Types
  <2> QED
    BY <1>2, <2>2, <2>3, <2>4, Types
<1>3. CASE Gate(r)
  BY <1>3, GotoMoves DEF Gate, Pcs, At
<1>4. CASE Refuse(r) \/ Enqueue(r) \/ MailerFails(r)
  BY <1>4, MailedMoves DEF Refuse, Enqueue, MailerFails
<1>5. CASE Drop(r) \/ Open(r) \/ Revoke(r) \/ Crash(r)
  BY <1>5, DoneMoves DEF Drop, Open, Revoke, Crash
<1>6. CASE Consume(r)
  <2>1. CASE Works(req[r].tok)
    BY <1>6, <2>1, SpendMoves DEF Consume, Works, At
  <2>2. CASE ~Works(req[r].tok)
    BY <1>6, <2>2, DoneMoves DEF Consume
  <2> QED
    BY <2>1, <2>2
<1>7. CASE Suppress(r) \/ Undo(r) \/ Record(r) \/ Confirm(r) \/ Sibling(r) \/ Apply(r) \/ Clear(r)
  <2>1. Done(r) \/ \E pc \in Pcs : /\ pc # "undo" /\ Goto(r, pc)
                                   /\ pc \in Mailing => req[r].pc \in Mailing
                                   /\ pc \in Following => req[r].pc \in Following
    BY <1>7 DEF Suppress, Undo, Record, Confirm, Sibling, Apply, Clear, Pcs, At
  <2>2. CASE Done(r)
    BY <2>2, DoneMoves
  <2>3. CASE ~Done(r)
    <3>1. PICK pc \in Pcs : /\ pc # "undo" /\ Goto(r, pc)
                            /\ pc \in Mailing => req[r].pc \in Mailing
                            /\ pc \in Following => req[r].pc \in Following
      BY <2>1, <2>3
    <3> QED
      BY <3>1, GotoMoves
  <2> QED
    BY <2>2, <2>3
<1> QED
  BY <1>1, <1>2, <1>3, <1>4, <1>5, <1>6, <1>7 DEF Serve

(* What the worker and its queue do: a handler's statements; a delivery, its end, a stall, *)
(* a job lost or forgotten.                                                               *)
Handle(w) == Look(w) \/ LookFails(w) \/ Send(w) \/ SendFails(w) \/ Note(w) \/ NoteFails(w)
             \/ Fail(w) \/ FailThrows(w)
WorkerStep == (\E w \in Workers : Deliver(w)) \/ (\E k \in Kinds : Lose(k) \/ Evict(k))

LEMMA WorkerCases ==
  ASSUME WorkerStep
  PROVE  \/ \E w \in Workers : Handle(w) \/ Settle(w) \/ Stall(w) \/ \E k \in Kinds : Take(w, k)
         \/ \E k \in Kinds : Lose(k) \/ Evict(k)
BY DEF WorkerStep, Deliver, Handle

LEMMA WorkerFrame ==
  ASSUME WorkerStep
  PROVE  /\ UNCHANGED <<user, tokens, spent, sessions, req, admitted, opens, reset, calls>>
         /\ faults' = faults \/ (faults' = faults + 1 /\ faults < MaxFaults)
         /\ events' = events \/ (events' = events + 1 /\ events < MaxEvents)
<1>1. ASSUME NEW w \in Workers, Handle(w)
      PROVE  Work /\ (faults' = faults \/ Fault) /\ events' = events
  BY <1>1 DEF Handle, Look, LookFails, Send, SendFails, Note, NoteFails, Fail, FailThrows
<1>2. ASSUME NEW w \in Workers, Settle(w) \/ Stall(w) \/ \E k \in Kinds : Take(w, k)
      PROVE  Work /\ (faults' = faults \/ Fault) /\ events' = events
  BY <1>2 DEF Settle, Stall, Take
<1>3. ASSUME NEW k \in Kinds, Lose(k) \/ Evict(k)
      PROVE  Work /\ (faults' = faults \/ Fault) /\ (events' = events \/ Happens)
  BY <1>3 DEF Lose, Evict
<1> QED
  BY <1>1, <1>2, <1>3, WorkerCases DEF Work, Fault, Happens

LEMMA HandStep ==
  ASSUME Base, NEW w \in Workers, NEW pc \in HandPcs, NEW lasting \in BOOLEAN,
         hand' = [hand EXCEPT ![w].pc = pc] \/ hand' = [hand EXCEPT ![w].pc = pc, ![w].lasting = lasting]
  PROVE  /\ hand' \in [Workers -> HandType]
         /\ hand'[w].pc = pc /\ hand'[w].kind = hand[w].kind /\ hand'[w].tok = hand[w].tok
         /\ hand'[w].holds = hand[w].holds
         /\ \A v \in Workers \ {w} : hand'[v] = hand[v]
<1>0. hand \in [Workers -> HandType] /\ hand[w] \in HandType
  BY Types
<1>1. CASE hand' = [hand EXCEPT ![w].pc = pc]
  <2>1. hand' = [hand EXCEPT ![w] = [hand[w] EXCEPT !.pc = pc]]
    BY <1>0, <1>1
  <2>2. LET h == [hand[w] EXCEPT !.pc = pc]
        IN h \in HandType /\ h.pc = pc /\ h.kind = hand[w].kind /\ h.tok = hand[w].tok /\ h.holds = hand[w].holds
    BY <1>0 DEF HandType
  <2> QED
    BY <1>0, <2>1, <2>2
<1>2. CASE hand' = [hand EXCEPT ![w].pc = pc, ![w].lasting = lasting]
  <2>1. hand' = [hand EXCEPT ![w] = [hand[w] EXCEPT !.pc = pc, !.lasting = lasting]]
    BY <1>0, <1>2
  <2>2. LET h == [hand[w] EXCEPT !.pc = pc, !.lasting = lasting]
        IN h \in HandType /\ h.pc = pc /\ h.kind = hand[w].kind /\ h.tok = hand[w].tok /\ h.holds = hand[w].holds
    BY <1>0 DEF HandType
  <2> QED
    BY <1>0, <2>1, <2>2
<1> QED
  BY <1>1, <1>2

\* A handler at one of its statements keeps its delivery.
LEMMA HandleMoves ==
  ASSUME Base, NEW w \in Workers, Handle(w)
  PROVE  /\ hand' \in [Workers -> HandType] /\ job' = job /\ overrun' = overrun
         /\ \A v \in Workers \ {w} : hand'[v] = hand[v]
         /\ hand'[w].kind = hand[w].kind /\ hand'[w].tok = hand[w].tok /\ hand'[w].holds = hand[w].holds
         /\ hand[w].pc \in {"look", "send", "note", "fail"}
         /\ hand'[w].pc \in {"send", "note", "fail", "again", "over"}
         /\ mails' = mails \/ (hand[w].pc = "send" /\ mails' = [mails EXCEPT ![hand[w].tok] = @ + 1])
<1>1. \E pc \in {"send", "note", "fail", "again", "over"}, lasting \in BOOLEAN :
        hand' = [hand EXCEPT ![w].pc = pc] \/ hand' = [hand EXCEPT ![w].pc = pc, ![w].lasting = lasting]
  <2>1. ASSUME Look(w) \/ Send(w) \/ Note(w) \/ NoteFails(w) \/ Fail(w)
        PROVE  \E pc \in {"send", "note", "fail", "again", "over"} : hand' = [hand EXCEPT ![w].pc = pc]
    BY <2>1 DEF Look, Send, Note, NoteFails, Fail, Step
  <2>2. ASSUME LookFails(w) \/ FailThrows(w)
        PROVE  \E pc \in {"again", "over"} : hand' = [hand EXCEPT ![w].pc = pc]
    BY <2>2 DEF LookFails, FailThrows, Throw, Step
  <2>3. ASSUME SendFails(w)
        PROVE  \E lasting \in BOOLEAN : hand' = [hand EXCEPT ![w].pc = "fail", ![w].lasting = lasting]
    BY <2>3 DEF SendFails
  <2> QED
    BY <2>1, <2>2, <2>3 DEF Handle
<1>2. job' = job /\ overrun' = overrun /\ hand[w].pc \in {"look", "send", "note", "fail"}
  BY DEF Handle, Look, LookFails, Send, SendFails, Note, NoteFails, Fail, FailThrows
<1>3. mails' = mails \/ (hand[w].pc = "send" /\ mails' = [mails EXCEPT ![hand[w].tok] = @ + 1])
  BY DEF Handle, Look, LookFails, Send, SendFails, Note, NoteFails, Fail, FailThrows
<1> QED
  BY <1>1, <1>2, <1>3, HandStep DEF HandPcs

\* What it writes: only one who has sent records it, only one who failed overwrites a
\* record, and one who looks goes on only if the row is not sent.
LEMMA HandleWrites ==
  ASSUME Base, NEW w \in Workers, Handle(w)
  PROVE  /\ row' \in [Kinds -> RowStates] /\ noted' \subseteq Tokens /\ stranded' \subseteq Kinds
         /\ \A k \in Kinds \ {hand[w].kind} : row'[k] = row[k]
         /\ row'[hand[w].kind] = row[hand[w].kind] \/ row'[hand[w].kind] \in {"sent", "failed"}
         /\ row'[hand[w].kind] = "failed" => hand[w].pc = "fail" \/ row[hand[w].kind] = "failed"
         /\ \/ noted' = noted
            \/ /\ noted' = noted \cup {hand[w].tok} /\ row'[hand[w].kind] = "sent" /\ hand'[w].pc = "over"
         /\ hand'[w].pc = "send" => hand[w].pc = "look" /\ row[hand[w].kind] # "sent"
         /\ hand'[w].pc \in {"note", "fail"} => hand[w].pc \in {"send", "note", "fail"}
         /\ stranded \subseteq stranded'
         /\ hand[w].holds /\ hand'[w].pc = "over" => row'[hand[w].kind] # "queued" \/ hand[w].kind \in stranded'
<1>0. /\ row \in [Kinds -> RowStates] /\ noted \subseteq Tokens /\ stranded \subseteq Kinds
      /\ hand \in [Workers -> HandType] /\ hand[w].kind \in Kinds
  BY Types DEF HandType
<1>s. ASSUME NEW pc \in HandPcs, Step(w, pc) PROVE hand'[w].pc = pc
  BY <1>s, HandStep DEF Step
<1>f. \A took \in BOOLEAN, x \in {"sent", "failed"} :
        LET new == IF took THEN [row EXCEPT ![hand[w].kind] = x] ELSE row
        IN /\ new \in [Kinds -> RowStates] /\ new[hand[w].kind] \in {row[hand[w].kind], x}
           /\ \A k \in Kinds \ {hand[w].kind} : new[k] = row[k]
  BY <1>0 DEF RowStates
<1>t. ASSUME Throw(w)
      PROVE  /\ hand'[w].pc \in {"again", "over"} /\ stranded' \subseteq Kinds /\ stranded \subseteq stranded'
             /\ hand[w].holds /\ hand'[w].pc = "over" => hand[w].kind \in stranded'
  <2>1. hand'[w].pc = IF More(w) THEN "again" ELSE "over"
    BY <1>s, <1>t DEF Throw, HandPcs
  <2> QED
    BY <1>0, <1>t, <2>1 DEF Throw
<1>1. CASE Look(w)
  BY <1>0, <1>s, <1>1 DEF Look, HandPcs
<1>2. CASE LookFails(w)
  BY <1>0, <1>t, <1>2 DEF LookFails
<1>3. CASE Send(w)
  BY <1>0, <1>s, <1>3 DEF Send, HandPcs
<1>4. CASE SendFails(w)
  <2>1. hand'[w].pc = "fail"
    BY <1>4, HandStep DEF SendFails, HandPcs
  <2> QED
    BY <1>0, <1>4, <2>1 DEF SendFails
<1>5. CASE Note(w)
  <2>1. hand[w].tok \in Tokens
    BY <1>5, Types, KindFacts DEF Note, Base, Carrying, Tokens
  <2>2. row' \in [Kinds -> RowStates] /\ row'[hand[w].kind] = "sent" /\ \A k \in Kinds \ {hand[w].kind} : row'[k] = row[k]
    BY <1>0, <1>5 DEF Note, RowStates
  <2>3. hand'[w].pc = "over"
    BY <1>s, <1>5 DEF Note, HandPcs
  <2> QED
    BY <1>0, <1>5, <2>1, <2>2, <2>3 DEF Note
<1>6. CASE NoteFails(w)
  <2>1. hand'[w].pc = "fail"
    BY <1>s, <1>6 DEF NoteFails, HandPcs
  <2>2. PICK took \in BOOLEAN : row' = IF took THEN [row EXCEPT ![hand[w].kind] = "sent"] ELSE row
    BY <1>6 DEF NoteFails
  <2> QED
    BY <1>0, <1>f, <1>6, <2>1, <2>2 DEF NoteFails
<1>7. CASE Fail(w)
  <2>1. hand'[w].pc \in {"again", "over"}
    BY <1>s, <1>7 DEF Fail, HandPcs
  <2>2. row' \in [Kinds -> RowStates] /\ row'[hand[w].kind] = "failed" /\ \A k \in Kinds \ {hand[w].kind} : row'[k] = row[k]
    BY <1>0, <1>7 DEF Fail, RowStates
  <2> QED
    BY <1>0, <1>7, <2>1, <2>2 DEF Fail
<1>8. CASE FailThrows(w)
  <2>2. PICK took \in BOOLEAN : row' = IF took THEN [row EXCEPT ![hand[w].kind] = "failed"] ELSE row
    BY <1>8 DEF FailThrows
  <2> QED
    BY <1>0, <1>f, <1>t, <1>8, <2>2 DEF FailThrows
<1> QED
  BY <1>1, <1>2, <1>3, <1>4, <1>5, <1>6, <1>7, <1>8 DEF Handle

LEMMA TakeMoves ==
  ASSUME Base, NEW w \in Workers, NEW k \in Kinds, Take(w, k)
  PROVE  /\ hand' \in [Workers -> HandType] /\ job' \in [Kinds -> JobType]
         /\ hand[w].pc = "idle" /\ job[k].pc = "waiting"
         /\ hand'[w].pc = "look" /\ hand'[w].kind = k /\ hand'[w].tok = job[k].tok /\ hand'[w].holds
         /\ \A v \in Workers \ {w} : hand'[v] = hand[v]
         /\ job'[k].pc = "active" /\ job'[k].tok = job[k].tok
         /\ \A j \in Kinds \ {k} : job'[j] = job[j]
         /\ UNCHANGED <<row, mails, stranded, noted, overrun>>
<1>0. hand \in [Workers -> HandType] /\ job \in [Kinds -> JobType] /\ job[k] \in JobType
  BY Types
<1>1. [pc |-> "look", kind |-> k, tok |-> job[k].tok, tries |-> job[k].tries, lasting |-> FALSE,
       holds |-> TRUE] \in HandType
  BY <1>0 DEF JobType, HandType, HandPcs
<1>2. job' \in [Kinds -> JobType] /\ job'[k].pc = "active" /\ job'[k].tok = job[k].tok
      /\ \A j \in Kinds \ {k} : job'[j] = job[j]
  BY <1>0 DEF Take, JobType
<1> QED
  BY <1>0, <1>1, <1>2 DEF Take

LEMMA NoHandType == NoHand \in HandType /\ NoHand.pc = "idle" /\ ~NoHand.holds
BY KindFacts DEF NoHand, HandType, HandPcs, None

LEMMA NoJobType == NoJob \in JobType /\ NoJob.pc = "none"
BY KindFacts DEF NoJob, JobType, None

LEMMA SettleMoves ==
  ASSUME Base, NEW w \in Workers, Settle(w)
  PROVE  /\ hand' \in [Workers -> HandType] /\ job' \in [Kinds -> JobType]
         /\ hand[w].pc \in {"again", "over"} /\ hand'[w] = NoHand
         /\ \A v \in Workers \ {w} : hand'[v] = hand[v]
         /\ \A j \in Kinds : \/ job'[j] = job[j] /\ ~(hand[w].holds /\ j = hand[w].kind)
                             \/ /\ hand[w].holds /\ j = hand[w].kind /\ job'[j].tok = job[j].tok
                                /\ job'[j].pc = IF hand[w].pc = "again" THEN "waiting" ELSE "done"
         /\ UNCHANGED <<row, mails, stranded, noted, overrun>>
<1>0. hand \in [Workers -> HandType] /\ job \in [Kinds -> JobType] /\ hand[w].kind \in Kinds
  BY Types DEF HandType
<1>1. hand' \in [Workers -> HandType] /\ hand'[w] = NoHand /\ \A v \in Workers \ {w} : hand'[v] = hand[v]
  BY <1>0, NoHandType DEF Settle
<1>2. CASE hand[w].holds
  <2> DEFINE k == hand[w].kind  pc == IF hand[w].pc = "again" THEN "waiting" ELSE "done"
  <2>1. job' = [job EXCEPT ![k].pc = pc, ![k].tries = @ + 1]
    BY <1>2 DEF Settle
  <2>2. pc \in {"waiting", "done"} /\ k \in Kinds
    BY <1>0
  <2>3. job' = [job EXCEPT ![k] = [job[k] EXCEPT !.pc = pc, !.tries = job[k].tries + 1]]
    BY <1>0, <2>1
  <2>4. LET j == [job[k] EXCEPT !.pc = pc, !.tries = job[k].tries + 1]
        IN j \in JobType /\ j.pc = pc /\ j.tok = job[k].tok
    <3>1. job[k] \in JobType /\ job[k].tries + 1 \in Nat
      BY <1>0 DEF JobType
    <3> HIDE DEF k, pc, Kinds
    <3> QED
      BY <2>2, <3>1 DEF JobType
  <2> QED
    BY <1>0, <1>1, <1>2, <2>3, <2>4 DEF Settle
<1>3. CASE ~hand[w].holds
  BY <1>0, <1>1, <1>3 DEF Settle
<1> QED
  BY <1>2, <1>3

LEMMA StallMoves ==
  ASSUME Base, NEW w \in Workers, Stall(w)
  PROVE  LET k == hand[w].kind
         IN /\ hand' \in [Workers -> HandType] /\ job' \in [Kinds -> JobType]
            /\ hand[w].holds /\ k \in Kinds
            /\ \/ hand'[w] = NoHand /\ overrun' = overrun
               \/ /\ ~hand'[w].holds /\ hand'[w].pc = hand[w].pc /\ hand'[w].kind = k
                  /\ hand'[w].tok = hand[w].tok /\ overrun' = overrun \cup {k}
            /\ \A v \in Workers \ {w} : hand'[v] = hand[v]
            /\ \A j \in Kinds \ {k} : job'[j] = job[j]
            /\ job'[k].tok = job[k].tok
            /\ \/ job'[k].pc = "waiting" /\ stranded' = stranded
               \/ job'[k].pc = "done" /\ stranded' = stranded \cup {k}
            /\ UNCHANGED <<row, mails, noted>>
<1> DEFINE k == hand[w].kind
<1>0. hand \in [Workers -> HandType] /\ job \in [Kinds -> JobType] /\ k \in Kinds /\ hand[w] \in HandType
  BY Types DEF HandType
<1>1. hand' \in [Workers -> HandType] /\ \A v \in Workers \ {w} : hand'[v] = hand[v]
  <2>1. CASE hand' = [hand EXCEPT ![w] = NoHand]
    BY <1>0, <2>1, NoHandType
  <2>2. CASE hand' = [hand EXCEPT ![w].holds = FALSE]
    <3>1. hand' = [hand EXCEPT ![w] = [hand[w] EXCEPT !.holds = FALSE]]
      BY <1>0, <2>2
    <3>2. [hand[w] EXCEPT !.holds = FALSE] \in HandType
      BY <1>0 DEF HandType
    <3> QED
      BY <1>0, <3>1, <3>2
  <2> QED
    BY <2>1, <2>2 DEF Stall
<1>2. \/ hand'[w] = NoHand /\ overrun' = overrun
      \/ /\ ~hand'[w].holds /\ hand'[w].pc = hand[w].pc /\ hand'[w].kind = k
         /\ hand'[w].tok = hand[w].tok /\ overrun' = overrun \cup {k}
  BY <1>0 DEF Stall, HandType
<1>3. PICK pc \in {"waiting", "done"} :
        /\ job' = [job EXCEPT ![k].pc = pc, ![k].stalls = @ + 1]
        /\ \/ pc = "waiting" /\ stranded' = stranded
           \/ pc = "done" /\ stranded' = stranded \cup {k}
  BY DEF Stall
<1>4. LET j == [job[k] EXCEPT !.pc = pc, !.stalls = job[k].stalls + 1]
      IN j \in JobType /\ j.pc = pc /\ j.tok = job[k].tok /\ job' = [job EXCEPT ![k] = j]
  <2>1. job[k] \in JobType /\ job[k].stalls + 1 \in Nat
    BY <1>0 DEF JobType
  <2>2. job' = [job EXCEPT ![k] = [job[k] EXCEPT !.pc = pc, !.stalls = job[k].stalls + 1]]
    BY <1>0, <1>3
  <2> HIDE DEF k, Kinds
  <2> QED
    BY <2>1, <2>2 DEF JobType
<1>5. hand[w].holds /\ UNCHANGED <<row, mails, noted>>
  BY DEF Stall
<1>6. job' \in [Kinds -> JobType] /\ job'[k].pc = pc /\ job'[k].tok = job[k].tok /\ \A j \in Kinds \ {k} : job'[j] = job[j]
  BY <1>0, <1>4
<1> HIDE DEF k, Kinds
<1>7. k = hand[w].kind
  BY DEF k
<1> QED
  BY <1>0, <1>1, <1>2, <1>3, <1>5, <1>6, <1>7

LEMMA LoseMoves ==
  ASSUME Base, NEW k \in Kinds, Lose(k)
  PROVE  /\ hand' \in [Workers -> HandType] /\ job' \in [Kinds -> JobType]
         /\ job'[k] = NoJob /\ \A j \in Kinds \ {k} : job'[j] = job[j]
         /\ \A w \in Workers : /\ hand'[w].pc = hand[w].pc /\ hand'[w].kind = hand[w].kind
                               /\ hand'[w].tok = hand[w].tok
                               /\ hand'[w].holds <=> hand[w].holds /\ hand[w].kind # k
         /\ stranded' = stranded \cup {k}
         /\ overrun' = IF job[k].pc = "active" THEN overrun \cup {k} ELSE overrun
         /\ UNCHANGED <<row, mails, noted>>
<1>0. hand \in [Workers -> HandType] /\ job \in [Kinds -> JobType]
  BY Types
<1>1. ASSUME NEW w \in Workers
      PROVE  /\ hand'[w] \in HandType
             /\ hand'[w].pc = hand[w].pc /\ hand'[w].kind = hand[w].kind /\ hand'[w].tok = hand[w].tok
             /\ hand'[w].holds <=> hand[w].holds /\ hand[w].kind # k
  <2>1. hand'[w] = [hand[w] EXCEPT !.holds = hand[w].holds /\ hand[w].kind # k]
    BY DEF Lose
  <2>2. (hand[w].holds /\ hand[w].kind # k) \in BOOLEAN
    OBVIOUS
  <2>3. PICK b \in BOOLEAN : b = (hand[w].holds /\ hand[w].kind # k)
    BY <2>2
  <2>4. hand'[w] = [hand[w] EXCEPT !.holds = b]
    BY <2>1, <2>3
  <2>5. /\ hand'[w] \in HandType /\ hand'[w].holds = b
        /\ hand'[w].pc = hand[w].pc /\ hand'[w].kind = hand[w].kind /\ hand'[w].tok = hand[w].tok
    <3>1. hand[w] \in HandType
      BY <1>0
    <3> HIDE DEF Kinds
    <3> QED
      BY <2>4, <3>1 DEF HandType
  <2>6. hand'[w].holds <=> hand[w].holds /\ hand[w].kind # k
    BY <2>3, <2>5, Zenon
  <2> QED
    BY <2>5, <2>6
<1>2. hand' \in [Workers -> HandType]
  <2>1. hand' = [w \in Workers |-> hand'[w]]
    BY DEF Lose
  <2> QED
    BY <1>1, <2>1
<1> QED
  BY <1>0, <1>1, <1>2, NoJobType DEF Lose

LEMMA EvictMoves ==
  ASSUME Base, NEW k \in Kinds, Evict(k)
  PROVE  /\ job' \in [Kinds -> JobType] /\ job[k].pc = "done"
         /\ job'[k] = NoJob /\ \A j \in Kinds \ {k} : job'[j] = job[j]
         /\ UNCHANGED <<hand, row, mails, stranded, noted, overrun>>
BY Types, NoJobType DEF Evict

LEMMA WorkerMoves ==
  ASSUME Base, WorkerStep
  PROVE  /\ job' \in [Kinds -> JobType] /\ hand' \in [Workers -> HandType] /\ row' \in [Kinds -> RowStates]
         /\ mails' \in [Tokens -> Nat] /\ noted' \subseteq Tokens
         /\ stranded' \subseteq Kinds /\ overrun' \subseteq Kinds
         /\ \A k \in Kinds : job'[k].pc # "none" => job[k].pc # "none" /\ job'[k].tok = job[k].tok
         /\ \A w \in Workers : hand'[w].pc # "idle" => hand'[w].tok \in 1..last
<1>0. /\ job \in [Kinds -> JobType] /\ hand \in [Workers -> HandType] /\ row \in [Kinds -> RowStates]
      /\ mails \in [Tokens -> Nat] /\ noted \subseteq Tokens /\ stranded \subseteq Kinds /\ overrun \subseteq Kinds
      /\ \A w \in Workers : hand[w].kind \in Kinds
  BY Types DEF HandType
<1>c. /\ \A k \in Kinds : job[k].pc # "none" => job[k].tok \in 1..last
      /\ \A w \in Workers : hand[w].pc # "idle" => hand[w].tok \in 1..last
  BY DEF Base, Carrying
<1>h. \A w \in Workers : hand[w].holds => Busy(w) /\ job[hand[w].kind].pc = "active"
  BY DEF Base, Locking
<1>1. ASSUME NEW w \in Workers, Handle(w)
      PROVE  /\ job' = job /\ hand' \in [Workers -> HandType] /\ row' \in [Kinds -> RowStates]
             /\ mails' \in [Tokens -> Nat] /\ noted' \subseteq Tokens
             /\ stranded' \subseteq Kinds /\ overrun' = overrun
             /\ \A v \in Workers : hand'[v].pc # "idle" => hand'[v].tok \in 1..last
  BY <1>0, <1>c, <1>1, HandleMoves, HandleWrites
<1>2. ASSUME NEW w \in Workers, NEW k \in Kinds, Take(w, k)
      PROVE  /\ \A j \in Kinds : job'[j].pc # "none" => job[j].pc # "none" /\ job'[j].tok = job[j].tok
             /\ \A v \in Workers : hand'[v].pc # "idle" => hand'[v].tok \in 1..last
  BY <1>c, <1>2, TakeMoves
<1>3. ASSUME NEW w \in Workers, Settle(w)
      PROVE  /\ \A j \in Kinds : job'[j].pc # "none" => job[j].pc # "none" /\ job'[j].tok = job[j].tok
             /\ \A v \in Workers : hand'[v].pc # "idle" => hand'[v].tok \in 1..last
  <2>1. \A v \in Workers : hand'[v].pc # "idle" => hand'[v] = hand[v]
    BY <1>3, SettleMoves, NoHandType
  <2> QED
    BY <1>c, <1>h, <1>3, <2>1, SettleMoves
<1>4. ASSUME NEW w \in Workers, Stall(w)
      PROVE  /\ \A j \in Kinds : job'[j].pc # "none" => job[j].pc # "none" /\ job'[j].tok = job[j].tok
             /\ \A v \in Workers : hand'[v].pc # "idle" => hand'[v].tok \in 1..last
  BY <1>c, <1>h, <1>4, StallMoves, NoHandType
<1>5. ASSUME NEW k \in Kinds, Lose(k) \/ Evict(k)
      PROVE  /\ \A j \in Kinds : job'[j].pc # "none" => job[j].pc # "none" /\ job'[j].tok = job[j].tok
             /\ \A v \in Workers : hand'[v].pc # "idle" => hand'[v].tok \in 1..last
  BY <1>c, <1>5, LoseMoves, EvictMoves, NoJobType
<1>6. ASSUME NEW w \in Workers, NEW k \in Kinds, Take(w, k)
      PROVE  job' \in [Kinds -> JobType] /\ hand' \in [Workers -> HandType] /\ row' = row /\ mails' = mails
             /\ noted' = noted /\ stranded' = stranded /\ overrun' = overrun
  BY <1>6, TakeMoves
<1>7. ASSUME NEW w \in Workers, Settle(w) \/ Stall(w)
      PROVE  /\ job' \in [Kinds -> JobType] /\ hand' \in [Workers -> HandType] /\ row' = row /\ mails' = mails
             /\ noted' = noted /\ stranded' \subseteq Kinds /\ overrun' \subseteq Kinds
  BY <1>0, <1>7, SettleMoves, StallMoves
<1>8. ASSUME NEW k \in Kinds, Lose(k) \/ Evict(k)
      PROVE  /\ job' \in [Kinds -> JobType] /\ hand' \in [Workers -> HandType] /\ row' = row /\ mails' = mails
             /\ noted' = noted /\ stranded' \subseteq Kinds /\ overrun' \subseteq Kinds
  BY <1>0, <1>8, LoseMoves, EvictMoves
<1> QED
  BY <1>0, <1>1, <1>2, <1>3, <1>4, <1>5, <1>6, <1>7, <1>8, WorkerCases

LEMMA CarryingRequest ==
  ASSUME Base, NEW r \in Reqs, Call(r) \/ Serve(r) \/ MailerFails(r) \/ Crash(r)
  PROVE  Carrying' /\ job' \in [Kinds -> JobType] /\ last' \in 0..MaxToken /\ last <= last' /\ hand' = hand
<1>0. Carrying /\ last \in 0..MaxToken /\ MaxToken \in Nat /\ job \in [Kinds -> JobType] /\ req \in [Reqs -> ReqType]
  BY Types, KindFacts DEF Base
<1>w. hand' = hand
  BY DEF Call, Ask, Propose, Click, Begin, Serve, Issue, Gate, Suppress, Undo, Refuse, Record, Enqueue, Drop,
         Consume, Confirm, Open, Sibling, Apply, Clear, Revoke, MailerFails, Crash, outbox
<1>1. CASE Issue(r)
  <2>1. last' = last + 1 /\ last' \in 1..MaxToken /\ job' = job
    BY <1>0, <1>1 DEF Issue, Tokens, outbox
  <2>2. ASSUME NEW q \in Reqs
        PROVE  /\ req'[q].pc \in Mailing => req'[q].tok \in 1..last'
               /\ req'[q].pc \in Following => req'[q].tok \in Tokens
    <3>1. CASE q = r
      <4>1. req'[r].pc = "gate" /\ req'[r].tok = last + 1
        BY <1>0, <1>1 DEF Issue, ReqType
      <4> QED
        BY <1>0, <2>1, <3>1, <4>1 DEF Following
    <3>2. CASE q # r
      BY <1>0, <2>1, <3>2, RequestMoves DEF Carrying
    <3> QED
      BY <3>1, <3>2
  <2> QED
    BY <1>0, <1>w, <2>1, <2>2 DEF Carrying
<1>2. CASE ~Issue(r)
  <2>1. last' = last
    BY <1>2 DEF Call, Ask, Propose, Click, Begin, Serve, Gate, Suppress, Undo, Refuse, Record, Enqueue, Drop,
                Consume, Confirm, Open, Sibling, Apply, Clear, Revoke, MailerFails, Crash, tokens
  <2>2. ASSUME NEW q \in Reqs
        PROVE  /\ req'[q].pc \in Mailing => req'[q].tok \in 1..last'
               /\ req'[q].pc \in Following => req'[q].tok \in Tokens
    <3>1. CASE q = r
      BY <1>0, <1>2, <2>1, <3>1, RequestMoves DEF Carrying
    <3>2. CASE q # r
      BY <1>0, <2>1, <3>2, RequestMoves DEF Carrying
    <3> QED
      BY <3>1, <3>2
  <2>3. job' \in [Kinds -> JobType] /\ \A k \in Kinds : job'[k].pc # "none" => job'[k].tok \in 1..last
    <3>1. CASE Enqueue(r)
      <4> DEFINE j == [NoJob EXCEPT !.pc = "waiting", !.tok = req[r].tok]
      <4>1. req[r].tok \in 1..last /\ req[r].tok \in 0..MaxToken
        BY <1>0, <3>1 DEF Enqueue, At, Carrying, Mailing
      <4>2. j \in JobType /\ j.tok \in 1..last
        BY <4>1 DEF NoJob, JobType, None
      <4>3. job' = job \/ job' = [job EXCEPT ![req[r].kind] = j]
        BY <3>1 DEF Enqueue
      <4> HIDE DEF j
      <4> QED
        BY <1>0, <4>2, <4>3 DEF Carrying
    <3>2. CASE ~Enqueue(r)
      <4>1. job' = job
        BY <1>2, <3>2 DEF Call, Ask, Propose, Click, Begin, Serve, Gate, Suppress, Undo, Refuse, Record, Drop,
                Consume, Confirm, Open, Sibling, Apply, Clear, Revoke, MailerFails, Crash, outbox
      <4> QED
        BY <1>0, <4>1 DEF Carrying
    <3> QED
      BY <3>1, <3>2
  <2> QED
    BY <1>0, <1>w, <2>1, <2>2, <2>3 DEF Carrying
<1> QED
  BY <1>1, <1>2

LEMMA LockingRequest ==
  ASSUME Base, NEW r \in Reqs, Call(r) \/ Serve(r) \/ MailerFails(r) \/ Crash(r)
  PROVE  Locking' /\ overrun' = overrun
<1>1. hand' = hand /\ overrun' = overrun
  BY DEF Call, Ask, Propose, Click, Begin, Serve, Issue, Gate, Suppress, Undo, Refuse, Record, Enqueue, Drop,
         Consume, Confirm, Open, Sibling, Apply, Clear, Revoke, MailerFails, Crash, outbox, history
<1>2. \A k \in Kinds : job[k].pc # "none" => job'[k] = job[k]
  <2>1. job' = job \/ \E k \in Kinds, j \in JobType : job[k].pc = "none" /\ job' = [job EXCEPT ![k] = j]
    <3>1. CASE Enqueue(r)
      <4>1. [NoJob EXCEPT !.pc = "waiting", !.tok = req[r].tok] \in JobType /\ req[r].kind \in Kinds
        BY Types, KindFacts DEF NoJob, JobType, ReqType
      <4> QED
        BY <3>1, <4>1 DEF Enqueue
    <3>2. CASE ~Enqueue(r)
      BY <3>2 DEF Call, Ask, Propose, Click, Begin, Serve, Issue, Gate, Suppress, Undo, Refuse, Record, Drop,
         Consume, Confirm, Open, Sibling, Apply, Clear, Revoke, MailerFails, Crash, outbox
    <3> QED
      BY <3>1, <3>2
  <2> QED
    BY <2>1, Types
<1>3. \A w \in Workers : hand[w].kind \in Kinds
  BY Types DEF HandType
<1> QED
  BY <1>1, <1>2, <1>3 DEF Base, Locking, Busy

LEMMA CountingRequest ==
  ASSUME Base, NEW r \in Reqs, Call(r) \/ Serve(r) \/ MailerFails(r) \/ Crash(r)
  PROVE  Counting' /\ spent' \in Nat /\ admitted' \in Nat
<1>1. CASE Gate(r)
  BY <1>1, CountingGate, Types DEF Gate
<1>2. CASE Undo(r)
  BY <1>2, CountingUndo, Types DEF Undo, history
<1>3. CASE ~Gate(r) /\ ~Undo(r)
  <2>1. spent' = spent /\ admitted' = admitted
    BY <1>3 DEF Call, Ask, Propose, Click, Begin, Serve, Issue, Suppress, Refuse, Record, Enqueue, Drop,
                Consume, Confirm, Open, Sibling, Apply, Clear, Revoke, MailerFails, Crash, history
  <2>2. req' \in [Reqs -> ReqType] /\ (\A q \in Reqs \ {r} : req'[q] = req[q]) /\ req'[r].pc # "undo"
    BY <1>3, RequestMoves
  <2> QED
    BY <2>1, <2>2, CountingFrame, Types
<1> QED
  BY <1>1, <1>2, <1>3

LEMMA TypesRequest ==
  ASSUME Base, NEW r \in Reqs, Call(r) \/ Serve(r) \/ MailerFails(r) \/ Crash(r)
  PROVE  TypeOK'
<1> USE KindFacts, LinksAssumption
<1>0. /\ last \in 0..MaxToken /\ to \in [Tokens -> Addresses \cup {Home}]
      /\ link \in [Kinds -> LinkType] /\ row \in [Kinds -> RowStates]
      /\ req \in [Reqs -> ReqType] /\ opens \in [Tokens -> Nat] /\ sessions \subseteq Tokens
      /\ stranded \subseteq Kinds /\ reset \subseteq Kinds
      /\ mails \in [Tokens -> Nat] /\ noted \subseteq Tokens
      /\ calls \in 0..MaxCalls /\ faults \in 0..MaxFaults /\ events \in 0..MaxEvents
  BY Types
<1>k. req[r].kind \in Kinds /\ req[r].addr \in Addresses \cup {Home} /\ req[r].tok \in 0..MaxToken
  BY <1>0 DEF ReqType
<1>1. email' \in Addresses \cup {Home, "deleted"} /\ confirmed' \in BOOLEAN /\ double' \in BOOLEAN /\ taken' \subseteq Addresses
  <2>1. email \in Addresses \cup {Home, "deleted"} /\ confirmed \in BOOLEAN /\ double \in BOOLEAN /\ taken \subseteq Addresses
    BY DEF Base, TypeOK
  <2>2. CASE Confirm(r)
    BY <2>1, <2>2 DEF Confirm
  <2>3. CASE Apply(r)
    <3>1. to[req[r].tok] \in Addresses \cup {Home}
      BY <1>0, <2>3 DEF Apply, At, Base, Carrying, Following
    <3> QED
      BY <2>1, <2>3, <3>1 DEF Apply
  <2>4. CASE ~Confirm(r) /\ ~Apply(r)
    <3>1. UNCHANGED user
      BY <2>4 DEF Call, Ask, Propose, Click, Begin, Serve, Issue, Gate, Suppress, Undo, Refuse, Record, Enqueue, Drop,
                Consume, Open, Sibling, Clear, Revoke, MailerFails, Crash
    <3> QED
      BY <2>1, <3>1 DEF user
  <2> QED
    BY <2>2, <2>3, <2>4
<1>2. to' \in [Tokens -> Addresses \cup {Home}]
  <2>1. to' = to \/ to' = [to EXCEPT ![last + 1] = req[r].addr]
    BY DEF Call, Ask, Propose, Click, Begin, Serve, Issue, Gate, Suppress, Undo, Refuse, Record, Enqueue, Drop,
           Consume, Confirm, Open, Sibling, Apply, Clear, Revoke, MailerFails, Crash, tokens
  <2> QED
    BY <1>0, <1>k, <2>1
<1>3. link' \in [Kinds -> LinkType]
  <2>0. NoLink \in LinkType
    BY DEF NoLink, LinkType, None
  <2>1. CASE Issue(r)
    <3>1. [tok |-> last + 1, state |-> "good"] \in LinkType
      BY <2>1 DEF Issue, LinkType, Tokens
    <3> QED
      BY <1>0, <2>1, <3>1 DEF Issue
  <2>2. CASE Drop(r)
    BY <1>0, <2>0, <2>2 DEF Drop
  <2>3. CASE Consume(r)
    <3>1. CASE Works(req[r].tok)
      BY <2>3, <3>1, SpendMoves DEF Consume, Works
    <3>2. CASE ~Works(req[r].tok)
      BY <1>0, <2>3, <3>2 DEF Consume
    <3> QED
      BY <3>1, <3>2
  <2>4. CASE Clear(r)
    <3>1. link' = [k \in Kinds |-> IF k \in Changes THEN NoLink ELSE link[k]]
      BY <2>4 DEF Clear
    <3> QED
      BY <1>0, <2>0, <3>1
  <2>5. CASE ~Issue(r) /\ ~Drop(r) /\ ~Consume(r) /\ ~Clear(r)
    <3>1. link' = link
      BY <2>5 DEF Call, Ask, Propose, Click, Begin, Serve, Gate, Suppress, Undo, Refuse, Record, Enqueue,
                Confirm, Open, Sibling, Apply, Revoke, MailerFails, Crash, tokens
    <3> QED
      BY <1>0, <3>1
  <2> QED
    BY <2>1, <2>2, <2>3, <2>4, <2>5
<1>4. row' \in [Kinds -> RowStates] /\ stranded' \subseteq Kinds /\ reset' \subseteq Kinds
  <2>1. /\ row' \in {row, [row EXCEPT ![req[r].kind] = "refused"], [row EXCEPT ![req[r].kind] = "queued"]}
        /\ reset' \in {reset, reset \cup {req[r].kind}}
        /\ stranded' \in {stranded, stranded \ {req[r].kind}, stranded \cup {req[r].kind}}
    BY DEF Call, Ask, Propose, Click, Begin, Serve, Issue, Gate, Suppress, Undo, Refuse, Record, Enqueue, Drop,
           Consume, Confirm, Open, Sibling, Apply, Clear, Revoke, MailerFails, Crash, outbox, history
  <2> QED
    BY <1>0, <1>k, <2>1 DEF RowStates
<1>5. sessions' \subseteq Tokens /\ opens' \in [Tokens -> Nat]
  <2>1. \/ sessions' \in {sessions, {}} /\ opens' = opens
        \/ Open(r)
    BY DEF Call, Ask, Propose, Click, Begin, Serve, Issue, Gate, Suppress, Undo, Refuse, Record, Enqueue, Drop,
           Consume, Confirm, Sibling, Apply, Clear, Revoke, MailerFails, Crash, history
  <2>2. CASE Open(r)
    BY <1>0, <2>2 DEF Open, At, Base, Carrying, Following
  <2> QED
    BY <1>0, <2>1, <2>2
<1>6. /\ mails' = mails /\ noted' = noted /\ calls' \in {calls, calls + 1} /\ faults' \in {faults, faults + 1}
      /\ (calls' = calls \/ calls < MaxCalls) /\ (faults' = faults \/ faults < MaxFaults) /\ events' = events
  BY DEF Fault, Call, Ask, Propose, Click, Begin, Serve, Issue, Gate, Suppress, Undo, Refuse, Record, Enqueue, Drop,
         Consume, Confirm, Open, Sibling, Apply, Clear, Revoke, MailerFails, Crash, outbox, history
<1>7. /\ mails' \in [Tokens -> Nat] /\ noted' \subseteq Tokens
      /\ calls' \in 0..MaxCalls /\ faults' \in 0..MaxFaults /\ events' \in 0..MaxEvents
  BY <1>0, <1>6
<1>8. /\ job' \in [Kinds -> JobType] /\ last' \in 0..MaxToken /\ spent' \in Nat /\ admitted' \in Nat
      /\ req' \in [Reqs -> ReqType] /\ hand' \in [Workers -> HandType] /\ overrun' \subseteq Kinds
  BY Types, CarryingRequest, CountingRequest, LockingRequest, RequestMoves
<1> QED
  BY <1>1, <1>2, <1>3, <1>4, <1>5, <1>7, <1>8 DEF TypeOK, ReqType, LinkType, JobType, HandType, HandPcs, RowStates, Pcs

LEMMA LockingWorker ==
  ASSUME Base, WorkerStep
  PROVE  Locking'
<1>0. /\ hand \in [Workers -> HandType] /\ job \in [Kinds -> JobType]
      /\ \A w \in Workers : hand[w].kind \in Kinds
  BY Types DEF HandType
<1>1. ASSUME NEW w \in Workers, Handle(w) PROVE Locking'
  <2>1. \A v \in Workers : /\ hand'[v].kind = hand[v].kind /\ hand'[v].tok = hand[v].tok
                           /\ hand'[v].holds = hand[v].holds /\ (Busy(v)' <=> Busy(v))
    BY <1>1, HandleMoves DEF Busy
  <2>2. job' = job /\ overrun' = overrun
    BY <1>1, HandleMoves
  <2> QED
    BY <2>1, <2>2 DEF Base, Locking
<1>2. ASSUME NEW w \in Workers, NEW k \in Kinds, Take(w, k) PROVE Locking'
  <2>1. \A v \in Workers \ {w} : hand[v].holds => hand[v].kind # k
    BY <1>2, TakeMoves DEF Base, Locking
  <2> QED
    BY <1>0, <1>2, <2>1, TakeMoves DEF Base, Locking, Busy
<1>3. ASSUME NEW w \in Workers, Settle(w) PROVE Locking'
  <2>1. \A v \in Workers \ {w} : hand[v].holds => ~(hand[w].holds /\ hand[v].kind = hand[w].kind)
    BY DEF Base, Locking
  <2>2. \A v \in Workers \ {w} : hand[v].holds => job'[hand[v].kind] = job[hand[v].kind]
    BY <1>0, <1>3, <2>1, SettleMoves
  <2>3. overrun' = overrun /\ hand'[w] = NoHand /\ \A v \in Workers \ {w} : hand'[v] = hand[v]
    BY <1>3, SettleMoves
  <2> QED
    BY <2>2, <2>3, NoHandType DEF Base, Locking, Busy
<1>4. ASSUME NEW w \in Workers, Stall(w) PROVE Locking'
  <2>1. \A v \in Workers \ {w} : hand[v].holds => hand[v].kind # hand[w].kind
    BY <1>4, StallMoves DEF Base, Locking
  <2>2. \A v \in Workers \ {w} : hand[v].holds => job'[hand[v].kind] = job[hand[v].kind]
    BY <1>0, <1>4, <2>1, StallMoves
  <2>3. ~hand'[w].holds /\ (Busy(w)' => hand'[w].kind \in overrun') /\ overrun \subseteq overrun'
    BY <1>4, StallMoves, NoHandType DEF Busy
  <2>4. \A v \in Workers \ {w} : hand'[v] = hand[v]
    BY <1>4, StallMoves
  <2> QED
    BY <2>2, <2>3, <2>4 DEF Base, Locking, Busy
<1>5. ASSUME NEW k \in Kinds, Lose(k) PROVE Locking'
  <2>1. overrun \subseteq overrun' /\ \A w \in Workers : hand[w].holds /\ hand[w].kind = k => k \in overrun'
    BY <1>5, LoseMoves DEF Base, Locking
  <2>2. \A w \in Workers : hand'[w].holds => hand[w].holds /\ job'[hand[w].kind] = job[hand[w].kind]
    BY <1>0, <1>5, LoseMoves
  <2>3. \A w \in Workers : /\ hand'[w].kind = hand[w].kind /\ hand'[w].tok = hand[w].tok
                           /\ (Busy(w)' <=> Busy(w))
                           /\ (hand'[w].holds <=> hand[w].holds /\ hand[w].kind # k)
    BY <1>5, LoseMoves DEF Busy
  <2> QED
    BY <2>1, <2>2, <2>3 DEF Base, Locking
<1>6. ASSUME NEW k \in Kinds, Evict(k) PROVE Locking'
  <2>1. \A w \in Workers : hand[w].holds => job'[hand[w].kind] = job[hand[w].kind]
    BY <1>0, <1>6, EvictMoves DEF Base, Locking
  <2>2. hand' = hand /\ overrun' = overrun
    BY <1>6, EvictMoves
  <2> QED
    BY <2>1, <2>2 DEF Base, Locking, Busy
<1> QED
  BY <1>1, <1>2, <1>3, <1>4, <1>5, <1>6, WorkerCases

LEMMA BaseWorker ==
  ASSUME Base, WorkerStep
  PROVE  Base'
<1>1. /\ UNCHANGED <<user, tokens, spent, sessions, req, admitted, opens, reset, calls>>
      /\ faults' \in 0..MaxFaults /\ events' \in 0..MaxEvents
  BY WorkerFrame, Types, LinksAssumption
<1>3. TypeOK'
  BY <1>1, WorkerMoves DEF Base, TypeOK, ReqType, LinkType, JobType, HandType, HandPcs, RowStates, Pcs, user, tokens
<1>4. Counting'
  BY <1>1 DEF Base, Counting, Undoing, At
<1>5. Carrying'
  BY <1>1, WorkerMoves DEF Base, Carrying, tokens
<1> QED
  BY <1>3, <1>4, <1>5, LockingWorker DEF Base

LEMMA BaseStep == Base /\ [Next]_vars => Base'
<1> SUFFICES ASSUME Base, [Next]_vars PROVE Base'
  OBVIOUS
<1>1. ASSUME NEW r \in Reqs, Call(r) \/ Serve(r) \/ MailerFails(r) \/ Crash(r) PROVE Base'
  BY <1>1, TypesRequest, CountingRequest, CarryingRequest, LockingRequest DEF Base
<1>2. ASSUME WorkerStep PROVE Base'
  BY <1>2, BaseWorker
<1>3. ASSUME UNCHANGED <<last, to, spent, req, job, hand, admitted, double, row, mails, opens, stranded, noted, reset, overrun,
                         calls, faults>>,
             email' \in Addresses \cup {Home, "deleted"}, confirmed' \in BOOLEAN, taken' \subseteq Addresses,
             link' \in [Kinds -> LinkType], sessions' \subseteq Tokens, events' \in 0..MaxEvents
      PROVE  Base'
  <2>1. TypeOK'
    BY <1>3, Types DEF Base, TypeOK, ReqType, LinkType, JobType, HandType, HandPcs, RowStates, Pcs
  <2> QED
    BY <1>3, <2>1 DEF Base, Counting, Undoing, At, Carrying, Locking, Busy
<1>e. /\ events \in 0..MaxEvents /\ MaxEvents \in Nat /\ link \in [Kinds -> LinkType] /\ sessions \subseteq Tokens
      /\ email \in Addresses \cup {Home, "deleted"} /\ confirmed \in BOOLEAN /\ taken \subseteq Addresses
  BY Types, LinksAssumption DEF Base, TypeOK
<1>4. ASSUME NEW k \in Kinds, Expire(k) PROVE Base'
  <2>1. link' \in [Kinds -> LinkType]
    BY <1>e, <1>4 DEF Expire, LinkType
  <2> QED
    BY <1>e, <1>3, <1>4, <2>1 DEF Expire, Happens, user, outbox, history
<1>5. ASSUME NEW a \in Addresses, Taken(a) PROVE Base'
  BY <1>e, <1>3, <1>5 DEF Taken, Happens, tokens, outbox, history
<1>6. CASE Delete
  <2>1. link' \in [Kinds -> LinkType]
    BY <1>6, KindFacts DEF Delete, NoLink, LinkType, None
  <2>2. events' \in 0..MaxEvents
    BY <1>e, <1>6 DEF Delete, Happens
  <2>3. /\ UNCHANGED <<last, to, spent, req, job, hand, admitted, double, row, mails, opens, stranded, noted, reset, overrun,
                       calls, faults>>
        /\ email' = "deleted" /\ confirmed' = FALSE /\ taken' = taken /\ sessions' = {}
    BY <1>6 DEF Delete, outbox, history
  <2> QED
    BY <1>e, <1>3, <2>1, <2>2, <2>3
<1>7. CASE UNCHANGED vars
  BY <1>e, <1>3, <1>7 DEF vars, user, tokens, outbox, history
<1> QED
  BY <1>1, <1>2, <1>4, <1>5, <1>6, <1>7 DEF Next, WorkerStep

\* Every request, link, row and job has its type, and the counter stays a number:
\* no refusal takes it below zero (gate.ts, checkAndConsume).
THEOREM Typing == Spec => []TypeOK
<1>1. Base => TypeOK
  BY DEF Base
<1> QED
  BY <1>1, BaseInit, BaseStep, PTL DEF Spec

-----------------------------------------------------------------------------
(* A link opens one session.                                               *)

Signing(r) == req[r].pc \in {"confirm", "open"}

\* One link has a token; a good one has opened nothing and nobody is signing in with it;
\* one request signs in with a token, which has opened nothing yet.
Linked ==
  /\ \A j, k \in Kinds : link[j].tok = link[k].tok /\ link[k].tok # None => j = k
  /\ \A k \in Kinds : link[k].tok <= last
  /\ \A k \in Kinds : link[k].state = "good" =>
       /\ link[k].tok # None /\ opens[link[k].tok] = 0
       /\ \A r \in Reqs : Signing(r) => req[r].tok # link[k].tok
  /\ \A r \in Reqs : Signing(r) => req[r].tok <= last /\ opens[req[r].tok] = 0
  /\ \A q, r \in Reqs : Signing(q) /\ Signing(r) /\ req[q].tok = req[r].tok => q = r
  /\ \A t \in Tokens : t > last => opens[t] = 0
  /\ LinkOpensOnce

RequestStep(r) == Call(r) \/ Serve(r) \/ MailerFails(r) \/ Crash(r)

\* Every step is a request's, the worker's or nobody's.
LEMMA Steps ==
  ASSUME [Next]_vars
  PROVE  \/ \E r \in Reqs : RequestStep(r)
         \/ WorkerStep
         \/ (\E k \in Kinds : Expire(k)) \/ (\E a \in Addresses : Taken(a)) \/ Delete \/ UNCHANGED vars
BY DEF Next, RequestStep, WorkerStep

LEMMA SigningMoves ==
  ASSUME Base, NEW r \in Reqs, RequestStep(r), Signing(r)'
  PROVE  \/ Consume(r) /\ Works(req[r].tok) /\ req'[r].tok = req[r].tok
         \/ Signing(r) /\ req'[r].tok = req[r].tok
<1>1. CASE Consume(r)
  <2>1. CASE Works(req[r].tok)
    BY <1>1, <2>1, SpendMoves DEF Consume, Works
  <2>2. CASE ~Works(req[r].tok)
    BY <1>1, <2>2, DoneMoves DEF Consume, Signing
  <2> QED
    BY <2>1, <2>2
<1>2. CASE Confirm(r)
  <2>1. Done(r) \/ Goto(r, "open")
    BY <1>2 DEF Confirm
  <2> QED
    BY <1>2, <2>1, DoneMoves, GotoMoves DEF Confirm, Signing, At, Pcs
<1>3. CASE Done(r) \/ Mailed(r)
  BY <1>3, DoneMoves, MailedMoves DEF Signing
<1>4. CASE Call(r) \/ Issue(r)
  <2>1. req'[r].pc \in {"issue", "consume", "gate"}
    <3>1. CASE Issue(r)
      BY <3>1, Types DEF Issue, ReqType
    <3> QED
      BY <1>4, <3>1, CallMoves
  <2> QED
    BY <2>1 DEF Signing
<1>5. CASE Gate(r) \/ Suppress(r) \/ Undo(r) \/ Record(r) \/ Sibling(r) \/ Apply(r) \/ Clear(r)
  <2>1. Done(r) \/ \E pc \in Pcs \ {"confirm", "open"} : Goto(r, pc)
    BY <1>5 DEF Gate, Suppress, Undo, Record, Sibling, Apply, Clear, Pcs
  <2> QED
    BY <2>1, DoneMoves, GotoMoves DEF Signing
<1> QED
  BY <1>1, <1>2, <1>3, <1>4, <1>5 DEF RequestStep, Serve, Refuse, Enqueue, Drop, Open, Revoke, MailerFails, Crash

\* Nothing about tokens and sessions changes but what is said.
LEMMA LinkedFrame ==
  ASSUME Base, Linked, last' = last, opens' = opens,
         \A k \in Kinds : \/ link'[k] = link[k] \/ link'[k] = NoLink
                          \/ link'[k].tok = link[k].tok /\ link'[k].state # "good",
         \A r \in Reqs : Signing(r)' => Signing(r) /\ req'[r].tok = req[r].tok
  PROVE  Linked'
<1>1. \A k \in Kinds : link'[k].tok = link[k].tok \/ (link'[k].tok = None /\ link'[k].state = "none")
  BY DEF NoLink
<1>2. \A k \in Kinds : link'[k].state = "good" => link'[k] = link[k]
  BY DEF NoLink
<1>3. \A j, k \in Kinds : link'[j].tok = link'[k].tok /\ link'[k].tok # None => j = k
  BY <1>1 DEF Linked
<1>4. \A k \in Kinds : link'[k].tok <= last'
  BY <1>1, Types DEF Linked, None
<1>5. \A k \in Kinds : link'[k].state = "good" =>
       /\ link'[k].tok # None /\ opens'[link'[k].tok] = 0
       /\ \A r \in Reqs : Signing(r)' => req'[r].tok # link'[k].tok
  BY <1>2 DEF Linked
<1> QED
  BY <1>3, <1>4, <1>5 DEF Linked, LinkOpensOnce

LEMMA LinkedStep ==
  ASSUME Base, Linked, [Next]_vars
  PROVE  Linked'
<1> USE KindFacts
<1>0. /\ last \in 0..MaxToken /\ link \in [Kinds -> LinkType] /\ req \in [Reqs -> ReqType]
      /\ opens \in [Tokens -> Nat]
  BY Types
<1>1. ASSUME NEW r \in Reqs, RequestStep(r) PROVE Linked'
  <2>o. \A q \in Reqs \ {r} : req'[q] = req[q]
    BY <1>1, RequestMoves DEF RequestStep
  <2>1. CASE Issue(r)
    <3>1. last' = last + 1 /\ last' \in Tokens /\ opens' = opens
      BY <2>1 DEF Issue, history
    <3>2. PICK k \in Kinds : link' = [link EXCEPT ![k] = [tok |-> last + 1, state |-> "good"]]
      BY <1>0, <2>1 DEF Issue, ReqType
    <3>3. link'[k].tok = last + 1 /\ link'[k].state = "good" /\ \A j \in Kinds \ {k} : link'[j] = link[j]
      BY <1>0, <3>2
    <3>4. ~Consume(r)
      BY <2>1 DEF Issue, Consume, At
    <3>5. \A q \in Reqs : Signing(q)' => Signing(q) /\ req'[q].tok = req[q].tok
      BY <1>1, <2>o, <3>4, SigningMoves DEF Signing
    <3>6. opens[last + 1] = 0 /\ last < last + 1 /\ \A j \in Kinds : link[j].tok # last + 1
      BY <1>0, <3>1 DEF Linked, LinkType
    <3>7. \A i, j \in Kinds : link'[i].tok = link'[j].tok /\ link'[j].tok # None => i = j
      BY <3>3, <3>6 DEF Linked
    <3>8. \A j \in Kinds : link'[j].tok <= last'
      BY <1>0, <3>1, <3>3 DEF Linked, LinkType
    <3>9. \A q \in Reqs : Signing(q)' => req'[q].tok <= last /\ opens'[req'[q].tok] = 0 /\ req'[q].tok # last + 1
      BY <1>0, <3>1, <3>5 DEF Linked, ReqType
    <3>10. \A j \in Kinds : link'[j].state = "good" =>
             /\ link'[j].tok # None /\ opens'[link'[j].tok] = 0
             /\ \A q \in Reqs : Signing(q)' => req'[q].tok # link'[j].tok
      BY <1>0, <3>1, <3>3, <3>5, <3>6, <3>9 DEF Linked, None
    <3>11. \A q, p \in Reqs : Signing(q)' /\ Signing(p)' /\ req'[q].tok = req'[p].tok => q = p
      BY <3>5 DEF Linked
    <3>12. \A q \in Reqs : Signing(q)' => req'[q].tok <= last' /\ opens'[req'[q].tok] = 0
      BY <1>0, <3>1, <3>5 DEF Linked, ReqType
    <3>13. \A t \in Tokens : t > last' => opens'[t] = 0
      BY <1>0, <3>1 DEF Linked, Tokens
    <3> QED
      BY <3>1, <3>7, <3>8, <3>10, <3>11, <3>12, <3>13 DEF Linked, LinkOpensOnce
  <2>2. CASE Consume(r) /\ Works(req[r].tok)
    <3> DEFINE k == Opened(req[r].tok)
               t == req[r].tok
    <3>1. /\ k \in Kinds /\ link[k].tok = t
          /\ link'[k].state = "used" /\ \A j \in Kinds : link'[j].tok = link[j].tok
          /\ \A j \in Kinds \ {k} : link'[j] = link[j]
          /\ req'[r].tok = t
      BY <2>2, SpendMoves DEF Consume, Works
    <3>2. last' = last /\ opens' = opens
      BY <2>2 DEF Consume
    <3>3. t \in Tokens /\ t # None
      BY <2>2 DEF Consume, At, Base, Carrying, Following, Tokens, None
    <3>4. PICK j \in Kinds : link[j].tok = t /\ link[j].state = "good"
      BY <2>2 DEF Works
    <3> HIDE DEF k, t
    <3>5. j = k /\ link[k].state = "good"
      BY <3>1, <3>3, <3>4 DEF Linked
    <3>6. opens[t] = 0 /\ t <= last /\ \A q \in Reqs : Signing(q) => req[q].tok # t
      BY <3>1, <3>5 DEF Linked
    <3>7. \A q \in Reqs : Signing(q)' => \/ Signing(q) /\ req'[q].tok = req[q].tok
                                         \/ q = r /\ req'[q].tok = t
      BY <2>o, <3>1 DEF Signing
    <3>8. \A q \in Reqs : Signing(q)' => req'[q].tok <= last' /\ opens'[req'[q].tok] = 0
      BY <3>2, <3>6, <3>7 DEF Linked
    <3>9. \A p, q \in Reqs : Signing(p)' /\ Signing(q)' /\ req'[p].tok = req'[q].tok => p = q
      BY <3>6, <3>7 DEF Linked
    <3>10. \A i \in Kinds : link'[i].state = "good" =>
             /\ link'[i].tok # None /\ opens'[link'[i].tok] = 0
             /\ \A q \in Reqs : Signing(q)' => req'[q].tok # link'[i].tok
      <4> SUFFICES ASSUME NEW i \in Kinds, link'[i].state = "good"
                   PROVE  /\ link'[i].tok # None /\ opens'[link'[i].tok] = 0
                          /\ \A q \in Reqs : Signing(q)' => req'[q].tok # link'[i].tok
        OBVIOUS
      <4>1. i # k /\ link'[i] = link[i]
        BY <3>1
      <4>2. link[i].tok # t
        BY <3>1, <3>3, <4>1 DEF Linked
      <4> QED
        BY <3>2, <3>7, <4>1, <4>2 DEF Linked
    <3> QED
      BY <3>1, <3>2, <3>8, <3>9, <3>10 DEF Linked, LinkOpensOnce
  <2>3. CASE Open(r)
    <3>1. /\ last' = last /\ link' = link /\ Signing(r) /\ ~Signing(r)'
          /\ opens' = [opens EXCEPT ![req[r].tok] = @ + 1]
      BY <2>3, DoneMoves DEF Open, Signing, At, tokens
    <3>2. req[r].tok \in Tokens
      BY <2>3 DEF Open, At, Base, Carrying, Following
    <3> DEFINE t == req[r].tok
    <3>3. opens[t] = 0 /\ t <= last /\ opens'[t] = 1 /\ \A u \in Tokens \ {t} : opens'[u] = opens[u]
      BY <1>0, <3>1, <3>2 DEF Linked
    <3>4. \A q \in Reqs : Signing(q)' => Signing(q) /\ q # r /\ req'[q] = req[q] /\ req[q].tok # t
      BY <2>o, <3>1 DEF Linked, Signing
    <3>5. \A q \in Reqs : Signing(q) => req[q].tok \in Tokens
      BY DEF Signing, Base, Carrying, Following
    <3>6. \A i \in Kinds : link[i].state = "good" => link[i].tok # t /\ link[i].tok \in Tokens
      BY <1>0, <3>1 DEF Linked, LinkType, Tokens, None
    <3> HIDE DEF t
    <3>7. \A i \in Kinds : link'[i].state = "good" =>
             /\ link'[i].tok # None /\ opens'[link'[i].tok] = 0
             /\ \A q \in Reqs : Signing(q)' => req'[q].tok # link'[i].tok
      BY <3>1, <3>3, <3>4, <3>6 DEF Linked
    <3>8. \A q \in Reqs : Signing(q)' => req'[q].tok <= last' /\ opens'[req'[q].tok] = 0
      BY <3>1, <3>3, <3>4, <3>5 DEF Linked
    <3>9. \A p, q \in Reqs : Signing(p)' /\ Signing(q)' /\ req'[p].tok = req'[q].tok => p = q
      BY <3>4 DEF Linked
    <3>10. \A u \in Tokens : u > last' => opens'[u] = 0
      BY <1>0, <3>1, <3>2, <3>3 DEF Linked, Tokens
    <3>11. \A u \in Tokens : opens'[u] <= 1
      BY <3>3 DEF Linked, LinkOpensOnce
    <3> QED
      BY <3>1, <3>7, <3>8, <3>9, <3>10, <3>11 DEF Linked, LinkOpensOnce
  <2>4. CASE ~Issue(r) /\ ~Open(r) /\ ~(Consume(r) /\ Works(req[r].tok))
    <3>1. last' = last /\ opens' = opens
      BY <1>1, <2>4 DEF RequestStep, Call, Ask, Propose, Click, Begin, Serve, Gate, Suppress, Undo, Refuse, Record,
         Enqueue, Drop, Consume, Confirm, Sibling, Apply, Clear, Revoke, MailerFails, Crash, tokens, history
    <3>2. \A k \in Kinds : link'[k] = link[k] \/ link'[k] = NoLink
      <4>1. link' = link \/ Drop(r) \/ Clear(r)
        BY <1>1, <2>4 DEF RequestStep, Call, Ask, Propose, Click, Begin, Serve, Gate, Suppress, Undo, Refuse, Record,
           Enqueue, Consume, Confirm, Sibling, Apply, Revoke, MailerFails, Crash, tokens
      <4>2. CASE Drop(r)
        BY <1>0, <4>2 DEF Drop
      <4>3. CASE Clear(r)
        BY <1>0, <4>3 DEF Clear
      <4> QED
        BY <4>1, <4>2, <4>3
    <3>3. \A q \in Reqs : Signing(q)' => Signing(q) /\ req'[q].tok = req[q].tok
      BY <1>1, <2>o, <2>4, SigningMoves DEF Signing
    <3> QED
      BY <3>1, <3>2, <3>3, LinkedFrame
  <2> QED
    BY <2>1, <2>2, <2>3, <2>4
<1>2. CASE WorkerStep
  <2>1. last' = last /\ opens' = opens /\ link' = link /\ req' = req
    BY <1>2, WorkerFrame DEF tokens
  <2> QED
    BY <2>1, LinkedFrame DEF Signing
<1>3. CASE \E k \in Kinds : Expire(k)
  <2>1. PICK k \in Kinds : Expire(k)
    BY <1>3
  <2>2. link' = [link EXCEPT ![k].state = "late"] /\ last' = last /\ opens' = opens /\ req' = req
    BY <2>1 DEF Expire, history
  <2>3. \A j \in Kinds : link'[j] = link[j] \/ (link'[j].tok = link[j].tok /\ link'[j].state # "good")
    BY <1>0, <2>2 DEF LinkType
  <2> QED
    BY <2>2, <2>3, LinkedFrame DEF Signing
<1>4. CASE (\E a \in Addresses : Taken(a)) \/ UNCHANGED vars
  <2>1. last' = last /\ opens' = opens /\ link' = link /\ req' = req
    BY <1>4 DEF Taken, vars, tokens, history
  <2> QED
    BY <2>1, LinkedFrame DEF Signing
<1>5. CASE Delete
  <2>1. last' = last /\ opens' = opens /\ req' = req /\ \A k \in Kinds : link'[k] = NoLink
    BY <1>5 DEF Delete, history
  <2> QED
    BY <2>1, LinkedFrame DEF Signing
<1> QED
  BY <1>1, <1>2, <1>3, <1>4, <1>5, Steps

LEMMA LinkedInit == Init => Linked
BY KindFacts DEF Init, Linked, LinkOpensOnce, NoLink, NoReq, None, Signing

-----------------------------------------------------------------------------
(* A change that both addresses confirmed.                                 *)

BothUsed == link["new"].state = "used" /\ link["current"].state = "used"
Applying(r) == req[r].pc \in {"sibling", "apply", "clear", "abandon"}

\* Once both links are spent, the request that spent the second is still at the change.
Concluding == faults = 0 /\ double /\ BothUsed => \E r \in Reqs : Applying(r)

LEMMA ConcludingStep ==
  ASSUME Base, Concluding, [Next]_vars
  PROVE  Concluding'
<1> SUFFICES ASSUME faults' = 0, double', BothUsed' PROVE \E r \in Reqs : Applying(r)'
  BY DEF Concluding
<1> USE KindFacts
<1>0. faults \in Nat /\ link \in [Kinds -> LinkType]
  BY Types
<1>1. ASSUME NEW r \in Reqs, RequestStep(r) PROVE \E q \in Reqs : Applying(q)'
  <2>o. \A q \in Reqs \ {r} : req'[q] = req[q]
    BY <1>1, RequestMoves DEF RequestStep
  <2>1. faults' = faults /\ ~MailerFails(r) /\ ~Crash(r)
    <3>1. faults' = faults + 1 \/ (faults' = faults /\ ~MailerFails(r) /\ ~Crash(r))
      <4>1. MailerFails(r) \/ Crash(r) => faults' = faults + 1
        BY DEF MailerFails, Crash, Fault
      <4>2. Call(r) \/ Serve(r) => faults' = faults
        BY DEF Call, Ask, Propose, Click, Begin, Serve, Issue, Gate, Suppress, Undo, Refuse, Record,
               Enqueue, Drop, Consume, Confirm, Open, Sibling, Apply, Clear, Revoke
      <4> QED
        BY <1>1, <4>1, <4>2 DEF RequestStep
    <3> QED
      BY <1>0, <3>1
  <2>2. double' = double
    BY <1>1 DEF RequestStep, Call, Ask, Propose, Click, Begin, Serve, Issue, Gate, Suppress, Undo, Refuse, Record,
           Enqueue, Drop, Consume, Confirm, Open, Sibling, Apply, Clear, Revoke, MailerFails, Crash, user
  <2>3. CASE Consume(r) /\ Works(req[r].tok)
    <3>1. Opened(req[r].tok) \notin Singles => req'[r].pc = "sibling"
      BY <2>2, <2>3, SpendMoves DEF Consume, Works
    <3>2. CASE Opened(req[r].tok) \notin Singles
      BY <3>1, <3>2 DEF Applying
    <3>3. CASE Opened(req[r].tok) \in Singles
      <4>1. link'["new"] = link["new"] /\ link'["current"] = link["current"]
        BY <2>3, <3>3, SpendMoves DEF Consume, Works, Changes
      <4>2. PICK q \in Reqs : Applying(q)
        BY <2>1, <2>2, <4>1 DEF Concluding, BothUsed
      <4>3. q # r
        BY <2>3, <4>2 DEF Consume, At, Applying
      <4> QED
        BY <2>o, <4>2, <4>3 DEF Applying
    <3> QED
      BY <3>2, <3>3
  <2>4. CASE ~(Consume(r) /\ Works(req[r].tok))
    <3>1. ~Clear(r) /\ ~Drop(r)
      <4>1. Clear(r) => link'["new"] = NoLink
        BY DEF Clear, Changes
      <4>2. Drop(r) => link'["current"] = NoLink
        BY <1>0 DEF Drop
      <4> QED
        BY <4>1, <4>2 DEF BothUsed, NoLink
    <3>2. BothUsed
      <4>1. CASE Issue(r)
        <5>1. \A k \in Kinds : link'[k] = link[k] \/ link'[k].state = "good"
          BY <1>0, <4>1 DEF Issue
        <5> QED
          BY <5>1 DEF BothUsed
      <4>2. CASE ~Issue(r)
        <5>1. link' = link
          BY <1>1, <2>4, <3>1, <4>2 DEF RequestStep, Call, Ask, Propose, Click, Begin, Serve, Gate, Suppress, Undo,
             Refuse, Record, Enqueue, Consume, Confirm, Open, Sibling, Apply, Revoke, MailerFails, Crash, tokens
        <5> QED
          BY <5>1 DEF BothUsed
      <4> QED
        BY <4>1, <4>2
    <3>3. PICK q \in Reqs : Applying(q)
      BY <2>1, <2>2, <3>2 DEF Concluding
    <3>4. CASE q # r
      BY <2>o, <3>3, <3>4 DEF Applying
    <3>5. CASE q = r
      <4>1. Sibling(r) \/ Apply(r)
        BY <1>1, <2>1, <3>1, <3>3, <3>5 DEF RequestStep, Call, Ask, Propose, Click, Begin, Serve, Issue, Gate, Suppress,
           Undo, Refuse, Record, Enqueue, Drop, Consume, Confirm, Open, Revoke, At, Applying
      <4>2. Goto(r, "apply") \/ Goto(r, "abandon") \/ Goto(r, "clear")
        BY <3>2, <4>1 DEF Sibling, Apply, BothUsed
      <4> QED
        BY <4>2, GotoMoves DEF Applying, Pcs
    <3> QED
      BY <3>4, <3>5
  <2> QED
    BY <2>3, <2>4
<1>2. CASE WorkerStep
  <2>1. /\ link' = link /\ req' = req /\ double' = double
        /\ faults' = faults \/ faults' = faults + 1
    BY <1>2, WorkerFrame DEF tokens, user
  <2>2. faults = 0
    BY <1>0, <2>1
  <2> QED
    BY <2>1, <2>2 DEF Concluding, BothUsed, Applying
<1>3. CASE \E k \in Kinds : Expire(k)
  <2>1. PICK k \in Kinds : Expire(k)
    BY <1>3
  <2>2. link' = [link EXCEPT ![k].state = "late"] /\ req' = req /\ faults' = faults /\ double' = double
    BY <2>1 DEF Expire, user
  <2>3. \A j \in Kinds : link'[j].state = link[j].state \/ link'[j].state = "late"
    BY <1>0, <2>2 DEF LinkType
  <2> QED
    BY <2>2, <2>3 DEF Concluding, BothUsed, Applying
<1>4. CASE (\E a \in Addresses : Taken(a)) \/ UNCHANGED vars
  <2>1. link' = link /\ req' = req /\ faults' = faults /\ double' = double
    BY <1>4 DEF Taken, vars, tokens, user
  <2> QED
    BY <2>1 DEF Concluding, BothUsed, Applying
<1>5. CASE Delete
  <2>1. link'["new"] = NoLink
    BY <1>5 DEF Delete
  <2> QED
    BY <2>1 DEF BothUsed, NoLink
<1> QED
  BY <1>1, <1>2, <1>3, <1>4, <1>5, Steps

-----------------------------------------------------------------------------
(* Mail.                                                                   *)

Posting(r) == req[r].pc \in Mailing
Holding(k) == job[k].pc # "none"

\* A token is posted by one request, held by one job or handled for one kind; a job or a
\* handler that may still send a mail recorded as sent finds its row saying so, or the row
\* has been reset, or a handler has overrun its lock.
Excused == reset \cup overrun
Sending(w) == hand[w].pc \in {"send", "note", "fail"}
Apart ==
  /\ \A q, r \in Reqs : Posting(q) /\ Posting(r) /\ req[q].tok = req[r].tok => q = r
  /\ \A r \in Reqs : Posting(r) => req[r].tok \notin noted
  /\ \A r \in Reqs, k \in Kinds : Posting(r) /\ Holding(k) => job[k].tok # req[r].tok
  /\ \A r \in Reqs, w \in Workers : Posting(r) /\ Busy(w) => hand[w].tok # req[r].tok
  /\ \A j, k \in Kinds : Holding(j) /\ Holding(k) /\ job[j].tok = job[k].tok => j = k
  /\ \A v, w \in Workers : Busy(v) /\ Busy(w) /\ hand[v].tok = hand[w].tok => hand[v].kind = hand[w].kind
  /\ \A w \in Workers, k \in Kinds : Busy(w) /\ Holding(k) /\ hand[w].tok = job[k].tok => hand[w].kind = k
  /\ \A t \in noted : t <= last
Once ==
  /\ \A k \in Kinds : Holding(k) /\ job[k].tok \in noted => row[k] = "sent" \/ k \in Excused
  /\ \A w \in Workers : Sending(w) /\ hand[w].tok \in noted => hand[w].kind \in Excused

Mail == Apart /\ Once /\ QueuedIsOwed

\* How requests post, and how a job comes to be.
LEMMA PostingMoves ==
  ASSUME Base, NEW r \in Reqs, RequestStep(r), Posting(r)'
  PROVE  \/ Issue(r) /\ req'[r].tok = last + 1
         \/ Posting(r) /\ req'[r].tok = req[r].tok /\ req'[r].kind = req[r].kind
BY RequestMoves DEF RequestStep, Posting

\* Who acts for a kind goes on acting, or the row is told, or the kind is stranded.
LEMMA ActsWorker ==
  ASSUME Base, QueuedIsOwed, WorkerStep
  PROVE  QueuedIsOwed'
<1> USE DEF HandPcs
<1>0. req' = req /\ \A w \in Workers : hand[w].kind \in Kinds /\ hand[w].pc \in HandPcs
  BY WorkerFrame, Types DEF HandType
<1>q. \A k \in Kinds : Owed(k)' <=> Acts(k)' \/ \E r \in Reqs : At(r, "enqueue") /\ req[r].kind = k
  BY <1>0 DEF Owed, At
<1>m. stranded \subseteq stranded' /\ \A k \in Kinds : row'[k] = "queued" => row[k] = "queued"
  <2>1. CASE \E w \in Workers : Handle(w)
    BY <2>1, HandleWrites
  <2>2. CASE \E w \in Workers : Settle(w) \/ Stall(w) \/ \E k \in Kinds : Take(w, k)
    BY <2>2, SettleMoves, StallMoves, TakeMoves
  <2>3. CASE \E k \in Kinds : Lose(k) \/ Evict(k)
    BY <2>3, LoseMoves, EvictMoves
  <2> QED
    BY <2>1, <2>2, <2>3, WorkerCases
<1>x. SUFFICES ASSUME NEW k \in Kinds, row'[k] = "queued", Acts(k), k \notin stranded'
               PROVE  Acts(k)'
  <2>1. ASSUME NEW k \in Kinds, row'[k] = "queued", k \notin stranded' PROVE Owed(k)'
    <3>1. Owed(k)
      BY <1>m, <2>1 DEF QueuedIsOwed
    <3>2. CASE Acts(k)
      BY <2>1, <3>2, <1>q
    <3>3. CASE \E r \in Reqs : At(r, "enqueue") /\ req[r].kind = k
      BY <3>3, <1>q
    <3> QED
      BY <3>1, <3>2, <3>3 DEF Owed
  <2> QED
    BY <2>1 DEF QueuedIsOwed
<1>1. ASSUME NEW w \in Workers, Handle(w) PROVE Acts(k)'
  <2>1. Acts(k)
    BY <1>x
  <2>2. CASE job[k].pc = "waiting"
    BY <1>1, <2>2, HandleMoves DEF Acts
  <2>3. CASE job[k].pc # "waiting"
    <3>1. PICK v \in Workers : /\ hand[v].holds /\ hand[v].kind = k
                              /\ hand[v].pc \in {"look", "send", "note", "fail", "again"}
      BY <2>1, <2>3 DEF Acts
    <3>2. CASE v = w
      <4>1. hand'[w].pc # "over"
        BY <1>x, <1>1, <3>1, <3>2, HandleWrites
      <4> QED
        BY <1>1, <3>1, <3>2, <4>1, HandleMoves DEF Acts
    <3>3. CASE v # w
      BY <1>1, <3>1, <3>3, HandleMoves DEF Acts
    <3> QED
      BY <3>2, <3>3
  <2> QED
    BY <2>2, <2>3
<1>2. ASSUME NEW w \in Workers, NEW j \in Kinds, Take(w, j) PROVE Acts(k)'
  <2>1. Acts(k)
    BY <1>x
  <2>2. CASE k = j
    BY <1>2, <2>2, TakeMoves DEF Acts
  <2>3. CASE k # j /\ job[k].pc = "waiting"
    BY <1>2, <2>3, TakeMoves DEF Acts
  <2>4. CASE k # j /\ job[k].pc # "waiting"
    <3>1. PICK v \in Workers : /\ hand[v].holds /\ hand[v].kind = k
                              /\ hand[v].pc \in {"look", "send", "note", "fail", "again"}
      BY <2>1, <2>4 DEF Acts
    <3>2. hand'[v] = hand[v]
      BY <1>2, <3>1, TakeMoves
    <3> QED
      BY <3>1, <3>2 DEF Acts
  <2> QED
    BY <2>2, <2>3, <2>4
<1>3. ASSUME NEW w \in Workers, Settle(w) PROVE Acts(k)'
  <2>1. Acts(k)
    BY <1>x
  <2>2. CASE job[k].pc = "waiting"
    <3>1. job'[k] = job[k]
      BY <1>3, <2>2, SettleMoves DEF Base, Locking
    <3> QED
      BY <2>2, <3>1 DEF Acts
  <2>3. CASE job[k].pc # "waiting"
    <3>1. PICK v \in Workers : /\ hand[v].holds /\ hand[v].kind = k
                              /\ hand[v].pc \in {"look", "send", "note", "fail", "again"}
      BY <2>1, <2>3 DEF Acts
    <3>2. CASE v = w
      <4>1. hand[w].pc = "again"
        BY <1>3, <3>1, <3>2, SettleMoves
      <4> QED
        BY <1>3, <3>1, <3>2, <4>1, SettleMoves DEF Acts
    <3>3. CASE v # w
      BY <1>3, <3>1, <3>3, SettleMoves DEF Acts
    <3> QED
      BY <3>2, <3>3
  <2> QED
    BY <2>2, <2>3
<1>4. ASSUME NEW w \in Workers, Stall(w) PROVE Acts(k)'
  <2>1. Acts(k) /\ (k = hand[w].kind => job'[k].pc = "waiting")
    BY <1>x, <1>4, StallMoves
  <2>2. CASE k = hand[w].kind
    BY <2>1, <2>2 DEF Acts
  <2>3. CASE k # hand[w].kind /\ job[k].pc = "waiting"
    BY <1>4, <2>3, StallMoves DEF Acts
  <2>4. CASE k # hand[w].kind /\ job[k].pc # "waiting"
    <3>1. PICK v \in Workers : /\ hand[v].holds /\ hand[v].kind = k
                              /\ hand[v].pc \in {"look", "send", "note", "fail", "again"}
      BY <2>1, <2>4 DEF Acts
    <3>2. hand'[v] = hand[v]
      BY <1>4, <2>4, <3>1, StallMoves
    <3> QED
      BY <3>1, <3>2 DEF Acts
  <2> QED
    BY <2>2, <2>3, <2>4
<1>5. ASSUME NEW j \in Kinds, Lose(j) PROVE Acts(k)'
  <2>1. Acts(k) /\ k # j
    BY <1>x, <1>5, LoseMoves
  <2>2. CASE job[k].pc = "waiting"
    BY <1>5, <2>1, <2>2, LoseMoves DEF Acts
  <2>3. CASE job[k].pc # "waiting"
    <3>1. PICK v \in Workers : /\ hand[v].holds /\ hand[v].kind = k
                              /\ hand[v].pc \in {"look", "send", "note", "fail", "again"}
      BY <2>1, <2>3 DEF Acts
    <3>2. hand'[v].holds /\ hand'[v].kind = k /\ hand'[v].pc = hand[v].pc
      BY <1>5, <2>1, <3>1, LoseMoves
    <3> QED
      BY <3>1, <3>2 DEF Acts
  <2> QED
    BY <2>2, <2>3
<1>6. ASSUME NEW j \in Kinds, Evict(j) PROVE Acts(k)'
  <2>1. Acts(k) /\ hand' = hand
    BY <1>x, <1>6, EvictMoves
  <2>2. job[k].pc = "waiting" => job'[k] = job[k]
    BY <1>6, EvictMoves
  <2> QED
    BY <2>1, <2>2 DEF Acts
<1> QED
  BY <1>1, <1>2, <1>3, <1>4, <1>5, <1>6, WorkerCases

LEMMA ApartWorker ==
  ASSUME Base, Apart, WorkerStep
  PROVE  Apart'
<1>0. req' = req /\ last' = last
  BY WorkerFrame DEF tokens
<1>k. \A w \in Workers : hand[w].kind \in Kinds
  BY Types DEF HandType
<1>1. \A k \in Kinds : Holding(k)' => Holding(k) /\ job'[k].tok = job[k].tok
  BY WorkerMoves DEF Holding
<1>2. \A w \in Workers : Busy(w)' =>
         \/ Busy(w) /\ hand'[w].tok = hand[w].tok /\ hand'[w].kind = hand[w].kind
         \/ \E k \in Kinds : /\ Holding(k) /\ hand'[w].tok = job[k].tok /\ hand'[w].kind = k
                              /\ \A v \in Workers \ {w} : hand'[v] = hand[v]
  <2>1. ASSUME NEW w \in Workers, Handle(w)
        PROVE  \A v \in Workers : Busy(v)' => Busy(v) /\ hand'[v].tok = hand[v].tok /\ hand'[v].kind = hand[v].kind
    BY <2>1, HandleMoves DEF Busy
  <2>2. ASSUME NEW w \in Workers, Settle(w) \/ Stall(w)
        PROVE  \A v \in Workers : Busy(v)' => Busy(v) /\ hand'[v].tok = hand[v].tok /\ hand'[v].kind = hand[v].kind
    BY <2>2, SettleMoves, StallMoves, NoHandType DEF Busy
  <2>3. ASSUME NEW k \in Kinds, Lose(k) \/ Evict(k)
        PROVE  \A v \in Workers : Busy(v)' => Busy(v) /\ hand'[v].tok = hand[v].tok /\ hand'[v].kind = hand[v].kind
    BY <2>3, LoseMoves, EvictMoves DEF Busy
  <2>4. ASSUME NEW w \in Workers, NEW k \in Kinds, Take(w, k)
        PROVE  /\ Holding(k) /\ hand'[w].tok = job[k].tok /\ hand'[w].kind = k
               /\ \A v \in Workers \ {w} : hand'[v] = hand[v]
    BY <2>4, TakeMoves DEF Holding
  <2> QED
    BY <2>1, <2>2, <2>3, <2>4, WorkerCases DEF Busy
<1>3. noted' = noted \/ \E w \in Workers : Busy(w) /\ noted' = noted \cup {hand[w].tok}
  <2>1. ASSUME NEW w \in Workers, Handle(w) PROVE noted' = noted \/ (Busy(w) /\ noted' = noted \cup {hand[w].tok})
    BY <2>1, HandleMoves, HandleWrites DEF Busy
  <2> QED
    BY <2>1, WorkerCases, TakeMoves, SettleMoves, StallMoves, LoseMoves, EvictMoves
<1>4. \A r \in Reqs : Posting(r)' <=> Posting(r)
  BY <1>0 DEF Posting
<1>5. \A r \in Reqs, w \in Workers : Posting(r)' /\ Busy(w)' => hand'[w].tok # req'[r].tok
  BY <1>0, <1>2, <1>4 DEF Apart
<1>6. \A v, w \in Workers : Busy(v)' /\ Busy(w)' /\ hand'[v].tok = hand'[w].tok => hand'[v].kind = hand'[w].kind
  BY <1>2, <1>k DEF Apart, Busy
<1>7. \A w \in Workers, k \in Kinds : Busy(w)' /\ Holding(k)' /\ hand'[w].tok = job'[k].tok => hand'[w].kind = k
  BY <1>1, <1>2 DEF Apart
<1>8. \A t \in noted' : t <= last'
  <2>1. \A w \in Workers : Busy(w) => hand[w].tok <= last
    BY Types DEF Base, Carrying, Busy
  <2> QED
    BY <1>0, <1>3, <2>1 DEF Apart
<1>9. \A r \in Reqs : Posting(r)' => req'[r].tok \notin noted'
  BY <1>0, <1>3, <1>4 DEF Apart
<1>10. \A r \in Reqs, k \in Kinds : Posting(r)' /\ Holding(k)' => job'[k].tok # req'[r].tok
  BY <1>0, <1>1, <1>4 DEF Apart
<1>11. \A j, k \in Kinds : Holding(j)' /\ Holding(k)' /\ job'[j].tok = job'[k].tok => j = k
  BY <1>1 DEF Apart
<1>12. \A q, r \in Reqs : Posting(q)' /\ Posting(r)' /\ req'[q].tok = req'[r].tok => q = r
  BY <1>0, <1>4 DEF Apart
<1> QED
  BY <1>5, <1>6, <1>7, <1>8, <1>9, <1>10, <1>11, <1>12 DEF Apart

\* A handler's record and a handler's failure meet the other copies of its mail only
\* where a handler has overrun its lock.
LEMMA OnceHandler ==
  ASSUME Base, Apart, Once, NEW w \in Workers, Handle(w)
  PROVE  Once'
<1> DEFINE k == hand[w].kind  t == hand[w].tok
<1>0. reset' = reset /\ overrun' = overrun /\ job' = job /\ k \in Kinds /\ Busy(w)
  <2>1. WorkerStep
    BY DEF WorkerStep, Deliver, Handle
  <2> QED
    BY <2>1, WorkerFrame, HandleMoves, Types DEF HandType, Busy
<1>e. Excused' = Excused
  BY <1>0 DEF Excused
<1>l. ~hand[w].holds => k \in Excused
  BY <1>0 DEF Base, Locking, Excused
<1>h. hand[w].holds => Holding(k) /\ job[k].tok = t
  BY DEF Base, Locking, Holding
<1>1. ASSUME NEW j \in Kinds, Holding(j)', job'[j].tok \in noted' PROVE row'[j] = "sent" \/ j \in Excused'
  <2>0. Holding(j) /\ job'[j].tok = job[j].tok
    BY <1>0, <1>1 DEF Holding
  <2>1. CASE job[j].tok \notin noted
    <3>1. noted' = noted \cup {t} /\ job[j].tok = t /\ row'[k] = "sent"
      BY <1>1, <2>0, <2>1, HandleWrites
    <3>2. k = j
      BY <1>0, <2>0, <3>1 DEF Apart
    <3> QED
      BY <3>1, <3>2
  <2>2. CASE job[j].tok \in noted
    <3>1. row[j] = "sent" \/ j \in Excused
      BY <2>0, <2>2 DEF Once
    <3>2. CASE j # k
      BY <1>e, <3>1, <3>2, HandleWrites
    <3>3. CASE j = k
      <4>1. CASE hand[w].pc = "fail"
        <5>1. hand[w].holds => k \in Excused
          BY <1>h, <2>2, <3>3, <4>1 DEF Once, Sending
        <5> QED
          BY <1>e, <1>l, <3>3, <5>1
      <4>2. CASE hand[w].pc # "fail"
        <5>1. row[k] = "sent" => row'[k] = "sent"
          BY <4>2, HandleWrites
        <5> QED
          BY <1>e, <3>1, <3>3, <5>1
      <4> QED
        BY <4>1, <4>2
    <3> QED
      BY <3>2, <3>3
  <2> QED
    BY <2>1, <2>2
<1>2. ASSUME NEW v \in Workers, Sending(v)', hand'[v].tok \in noted' PROVE hand'[v].kind \in Excused'
  <2>0. hand'[v].kind = hand[v].kind /\ hand'[v].tok = hand[v].tok /\ Busy(v) /\ hand[v].kind \in Kinds
    BY <1>0, <1>2, HandleMoves, Types DEF Sending, Busy, HandType
  <2>1. CASE v = w
    <3>1. noted' = noted
      BY <1>2, <2>1, HandleWrites DEF Sending
    <3>2. CASE Sending(w)
      BY <1>e, <1>2, <2>0, <2>1, <3>1, <3>2 DEF Once
    <3>3. CASE ~Sending(w)
      <4>1. row[k] # "sent"
        BY <1>2, <2>1, <3>3, HandleWrites DEF Sending
      <4>2. hand[w].holds => k \in Excused
        BY <1>0, <1>h, <1>2, <2>0, <2>1, <3>1, <4>1 DEF Once
      <4> QED
        BY <1>e, <1>l, <2>0, <2>1, <4>2
    <3> QED
      BY <3>2, <3>3
  <2>2. CASE v # w
    <3>1. Sending(v)
      BY <1>2, <2>2, HandleMoves DEF Sending
    <3>2. CASE hand[v].tok \in noted
      BY <1>e, <2>0, <3>1, <3>2 DEF Once
    <3>3. CASE hand[v].tok \notin noted
      <4>1. hand[v].tok = t
        BY <1>2, <2>0, <3>3, HandleWrites
      <4>2. hand[v].kind = k
        BY <1>0, <2>0, <4>1 DEF Apart
      <4>3. ~hand[v].holds \/ ~hand[w].holds
        BY <2>2, <4>2 DEF Base, Locking
      <4> QED
        BY <1>e, <1>0, <2>0, <4>2, <4>3 DEF Base, Locking, Excused
    <3> QED
      BY <3>2, <3>3
  <2> QED
    BY <2>1, <2>2
<1> QED
  BY <1>1, <1>2 DEF Once

LEMMA OnceWorker ==
  ASSUME Base, Apart, Once, WorkerStep
  PROVE  Once'
<1>0. \A k \in Kinds : Holding(k)' => Holding(k) /\ job'[k].tok = job[k].tok
  BY WorkerMoves DEF Holding
<1>r. reset' = reset
  BY WorkerFrame
<1>1. ASSUME row' = row, noted' = noted, overrun \subseteq overrun',
             \A w \in Workers : Sending(w)' => /\ Sending(w) /\ hand'[w].tok = hand[w].tok
                                               /\ hand'[w].kind = hand[w].kind
      PROVE  Once'
  BY <1>0, <1>r, <1>1 DEF Once, Excused
<1>2. ASSUME NEW w \in Workers, Settle(w) \/ Stall(w) \/ \E k \in Kinds : Take(w, k) PROVE Once'
  <2>1. /\ row' = row /\ noted' = noted /\ overrun \subseteq overrun'
        /\ \A v \in Workers \ {w} : hand'[v] = hand[v]
        /\ \/ hand'[w].pc \in {"idle", "look"}
           \/ hand'[w].pc = hand[w].pc /\ hand'[w].tok = hand[w].tok /\ hand'[w].kind = hand[w].kind
    BY <1>2, SettleMoves, StallMoves, TakeMoves, NoHandType
  <2> QED
    BY <1>1, <2>1 DEF Sending
<1>3. ASSUME NEW k \in Kinds, Lose(k) \/ Evict(k) PROVE Once'
  <2>1. /\ row' = row /\ noted' = noted /\ overrun \subseteq overrun'
        /\ \A w \in Workers : /\ hand'[w].pc = hand[w].pc /\ hand'[w].tok = hand[w].tok
                              /\ hand'[w].kind = hand[w].kind
    BY <1>3, LoseMoves, EvictMoves
  <2> QED
    BY <1>1, <2>1 DEF Sending
<1> QED
  BY <1>2, <1>3, WorkerCases, OnceHandler

LEMMA MailWorker == Base /\ Mail /\ WorkerStep => Mail'
BY ApartWorker, OnceWorker, ActsWorker DEF Mail

LEMMA MailRequest ==
  ASSUME Base, Mail, NEW r \in Reqs, RequestStep(r)
  PROVE  Mail'
<1> USE KindFacts
<1>0. /\ job \in [Kinds -> JobType] /\ row \in [Kinds -> RowStates] /\ req \in [Reqs -> ReqType]
      /\ req[r].kind \in Kinds /\ last \in 0..MaxToken
  BY Types DEF ReqType
<1>o. \A q \in Reqs \ {r} : req'[q] = req[q]
  BY RequestMoves DEF RequestStep
<1>n. noted' = noted
  BY DEF RequestStep, Call, Ask, Propose, Click, Begin, Serve, Issue, Gate, Suppress, Undo, Refuse, Record,
         Enqueue, Drop, Consume, Confirm, Open, Sibling, Apply, Clear, Revoke, MailerFails, Crash, history
<1>h. hand' = hand /\ overrun' = overrun
  BY CarryingRequest, LockingRequest DEF RequestStep
<1>l. last <= last' /\ (Issue(r) => last' = last + 1 /\ job' = job)
  BY CarryingRequest DEF RequestStep, Issue, outbox
<1>p. \A q \in Reqs : Posting(q)' => \/ Issue(r) /\ q = r /\ req'[q].tok = last + 1
                                     \/ Posting(q) /\ req'[q].tok = req[q].tok /\ req'[q].kind = req[q].kind
  BY <1>o, PostingMoves DEF Posting
<1>b. /\ \A q \in Reqs : Posting(q) => req[q].tok \in 1..last
      /\ \A k \in Kinds : Holding(k) => job[k].tok \in 1..last
      /\ \A w \in Workers : Busy(w) => hand[w].tok \in 1..last
  BY DEF Base, Carrying, Posting, Holding, Busy
<1>j. \/ job' = job
      \/ /\ Enqueue(r) /\ job[req[r].kind].pc = "none"
         /\ job'[req[r].kind].pc = "waiting" /\ job'[req[r].kind].tok = req[r].tok
         /\ \A k \in Kinds \ {req[r].kind} : job'[k] = job[k]
  <2>1. CASE Enqueue(r)
    <3>1. CASE job[req[r].kind].pc = "none"
      <4>1. job' = [job EXCEPT ![req[r].kind] = [NoJob EXCEPT !.pc = "waiting", !.tok = req[r].tok]]
        BY <2>1, <3>1 DEF Enqueue
      <4>2. job'[req[r].kind] = [NoJob EXCEPT !.pc = "waiting", !.tok = req[r].tok]
            /\ \A k \in Kinds \ {req[r].kind} : job'[k] = job[k]
        BY <1>0, <4>1
      <4> QED
        BY <2>1, <3>1, <4>2 DEF NoJob
    <3>2. CASE job[req[r].kind].pc # "none"
      BY <2>1, <3>2 DEF Enqueue
    <3> QED
      BY <3>1, <3>2
  <2>2. CASE ~Enqueue(r)
    BY <2>2 DEF RequestStep, Call, Ask, Propose, Click, Begin, Serve, Issue, Gate, Suppress, Undo, Refuse, Record,
         Drop, Consume, Confirm, Open, Sibling, Apply, Clear, Revoke, MailerFails, Crash, outbox
  <2> QED
    BY <2>1, <2>2
<1>e. Enqueue(r) => Posting(r) /\ ~Posting(r)' /\ ~Issue(r)
  BY MailedMoves DEF Enqueue, Issue, At, Posting, Mailing
<1>1. \A p, q \in Reqs : Posting(p)' /\ Posting(q)' /\ req'[p].tok = req'[q].tok => p = q
  BY <1>0, <1>p, <1>b DEF Mail, Apart
<1>2. \A q \in Reqs : Posting(q)' => req'[q].tok \notin noted'
  BY <1>0, <1>n, <1>p DEF Mail, Apart
<1>3. \A q \in Reqs, k \in Kinds : Posting(q)' /\ Holding(k)' => job'[k].tok # req'[q].tok
  <2>1. CASE job' = job
    BY <1>0, <1>p, <1>b, <2>1 DEF Mail, Apart, Holding
  <2>2. CASE job' # job
    <3>1. \A q \in Reqs : Posting(q)' => Posting(q) /\ q # r /\ req'[q].tok = req[q].tok
      BY <1>j, <1>e, <1>p, <2>2
    <3>2. \A q \in Reqs : Posting(q)' => req[q].tok # req[r].tok
      BY <1>j, <1>e, <2>2, <3>1 DEF Mail, Apart
    <3> QED
      BY <1>j, <2>2, <3>1, <3>2 DEF Mail, Apart, Holding
  <2> QED
    BY <2>1, <2>2
<1>4. \A i, j \in Kinds : Holding(i)' /\ Holding(j)' /\ job'[i].tok = job'[j].tok => i = j
  <2>1. CASE job' = job
    BY <2>1 DEF Mail, Apart, Holding
  <2>2. CASE job' # job
    <3>1. \A k \in Kinds : Holding(k) => job[k].tok # req[r].tok
      BY <1>j, <1>e, <2>2 DEF Mail, Apart
    <3> QED
      BY <1>j, <2>2, <3>1 DEF Mail, Apart, Holding
  <2> QED
    BY <2>1, <2>2
<1>w. \A q \in Reqs, w \in Workers : Posting(q)' /\ Busy(w)' => hand'[w].tok # req'[q].tok
  BY <1>0, <1>h, <1>p, <1>b DEF Mail, Apart, Busy
<1>v. \A w \in Workers, k \in Kinds : Busy(w)' /\ Holding(k)' /\ hand'[w].tok = job'[k].tok => hand'[w].kind = k
  <2>1. CASE job' = job
    BY <1>h, <2>1 DEF Mail, Apart, Holding, Busy
  <2>2. CASE job' # job
    <3>1. \A w \in Workers : Busy(w) => hand[w].tok # req[r].tok
      BY <1>j, <1>e, <2>2 DEF Mail, Apart
    <3> QED
      BY <1>h, <1>j, <2>2, <3>1 DEF Mail, Apart, Holding, Busy
  <2> QED
    BY <2>1, <2>2
<1>u. \A v, w \in Workers : Busy(v)' /\ Busy(w)' /\ hand'[v].tok = hand'[w].tok => hand'[v].kind = hand'[w].kind
  BY <1>h DEF Mail, Apart, Busy
<1>5. \A t \in noted' : t <= last'
  BY <1>0, <1>n, <1>l, Types, CarryingRequest DEF Mail, Apart, Tokens, RequestStep
<1>r. /\ reset \subseteq reset'
      /\ \A k \in Kinds : row[k] = "sent" => row'[k] = "sent" \/ k \in reset'
      /\ \A k \in Kinds : row'[k] = row[k] \/ (k = req[r].kind /\ (Refuse(r) \/ Record(r)))
  <2>1. CASE Refuse(r)
    BY <1>0, <2>1 DEF Refuse
  <2>2. CASE Record(r)
    BY <1>0, <2>2 DEF Record
  <2>3. CASE ~Refuse(r) /\ ~Record(r)
    <3>1. row' = row /\ reset' = reset
      BY <2>3 DEF RequestStep, Call, Ask, Propose, Click, Begin, Serve, Issue, Gate, Suppress, Undo,
         Enqueue, Drop, Consume, Confirm, Open, Sibling, Apply, Clear, Revoke, MailerFails, Crash, outbox, history
    <3> QED
      BY <3>1
  <2> QED
    BY <2>1, <2>2, <2>3
<1>6. /\ \A k \in Kinds : Holding(k)' /\ job'[k].tok \in noted' => row'[k] = "sent" \/ k \in Excused'
      /\ \A w \in Workers : Sending(w)' /\ hand'[w].tok \in noted' => hand'[w].kind \in Excused'
  <2>1. CASE job' = job
    BY <1>n, <1>h, <1>r, <2>1 DEF Mail, Once, Holding, Excused, Sending
  <2>2. CASE job' # job
    <3>1. req[r].tok \notin noted
      BY <1>j, <1>e, <2>2 DEF Mail, Apart
    <3> QED
      BY <1>n, <1>h, <1>j, <1>r, <2>2, <3>1 DEF Mail, Once, Holding, Excused, Sending
  <2> QED
    BY <2>1, <2>2
<1>a. \A k \in Kinds : job'[k] = job[k] => (Acts(k)' <=> Acts(k))
  BY <1>h DEF Acts
<1>7. ASSUME NEW k \in Kinds, row'[k] = "queued" PROVE Owed(k)' \/ k \in stranded'
  <2>1. CASE Record(r)
    <3>1. CASE k = req[r].kind
      <4>1. req'[r].pc = "enqueue" /\ req'[r].kind = k
        BY <2>1, <3>1, GotoMoves DEF Record, Pcs
      <4> QED
        BY <4>1 DEF Owed, At
    <3>2. CASE k # req[r].kind
      <4>1. row[k] = "queued" /\ (k \in stranded => k \in stranded') /\ job' = job
        BY <1>0, <1>7, <2>1, <3>2 DEF Record
      <4>2. \A q \in Reqs : At(q, "enqueue") /\ req[q].kind = k => At(q, "enqueue")' /\ req'[q].kind = k
        BY <1>o, <2>1, <3>2 DEF Record, At
      <4> QED
        BY <1>a, <4>1, <4>2 DEF Mail, QueuedIsOwed, Owed
    <3> QED
      BY <3>1, <3>2
  <2>2. CASE Enqueue(r)
    <3>1. row[k] = "queued" /\ (k \in stranded => k \in stranded')
      BY <1>7, <2>2 DEF Enqueue
    <3>2. CASE k = req[r].kind
      <4>1. CASE job[k].pc = "none"
        <5>1. job'[k].pc = "waiting"
          BY <1>0, <2>2, <3>2, <4>1 DEF Enqueue, NoJob
        <5> QED
          BY <5>1 DEF Owed, Acts
      <4>2. CASE job[k].pc # "none" /\ ~Acts(k)
        BY <2>2, <3>2, <4>2 DEF Enqueue
      <4>3. CASE job[k].pc # "none" /\ Acts(k)
        <5>1. job' = job
          BY <2>2, <3>2, <4>3 DEF Enqueue
        <5> QED
          BY <1>a, <4>3, <5>1 DEF Owed
      <4> QED
        BY <4>1, <4>2, <4>3
    <3>3. CASE k # req[r].kind
      <4>1. job'[k] = job[k]
        BY <1>j, <3>3
      <4>2. \A q \in Reqs : At(q, "enqueue") /\ req[q].kind = k => At(q, "enqueue")' /\ req'[q].kind = k
        BY <1>o, <3>3 DEF At
      <4> QED
        BY <1>a, <3>1, <4>1, <4>2 DEF Mail, QueuedIsOwed, Owed
    <3> QED
      BY <3>2, <3>3
  <2>3. CASE (MailerFails(r) \/ Crash(r)) /\ At(r, "enqueue") /\ ~Enqueue(r)
    <3>1. row' = row /\ job' = job /\ stranded' = stranded \cup {req[r].kind}
      BY <2>3 DEF MailerFails, Crash, outbox
    <3>2. CASE k = req[r].kind
      BY <3>1, <3>2
    <3>3. CASE k # req[r].kind
      <4>1. \A q \in Reqs : At(q, "enqueue") /\ req[q].kind = k => At(q, "enqueue")' /\ req'[q].kind = k
        BY <1>o, <3>3 DEF At
      <4> QED
        BY <1>7, <1>a, <3>1, <4>1 DEF Mail, QueuedIsOwed, Owed
    <3> QED
      BY <3>2, <3>3
  <2>4. CASE ~Record(r) /\ ~Enqueue(r) /\ ~((MailerFails(r) \/ Crash(r)) /\ At(r, "enqueue"))
    <3>1. job' = job /\ stranded' = stranded /\ ~At(r, "enqueue")
      <4>1. job' = job
        BY <1>j, <2>4
      <4>2. stranded' = stranded
        BY <2>4 DEF RequestStep, Call, Ask, Propose, Click, Begin, Serve, Issue, Gate, Suppress, Undo, Refuse,
           Drop, Consume, Confirm, Open, Sibling, Apply, Clear, Revoke, MailerFails, Crash, history
      <4>3. ~At(r, "enqueue")
        BY <2>4 DEF RequestStep, Call, Ask, Propose, Click, Begin, Serve, Issue, Gate, Suppress, Undo, Refuse,
           Drop, Consume, Confirm, Open, Sibling, Apply, Clear, Revoke, At
      <4> QED
        BY <4>1, <4>2, <4>3
    <3>2. row[k] = "queued"
      <4>1. Refuse(r) => row'[req[r].kind] = "refused"
        BY <1>0 DEF Refuse
      <4> QED
        BY <1>7, <1>r, <2>4, <4>1
    <3>3. \A q \in Reqs : At(q, "enqueue") /\ req[q].kind = k => At(q, "enqueue")' /\ req'[q].kind = k
      BY <1>o, <3>1 DEF At
    <3> QED
      BY <1>a, <3>1, <3>2, <3>3 DEF Mail, QueuedIsOwed, Owed
  <2> QED
    BY <2>1, <2>2, <2>3, <2>4
<1> QED
  BY <1>1, <1>2, <1>3, <1>4, <1>5, <1>6, <1>7, <1>u, <1>v, <1>w DEF Mail, Apart, Once, QueuedIsOwed

LEMMA MailInit == Init => Mail
BY DEF Init, Mail, Apart, Once, NoReq, NoJob, NoHand, Posting, Holding, Busy, Sending, Mailing, QueuedIsOwed

LEMMA MailStep ==
  ASSUME Base, Mail, [Next]_vars
  PROVE  Mail'
<1>1. ASSUME UNCHANGED <<req, job, hand, row, noted, reset, overrun, stranded, last>> PROVE Mail'
  <2>1. QueuedIsOwed'
    BY <1>1 DEF Mail, QueuedIsOwed, Owed, Acts, At
  <2> QED
    BY <1>1, <2>1 DEF Mail, Apart, Once, Posting, Holding, Busy, Sending, Excused
<1>2. CASE (\E k \in Kinds : Expire(k)) \/ (\E a \in Addresses : Taken(a)) \/ Delete \/ UNCHANGED vars
  BY <1>1, <1>2 DEF Expire, Taken, Delete, vars, tokens, outbox, history
<1> QED
  BY <1>2, Steps, MailRequest, MailWorker

-----------------------------------------------------------------------------
(* The invariant and what follows from it.                                 *)

IInv == Base /\ Linked /\ Concluding /\ Mail

LEMMA InvInit == Init => IInv
<1>1. Init => Concluding
  BY KindFacts DEF Init, Concluding, BothUsed, NoLink
<1> QED
  BY <1>1, BaseInit, LinkedInit, MailInit DEF IInv

LEMMA InvStep == IInv /\ [Next]_vars => IInv'
BY BaseStep, LinkedStep, ConcludingStep, MailStep DEF IInv

\* consumeOneTimeToken looks and spends in one UPDATE: a link followed by many clients at
\* once opens one session.
THEOREM OpensOnce == Spec => []LinkOpensOnce
<1>1. IInv => LinkOpensOnce
  BY DEF IInv, Linked
<1> QED
  BY <1>1, InvInit, InvStep, PTL DEF Spec

\* INCR comes before the comparison and DECR only after a refusal, so requests that race
\* for the last send do not both get it.
THEOREM CapKept == Spec => []CapHolds
<1>1. ASSUME Base PROVE CapHolds
  <2>1. Cardinality(Undoing) \in Nat
    BY LinksAssumption, FS_Subset, FS_CardinalityType DEF Undoing
  <2> QED
    BY <1>1, <2>1, Types DEF Base, Counting, CapHolds
<1> QED
  BY <1>1, BaseInit, BaseStep, PTL DEF Spec

\* Each click spends its own link before siblingConsumed looks at the other's, and a
\* conflict clears both: two spent links never outlive the requests that spent them.
THEOREM ChangesApplied == Spec => []BothMeansApplied
<1>1. IInv => BothMeansApplied
  BY DEF IInv, Concluding, BothUsed, Applying, BothMeansApplied, Calm, At
<1> QED
  BY <1>1, InvInit, InvStep, PTL DEF Spec

\* mailer.enqueue records 'queued' before it adds the job: the row is owed by the request,
\* then by the job or its handler, and by nobody only in five cases: the request fell in
\* between, a job that had ended had the id, a query threw in the last attempt, the job
\* stalled once too often, or Redis lost it.
THEOREM MailOwed == Spec => []QueuedIsOwed
<1>1. IInv => QueuedIsOwed
  BY DEF IInv, Mail
<1> QED
  BY <1>1, InvInit, InvStep, PTL DEF Spec

\* A redelivered auth-email job looks at the row before it sends, so a mail recorded as
\* sent goes out again only if somebody reset the row, or a handler that had lost its job
\* went on beside another (email-sender.ts).
THEOREM MailOnce == Spec => SentOnce
<1>1. IInv /\ [Next]_vars => [\A w \in Workers :
                                /\ hand[w].pc = "send" /\ hand[w].tok \in noted
                                /\ mails'[hand[w].tok] > mails[hand[w].tok]
                                => hand[w].kind \in reset \cup overrun]_vars
  BY DEF IInv, Mail, Once, Excused, Sending
<1> QED
  BY <1>1, InvInit, InvStep, PTL DEF Spec, SentOnce
=============================================================================
