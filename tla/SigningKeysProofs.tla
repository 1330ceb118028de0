-------------------------- MODULE SigningKeysProofs -------------------------
(***************************************************************************)
(* For any number of keypairs and crashes, in a project that was           *)
(* provisioned with one pair: whatever statement of a cut-over comes last  *)
(* before a crash, every key that signed a token in use is published, the  *)
(* stored API keys verify once a cut-over has finished, no private half is *)
(* lost, and a document read while no cut-over crossed it covers every     *)
(* token for as long as it is cached, where documents are read again after *)
(* ten minutes.  PostgREST's is not, and nothing is proved of it.          *)
(*                                                                         *)
(* The argument follows the uses of a key.  A key is used when it signs,   *)
(* names, has signed, or is about to (a request has read it).  Only the    *)
(* swap of the private half brings a key into use, and by then the key has *)
(* a row, its private half under its own kid, and the key it replaces has  *)
(* both too; so at every statement a used key has a row or is the          *)
(* published active one.                                                   *)
(***************************************************************************)
EXTENDS SigningKeys, TLAPS

Putting == {"put private", "put public", "put kid"}
Minting == {"mint", "list"}
Reminting == {"remint anon", "remint service_role"}
Cutting == {"retire old", "keep old", "swap private", "swap public", "swap kid", "drop next"}
           \cup Reminting

Stored == {secret.priv, secret.pub, secret.kid}

HandTyped ==
  /\ hand.pc \in Putting \cup Minting \cup Cutting => hand.key \in Keys /\ hand.kid \in Keys
  /\ hand.pc = "publish" => hand.key \in Keys
  /\ born # "unborn" => hand.pc \in {"idle", "publish"} \cup Cutting

(* A project being provisioned: nothing but the three secrets and the api keys. *)
Blank ==
  /\ hand.pc \in {"idle"} \cup Putting \cup Minting
  /\ kept = [k \in Keys |-> None] /\ row = [k \in Keys |-> Absent]
  /\ signed = {} /\ signer = Asleep /\ load = NotRead /\ cache = NoDoc /\ ~settled

Base == TypeOK /\ HandTyped /\ (born = "unborn" => Blank)

HandType == [pc : Pcs, key : Maybe, kid : Maybe, old : Triple]
RowType == [status : Statuses, pem : Maybe, ripe : BOOLEAN]

(* Provisioning: the puts happen in their order, and one pair stays one pair. *)

Provisioning ==
  /\ None \in Stored => minted = {} /\ \A r \in Roles : api[r] = {}
  /\ hand.pc \in Putting => secret.kid = None /\ hand.key = hand.kid
  /\ hand.pc \in {"put public", "put kid"} => secret.priv # None
  /\ hand.pc = "put kid" => secret.pub # None
  /\ secret.kid # None => secret.pub # None
  /\ secret.pub # None => secret.priv # None
  /\ hand.pc \in Minting => None \notin Stored
  /\ OnePair => /\ hand.pc \in Minting => hand.key = secret.priv /\ hand.kid = secret.priv
                /\ \A r \in Roles : \A t \in api[r] : t.key = secret.priv /\ t.kid = secret.priv

(* Every stored half is filed under its own kid. *)
OwnHalves ==
  \A k \in Keys : /\ kept[k] \in {None, k}
                  /\ row[k].status # "absent" => row[k].pem = k

(* A key that verifiers must know: it signs, names, has signed or is about to. *)
Used(k) ==
  \/ k = secret.priv \/ k = secret.kid \/ k = signer.key
  \/ \E t \in signed : t.key = k
  \/ \E r \in Roles : \E t \in api[r] : t.key = k

(* A used key has a row or is the active one, and its private half is stored. *)
Named ==
  /\ None \notin Stored
  /\ \A k \in Keys : Used(k) => (row[k].status # "absent" \/ k = secret.pub)
  /\ secret.pub = secret.kid \/ row[secret.pub].status # "absent"
  /\ \A k \in Keys : Used(k) => kept[k] = k \/ (kept[k] = None /\ secret.priv = k)
  /\ secret.priv = secret.kid \/ kept[secret.priv] = secret.priv

(* What each statement of the runbook may count on. *)
Place ==
  LET h == hand.kid  IN
  /\ hand.pc = "publish" => /\ row[hand.key].status = "absent" /\ hand.key \notin Stored
                            /\ kept[hand.key] = hand.key
  /\ hand.pc \in Cutting => hand.key = h /\ kept[h] = h
  /\ hand.pc \in Cutting \ Reminting =>
       /\ row[h].status \in {"next", "retiring"}
       /\ row[h].status = "retiring" => ~row[h].ripe
  /\ hand.pc = "retire old" => row[h].status = "next" /\ row[h].ripe
  /\ hand.pc \in {"retire old", "keep old", "swap private"} => hand.old = secret
  /\ hand.pc \in {"keep old", "swap private", "swap public", "swap kid"} =>
       row[secret.kid].status # "absent"
  /\ hand.pc \in {"swap private", "swap public", "swap kid"} => kept[secret.kid] = secret.kid
  /\ hand.pc \in {"swap public", "swap kid", "drop next"} \cup Reminting => secret.priv = h
  /\ hand.pc \in {"swap kid", "drop next"} \cup Reminting => secret.pub = h
  /\ hand.pc \in {"drop next"} \cup Reminting => secret.kid = h

(* The stored API keys, when no cut-over is under way and within the last step of one. *)
Settlement ==
  /\ settled => /\ hand.pc \in {"idle", "publish", "retire old"}
                /\ secret.pub = secret.kid
                /\ \A r \in Roles : \A t \in api[r] : t.key = secret.kid /\ t.kid = secret.kid
  /\ hand.pc = "remint service_role" => \A t \in api["anon"] : t.key = hand.kid /\ t.kid = hand.kid

(* Documents list keys under their own kid; one that no cut-over crossed has every *)
(* used key and the one that is about to be.                                       *)
Covered(k) == cache.kid = k \/ cache.rows[k] = k
Caching ==
  /\ \A k \in Keys : cache.rows[k] \in {None, k}
  /\ \A k \in Keys : load.rows[k] \in {None, k}
  /\ cache.whole /\ ~cache.lasting =>
       /\ cache.kid = cache.pub
       /\ \A k \in Keys : Used(k) => row[k].status = "retired" \/ Covered(k)
       /\ Covered(secret.kid)
       /\ \A k \in Keys : row[k].status = "next" /\ row[k].ripe => Covered(k)
       /\ hand.pc \in Cutting => Covered(hand.kid)

Whole == OwnHalves /\ Named /\ Place /\ Settlement /\ Caching

IInv ==
  /\ Base
  /\ born = "unborn" => Provisioning
  /\ born = "whole" => Whole

-----------------------------------------------------------------------------
(* Types.                                                                  *)

LEMMA HandMoves ==
  ASSUME NEW h \in HandType, NEW pc \in Pcs
  PROVE  /\ [h EXCEPT !.pc = pc] \in HandType
         /\ [h EXCEPT !.pc = pc].pc = pc
         /\ [h EXCEPT !.pc = pc].key = h.key /\ [h EXCEPT !.pc = pc].kid = h.kid
         /\ [h EXCEPT !.pc = pc].old = h.old
  BY DEF HandType

LEMMA HandStep ==
  ASSUME Base, NEW pc \in Pcs, Becomes(pc)
  PROVE  /\ hand' \in HandType
         /\ hand'.pc = pc
         /\ hand'.key = hand.key /\ hand'.kid = hand.kid /\ hand'.old = hand.old
<1>1. hand \in HandType
  BY DEF Base, TypeOK, HandType
<1> QED
  BY <1>1, HandMoves DEF Becomes

LEMMA DocTypes ==
  /\ Asleep \in [key : Maybe, kid : Maybe]
  /\ NotRead \in [kid : Maybe, pub : Maybe, rows : Listing, listed : BOOLEAN]
  /\ NoDoc \in [kid : Maybe, pub : Maybe, rows : Listing, whole : BOOLEAN, lasting : BOOLEAN]
<1>1. NoRows \in Listing /\ None \in Maybe
  BY DEF NoRows, Listing, Maybe
<1> QED
  BY <1>1 DEF Asleep, NotRead, NoDoc

LEMMA IdleType == Idle \in HandType /\ Idle.pc = "idle"
  BY DEF Idle, NoSecret, HandType, Pcs, Triple, Maybe

LEMMA BaseInit == Init => Base
<1> SUFFICES ASSUME Init PROVE Base
  OBVIOUS
<1>1. hand \in HandType
  BY IdleType DEF Init
<1>2. secret \in Triple /\ kept \in [Keys -> Maybe] /\ row \in [Keys -> RowType]
  BY DEF Init, NoSecret, Absent, RowType, Triple, Maybe, Statuses
<1>3. /\ api \in [Roles -> SUBSET Token] /\ \A r \in Roles : \A t, u \in api[r] : t = u
      /\ minted \subseteq Roles /\ signed \subseteq Token /\ faults \in 0..MaxFaults
  BY KeysAssumption DEF Init
<1>4. /\ signer \in [key : Maybe, kid : Maybe]
      /\ load \in [kid : Maybe, pub : Maybe, rows : Listing, listed : BOOLEAN]
      /\ cache \in [kid : Maybe, pub : Maybe, rows : Listing, whole : BOOLEAN, lasting : BOOLEAN]
  BY DocTypes DEF Init
<1>5. TypeOK
  BY <1>1, <1>2, <1>3, <1>4 DEF Init, TypeOK, HandType, RowType
<1> QED
  BY <1>5 DEF Init, Base, HandTyped, Blank, Idle, Putting, Minting, Cutting, Reminting

\* One stored token per role, whatever was there before.
LEMMA ApiType == Base => api \in [Roles -> SUBSET Token] /\ \A r \in Roles : \A t, u \in api[r] : t = u
BY DEF Base, TypeOK

LEMMA Storing ==
  ASSUME NEW a \in [Roles -> SUBSET Token], \A r \in Roles : \A t, u \in a[r] : t = u,
         NEW q \in Roles, NEW k \in Keys, NEW c \in Keys
  PROVE  LET b == [a EXCEPT ![q] = {[key |-> k, kid |-> c]}]
         IN b \in [Roles -> SUBSET Token] /\ \A r \in Roles : \A t, u \in b[r] : t = u
<1>1. [key |-> k, kid |-> c] \in Token
  BY DEF Token
<1> QED
  BY <1>1

LoadType == [kid : Maybe, pub : Maybe, rows : Listing, listed : BOOLEAN]
WholeIs(now) == /\ Published = [kid |-> now.kid, pub |-> now.pub, rows |-> now.rows]
                /\ secret.pub = secret.kid

\* What an answer to one of a verifier's queries does, whichever query it is.
LEMMA TakeMoves ==
  ASSUME NEW now \in LoadType, Take(now)
  PROVE  \E w, lasting \in BOOLEAN :
           /\ w <=> WholeIs(now)
           /\ \/ load' = now /\ cache' = cache
              \/ /\ load' = NotRead
                 /\ cache' = [kid |-> now.kid, pub |-> now.pub, rows |-> now.rows, lasting |-> lasting,
                              whole |-> w]
<1>1. CASE ~now.listed \/ None \in {now.pub, now.kid}
  BY <1>1 DEF Take, WholeIs
<1>2. CASE ~(~now.listed \/ None \in {now.pub, now.kid})
  <2>1. PICK lasting \in BOOLEAN :
          /\ load' = NotRead
          /\ cache' = [kid |-> now.kid, pub |-> now.pub, rows |-> now.rows, lasting |-> lasting,
                       whole |-> WholeIs(now)]
    BY <1>2 DEF Take, WholeIs
  <2>2. WholeIs(now) \in BOOLEAN
    BY DEF WholeIs
  <2> QED
    BY <2>1, <2>2
<1> QED
  BY <1>1, <1>2

LEMMA Reading ==
  ASSUME secret \in Triple, row \in [Keys -> RowType], load \in LoadType, ReadListed \/ ReadActive
  PROVE  \E now \in LoadType, w, lasting \in BOOLEAN :
           /\ now.rows \in {load.rows, ListedRows}
           /\ w <=> WholeIs(now)
           /\ \/ load' = now /\ cache' = cache
              \/ /\ load' = NotRead
                 /\ cache' = [kid |-> now.kid, pub |-> now.pub, rows |-> now.rows, lasting |-> lasting,
                              whole |-> w]
<1>1. ListedRows \in Listing
  BY DEF ListedRows, Listing, RowType, Maybe
<1>2. PICK now \in LoadType : Take(now) /\ now.rows \in {load.rows, ListedRows}
  <2>1. CASE ReadListed
    <3> DEFINE now == [load EXCEPT !.rows = ListedRows, !.listed = TRUE]
    <3>1. now \in LoadType /\ now.rows = ListedRows
      BY <1>1 DEF LoadType
    <3> QED
      BY <2>1, <3>1 DEF ReadListed
  <2>2. CASE ReadActive
    <3>1. /\ [load EXCEPT !.pub = secret.pub] \in LoadType
          /\ [load EXCEPT !.kid = secret.kid] \in LoadType
          /\ [load EXCEPT !.pub = secret.pub].rows = load.rows
          /\ [load EXCEPT !.kid = secret.kid].rows = load.rows
      BY DEF LoadType, Triple
    <3> QED
      BY <2>2, <3>1 DEF ReadActive
  <2> QED
    BY <2>1, <2>2
<1> QED
  BY <1>2, TakeMoves

LEMMA BaseStep == Base /\ [Next]_vars => Base'
<1> SUFFICES ASSUME Base, [Next]_vars PROVE Base'
  OBVIOUS
<1> USE KeysAssumption
<1> USE DEF Pcs
<1>1. CASE StartMinting
  <2>1. born = "unborn" /\ born' = born /\ Blank
    BY <1>1 DEF StartMinting, Base
  <2>2. PICK pc \in {"put private", "mint"}, k \in Keys, c \in Keys :
          hand' = [Idle EXCEPT !.pc = pc, !.key = k, !.kid = c]
    <3>1. CASE secret.priv = None \/ secret.kid = None
      BY <1>1, <3>1 DEF StartMinting, Fresh
    <3>2. CASE ~(secret.priv = None \/ secret.kid = None)
      <4>1. secret.priv \in Keys /\ secret.kid \in Keys
        BY <3>2 DEF Base, TypeOK, Triple, Maybe
      <4>2. hand' = [Idle EXCEPT !.pc = "mint", !.key = secret.priv, !.kid = secret.kid]
        BY <1>1, <3>2 DEF StartMinting
      <4> QED
        BY <4>1, <4>2
    <3> QED
      BY <3>1, <3>2
  <2>3. hand' \in HandType /\ hand'.pc = pc /\ hand'.key = k /\ hand'.kid = c
    BY <2>2 DEF Idle, HandType, NoSecret, Triple, Maybe
  <2>4. TypeOK'
    BY <1>1, <2>3 DEF StartMinting, Base, TypeOK, HandType
  <2>5. HandTyped' /\ Blank'
    BY <1>1, <2>1, <2>3 DEF StartMinting, HandTyped, Blank, Putting, Minting, Cutting, Reminting
  <2> QED
    BY <2>4, <2>5 DEF Base
<1>2. CASE PutPair
  <2>1. PICK pc \in Pcs : /\ Becomes(pc) /\ pc \in {"put public", "put kid", "mint"}
    BY <1>2 DEF PutPair
  <2>0. hand.key \in Keys /\ hand.kid \in Keys
    BY <1>2 DEF PutPair, At, Base, HandTyped, Putting
  <2>2. secret' \in Triple
    <3>1. secret \in [priv : Maybe, pub : Maybe, kid : Maybe]
      BY DEF Base, TypeOK, Triple
    <3>2. \E f \in {"priv", "pub", "kid"}, k \in Maybe : secret' = [secret EXCEPT ![f] = k]
      <4>1. PutIfAbsent(secret.priv, hand.key) \in Maybe /\ PutIfAbsent(secret.pub, hand.key) \in Maybe
            /\ PutIfAbsent(secret.kid, hand.kid) \in Maybe
        BY <2>0, <3>1 DEF PutIfAbsent, Maybe
      <4> QED
        BY <1>2, <4>1 DEF PutPair
    <3> QED
      BY <3>1, <3>2 DEF Triple
  <2>3. TypeOK'
    BY <1>2, <2>1, <2>2, HandStep DEF Base, TypeOK, HandType, RowType, PutPair
  <2>4. HandTyped' /\ Blank'
    BY <1>2, <2>1, HandStep DEF Base, HandTyped, PutPair, At, Blank, Putting, Minting, Cutting, Reminting
  <2> QED
    BY <2>3, <2>4 DEF Base
<1>3. CASE Mint
  <2>1. Becomes("list")
    BY <1>3 DEF Mint
  <2>2. api' \in [Roles -> SUBSET Token] /\ \A r \in Roles : \A t, u \in api'[r] : t = u
    <3>1. hand.key \in Keys /\ hand.kid \in Keys
      BY <1>3 DEF Mint, At, Base, HandTyped, Minting
    <3>2. PICK q \in Roles : api' = [api EXCEPT ![q] = IF @ = {} THEN {[key |-> hand.key, kid |-> hand.kid]} ELSE @]
      BY <1>3 DEF Mint, NextRole, Roles
    <3>0. api \in [Roles -> SUBSET Token] /\ \A r \in Roles : \A t, u \in api[r] : t = u
      BY ApiType
    <3>3. CASE api[q] = {}
      <4>1. api' = [api EXCEPT ![q] = {[key |-> hand.key, kid |-> hand.kid]}]
        BY <3>2, <3>3
      <4> QED
        BY <3>0, <3>1, <4>1, Storing
    <3>4. CASE api[q] # {}
      <4>1. api' = [api EXCEPT ![q] = api[q]]
        BY <3>2, <3>4
      <4>2. api' = api
        BY <3>0, <4>1
      <4> QED
        BY <3>0, <4>2
    <3> QED
      BY <3>3, <3>4
  <2>3. TypeOK'
    BY <1>3, <2>1, <2>2, HandStep DEF Base, TypeOK, HandType, RowType, Mint
  <2>4. HandTyped' /\ (born = "unborn" => Blank')
    BY <1>3, <2>1, HandStep DEF Base, HandTyped, Mint, At, Blank, Putting, Minting, Cutting, Reminting
  <2> QED
    BY <1>3, <2>3, <2>4 DEF Base, Mint
<1>4. CASE ListMinted
  <2>1. Becomes("mint")
    BY <1>4 DEF ListMinted
  <2>3. TypeOK'
    BY <1>4, <2>1, HandStep DEF Base, TypeOK, HandType, RowType, ListMinted, NextRole, Roles
  <2>4. HandTyped' /\ (born = "unborn" => Blank')
    BY <1>4, <2>1, HandStep DEF Base, HandTyped, ListMinted, At, Blank, Putting, Minting, Cutting, Reminting
  <2> QED
    BY <1>4, <2>3, <2>4 DEF Base, ListMinted
<1>5. CASE Provisioned
  <2>1. hand' = Idle /\ born' \in {"whole", "mixed"}
    BY <1>5 DEF Provisioned
  <2>2. TypeOK'
    BY <1>5, <2>1, IdleType DEF Provisioned, Base, TypeOK, HandType
  <2> QED
    BY <2>1, <2>2, IdleType DEF Base, HandTyped, Putting, Minting, Cutting, Reminting
<1>6. CASE Begin
  <2>1. PICK k \in Keys : /\ kept' = [kept EXCEPT ![k] = k]
                          /\ hand' = [Idle EXCEPT !.pc = "publish", !.key = k]
    BY <1>6 DEF Begin, Fresh
  <2>2. kept' \in [Keys -> Maybe] /\ hand' \in HandType
    BY <2>1 DEF Base, TypeOK, HandType, RowType, Maybe, Idle, NoSecret, Triple
  <2>3. TypeOK'
    BY <1>6, <2>2 DEF Base, TypeOK, HandType, RowType, Begin
  <2>4. HandTyped' /\ born' # "unborn"
    BY <1>6, <2>1 DEF Begin, Ready, HandTyped, Idle, Putting, Minting, Cutting, Reminting
  <2> QED
    BY <2>3, <2>4 DEF Base
<1>7. CASE Publish
  <2>1. hand' = Idle /\ hand.key \in Keys /\ born # "unborn" /\ born' = born
    BY <1>7 DEF Publish, Base, HandTyped, At, Blank, Putting, Minting
  <2>2. row' \in [Keys -> RowType]
    BY <1>7, <2>1 DEF Base, TypeOK, HandType, RowType, Publish, Maybe, Statuses
  <2>3. TypeOK'
    BY <1>7, <2>1, <2>2, IdleType DEF Base, TypeOK, HandType, RowType, Publish
  <2>4. HandTyped'
    BY <2>1 DEF HandTyped, Idle, Putting, Minting, Cutting, Reminting
  <2> QED
    BY <2>1, <2>3, <2>4 DEF Base
<1>8. CASE RetireOld
  <2>1. Becomes("keep old") /\ born # "unborn" /\ born' = born
    BY <1>8 DEF RetireOld, Base, HandTyped, At, Blank, Putting, Minting
  <2>2. row' \in [Keys -> RowType]
    BY <1>8 DEF Base, TypeOK, HandType, RowType, RetireOld, Maybe, Statuses, Triple
  <2>3. TypeOK'
    BY <1>8, <2>1, <2>2, HandStep DEF Base, TypeOK, HandType, RowType, RetireOld
  <2>4. HandTyped'
    BY <1>8, <2>1, HandStep DEF Base, RetireOld, At, HandTyped, Putting, Minting, Cutting, Reminting
  <2> QED
    BY <2>1, <2>3, <2>4 DEF Base
<1>9. CASE KeepOld
  <2>1. Becomes("swap private") /\ born # "unborn" /\ born' = born
    BY <1>9 DEF KeepOld, Base, HandTyped, At, Blank, Putting, Minting
  <2>2. kept' \in [Keys -> Maybe]
    BY <1>9 DEF Base, TypeOK, HandType, RowType, KeepOld, PutIfAbsent, Triple
  <2>3. TypeOK'
    BY <1>9, <2>1, <2>2, HandStep DEF Base, TypeOK, HandType, RowType, KeepOld
  <2>4. HandTyped'
    BY <1>9, <2>1, HandStep DEF Base, KeepOld, At, HandTyped, Putting, Minting, Cutting, Reminting
  <2> QED
    BY <2>1, <2>3, <2>4 DEF Base
<1>10. CASE Swap
  <2>1. born # "unborn" /\ born' = born
    BY <1>10 DEF Swap, Base, HandTyped, At, Blank, Putting, Minting
  <2>2. PICK pc \in Pcs : Becomes(pc) /\ pc \in Cutting
    BY <1>10 DEF Swap, Cutting
  <2>3. secret' \in Triple
    <3>1. secret \in Triple /\ hand.key \in Maybe /\ hand.kid \in Maybe
      BY DEF Base, TypeOK
    <3>2. \E f \in {"priv", "pub", "kid"}, k \in Maybe : secret' = [secret EXCEPT ![f] = k]
      BY <1>10, <3>1 DEF Swap
    <3> QED
      BY <3>1, <3>2 DEF Triple
  <2>4. TypeOK'
    BY <1>10, <2>2, <2>3, HandStep DEF Base, TypeOK, HandType, RowType, Swap
  <2>5. HandTyped'
    BY <1>10, <2>2, HandStep DEF Base, Swap, At, HandTyped, Putting, Minting, Cutting, Reminting
  <2> QED
    BY <2>1, <2>4, <2>5 DEF Base
<1>11. CASE DropNext
  <2>1. Becomes("remint anon") /\ born # "unborn" /\ born' = born
    BY <1>11 DEF DropNext, Base, HandTyped, At, Blank, Putting, Minting
  <2>2. row' \in [Keys -> RowType]
    BY <1>11 DEF Base, TypeOK, HandType, RowType, DropNext, Maybe, Statuses, Absent
  <2>3. TypeOK'
    BY <1>11, <2>1, <2>2, HandStep DEF Base, TypeOK, HandType, RowType, DropNext
  <2>4. HandTyped'
    BY <1>11, <2>1, HandStep DEF Base, DropNext, At, HandTyped, Putting, Minting, Cutting, Reminting
  <2> QED
    BY <2>1, <2>3, <2>4 DEF Base
<1>12. CASE Remint
  <2>1. born # "unborn" /\ born' = born
    BY <1>12 DEF Remint, Base, HandTyped, At, Blank, Putting, Minting
  <2>2. hand.key \in Keys /\ hand.kid \in Keys
    BY <1>12 DEF Remint, Base, HandTyped, At, Cutting, Reminting
  <2>3. api' \in [Roles -> SUBSET Token] /\ \A r \in Roles : \A t, u \in api'[r] : t = u
    <3>1. PICK q \in Roles : api' = [api EXCEPT ![q] = {[key |-> hand.key, kid |-> hand.kid]}]
      BY <1>12 DEF Remint, Roles
    <3>2. api \in [Roles -> SUBSET Token] /\ \A r \in Roles : \A t, u \in api[r] : t = u
      BY ApiType
    <3> QED
      BY <2>2, <3>1, <3>2, Storing
  <2>4. (hand' = Idle \/ Becomes("remint service_role")) /\ settled' \in BOOLEAN
    BY <1>12 DEF Remint, Base, TypeOK, HandType, RowType
  <2>5. TypeOK'
    BY <1>12, <2>3, <2>4, HandStep, IdleType DEF Base, TypeOK, HandType, RowType, Remint
  <2>6. HandTyped'
    <3>1. CASE hand' = Idle
      BY <3>1, IdleType DEF HandTyped, Putting, Minting, Cutting, Reminting
    <3>2. CASE Becomes("remint service_role")
      BY <2>2, <3>2, HandStep DEF HandTyped, Putting, Minting, Cutting, Reminting
    <3> QED
      BY <2>4, <3>1, <3>2
  <2> QED
    BY <2>1, <2>5, <2>6 DEF Base
<1>13. ASSUME NEW k \in Keys, WaitOut(k) \/ WindowCloses(k) \/ Retire(k) PROVE Base'
  <2>1. born # "unborn" /\ born' = born /\ hand' = hand
    BY <1>13 DEF WaitOut, WindowCloses, Retire, Base, Blank, Absent
  <2>2. row' \in [Keys -> RowType]
    <3>1. row \in [Keys -> RowType]
      BY DEF Base, TypeOK, RowType
    <3>2. row' = [row EXCEPT ![k].ripe = TRUE] \/ row' = [row EXCEPT ![k].status = "retired"]
      BY <1>13 DEF WaitOut, WindowCloses, Retire
    <3>3. [row[k] EXCEPT !.ripe = TRUE] \in RowType /\ [row[k] EXCEPT !.status = "retired"] \in RowType
      BY <3>1 DEF RowType, Statuses
    <3> QED
      BY <3>1, <3>2, <3>3
  <2>3. cache' \in [kid : Maybe, pub : Maybe, rows : Listing, whole : BOOLEAN, lasting : BOOLEAN]
    <3>1. cache' \in {cache, NoDoc}
      BY <1>13 DEF WaitOut, WindowCloses, Retire
    <3> QED
      BY <3>1, DocTypes DEF Base, TypeOK
  <2>4. TypeOK'
    BY <1>13, <2>2, <2>3 DEF WaitOut, WindowCloses, Retire, Base, TypeOK, HandType, RowType
  <2> QED
    BY <2>1, <2>4 DEF Base, HandTyped
<1>14. ASSUME NEW k \in Keys, StartCutOver(k) PROVE Base'
  <2>1. hand' \in HandType /\ hand'.key \in Keys
    BY <1>14 DEF StartCutOver, Base, TypeOK, HandType, RowType, Maybe
  <2>2. TypeOK'
    BY <1>14, <2>1 DEF StartCutOver, Base, TypeOK, HandType, RowType
  <2> QED
    BY <1>14, <2>1, <2>2 DEF StartCutOver, Ready, Base, HandTyped, Putting, Minting, Cutting, Reminting
<1>15. CASE Crash
  <2>0. faults' \in 0..MaxFaults
    <3>1. faults \in 0..MaxFaults /\ MaxFaults \in Nat
      BY DEF Base, TypeOK
    <3>2. faults < MaxFaults /\ faults' = faults + 1
      BY <1>15 DEF Crash
    <3> QED
      BY <3>1, <3>2
  <2>1. TypeOK'
    <3>1. hand' \in HandType
      BY <1>15, IdleType DEF Crash
    <3> QED
      BY <1>15, <2>0, <3>1 DEF Crash, Base, TypeOK, HandType
  <2> QED
    BY <1>15, <2>1, IdleType DEF Crash, Base, HandTyped, Blank, Putting, Minting, Cutting, Reminting
<1>16. CASE SignerReads
  <2>1. PICK now \in {[signer EXCEPT !.key = secret.priv], [signer EXCEPT !.kid = secret.kid]} :
          IF None \in {now.key, now.kid}
          THEN signer' = now /\ UNCHANGED signed
          ELSE signer' = Asleep /\ signed' = signed \cup {now}
    BY <1>16 DEF SignerReads
  <2>2. now \in [key : Maybe, kid : Maybe]
    BY DEF Base, TypeOK, HandType, RowType, Triple
  <2>3. signer' \in [key : Maybe, kid : Maybe] /\ signed' \subseteq Token
    <3>1. None \notin {now.key, now.kid} => now \in Token
      BY <2>2 DEF Token, Maybe
    <3>2. signed \subseteq Token /\ signer \in [key : Maybe, kid : Maybe]
      BY DEF Base, TypeOK
    <3>3. CASE None \in {now.key, now.kid}
      BY <2>1, <2>2, <3>2, <3>3
    <3>4. CASE None \notin {now.key, now.kid}
      <4>1. signer' = Asleep /\ signed' = signed \cup {now}
        BY <2>1, <3>4
      <4> QED
        BY <3>1, <3>2, <3>4, <4>1, DocTypes
    <3> QED
      BY <3>3, <3>4
  <2> QED
    BY <1>16, <2>3 DEF SignerReads, Ready, Base, TypeOK, HandType, RowType, HandTyped
<1>17. CASE ReadListed \/ ReadActive
  <2>1. secret \in Triple /\ row \in [Keys -> RowType] /\ load \in LoadType
    BY DEF Base, TypeOK, RowType, LoadType
  <2>2. PICK now \in LoadType, w, lasting \in BOOLEAN :
           \/ load' = now /\ cache' = cache
           \/ /\ load' = NotRead
              /\ cache' = [kid |-> now.kid, pub |-> now.pub, rows |-> now.rows, lasting |-> lasting,
                           whole |-> w]
    BY <1>17, <2>1, Reading
  <2>3. load' \in [kid : Maybe, pub : Maybe, rows : Listing, listed : BOOLEAN]
    BY <2>2, DocTypes DEF LoadType
  <2>4. cache' \in [kid : Maybe, pub : Maybe, rows : Listing, whole : BOOLEAN, lasting : BOOLEAN]
    <3>1. now.kid \in Maybe /\ now.pub \in Maybe /\ now.rows \in Listing
      BY DEF LoadType
    <3>2. cache \in [kid : Maybe, pub : Maybe, rows : Listing, whole : BOOLEAN, lasting : BOOLEAN]
      BY DEF Base, TypeOK
    <3>3. ASSUME NEW v \in BOOLEAN, NEW l \in BOOLEAN
          PROVE  [kid |-> now.kid, pub |-> now.pub, rows |-> now.rows, lasting |-> l, whole |-> v]
                   \in [kid : Maybe, pub : Maybe, rows : Listing, whole : BOOLEAN, lasting : BOOLEAN]
      BY <3>1
    <3> QED
      BY <2>2, <3>2, <3>3
  <2>5. born # "unborn" /\ UNCHANGED <<secret, kept, row, api, minted, born, settled, hand, signer, signed, faults>>
    BY <1>17 DEF ReadListed, ReadActive, Ready
  <2> QED
    BY <2>3, <2>4, <2>5 DEF Base, TypeOK, HandType, RowType, HandTyped
<1>19. CASE UNCHANGED vars
  <2>1. TypeOK' <=> TypeOK
    BY <1>19 DEF vars, TypeOK
  <2>2. (HandTyped' <=> HandTyped) /\ (Blank' <=> Blank) /\ born' = born
    BY <1>19 DEF vars, HandTyped, Blank
  <2> QED
    BY <2>1, <2>2 DEF Base
<1>20. \/ StartMinting \/ PutPair \/ Mint \/ ListMinted \/ Provisioned
       \/ Begin \/ Publish \/ RetireOld \/ KeepOld \/ Swap \/ DropNext \/ Remint
       \/ \E k \in Keys : WaitOut(k) \/ StartCutOver(k) \/ WindowCloses(k) \/ Retire(k)
       \/ Crash \/ SignerReads \/ (ReadListed \/ ReadActive) \/ UNCHANGED vars
  BY Zenon DEF Next
<1> HIDE DEF Pcs
<1> QED
  BY <1>1, <1>2, <1>3, <1>4, <1>5, <1>6, <1>7, <1>8, <1>9, <1>10, <1>11, <1>12, <1>13, <1>14, <1>15, <1>16,
     <1>17, <1>19, <1>20

\* Every variable stays in its type, and no role ever has two stored tokens:
\* the replacements and the puts of project_secrets never add a value.
THEOREM Typing == Spec => []TypeOK
<1>1. Base => TypeOK
  BY DEF Base
<1> QED
  BY <1>1, BaseInit, BaseStep, PTL DEF Spec

LEMMA Types ==
  ASSUME Base
  PROVE  /\ secret \in [priv : Maybe, pub : Maybe, kid : Maybe]
         /\ kept \in [Keys -> Maybe] /\ row \in [Keys -> RowType]
         /\ api \in [Roles -> SUBSET Token] /\ minted \subseteq Roles
         /\ \A r \in Roles : \A t, u \in api[r] : t = u
         /\ hand \in HandType
         /\ signer \in [key : Maybe, kid : Maybe] /\ signed \subseteq Token
         /\ load \in [kid : Maybe, pub : Maybe, rows : Listing, listed : BOOLEAN]
         /\ cache \in [kid : Maybe, pub : Maybe, rows : Listing, whole : BOOLEAN, lasting : BOOLEAN]
BY DEF Base, TypeOK, HandType, RowType, Triple

LEMMA ProvisioningInit == Init => Provisioning
BY KeysAssumption DEF Init, Provisioning, NoSecret, Idle, Putting, Minting, OnePair, Stored

\* While it is provisioned, a project sees only the saga step and its crashes.
LEMMA UnbornSteps ==
  ASSUME Base, born = "unborn", [Next]_vars
  PROVE  StartMinting \/ PutPair \/ Mint \/ ListMinted \/ Provisioned \/ Crash \/ UNCHANGED vars
<1>1. hand.pc \in {"idle"} \cup Putting \cup Minting /\ ~Ready
  BY DEF Base, Blank, Ready
<1>2. \A k \in Keys : row[k].status = "absent"
  BY DEF Base, Blank, Absent
<1>3. /\ ~Begin /\ ~Publish /\ ~RetireOld /\ ~KeepOld /\ ~Swap /\ ~DropNext /\ ~Remint
      /\ ~SignerReads /\ ~ReadListed
  BY <1>1 DEF Begin, Publish, RetireOld, KeepOld, Swap, DropNext, Remint, SignerReads, ReadListed, At,
              Putting, Minting
<1>4. ~ReadActive
  BY <1>1 DEF ReadActive
<1>5. \A k \in Keys : ~WaitOut(k) /\ ~StartCutOver(k) /\ ~WindowCloses(k) /\ ~Retire(k)
  BY <1>2 DEF WaitOut, StartCutOver, WindowCloses, Retire
<1> QED
  BY <1>3, <1>4, <1>5 DEF Next

LEMMA ProvisioningStep ==
  ASSUME Base, Provisioning, born = "unborn", [Next]_vars, born' = "unborn"
  PROVE  Provisioning'
<1> USE KeysAssumption
<1>0. /\ StartMinting \/ PutPair \/ Mint \/ ListMinted \/ Crash \/ UNCHANGED vars
      /\ secret \in [priv : Maybe, pub : Maybe, kid : Maybe]
  BY UnbornSteps, Types DEF Provisioned
<1>1. CASE StartMinting
  <2>1. CASE secret.priv = None \/ secret.kid = None
    <3>1. PICK k \in Keys : hand' = [Idle EXCEPT !.pc = "put private", !.key = k, !.kid = k]
      BY <1>1, <2>1 DEF StartMinting, Fresh
    <3>2. hand'.pc = "put private" /\ hand'.key = hand'.kid
      BY <3>1 DEF Idle
    <3> QED
      BY <1>1, <2>1, <3>2 DEF StartMinting, Provisioning, Putting, Minting, OnePair, Stored
  <2>2. CASE secret.priv # None /\ secret.kid # None
    <3>1. hand' = [Idle EXCEPT !.pc = "mint", !.key = secret.priv, !.kid = secret.kid]
      BY <1>1, <2>2 DEF StartMinting
    <3>2. hand'.pc = "mint" /\ hand'.key = secret.priv /\ hand'.kid = secret.kid
      BY <3>1 DEF Idle
    <3> QED
      BY <1>1, <2>2, <3>2 DEF StartMinting, Provisioning, Putting, Minting, OnePair, Stored
  <2> QED
    BY <2>1, <2>2
<1>2. CASE PutPair
  <2>0. hand.key \in Keys /\ hand.kid \in Keys
    BY <1>2 DEF PutPair, At, Base, HandTyped, Putting
  <2>1. CASE At("put private") /\ Becomes("put public")
    <3>1. secret' = [secret EXCEPT !.priv = PutIfAbsent(@, hand.key)]
      BY <1>2, <2>1, HandStep DEF PutPair, At, Becomes
    <3>2. hand'.pc = "put public" /\ hand'.key = hand.key /\ hand'.kid = hand.kid
      BY <2>1, HandStep DEF Pcs
    <3>3. secret'.priv # None /\ secret'.pub = secret.pub /\ secret'.kid = secret.kid
      BY <1>0, <2>0, <3>1 DEF PutIfAbsent
    <3> QED
      BY <1>2, <2>1, <3>2, <3>3 DEF PutPair, At, Provisioning, Putting, Minting, OnePair, Stored
  <2>2. CASE At("put public") /\ Becomes("put kid")
    <3>1. secret' = [secret EXCEPT !.pub = PutIfAbsent(@, hand.key)]
      BY <1>2, <2>2 DEF PutPair, At
    <3>2. hand'.pc = "put kid" /\ hand'.key = hand.key /\ hand'.kid = hand.kid
      BY <2>2, HandStep DEF Pcs
    <3>3. secret'.priv = secret.priv /\ secret'.pub # None /\ secret'.kid = secret.kid
      BY <1>0, <2>0, <3>1 DEF PutIfAbsent
    <3> QED
      BY <1>2, <2>2, <3>2, <3>3 DEF PutPair, At, Provisioning, Putting, Minting, OnePair, Stored
  <2>3. CASE At("put kid") /\ Becomes("mint")
    <3>1. secret' = [secret EXCEPT !.kid = PutIfAbsent(@, hand.kid)]
      BY <1>2, <2>3 DEF PutPair, At
    <3>2. hand'.pc = "mint" /\ hand'.key = hand.key /\ hand'.kid = hand.kid
      BY <2>3, HandStep DEF Pcs
    <3>3. /\ secret'.priv = secret.priv /\ secret'.pub = secret.pub /\ secret'.kid = hand.kid
          /\ secret.kid = None /\ hand.key = hand.kid
      BY <1>0, <2>0, <2>3, <3>1 DEF PutIfAbsent, Provisioning, At, Putting
    <3>4. \A r \in Roles : api'[r] = {}
      BY <1>2, <3>3 DEF PutPair, Provisioning, Stored
    <3> QED
      BY <1>2, <2>0, <2>3, <3>2, <3>3, <3>4 DEF PutPair, At, Provisioning, Putting, Minting, OnePair, Stored
  <2> QED
    BY <1>2, <2>1, <2>2, <2>3 DEF PutPair
<1>3. CASE Mint
  <2>1. hand'.pc = "list" /\ hand'.key = hand.key /\ hand'.kid = hand.kid /\ secret' = secret
    BY <1>3, HandStep DEF Mint, Pcs
  <2>2. None \notin Stored
    BY <1>3 DEF Mint, At, Provisioning, Minting
  <2>3. OnePair => \A r \in Roles : \A t \in api'[r] : t.key = secret.priv /\ t.kid = secret.priv
    <3>1. PICK q \in Roles : api' = [api EXCEPT ![q] = IF @ = {} THEN {[key |-> hand.key, kid |-> hand.kid]} ELSE @]
      BY <1>3 DEF Mint, NextRole, Roles
    <3>2. OnePair => hand.key = secret.priv /\ hand.kid = secret.priv
      BY <1>3 DEF Mint, At, Provisioning, Minting
    <3>3. \A r \in Roles : \A t \in api'[r] : t \in api[r] \/ t = [key |-> hand.key, kid |-> hand.kid]
      BY <3>1, Types
    <3>4. OnePair => \A r \in Roles : \A t \in api[r] : t.key = secret.priv /\ t.kid = secret.priv
      BY DEF Provisioning
    <3>5. ASSUME OnePair, NEW r \in Roles, NEW t \in api'[r] PROVE t.key = secret.priv /\ t.kid = secret.priv
      <4>1. CASE t \in api[r]
        BY <3>4, <3>5, <4>1
      <4>2. CASE t = [key |-> hand.key, kid |-> hand.kid]
        BY <3>2, <3>5, <4>2
      <4> QED
        BY <3>3, <3>5, <4>1, <4>2
    <3> QED
      BY <3>5
  <2> QED
    BY <1>3, <2>1, <2>2, <2>3 DEF Mint, At, Provisioning, Putting, Minting, OnePair, Stored
<1>4. CASE ListMinted
  <2>1. hand'.pc = "mint" /\ hand'.key = hand.key /\ hand'.kid = hand.kid
    BY <1>4, HandStep DEF ListMinted, Pcs
  <2> QED
    BY <1>4, <2>1 DEF ListMinted, At, Provisioning, Putting, Minting, OnePair, Stored
<1>5. CASE Crash
  BY <1>5, IdleType DEF Crash, Provisioning, Putting, Minting, OnePair, Stored
<1>6. CASE UNCHANGED vars
  BY <1>6 DEF vars, Provisioning, OnePair, Stored
<1> QED
  BY <1>0, <1>1, <1>2, <1>3, <1>4, <1>5, <1>6

\* A project is provisioned whole: everything is one key's.
LEMMA BornWhole ==
  ASSUME Base, Provisioning, born = "unborn", Provisioned, born' = "whole"
  PROVE  OwnHalves' /\ Named' /\ Place' /\ Settlement' /\ Caching'
<1> USE KeysAssumption
<1>1. OnePair /\ None \notin Stored
  BY DEF Provisioned, Provisioning, Roles
<1>2. /\ secret' = secret /\ hand'.pc = "idle" /\ api' = api /\ signed' = {} /\ signer'.key = None
      /\ cache' = NoDoc /\ load' = NotRead
      /\ \A k \in Keys : kept'[k] = None /\ row'[k].status = "absent"
  BY IdleType DEF Provisioned, Base, Blank, Absent, Asleep
<1>3. \A r \in Roles : \A t \in api[r] : t.key = secret.priv /\ t.kid = secret.priv
  BY <1>1 DEF Provisioning
<1>4. \A k \in Keys : Used(k)' => k = secret.priv
  BY <1>1, <1>2, <1>3 DEF Used, OnePair, Stored
<1>5. OwnHalves'
  BY <1>2 DEF OwnHalves
<1>6. Named'
  BY <1>1, <1>2, <1>4 DEF Named, OnePair, Stored
<1>7. Place' /\ Settlement'
  BY <1>1, <1>2, <1>3 DEF Place, Settlement, Cutting, Reminting, OnePair
<1>8. Caching'
  BY <1>2 DEF Caching, NoDoc, NotRead, NoRows
<1> QED
  BY <1>5, <1>6, <1>7, <1>8

-----------------------------------------------------------------------------
(* What the steps of a ready project change.                               *)

LEMMA ReadySteps ==
  ASSUME Base, born # "unborn", [Next]_vars
  PROVE  /\ born' = born
         /\ \/ Begin \/ Publish \/ RetireOld \/ KeepOld \/ Swap \/ DropNext \/ Remint
            \/ \E k \in Keys : WaitOut(k) \/ StartCutOver(k) \/ WindowCloses(k) \/ Retire(k)
            \/ Crash \/ SignerReads \/ ReadListed \/ ReadActive \/ UNCHANGED vars
<1>1. hand.pc \in {"idle", "publish"} \cup Cutting
  BY DEF Base, HandTyped
<1>2. ~StartMinting /\ ~PutPair /\ ~Mint /\ ~ListMinted /\ ~Provisioned
  BY <1>1 DEF StartMinting, PutPair, Mint, ListMinted, Provisioned, At, Cutting, Reminting
<1> QED
  BY <1>2 DEF Next, Begin, Publish, RetireOld, KeepOld, Swap, DropNext, Remint, WaitOut, StartCutOver,
              WindowCloses, Retire, Crash, SignerReads, ReadListed, ReadActive, vars

\* The three secrets change in a swap only, one at a time.
LEMMA SecretMoves ==
  ASSUME Base, Whole, born # "unborn", [Next]_vars
  PROVE  \/ secret' = secret
         \/ /\ Swap /\ hand.pc = "swap private" /\ hand'.pc = "swap public"
            /\ secret'.priv = hand.kid /\ secret'.pub = secret.pub /\ secret'.kid = secret.kid
         \/ /\ Swap /\ hand.pc = "swap public" /\ hand'.pc = "swap kid"
            /\ secret'.pub = hand.kid /\ secret'.priv = secret.priv /\ secret'.kid = secret.kid
         \/ /\ Swap /\ hand.pc = "swap kid" /\ hand'.pc = "drop next"
            /\ secret'.kid = hand.kid /\ secret'.pub = secret.pub /\ secret'.priv = secret.priv
<1>1. CASE Swap
  <2>1. secret \in [priv : Maybe, pub : Maybe, kid : Maybe] /\ hand.key = hand.kid
    BY <1>1, Types DEF Swap, At, Whole, Place, Cutting
  <2>2. CASE At("swap private") /\ Becomes("swap public") /\ secret' = [secret EXCEPT !.priv = hand.key]
    BY <1>1, <2>1, <2>2, HandStep DEF At, Pcs
  <2>3. CASE At("swap public") /\ Becomes("swap kid") /\ secret' = [secret EXCEPT !.pub = hand.kid]
    BY <1>1, <2>1, <2>3, HandStep DEF At, Pcs
  <2>4. CASE At("swap kid") /\ Becomes("drop next") /\ secret' = [secret EXCEPT !.kid = hand.kid]
    BY <1>1, <2>1, <2>4, HandStep DEF At, Pcs
  <2> QED
    BY <1>1, <2>2, <2>3, <2>4 DEF Swap
<1>2. CASE ~Swap
  BY <1>2, ReadySteps DEF Begin, Publish, RetireOld, KeepOld, DropNext, Remint, WaitOut, StartCutOver,
                          WindowCloses, Retire, Crash, SignerReads, ReadListed, ReadActive, vars
<1> QED
  BY <1>1, <1>2

\* The stored tokens change when they are reminted, one at a time.
LEMMA ApiMoves ==
  ASSUME Base, Whole, born # "unborn", [Next]_vars
  PROVE  \/ api' = api
         \/ /\ Remint /\ hand.pc \in Reminting /\ secret' = secret
            /\ \E q \in Roles : /\ q = (IF hand.pc = "remint anon" THEN "anon" ELSE "service_role")
                                /\ \A t \in api'[q] : t.key = hand.kid /\ t.kid = hand.kid
                                /\ \A r \in Roles \ {q} : api'[r] = api[r]
<1>1. CASE Remint
  <2>1. PICK q \in Roles : /\ q = (IF hand.pc = "remint anon" THEN "anon" ELSE "service_role")
                           /\ api' = [api EXCEPT ![q] = {[key |-> hand.key, kid |-> hand.kid]}]
    BY <1>1 DEF Remint, At, Roles
  <2>2. hand.pc \in Reminting /\ secret' = secret
    BY <1>1 DEF Remint, At, Reminting
  <2>3. hand.key = hand.kid
    BY <2>2 DEF Whole, Place, Cutting
  <2>4. api'[q] = {[key |-> hand.key, kid |-> hand.kid]} /\ \A r \in Roles \ {q} : api'[r] = api[r]
    BY <2>1, Types
  <2>5. \A t \in api'[q] : t.key = hand.kid /\ t.kid = hand.kid
    BY <2>3, <2>4
  <2> QED
    BY <1>1, <2>1, <2>2, <2>4, <2>5
<1>2. CASE ~Remint
  BY <1>2, ReadySteps DEF Begin, Publish, RetireOld, KeepOld, DropNext, Swap, WaitOut, StartCutOver,
                          WindowCloses, Retire, Crash, SignerReads, ReadListed, ReadActive, vars
<1> QED
  BY <1>1, <1>2

\* A signer signs with what it read, and reads what signs now.
LEMMA SignerMoves ==
  ASSUME Base, Whole, born # "unborn", [Next]_vars
  PROVE  \/ signer' = signer /\ signed' = signed
         \/ /\ secret' = secret /\ api' = api /\ hand' = hand /\ row' = row /\ kept' = kept
            /\ signer'.key \in {None, signer.key, secret.priv}
            /\ \A t \in signed' : t \in signed \/ t.key \in {signer.key, secret.priv}
<1>1. CASE SignerReads
  <2>1. PICK now \in {[signer EXCEPT !.key = secret.priv], [signer EXCEPT !.kid = secret.kid]} :
          IF None \in {now.key, now.kid}
          THEN signer' = now /\ UNCHANGED signed
          ELSE signer' = Asleep /\ signed' = signed \cup {now}
    BY <1>1 DEF SignerReads
  <2>2. now.key \in {signer.key, secret.priv}
    BY <2>1, Types
  <2>3. CASE None \in {now.key, now.kid}
    BY <1>1, <2>1, <2>2, <2>3 DEF SignerReads
  <2>4. CASE None \notin {now.key, now.kid}
    BY <1>1, <2>1, <2>2, <2>4 DEF SignerReads, Asleep
  <2> QED
    BY <2>3, <2>4
<1>2. CASE ~SignerReads
  BY <1>2, ReadySteps DEF Begin, Publish, RetireOld, KeepOld, DropNext, Swap, Remint, WaitOut, StartCutOver,
                          WindowCloses, Retire, Crash, ReadListed, ReadActive, vars
<1> QED
  BY <1>1, <1>2

\* Nothing comes into use but the key whose turn it is, when it starts to sign.
LEMMA UsesGrow ==
  ASSUME Base, Whole, born # "unborn", [Next]_vars, NEW k \in Keys, Used(k)'
  PROVE  \/ Used(k)
         \/ Swap /\ hand.pc = "swap private" /\ hand'.pc = "swap public" /\ k = hand.kid
<1>0. \A t \in signed : t.key \in Keys
  BY Types DEF Token
<1>1. CASE k = secret'.priv
  BY <1>1, SecretMoves DEF Used
<1>2. CASE k = secret'.kid
  <2>1. hand.pc = "swap kid" => hand.kid = secret.priv
    BY DEF Whole, Place
  <2> QED
    BY <1>2, <2>1, SecretMoves DEF Used
<1>3. CASE k = signer'.key
  BY <1>3, KeysAssumption, SignerMoves DEF Used
<1>4. ASSUME NEW t \in signed', t.key = k PROVE Used(k)
  BY <1>4, SignerMoves DEF Used
<1>5. ASSUME NEW r \in Roles, NEW t \in api'[r], t.key = k PROVE Used(k)
  <2>1. hand.pc \in Reminting => hand.kid = secret.priv
    BY DEF Whole, Place
  <2>2. t \in api[r] \/ (hand.pc \in Reminting /\ t.key = hand.kid)
    BY <1>5, ApiMoves
  <2> QED
    BY <1>5, <2>1, <2>2 DEF Used
<1> QED
  BY <1>1, <1>2, <1>3, <1>4, <1>5 DEF Used

LEMMA HandFacts ==
  ASSUME Base, Whole, born # "unborn"
  PROVE  /\ secret \in [priv : Keys, pub : Keys, kid : Keys]
         /\ \A k \in Keys : row[k] \in RowType /\ kept[k] \in Maybe
         /\ hand.pc \in Cutting => hand.key = hand.kid /\ hand.kid \in Keys
         /\ hand.pc = "publish" => hand.key \in Keys
         /\ Used(secret.kid) /\ Used(secret.priv)
<1>1. secret \in [priv : Maybe, pub : Maybe, kid : Maybe] /\ None \notin Stored
  BY Types DEF Whole, Named
<1>2. secret \in [priv : Keys, pub : Keys, kid : Keys]
  BY <1>1 DEF Stored, Maybe
<1>3. \A k \in Keys : row[k] \in RowType /\ kept[k] \in Maybe
  BY Types
<1> QED
  BY <1>2, <1>3 DEF Base, HandTyped, Whole, Place, Used

\* A stored half stays; the two puts store a key's own half.
LEMMA KeptGrows ==
  ASSUME Base, Whole, born # "unborn", [Next]_vars
  PROVE  /\ \A k \in Keys : kept'[k] = kept[k] \/ (kept[k] = None /\ kept'[k] = k)
         /\ hand.pc = "keep old" => \/ ~KeepOld
                                    \/ kept'[secret.kid] = secret.kid
<1> USE HandFacts
<1>1. CASE KeepOld
  <2>1. hand.pc = "keep old" /\ hand.old = secret /\ kept' = [kept EXCEPT ![secret.kid] = PutIfAbsent(@, secret.priv)]
    BY <1>1 DEF KeepOld, At, Whole, Place
  <2>2. kept[secret.kid] = secret.kid \/ (kept[secret.kid] = None /\ secret.priv = secret.kid)
    BY DEF Whole, Named
  <2>3. kept'[secret.kid] = secret.kid
    BY <2>1, <2>2, Types, KeysAssumption DEF PutIfAbsent
  <2>4. \A k \in Keys \ {secret.kid} : kept'[k] = kept[k]
    BY <2>1, Types
  <2> QED
    BY <2>2, <2>3, <2>4
<1>2. CASE Begin
  BY <1>2, Types DEF Begin, Fresh, At
<1>3. CASE ~KeepOld /\ ~Begin
  <2>1. kept' = kept
    BY <1>3, ReadySteps DEF Publish, RetireOld, DropNext, Swap, Remint, WaitOut, StartCutOver,
                            WindowCloses, Retire, Crash, SignerReads, ReadListed, ReadActive, vars
  <2> QED
    BY <1>3, <2>1
<1> QED
  BY <1>1, <1>2, <1>3

\* What can happen to a row.
LEMMA RowMoves ==
  ASSUME Base, Whole, born # "unborn", [Next]_vars, NEW k \in Keys
  PROVE  \/ row'[k] = row[k]
         \/ /\ Publish /\ hand.pc = "publish" /\ k = hand.key
            /\ row'[k].status = "next" /\ row'[k].pem = k /\ ~row'[k].ripe
         \/ /\ RetireOld /\ hand.pc = "retire old" /\ k = secret.kid
            /\ row'[k].status = "retiring" /\ row'[k].pem = k /\ ~row'[k].ripe
         \/ /\ DropNext /\ hand.pc = "drop next" /\ k = hand.kid
            /\ row'[k].status = "absent"
         \/ /\ WaitOut(k) \/ WindowCloses(k)
            /\ row'[k].status = row[k].status /\ row'[k].pem = row[k].pem
         \/ /\ Retire(k) /\ row'[k].status = "retired" /\ row'[k].pem = row[k].pem
<1> USE HandFacts
<1>0. row \in [Keys -> RowType]
  BY Types
<1>1. CASE Publish
  <2>1. hand.pc = "publish" /\ row' = [row EXCEPT ![hand.key] = [status |-> "next", pem |-> hand.key, ripe |-> FALSE]]
    BY <1>1 DEF Publish, At
  <2> QED
    BY <1>0, <1>1, <2>1
<1>2. CASE RetireOld
  <2>1. hand.pc = "retire old" /\ hand.old = secret
    BY <1>2 DEF RetireOld, At, Whole, Place
  <2>2. (IF row[secret.kid].status = "absent" THEN secret.pub ELSE row[secret.kid].pem) = secret.kid
    BY DEF Whole, Named, OwnHalves
  <2>3. row' = [row EXCEPT ![secret.kid] = [status |-> "retiring", ripe |-> FALSE, pem |-> secret.kid]]
    BY <1>0, <1>2, <2>1, <2>2 DEF RetireOld
  <2> QED
    BY <1>0, <1>2, <2>1, <2>3
<1>3. CASE DropNext
  BY <1>0, <1>3 DEF DropNext, At, Absent
<1>4. ASSUME NEW j \in Keys, WaitOut(j) \/ WindowCloses(j) PROVE row'[k] = row[k] \/ (j = k /\ row'[k].status = row[k].status /\ row'[k].pem = row[k].pem)
  <2>1. row' = [row EXCEPT ![j].ripe = TRUE]
    BY <1>4 DEF WaitOut, WindowCloses
  <2> QED
    BY <1>0, <2>1 DEF RowType
<1>5. ASSUME NEW j \in Keys, Retire(j) PROVE row'[k] = row[k] \/ (j = k /\ row'[k].status = "retired" /\ row'[k].pem = row[k].pem)
  <2>1. row' = [row EXCEPT ![j].status = "retired"]
    BY <1>5 DEF Retire
  <2> QED
    BY <1>0, <2>1 DEF RowType
<1>6. CASE Begin \/ KeepOld \/ Swap \/ Remint \/ Crash \/ SignerReads \/ ReadListed \/ ReadActive \/ UNCHANGED vars \/ \E j \in Keys : StartCutOver(j)
  BY <1>6 DEF Begin, KeepOld, Swap, Remint, StartCutOver, Crash, SignerReads, ReadListed, ReadActive, vars
<1> QED
  BY <1>1, <1>2, <1>3, <1>4, <1>5, <1>6, ReadySteps

LEMMA OwnHalvesStep ==
  ASSUME Base, Whole, born # "unborn", [Next]_vars
  PROVE  OwnHalves'
<1> SUFFICES ASSUME NEW k \in Keys
             PROVE  kept'[k] \in {None, k} /\ (row'[k].status # "absent" => row'[k].pem = k)
  BY DEF OwnHalves
<1>1. kept'[k] \in {None, k}
  BY KeptGrows DEF Whole, OwnHalves
<1>2. row'[k].status # "absent" => row'[k].pem = k
  <2>1. row[k].status # "absent" => row[k].pem = k
    BY DEF Whole, OwnHalves
  <2>2. Retire(k) => row[k].status # "absent"
    BY DEF Retire
  <2> QED
    BY <2>1, <2>2, RowMoves
<1> QED
  BY <1>1, <1>2

LEMMA NamedStep ==
  ASSUME Base, Whole, born # "unborn", [Next]_vars
  PROVE  Named'
<1> USE HandFacts, KeysAssumption
<1>0. /\ hand.pc = "swap private" => /\ row[hand.kid].status # "absent" /\ kept[hand.kid] = hand.kid
                                     /\ kept[secret.kid] = secret.kid
      /\ hand.pc = "swap public" => row[hand.kid].status # "absent" /\ row[secret.kid].status # "absent" /\ secret.priv = hand.kid
      /\ hand.pc = "swap kid" => secret.pub = hand.kid /\ secret.priv = hand.kid
      /\ hand.pc = "drop next" => secret.pub = hand.kid /\ secret.kid = hand.kid /\ secret.priv = hand.kid
      /\ hand.pc \in {"swap private", "swap public", "swap kid", "drop next"} => hand.kid \in Keys
  BY DEF Whole, Place, Cutting, Reminting
<1>r. \A k \in Keys : row[k].status # "absent" => \/ row'[k].status # "absent"
                                                  \/ hand.pc = "drop next" /\ k = hand.kid /\ secret' = secret
  BY RowMoves DEF WaitOut, WindowCloses, DropNext
<1>k. \A k \in Keys : kept[k] # None => kept'[k] = kept[k]
  BY KeptGrows
<1>s. Swap => row' = row /\ kept' = kept
  BY DEF Swap
<1>1. None \notin Stored'
  BY <1>0, SecretMoves DEF Stored
<1>2. ASSUME NEW k \in Keys, Used(k)' PROVE row'[k].status # "absent" \/ k = secret'.pub
  <2>1. CASE Used(k)
    <3>1. row[k].status # "absent" \/ k = secret.pub
      BY <2>1 DEF Whole, Named
    <3>2. CASE row[k].status # "absent"
      BY <1>0, <1>r, <3>2
    <3>3. CASE k = secret.pub /\ secret.pub # secret'.pub
      BY <1>0, <1>s, <3>3, SecretMoves DEF Whole, Named
    <3> QED
      BY <3>1, <3>2, <3>3
  <2>2. CASE Swap /\ hand.pc = "swap private" /\ k = hand.kid
    BY <1>0, <1>s, <2>2
  <2> QED
    BY <1>2, <2>1, <2>2, UsesGrow
<1>3. secret'.pub = secret'.kid \/ row'[secret'.pub].status # "absent"
  <2>1. secret.pub = secret.kid \/ row[secret.pub].status # "absent"
    BY DEF Whole, Named
  <2>2. CASE secret' = secret
    BY <1>0, <1>r, <2>1, <2>2
  <2>3. CASE secret' # secret
    BY <1>0, <1>s, <2>1, <2>3, SecretMoves
  <2> QED
    BY <2>2, <2>3
<1>5. secret'.priv = secret'.kid \/ kept'[secret'.priv] = secret'.priv
  <2>1. secret.priv = secret.kid \/ kept[secret.priv] = secret.priv
    BY DEF Whole, Named
  <2>2. CASE secret' = secret
    BY <1>k, <2>1, <2>2
  <2>3. CASE secret' # secret
    BY <1>0, <1>s, <2>1, <2>3, SecretMoves
  <2> QED
    BY <2>2, <2>3
<1>4. ASSUME NEW k \in Keys, Used(k)' PROVE kept'[k] = k \/ (kept'[k] = None /\ secret'.priv = k)
  <2>1. CASE Used(k)
    <3>1. kept[k] = k \/ (kept[k] = None /\ secret.priv = k)
      BY <2>1 DEF Whole, Named
    <3>2. CASE kept[k] = k
      BY <1>k, <3>2
    <3>3. CASE kept[k] = None /\ secret.priv = k /\ secret'.priv = k
      BY <3>3, KeptGrows
    <3>4. CASE kept[k] = None /\ secret.priv = k /\ secret'.priv # k
      <4>1. hand.pc = "swap private"
        BY <3>4, SecretMoves
      <4>2. kept[secret.kid] = secret.kid /\ (secret.priv = secret.kid \/ kept[secret.priv] = secret.priv)
        BY <1>0, <4>1 DEF Whole, Named
      <4> QED
        BY <3>4, <4>2
    <3> QED
      BY <3>1, <3>2, <3>3, <3>4
  <2>2. CASE Swap /\ hand.pc = "swap private" /\ k = hand.kid
    BY <1>0, <1>s, <2>2
  <2> QED
    BY <1>4, <2>1, <2>2, UsesGrow
<1> QED
  BY <1>1, <1>2, <1>3, <1>4, <1>5 DEF Named

LEMMA SettlementStep ==
  ASSUME Base, Whole, born # "unborn", [Next]_vars
  PROVE  Settlement'
<1>1. /\ settled => /\ hand.pc \in {"idle", "publish", "retire old"}
                    /\ secret.pub = secret.kid
                    /\ \A r \in Roles : \A t \in api[r] : t.key = secret.kid /\ t.kid = secret.kid
      /\ hand.pc = "remint service_role" => \A t \in api["anon"] : t.key = hand.kid /\ t.kid = hand.kid
  BY DEF Whole, Settlement
<1>2. CASE Remint
  <2>1. CASE At("remint anon") /\ Becomes("remint service_role") /\ UNCHANGED settled
    <3>1. ~settled' /\ hand'.kid = hand.kid
      BY <1>1, <2>1, HandStep DEF At, Pcs
    <3>2. api' = [api EXCEPT !["anon"] = {[key |-> hand.key, kid |-> hand.kid]}]
      BY <1>2, <2>1 DEF Remint, At
    <3>3. hand.key = hand.kid
      BY <2>1 DEF At, Whole, Place, Cutting, Reminting
    <3>4. \A t \in api'["anon"] : t.key = hand.kid /\ t.kid = hand.kid
      <4>1. api'["anon"] = {[key |-> hand.key, kid |-> hand.kid]}
        BY <3>2, Types DEF Roles
      <4> QED
        BY <3>3, <4>1
    <3> QED
      BY <3>1, <3>4 DEF Settlement
  <2>2. CASE At("remint service_role") /\ hand' = Idle
    <3>1. secret' = secret /\ secret.kid = hand.kid /\ secret.pub = hand.kid
      BY <1>2, <2>2 DEF Remint, At, Whole, Place, Reminting
    <3>2. \A r \in Roles : \A t \in api'[r] : t.key = hand.kid /\ t.kid = hand.kid
      <4>0. api' = [api EXCEPT !["service_role"] = {[key |-> hand.key, kid |-> hand.kid]}]
        BY <1>2, <2>2 DEF Remint, At
      <4>1. api'["service_role"] = {[key |-> hand.key, kid |-> hand.kid]} /\ hand.key = hand.kid
        BY <2>2, <4>0, Types DEF Roles, At, Whole, Place, Cutting, Reminting
      <4>2. api'["anon"] = api["anon"]
        BY <4>0, Types DEF Roles
      <4>3. \A t \in api'["anon"] : t.key = hand.kid /\ t.kid = hand.kid
        <5>1. \A t \in api["anon"] : t.key = hand.kid /\ t.kid = hand.kid
          BY <1>1, <2>2 DEF At
        <5> QED
          BY <4>2, <5>1
      <4>4. \A t \in api'["service_role"] : t.key = hand.kid /\ t.kid = hand.kid
        BY <4>1
      <4> QED
        BY <4>3, <4>4 DEF Roles
    <3>3. hand'.pc = "idle"
      BY <2>2, IdleType
    <3> QED
      BY <3>1, <3>2, <3>3 DEF Settlement
  <2> QED
    BY <1>2, <2>1, <2>2 DEF Remint
<1>3. CASE RetireOld
  <2>1. settled' = FALSE /\ hand'.pc = "keep old"
    BY <1>3, HandStep DEF RetireOld, Pcs
  <2> QED
    BY <2>1 DEF Settlement
<1>4. CASE KeepOld \/ Swap \/ DropNext
  <2>1. settled' = settled /\ hand.pc \in {"keep old", "swap private", "swap public", "swap kid", "drop next"}
    BY <1>4 DEF KeepOld, Swap, DropNext, At
  <2>2. hand'.pc # "remint service_role"
    BY <1>4, HandStep DEF KeepOld, Swap, DropNext, Pcs
  <2> QED
    BY <1>1, <2>1, <2>2 DEF Settlement
<1>5. CASE Begin \/ Publish \/ Crash \/ \E k \in Keys : StartCutOver(k)
  <2>1. settled' = settled /\ secret' = secret /\ api' = api
    BY <1>5 DEF Begin, Publish, Crash, StartCutOver
  <2>2. hand'.pc \in {"idle", "publish", "retire old"}
    <3>1. Begin => hand'.pc = "publish"
      BY DEF Begin, Idle
    <3>2. Publish \/ Crash => hand'.pc = "idle"
      BY IdleType DEF Publish, Crash
    <3>3. ASSUME NEW k \in Keys, StartCutOver(k) PROVE hand'.pc = "retire old"
      BY <3>3 DEF StartCutOver
    <3> QED
      BY <1>5, <3>1, <3>2, <3>3
  <2> QED
    BY <1>1, <2>1, <2>2 DEF Settlement
<1>6. CASE SignerReads \/ ReadListed \/ ReadActive \/ UNCHANGED vars \/ \E k \in Keys : WaitOut(k) \/ WindowCloses(k) \/ Retire(k)
  <2>1. settled' = settled /\ secret' = secret /\ api' = api /\ hand' = hand
    BY <1>6 DEF SignerReads, ReadListed, ReadActive, vars, WaitOut, WindowCloses, Retire
  <2> QED
    BY <1>1, <2>1 DEF Settlement
<1> QED
  BY <1>2, <1>3, <1>4, <1>5, <1>6, ReadySteps

\* Each step of the hand finds what the one before it left.
LEMMA PlaceStep ==
  ASSUME Base, Whole, born # "unborn", [Next]_vars
  PROVE  Place'
<1> USE HandFacts, KeysAssumption
<1>0. Place
  BY DEF Whole
<1>r. ASSUME NEW k \in Keys, row[k].status # "absent" PROVE row'[k].status # "absent" \/ DropNext
  BY <1>r, RowMoves DEF WaitOut, WindowCloses
<1>k. \A k \in Keys : kept[k] # None => kept'[k] = kept[k]
  BY KeptGrows
<1>1. CASE Begin
  <2>1. PICK k \in Fresh : /\ kept' = [kept EXCEPT ![k] = k]
                           /\ hand' = [Idle EXCEPT !.pc = "publish", !.key = k]
    BY <1>1 DEF Begin
  <2>2. hand'.pc = "publish" /\ hand'.key = k /\ secret' = secret /\ row' = row
    BY <1>1, <2>1 DEF Begin, Idle
  <2>3. k \in Keys /\ row[k].status = "absent" /\ k \notin Stored
    BY DEF Fresh, Stored
  <2>4. kept'[k] = k
    BY <2>1, <2>3, Types
  <2> QED
    BY <2>2, <2>3, <2>4 DEF Place, Cutting, Reminting, Stored
<1>2. CASE Publish \/ Crash
  <2>1. hand'.pc = "idle"
    BY <1>2, IdleType DEF Publish, Crash
  <2> QED
    BY <2>1 DEF Place, Cutting, Reminting
<1>3. ASSUME NEW k \in Keys, StartCutOver(k) PROVE Place'
  <2>1. hand'.pc = "retire old" /\ hand'.key = kept[k] /\ hand'.kid = k /\ hand'.old = secret
    BY <1>3 DEF StartCutOver
  <2>2. row' = row /\ kept' = kept /\ secret' = secret /\ kept[k] # None /\ row[k].status = "next" /\ row[k].ripe
    BY <1>3 DEF StartCutOver
  <2>3. kept[k] = k
    BY <2>2 DEF Whole, OwnHalves
  <2> QED
    BY <2>1, <2>2, <2>3 DEF Place, Cutting, Reminting
<1>4. CASE RetireOld
  <2>1. /\ hand.pc = "retire old" /\ hand'.pc = "keep old" /\ hand'.key = hand.key /\ hand'.kid = hand.kid
        /\ hand'.old = hand.old
    BY <1>4, HandStep DEF RetireOld, At, Pcs
  <2>2. secret' = secret /\ kept' = kept /\ hand.old = secret
    BY <1>0, <1>4, <2>1 DEF RetireOld, Place
  <2>3. hand.key = hand.kid /\ kept[hand.kid] = hand.kid /\ hand.kid \in Keys /\ row[hand.kid].status = "next"
    BY <1>0, <2>1 DEF Place, Cutting
  <2>4. row'[secret.kid].status = "retiring" /\ ~row'[secret.kid].ripe
    <3>1. row' = [row EXCEPT ![secret.kid] = [status |-> "retiring", ripe |-> FALSE,
                    pem |-> IF @.status = "absent" THEN hand.old.pub ELSE @.pem]]
      BY <1>4, <2>2 DEF RetireOld
    <3> QED
      BY <3>1, Types
  <2>5. row'[hand.kid].status = "next" \/ hand.kid = secret.kid
    BY <1>4, <2>1, <2>3, RowMoves DEF RetireOld, Publish, DropNext, WaitOut, WindowCloses, Retire, At, Quiet
  <2> QED
    BY <2>1, <2>2, <2>3, <2>4, <2>5 DEF Place, Cutting, Reminting
<1>5. CASE KeepOld
  <2>1. /\ hand.pc = "keep old" /\ hand'.pc = "swap private" /\ hand'.key = hand.key /\ hand'.kid = hand.kid
        /\ hand'.old = hand.old
    BY <1>5, HandStep DEF KeepOld, At, Pcs
  <2>2. row' = row /\ secret' = secret
    BY <1>5 DEF KeepOld
  <2>3. kept'[secret.kid] = secret.kid
    BY <1>5, <2>1, KeptGrows
  <2>4. kept[hand.kid] = hand.kid => kept'[hand.kid] = hand.kid
    BY <1>k, <2>1 DEF Cutting
  <2> QED
    BY <1>0, <2>1, <2>2, <2>3, <2>4 DEF Place, Cutting, Reminting
<1>6. CASE Swap
  <2>1. row' = row /\ kept' = kept /\ hand'.key = hand.key /\ hand'.kid = hand.kid
    BY <1>6, HandStep DEF Swap, Pcs
  <2>2. CASE hand.pc = "swap private" /\ hand'.pc = "swap public"
             /\ secret'.priv = hand.kid /\ secret'.pub = secret.pub /\ secret'.kid = secret.kid
    BY <1>0, <2>1, <2>2 DEF Place, Cutting, Reminting
  <2>3. CASE hand.pc = "swap public" /\ hand'.pc = "swap kid"
             /\ secret'.pub = hand.kid /\ secret'.priv = secret.priv /\ secret'.kid = secret.kid
    BY <1>0, <2>1, <2>3 DEF Place, Cutting, Reminting
  <2>4. CASE hand.pc = "swap kid" /\ hand'.pc = "drop next"
             /\ secret'.kid = hand.kid /\ secret'.pub = secret.pub /\ secret'.priv = secret.priv
    BY <1>0, <2>1, <2>4 DEF Place, Cutting, Reminting
  <2>5. CASE secret' = secret
    <3>1. CASE hand.pc = "swap private" /\ hand'.pc = "swap public" /\ hand.kid = secret.priv
      BY <1>0, <2>1, <2>5, <3>1 DEF Place, Cutting, Reminting
    <3>2. CASE hand.pc = "swap public" /\ hand'.pc = "swap kid" /\ hand.kid = secret.pub
      BY <1>0, <2>1, <2>5, <3>2 DEF Place, Cutting, Reminting
    <3>3. CASE hand.pc = "swap kid" /\ hand'.pc = "drop next" /\ hand.kid = secret.kid
      BY <1>0, <2>1, <2>5, <3>3 DEF Place, Cutting, Reminting
    <3>4. hand.key = hand.kid
      BY <1>0, <1>6 DEF Swap, At, Place, Cutting
    <3>5. \/ At("swap private") /\ Becomes("swap public") /\ secret' = [secret EXCEPT !.priv = hand.key]
          \/ At("swap public") /\ Becomes("swap kid") /\ secret' = [secret EXCEPT !.pub = hand.kid]
          \/ At("swap kid") /\ Becomes("drop next") /\ secret' = [secret EXCEPT !.kid = hand.kid]
      BY <1>6 DEF Swap
    <3>6. \/ At("swap private") /\ hand'.pc = "swap public" /\ secret'.priv = hand.kid
          \/ At("swap public") /\ hand'.pc = "swap kid" /\ secret'.pub = hand.kid
          \/ At("swap kid") /\ hand'.pc = "drop next" /\ secret'.kid = hand.kid
      BY <3>4, <3>5, HandStep, Types DEF Pcs
    <3> QED
      BY <2>5, <3>1, <3>2, <3>3, <3>6 DEF At
  <2> QED
    BY <2>2, <2>3, <2>4, <2>5, SecretMoves
<1>7. CASE DropNext \/ Remint
  <2>1. CASE hand' = Idle
    BY <2>1, IdleType DEF Place, Cutting, Reminting
  <2>2. CASE hand' # Idle
    <3>1. /\ hand.pc \in {"drop next", "remint anon"} /\ hand'.pc \in Reminting
          /\ hand'.key = hand.key /\ hand'.kid = hand.kid
      BY <1>7, <2>2, HandStep DEF DropNext, Remint, At, Pcs, Reminting
    <3>2. secret' = secret /\ kept' = kept
      BY <1>7 DEF DropNext, Remint
    <3>3. /\ hand.key = hand.kid /\ kept[hand.kid] = hand.kid
          /\ secret.priv = hand.kid /\ secret.pub = hand.kid /\ secret.kid = hand.kid
      BY <1>0, <3>1 DEF Place, Cutting, Reminting
    <3> QED
      BY <3>1, <3>2, <3>3 DEF Place, Cutting, Reminting
  <2> QED
    BY <2>1, <2>2
<1>8. ASSUME NEW j \in Keys, WaitOut(j) \/ WindowCloses(j) PROVE Place'
  <2>1. hand'.pc = "idle"
    BY <1>8, IdleType DEF WaitOut, WindowCloses, Quiet
  <2> QED
    BY <2>1 DEF Place, Cutting, Reminting
<1>9. ASSUME NEW j \in Keys, Retire(j) PROVE Place'
  <2>1. /\ hand' = hand /\ secret' = secret /\ kept' = kept
        /\ \A k \in Keys \ {j} : row'[k] = row[k]
        /\ row'[j].status = "retired"
    BY <1>9, Types DEF Retire, RowType
  <2>2. \/ row[j].status = "retiring" /\ row[j].ripe
        \/ row[j].status = "next" /\ hand.pc = "idle"
    BY <1>9 DEF Retire, At
  <2>3. CASE hand.pc = "idle"
    BY <2>1, <2>3 DEF Place, Cutting, Reminting
  <2>4. CASE hand.pc = "publish"
    <3>1. j # hand.key
      BY <1>0, <2>2, <2>4 DEF Place
    <3> QED
      BY <1>0, <2>1, <2>4, <3>1 DEF Place, Cutting, Reminting, Stored
  <2>5. CASE hand.pc \in Cutting
    <3>1. hand.pc \in Cutting \ Reminting => row'[hand.kid] = row[hand.kid]
      BY <1>0, <2>1, <2>2, <2>5 DEF Place, Cutting, Reminting
    <3>2. row[secret.kid].status # "absent" => row'[secret.kid].status # "absent"
      BY <2>1
    <3>3. hand.pc # "publish" /\ secret' = secret /\ hand' = hand /\ kept' = kept
      BY <2>1, <2>5 DEF Cutting, Reminting
    <3> QED
      BY <1>0, <3>1, <3>2, <3>3 DEF Place, Cutting, Reminting
  <2> QED
    BY <2>3, <2>4, <2>5 DEF Base, HandTyped
<1>10. CASE SignerReads \/ ReadListed \/ ReadActive \/ UNCHANGED vars
  <2>1. hand' = hand /\ secret' = secret /\ kept' = kept /\ row' = row
    BY <1>10 DEF SignerReads, ReadListed, ReadActive, vars
  <2> QED
    BY <1>0, <2>1 DEF Place, Stored
<1> QED
  BY <1>1, <1>2, <1>3, <1>4, <1>5, <1>6, <1>7, <1>8, <1>9, <1>10, ReadySteps

\* A reading that no cut-over crossed holds every key in use, and the next.
LEMMA WholeReading ==
  ASSUME Base, ReadListed \/ ReadActive, cache' # cache, cache'.whole
  PROVE  /\ cache'.kid = secret.kid /\ cache'.pub = secret.kid /\ secret.pub = secret.kid
         /\ \A k \in Keys : cache'.rows[k] = ListedRows[k]
<1>0. secret \in Triple /\ row \in [Keys -> RowType] /\ load \in LoadType
  BY DEF Base, TypeOK, RowType, LoadType
<1>1. PICK now \in LoadType, w, lasting \in BOOLEAN :
        /\ w <=> WholeIs(now)
        /\ cache' = [kid |-> now.kid, pub |-> now.pub, rows |-> now.rows, lasting |-> lasting,
                     whole |-> w]
  BY <1>0, Reading
<1>2. WholeIs(now)
  BY <1>1
<1> QED
  BY <1>1, <1>2 DEF WholeIs, Published

LEMMA OwnDocs ==
  ASSUME Base, Whole, born # "unborn", [Next]_vars
  PROVE  /\ \A k \in Keys : cache'.rows[k] \in {None, k}
         /\ \A k \in Keys : load'.rows[k] \in {None, k}
<1>0. /\ \A k \in Keys : cache.rows[k] \in {None, k}
      /\ \A k \in Keys : load.rows[k] \in {None, k}
  BY DEF Whole, Caching
<1>1. CASE ReadListed \/ ReadActive
  <2>1. \A k \in Keys : ListedRows[k] \in {None, k}
    BY DEF ListedRows, Whole, OwnHalves
  <2>2. secret \in Triple /\ row \in [Keys -> RowType] /\ load \in LoadType
    BY DEF Base, TypeOK, RowType, LoadType
  <2>3. PICK now \in LoadType :
          /\ now.rows \in {load.rows, ListedRows}
          /\ \/ load' = now /\ cache' = cache
             \/ load' = NotRead /\ cache'.rows = now.rows
    BY <1>1, <2>2, Reading
  <2>4. \A k \in Keys : NotRead.rows[k] = None
    BY DEF NotRead, NoRows
  <2> QED
    BY <1>0, <2>1, <2>3, <2>4
<1>3. CASE ~ReadListed /\ ~ReadActive
  <2>1. load' = load /\ cache' \in {cache, NoDoc}
    BY <1>3, ReadySteps DEF Begin, Publish, RetireOld, KeepOld, DropNext, Swap, Remint, StartCutOver,
                            WaitOut, WindowCloses, Retire, Crash, SignerReads, vars
  <2>2. \A k \in Keys : NoDoc.rows[k] = None
    BY DEF NoDoc, NoRows
  <2> QED
    BY <1>0, <2>1, <2>2
<1> QED
  BY <1>1, <1>3

LEMMA CachingStep ==
  ASSUME Base, Whole, born # "unborn", [Next]_vars
  PROVE  Caching'
<1> USE HandFacts, KeysAssumption
<1>1. SUFFICES ASSUME cache'.whole, ~cache'.lasting
               PROVE  /\ cache'.kid = cache'.pub
                      /\ \A k \in Keys : Used(k)' => row'[k].status = "retired" \/ Covered(k)'
                      /\ Covered(secret.kid)'
                      /\ \A k \in Keys : row'[k].status = "next" /\ row'[k].ripe => Covered(k)'
                      /\ hand'.pc \in Cutting => Covered(hand.kid)'
  BY OwnDocs DEF Caching
<1>2. CASE (ReadListed \/ ReadActive) /\ cache' # cache
  <2>1. /\ cache'.kid = secret.kid /\ cache'.pub = secret.kid /\ secret.pub = secret.kid
        /\ \A k \in Keys : cache'.rows[k] = ListedRows[k]
    BY <1>1, <1>2, WholeReading
  <2>2. hand' = hand /\ secret' = secret /\ row' = row
    BY <1>2 DEF ReadListed, ReadActive
  <2>3. ASSUME NEW k \in Keys, row[k].status \in {"next", "retiring"} PROVE Covered(k)'
    BY <2>1, <2>3 DEF ListedRows, Whole, OwnHalves, Covered
  <2>4. Covered(secret.kid)'
    BY <2>1, <2>2 DEF Covered
  <2>5. ASSUME NEW k \in Keys, Used(k)' PROVE row'[k].status = "retired" \/ Covered(k)'
    <3>1. Used(k)
      BY <1>2, <2>5, UsesGrow DEF ReadListed, ReadActive, Swap
    <3>2. row[k].status # "absent" \/ k = secret.kid
      BY <2>1, <3>1 DEF Whole, Named
    <3> QED
      BY <2>1, <2>2, <2>3, <3>2 DEF RowType, Statuses, Covered
  <2>6. hand'.pc \in Cutting => Covered(hand.kid)'
    <3>1. hand.pc \in Cutting => row[hand.kid].status \in {"next", "retiring"} \/ hand.kid = secret.kid
      BY DEF Whole, Place, Reminting
    <3> QED
      BY <2>2, <2>3, <2>4, <3>1
  <2> QED
    BY <2>1, <2>2, <2>3, <2>4, <2>5, <2>6
<1>3. CASE ~((ReadListed \/ ReadActive) /\ cache' # cache)
  <2>1. cache' = cache
    <3>1. cache' = cache \/ cache' = NoDoc
      BY <1>3, ReadySteps DEF Begin, Publish, RetireOld, KeepOld, DropNext, Swap, Remint, StartCutOver,
                              WaitOut, WindowCloses, Retire, Crash, SignerReads, vars
    <3> QED
      BY <1>1, <3>1 DEF NoDoc
  <2>2. /\ cache.kid = cache.pub
        /\ \A k \in Keys : Used(k) => row[k].status = "retired" \/ Covered(k)
        /\ Covered(secret.kid)
        /\ \A k \in Keys : row[k].status = "next" /\ row[k].ripe => Covered(k)
        /\ hand.pc \in Cutting => Covered(hand.kid)
    BY <1>1, <2>1 DEF Whole, Caching
  <2>3. \A k \in Keys : Covered(k)' <=> Covered(k)
    BY <2>1 DEF Covered
  <2>4. \A k \in Keys : Used(k)' => Used(k) \/ Covered(k)
    BY <2>2, UsesGrow DEF Cutting
  <2>5. ASSUME NEW k \in Keys, Used(k)' PROVE row'[k].status = "retired" \/ Covered(k)'
    <3>1. CASE Covered(k)
      BY <2>3, <3>1
    <3>2. CASE ~Covered(k)
      <4>1. Used(k) /\ row[k].status = "retired"
        BY <2>2, <2>4, <2>5, <3>2
      <4>2. ~(Publish /\ k = hand.key)
        BY <4>1 DEF Publish, At, Whole, Place
      <4>3. k # secret.kid
        BY <2>2, <3>2
      <4>4. ~(hand.pc = "drop next" /\ k = hand.kid)
        BY <2>2, <3>2 DEF Cutting
      <4> QED
        BY <4>1, <4>2, <4>3, <4>4, RowMoves
    <3> QED
      BY <3>1, <3>2
  <2>6. Covered(secret.kid)'
    <3>1. secret'.kid = secret.kid \/ (hand.pc = "swap kid" /\ secret'.kid = hand.kid)
      BY SecretMoves
    <3> QED
      BY <2>1, <2>2, <3>1 DEF Covered, Cutting
  <2>7. ASSUME NEW k \in Keys, row'[k].status = "next", row'[k].ripe PROVE Covered(k)'
    <3>1. CASE row'[k] = row[k]
      BY <2>2, <2>3, <2>7, <3>1
    <3>2. CASE WaitOut(k) \/ WindowCloses(k)
      <4>1. WaitOut(k)
        <5>1. ~WindowCloses(k)
          BY <1>1, <2>1 DEF WindowCloses, NoDoc
        <5> QED
          BY <3>2, <5>1
      <4>2. cache.rows[k] # None
        BY <1>1, <2>1, <4>1 DEF WaitOut, NoDoc
      <4>3. cache.rows[k] = k
        BY <4>2 DEF Whole, Caching
      <4> QED
        BY <2>3, <4>3 DEF Covered
    <3> QED
      BY <2>7, <3>1, <3>2, RowMoves
  <2>8. ASSUME hand'.pc \in Cutting PROVE Covered(hand.kid)'
    <3>1. CASE \E k \in Keys : StartCutOver(k)
      <4>1. PICK k \in Keys : StartCutOver(k)
        BY <3>1
      <4>2. hand'.kid = k /\ Covered(k)
        BY <2>2, <4>1 DEF StartCutOver
      <4> QED
        BY <2>1, <4>2 DEF Covered
    <3>2. CASE ~\E k \in Keys : StartCutOver(k)
      <4>1. hand.pc \in Cutting /\ hand'.kid = hand.kid
        <5>1. CASE RetireOld \/ KeepOld \/ Swap \/ DropNext
          BY <5>1, HandStep DEF RetireOld, KeepOld, Swap, DropNext, At, Pcs, Cutting, Reminting
        <5>2. CASE Remint
          <6>1. hand' # Idle
            BY <2>8, IdleType DEF Cutting, Reminting
          <6> QED
            BY <5>2, <6>1, HandStep DEF Remint, At, Pcs, Cutting, Reminting
        <5>3. ~(Publish \/ Crash \/ Begin)
          BY <2>8, IdleType DEF Publish, Crash, Begin, Idle, Cutting, Reminting
        <5>4. CASE hand' = hand
          BY <2>8, <5>4
        <5> QED
          BY <3>2, <5>1, <5>2, <5>3, <5>4, ReadySteps DEF WaitOut, WindowCloses, Retire, SignerReads, ReadListed, ReadActive, vars
      <4> QED
        BY <2>1, <2>2, <4>1 DEF Covered
    <3> QED
      BY <3>1, <3>2
  <2> QED
    BY <2>1, <2>2, <2>5, <2>6, <2>7, <2>8
<1> QED
  BY <1>2, <1>3

-----------------------------------------------------------------------------
(* The invariant and what follows from it.                                 *)

LEMMA InvInit == Init => IInv
BY BaseInit, ProvisioningInit DEF Init, IInv

LEMMA InvStep == IInv /\ [Next]_vars => IInv'
<1> SUFFICES ASSUME IInv, [Next]_vars PROVE IInv'
  OBVIOUS
<1>1. Base /\ Base'
  BY BaseStep DEF IInv
<1>2. CASE born = "unborn"
  <2>1. born' = "unborn" => Provisioning'
    BY <1>1, <1>2, ProvisioningStep DEF IInv
  <2>2. ASSUME born' = "whole" PROVE Whole'
    <3>1. Provisioned
      BY <1>1, <1>2, <2>2, UnbornSteps DEF StartMinting, PutPair, Mint, ListMinted, Crash, vars
    <3> QED
      BY <1>1, <1>2, <2>2, <3>1, BornWhole DEF IInv, Whole
  <2> QED
    BY <1>1, <2>1, <2>2 DEF IInv, Whole
<1>3. CASE born # "unborn"
  <2>1. born' = born
    BY <1>1, <1>3, ReadySteps
  <2>2. ASSUME born = "whole" PROVE Whole'
    <3>1. Whole
      BY <2>2 DEF IInv, Whole
    <3> QED
      BY <1>1, <1>3, <3>1, OwnHalvesStep, NamedStep, PlaceStep, SettlementStep, CachingStep DEF Whole
  <2> QED
    BY <1>1, <1>3, <2>1, <2>2 DEF IInv, Whole
<1> QED
  BY <1>2, <1>3

LEMMA TokensAreUsed ==
  ASSUME Base, NEW t \in Tokens
  PROVE  t \in Token /\ t.key \in Keys /\ t.kid \in Keys /\ Used(t.key)
<1>1. t \in signed \/ \E r \in Roles : t \in api[r]
  BY DEF Tokens
<1>2. t \in Token
  BY <1>1, Types
<1> QED
  BY <1>1, <1>2 DEF Token, Used

\* At every statement of cutOver, after a crash at any of them and in every
\* retry, the keys that signed tokens in use are among the published ones.
THEOREM PublishedKeys == Spec => []SignedIsPublished
<1>1. ASSUME IInv PROVE SignedIsPublished
  <2> SUFFICES ASSUME born = "whole", NEW t \in Tokens, row[t.key].status # "retired"
               PROVE  t.key \in Pems(Published)
    BY DEF SignedIsPublished
  <2>1. t.key \in Keys /\ Used(t.key)
    BY <1>1, TokensAreUsed DEF IInv
  <2>2. row[t.key].status # "absent" \/ t.key = secret.pub
    BY <1>1, <2>1 DEF IInv, Whole, Named
  <2>3. row[t.key].status \in Statuses
    BY <1>1, <2>1, Types DEF IInv, RowType
  <2>4. CASE t.key = secret.pub
    BY <2>1, <2>4, KeysAssumption DEF Pems, Published
  <2>5. CASE row[t.key].status \in {"next", "retiring"}
    <3>1. ListedRows[t.key] = t.key
      BY <1>1, <2>1, <2>5 DEF ListedRows, IInv, Whole, OwnHalves
    <3> QED
      BY <2>1, <3>1, KeysAssumption DEF Pems, Published
  <2> QED
    BY <2>2, <2>3, <2>4, <2>5 DEF Statuses
<1> QED
  BY <1>1, InvInit, InvStep, PTL DEF Spec

\* A cut-over that ends leaves the stored API keys verifiable by their kid,
\* whatever crashed before it.
THEOREM StoredVerify == Spec => []StoredKeysVerify
<1>1. ASSUME IInv PROVE StoredKeysVerify
  <2> SUFFICES ASSUME born = "whole", settled, NEW r \in Roles, NEW t \in api[r] PROVE ByKid(Published, t)
    BY DEF StoredKeysVerify
  <2>1. t.key = secret.kid /\ t.kid = secret.kid /\ secret.pub = secret.kid
    BY <1>1 DEF IInv, Whole, Settlement
  <2> QED
    BY <2>1 DEF ByKid, NamedBy, Published
<1> QED
  BY <1>1, InvInit, InvStep, PTL DEF Spec

\* put and replace never lose the private half of a key that signed something.
THEOREM PrivateKept == Spec => []PrivateHalfKept
<1>1. ASSUME IInv PROVE PrivateHalfKept
  BY <1>1, TokensAreUsed DEF IInv, Whole, Named, PrivateHalfKept
<1> QED
  BY <1>1, InvInit, InvStep, PTL DEF Spec

\* A document read while no cut-over crossed the reading verifies every token for as
\* long as a verifier that reads again (JWKS clients, gateway, context) holds it.
THEOREM CacheComplete == Spec => []CacheCovers
<1>1. ASSUME IInv PROVE CacheCovers
  <2> SUFFICES ASSUME born = "whole", cache.whole, ~cache.lasting, NEW t \in Tokens, row[t.key].status # "retired"
               PROVE  t.key \in Pems(cache) /\ (t.key = t.kid => ByKid(cache, t))
    BY DEF CacheCovers, Verifies
  <2>1. t.key \in Keys /\ Used(t.key)
    BY <1>1, TokensAreUsed DEF IInv
  <2>2. Covered(t.key) /\ cache.kid = cache.pub
    BY <1>1, <2>1 DEF IInv, Whole, Caching
  <2> QED
    BY <2>1, <2>2, KeysAssumption DEF Covered, Pems, ByKid, NamedBy
<1> QED
  BY <1>1, InvInit, InvStep, PTL DEF Spec
=============================================================================
