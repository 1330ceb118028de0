---------------------------- MODULE SigningKeys -----------------------------
(***************************************************************************)
(* The signing keys of one project: minted by the provisioning saga,       *)
(* rotated by an operator, read by every service that signs or verifies.   *)
(*                                                                         *)
(* A keypair, its private half, its public half and its kid are one member *)
(* of Keys; what the code can mix up is which half is stored under which   *)
(* name.  The signing key is three rows of project_secrets (secret), the   *)
(* private halves of other keys are rows of their own (kept), and          *)
(* project_signing_keys lists what is published without signing (row).     *)
(* Each statement is a step, because the code runs each in a transaction   *)
(* of its own, and a crash may fall between any two of them.               *)
(*                                                                         *)
(* One hand at a time mints or rotates (a saga step, then an operator);    *)
(* signers and verifiers read the same rows meanwhile, one query each.     *)
(* The emergency path (force), which gives up on every outstanding token,  *)
(* is not modelled.                                                        *)
(***************************************************************************)
EXTENDS FiniteSets, Integers

CONSTANTS Keys,       \* the keypairs that may be generated
          None,       \* no key: an absent secret, or nothing read yet
          MaxFaults   \* how many crashes of the hand are explored

ASSUME KeysAssumption == None \notin Keys /\ MaxFaults \in Nat

Roles == {"anon", "service_role"}
Maybe == Keys \cup {None}
\* A token carries the key that signed it and the kid its header names.
Token == [key : Keys, kid : Keys]
Statuses == {"absent", "next", "retiring", "retired"}

VARIABLES
  secret,    \* JWT_PRIVATE_KEY, JWT_PUBLIC_KEY and JWT_KID: whose half each row holds
  kept,      \* JWT_PRIVATE_KEY_<kid>: whose private half is stored under that kid
  row,       \* project_signing_keys: status, public half, and whether its wait is over
  api,       \* the stored anon and service_role tokens, as sets of at most one token
  minted,    \* the roles with a row in project_api_keys
  born,      \* "unborn" until generate_api_keys is done, then "whole" or "mixed"
  settled,   \* no cut-over has begun, or the last one that began has finished
  hand,      \* the saga step or operator at work
  signer,    \* a sign-in request that reads the signing key
  signed,    \* the session tokens handed out
  load,      \* a verifier that reads the published keys: gateway, JWKS, context, PostgREST
  cache,     \* the document some verifier still holds
  faults

vars == <<secret, kept, row, api, minted, born, settled, hand, signer, signed, load, cache, faults>>

Absent == [status |-> "absent", pem |-> None, ripe |-> FALSE]
NoSecret == [priv |-> None, pub |-> None, kid |-> None]
Idle == [pc |-> "idle", key |-> None, kid |-> None, old |-> NoSecret]
NoRows == [k \in Keys |-> None]
\* A JWKS: the active entry and the listed ones.  Not part of the document are `whole`,
\* that no cut-over crossed the reading, and `lasting`, that PostgREST was started with it.
NoDoc == [kid |-> None, pub |-> None, rows |-> NoRows, whole |-> FALSE, lasting |-> FALSE]
NotRead == [kid |-> None, pub |-> None, rows |-> NoRows, listed |-> FALSE]
Asleep == [key |-> None, kid |-> None]

Init ==
  /\ secret = NoSecret
  /\ kept = [k \in Keys |-> None]
  /\ row = [k \in Keys |-> Absent]
  /\ api = [r \in Roles |-> {}]
  /\ minted = {}
  /\ born = "unborn"
  /\ settled = FALSE
  /\ hand = Idle
  /\ signer = Asleep
  /\ signed = {}
  /\ load = NotRead
  /\ cache = NoDoc
  /\ faults = 0

-----------------------------------------------------------------------------
(* What a verifier can be told.                                            *)

\* The rows every reader selects: next and retiring, never retired.
ListedRows == [k \in Keys |-> IF row[k].status \in {"next", "retiring"} THEN row[k].pem ELSE None]

\* Verification against every published key, whatever the header says: the
\* auth endpoints.
Pems(doc) == ({doc.pub} \cup {doc.rows[k] : k \in Keys}) \ {None}

\* Verification against the first entry with the token's kid: the gateway, and
\* any verifier that selects from a JWKS.  The active entry comes first.
NamedBy(doc, kid) == IF doc.kid = kid THEN doc.pub ELSE doc.rows[kid]
ByKid(doc, t) == NamedBy(doc, t.kid) = t.key

Published == [kid |-> secret.kid, pub |-> secret.pub, rows |-> ListedRows]

\* Every token in circulation: session tokens and the stored API keys.
Tokens == signed \cup UNION {api[r] : r \in Roles}

\* A key no secret, row or request has ever held.
Fresh == {k \in Keys : /\ kept[k] = None
                       /\ row[k].status = "absent"
                       /\ k \notin {secret.priv, secret.pub, secret.kid}
                       /\ \A t \in Tokens : k \notin {t.key, t.kid}}

Becomes(pc) == hand' = [hand EXCEPT !.pc = pc]
At(pc) == hand.pc = pc

-----------------------------------------------------------------------------
(* The saga step generate_api_keys.                                        *)

\* Both API keys present: a retry of a run that had finished.  One of them, or
\* neither: sign with the stored pair, or generate one when the private half or
\* the kid is missing.
StartMinting ==
  /\ At("idle") /\ born = "unborn" /\ minted # Roles
  /\ IF secret.priv = None \/ secret.kid = None
     THEN \E k \in Fresh : hand' = [Idle EXCEPT !.pc = "put private", !.key = k, !.kid = k]
     ELSE hand' = [Idle EXCEPT !.pc = "mint", !.key = secret.priv, !.kid = secret.kid]
  /\ UNCHANGED <<secret, kept, row, api, minted, born, settled, signer, signed, load, cache, faults>>

\* SecretStore.put creates: a value already there stays.
PutIfAbsent(held, key) == IF held = None THEN key ELSE held

PutPair ==
  /\ \/ /\ At("put private") /\ Becomes("put public")
        /\ secret' = [secret EXCEPT !.priv = PutIfAbsent(@, hand.key)]
     \/ /\ At("put public") /\ Becomes("put kid")
        /\ secret' = [secret EXCEPT !.pub = PutIfAbsent(@, hand.key)]
     \/ /\ At("put kid") /\ Becomes("mint")
        /\ secret' = [secret EXCEPT !.kid = PutIfAbsent(@, hand.kid)]
  /\ UNCHANGED <<kept, row, api, minted, born, settled, signer, signed, load, cache, faults>>

\* The roles in the code's order, each stored and then listed; one that is
\* listed is left alone, and one that is only stored keeps its first token.
NextRole(done) == IF "anon" \notin done THEN "anon" ELSE "service_role"

Mint ==
  /\ At("mint") /\ minted # Roles
  /\ LET r == NextRole(minted)
     IN api' = [api EXCEPT ![r] = IF @ = {} THEN {[key |-> hand.key, kid |-> hand.kid]} ELSE @]
  /\ Becomes("list")
  /\ UNCHANGED <<secret, kept, row, minted, born, settled, signer, signed, load, cache, faults>>

ListMinted ==
  /\ At("list")
  /\ minted' = minted \cup {NextRole(minted)}
  /\ Becomes("mint")
  /\ UNCHANGED <<secret, kept, row, api, born, settled, signer, signed, load, cache, faults>>

OnePair == secret.priv = secret.pub /\ secret.pub = secret.kid

\* The step is done and the saga goes on to a ready project.  A retry that finds
\* both keys listed gets here without the loop.
Provisioned ==
  /\ At("mint") \/ At("idle")
  /\ born = "unborn" /\ minted = Roles
  /\ born' = IF OnePair THEN "whole" ELSE "mixed"
  /\ settled' = TRUE
  /\ hand' = Idle
  /\ UNCHANGED <<secret, kept, row, api, minted, signer, signed, load, cache, faults>>

Ready == born # "unborn"

-----------------------------------------------------------------------------
(* The rotation runbook.                                                   *)

\* beginRotation: a waiting `next` key is returned as it is; otherwise a pair is
\* generated and its private half stored before the public one is published.
Begin ==
  /\ At("idle") /\ Ready
  /\ \A k \in Keys : row[k].status # "next"
  /\ \E k \in Fresh : /\ kept' = [kept EXCEPT ![k] = k]
                      /\ hand' = [Idle EXCEPT !.pc = "publish", !.key = k]
  /\ UNCHANGED <<secret, row, api, minted, born, settled, signer, signed, load, cache, faults>>

Publish ==
  /\ At("publish")
  /\ row' = [row EXCEPT ![hand.key] = [status |-> "next", pem |-> hand.key, ripe |-> FALSE]]
  /\ hand' = Idle
  /\ UNCHANGED <<secret, kept, api, minted, born, settled, signer, signed, load, cache, faults>>

Quiet == hand = Idle /\ signer = Asleep /\ load = NotRead

\* Ten minutes after publication: every request of before is over, and every document
\* read before has expired where it is refreshed (JWKS clients, gateway, context).  The
\* one PostgREST was started with stays what it is: nothing reloads it (OQ-112).
WaitOut(k) ==
  /\ Quiet
  /\ row[k].status = "next" /\ ~row[k].ripe
  /\ row' = [row EXCEPT ![k].ripe = TRUE]
  /\ cache' = IF cache.rows[k] = None /\ ~cache.lasting THEN NoDoc ELSE cache
  /\ UNCHANGED <<secret, kept, api, minted, born, settled, hand, signer, signed, load, faults>>

\* Mutant: the wait for caches is not enforced.
StartCutOverEarly(k) ==
  /\ At("idle") /\ Ready
  /\ row[k].status = "next"
  /\ kept[k] # None
  /\ hand' = [pc |-> "retire old", key |-> kept[k], kid |-> k, old |-> secret]
  /\ UNCHANGED <<secret, kept, row, api, minted, born, settled, signer, signed, load, cache, faults>>

\* cutOver reads the waiting key, its private half, and the key it replaces.
StartCutOver(k) ==
  /\ At("idle") /\ Ready
  /\ row[k].status = "next" /\ row[k].ripe
  /\ kept[k] # None
  /\ hand' = [pc |-> "retire old", key |-> kept[k], kid |-> k, old |-> secret]
  /\ UNCHANGED <<secret, kept, row, api, minted, born, settled, signer, signed, load, cache, faults>>

\* Mutant: an UPDATE, where the key that was signing has no row yet.
RetireOldUpdates ==
  /\ At("retire old") /\ Becomes("keep old")
  /\ row' = [row EXCEPT ![hand.old.kid] =
               IF @.status = "absent" THEN @ ELSE [@ EXCEPT !.status = "retiring", !.ripe = FALSE]]
  /\ settled' = FALSE
  /\ UNCHANGED <<secret, kept, api, minted, born, signer, signed, load, cache, faults>>

\* The old key is published as retiring before the new one signs.  An insert
\* that meets a row sets its status and its window, and leaves its public half.
RetireOld ==
  /\ At("retire old") /\ Becomes("keep old")
  /\ row' = [row EXCEPT ![hand.old.kid] =
               [status |-> "retiring", ripe |-> FALSE,
                pem |-> IF @.status = "absent" THEN hand.old.pub ELSE @.pem]]
  /\ settled' = FALSE
  /\ UNCHANGED <<secret, kept, api, minted, born, signer, signed, load, cache, faults>>

\* Mutant: `replace` where the code has `put`.
KeepOldReplaces ==
  /\ At("keep old") /\ Becomes("swap private")
  /\ kept' = [kept EXCEPT ![hand.old.kid] = hand.old.priv]
  /\ UNCHANGED <<secret, row, api, minted, born, settled, signer, signed, load, cache, faults>>

KeepOld ==
  /\ At("keep old") /\ Becomes("swap private")
  /\ kept' = [kept EXCEPT ![hand.old.kid] = PutIfAbsent(@, hand.old.priv)]
  /\ UNCHANGED <<secret, row, api, minted, born, settled, signer, signed, load, cache, faults>>

\* Three `replace` calls, three transactions.  The public half is the row's.
Swap ==
  /\ \/ /\ At("swap private") /\ Becomes("swap public")
        /\ secret' = [secret EXCEPT !.priv = hand.key]
     \/ /\ At("swap public") /\ Becomes("swap kid")
        /\ secret' = [secret EXCEPT !.pub = hand.kid]
     \/ /\ At("swap kid") /\ Becomes("drop next")
        /\ secret' = [secret EXCEPT !.kid = hand.kid]
  /\ UNCHANGED <<kept, row, api, minted, born, settled, signer, signed, load, cache, faults>>

DropNext ==
  /\ At("drop next") /\ Becomes("remint anon")
  /\ row' = [row EXCEPT ![hand.kid] = Absent]
  /\ UNCHANGED <<secret, kept, api, minted, born, settled, signer, signed, load, cache, faults>>

\* Mutant: the new token is stored beside the old one.
RemintAdds ==
  /\ \/ /\ At("remint anon") /\ Becomes("remint service_role")
        /\ api' = [api EXCEPT !["anon"] = @ \cup {[key |-> hand.key, kid |-> hand.kid]}]
        /\ UNCHANGED settled
     \/ /\ At("remint service_role") /\ hand' = Idle
        /\ api' = [api EXCEPT !["service_role"] = @ \cup {[key |-> hand.key, kid |-> hand.kid]}]
        /\ settled' = TRUE
  /\ UNCHANGED <<secret, kept, row, minted, born, signer, signed, load, cache, faults>>

\* Mutant: `put` where the code has `replace`, which changes nothing.
RemintPuts ==
  /\ \/ /\ At("remint anon") /\ Becomes("remint service_role")
        /\ UNCHANGED settled
     \/ /\ At("remint service_role") /\ hand' = Idle
        /\ settled' = TRUE
  /\ UNCHANGED <<secret, kept, row, api, minted, born, signer, signed, load, cache, faults>>

\* remintApiKeys: the stored tokens are replaced, one after the other.
Remint ==
  /\ \/ /\ At("remint anon") /\ Becomes("remint service_role")
        /\ api' = [api EXCEPT !["anon"] = {[key |-> hand.key, kid |-> hand.kid]}]
        /\ UNCHANGED settled
     \/ /\ At("remint service_role") /\ hand' = Idle
        /\ api' = [api EXCEPT !["service_role"] = {[key |-> hand.key, kid |-> hand.kid]}]
        /\ settled' = TRUE
  /\ UNCHANGED <<secret, kept, row, minted, born, signer, signed, load, cache, faults>>

\* Thirty days: no request that was running then still is, and nothing refreshed is cached.
WindowCloses(k) ==
  /\ Quiet
  /\ row[k].status = "retiring" /\ ~row[k].ripe
  /\ row' = [row EXCEPT ![k].ripe = TRUE]
  /\ cache' = IF cache.lasting THEN cache ELSE NoDoc
  /\ UNCHANGED <<secret, kept, api, minted, born, settled, hand, signer, signed, load, faults>>

\* retire: by the daily scan once the window has closed, or by the operator who
\* abandons a key that is still waiting.
Retire(k) ==
  /\ \/ row[k].status = "retiring" /\ row[k].ripe
     \/ row[k].status = "next" /\ At("idle")
  /\ row' = [row EXCEPT ![k].status = "retired"]
  /\ UNCHANGED <<secret, kept, api, minted, born, settled, hand, signer, signed, load, cache, faults>>

\* The process that mints or rotates stops between two statements.
Crash ==
  /\ ~At("idle") /\ faults < MaxFaults
  /\ hand' = Idle
  /\ faults' = faults + 1
  /\ UNCHANGED <<secret, kept, row, api, minted, born, settled, signer, signed, load, cache>>

-----------------------------------------------------------------------------
(* The readers: parallel queries, no transaction around them.              *)

\* The second reading is followed by the signature and the answer.
SignerReads ==
  /\ Ready
  /\ \E now \in {[signer EXCEPT !.key = secret.priv], [signer EXCEPT !.kid = secret.kid]} :
       /\ \A f \in DOMAIN signer : signer[f] # None => now[f] = signer[f]
       /\ IF None \in {now.key, now.kid}
          THEN signer' = now /\ UNCHANGED signed
          ELSE signer' = Asleep /\ signed' = signed \cup {now}
  /\ UNCHANGED <<secret, kept, row, api, minted, born, settled, hand, load, cache, faults>>

\* A verifier's three queries: the gateway asks for the listed keys first, the JWKS
\* endpoints and the saga step start_postgrest for the active key first, the context for
\* all at once.  The last answer completes the document, which replaces the one held.  It
\* is whole when it is what the database still says and its active entry is one key's.
Take(now) ==
  IF ~now.listed \/ None \in {now.pub, now.kid}
  THEN load' = now /\ UNCHANGED cache
  ELSE /\ load' = NotRead
       /\ \E lasting \in BOOLEAN :
            cache' = [kid |-> now.kid, pub |-> now.pub, rows |-> now.rows, lasting |-> lasting,
                      whole |-> Published = [kid |-> now.kid, pub |-> now.pub, rows |-> now.rows]
                                /\ secret.pub = secret.kid]

ReadListed ==
  /\ Ready
  /\ ~load.listed
  /\ Take([load EXCEPT !.rows = ListedRows, !.listed = TRUE])
  /\ UNCHANGED <<secret, kept, row, api, minted, born, settled, hand, signer, signed, faults>>

ReadActive ==
  /\ Ready
  /\ \/ load.pub = None /\ Take([load EXCEPT !.pub = secret.pub])
     \/ load.kid = None /\ Take([load EXCEPT !.kid = secret.kid])
  /\ UNCHANGED <<secret, kept, row, api, minted, born, settled, hand, signer, signed, faults>>

Next ==
  \/ StartMinting \/ PutPair \/ Mint \/ ListMinted \/ Provisioned
  \/ Begin \/ Publish \/ RetireOld \/ KeepOld \/ Swap \/ DropNext \/ Remint
  \/ \E k \in Keys : WaitOut(k) \/ StartCutOver(k) \/ WindowCloses(k) \/ Retire(k)
  \/ Crash
  \/ SignerReads \/ ReadListed \/ ReadActive

Spec == Init /\ [][Next]_vars

-----------------------------------------------------------------------------
(* Properties.                                                             *)

Pcs == {"idle", "put private", "put public", "put kid", "mint", "list", "publish", "retire old",
        "keep old", "swap private", "swap public", "swap kid", "drop next", "remint anon",
        "remint service_role"}
Triple == [priv : Maybe, pub : Maybe, kid : Maybe]
Listing == [Keys -> Maybe]

\* The variables stay in their types, and no role ever has two stored tokens.
TypeOK ==
  /\ secret \in Triple
  /\ kept \in [Keys -> Maybe]
  /\ row \in [Keys -> [status : Statuses, pem : Maybe, ripe : BOOLEAN]]
  /\ api \in [Roles -> SUBSET Token]
  /\ \A r \in Roles : \A t, u \in api[r] : t = u
  /\ minted \subseteq Roles
  /\ born \in {"unborn", "whole", "mixed"}
  /\ settled \in BOOLEAN
  /\ hand \in [pc : Pcs, key : Maybe, kid : Maybe, old : Triple]
  /\ signer \in [key : Maybe, kid : Maybe]
  /\ signed \subseteq Token
  /\ load \in [kid : Maybe, pub : Maybe, rows : Listing, listed : BOOLEAN]
  /\ cache \in [kid : Maybe, pub : Maybe, rows : Listing, whole : BOOLEAN, lasting : BOOLEAN]
  /\ faults \in 0..MaxFaults

\* A key that signed a token still in use is published, at every statement of a
\* cut-over, after a crash at any of them and during any retry: "the old key
\* becomes `retiring` before the new one starts signing", and the new one was
\* published before.  Requests that read half of a cut-over are included.
SignedIsPublished ==
  born = "whole" => \A t \in Tokens : row[t.key].status # "retired" => t.key \in Pems(Published)

\* Whatever crashed before it, a cut-over that runs to its end leaves the stored
\* API keys verifiable by their kid, and no later retirement takes that away.
StoredKeysVerify ==
  born = "whole" /\ settled => \A r \in Roles : \A t \in api[r] : ByKid(Published, t)

\* The private half of every key that signed something stays stored, under its
\* own name or as the signing key, and never another key's in its place: "so a
\* retired key is still auditable".
PrivateHalfKept ==
  born = "whole" => \A t \in Tokens : \/ kept[t.key] = t.key
                                      \/ kept[t.key] = None /\ secret.priv = t.key

\* What publishing ten minutes ahead is for: a document read while no cut-over
\* crossed the reading verifies every token in use as long as it is cached,
\* those signed by a key cut over to since included; by kid too when the token
\* is labelled with the key that signed it.  It is not true of a document that
\* a cut-over crossed, which may name the new key twice and miss the old one, nor
\* of the one PostgREST was created with, which no rotation replaces.
Verifies(doc) ==
  \A t \in Tokens : row[t.key].status # "retired" =>
    t.key \in Pems(doc) /\ (t.key = t.kid => ByKid(doc, t))
CacheCovers == born = "whole" /\ cache.whole /\ ~cache.lasting => Verifies(cache)

\* Read against the code this one fails.  "The keypair is generated once and
\* kept; a retry after a partial run must sign with the same key": a crash
\* between the puts makes the retry generate a second pair, whose private half
\* (or both halves) are not stored but whose kid is.
MintedIsOnePair == born # "mixed"

=============================================================================
