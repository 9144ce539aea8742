---------------------------- MODULE ReplayJournal ----------------------------
(***************************************************************************)
(* The durable reservation journal of src/idempotency-replay.mjs           *)
(* (idempotency-replay.json): its records, and what each operation makes   *)
(* of the records it read.  The modules that EXTEND this one add the       *)
(* process, the requests and the faults.                                   *)
(*                                                                         *)
(* A binding stands for what bindingFor computes from one request: the     *)
(* HMAC of the payment identifier (Key), of the signed authorization       *)
(* (Cred, absent for MPP and for a malformed nonce), and the fingerprint   *)
(* of method, URL, body, payer, terms and exact credential.  Digests are   *)
(* injective here, so the fingerprint is the binding itself.               *)
(***************************************************************************)
EXTENDS Integers, FiniteSets

CONSTANTS
    Bindings,    \* the request fingerprints clients send
    Key,         \* binding -> digest of the payment identifier
    Cred,        \* binding -> digest of the authorization, or NoCred
    NoCred,
    Dated,       \* the bindings whose validBefore is a finite number
    Until,       \* binding -> validUntilMs (meaningless outside Dated)
    X402,        \* the bindings on the x402 rail; the others are MPP
    Required,    \* the bindings whose path is in requiredReplayPaths
    Named,       \* the bindings with an explicit payment identifier
    Requests,    \* the HTTP requests or tool calls ever received
    NoRequest,
    Epochs,      \* the key generations an operator may deploy
    TTL,         \* ttlMs
    Grace,       \* the 60 seconds added to validUntilMs
    MaxEntries   \* maxEntries

ASSUME JournalAssumption ==
    /\ Dated \subseteq Bindings
    /\ X402 \subseteq Bindings
    /\ Until \in [Bindings -> Nat]
    /\ TTL \in Nat \ {0}
    /\ Grace \in Nat \ {0}
    /\ MaxEntries \in Nat \ {0}
    /\ NoRequest \notin Requests

\* "prepared" and "result" name the request whose response bytes are kept.
Records == [binding : Bindings, pending : BOOLEAN, attempted : BOOLEAN,
            expiresAt : Nat,
            prepared : Requests \cup {NoRequest},
            result : Requests \cup {NoRequest}]

Journals == [epoch : Epochs, recs : SUBSET Records]

-----------------------------------------------------------------------------
(* Reading the file. *)

ExpiresWithTtlOnly(b, t) == t + TTL                        \* mutant
ExpiresAt(b, t) ==
    IF b \in Dated /\ Until[b] + Grace > t + TTL
      THEN Until[b] + Grace ELSE t + TTL

Live(recs, t) == {rec \in recs : rec.expiresAt > t}

\* An unknown key generation is not an empty namespace.
Readable(file, e, t) == Live(file.recs, t) = {} \/ file.epoch = e

MatchesKeyOnly(b, rec) == Key[rec.binding] = Key[b]        \* mutant
MatchesItself(b, rec) == rec.binding = b                   \* mutant
Matches(b, rec) ==
    \/ Key[rec.binding] = Key[b]
    \/ Cred[b] # NoCred /\ Cred[rec.binding] = Cred[b]

Found(recs, b) == {rec \in recs : Matches(b, rec)}

\* Bindings whose records are found for one another (for the properties).
Related(b, c) == Key[b] = Key[c] \/ (Cred[b] # NoCred /\ Cred[b] = Cred[c])

\* Clients that reuse a payment identifier do so with validities at most
\* Grace apart.  Without it a late response can replace the reservation of
\* another credential (see MCReplayHttpShared.cfg).
ReuseWithinGrace ==
    \A b, c \in Dated : Key[b] = Key[c] => Until[c] <= Until[b] + Grace

PendingOf(recs, b) == {rec \in recs : rec.binding = b /\ rec.pending}

Fits(recs) == Cardinality(recs) <= MaxEntries

-----------------------------------------------------------------------------
(* What each operation writes back. *)

ReservationOf(b, t) ==
    [binding |-> b, pending |-> TRUE, attempted |-> FALSE,
     expiresAt |-> ExpiresAt(b, t), prepared |-> NoRequest,
     result |-> NoRequest]

CompletedOf(b, t, r) ==
    [binding |-> b, pending |-> FALSE, attempted |-> FALSE,
     expiresAt |-> ExpiresAt(b, t), prepared |-> NoRequest, result |-> r]

Reserved(recs, b, t) == recs \cup {ReservationOf(b, t)}

ReleasesNothing(recs, b) == recs                           \* mutant
Released(recs, b) == recs \ PendingOf(recs, b)

\* The possible-spend marker, on the pending reservation only.
MarksNothing(recs, b) == recs                              \* mutant
MarkedSpend(recs, b) ==
    (recs \ PendingOf(recs, b))
      \cup {[rec EXCEPT !.attempted = TRUE] : rec \in PendingOf(recs, b)}

\* The unqualified result bytes, kept before the settlement is dispatched.
PreparesNothing(recs, b, r) == recs                        \* mutant
Prepared(recs, b, r) ==
    (recs \ PendingOf(recs, b))
      \cup {[rec EXCEPT !.prepared = r] : rec \in PendingOf(recs, b)}

\* persistResponse: the completed record replaces whatever holds its key.
Retained(recs, b, t, r) ==
    {rec \in recs : Key[rec.binding] # Key[b]} \cup {CompletedOf(b, t, r)}

=============================================================================
