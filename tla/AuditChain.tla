---------------------------- MODULE AuditChain ----------------------------
(***************************************************************************)
(* The node's audit trail: AuditChain::append, drain and verify            *)
(* (src/eyeflow-svm-node/src/audit.rs), plus an environment that tampers   *)
(* with the chain once (in memory or on its way to central) without        *)
(* recomputing hashes.                                                     *)
(*                                                                         *)
(* SHA-256 is modelled as an injective constructor Hash(x) == [h |-> x]:   *)
(* two hashes are equal iff their inputs are.  An event body is its        *)
(* distinct event id (a UUID); a byte flip of a field is Flip(field),      *)
(* a value different from every field value the node produces.            *)
(***************************************************************************)
EXTENDS Integers, Sequences

CONSTANTS
    MaxEvents,   \* bound on events appended in a behaviour (UUIDs used)
    MaxTampers   \* bound on tampering steps in a behaviour

Hash(x) == [h |-> x]
Zero    == [zero |-> TRUE]          \* "0".repeat(64)
Flip(v) == [flipped |-> v]
NodeKey == [key |-> "node"]         \* verifying_key_hex of this node
Fields  == {"body", "prev", "self", "sig", "pk"}

VARIABLES
    chain,    \* the VecDeque<AuditEvent>
    nextId,   \* next Uuid::new_v4 (distinct per event)
    tampered, \* history: tampering steps applied to the current chain
    ntampers  \* tampering steps taken in the behaviour

vars == <<chain, nextId, tampered, ntampers>>

\* sha256_of(prev) hashes the whole serialized event: body, previous hash,
\* self hash, signature and public key
EventHash(ev) == Hash(ev)

\* sha256_str(body.to_string()): the body with previousEventHash, without
\* self_hash, signature and public_key_hex
BodyHash(body, prev) == Hash(<<body, prev>>)

\* linking to the previous event's self_hash instead of its full hash
PrevHashOfSelf == IF chain = <<>> THEN Zero ELSE chain[Len(chain)].self

\* previous_event_hash: the hash of the chain's back, zeros when empty
PrevHash == IF chain = <<>> THEN Zero ELSE EventHash(chain[Len(chain)])

\* the error position (0-based) verify reports, or -1 for Ok(len)
SelfBad(i) == chain[i].self # BodyHash(chain[i].body, chain[i].prev)
LinkBad(i) == i > 1 /\ chain[i].prev # EventHash(chain[i - 1])

\* verify skipping the self-hash check of the first event
VerifyFromSecond ==
    LET bad == {i \in 1 .. Len(chain) : (i > 1 /\ SelfBad(i)) \/ LinkBad(i)}
    IN  IF bad = {} THEN -1 ELSE (CHOOSE i \in bad : \A j \in bad : i <= j) - 1

\* verify reporting the 1-based position of the first bad event
VerifyOneBased ==
    LET bad == {i \in 1 .. Len(chain) : SelfBad(i) \/ LinkBad(i)}
    IN  IF bad = {} THEN -1 ELSE CHOOSE i \in bad : \A j \in bad : i <= j

\* AuditChain::verify: the first event whose self hash or link is wrong
Verify ==
    LET bad == {i \in 1 .. Len(chain) : SelfBad(i) \/ LinkBad(i)}
    IN  IF bad = {} THEN -1 ELSE (CHOOSE i \in bad : \A j \in bad : i <= j) - 1

-----------------------------------------------------------------------------
Init ==
    /\ chain = <<>>
    /\ nextId = 1
    /\ tampered = <<>>
    /\ ntampers = 0

\* AuditChain::append (Append names the Sequences operator): link to the
\* back, hash the body, sign the self hash, push_back
AppendEvent ==
    /\ nextId <= MaxEvents
    /\ LET body == [id |-> nextId]
           prev == PrevHash
           self == BodyHash(body, prev)
       IN  chain' = Append(chain, [body |-> body, prev |-> prev, self |-> self,
                                   sig |-> [signed |-> self], pk |-> NodeKey])
    /\ nextId' = nextId + 1
    /\ UNCHANGED <<tampered, ntampers>>

\* AuditChain::drain: hand every event to the result, leave the chain empty
Drain ==
    /\ chain # <<>>
    /\ chain' = <<>>
    /\ tampered' = <<>>
    /\ UNCHANGED <<nextId, ntampers>>

\* Environment: flip a byte of one field of one event
TamperField ==
    /\ ntampers < MaxTampers
    /\ \E i \in 1 .. Len(chain), f \in Fields :
         /\ chain' = [chain EXCEPT ![i][f] = Flip(@)]
         /\ tampered' = Append(tampered, [kind |-> "field", pos |-> i, field |-> f])
    /\ ntampers' = ntampers + 1
    /\ UNCHANGED nextId

\* Environment: delete one event
TamperDelete ==
    /\ ntampers < MaxTampers
    /\ \E i \in 1 .. Len(chain) :
         /\ chain' = SubSeq(chain, 1, i - 1) \o SubSeq(chain, i + 1, Len(chain))
         /\ tampered' = Append(tampered, [kind |-> "delete", pos |-> i, field |-> "none"])
    /\ ntampers' = ntampers + 1
    /\ UNCHANGED nextId

\* Environment: swap two adjacent events
TamperSwap ==
    /\ ntampers < MaxTampers
    /\ \E i \in 1 .. Len(chain) - 1 :
         /\ chain' = [chain EXCEPT ![i] = chain[i + 1], ![i + 1] = chain[i]]
         /\ tampered' = Append(tampered, [kind |-> "swap", pos |-> i, field |-> "none"])
    /\ ntampers' = ntampers + 1
    /\ UNCHANGED nextId

Next == AppendEvent \/ Drain \/ TamperField \/ TamperDelete \/ TamperSwap

Spec == Init /\ [][Next]_vars

-----------------------------------------------------------------------------
(***************************************************************************)
(* Properties                                                              *)
(***************************************************************************)
\* Type invariant: events are well-formed and verify's answer is a position
\* of the chain or Ok.
TypeOK ==
    /\ nextId \in 1 .. MaxEvents + 1
    /\ ntampers \in 0 .. MaxTampers
    /\ Len(chain) <= MaxEvents
    /\ \A i \in 1 .. Len(chain) : DOMAIN chain[i] = Fields
    /\ Verify \in -1 .. Len(chain) - 1

\* Spec 8 law 1: a chain built by append alone verifies, including a chain
\* restarted by drain (audit.rs 87-156 build what verify 169-203 checks).
IntactVerifies ==
    tampered = <<>> => Verify = -1

\* Spec 8 law 1: flipping a byte of what an event's self hash covers (its
\* body or previous hash), or of the self hash, makes verify fail at that
\* event's position, whatever was appended after it.
FieldTamperPinpointed ==
    ( /\ Len(tampered) = 1 /\ tampered[1].kind = "field"
      /\ tampered[1].field \in {"body", "prev", "self"} )
    => Verify = tampered[1].pos - 1

\* Spec 8 law 1 and the doc comment of audit.rs: any tampering with a
\* chain (a flipped byte, a deleted or a reordered event) that is still
\* in memory makes verify fail.
TamperDetected ==
    tampered # <<>> => Verify # -1
=============================================================================
