-------------------------------- MODULE Records --------------------------------
(***************************************************************************)
(* Signed records (record/*.go): their builders, Sign, Refresh and Verify, *)
(* the tombstones that withdraw them, the slots they are stored under, and *)
(* the authorization a procedure advertisement carries; with the record    *)
(* calls of a link (stationlink/dht.go) on the station's store.            *)
(*                                                                         *)
(* A payload is the set of the fields a slot or a signer is read from.  A  *)
(* record's version, key and signature are left out: what is wrong with    *)
(* one, as built or on its way, is its fault.  One key signs every record, *)
(* so the key id that a station's slot adds to the storage key tells none  *)
(* of them apart.                                                          *)
(***************************************************************************)
EXTENDS Checks, Integers

CONSTANTS
    ClockTolerance,   \* ClockToleranceMs
    LifetimeMax,      \* lifetimeClassMaxMs: the maximum of each class
    DefaultTTL,       \* defaultTTLMs
    AskedTTL,         \* the lifetimes builders are asked for, 0 for the default
    BuildFault,       \* what may be wrong with a record as built
    GrantFault,       \* what may be wrong with an advertisement's authorization
    WireFault,        \* what may be wrong with a record as read
    MaxRecordTime     \* bound of the model on the clock

Minutes5 == 1
Minutes30 == 2
Hours6 == 3
Hours48 == 4
Days7 == 5
Days30 == 6

ASSUME RecordTimes == /\ ClockTolerance \in Nat \ {0} /\ DefaultTTL \in Nat /\ AskedTTL \subseteq Nat
                      /\ MaxRecordTime \in Nat
                      /\ LifetimeMax \in [Minutes5..Days30 -> Nat \ {0}]

VARIABLES
    rclock,   \* the nodes' clock, which may be stepped
    signed,   \* the records signed
    store,    \* the station's store, one record to a slot
    answer    \* what the last call of a link gave: "none", an error, or "dropped" for a list short of a record

rvars == <<rclock, signed, store, answer>>

RInit == rclock = 0 /\ signed = {} /\ store = {} /\ answer = "none"

\* The types, a domain type once without and once with a subject.
RecordType == {"node_record", "realm_directory", "realm_stations", "endorsement", "advertisement", "seed_list",
               "parameter", "trust_list", "attestation", "announcement", "endpoint", "authorization", "directory",
               "delegation", "app", "domain", "domain_subject"}

typeLifetimeClass(type) ==
    CASE type \in {"node_record", "announcement"} -> Hours48
      [] type \in {"advertisement", "endpoint"} -> Minutes5
      [] type \in {"realm_stations", "directory"} -> Hours6
      [] type \in {"delegation", "app", "authorization"} -> Minutes30
      [] type \in {"endorsement", "realm_directory", "seed_list", "parameter", "trust_list", "attestation"} -> Days30
      [] type \in {"domain", "domain_subject"} -> Days7

\* The payload field that names the signer, of the types that have one.
namedSigner(type) ==
    CASE type = "node_record" -> {"node_id"}
      [] type = "advertisement" -> {"advertiser_node"}
      [] type = "announcement" -> {"announcer_node"}
      [] type \in {"delegation", "app"} -> {"org_key"}
      [] OTHER -> {}

\* What a storage key is derived from; "signer" is the key id of the signer.
slotOfType(type) ==
    CASE type \in {"node_record", "seed_list", "trust_list", "endpoint", "domain"} -> {"signer"}
      [] type \in {"realm_directory", "realm_stations"} -> {"realm_id"}
      [] type = "endorsement" -> {"realm_id", "member_node"}
      [] type = "advertisement" -> {"realm_id", "procedure"}
      [] type = "parameter" -> {"signer", "param_name"}
      [] type = "attestation" -> {"station_id"}
      [] type = "announcement" -> {"mcid"}
      [] type = "directory" -> {"realm_id", "org_name"}
      [] type = "delegation" -> {"signer", "advertiser"}
      [] type = "authorization" -> {"realm_id", "station_node"}
      [] type = "app" -> {"realm_id", "org_name", "app_name"}
      [] type = "domain_subject" -> {"signer", "subject"}

\* slotFieldNames and slotFields: the fields a tombstone repeats.
slotFieldNames(type) ==
    CASE type \in {"realm_directory", "realm_stations"} -> {"realm_id"}
      [] type = "endorsement" -> {"realm_id", "member_node"}
      [] type = "advertisement" -> {"realm_id", "procedure"}
      [] type = "parameter" -> {"param_name"}
      [] type = "attestation" -> {"station_id"}
      [] type = "announcement" -> {"mcid"}
      [] type = "directory" -> {"realm_id", "org_name"}
      [] type = "delegation" -> {"advertiser"}
      [] type = "app" -> {"realm_id", "org_name", "app_name"}
      [] type = "authorization" -> {"realm_id", "station_node"}
      [] type = "domain_subject" -> {"subject"}
      [] OTHER -> {}

\* The payload the type's builder makes, as far as it is read here.
PayloadOf(type) == (slotOfType(type) \ {"signer"}) \union namedSigner(type)

\* defaultTTL and unsigned: a record created now.
unsigned(type, ttl, fault) ==
    LET row == LifetimeMax[typeLifetimeClass(type)]
        default == IF row < DefaultTTL THEN row ELSE DefaultTTL
    IN  [type |-> type, of |-> type, created |-> rclock,
         expires |-> rclock + (IF ttl = 0 THEN default ELSE ttl),
         payload |-> PayloadOf(type), fault |-> fault, namespace |-> "none", by |-> <<>>]
-----------------------------------------------------------------------------
\* Mutant: a tombstone lives no longer than its row.
tombstoneMarginNone(type) == 0

\* tombstoneMarginMs: a tombstone may live past the row it names.
tombstoneMargin(type) == IF type = "tombstone" THEN 2 * ClockTolerance ELSE 0

\* lifetime: against the row the record names, which ownRow holds to be its own.
lifetimeFault(r) == FirstFault(<<
    <<r.expires <= r.created, "lifetime_reversed">>,
    <<r.fault = "class_unknown", "lifetime_class_unknown">>,
    <<r.expires - r.created > LifetimeMax[typeLifetimeClass(r.of)] + tombstoneMargin(r.type), "lifetime_too_long">> >>)

\* readerKnows: the type and the schema.
readerKnows(r) == FirstFault(<<
    <<r.fault \in {"type_unknown", "type_unplaced"}, "type_unknown">>,
    <<r.fault = "schema", "schema_unsupported">> >>)

\* payloadChecks: no subject on a built-in type; the type's fields, and of a
\* tombstone exactly the slot fields of what it withdraws; a known content id.
payloadChecks(r) == FirstFault(<<
    <<r.fault \in {"subject", "payload"}, "malformed">>,
    <<IF r.type = "tombstone" THEN r.payload # slotFieldNames(r.of) ELSE r.payload # PayloadOf(r.type), "malformed">>,
    <<r.fault = "mcid_tag" /\ r.type = "announcement", "mcid_tag_unknown">> >>)

\* A payload that names another signer, on the types that name one.
NamesAnother(r) == r.fault = "signer" /\ r.type # "tombstone" /\ namedSigner(r.type) # {}

\* Sign: the key's purpose, the lifetime, the signer it names, then what a
\* verifier would refuse, and the size.
Sign(r) == FirstFault(<<
    <<r.fault = "purpose", "key_purpose_mismatch">>,
    <<lifetimeFault(r) # "none", lifetimeFault(r)>>,
    <<NamesAnother(r), "key_id_mismatch">>,
    <<r.fault = "tbs" \/ readerKnows(r) # "none" \/ payloadChecks(r) # "none", "malformed">>,
    <<r.fault = "size", "record_too_large">> >>)

\* StorageKey: the slot of the record, or of what a tombstone withdraws.
StorageKey(r) == [of |-> r.of, slot |-> slotOfType(r.of) \intersect (r.payload \union {"signer"})]

\* slotReader: every field the storage key is derived from can be read.
HasSlot(r) == slotOfType(r.of) \subseteq r.payload \union {"signer"}

\* custodianSlot: a type with no slot of its own is placed by its subject.
custodianSlot(r) == FirstFault(<<
    <<r.fault = "type_unplaced", "subject_missing">>,
    <<r.fault # "type_unknown" /\ ~HasSlot(r), "malformed">> >>)

\* clock: within the tolerance of the record's period.
clockFault(r, now) == FirstFault(<<
    <<r.created > now + ClockTolerance, "not_yet_valid">>,
    <<r.expires + ClockTolerance < now, "expired">> >>)

\* custodianChecks.
custodianChecks(r, now) == FirstFault(<<
    <<r.fault = "size", "record_too_large">>,
    <<r.fault = "object", "malformed">>,
    <<r.fault = "alg", "object_alg_unsupported">>,
    <<r.fault = "signature", "object_signature_invalid">>,
    <<r.fault = "envelope", "malformed">>,
    <<clockFault(r, now) # "none", clockFault(r, now)>>,
    <<lifetimeFault(r) # "none", lifetimeFault(r)>>,
    <<r.fault = "class", "lifetime_class_mismatch">>,
    <<custodianSlot(r) # "none", custodianSlot(r)>> >>)

\* Verify: a custodian's checks, then a reader's own.
Verify(r, now) == FirstFault(<<
    <<custodianChecks(r, now) # "none", custodianChecks(r, now)>>,
    <<readerKnows(r) # "none", readerKnows(r)>>,
    <<r.fault = "critical_ext", "extension_unsupported">>,
    <<payloadChecks(r) # "none", payloadChecks(r)>>,
    <<NamesAnother(r), "key_id_mismatch">> >>)

\* Mutant: the delegation alone bounds the advertisement.
AuthorizedTillDelegation(directory, delegation) == delegation.expires

\* delegationPath: how long an authorization lasts.
AuthorizedTill(directory, delegation) ==
    IF directory.expires < delegation.expires THEN directory.expires ELSE delegation.expires

\* delegationPath: the org directory, then the delegation, then their time.
delegationPath(r, now) ==
    LET directory == r.by[1]
        delegation == r.by[2]
    IN  FirstFault(<<
            <<r.fault = "no_realm_key", "no_realm_key">>,
            <<Verify(directory, now) # "none", "org_directory_invalid">>,
            <<r.fault = "other_realm", "org_directory_wrong_realm">>,
            <<r.fault = "other_org", "org_directory_wrong_org">>,
            <<Verify(delegation, now) # "none", "delegation_invalid">>,
            <<r.fault = "other_advertiser", "delegation_mismatch">>,
            <<r.expires > AuthorizedTill(directory, delegation), "authorization_outlived">> >>)

\* ownNode: a namespace that is the advertiser's own needs no authorization.
ownNode(r) == FirstFault(<<
    <<r.fault = "node_form", "malformed">>,
    <<r.fault = "other_node", "not_own_namespace">>,
    <<r.by # <<>>, "authorization_not_allowed">> >>)

\* orgAuthorization: the form of the authorization an org's procedure needs.
orgAuthorization(r, now) ==
    CASE r.by = <<>> -> "no_authorization"
      [] r.by # <<>> /\ r.fault = "form" -> "authorization_form_unsupported"
      [] r.by # <<>> /\ r.fault = "not_bytes" -> "malformed"
      [] OTHER -> delegationPath(r, now)

\* VerifyAuthorization: of an advertisement, by the namespace of its procedure
\* (ProcedureOrg), which is none, the advertiser's own, or an org's, and which
\* a name that starts with a slash does not have.
VerifyAuthorization(r, now) ==
    CASE r.type # "advertisement" \/ r.fault = "procedure_slash" -> "malformed"
      [] OTHER ->
            CASE r.namespace = "own" -> ownNode(r)
              [] r.namespace = "none" -> IF r.by = <<>> THEN "none" ELSE "authorization_not_allowed"
              [] r.namespace = "org" -> orgAuthorization(r, now)

\* NewTombstone: the slot fields of what it withdraws, and living past it.
NewTombstone(r, ttl) ==
    LET lives == rclock + (IF ttl = 0 THEN ClockTolerance ELSE ttl)
        past  == r.expires + ClockTolerance
    IN  [r EXCEPT !.type = "tombstone", !.created = rclock, !.expires = IF lives > past THEN lives ELSE past,
                  !.payload = slotFieldNames(r.of), !.fault = "none", !.namespace = "none", !.by = <<>>]
-----------------------------------------------------------------------------
\* A record signed as built: refused, or among the signed.
Signs(r) ==
    /\ signed' = IF Sign(r) = "none" THEN signed \union {r} ELSE signed
    /\ answer' = "none"
    /\ UNCHANGED <<rclock, store>>

\* Envelope: what the builder of the domain types refuses to build.
Envelope(fault) == FirstFault(<<
    <<fault = "built_in_type", "not_a_domain_type">>,
    <<fault = "empty_subject", "invalid_subject">> >>)

\* A builder's record, signed.  The model follows one record, or the directory
\* and the delegation of an advertisement.
Build(type, ttl, fault) ==
    /\ \/ signed = {}
       \/ type = "delegation" /\ \E r \in signed : r.type = "directory" /\ signed = {r}
    /\ fault = "signer" => namedSigner(type) # {}
    /\ Envelope(fault) = "none"
    /\ Signs(unsigned(type, ttl, fault))

\* An advertisement, with the directory and delegation that authorize it or none.
Advertise(by, namespace, ttl, fault) ==
    /\ store = {} /\ Cardinality(signed) = 2
    /\ IF by = <<>> THEN fault = "none" ELSE by[1].type = "directory" /\ by[2].type = "delegation"
    /\ Signs([unsigned("advertisement", ttl, fault) EXCEPT !.by = by, !.namespace = namespace])

\* Refresh: a new version, created now, with the same lifetime.
Refresh(r) ==
    /\ r.type # "tombstone" /\ Cardinality(signed) = 1
    /\ Signs([r EXCEPT !.created = rclock, !.expires = rclock + r.expires - r.created])

Withdraw(r, ttl) ==
    /\ r.type # "tombstone" /\ Cardinality(signed) = 1
    /\ Signs(NewTombstone(r, ttl))

\* What a reader, or the station, makes of r as it arrives.
Read(r, fault) == Verify([r EXCEPT !.fault = fault], rclock)

\* PutRecord: the station stores what verifies, in place of what its slot held.
Put(r, fault) ==
    /\ \A s \in signed : s.of = r.of
    /\ answer' = IF Read(r, fault) = "none" THEN "none" ELSE "refused"
    /\ store' = IF Read(r, fault) = "none" THEN {s \in store : StorageKey(s) # StorageKey(r)} \union {r} ELSE store
    /\ UNCHANGED <<rclock, signed>>

\* What the station holds under the slot of r.
HeldUnder(r) == {s \in store : StorageKey(s) = StorageKey(r)}

\* FindRecord: the record of a slot, refused if it does not verify.
FindRecord(r, fault) ==
    /\ \A s \in signed : s.of = r.of
    /\ \/ HeldUnder(r) = {} /\ answer' = "not_found"
       \/ \E s \in HeldUnder(r) : answer' = IF Read(s, fault) = "none" THEN "none" ELSE "refused"
    /\ UNCHANGED <<rclock, signed, store>>

\* FindRecords and FindRecordsByType, by verifiedList: what does not verify is
\* dropped and counted.
FindRecords(r, fault) ==
    /\ \A s \in signed : s.of = r.of
    /\ answer' = IF \A s \in HeldUnder(r) : Read(s, fault) = "none" THEN "none" ELSE "dropped"
    /\ UNCHANGED <<rclock, signed, store>>

RecordClockMoves(t) ==
    /\ t # rclock /\ t >= rclock - ClockTolerance /\ signed # {}
    /\ rclock' = t
    /\ answer' = "none"
    /\ UNCHANGED <<signed, store>>

RNext ==
    \/ \E type \in RecordType, ttl \in AskedTTL, fault \in BuildFault : Build(type, ttl, fault)
    \/ \E by \in {<<>>} \union (signed \X signed), namespace \in {"none", "own", "org"}, ttl \in AskedTTL, fault \in GrantFault :
          Advertise(by, namespace, ttl, fault)
    \/ \E r \in signed : Refresh(r)
    \/ \E r \in signed, fault \in WireFault : Put(r, fault) \/ FindRecord(r, fault) \/ FindRecords(r, fault)
    \/ \E r \in signed, ttl \in AskedTTL : Withdraw(r, ttl)
    \/ \E t \in 0..MaxRecordTime : RecordClockMoves(t)

RSpec == RInit /\ [][RNext]_rvars
-----------------------------------------------------------------------------
\* A node can withdraw any record it signed, unless its clock was stepped back
\* past the tolerance since: the tombstone can be signed, takes the record's
\* slot, and is accepted by every reader, from the tolerance before it on, that
\* would still accept the record.
WithdrawalHolds ==
    \A r \in signed :
        (r.type # "tombstone" /\ r.created <= rclock + ClockTolerance) =>
            LET t == NewTombstone(r, 0)
            IN  /\ Sign(t) = "none"
                /\ StorageKey(t) = StorageKey(r)
                /\ \A now \in (t.created - ClockTolerance)..(r.expires + 2 * ClockTolerance) :
                      Verify(r, now) = "none" => Verify(t, now) = "none"

\* An advertisement accepted with an org's authorization stays authorized: as
\* long as readers accept the advertisement, its directory and its delegation
\* verify too.
AuthorizationCovers ==
    \A r \in signed :
        (r.namespace = "org" /\ VerifyAuthorization(r, rclock) = "none") =>
            \A now \in rclock..(r.expires + ClockTolerance) :
                Verify(r, now) = "none" => Verify(r.by[1], now) = "none" /\ Verify(r.by[2], now) = "none"
=============================================================================
