-------------------------------- MODULE Audit --------------------------------
(***************************************************************************)
(* Audit bundles (src/audit.js) and compliance reports (src/compliance.js).*)
(*                                                                         *)
(* SHA-256 is ideal: the digest of a sequence of serialized events is that *)
(* sequence.  HMAC is ideal: a signature is the pair of the secret and the *)
(* manifest it was computed over, and only the secret's owner makes one.   *)
(***************************************************************************)
EXTENDS Integers, Sequences, FiniteSets, SequencesExt, FiniteSetsExt

CONSTANTS
    Secret,         \* AUDIT_SIGNING_SECRET
    OtherSecret,    \* what an editor of a bundle signs with
    NotVerified,    \* bundle_verified: null
    Undefined       \* a property that is not there

\* The editor of a bundle does not know the secret.
ASSUME SecretAssumption == Secret # OtherSecret

ASSUME UndefinedAssumption == Undefined \notin Int

-----------------------------------------------------------------------------
(* canonicalizeV2: the event without its own transport signature *)

Serialized(e) == [e EXCEPT !.signed = FALSE]

ContentDigest(events) == [i \in DOMAIN events |-> Serialized(events[i])]

TimeRange(events) ==
    LET times == {events[i].time : i \in DOMAIN events}
    IN  IF times = {} THEN <<>> ELSE <<Min(times), Max(times)>>

Manifest(events, scope, tenant) ==
    [aep_audit_version |-> 1,
     scope             |-> scope,
     tenant_id         |-> tenant,
     event_count       |-> Len(events),
     time_range        |-> TimeRange(events),
     content_digest    |-> ContentDigest(events),
     per_event_signatures |->
        [present |-> Cardinality({i \in DOMAIN events : events[i].signed}),
         total   |-> Len(events)]]

ManifestSignature(manifest, secret) == <<secret, manifest>>

BuildAuditBundle(events, scope, tenant, secret) ==
    LET manifest == Manifest(events, scope, tenant)
    IN  [aep_audit_version |-> 1,
         manifest  |-> manifest,
         events    |-> events,
         signature |-> ManifestSignature(manifest, secret)]

VerifyAuditBundle_SignatureOnly(b, secret) ==   \* mutant: the digest is not recomputed
    /\ b.manifest.event_count = Len(b.events)
    /\ b.signature = ManifestSignature(b.manifest, secret)
    /\ b.aep_audit_version \in {Undefined, b.manifest.aep_audit_version}

VerifyAuditBundle(b, secret) ==
    /\ b.manifest.content_digest = ContentDigest(b.events)
    /\ b.manifest.event_count = Len(b.events)
    /\ b.signature = ManifestSignature(b.manifest, secret)
    /\ b.aep_audit_version \in {Undefined, b.manifest.aep_audit_version}

-----------------------------------------------------------------------------
(* What an edited bundle looks like *)

\* The same events in another order, one fewer, or one of them changed.
Altered(events) ==
    {RemoveAt(events, i) : i \in DOMAIN events}
    \cup {ReplaceAt(events, i, [events[i] EXCEPT !.time = @ + 1]) : i \in DOMAIN events}
    \cup {ReplaceAt(events, i, [events[i] EXCEPT !.nested = <<>>]) :
              i \in {j \in DOMAIN events : events[j].nested # <<>>}}
    \cup {Reverse(events)}

\* Edits of the events alone; with the manifest made to fit them; with that
\* manifest signed by another secret; and edits of the manifest or version.
Tampered(b) ==
    LET fit(evs) == Manifest(evs, b.manifest.scope, b.manifest.tenant_id)
        others   == Altered(b.events) \ {b.events}
    IN  {[b EXCEPT !.events = evs] : evs \in others}
        \cup {[b EXCEPT !.events = evs, !.manifest = fit(evs)] : evs \in others}
        \cup {[b EXCEPT !.events = evs, !.manifest = fit(evs),
                        !.signature = ManifestSignature(fit(evs), OtherSecret)]
                : evs \in others}
        \cup {[b EXCEPT !.manifest.event_count = @ + 1],
              [b EXCEPT !.aep_audit_version = @ + 1],
              [b EXCEPT !.aep_audit_version = @ + 1,
                        !.manifest.aep_audit_version = @ + 1]}

\* An event's transport signature removed or put on.
Resigned(events) ==
    {ReplaceAt(events, i, [events[i] EXCEPT !.signed = ~@]) : i \in DOMAIN events}

\* The edits that change nothing the digest and the signature cover: those, and
\* the version outside the manifest removed.
Unnoticed(b) ==
    {[b EXCEPT !.events = evs] : evs \in Resigned(b.events)}
        \cup {[b EXCEPT !.aep_audit_version = Undefined]}

-----------------------------------------------------------------------------
(* Compliance: the status of each evaluator on the assembled evidence *)

If(cond, status, otherwise) == IF cond THEN status ELSE otherwise

Evaluate(ev) ==
    [evalAccessControl |-> "satisfied",
     evalAuditTrail    |-> If(ev.access_log, "satisfied", "partial"),
     evalIntegrity     |-> If(~ev.signing_configured, "partial",
                              If(ev.bundle_verified = FALSE, "unmet", "satisfied")),
     evalRetention     |-> If(ev.retention_configured, "satisfied", "partial"),
     evalMonitoring    |-> If(ev.total_events > 0, "satisfied", "partial"),
     evalEnforcement   |-> If(ev.policy_blocked_count > 0, "satisfied", "partial"),
     evalTransparency  |-> If(ev.total_events > 0, "satisfied", "partial"),
     evalRecordKeeping |-> If(ev.total_events > 0, "satisfied", "partial")]

Frameworks ==
    [soc2 |-> [CC6_1 |-> "evalAccessControl", CC6_6 |-> "evalAccessControl",
               CC7_2 |-> "evalMonitoring", CC7_3 |-> "evalAuditTrail",
               CC7_1 |-> "evalIntegrity", A1_2 |-> "evalRetention"],
     hipaa |-> [access |-> "evalAccessControl", authentication |-> "evalAccessControl",
                audit |-> "evalAuditTrail", integrity |-> "evalIntegrity",
                retention |-> "evalRetention"],
     gdpr |-> [Art30 |-> "evalRecordKeeping", Art32 |-> "evalIntegrity",
               Art32_1 |-> "evalAccessControl", Art5_1_e |-> "evalRetention",
               Art33 |-> "evalIntegrity", Art5_2 |-> "evalAuditTrail"],
     eu_ai_act |-> [Art12 |-> "evalRecordKeeping", Art13 |-> "evalTransparency",
                    Art14 |-> "evalEnforcement", Art15 |-> "evalIntegrity",
                    Art19 |-> "evalRetention"]]

GenerateComplianceReport(framework, ev) ==
    LET controls == [c \in DOMAIN Frameworks[framework] |->
                        Evaluate(ev)[Frameworks[framework][c]]]
        having(status) == Cardinality({c \in DOMAIN controls : controls[c] = status})
    IN  [controls       |-> controls,
         total_controls |-> Cardinality(DOMAIN controls),
         satisfied      |-> having("satisfied"),
         partial        |-> having("partial"),
         unmet          |-> having("unmet")]

-----------------------------------------------------------------------------
\* A bundle as it was built verifies with the secret it was signed with.  An
\* edit of what the digest and the signature cover does not, also when digest
\* and manifest are made to fit it; an edit of what they leave out does:
\* "whether the event was signed in transit must not perturb the bundle
\* digest" (audit.js).
TamperEvident(b) ==
    /\ VerifyAuditBundle(b, Secret)
    /\ \A t \in Tampered(b) : ~VerifyAuditBundle(t, Secret)
    /\ \A t \in Unnoticed(b) : VerifyAuditBundle(t, Secret)
=============================================================================
