----------------------------- MODULE WireAdapter -----------------------------
(***************************************************************************)
(* The outbound half of apps/reference-device-agent/src/wire.rs: a durable *)
(* fact of the agent becomes an event of the contract.  Generation and     *)
(* fence must not be zero and the u64 device sequence must fit an i64;     *)
(* anything else is a WireError and the fact is not published.  The       *)
(* contract's command id type is taken to accept every CommandId.          *)
(***************************************************************************)
EXTENDS DeviceSecurityClient

NonZero(n) == IF n = 0 THEN Err("WireError") ELSE Ok(n)
Narrow(n) == IF n <= I64Max THEN Ok(n) ELSE Err("WireError")

rejection_reason ==
  [ArtifactUnavailable |-> "artifact_unavailable",
   ArtifactDigestMismatch |-> "artifact_digest_mismatch",
   PolicyRejected |-> "policy_rejected", GenerationStale |-> "generation_stale",
   FenceEpochStale |-> "fence_epoch_stale",
   MalformedCommand |-> "malformed_command", DeviceFailure |-> "device_failure"]

AckPayload(device, fact) ==
  [command_id |-> fact.command_id, generation |-> fact.generation,
   device |-> device, sequence |-> fact.sequence, fence |-> fact.fence,
   observed_at |-> fact.observed_at,
   result |-> IF fact.received THEN "received" ELSE "rejected",
   reason |-> IF fact.received THEN "none" ELSE rejection_reason[fact.rejection]]

\* Mutant: the sequence is cast, not converted, and wraps to a negative number.
EncodeAckWrapping(device, fact) ==
  Then(NonZero(fact.generation), Then(NonZero(fact.fence),
    Ok([AckPayload(device, fact) EXCEPT
          !.sequence = IF @ <= I64Max THEN @ ELSE @ - (U64Max + 1)])))

encode_ack(device, fact) ==
  Then(NonZero(fact.generation), Then(NonZero(fact.fence),
  Then(Narrow(fact.sequence), Ok(AckPayload(device, fact)))))

encode_report(device, fact) ==
  Then(Narrow(fact.sequence), Then(NonZero(fact.fence),
  Then(NonZero(fact.generation),
    Ok([digest |-> fact.digest, device |-> device, sequence |-> fact.sequence,
        fence |-> fact.fence, observed_at |-> fact.observed_at,
        generation |-> fact.generation]))))

=============================================================================
