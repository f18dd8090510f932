------------------------ MODULE DeviceSecurityClient ------------------------
(***************************************************************************)
(* crates/rss-device-security-client/src/lib.rs: the requests an operator  *)
(* tool sends, the closed classification of the replies, and the mappings  *)
(* from contract events to product facts.                                  *)
(*                                                                         *)
(* A reply body is a record whose shape names the contract type it decodes *)
(* as; "garbage" decodes as none.  Request ids and the wording of          *)
(* diagnostics are left out.                                               *)
(***************************************************************************)
EXTENDS RotationModel

\* i64::try_from(u64) and u64::try_from(i64).
I64(n) == IF n <= I64Max THEN Ok(n) ELSE Err("InvalidInput")
U64(n, error) == IF n >= 0 THEN Ok(n) ELSE Err(error)

-----------------------------------------------------------------------------
(* Requests. *)

prepare_policy_put(device, expected, key, policy) ==
  Then(I64(policy.renew_before), Then(I64(policy.validity), Then(I64(expected),
    Ok([method |-> "PUT", device |-> device, expected |-> expected,
        key |-> key]))))

prepare_status_get(device) == [method |-> "GET", device |-> device]

-----------------------------------------------------------------------------
(* Replies. *)

RetryableKinds == {"RateLimited", "Upstream"}

Diagnostic(kind) == [kind |-> kind, retryable |-> kind \in RetryableKinds]
Conflict(retryable) == [kind |-> "Conflict", retryable |-> retryable]

\* The statuses classified alike for both operations.
CommonKind(status) ==
  CASE status = 401 -> "Unauthorized"
    [] status = 403 -> "Forbidden"
    [] status = 429 -> "RateLimited"
    [] status \in 500 .. 599 -> "Upstream"
    [] OTHER -> "UnknownStatus"

\* The body each typed status must carry.
PolicyShape(status) ==
  CASE status = 200 -> "accepted" [] status = 400 -> "validation"
    [] status = 404 -> "not_found" [] status = 409 -> "conflict"

\* A mutation of decode_policy_response: a reply that does not decode and an
\* upstream failure both count as a rejected request.
DecodePolicyDefinite(status, body) ==
  CASE status = 200 /\ body.shape = "accepted" -> Ok(body.data)
    [] status = 409 /\ body.shape = "conflict" -> Err(Conflict(body.retryable))
    [] OTHER -> Err(Diagnostic("Validation"))

decode_policy_response(status, body) ==
  IF status \in {200, 400, 404, 409} /\ body.shape # PolicyShape(status)
  THEN Err(Diagnostic("Malformed"))
  ELSE CASE status = 200 -> Ok(body.data)
         [] status = 400 -> Err(Diagnostic("Validation"))
         [] status = 404 -> Err(Diagnostic("NotFound"))
         [] status = 409 -> Err(Conflict(body.retryable))
         [] OTHER -> Err(Diagnostic(CommonKind(status)))

\* The generations of the wire are i64; one negative value spoils the reply.
decode_status_response(status, body) ==
  IF status # 200
  THEN Err(Diagnostic(IF status = 404 THEN "NotFound" ELSE CommonKind(status)))
  ELSE IF \/ body.shape # "status"
          \/ body.data.observed_generation < 0
          \/ \E c \in body.data.conditions : c.observed_generation < 0
  THEN Err(Diagnostic("Malformed"))
  ELSE Ok(body.data)

-----------------------------------------------------------------------------
(* Mappings.  context = [coordinates, device]. *)

require_device(context, device) ==
  IF device = context.device THEN Ok(device) ELSE Err("DeviceMismatch")

sequence(n) == U64(n, "NegativeDeviceSequence")

map_policy_success(context, data) ==
  Then(validate_reference(data.receipt),
  Then(Generation(data.generation),
    Ok([coordinates |-> context.coordinates, receipt |-> data.receipt,
        generation |-> data.generation, condition |-> data.condition])))

correlate_command(context, request) == require_device(context, request.device)

\* The reasons of the contract and of the product, one for one.
RejectionReason ==
  [artifact_unavailable |-> "ArtifactUnavailable",
   artifact_digest_mismatch |-> "ArtifactDigestMismatch",
   policy_rejected |-> "PolicyRejected", generation_stale |-> "GenerationStale",
   fence_epoch_stale |-> "FenceEpochStale",
   malformed_command |-> "MalformedCommand", device_failure |-> "DeviceFailure"]

\* A received or a rejected payload of the command-acknowledged event.
map_acknowledgement(context, event, p) ==
  Then(require_device(context, p.device),
  Then(validate_reference(p.command_id),
  Then(Generation(p.generation),
  Then(FenceEpoch(p.fence),
  Then(sequence(p.sequence),
    Ok([coordinates |-> context.coordinates, event |-> event,
        command_id |-> p.command_id, generation |-> p.generation,
        fence |-> p.fence, sequence |-> p.sequence,
        observed_at |-> p.observed_at,
        outcome |-> IF p.result = "received" THEN "Received"
                    ELSE RejectionReason[p.reason]]))))))

map_report(context, event, p) ==
  Then(require_device(context, p.device),
  Then(Generation(p.generation),
  Then(FenceEpoch(p.fence),
  Then(sequence(p.sequence),
    Ok([coordinates |-> context.coordinates, event |-> event,
        generation |-> p.generation, fence |-> p.fence, sequence |-> p.sequence,
        observed_at |-> p.observed_at, digest |-> p.digest])))))

\* A rejected receipt has no lineage, the three others do.
lineage(p) ==
  IF p.outcome = "Rejected" THEN Ok(p)
  ELSE Then(validate_reference(p.receipt), Generation(p.generation))

map_receipt(context, event, p) ==
  Then(require_device(context, p.device),
  Then(lineage(p),
  Then(validate_reference(p.ingress),
    Ok([coordinates |-> context.coordinates, event |-> event,
        ingress |-> p.ingress, outcome |-> p.outcome,
        lineage |-> IF p.outcome = "Rejected" THEN << >>
                    ELSE <<p.receipt, p.generation>>]))))

=============================================================================
