--------------------------- MODULE RotationHandoff ---------------------------
(***************************************************************************)
(* What the device agent promises about one credential rotation: the       *)
(* abstract protocol that docs/secure-device-credential-rotation.md and    *)
(* apps/reference-device-agent/README.md describe and DeviceAgent          *)
(* implements.  A rotation is committed, its ACK is confirmed by the       *)
(* broker, a session with the new credential connects, and only then, and  *)
(* only once the command's own delivery is settled, is the report          *)
(* confirmed and the next rotation possible.                               *)
(***************************************************************************)
EXTENDS Naturals

VARIABLES
  phase,     \* "unprovisioned", "idle", "committed", "acknowledged", "connected"
  settled,   \* the old delivery is settled with the broker
  revision   \* the credential revision in force

handoffVars == <<phase, settled, revision>>

Init ==
  /\ phase = "unprovisioned"
  /\ settled = FALSE
  /\ revision = 0

Provision ==
  /\ phase = "unprovisioned"
  /\ phase' = "idle"
  /\ revision' \in Nat \ {0}
  /\ UNCHANGED settled

CommitRotation ==
  /\ phase = "idle"
  /\ phase' = "committed"
  /\ revision' = revision + 1
  /\ UNCHANGED settled

ConfirmAck ==
  /\ phase = "committed"
  /\ phase' = "acknowledged"
  /\ UNCHANGED <<settled, revision>>

ConnectWithNewCredential ==
  /\ phase = "acknowledged"
  /\ phase' = "connected"
  /\ UNCHANGED <<settled, revision>>

SettleDelivery ==
  /\ phase \in {"committed", "acknowledged", "connected"}
  /\ settled' = TRUE
  /\ UNCHANGED <<phase, revision>>

ConfirmReport ==
  /\ phase = "connected"
  /\ settled
  /\ phase' = "idle"
  /\ settled' = FALSE
  /\ UNCHANGED revision

Next ==
  \/ Provision \/ CommitRotation \/ ConfirmAck \/ ConnectWithNewCredential
  \/ SettleDelivery \/ ConfirmReport

Spec == Init /\ [][Next]_handoffVars

=============================================================================
