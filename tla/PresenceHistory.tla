--------------------------- MODULE PresenceHistory ---------------------------
(***************************************************************************)
(* DriverPresenceFsm with history variables computed from the samples      *)
(* alone, and what it promises about the answers it gives.                 *)
(***************************************************************************)
EXTENDS Presence

VARIABLES
  detectedSince,   (* the first of the unbroken run of samples with a driver *)
  missedSince      (* the first of the unbroken run of samples without one   *)

owned == <<fsm, detectedSince, missedSince>>

hvars == <<lastTimestamp, owned>>

HInit == Init /\ detectedSince = None /\ missedSince = None

HReset == reset /\ detectedSince' = None /\ missedSince' = None

HReject(ts) ==
  RejectSample(ts) /\ UNCHANGED <<detectedSince, missedSince>>

HAccept(ts, usability, detected) ==
  /\ ~NotAfter(lastTimestamp, ts)
  /\ update(ts, usability, detected)
  /\ detectedSince' = IF usability = "Usable" /\ detected
                      THEN StartedBy(detectedSince, ts) ELSE None
  /\ missedSince' = IF usability \in {"Usable", "Missing"} /\ ~detected
                    THEN StartedBy(missedSince, ts) ELSE None

HNext ==
  \/ HReset
  \/ \E ts \in Timestamps : HReject(ts)
  \/ \E ts \in Timestamps, usability \in ObservationUsability,
        detected \in BOOLEAN : HAccept(ts, usability, detected)

HSpec == HInit /\ [][HNext]_hvars

(***************************************************************************)
(* An answer changes only at the end of an unbroken run of samples that    *)
(* support it, as long as its own confirmation: a face lost for one frame  *)
(* or seen through one does not flicker the presence                       *)
(* (docs/DMS_CORE.md, Temporal event contract).                            *)
(***************************************************************************)
AnswersAreConfirmed ==
  [][/\ state' = "Present" /\ state # "Present" =>
          Elapsed(detectedSince', lastTimestamp', PresentConfirmation)
     /\ state' = "Absent" /\ state # "Absent" =>
          Elapsed(missedSince', lastTimestamp', AbsentConfirmation)]_hvars

(***************************************************************************)
(* An answer does not outlive its evidence: a driver missed, or back, for  *)
(* a whole confirmation is not still reported present, or absent.          *)
(***************************************************************************)
AnswersFollowEvidence ==
  /\ state = "Present" =>
       ~Elapsed(missedSince, lastTimestamp, AbsentConfirmation)
  /\ state = "Absent" =>
       ~Elapsed(detectedSince, lastTimestamp, PresentConfirmation)
=============================================================================
