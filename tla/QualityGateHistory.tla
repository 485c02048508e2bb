-------------------------- MODULE QualityGateHistory --------------------------
(***************************************************************************)
(* The quality gate with a history variable, and what the gate promises.   *)
(***************************************************************************)
EXTENDS QualityGate

VARIABLE goodSince  (* the first of the unbroken run of good samples, or None *)

owned == <<fsm, goodSince>>

hvars == <<lastTimestamp, owned>>

\* What makes one sample good, said without the order of the classification.
Good(header, now) ==
  /\ header.validity = "Valid"
  /\ now - header.capturedAt \in 0 .. policy.maximumAge
  /\ Acceptable(header.confidence, policy.minimumConfidence)
  /\ Acceptable(header.visibility, policy.minimumVisibility)

HInit == Init /\ goodSince = None

HReset == reset /\ goodSince' = None

HUpdate(header, now) ==
  /\ update(header, now)
  /\ goodSince' = IF NotAfter(lastTimestamp, now) THEN goodSince
                  ELSE IF Good(header, now) THEN StartedBy(goodSince, now)
                  ELSE None

HNext ==
  \/ HReset
  \/ \E header \in Headers, now \in Timestamps : HUpdate(header, now)

HSpec == HInit /\ [][HNext]_hvars

Sustained ==
  Elapsed(goodSince, lastTimestamp, ReacquisitionConfirmation)

(***************************************************************************)
(* An observation is handed on as Usable only at the end of an unbroken    *)
(* run of good samples of at least the reacquisition confirmation, and it  *)
(* is held back as Recovering only while that run is shorter: an occlusion *)
(* boundary can neither pass for evidence nor keep the gate shut           *)
(* (docs/DMS_CORE.md, Observation contract).                               *)
(***************************************************************************)
VerdictFollowsQuality ==
  /\ verdict = "Usable" => Sustained
  /\ verdict = "Recovering" => goodSince # None /\ ~Sustained

(***************************************************************************)
(* The latch agrees with the run it stands for: the gate is open exactly   *)
(* when the samples it has seen without a break have lasted long enough.   *)
(***************************************************************************)
LatchFollowsQuality ==
  /\ usableSince = goodSince
  /\ usableConfirmed <=> Sustained
=============================================================================
