--------------------------- MODULE HeadPoseHistory ---------------------------
(***************************************************************************)
(* HeadPoseFsm with history variables computed from the samples and the    *)
(* reported zones, and what it promises about the movements it counts.     *)
(***************************************************************************)
EXTENDS HeadPose

VARIABLES
  visibleSince,    (* the first of the unbroken run of samples with a pose,
                      or None                                               *)
  lastNeutral,     (* when the zone last became Neutral, or None            *)
  lastMovement     (* when the last movement was counted, or None           *)

history == <<visibleSince, lastNeutral, lastMovement>>

owned == <<fsm, history>>

hvars == <<lastTimestamp, owned>>

HInit ==
  /\ Init
  /\ visibleSince = None /\ lastNeutral = None /\ lastMovement = None

HReset ==
  /\ reset
  /\ visibleSince' = None /\ lastNeutral' = None /\ lastMovement' = None

HReject(ts) == RejectSample(ts) /\ UNCHANGED history

HAccept(ts, raw) ==
  /\ ~NotAfter(lastTimestamp, ts)
  /\ Sample(ts, raw)
  /\ visibleSince' = IF raw = "Unknown" THEN None
                                        ELSE StartedBy(visibleSince, ts)
  /\ lastNeutral' = IF zone = "Neutral" \/ zone' # "Neutral"
                    THEN lastNeutral ELSE ts
  /\ lastMovement' = IF ~result'.movementEvent THEN lastMovement ELSE ts

HNext ==
  \/ HReset
  \/ \E ts \in Timestamps : HReject(ts)
  \/ \E ts \in Timestamps, raw \in PoseSamples : HAccept(ts, raw)

HSpec == HInit /\ [][HNext]_hvars

(***************************************************************************)
(* A zone is reported only after the pose was seen in every sample of a    *)
(* whole confirmation: after an occlusion the head has to be confirmed     *)
(* afresh (docs/STAGE20_OPERATIONAL_POLICY_RECOMMENDATION.md, item 4).     *)
(***************************************************************************)
ZoneNeedsContinuousSight ==
  zone # "Unknown" => Elapsed(visibleSince, lastTimestamp, HeadConfirmation)

(***************************************************************************)
(* Between two counted movements the head was confirmed neutral, and both  *)
(* the return and the new direction took their confirmation: holding a     *)
(* pose, sweeping from one side to the other or losing the face never      *)
(* counts twice.                                                           *)
(***************************************************************************)
MovementsNeedNeutralReturn ==
  [][result'.movementEvent /\ lastMovement # None =>
       /\ lastNeutral # None
       /\ lastNeutral - lastMovement >= HeadConfirmation
       /\ lastTimestamp' - lastNeutral >= HeadConfirmation]_hvars

(***************************************************************************)
(* "Count one confirmed neutral-to-direction entry": a counted movement    *)
(* starts from a head that was confirmed neutral.                          *)
(***************************************************************************)
MovementsStartFromNeutral ==
  [][result'.movementEvent => lastNeutral # None]_hvars
=============================================================================
