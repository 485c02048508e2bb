---------------------------- MODULE EventMachines ----------------------------
(***************************************************************************)
(* The quality gate and the six machines of DmsTemporalEvents, under a     *)
(* client that calls one of them, whichever, with any samples at all, as   *)
(* tests/dms_temporal_events_test.cpp does.  The machines share no state,  *)
(* so what each of them promises it promises beside the others.            *)
(***************************************************************************)
EXTENDS EventMachinesConfig

VARIABLES
  called,          (* the machine the client calls                          *)
  gateLast, usableSince, usableConfirmed, verdict, goodSince,
  mouthLast, yawning, mouthCandidate, opened, yawnCount, yawnResult,
  mouthVisibleSince, shutSince, lastYawn,
  headLast, zone, candidateZone, zoneSince, neutralArmed, moveCount,
  poseResult, poseVisibleSince, lastNeutral, lastMovement,
  gazeLast, gaze, candidateGaze, gazeSince, awaySince, forwardClock,
  distracted, gazeResult, gazeVisibleSince, forwardSince, confirmedAway,
  lastEvent,
  seatLast, presence, candidatePresence, presenceSince, presenceReturned,
  detectedSince, missedSince,
  sightLast, unavailableSince, recorded, notified, episodeCount,
  availabilityResult, lostSince, longEpisodes,
  driverLast, drowsiness, recoverySince, alertSince, yawns, drowsinessResult,
  yawnedAt, normalSince, uncleared

gateVars == <<gateLast, usableSince, usableConfirmed, verdict, goodSince>>

mouthVars == <<mouthLast, yawning, mouthCandidate, opened, yawnCount,
               yawnResult, mouthVisibleSince, shutSince, lastYawn>>

headVars == <<headLast, zone, candidateZone, zoneSince, neutralArmed,
              moveCount, poseResult, poseVisibleSince, lastNeutral,
              lastMovement>>

gazeVars == <<gazeLast, gaze, candidateGaze, gazeSince, awaySince,
              forwardClock, distracted, gazeResult, gazeVisibleSince,
              forwardSince, confirmedAway, lastEvent>>

seatVars == <<seatLast, presence, candidatePresence, presenceSince,
              presenceReturned, detectedSince, missedSince>>

sightVars == <<sightLast, unavailableSince, recorded, notified, episodeCount,
               availabilityResult, lostSince, longEpisodes>>

driverVars == <<driverLast, drowsiness, recoverySince, alertSince, yawns,
                drowsinessResult, yawnedAt, normalSince, uncleared>>

vars == <<called, gateVars, mouthVars, headVars, gazeVars, seatVars,
          sightVars, driverVars>>

Gate == INSTANCE QualityGateHistory WITH lastTimestamp <- gateLast

Mouth == INSTANCE YawnHistory
  WITH lastTimestamp <- mouthLast, active <- yawning,
       candidate <- mouthCandidate, count <- yawnCount, result <- yawnResult,
       visibleSince <- mouthVisibleSince

Pose == INSTANCE HeadPoseHistory
  WITH lastTimestamp <- headLast, candidateSince <- zoneSince,
       count <- moveCount, result <- poseResult,
       visibleSince <- poseVisibleSince

Gaze == INSTANCE DistractionHistory
  WITH lastTimestamp <- gazeLast, candidate <- candidateGaze,
       candidateSince <- gazeSince, recoverySince <- forwardClock,
       result <- gazeResult, visibleSince <- gazeVisibleSince

Seat == INSTANCE PresenceHistory
  WITH lastTimestamp <- seatLast, state <- presence,
       candidate <- candidatePresence, since <- presenceSince,
       returned <- presenceReturned

Sight == INSTANCE AvailabilityHistory
  WITH lastTimestamp <- sightLast, count <- episodeCount,
       result <- availabilityResult

Driver == INSTANCE DrowsinessHistory
  WITH lastTimestamp <- driverLast, state <- drowsiness,
       result <- drowsinessResult

-----------------------------------------------------------------------------
Init ==
  /\ called \in {"gate", "mouth", "head", "gaze", "seat", "sight", "driver"}
  /\ Gate!HInit /\ Mouth!HInit /\ Pose!HInit /\ Gaze!HInit
  /\ Seat!HInit /\ Sight!HInit /\ Driver!HInit

Next ==
  /\ UNCHANGED called
  /\ IF called = "gate" THEN Gate!HNext ELSE UNCHANGED gateVars
  /\ IF called = "mouth" THEN Mouth!HNext ELSE UNCHANGED mouthVars
  /\ IF called = "head" THEN Pose!HNext ELSE UNCHANGED headVars
  /\ IF called = "gaze" THEN Gaze!HNext ELSE UNCHANGED gazeVars
  /\ IF called = "seat" THEN Seat!HNext ELSE UNCHANGED seatVars
  /\ IF called = "sight" THEN Sight!HNext ELSE UNCHANGED sightVars
  /\ IF called = "driver" THEN Driver!HNext ELSE UNCHANGED driverVars

Spec == Init /\ [][Next]_vars

-----------------------------------------------------------------------------
(* What each machine promises, as stated and explained in its own module.  *)

(* Usable only after sustained quality, Recovering only before.            *)
VerdictFollowsQuality == Gate!VerdictFollowsQuality

(* The gate's latch stands for the run of good samples.                    *)
LatchFollowsQuality == Gate!LatchFollowsQuality

(* A yawn is seen from its opening to its closing.                         *)
YawnSeenFromOpeningToClosing == Mouth!YawnSeenFromOpeningToClosing

(* Two yawns are a whole yawn apart.                                       *)
YawnsSpaced == Mouth!YawnsSpaced

(* A head zone is confirmed afresh after every loss of the pose.           *)
ZoneNeedsContinuousSight == Pose!ZoneNeedsContinuousSight

(* Between two counted movements the head was confirmed neutral.           *)
MovementsNeedNeutralReturn == Pose!MovementsNeedNeutralReturn

(* A distraction is raised on uninterrupted sight of the gaze only.        *)
EventNeedsVisibleGaze == Gaze!EventNeedsVisibleGaze

(* A distraction ends on uninterrupted forward evidence only.              *)
EndsOnlyByForwardEvidence == Gaze!EndsOnlyByForwardEvidence

(* One distraction is one event.                                           *)
EventsSpaced == Gaze!EventsSpaced

(* Presence and absence are each confirmed by unbroken evidence.           *)
AnswersAreConfirmed == Seat!AnswersAreConfirmed

(* Presence and absence do not outlive the evidence against them.          *)
AnswersFollowEvidence == Seat!AnswersFollowEvidence

(* Episodes are recorded and notified at their delays.                     *)
EpisodesAreTimed == Sight!EpisodesAreTimed

(* Every long episode is counted once.                                     *)
EpisodesCountedOnce == Sight!EpisodesCountedOnce

(* The recent yawns are exactly those of the window.                       *)
YawnEvidenceIsExact == Driver!YawnEvidenceIsExact

(* An alert turns to Normal only after a whole recovery.                   *)
RecoveryIsDebounced == Driver!RecoveryIsDebounced

(* What the documents promise and the machines do not keep.                *)

(* A head movement is counted only when the head left the neutral zone.    *)
MovementsStartFromNeutral == Pose!MovementsStartFromNeutral

(* A distraction is raised on a confirmed gaze away only.                  *)
EventNeedsConfirmedAway == Gaze!EventNeedsConfirmedAway

(* An alert ends only by evidence that is normal.                          *)
ClearedOnlyByNormalEvidence == Driver!ClearedOnlyByNormalEvidence
=============================================================================
