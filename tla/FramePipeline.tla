---------------------------- MODULE FramePipeline ----------------------------
(***************************************************************************)
(* The loop of src/benchmark_main.cpp: for every measured frame, on one    *)
(* thread and with one time stamp, first quality and calibration, which    *)
(* may reset the calibrators and the eye metrics, then the metrics and     *)
(* the six machines of DmsTemporalEvents, each reading what the ones       *)
(* before it said of the same frame.  The two halves of an iteration are   *)
(* two steps here, Observe and Derive, in strict alternation.              *)
(*                                                                         *)
(* Warm-up frames reach none of this.  Statistics, counters and traces are *)
(* left out: nothing in the loop reads them.                               *)
(***************************************************************************)
EXTENDS EventMachinesConfig, EyeMetricsConfig, Calibrators

-----------------------------------------------------------------------------
(* The frames the loop may be given, and the policy it runs under          *)
(* (OperationalPolicyProfile): that of every machine and the delays before *)
(* a recalibration.                                                        *)
CONSTANTS
  Frames,            (* what the backend and its mappers find in a frame    *)
  FramePeriods,      (* the times between two frames                        *)
  FirstFrame,        (* the time stamp of the first measured frame          *)
  DiagnosticTimes,   (* when the option diagnosticRecalibrationFrame may ask
                        for a recalibration; None without the option        *)
  RecalibrateAfterAbsence, RecalibrateAfterInvalidGeometry

\* OperationalPolicyProfile::validate, beside the policies of the machines.
ValidPolicy ==
  /\ RecalibrateAfterAbsence \in Int /\ 0 < RecalibrateAfterAbsence
  /\ RecalibrateAfterInvalidGeometry \in Int
  /\ 0 < RecalibrateAfterInvalidGeometry

(***************************************************************************)
(* detected: a face was found.  geometry: its landmarks were mapped.       *)
(* pose: the estimated head pose, and whether its reprojection error is    *)
(* small enough (accurate).  tracked: both eyes were mapped and measured;  *)
(* quality and ears are then what the assessor and the tracker say.        *)
(* mouth: the openness of the mouth.  gaze: the mapped gaze, and whether   *)
(* the two eyes agree on it.                                               *)
(***************************************************************************)
Pose == [yaw : Int, pitch : Int, accurate : BOOLEAN]
Quality == [validity : SourceValidity, confidence : Optional(Int),
            visibility : Optional(Int)]
Ears == [right : Optional(Int), left : Optional(Int)]
MappedGaze == [horizontal : Int, vertical : Int, agrees : BOOLEAN]

Frame ==
  [detected : BOOLEAN, geometry : BOOLEAN, pose : Optional(Pose),
   tracked : BOOLEAN, quality : Quality, ears : Ears,
   mouth : Optional(Int), gaze : Optional(MappedGaze)]

\* Whatever is mapped is mapped from the landmarks of a detected face.
Consistent(f) ==
  /\ f.geometry \/ f.tracked \/ f.gaze # None => f.detected
  /\ f.pose # None \/ f.mouth # None => f.geometry

ASSUME FramePipelineAssumption ==
  /\ ValidPolicy
  /\ Frames \subseteq Frame /\ \A f \in Frames : Consistent(f)
  /\ FramePeriods \subseteq Nat \ {0}
  /\ FirstFrame \in Timestamps /\ DiagnosticTimes \subseteq Optional(Int)

-----------------------------------------------------------------------------
(* The state of the loop and of all it calls.                              *)
VARIABLES
  phase,                (* "capture", or "events" within an iteration       *)
  now,                  (* input.timestamp() of the last frame, or None     *)
  frame,                (* what was found in it                             *)
  diagnosticAt,         (* when a recalibration is asked for, or None       *)
  absentSince, invalidPoseSince,
  poseCalibrator, eyeCalibrator,
  eyeCalibrationApplied, calibrationCompletedOnce,
  calibratedPose,       (* of this frame, or None                           *)
  eyeUsability,         (* eyeInput.usability of this frame                 *)
  (* the quality gate *)
  gateLast, usableSince, usableConfirmed, verdict,
  (* the eye metrics *)
  calibration, eyesLast, eyes, closureStarted, reopeningStarted,
  refractoryUntil, prolongedClosureEmitted, blinkCount, longBlinkCount,
  prolongedClosureCount, intervals, eyeResult,
  (* the machines of DmsTemporalEvents *)
  mouthLast, yawning, mouthCandidate, opened, yawnCount, yawnResult,
  headLast, zone, candidateZone, zoneSince, neutralArmed, moveCount,
  poseResult,
  gazeLast, gaze, candidateGaze, gazeSince, awaySince, forwardClock,
  distracted, gazeResult,
  seatLast, presence, candidatePresence, presenceSince, presenceReturned,
  sightLast, unavailableSince, recorded, notified, episodeCount,
  availabilityResult,
  driverLast, drowsiness, recoverySince, alertSince, yawns, drowsinessResult

Gate == INSTANCE QualityGate WITH lastTimestamp <- gateLast

Eyes == INSTANCE EyeMetrics
  WITH lastTimestamp <- eyesLast, state <- eyes, result <- eyeResult

Mouth == INSTANCE Yawn
  WITH lastTimestamp <- mouthLast, active <- yawning,
       candidate <- mouthCandidate, count <- yawnCount, result <- yawnResult

Turning == INSTANCE HeadPose
  WITH lastTimestamp <- headLast, candidateSince <- zoneSince,
       count <- moveCount, result <- poseResult

Gaze == INSTANCE Distraction
  WITH lastTimestamp <- gazeLast, candidate <- candidateGaze,
       candidateSince <- gazeSince, recoverySince <- forwardClock,
       result <- gazeResult

Seat == INSTANCE Presence
  WITH lastTimestamp <- seatLast, state <- presence,
       candidate <- candidatePresence, since <- presenceSince,
       returned <- presenceReturned

Sight == INSTANCE Availability
  WITH lastTimestamp <- sightLast, count <- episodeCount,
       result <- availabilityResult

Driver == INSTANCE Drowsiness
  WITH lastTimestamp <- driverLast, state <- drowsiness,
       result <- drowsinessResult

loopVars == <<absentSince, invalidPoseSince, poseCalibrator, eyeCalibrator,
              eyeCalibrationApplied, calibrationCompletedOnce,
              calibratedPose, eyeUsability>>

gateVars == <<gateLast, usableSince, usableConfirmed, verdict>>

eyeVars == <<calibration, eyesLast, eyes, closureStarted, reopeningStarted,
             refractoryUntil, prolongedClosureEmitted, blinkCount,
             longBlinkCount, prolongedClosureCount, intervals, eyeResult>>

machineVars ==
  <<mouthLast, yawning, mouthCandidate, opened, yawnCount, yawnResult,
    headLast, zone, candidateZone, zoneSince, neutralArmed, moveCount,
    poseResult,
    gazeLast, gaze, candidateGaze, gazeSince, awaySince, forwardClock,
    distracted, gazeResult,
    seatLast, presence, candidatePresence, presenceSince, presenceReturned,
    sightLast, unavailableSince, recorded, notified, episodeCount,
    availabilityResult,
    driverLast, drowsiness, recoverySince, alertSince, yawns,
    drowsinessResult>>

vars == <<phase, now, frame, diagnosticAt, loopVars, gateVars, eyeVars,
          machineVars>>

-----------------------------------------------------------------------------
Init ==
  /\ phase = "capture" /\ now = None /\ frame = None
  /\ diagnosticAt \in DiagnosticTimes
  /\ absentSince = None /\ invalidPoseSince = None
  /\ poseCalibrator = NewPoseCalibrator /\ eyeCalibrator = NewEyeCalibrator
  /\ eyeCalibrationApplied = FALSE /\ calibrationCompletedOnce = FALSE
  /\ calibratedPose = None /\ eyeUsability = "Missing"
  /\ Gate!Init /\ Eyes!Init /\ Mouth!Init /\ Turning!Init /\ Gaze!Init
  /\ Seat!Init /\ Sight!Init /\ Driver!Init

-----------------------------------------------------------------------------
(* Observe: clocks of absence and of invalid geometry, recalibration,      *)
(* calibrated pose, quality gate, eye calibration.                         *)

AbsentSince(ts, f) == IF f.detected THEN None ELSE StartedBy(absentSince, ts)

InvalidPoseSince(ts, f) ==
  IF f.pose # None THEN None ELSE StartedBy(invalidPoseSince, ts)

\* Seeded fault: an absence never leads to a recalibration.
RecalibratesOnGeometryOnly(ts, f) ==
  \/ ts = diagnosticAt
  \/ f.detected /\ Elapsed(InvalidPoseSince(ts, f), ts,
                           RecalibrateAfterInvalidGeometry)

Recalibrates(ts, f) ==
  \/ ts = diagnosticAt
  \/ Elapsed(AbsentSince(ts, f), ts, RecalibrateAfterAbsence)
  \/ Elapsed(InvalidPoseSince(ts, f), ts, RecalibrateAfterInvalidGeometry)

Magnitude(x) == IF x < 0 THEN -x ELSE x

\* The eyes of a face that is turned away are not trusted.
TurnedAway(pose) ==
  pose # None /\ (Magnitude(pose.yaw) > 35 \/ Magnitude(pose.pitch) > 25)

\* The header the gate is given.  It is as young as the frame.
QualityHeader(ts, f, pose) ==
  [validity |-> IF f.tracked THEN f.quality.validity ELSE "Missing",
   capturedAt |-> ts,
   confidence |-> IF f.tracked /\ ~TurnedAway(pose) THEN f.quality.confidence
                                                    ELSE 0,
   visibility |-> IF f.tracked THEN f.quality.visibility ELSE 0]

SeenEars(f) == IF f.tracked THEN f.ears ELSE [right |-> None, left |-> None]

ObservePose(ts, f) ==
  LET before == IF Recalibrates(ts, f) THEN NewPoseCalibrator
                                       ELSE poseCalibrator
      updated == updatePoseCalibrator(before, ts, f.pose)
  IN  IF f.pose = None
      THEN poseCalibrator' = before /\ calibratedPose' = None
      ELSE /\ poseCalibrator' = updated.calibrator
           /\ calibratedPose' = updated.answer

\* The calibration in force stays in force.
KeepCalibration(ts, f) ==
  /\ eyeCalibrationApplied /\ ~Recalibrates(ts, f)
  /\ eyeUsability' = verdict'
  /\ UNCHANGED <<eyeCalibrationApplied, calibrationCompletedOnce, eyeCalibrator,
                 eyeVars>>

\* Seeded fault: before calibration the verdict of the gate is handed on.
AwaitedUsabilityTrusted == verdict'

\* Before calibration no observation is handed on, whatever its quality.
AwaitedUsability == "Recovering"

\* The calibrator has no answer yet; a recalibration also resets the metrics.
AwaitCalibration(ts, f) ==
  LET before == IF Recalibrates(ts, f) THEN NewEyeCalibrator ELSE eyeCalibrator
      updated == updateEyeCalibrator(before, ts, verdict', SeenEars(f))
  IN  /\ ~eyeCalibrationApplied \/ Recalibrates(ts, f)
      /\ updated.answer = None
      /\ eyeCalibrator' = updated.calibrator
      /\ eyeCalibrationApplied' = FALSE
      /\ UNCHANGED calibrationCompletedOnce
      /\ eyeUsability' = AwaitedUsability
      /\ IF Recalibrates(ts, f) THEN Eyes!reset ELSE UNCHANGED eyeVars

\* The calibrator answers, in the frame that completes its run; that frame
\* is no recalibration, which starts the run afresh.
ApplyCalibration(ts, f) ==
  LET updated == updateEyeCalibrator(eyeCalibrator, ts, verdict', SeenEars(f))
  IN  /\ ~eyeCalibrationApplied /\ ~Recalibrates(ts, f)
      /\ updated.answer # None
      /\ eyeCalibrator' = updated.calibrator
      /\ eyeCalibrationApplied' = TRUE
      /\ calibrationCompletedOnce' = TRUE
      /\ eyeUsability' = verdict'
      /\ Eyes!setCalibration(updated.answer)

Observe(ts, f) ==
  /\ phase = "capture" /\ phase' = "events"
  /\ now' = ts /\ frame' = f
  /\ absentSince' = AbsentSince(ts, f)
  /\ invalidPoseSince' = InvalidPoseSince(ts, f)
  /\ ObservePose(ts, f)
  /\ Gate!update(QualityHeader(ts, f, calibratedPose'), ts)
  /\ \/ KeepCalibration(ts, f)
     \/ AwaitCalibration(ts, f)
     \/ ApplyCalibration(ts, f)
  /\ UNCHANGED <<diagnosticAt, machineVars>>

-----------------------------------------------------------------------------
(* Derive: the metrics and the machines, in the order they are called.     *)

\* An aspect of an optional value.
Of(optional, aspect) == IF optional = None THEN None ELSE optional[aspect]

UsableIf(condition) == IF condition THEN "Usable" ELSE "Missing"

\* Seeded fault: the gaze of closed or unknown eyes is trusted.
GazeUsabilityOfAnyEyes ==
  UsableIf(frame.gaze # None /\ frame.gaze.agrees)

\* The gaze counts when both eyes agree on it and were just seen open.
GazeUsability ==
  UsableIf(/\ frame.gaze # None /\ frame.gaze.agrees
           /\ eyeUsability = "Usable" /\ eyeResult'.state = "Open")

PoseUsability ==
  IF calibratedPose # None /\ frame.pose.accurate THEN "Usable"
                                                  ELSE "LowConfidence"

\* PERCLOS as the percentage the drowsiness machine compares.
PerclosPercentage(perclos) ==
  IF perclos = None THEN None ELSE (100 * perclos.closed) \div perclos.known

Derive ==
  /\ phase = "events" /\ phase' = "capture"
  /\ Eyes!update(now, eyeUsability, SeenEars(frame).right, SeenEars(frame).left)
  /\ Mouth!update(now, UsableIf(frame.geometry), frame.mouth)
  /\ Turning!update(now, PoseUsability,
                 Of(calibratedPose, "yaw"), Of(calibratedPose, "pitch"))
  /\ Gaze!update(now, GazeUsability, Of(frame.gaze, "horizontal"),
                 Of(frame.gaze, "vertical"), poseResult'.zone)
  /\ Seat!update(now, UsableIf(frame.detected), frame.detected)
  /\ Driver!update(now, eyeUsability, presenceReturned',
                   PerclosPercentage(eyeResult'.perclos),
                   eyeResult'.prolongedClosure, eyeResult'.longBlinkEvent,
                   yawnResult'.event)
  /\ Sight!update(now, eyeUsability)
  /\ UNCHANGED <<now, frame, diagnosticAt, loopVars, gateVars>>

-----------------------------------------------------------------------------
NextFrame ==
  \E f \in Frames :
    \/ now = None /\ Observe(FirstFrame, f)
    \/ \E period \in FramePeriods :
         now # None /\ now + period \in Timestamps /\ Observe(now + period, f)

Next == NextFrame \/ Derive

Spec == Init /\ [][Next]_vars
=============================================================================
