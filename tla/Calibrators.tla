----------------------------- MODULE Calibrators -----------------------------
(***************************************************************************)
(* The two calibrators that run before the metrics do: EyeOpenCalibrator   *)
(* (src/DmsEyeMetrics.cpp) learns the open-eye aspect ratio of a driver,   *)
(* HeadPoseNeutralCalibrator (src/DmsHeadPoseEstimator.cpp) the neutral    *)
(* pose, each from a run of samples that keep close together for a         *)
(* confirmation time.                                                      *)
(*                                                                         *)
(* A calibrator is a record; an update takes one and gives                 *)
(* [calibrator |-> the new one, answer |-> what update returns, or None].  *)
(* Ratios and angles are integers, means rounded down.                     *)
(***************************************************************************)
EXTENDS Observation

CONSTANTS
  EyeConfirmation, MinimumCandidateEar, MaximumEarRange,
  ClosedToOpenRatio,                          (* EyeOpenCalibrationConfig; the
                                                 ratio is a percentage      *)
  NeutralConfirmation, MaximumYawRange, MaximumPitchRange
                                              (* HeadPoseNeutralConfig      *)

\* EyeOpenCalibrationConfig::validate.
ValidEyeCalibrationConfig ==
  /\ EyeConfirmation \in Int /\ 0 < EyeConfirmation
  /\ MinimumCandidateEar \in Int /\ 0 < MinimumCandidateEar
  /\ MaximumEarRange \in Int /\ 0 < MaximumEarRange
  /\ ClosedToOpenRatio \in 1 .. 99

\* HeadPoseNeutralConfig::validate.
ValidNeutralConfig ==
  /\ NeutralConfirmation \in Int /\ 0 < NeutralConfirmation
  /\ MaximumYawRange \in Int /\ 0 < MaximumYawRange
  /\ MaximumPitchRange \in Int /\ 0 < MaximumPitchRange

ASSUME CalibratorsAssumption == ValidEyeCalibrationConfig /\ ValidNeutralConfig

Smaller(a, b) == IF a < b THEN a ELSE b
Larger(a, b) == IF a < b THEN b ELSE a

-----------------------------------------------------------------------------
(* A run of samples of one quantity: where it started, how far it spreads, *)
(* and its sum for the mean.                                               *)

RunOf(x) == [minimum |-> x, maximum |-> x, sum |-> x]

Extend(run, x) ==
  [minimum |-> Smaller(run.minimum, x), maximum |-> Larger(run.maximum, x),
   sum |-> run.sum + x]

Spread(run) == run.maximum - run.minimum

-----------------------------------------------------------------------------
(* EyeOpenCalibrator. *)

NoEyeRun == [started |-> None, run |-> None, count |-> 0]

\* EyeOpenCalibrator::reset.
NewEyeCalibrator == [last |-> None, samples |-> NoEyeRun, calibration |-> None]

\* The run of samples with `ear` at `ts` in it; too wide a spread starts it
\* afresh.
AddEar(samples, ts, ear) ==
  LET fresh == [started |-> ts, run |-> RunOf(ear), count |-> 1]
  IN  IF samples.count = 0 THEN fresh
      ELSE LET run == Extend(samples.run, ear)
           IN  IF Spread(run) > MaximumEarRange THEN fresh
               ELSE [samples EXCEPT !.run = run, !.count = @ + 1]

\* Seeded fault: a sample that is no evidence leaves the run as it is.
EyeSamplesKept(samples, ts, usability, ears) ==
  LET usable == usability = "Usable" /\ ears.right # None /\ ears.left # None
      ear == IF usable THEN Smaller(ears.right, ears.left) ELSE None
  IN  IF ~usable \/ ear < MinimumCandidateEar THEN samples
      ELSE AddEar(samples, ts, ear)

\* The samples after one more: any that is no open-eye evidence ends the run.
EyeSamples(samples, ts, usability, ears) ==
  LET usable == usability = "Usable" /\ ears.right # None /\ ears.left # None
      ear == IF usable THEN Smaller(ears.right, ears.left) ELSE None
  IN  IF ~usable \/ ear < MinimumCandidateEar THEN NoEyeRun
      ELSE AddEar(samples, ts, ear)

\* The open eye is the mean of the run, the closed one a fixed share of it.
CalibrationOf(samples) ==
  LET open == samples.run.sum \div samples.count
  IN  [closedEar |-> (open * ClosedToOpenRatio) \div 100, openEar |-> open]

updateEyeCalibrator(calibrator, ts, usability, ears) ==
  IF NotAfter(calibrator.last, ts)
  THEN [calibrator |-> calibrator, answer |-> None]
  ELSE IF calibrator.calibration # None
  THEN [calibrator |-> [calibrator EXCEPT !.last = ts],
        answer |-> calibrator.calibration]
  ELSE LET samples == EyeSamples(calibrator.samples, ts, usability, ears)
           done == /\ samples.count > 0
                   /\ ts - samples.started >= EyeConfirmation
           calibration == IF done THEN CalibrationOf(samples) ELSE None
       IN  [calibrator |-> [last |-> ts, samples |-> samples,
                            calibration |-> calibration],
            answer |-> calibration]

-----------------------------------------------------------------------------
(* HeadPoseNeutralCalibrator.  It is given valid poses only; frames without *)
(* a pose do not interrupt its run.                                         *)

NoPoseRun == [started |-> None, yaw |-> None, pitch |-> None, count |-> 0]

\* HeadPoseNeutralCalibrator::reset.
NewPoseCalibrator == [last |-> None, samples |-> NoPoseRun, neutral |-> None]

AddPose(samples, ts, pose) ==
  LET fresh == [started |-> ts, yaw |-> RunOf(pose.yaw),
                pitch |-> RunOf(pose.pitch), count |-> 1]
  IN  IF samples.count = 0 THEN fresh
      ELSE LET yaw == Extend(samples.yaw, pose.yaw)
               pitch == Extend(samples.pitch, pose.pitch)
           IN  IF \/ Spread(yaw) > MaximumYawRange
                  \/ Spread(pitch) > MaximumPitchRange
               THEN fresh
               ELSE [samples EXCEPT !.yaw = yaw, !.pitch = pitch,
                                    !.count = @ + 1]

NeutralOf(samples) ==
  [yaw |-> samples.yaw.sum \div samples.count,
   pitch |-> samples.pitch.sum \div samples.count]

RelativeTo(neutral, pose) ==
  [yaw |-> pose.yaw - neutral.yaw, pitch |-> pose.pitch - neutral.pitch]

updatePoseCalibrator(calibrator, ts, pose) ==
  IF NotAfter(calibrator.last, ts)
  THEN [calibrator |-> calibrator, answer |-> None]
  ELSE IF calibrator.neutral # None
  THEN [calibrator |-> [calibrator EXCEPT !.last = ts],
        answer |-> RelativeTo(calibrator.neutral, pose)]
  ELSE LET samples == AddPose(calibrator.samples, ts, pose)
           done == ts - samples.started >= NeutralConfirmation
           neutral == IF done THEN NeutralOf(samples) ELSE None
       IN  [calibrator |-> [last |-> ts, samples |-> samples,
                            neutral |-> neutral],
            answer |-> IF done THEN RelativeTo(neutral, pose) ELSE None]
=============================================================================
