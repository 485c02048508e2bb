------------------------ MODULE FramePipelineHistory ------------------------
(***************************************************************************)
(* The frame loop with history variables, and what its parts promise       *)
(* together.                                                               *)
(***************************************************************************)
EXTENDS FramePipeline

LOCAL INSTANCE Sequences

VARIABLES
  unseenSince,    (* the first of the unbroken run of frames without eyes
                     good enough to be measured, or None                    *)
  evidence,       (* the unbroken run of good open-eye measurements since
                     the last recalibration                                 *)
  openSince       (* the first of the unbroken run of frames in which the
                     eyes were measured open, or None                       *)

history == <<unseenSince, evidence, openSince>>

hvars == <<vars, history>>

HInit == Init /\ unseenSince = None /\ evidence = <<>> /\ openSince = None

\* The eyes were measured, in a face towards the camera, and well enough.
WellSeen ==
  /\ frame'.tracked /\ ~TurnedAway(calibratedPose')
  /\ frame'.quality.validity = "Valid"
  /\ Acceptable(frame'.quality.confidence, policy.minimumConfidence)
  /\ Acceptable(frame'.quality.visibility, policy.minimumVisibility)

LessOpen(ears) == IF ears.right < ears.left THEN ears.right ELSE ears.left

OpenEyed ==
  /\ verdict' = "Usable"
  /\ frame'.ears.right # None /\ frame'.ears.left # None
  /\ LessOpen(frame'.ears) >= MinimumCandidateEar

RecordFrame ==
  /\ unseenSince' = IF WellSeen THEN None ELSE StartedBy(unseenSince, now')
  /\ LET kept == IF Recalibrates(now', frame') THEN <<>> ELSE evidence
         sample == [at |-> now', ear |-> LessOpen(frame'.ears)]
     IN  evidence' = IF eyeCalibrationApplied /\ ~Recalibrates(now', frame')
                     THEN <<>>
                     ELSE IF OpenEyed THEN Append(kept, sample) ELSE <<>>
  /\ UNCHANGED openSince

RecordEvents ==
  /\ openSince' = IF eyeResult'.state = "Open" THEN StartedBy(openSince, now)
                                               ELSE None
  /\ UNCHANGED <<unseenSince, evidence>>

HNext ==
  \/ NextFrame /\ RecordFrame
  \/ Derive /\ RecordEvents

HSpec == HInit /\ [][HNext]_hvars

-----------------------------------------------------------------------------
(***************************************************************************)
(* What is said of the eyes is said under a calibration of this driver:    *)
(* the eye state is known only while the calibration in force is the one   *)
(* the calibrator found, never under the fixed values the metrics start    *)
(* with nor those of the driver before                                     *)
(* (docs/STAGE20_OPERATIONAL_POLICY_RECOMMENDATION.md, Eye calibration).   *)
(***************************************************************************)
MetricsUseDriverCalibration ==
  eyes # "Unknown" =>
    eyeCalibrationApplied /\ calibration = eyeCalibrator.calibration

(***************************************************************************)
(* A calibration is applied only at the end of an unbroken run of good     *)
(* open-eye measurements of at least the confirmation time, close together *)
(* and all since the last recalibration, and it lies among them            *)
(* (EyeOpenCalibrator::update behind the quality gate).                    *)
(***************************************************************************)
Steady(samples) ==
  \A a, b \in {samples[i].ear : i \in DOMAIN samples} : a - b <= MaximumEarRange

CalibratedOnStableEvidence ==
  [][eyeCalibrationApplied' /\ ~eyeCalibrationApplied =>
       \E first \in DOMAIN evidence' :
         LET run == SubSeq(evidence', first, Len(evidence'))
         IN  /\ now' - run[1].at >= EyeConfirmation
             /\ Steady(run)
             /\ \E i, j \in DOMAIN run :
                  /\ run[i].ear <= calibration'.openEar
                  /\ calibration'.openEar <= run[j].ear]_hvars

(***************************************************************************)
(* A distraction is raised only on eyes seen open without a break for the  *)
(* whole distraction time: a blink, an occlusion or a recalibration in     *)
(* between starts it afresh (the gaze of DistractionFsm is usable only     *)
(* with usable, open eyes).                                                *)
(***************************************************************************)
DistractionNeedsOpenEyes ==
  gazeResult.event => Elapsed(openSince, now, DistractionDuration)

(***************************************************************************)
(* Once the driver is confirmed absent nothing learnt of the driver's eyes *)
(* is in force, and it stays so until the next driver has been calibrated: *)
(* the two clocks of absence, in the loop and in DriverPresenceFsm, must   *)
(* agree on it.                                                            *)
(***************************************************************************)
AbsentDriverIsForgotten ==
  presence = "Absent" /\ phase = "capture" =>
    ~eyeCalibrationApplied /\ eyes = "Unknown"

(***************************************************************************)
(* "Monitoring unavailable" is announced only when the eyes have not been  *)
(* seen well in any frame for the notification time; calibrating, or       *)
(* confirming that quality is back, is no outage.                          *)
(***************************************************************************)
NotifiedOnlyWhenUnseen ==
  availabilityResult.notify /\ phase = "capture" =>
    Elapsed(unseenSince, now, NotifyAfter)

(***************************************************************************)
(* "Occlusion/unavailable: Record after 500 ms; show monitoring            *)
(* unavailable after 2 s" (docs/STAGE20_..., Occlusion/unavailable): when  *)
(* the eyes of a driver who was once monitored have not been seen well     *)
(* for the notification time, monitoring is shown to be unavailable.       *)
(***************************************************************************)
LongOutageIsNotified ==
  /\ phase = "capture" /\ calibrationCompletedOnce
  /\ Elapsed(unseenSince, now, NotifyAfter)
  => availabilityResult.notify
=============================================================================
