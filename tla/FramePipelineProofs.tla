------------------------- MODULE FramePipelineProofs -------------------------
(***************************************************************************)
(* What the parts of the frame loop promise together, for every policy,    *)
(* any frames in any order and any times between them.                     *)
(***************************************************************************)
EXTENDS FramePipelineHistory, SequenceTheorems, TLAPS

\* An instant that may be absent, as the two cases the proofs distinguish.
Instant(x) == x = None \/ x \in Int

NotLater(since, then) == since # None => then # None /\ since <= then

LEMMA LongerSinceEarlier ==
  \A ts, since, earlier, d \in Int :
    ts - since >= d /\ earlier <= since => ts - earlier >= d
OBVIOUS

-----------------------------------------------------------------------------
(* The eye calibrator.                                                     *)

\* The fields a calibrator has.
IsCalibrator(c) ==
  /\ c = [last |-> c.last, samples |-> c.samples,
          calibration |-> c.calibration]
  /\ c.samples = [started |-> c.samples.started, run |-> c.samples.run,
                  count |-> c.samples.count]

LEMMA NewIsCalibrator ==
  /\ IsCalibrator(NewEyeCalibrator)
  /\ NewEyeCalibrator.last = None /\ NewEyeCalibrator.calibration = None
  /\ NewEyeCalibrator.samples = NoEyeRun
BY DEF IsCalibrator, NewEyeCalibrator, NoEyeRun

\* An update answers with the calibration it has found, once it has one.
LEMMA CalibratorUpdates ==
  ASSUME NEW c, IsCalibrator(c), NEW ts, NEW u, NEW e
  PROVE  LET updated == updateEyeCalibrator(c, ts, u, e)
         IN  /\ IsCalibrator(updated.calibrator)
             /\ updated.calibrator.last \in {c.last, ts}
             /\ updated.answer # None =>
                  updated.calibrator.calibration = updated.answer
             /\ c.calibration = None /\ updated.answer = None =>
                  updated.calibrator.calibration = None
<1> DEFINE updated == updateEyeCalibrator(c, ts, u, e)
           samples == EyeSamples(c.samples, ts, u, e)
<1>1. CASE NotAfter(c.last, ts)
  <2>1. updated = [calibrator |-> c, answer |-> None]
    BY <1>1 DEF updateEyeCalibrator
  <2> QED
    BY <2>1
<1>2. CASE ~NotAfter(c.last, ts) /\ c.calibration # None
  <2>1. updated = [calibrator |-> [last |-> ts, samples |-> c.samples,
                                   calibration |-> c.calibration],
                   answer |-> c.calibration]
    BY <1>2 DEF updateEyeCalibrator, IsCalibrator
  <2> QED
    BY <1>2, <2>1 DEF IsCalibrator
<1>3. CASE ~NotAfter(c.last, ts) /\ c.calibration = None
  <2>1. PICK answer :
          updated = [calibrator |-> [last |-> ts, samples |-> samples,
                                     calibration |-> answer],
                     answer |-> answer]
    BY <1>3 DEF updateEyeCalibrator
  <2>2. samples = [started |-> samples.started, run |-> samples.run,
                   count |-> samples.count]
    BY DEF EyeSamples, NoEyeRun, AddEar, IsCalibrator
  <2> QED
    BY <2>1, <2>2 DEF IsCalibrator
<1> QED
  BY <1>1, <1>2, <1>3

-----------------------------------------------------------------------------
(* One time stamp for all the parts, later in every frame than in the last *)
(* one: nobody ever rejects a sample.                                      *)

\* Called in the first half of an iteration, or in the second.
CalledIn(last) ==
  Instant(last) /\ NotLater(last, now)

CalledAfter(last) ==
  /\ Instant(last) /\ NotLater(last, now)
  /\ last # None /\ phase = "events" => last < now

Clock ==
  /\ IsCalibrator(eyeCalibrator)
  /\ now = None \/ now \in Timestamps
  /\ phase \in {"capture", "events"} /\ (phase = "events" => now # None)
  /\ CalledIn(gateLast) /\ CalledIn(eyeCalibrator.last)
  /\ CalledAfter(eyesLast) /\ CalledAfter(gazeLast)
  /\ CalledAfter(seatLast) /\ CalledAfter(sightLast)

\* A frame is observed later than the one before it.
LEMMA FrameComes ==
  ASSUME Clock, NextFrame
  PROVE  \E ts \in Timestamps, f \in Frames :
           /\ Observe(ts, f) /\ ts \in Int
           /\ now # None => now \in Int /\ now < ts
<1>1. now # None => now \in Int
  BY TimestampsAssumption DEF Clock
<1>2. CASE \E f \in Frames : now = None /\ Observe(FirstFrame, f)
  BY <1>2, FramePipelineAssumption, TimestampsAssumption
<1>3. CASE \E f \in Frames : \E period \in FramePeriods :
             /\ now # None /\ now + period \in Timestamps
             /\ Observe(now + period, f)
  <2>1. PICK f \in Frames, period \in FramePeriods :
               /\ now # None /\ now + period \in Timestamps
               /\ Observe(now + period, f)
    BY <1>3
  <2>2. period \in Nat /\ period # 0
    BY FramePipelineAssumption
  <2>3. now \in Int /\ now + period \in Int /\ now < now + period
    BY <1>1, <2>1, <2>2
  <2> QED
    BY <2>1, <2>3
<1> QED
  BY <1>2, <1>3 DEF NextFrame

\* What the eye metrics make of a sample.
LEMMA EyesFollow ==
  ASSUME NEW ts, NEW u, NEW r, NEW l, Eyes!update(ts, u, r, l)
  PROVE  \/ Eyes!RejectSample(ts)
         \/ /\ Eyes!AcceptSample(ts)
            /\ eyes' = Eyes!NextState(Eyes!Openness(u, r, l))
            /\ eyeResult'.state = eyes'
<1> DEFINE openness == Eyes!Openness(u, r, l)
<1>1. CASE Eyes!LoseSight(ts, openness)
  BY <1>1 DEF Eyes!LoseSight, Eyes!ReportNoEvent, Eyes!Report
<1>2. CASE Eyes!CloseEyes(ts, openness)
  BY <1>2 DEF Eyes!CloseEyes, Eyes!Report
<1>3. CASE Eyes!OpenEyes(ts, openness)
  BY <1>3 DEF Eyes!OpenEyes, Eyes!ReportNoEvent, Eyes!Report
<1>4. CASE Eyes!ConfirmReopening(ts, openness)
  BY <1>4 DEF Eyes!ConfirmReopening, Eyes!Report
<1> QED
  BY <1>1, <1>2, <1>3, <1>4 DEF Eyes!update, Eyes!Sample

\* What an update leaves of the time stamp it was given.
LEMMA Stamps ==
  /\ \A h, ts : Gate!update(h, ts) => gateLast' \in {gateLast, ts}
  /\ \A ts, u, r, l : Eyes!update(ts, u, r, l) => eyesLast' \in {eyesLast, ts}
  /\ \A ts, u, x, y, h : Gaze!update(ts, u, x, y, h) =>
                           gazeLast' \in {gazeLast, ts}
  /\ \A ts, u, d : Seat!update(ts, u, d) => seatLast' \in {seatLast, ts}
  /\ \A ts, u : Sight!update(ts, u) => sightLast' \in {sightLast, ts}
<1>1. \A h, ts : Gate!update(h, ts) => gateLast' \in {gateLast, ts}
  BY DEF Gate!update, Gate!RejectTimestamp, Gate!LoseQuality,
         Gate!StayUsable, Gate!Recover
<1>2. \A ts, u, r, l : Eyes!update(ts, u, r, l) => eyesLast' \in {eyesLast, ts}
  BY EyesFollow DEF Eyes!RejectSample, Eyes!AcceptSample
<1>3. \A ts, u, x, y, h : Gaze!update(ts, u, x, y, h) =>
                            gazeLast' \in {gazeLast, ts}
  BY DEF Gaze!update, Gaze!Sample, Gaze!RejectSample, Gaze!LoseGaze,
         Gaze!LookAway, Gaze!LookForward, Gaze!FollowGaze, Gaze!AcceptSample
<1>4. \A ts, u, d : Seat!update(ts, u, d) => seatLast' \in {seatLast, ts}
  BY DEF Seat!update, Seat!Sample, Seat!RejectSample, Seat!LoseEvidence,
         Seat!FollowEvidence, Seat!AcceptSample
<1>5. \A ts, u : Sight!update(ts, u) => sightLast' \in {sightLast, ts}
  BY DEF Sight!update, Sight!RejectSample, Sight!BecomeAvailable,
         Sight!StayUnavailable, Sight!AcceptSample
<1> QED
  BY <1>1, <1>2, <1>3, <1>4, <1>5

\* What becomes of the eye metrics and the calibrator in the first half.
LEMMA CalibratorStamps ==
  ASSUME IsCalibrator(eyeCalibrator), NEW ts, NEW f, Observe(ts, f)
  PROVE  /\ eyesLast' \in {None, eyesLast}
         /\ eyeCalibrator'.last \in {None, eyeCalibrator.last, ts}
         /\ IsCalibrator(eyeCalibrator)'
<1>1. \A c, u, e : IsCalibrator(c) =>
        LET updated == updateEyeCalibrator(c, ts, u, e)
        IN  IsCalibrator(updated.calibrator)
            /\ updated.calibrator.last \in {c.last, ts}
  BY CalibratorUpdates
<1>2. NewEyeCalibrator.last = None /\ IsCalibrator(NewEyeCalibrator)
  BY NewIsCalibrator
<1>3. CASE KeepCalibration(ts, f)
  BY <1>3 DEF KeepCalibration, eyeVars
<1>4. CASE AwaitCalibration(ts, f)
  BY <1>1, <1>2, <1>4
  DEF AwaitCalibration, eyeVars, Eyes!reset, Eyes!ClearState
<1>5. CASE ApplyCalibration(ts, f)
  BY <1>1, <1>5 DEF ApplyCalibration, Eyes!setCalibration, Eyes!ClearState
<1> QED
  BY <1>3, <1>4, <1>5 DEF Observe

LEMMA ClockInit == Init => Clock
BY NewIsCalibrator
DEF Init, Clock, CalledIn, CalledAfter, Instant, NotLater,
       NewEyeCalibrator, Gate!Init, Eyes!Init, Gaze!Init, Seat!Init, Sight!Init

LEMMA ObserveKeepsTime ==
  ASSUME Clock, NEW ts \in Timestamps, NEW f, Observe(ts, f),
         now # None => now \in Int /\ now < ts
  PROVE  Clock'
<1>1. /\ ts \in Int /\ ts # None /\ now' = ts /\ phase' = "events"
      /\ gazeLast' = gazeLast /\ seatLast' = seatLast
      /\ sightLast' = sightLast
  BY NoneAssumption, TimestampsAssumption DEF Observe, machineVars
<1>2. gateLast' \in {gateLast, ts}
  BY Stamps DEF Observe
<1>3. /\ eyesLast' \in {None, eyesLast}
      /\ eyeCalibrator'.last \in {None, eyeCalibrator.last, ts}
      /\ IsCalibrator(eyeCalibrator)'
  BY CalibratorStamps DEF Clock
<1>4. ASSUME NEW last, Instant(last), NotLater(last, now)
      PROVE  last # None => last \in Int /\ last < ts
  BY <1>1, <1>4 DEF Instant, NotLater
<1>5. /\ CalledIn(gateLast)' /\ CalledIn(eyeCalibrator.last)'
  BY <1>1, <1>2, <1>3, <1>4 DEF Clock, CalledIn, Instant, NotLater
<1>6. /\ CalledAfter(eyesLast)' /\ CalledAfter(gazeLast)'
      /\ CalledAfter(seatLast)' /\ CalledAfter(sightLast)'
  BY <1>1, <1>3, <1>4 DEF Clock, CalledAfter, Instant, NotLater
<1> QED
  BY <1>1, <1>3, <1>5, <1>6 DEF Clock

LEMMA DeriveKeepsTime ==
  ASSUME Clock, Derive
  PROVE  Clock'
<1>1. /\ now \in Timestamps /\ now # None /\ now \in Int
      /\ IsCalibrator(eyeCalibrator)
      /\ now' = now /\ phase' = "capture"
      /\ gateLast' = gateLast /\ eyeCalibrator' = eyeCalibrator
  BY TimestampsAssumption DEF Clock, Derive, loopVars, gateVars
<1>2. /\ eyesLast' \in {eyesLast, now} /\ gazeLast' \in {gazeLast, now}
      /\ seatLast' \in {seatLast, now} /\ sightLast' \in {sightLast, now}
  BY Stamps DEF Derive
<1>3. /\ CalledIn(gateLast)' /\ CalledIn(eyeCalibrator.last)'
  BY <1>1 DEF Clock, CalledIn, Instant, NotLater
<1>4. /\ CalledAfter(eyesLast)' /\ CalledAfter(gazeLast)'
      /\ CalledAfter(seatLast)' /\ CalledAfter(sightLast)'
  BY <1>1, <1>2 DEF Clock, CalledAfter, Instant, NotLater
<1> QED
  BY <1>1, <1>3, <1>4 DEF Clock

\* No part rejects a sample.
LEMMA NobodyRejects ==
  /\ Clock /\ phase = "events" =>
       /\ now \in Int
       /\ ~Eyes!NotAfter(eyesLast, now) /\ ~Gaze!NotAfter(gazeLast, now)
       /\ ~Seat!NotAfter(seatLast, now) /\ ~Sight!NotAfter(sightLast, now)
  /\ \A ts \in Int : Clock /\ (now # None => now \in Int /\ now < ts) =>
       ~Gate!NotAfter(gateLast, ts) /\ ~NotAfter(eyeCalibrator.last, ts)
<1>1. ASSUME Clock, phase = "events"
      PROVE  /\ now \in Int
             /\ ~Eyes!NotAfter(eyesLast, now) /\ ~Gaze!NotAfter(gazeLast, now)
             /\ ~Seat!NotAfter(seatLast, now)
             /\ ~Sight!NotAfter(sightLast, now)
  <2>1. now \in Int
    BY <1>1, TimestampsAssumption DEF Clock
  <2>2. ASSUME NEW last, CalledAfter(last)
        PROVE  last # None => last \in Int /\ ~(now <= last)
    BY <1>1, <2>1, <2>2 DEF CalledAfter, Instant
  <2> QED
    BY <1>1, <2>1, <2>2
    DEF Clock, Eyes!NotAfter, Gaze!NotAfter, Seat!NotAfter, Sight!NotAfter
<1>2. ASSUME NEW ts \in Int, Clock, now # None => now \in Int /\ now < ts
      PROVE  ~Gate!NotAfter(gateLast, ts) /\ ~NotAfter(eyeCalibrator.last, ts)
  <2>1. ASSUME NEW last, CalledIn(last)
        PROVE  last # None => last \in Int /\ ~(ts <= last)
    BY <1>2, <2>1 DEF CalledIn, Instant, NotLater
  <2> QED
    BY <1>2, <2>1 DEF Clock, Gate!NotAfter, NotAfter
<1> QED
  BY <1>1, <1>2

-----------------------------------------------------------------------------
(* The clock is kept by every step of the loop.                            *)

LEMMA ClockStep == Clock /\ [HNext]_hvars => Clock'
<1>1. ASSUME Clock, NextFrame PROVE Clock'
  <2>1. PICK ts \in Timestamps, f \in Frames :
               /\ Observe(ts, f) /\ ts \in Int
               /\ now # None => now \in Int /\ now < ts
    BY <1>1, FrameComes
  <2> QED
    BY <1>1, <2>1, ObserveKeepsTime
<1>2. ASSUME Clock, Derive PROVE Clock'
  BY <1>2, DeriveKeepsTime
<1>3. ASSUME Clock, UNCHANGED hvars PROVE Clock'
  BY <1>3
  DEF Clock, CalledIn, CalledAfter, Instant, NotLater, hvars, vars, loopVars,
      gateVars, eyeVars, machineVars
<1> QED
  BY <1>1, <1>2, <1>3 DEF HNext

LEMMA ClockIsInvariant == HSpec => []Clock
<1>1. HInit => Clock
  BY ClockInit DEF HInit
<1> QED
  BY <1>1, ClockStep, PTL DEF HSpec

-----------------------------------------------------------------------------
(* The eye calibration of the driver.                                      *)

\* The calibrator answers no more than once: then its answer is in force, and
\* until then the eyes are unknown.
Calibrated ==
  /\ eyeCalibrationApplied \in BOOLEAN
  /\ eyeCalibrationApplied <=> eyeCalibrator.calibration # None
  /\ eyeCalibrationApplied => calibration = eyeCalibrator.calibration
  /\ ~eyeCalibrationApplied => eyes = "Unknown"
  /\ phase = "events" /\ ~eyeCalibrationApplied =>
       eyeUsability = "Recovering"

LEMMA CalibratedInit == Init => Calibrated
BY NewIsCalibrator DEF Init, Calibrated, Eyes!Init

LEMMA ObserveKeepsCalibrated ==
  ASSUME Clock, Calibrated, NEW ts, NEW f, Observe(ts, f)
  PROVE  Calibrated'
<1>1. IsCalibrator(eyeCalibrator)
  BY DEF Clock
<1>2. CASE KeepCalibration(ts, f)
  BY <1>2 DEF KeepCalibration, eyeVars, Calibrated
<1>3. CASE AwaitCalibration(ts, f)
  <2>1. PICK before :
          /\ IsCalibrator(before) /\ before.calibration = None
          /\ updateEyeCalibrator(before, ts, verdict', SeenEars(f)).answer
               = None
          /\ eyeCalibrator' =
               updateEyeCalibrator(before, ts, verdict', SeenEars(f)).calibrator
    BY <1>1, <1>3, NewIsCalibrator DEF AwaitCalibration, Calibrated
  <2>2. eyeCalibrator'.calibration = None
    BY <2>1, CalibratorUpdates
  <2>3. eyes' = "Unknown"
    BY <1>3
    DEF AwaitCalibration, Calibrated, Eyes!reset, Eyes!ClearState, eyeVars
  <2> QED
    BY <1>3, <2>2, <2>3 DEF AwaitCalibration, AwaitedUsability, Calibrated
<1>4. CASE ApplyCalibration(ts, f)
  <2>1. /\ eyeCalibrator'.calibration # None
        /\ calibration' = eyeCalibrator'.calibration
    BY <1>1, <1>4, CalibratorUpdates DEF ApplyCalibration, Eyes!setCalibration
  <2> QED
    BY <1>4, <2>1 DEF ApplyCalibration, Calibrated
<1> QED
  BY <1>2, <1>3, <1>4 DEF Observe

\* Eyes that may not be trusted are unknown.
LEMMA UntrustedEyesAreUnknown ==
  ASSUME NEW ts, NEW u, NEW r, NEW l, Eyes!update(ts, u, r, l)
  PROVE  /\ calibration' = calibration
         /\ u # "Usable" /\ eyes = "Unknown" => eyes' = "Unknown"
<1>1. CASE Eyes!RejectSample(ts)
  BY <1>1 DEF Eyes!RejectSample, Eyes!fsm
<1>2. CASE /\ Eyes!AcceptSample(ts)
           /\ eyes' = Eyes!NextState(Eyes!Openness(u, r, l))
  BY <1>2 DEF Eyes!AcceptSample, Eyes!NextState, Eyes!Openness
<1> QED
  BY <1>1, <1>2, EyesFollow

LEMMA DeriveKeepsCalibrated ==
  ASSUME Calibrated, Derive
  PROVE  Calibrated'
<1>1. /\ phase = "events" /\ phase' = "capture"
      /\ UNCHANGED <<eyeCalibrator, eyeCalibrationApplied>>
  BY DEF Derive, loopVars
<1>2. /\ calibration' = calibration
      /\ eyeUsability # "Usable" /\ eyes = "Unknown" => eyes' = "Unknown"
  BY UntrustedEyesAreUnknown DEF Derive
<1> QED
  BY <1>1, <1>2 DEF Calibrated

LEMMA CalibratedStep ==
  Clock /\ Calibrated /\ [HNext]_hvars => Calibrated'
<1>1. ASSUME Clock, Calibrated, NextFrame PROVE Calibrated'
  BY <1>1, ObserveKeepsCalibrated DEF NextFrame
<1>2. ASSUME Calibrated, Derive PROVE Calibrated'
  BY <1>2, DeriveKeepsCalibrated
<1>3. ASSUME Calibrated, UNCHANGED hvars PROVE Calibrated'
  BY <1>3 DEF Calibrated, hvars, vars, loopVars, eyeVars
<1> QED
  BY <1>1, <1>2, <1>3 DEF HNext

LEMMA CalibratedIsInvariant == HSpec => []Calibrated
<1>1. HInit => Calibrated
  BY CalibratedInit DEF HInit
<1> QED
  BY <1>1, CalibratedStep, ClockIsInvariant, PTL DEF HSpec

(***************************************************************************)
(* The eyes are known to be open or closed only under the calibration the  *)
(* calibrator found in this driver: reset and setCalibration forget them,  *)
(* and an observation before the calibration is never handed on as usable. *)
(***************************************************************************)
THEOREM EyesAreKnownWhenCalibrated == HSpec => []MetricsUseDriverCalibration
<1>1. Calibrated => MetricsUseDriverCalibration
  BY DEF Calibrated, MetricsUseDriverCalibration
<1> QED
  BY <1>1, CalibratedIsInvariant, PTL

-----------------------------------------------------------------------------
(* The quality gate.                                                       *)

\* The gate trusts eyes seen well, at the latest once that has lasted, and no
\* eyes that were not tracked.
LEMMA GateFollows ==
  ASSUME Clock, NEW ts \in Int, now # None => now \in Int /\ now < ts,
         NEW f, Observe(ts, f)
  PROVE  /\ WellSeen => verdict' \in {"Usable", "Recovering"}
         /\ verdict' = "Usable" => f.tracked
         /\ eyeUsability' \in {verdict', "Recovering"}
<1> DEFINE header == QualityHeader(ts, f, calibratedPose')
           classified == Gate!classifyObservation(header, ts, policy)
<1>1. Gate!update(header, ts) /\ frame' = f
  BY DEF Observe
<1>2. ~Gate!RejectTimestamp(ts)
  BY NobodyRejects DEF Gate!RejectTimestamp
<1>3. \/ Gate!LoseQuality(classified, ts)
      \/ Gate!StayUsable(classified, ts)
      \/ Gate!Recover(classified, ts)
  BY <1>1, <1>2 DEF Gate!update
<1>4. /\ classified # "Usable" => verdict' = classified
      /\ classified = "Usable" => verdict' \in {"Usable", "Recovering"}
  BY <1>3 DEF Gate!LoseQuality, Gate!StayUsable, Gate!Recover
<1>5. /\ header.capturedAt = ts
      /\ header.validity = IF f.tracked THEN f.quality.validity ELSE "Missing"
      /\ f.tracked => header.visibility = f.quality.visibility
      /\ f.tracked /\ ~TurnedAway(calibratedPose') =>
           header.confidence = f.quality.confidence
  BY DEF QualityHeader
<1>6. ~(ts < ts) /\ ~(ts - ts > policy.maximumAge)
  BY GateConfigAssumption DEF ValidGateConfig, ObservationPolicy
<1>7. WellSeen => classified = "Usable"
  <2>1. SUFFICES ASSUME WellSeen PROVE classified = "Usable"
    OBVIOUS
  <2>2. /\ header.validity = "Valid"
        /\ Acceptable(header.confidence, policy.minimumConfidence)
        /\ Acceptable(header.visibility, policy.minimumVisibility)
    BY <1>1, <1>5, <2>1 DEF WellSeen
  <2>3. /\ Gate!Acceptable(header.confidence, policy.minimumConfidence)
        /\ Gate!Acceptable(header.visibility, policy.minimumVisibility)
    BY <2>2 DEF Acceptable, Gate!Acceptable
  <2> QED
    BY <1>5, <1>6, <2>2, <2>3 DEF Gate!classifyObservation
<1>8. ~f.tracked => classified = "Missing"
  BY <1>5 DEF Gate!classifyObservation
<1>9. eyeUsability' \in {verdict', "Recovering"}
  BY DEF Observe, KeepCalibration, AwaitCalibration, AwaitedUsability,
         ApplyCalibration
<1> QED
  BY <1>4, <1>7, <1>8, <1>9

-----------------------------------------------------------------------------
(* The announcement that monitoring is unavailable.                        *)

\* The eyes count as unseen where the availability machine will be told so.
Unseen == phase = "events" /\ eyeUsability \notin {"Usable", "Recovering"}

\* An episode covers only frames in which the eyes were not seen well, and its
\* notification is as old as the notification time.
OutageUnseen ==
  /\ Instant(unseenSince) /\ NotLater(unseenSince, now)
  /\ unavailableSince \in Int /\ notified \in BOOLEAN
  /\ Unseen => unseenSince # None
  /\ (phase = "capture" \/ Unseen) /\ unavailableSince # 0 =>
       unseenSince # None /\ unseenSince <= unavailableSince
  /\ notified => /\ unavailableSince # 0 /\ now # None
                 /\ now - unavailableSince >= NotifyAfter
  /\ availabilityResult.notify => notified

LEMMA OutageInit == HInit => OutageUnseen
<1> SUFFICES ASSUME HInit PROVE OutageUnseen
  OBVIOUS
<1>1. /\ unseenSince = None /\ unavailableSince = 0 /\ phase = "capture"
      /\ notified = FALSE /\ availabilityResult = Sight!Available
  BY DEF HInit, Init, Sight!Init
<1>2. notified \in BOOLEAN /\ ~notified /\ ~availabilityResult.notify
  BY <1>1 DEF Sight!Available
<1>3. unseenSince = None /\ unavailableSince = 0 /\ ~Unseen
  BY <1>1 DEF Unseen
<1> QED
  BY <1>2, <1>3 DEF OutageUnseen, Instant, NotLater

LEMMA ObserveKeepsOutage ==
  ASSUME Clock, OutageUnseen, RecordFrame, NEW ts \in Int, ts # None,
         now # None => now \in Int /\ now < ts, NEW f, Observe(ts, f)
  PROVE  OutageUnseen'
<1>1. /\ now' = ts /\ phase = "capture" /\ phase' = "events"
      /\ unavailableSince' = unavailableSince /\ notified' = notified
      /\ availabilityResult' = availabilityResult
  BY DEF Observe, machineVars
<1>2. unseenSince' = IF WellSeen THEN None ELSE StartedBy(unseenSince, ts)
  BY <1>1 DEF RecordFrame
<1>3. Unseen' => ~WellSeen
  BY GateFollows DEF Unseen
<1>4. \/ unseenSince' = None
      \/ unseenSince' = ts
      \/ unseenSince # None /\ unseenSince' = unseenSince
  BY <1>2 DEF StartedBy
<1>5. Instant(unseenSince)' /\ NotLater(unseenSince, now)'
  BY <1>1, <1>4 DEF OutageUnseen, Instant, NotLater
<1>6. Unseen' => unseenSince' # None
  BY <1>2, <1>3 DEF StartedBy
<1>7. (phase = "capture" \/ Unseen)' /\ unavailableSince' # 0 =>
        unseenSince' # None /\ unseenSince' <= unavailableSince'
  BY <1>1, <1>2, <1>3 DEF OutageUnseen, StartedBy
<1>8. notified' => /\ unavailableSince' # 0 /\ now' # None
                   /\ now' - unavailableSince' >= NotifyAfter
  BY <1>1, AvailabilityConfigAssumption
  DEF OutageUnseen, ValidAvailabilityConfig
<1> QED
  BY <1>1, <1>5, <1>6, <1>7, <1>8 DEF OutageUnseen

LEMMA DeriveKeepsOutage ==
  ASSUME Clock, OutageUnseen, Derive, RecordEvents
  PROVE  OutageUnseen'
<1>1. /\ phase = "events" /\ phase' = "capture" /\ now' = now
      /\ unseenSince' = unseenSince /\ Sight!update(now, eyeUsability)
  BY DEF Derive, RecordEvents
<1>2. now # None /\ now \in Int /\ now # 0
  BY <1>1, NoZeroTimestamp, TimestampsAssumption DEF Clock
<1>3. ~Sight!RejectSample(now)
  BY <1>1, NobodyRejects DEF Sight!RejectSample
<1>4. CASE Sight!BecomeAvailable(now, eyeUsability)
  <2>1. /\ notified' \in BOOLEAN /\ ~notified' /\ ~availabilityResult'.notify
    BY <1>4 DEF Sight!BecomeAvailable, Sight!Available
  <2>2. unavailableSince' = 0 /\ ~Unseen'
    BY <1>1, <1>4 DEF Sight!BecomeAvailable, Unseen
  <2>3. Instant(unseenSince)' /\ NotLater(unseenSince, now)'
    BY <1>1 DEF OutageUnseen, Instant, NotLater
  <2> QED
    BY <2>1, <2>2, <2>3 DEF OutageUnseen
<1>5. CASE Sight!StayUnavailable(now, eyeUsability)
  <2> DEFINE since == IF unavailableSince = 0 THEN now ELSE unavailableSince
  <2>1. /\ unavailableSince' = since
        /\ \/ notified' = notified
           \/ notified' = TRUE /\ now - since >= NotifyAfter
        /\ availabilityResult'.notify = notified'
    BY <1>5 DEF Sight!StayUnavailable, Sight!durationOf, OutageUnseen
  <2>2. Unseen
    BY <1>1, <1>5 DEF Sight!StayUnavailable, Sight!IsAvailable, Unseen
  <2>3. since \in Int /\ since # 0
    BY <1>2 DEF OutageUnseen
  <2>4. unseenSince # None /\ unseenSince <= since
    BY <2>2 DEF OutageUnseen, NotLater
  <2>5. notified' \in BOOLEAN /\ (notified' => now - since >= NotifyAfter)
    BY <2>1 DEF OutageUnseen
  <2> QED
    BY <1>1, <1>2, <2>1, <2>3, <2>4, <2>5
    DEF OutageUnseen, Unseen, Instant, NotLater
<1> QED
  BY <1>1, <1>3, <1>4, <1>5 DEF Sight!update

LEMMA OutageStep == Clock /\ OutageUnseen /\ [HNext]_hvars => OutageUnseen'
<1>1. ASSUME Clock, OutageUnseen, NextFrame, RecordFrame PROVE OutageUnseen'
  <2>1. PICK ts \in Timestamps, f \in Frames :
               /\ Observe(ts, f) /\ ts \in Int
               /\ now # None => now \in Int /\ now < ts
    BY <1>1, FrameComes
  <2>2. ts # None
    BY <2>1, NoneAssumption
  <2> QED
    BY <1>1, <2>1, <2>2, ObserveKeepsOutage
<1>2. ASSUME Clock, OutageUnseen, Derive, RecordEvents PROVE OutageUnseen'
  BY <1>2, DeriveKeepsOutage
<1>3. ASSUME OutageUnseen, UNCHANGED hvars PROVE OutageUnseen'
  BY <1>3
  DEF OutageUnseen, Unseen, Instant, NotLater, hvars, history, vars, loopVars,
      machineVars
<1> QED
  BY <1>1, <1>2, <1>3 DEF HNext

LEMMA OutageIsInvariant == HSpec => []OutageUnseen
BY OutageInit, OutageStep, ClockIsInvariant, PTL DEF HSpec

(***************************************************************************)
(* Neither the gate, which hides eyes seen well until that has lasted, nor *)
(* the calibration, which hides them until it is done, nor the zero that   *)
(* stands for no episode ever lets the availability machine announce an    *)
(* outage that is shorter than the notification time.                      *)
(***************************************************************************)
THEOREM OutagesAreUnseen == HSpec => []NotifiedOnlyWhenUnseen
<1>1. Clock /\ OutageUnseen => NotifiedOnlyWhenUnseen
  <2>1. SUFFICES ASSUME Clock, OutageUnseen, availabilityResult.notify,
                        phase = "capture"
                 PROVE  Elapsed(unseenSince, now, NotifyAfter)
    BY DEF NotifiedOnlyWhenUnseen
  <2>2. /\ now \in Int /\ unavailableSince \in Int /\ NotifyAfter \in Int
        /\ now - unavailableSince >= NotifyAfter
    BY <2>1, TimestampsAssumption, AvailabilityConfigAssumption
    DEF OutageUnseen, Clock, ValidAvailabilityConfig
  <2>3. unseenSince # None /\ unseenSince \in Int
        /\ unseenSince <= unavailableSince
    BY <2>1 DEF OutageUnseen, Instant
  <2> QED
    BY <2>2, <2>3, LongerSinceEarlier DEF Elapsed
<1> QED
  BY <1>1, OutageIsInvariant, ClockIsInvariant, PTL

-----------------------------------------------------------------------------
(* The distraction and the eyes it is seen with.                           *)

\* A gaze stays away only while the eyes stay open.
AwayWithOpenEyes ==
  /\ Instant(openSince) /\ NotLater(openSince, now)
  /\ awaySince # None =>
       /\ awaySince \in Int /\ openSince # None /\ openSince <= awaySince
  /\ gazeResult.event => Elapsed(openSince, now, DistractionDuration)

LEMMA AwayInit == HInit => AwayWithOpenEyes
<1> SUFFICES ASSUME HInit PROVE AwayWithOpenEyes
  OBVIOUS
<1>1. openSince = None /\ awaySince = None
  BY DEF HInit, Init, Gaze!Init
<1>2. ~gazeResult.event
  BY DEF HInit, Init, Gaze!Init
<1> QED
  BY <1>1, <1>2 DEF AwayWithOpenEyes, Instant, NotLater

LEMMA ObserveKeepsAway ==
  ASSUME AwayWithOpenEyes, RecordFrame, NEW ts \in Int, ts # None,
         now # None => now \in Int /\ now < ts, NEW f, Observe(ts, f)
  PROVE  AwayWithOpenEyes'
<1>1. /\ now' = ts /\ openSince' = openSince /\ awaySince' = awaySince
      /\ gazeResult' = gazeResult
  BY DEF Observe, RecordFrame, machineVars
<1>2. Instant(openSince)' /\ NotLater(openSince, now)'
  BY <1>1 DEF AwayWithOpenEyes, Instant, NotLater
<1>3. Elapsed(openSince, now, DistractionDuration)
        => Elapsed(openSince, now, DistractionDuration)'
  BY <1>1, DistractionConfigAssumption
  DEF AwayWithOpenEyes, Instant, NotLater, Elapsed, ValidDistractionConfig
<1> QED
  BY <1>1, <1>2, <1>3 DEF AwayWithOpenEyes

\* A gaze is used only in open eyes.
LEMMA UsableGazeIsOfOpenEyes ==
  ASSUME NEW raw,
         raw = Gaze!RawGaze(GazeUsability, Of(frame.gaze, "horizontal"),
                            Of(frame.gaze, "vertical")),
         raw # "Unknown"
  PROVE  eyeResult'.state = "Open"
BY DEF Gaze!RawGaze, GazeUsability, UsableIf

LEMMA DeriveKeepsAway ==
  ASSUME Clock, AwayWithOpenEyes, Derive, RecordEvents
  PROVE  AwayWithOpenEyes'
<1> DEFINE raw == Gaze!RawGaze(GazeUsability, Of(frame.gaze, "horizontal"),
                               Of(frame.gaze, "vertical"))
           open == eyeResult'.state = "Open"
<1>1. /\ phase = "events" /\ now' = now
      /\ Gaze!Sample(now, raw, poseResult'.zone)
      /\ openSince' = IF open THEN StartedBy(openSince, now) ELSE None
  BY DEF Derive, RecordEvents, Gaze!update
<1>2. now # None /\ now \in Int /\ ~Gaze!RejectSample(now)
  BY <1>1, NobodyRejects DEF Clock, Gaze!RejectSample
<1>3. raw # "Unknown" => open
  BY UsableGazeIsOfOpenEyes
<1> HIDE DEF raw, open
<1>4. Instant(openSince)' /\ NotLater(openSince, now)'
  BY <1>1, <1>2 DEF AwayWithOpenEyes, Instant, NotLater, StartedBy
<1>5. CASE \/ Gaze!LoseGaze(now, raw)
           \/ Gaze!LookForward(now, raw, poseResult'.zone)
  <2>1. awaySince' = None /\ ~gazeResult'.event
    BY <1>5 DEF Gaze!LoseGaze, Gaze!LookForward
  <2> QED
    BY <1>4, <2>1 DEF AwayWithOpenEyes
<1>6. CASE Gaze!LookAway(now, raw, poseResult'.zone)
  <2> DEFINE since == Gaze!StartedBy(awaySince, now)
  <2>1. /\ awaySince' = since
        /\ gazeResult'.event => now - since >= DistractionDuration
    BY <1>6 DEF Gaze!LookAway
  <2>2. openSince' = StartedBy(openSince, now)
    BY <1>1, <1>3, <1>6 DEF Gaze!LookAway, Gaze!FollowGaze
  <2>3. /\ openSince' # None /\ openSince' \in Int /\ openSince' <= now
        /\ openSince # None => openSince' = openSince
    BY <1>1, <1>2, <1>4, <2>2 DEF Instant, NotLater, StartedBy
  <2>4. awaySince = None => since = now
    BY DEF Gaze!StartedBy
  <2>5. awaySince # None =>
          since = awaySince /\ since \in Int /\ openSince' <= since
    BY <2>3 DEF Gaze!StartedBy, AwayWithOpenEyes
  <2>6. since \in Int /\ openSince' <= since
    BY <1>2, <2>3, <2>4, <2>5
  <2> HIDE DEF since
  <2>7. awaySince' = since
    BY <2>1
  <2>8. gazeResult'.event => Elapsed(openSince, now, DistractionDuration)'
    BY <1>1, <1>2, <2>1, <2>3, <2>6, DistractionConfigAssumption
    DEF Elapsed, ValidDistractionConfig
  <2> QED
    BY <1>4, <2>3, <2>6, <2>7, <2>8 DEF AwayWithOpenEyes
<1> QED
  BY <1>1, <1>2, <1>5, <1>6 DEF Gaze!Sample

LEMMA AwayStep ==
  Clock /\ AwayWithOpenEyes /\ [HNext]_hvars => AwayWithOpenEyes'
<1>1. ASSUME Clock, AwayWithOpenEyes, NextFrame, RecordFrame
      PROVE  AwayWithOpenEyes'
  <2>1. PICK ts \in Timestamps, f \in Frames :
               /\ Observe(ts, f) /\ ts \in Int
               /\ now # None => now \in Int /\ now < ts
    BY <1>1, FrameComes
  <2>2. ts # None
    BY <2>1, NoneAssumption
  <2> QED
    BY <1>1, <2>1, <2>2, ObserveKeepsAway
<1>2. ASSUME Clock, AwayWithOpenEyes, Derive, RecordEvents
      PROVE  AwayWithOpenEyes'
  BY <1>2, DeriveKeepsAway
<1>3. ASSUME AwayWithOpenEyes, UNCHANGED hvars PROVE AwayWithOpenEyes'
  BY <1>3
  DEF AwayWithOpenEyes, Instant, NotLater, Elapsed, hvars, history, vars,
      machineVars
<1> QED
  BY <1>1, <1>2, <1>3 DEF HNext

(***************************************************************************)
(* The frame loop lets no blink, occlusion or recalibration pass between   *)
(* the start of a distraction and its event: it hands the distraction      *)
(* machine a gaze of eyes measured open in that very frame, or none.       *)
(***************************************************************************)
THEOREM DistractionIsOfOpenEyes == HSpec => []DistractionNeedsOpenEyes
<1>1. AwayWithOpenEyes => DistractionNeedsOpenEyes
  BY DEF AwayWithOpenEyes, DistractionNeedsOpenEyes
<1> QED
  BY <1>1, AwayInit, AwayStep, ClockIsInvariant, PTL DEF HSpec

-----------------------------------------------------------------------------
(* A driver who leaves is forgotten.                                       *)

\* A sample ends the run of open eyes, starts one, or continues it.
LEMMA SamplesFollow ==
  ASSUME NEW s, s = [started |-> s.started, run |-> s.run, count |-> s.count],
         NEW ts, NEW u, NEW e
  PROVE  LET new == EyeSamples(s, ts, u, e)
         IN  \/ new = NoEyeRun
             \/ u = "Usable" /\ new.started = ts /\ new.count = 1
             \/ /\ u = "Usable" /\ s.count # 0
                /\ new.started = s.started /\ new.count = s.count + 1
<1>1. \/ EyeSamples(s, ts, u, e) = NoEyeRun
      \/ u = "Usable" /\ \E ear : EyeSamples(s, ts, u, e) = AddEar(s, ts, ear)
  BY Zenon DEF EyeSamples
<1>2. ASSUME NEW ear
      PROVE  LET new == AddEar(s, ts, ear)
             IN  \/ new.started = ts /\ new.count = 1
                 \/ /\ s.count # 0
                    /\ new.started = s.started /\ new.count = s.count + 1
  BY DEF AddEar
<1> QED
  BY <1>1, <1>2

\* A calibrator that has not answered yet answers at the end of a long run.
LEMMA CalibratorAwaits ==
  ASSUME NEW c, IsCalibrator(c), NEW ts, NEW u, NEW e,
         c.calibration = None, ~NotAfter(c.last, ts)
  PROVE  LET updated == updateEyeCalibrator(c, ts, u, e)
             samples == EyeSamples(c.samples, ts, u, e)
         IN  /\ updated.calibrator.samples = samples
             /\ updated.answer # None =>
                  /\ updated.answer = CalibrationOf(samples)
                  /\ samples.count > 0
                  /\ ts - samples.started >= EyeConfirmation
BY DEF updateEyeCalibrator

\* The run of samples before a frame, which a recalibration throws away.
SamplesBefore(ts, f) ==
  IF Recalibrates(ts, f) THEN NoEyeRun ELSE eyeCalibrator.samples

LEMMA SamplesAwaitCalibration ==
  ASSUME Clock, Calibrated, NEW ts \in Int, NEW f,
         now # None => now \in Int /\ now < ts,
         AwaitCalibration(ts, f) \/ ApplyCalibration(ts, f)
  PROVE  /\ eyeCalibrator'.samples =
              EyeSamples(SamplesBefore(ts, f), ts, verdict', SeenEars(f))
         /\ eyeCalibrationApplied' =>
              /\ ~eyeCalibrationApplied /\ ~Recalibrates(ts, f)
              /\ eyeCalibrator'.samples.count > 0
              /\ ts - eyeCalibrator'.samples.started >= EyeConfirmation
              /\ calibration' = CalibrationOf(eyeCalibrator'.samples)
<1> DEFINE before == IF Recalibrates(ts, f) THEN NewEyeCalibrator
                                            ELSE eyeCalibrator
           updated == updateEyeCalibrator(before, ts, verdict', SeenEars(f))
<1>1. IsCalibrator(before) /\ before.samples = SamplesBefore(ts, f)
  BY NewIsCalibrator DEF Clock, SamplesBefore
<1>2. ~NotAfter(before.last, ts)
  BY NobodyRejects, NewIsCalibrator DEF NotAfter
<1>3. before.calibration = None
  BY NewIsCalibrator DEF Calibrated, AwaitCalibration, ApplyCalibration
<1>4. /\ eyeCalibrator' = updated.calibrator
      /\ eyeCalibrationApplied' =>
           /\ ~eyeCalibrationApplied /\ ~Recalibrates(ts, f)
           /\ updated.answer # None /\ calibration' = updated.answer
  BY DEF AwaitCalibration, ApplyCalibration, Eyes!setCalibration
<1> HIDE DEF before
<1> QED
  BY <1>1, <1>2, <1>3, <1>4, CalibratorAwaits

\* When the run of frames that say `seen` began, in the second half of an
\* iteration in which the frame says so, too.
RunStart(seen) == IF candidatePresence = seen THEN presenceSince ELSE now

\* The clock of absence in the loop and the one in the presence machine agree.
ClocksAgree ==
  /\ Instant(presenceSince) /\ NotLater(presenceSince, now)
  /\ candidatePresence # "Unknown" => presenceSince # None
  /\ phase = "capture" =>
       absentSince = IF candidatePresence = "Absent" THEN presenceSince
                                                     ELSE None
  /\ phase = "events" =>
       absentSince = IF frame.detected THEN None ELSE RunStart("Absent")

\* A calibrator still at work has samples of the present driver only.
SampledWhilePresent ==
  ~eyeCalibrationApplied /\ eyeCalibrator.samples.count # 0 =>
    LET started == eyeCalibrator.samples.started
    IN  /\ started \in Int
        /\ phase = "capture" =>
             candidatePresence = "Present" /\ presenceSince <= started
        /\ phase = "events" => frame.detected /\ RunStart("Present") <= started

\* A calibration in force while the driver counts as absent was found in this
\* very frame, in a driver whose presence the frame confirms.
ForgottenWhenAbsent ==
  /\ phase = "events" /\ Elapsed(absentSince, now, RecalibrateAfterAbsence) =>
       ~eyeCalibrationApplied
  /\ eyeCalibrationApplied /\ presence = "Absent" =>
       /\ phase = "events" /\ frame.detected
       /\ candidatePresence = "Present"
       /\ now - presenceSince >= PresentConfirmation

Absence ==
  /\ eyeCalibrator.samples.count \in Nat
  /\ ClocksAgree /\ SampledWhilePresent /\ ForgottenWhenAbsent

LEMMA AbsenceInit == Init => Absence
<1> SUFFICES ASSUME Init PROVE Absence
  OBVIOUS
<1>1. /\ eyeCalibrator.samples.count = 0 /\ phase = "capture"
      /\ candidatePresence = "Unknown" /\ presence = "Unknown"
      /\ presenceSince = None /\ absentSince = None
  BY NewIsCalibrator DEF Init, Seat!Init, NoEyeRun
<1> QED
  BY <1>1
  DEF Absence, ClocksAgree, Instant, NotLater, SampledWhilePresent,
      ForgottenWhenAbsent

LEMMA ObserveKeepsClocks ==
  ASSUME Clock, ClocksAgree, NEW ts \in Int, ts # None,
         now # None => now \in Int /\ now < ts, NEW f, Observe(ts, f)
  PROVE  ClocksAgree'
<1>1. /\ now' = ts /\ phase = "capture" /\ phase' = "events" /\ frame' = f
      /\ presenceSince' = presenceSince
      /\ candidatePresence' = candidatePresence
      /\ absentSince' = AbsentSince(ts, f)
  BY DEF Observe, machineVars
<1>2. Instant(presenceSince)' /\ NotLater(presenceSince, now)'
  BY <1>1 DEF ClocksAgree, Instant, NotLater
<1>3. absentSince' = IF f.detected THEN None
                     ELSE IF candidatePresence = "Absent" THEN presenceSince
                     ELSE ts
  BY <1>1 DEF AbsentSince, StartedBy, ClocksAgree
<1> QED
  BY <1>1, <1>2, <1>3 DEF ClocksAgree, RunStart

LEMMA ObserveKeepsAbsence ==
  ASSUME PresentConfirmation <= EyeConfirmation,
         Clock, Calibrated, Absence, NEW ts \in Int, ts # None,
         now # None => now \in Int /\ now < ts,
         NEW f \in Frames, Observe(ts, f)
  PROVE  Absence'
<1>1. /\ now' = ts /\ phase = "capture" /\ phase' = "events" /\ frame' = f
      /\ presence' = presence /\ presenceSince' = presenceSince
      /\ candidatePresence' = candidatePresence
      /\ absentSince' = AbsentSince(ts, f)
  BY DEF Observe, machineVars
<1>2. ClocksAgree'
  BY ObserveKeepsClocks DEF Absence
<1>3. verdict' = "Usable" => f.detected
  BY GateFollows, FramePipelineAssumption DEF Consistent
<1>4. /\ Elapsed(absentSince, now, RecalibrateAfterAbsence)' =>
           Recalibrates(ts, f)
      /\ Recalibrates(ts, f) => ~eyeCalibrationApplied'
  BY <1>1
  DEF Recalibrates, Elapsed, Observe, KeepCalibration, AwaitCalibration,
      ApplyCalibration
<1>5. CASE KeepCalibration(ts, f)
  <2>1. eyeCalibrationApplied /\ eyeCalibrationApplied' /\ presence # "Absent"
    BY <1>1, <1>5 DEF KeepCalibration, Absence, ForgottenWhenAbsent
  <2>2. eyeCalibrator'.samples.count \in Nat
    BY <1>5 DEF KeepCalibration, Absence
  <2> QED
    BY <1>1, <1>2, <1>4, <2>1, <2>2
    DEF Absence, SampledWhilePresent, ForgottenWhenAbsent
<1>6. CASE AwaitCalibration(ts, f) \/ ApplyCalibration(ts, f)
  <2> DEFINE before == SamplesBefore(ts, f)
             after == eyeCalibrator'.samples
  <2>1. /\ after = EyeSamples(before, ts, verdict', SeenEars(f))
        /\ eyeCalibrationApplied' =>
             /\ ~eyeCalibrationApplied /\ ~Recalibrates(ts, f)
             /\ after.count > 0
             /\ ts - after.started >= EyeConfirmation
    BY <1>6, SamplesAwaitCalibration
  <2>2. /\ before = [started |-> before.started, run |-> before.run,
                     count |-> before.count]
        /\ before.count \in Nat
        /\ before.count # 0 =>
             /\ ~eyeCalibrationApplied /\ before.started \in Int
             /\ candidatePresence = "Present"
             /\ presenceSince <= before.started
    <3>1. CASE Recalibrates(ts, f)
      BY <3>1 DEF SamplesBefore, NoEyeRun
    <3>2. CASE ~Recalibrates(ts, f)
      <4>1. ~eyeCalibrationApplied
        BY <1>6, <3>2 DEF AwaitCalibration, ApplyCalibration
      <4> QED
        BY <1>1, <3>2, <4>1
        DEF SamplesBefore, Clock, IsCalibrator, Absence, SampledWhilePresent
    <3> QED
      BY <3>1, <3>2
  <2>3. /\ after.count \in Nat
        /\ after.count # 0 =>
             /\ f.detected /\ after.started \in Int
             /\ \/ after.started = ts
                \/ /\ candidatePresence = "Present"
                   /\ presenceSince <= after.started
    <3>1. \/ after = NoEyeRun
          \/ verdict' = "Usable" /\ after.started = ts /\ after.count = 1
          \/ /\ verdict' = "Usable" /\ before.count # 0
             /\ after.started = before.started
             /\ after.count = before.count + 1
      BY <2>1, <2>2, SamplesFollow
    <3> HIDE DEF before, after
    <3>2. CASE after = NoEyeRun
      BY <3>2 DEF NoEyeRun
    <3>3. CASE after # NoEyeRun
      BY <1>3, <2>2, <3>1, <3>3
    <3> QED
      BY <3>2, <3>3
  <2> HIDE DEF before, after
  <2>4. after.count # 0 => RunStart("Present")' <= after.started
    <3>1. candidatePresence = "Present" =>
            presenceSince \in Int /\ presenceSince <= ts
      BY <1>1, <1>2 DEF ClocksAgree, Instant, NotLater
    <3> QED
      BY <1>1, <2>3, <3>1 DEF RunStart
  <2>5. SampledWhilePresent'
    BY <1>1, <2>3, <2>4 DEF SampledWhilePresent, after
  <2>6. eyeCalibrationApplied' =>
          /\ f.detected /\ candidatePresence = "Present"
          /\ ts - presenceSince >= PresentConfirmation
    <3>1. SUFFICES ASSUME eyeCalibrationApplied'
                   PROVE  /\ f.detected /\ candidatePresence = "Present"
                          /\ ts - presenceSince >= PresentConfirmation
      OBVIOUS
    <3>2. /\ EyeConfirmation \in Int /\ 0 < EyeConfirmation
          /\ PresentConfirmation \in Int
      BY CalibratorsAssumption, PresenceConfigAssumption
      DEF ValidEyeCalibrationConfig, ValidPresenceConfig
    <3>3. /\ after.count # 0 /\ ts - after.started >= EyeConfirmation
      BY <2>1, <2>3, <3>1
    <3>4. after.started \in Int /\ after.started # ts
      BY <2>3, <3>2, <3>3
    <3>5. f.detected /\ candidatePresence = "Present"
          /\ presenceSince <= after.started
      BY <2>3, <3>3, <3>4
    <3>6. presenceSince \in Int
      BY <3>5 DEF Absence, ClocksAgree, Instant
    <3> QED
      BY <3>2, <3>3, <3>4, <3>5, <3>6
  <2>7. ForgottenWhenAbsent'
    BY <1>1, <1>4, <2>6 DEF ForgottenWhenAbsent
  <2> QED
    BY <1>2, <2>3, <2>5, <2>7 DEF Absence, after
<1> QED
  BY <1>5, <1>6 DEF Observe

\* What the presence machine makes of a frame.
LEMMA SeatFollows ==
  ASSUME Clock, Derive, frame.detected \in BOOLEAN
  PROVE  LET raw == IF frame.detected THEN "Present" ELSE "Absent"
         IN  /\ candidatePresence' = raw
             /\ presenceSince' = RunStart(raw)
             /\ presence' = IF Elapsed(RunStart(raw), now, Seat!required(raw))
                            THEN raw ELSE presence
<1> DEFINE raw == IF frame.detected THEN "Present" ELSE "Absent"
<1>1. raw = Seat!RawPresence(UsableIf(frame.detected), frame.detected)
  BY DEF Seat!RawPresence, UsableIf
<1>2. Seat!Sample(now, raw) /\ phase = "events"
  BY <1>1 DEF Derive, Seat!update
<1>3. ~Seat!RejectSample(now)
  BY <1>2, NobodyRejects DEF Seat!RejectSample
<1>4. Seat!FollowEvidence(now, raw)
  BY <1>2, <1>3 DEF Seat!Sample, Seat!LoseEvidence
<1> HIDE DEF raw
<1>5. /\ candidatePresence' = raw /\ presenceSince' = RunStart(raw)
      /\ presence' = IF Seat!Elapsed(RunStart(raw), now, Seat!required(raw))
                     THEN raw ELSE presence
  BY <1>4 DEF Seat!FollowEvidence, RunStart
<1> QED
  BY <1>5 DEF raw, Elapsed, Seat!Elapsed

LEMMA DeriveKeepsAbsence ==
  ASSUME RecalibrateAfterAbsence <= AbsentConfirmation,
         Clock, Absence, Derive, frame.detected \in BOOLEAN
  PROVE  Absence'
<1> DEFINE raw == IF frame.detected THEN "Present" ELSE "Absent"
<1>1. /\ phase = "events" /\ phase' = "capture" /\ now' = now
      /\ UNCHANGED <<absentSince, eyeCalibrator, eyeCalibrationApplied>>
  BY DEF Derive, loopVars
<1>2. now \in Int /\ now # None
  BY <1>1, NobodyRejects DEF Clock
<1>3. /\ candidatePresence' = raw /\ presenceSince' = RunStart(raw)
      /\ presence' = IF Elapsed(RunStart(raw), now, Seat!required(raw))
                     THEN raw ELSE presence
  BY SeatFollows
<1>4. ASSUME NEW seen, seen # "Unknown"
      PROVE  /\ RunStart(seen) # None /\ RunStart(seen) \in Int
             /\ RunStart(seen) <= now
  BY <1>2, <1>4 DEF RunStart, Absence, ClocksAgree, Instant, NotLater
<1>5. absentSince = IF frame.detected THEN None ELSE RunStart("Absent")
  BY <1>1 DEF Absence, ClocksAgree
<1>6. presenceSince' # None /\ presenceSince' \in Int /\ presenceSince' <= now
  BY <1>3, <1>4
<1>7. ClocksAgree'
  <2>1. Instant(presenceSince)' /\ NotLater(presenceSince, now)'
    BY <1>1, <1>2, <1>6 DEF Instant, NotLater
  <2>2. absentSince' = IF candidatePresence' = "Absent" THEN presenceSince'
                                                        ELSE None
    BY <1>1, <1>3, <1>5
  <2>3. presenceSince' # None
    BY <1>6
  <2> QED
    BY <1>1, <2>1, <2>2, <2>3 DEF ClocksAgree
<1>8. SampledWhilePresent'
  BY <1>1, <1>3 DEF Absence, SampledWhilePresent
<1>9. ~(eyeCalibrationApplied' /\ presence' = "Absent")
  <2>1. SUFFICES ASSUME eyeCalibrationApplied, presence' = "Absent"
                 PROVE  FALSE
    BY <1>1
  <2>2. CASE frame.detected
    <3>1. presence = "Absent" /\ candidatePresence = "Present"
      BY <1>3, <2>1, <2>2 DEF Absence, ForgottenWhenAbsent
    <3>2. now - RunStart("Present") >= PresentConfirmation
      BY <2>1, <3>1 DEF Absence, ForgottenWhenAbsent, RunStart
    <3>3. Elapsed(RunStart("Present"), now, Seat!required("Present"))
      BY <1>4, <3>2 DEF Elapsed, Seat!required
    <3> QED
      BY <1>3, <2>1, <2>2, <3>3
  <2>3. CASE ~frame.detected
    <3>1. Elapsed(RunStart("Absent"), now, Seat!required("Absent"))
      BY <1>3, <2>1, <2>3 DEF Absence, ForgottenWhenAbsent
    <3>2. /\ absentSince = RunStart("Absent")
          /\ now - absentSince >= AbsentConfirmation
      BY <1>5, <2>3, <3>1 DEF Elapsed, Seat!required
    <3>3. Elapsed(absentSince, now, RecalibrateAfterAbsence)
      BY <1>2, <1>4, <3>2, FramePipelineAssumption, PresenceConfigAssumption
      DEF Elapsed, ValidPolicy, ValidPresenceConfig
    <3> QED
      BY <1>1, <2>1, <3>3 DEF Absence, ForgottenWhenAbsent
  <2> QED
    BY <2>2, <2>3
<1>10. ForgottenWhenAbsent'
  BY <1>1, <1>9 DEF ForgottenWhenAbsent
<1> QED
  BY <1>1, <1>7, <1>8, <1>10 DEF Absence

\* The frame of an iteration is one of those the loop may be given.
FrameGiven == phase = "events" => frame \in Frames

LEMMA FrameIsGiven == HSpec => []FrameGiven
<1>1. HInit => FrameGiven
  BY DEF HInit, Init, FrameGiven
<1>2. FrameGiven /\ [HNext]_hvars => FrameGiven'
  BY DEF FrameGiven, HNext, NextFrame, Observe, Derive, hvars, vars
<1> QED
  BY <1>1, <1>2, PTL DEF HSpec

(***************************************************************************)
(* The loop forgets the calibration by a clock of absence of its own, the  *)
(* presence machine confirms the absence by another.  They agree when a    *)
(* recalibration does not wait longer than the confirmation of absence,    *)
(* and the eyes of the next driver take no less long to calibrate than the *)
(* presence of that driver to be confirmed, as in the approved policy (one *)
(* second each; 300 ms and two seconds): then the eyes of a driver         *)
(* confirmed absent are unknown until the next driver is there.            *)
(***************************************************************************)
THEOREM AbsenceForgets ==
  ASSUME RecalibrateAfterAbsence <= AbsentConfirmation,
         PresentConfirmation <= EyeConfirmation
  PROVE  HSpec => []AbsentDriverIsForgotten
<1>1. HInit => Absence
  BY AbsenceInit DEF HInit
<1>2. Clock /\ Calibrated /\ FrameGiven /\ Absence /\ [HNext]_hvars
        => Absence'
  <2>1. ASSUME Clock, Calibrated, Absence, NextFrame PROVE Absence'
    <3>1. PICK ts \in Timestamps, f \in Frames :
                 /\ Observe(ts, f) /\ ts \in Int
                 /\ now # None => now \in Int /\ now < ts
      BY <2>1, FrameComes
    <3>2. ts # None
      BY <3>1, NoneAssumption
    <3> QED
      BY <2>1, <3>1, <3>2, ObserveKeepsAbsence
  <2>2. ASSUME Clock, FrameGiven, Absence, Derive PROVE Absence'
    <3>1. frame.detected \in BOOLEAN
      BY <2>2, FramePipelineAssumption DEF FrameGiven, Derive, Frame
    <3> QED
      BY <2>2, <3>1, DeriveKeepsAbsence
  <2>3. ASSUME Absence, UNCHANGED hvars PROVE Absence'
    BY <2>3
    DEF Absence, ClocksAgree, Instant, NotLater, RunStart, Elapsed,
        SampledWhilePresent, ForgottenWhenAbsent, hvars, vars, loopVars,
        machineVars
  <2> QED
    BY <2>1, <2>2, <2>3 DEF HNext
<1>3. Absence /\ Calibrated => AbsentDriverIsForgotten
  BY DEF Absence, ForgottenWhenAbsent, Calibrated, AbsentDriverIsForgotten
<1> QED
  BY <1>1, <1>2, <1>3, ClockIsInvariant, CalibratedIsInvariant, FrameIsGiven,
     PTL DEF HSpec

-----------------------------------------------------------------------------
(* The evidence behind a calibration.                                      *)
Sample == [at : Int, ear : Int]

\* The run of the calibrator is the end of the run of good measurements: it
\* starts with one of them, spreads no further than they do, and adds them up.
Backed(s, samples) ==
  s.count # 0 =>
    LET first == Len(samples) - s.count + 1
        low == s.run.minimum
        high == s.run.maximum
    IN  /\ 1 <= first /\ s.started = samples[first].at
        /\ low \in Int /\ high \in Int /\ s.run.sum \in Int
        /\ high - low <= MaximumEarRange
        /\ \A i \in first .. Len(samples) :
             low <= samples[i].ear /\ samples[i].ear <= high
        /\ \E i \in first .. Len(samples) : samples[i].ear = low
        /\ \E i \in first .. Len(samples) : samples[i].ear = high
        /\ s.count * low <= s.run.sum /\ s.run.sum <= s.count * high

LEMMA SampleAppended ==
  ASSUME NEW samples \in Seq(Sample), NEW ts \in Int, NEW ear \in Int
  PROVE  LET new == Append(samples, [at |-> ts, ear |-> ear])
         IN  /\ new \in Seq(Sample) /\ Len(samples) \in Nat
             /\ Len(new) = Len(samples) + 1
             /\ \A i \in 1 .. Len(samples) : new[i] = samples[i]
             /\ new[Len(new)] = [at |-> ts, ear |-> ear]
<1> DEFINE sample == [at |-> ts, ear |-> ear]
<1>1. sample \in Sample
  BY DEF Sample
<1> HIDE DEF sample
<1>2. Len(samples) \in Nat
  OBVIOUS
<1> QED
  BY <1>1, <1>2, AppendProperties DEF sample

LEMMA FreshRunIsBacked ==
  ASSUME NEW s, NEW samples \in Seq(Sample), NEW ts \in Int, NEW ear \in Int,
         s = [started |-> ts, run |-> RunOf(ear), count |-> 1]
  PROVE  Backed(s, Append(samples, [at |-> ts, ear |-> ear]))
<1> DEFINE new == Append(samples, [at |-> ts, ear |-> ear])
           n == Len(new)
<1>1. n \in Nat /\ 1 <= n /\ new[n].at = ts /\ new[n].ear = ear
  BY SampleAppended
<1>2. /\ s.started = ts /\ s.count = 1
      /\ s.run.minimum = ear /\ s.run.maximum = ear /\ s.run.sum = ear
  BY DEF RunOf
<1> HIDE DEF new, n
<1>3. n - 1 + 1 = n /\ n .. n = {n} /\ ear - ear <= MaximumEarRange
  BY <1>1, CalibratorsAssumption DEF ValidEyeCalibrationConfig
<1>4. 1 * ear <= ear /\ ear <= 1 * ear
  OBVIOUS
<1> QED
  BY <1>1, <1>2, <1>3, <1>4 DEF Backed, new, n

LEMMA Multiples ==
  \A k \in Nat : \A a, b, x \in Int :
    /\ (k + 1) * a = k * a + a
    /\ a <= b => k * a <= k * b
OBVIOUS

LEMMA LongerRunIsBacked ==
  ASSUME NEW s, NEW longer, NEW samples \in Seq(Sample), Backed(s, samples),
         s.count \in Nat, s.count # 0, NEW ts \in Int, NEW ear \in Int,
         longer.started = s.started, longer.count = s.count + 1,
         longer.run = Extend(s.run, ear),
         ~(Spread(longer.run) > MaximumEarRange)
  PROVE  Backed(longer, Append(samples, [at |-> ts, ear |-> ear]))
<1> DEFINE new == Append(samples, [at |-> ts, ear |-> ear])
           n == Len(samples)
           first == n - s.count + 1
           low == s.run.minimum
           high == s.run.maximum
           low1 == longer.run.minimum
           high1 == longer.run.maximum
<1>1. /\ n \in Nat /\ Len(new) = n + 1
      /\ \A i \in 1 .. n : new[i] = samples[i]
      /\ new[n + 1].at = ts /\ new[n + 1].ear = ear
  BY SampleAppended
<1>2. /\ 1 <= first /\ s.started = samples[first].at
      /\ low \in Int /\ high \in Int /\ s.run.sum \in Int
      /\ s.count * low <= s.run.sum /\ s.run.sum <= s.count * high
  BY DEF Backed
<1>3. /\ \A i \in first .. n : low <= samples[i].ear /\ samples[i].ear <= high
      /\ \E i \in first .. n : samples[i].ear = low
      /\ \E i \in first .. n : samples[i].ear = high
  BY DEF Backed
<1>4. /\ low1 = Smaller(low, ear) /\ high1 = Larger(high, ear)
      /\ longer.run.sum = s.run.sum + ear
  BY DEF Extend
<1>5. /\ low1 \in Int /\ high1 \in Int /\ longer.run.sum \in Int
      /\ low1 <= low /\ low1 <= ear /\ low1 \in {low, ear}
      /\ high <= high1 /\ ear <= high1 /\ high1 \in {high, ear}
  BY <1>2, <1>4 DEF Smaller, Larger
<1>6. high1 - low1 <= MaximumEarRange
  BY <1>5, CalibratorsAssumption DEF Spread, ValidEyeCalibrationConfig
<1>7. /\ longer.count * low1 <= longer.run.sum
      /\ longer.run.sum <= longer.count * high1
  <2> DEFINE k == s.count
             sum == s.run.sum
  <2>1. /\ k \in Nat /\ low \in Int /\ high \in Int /\ sum \in Int
        /\ low1 \in Int /\ high1 \in Int
        /\ low1 <= low /\ low1 <= ear /\ high <= high1 /\ ear <= high1
        /\ k * low <= sum /\ sum <= k * high
    BY <1>2, <1>5
  <2>2. longer.count = k + 1 /\ longer.run.sum = sum + ear
    BY <1>4
  <2> HIDE DEF k, sum, low, high, low1, high1
  <2>3. k * low1 <= k * low /\ k * high <= k * high1
    BY <2>1, Multiples
  <2>4. (k + 1) * low1 = k * low1 + low1 /\ (k + 1) * high1 = k * high1 + high1
    BY <2>1, Multiples
  <2>5. (k + 1) * low1 <= sum + ear /\ sum + ear <= (k + 1) * high1
    BY ONLY <2>1, <2>3, <2>4, ear \in Int
  <2> QED
    BY <2>2, <2>5
<1>8. /\ Len(new) - longer.count + 1 = first /\ first \in Int /\ first <= n
  <2> DEFINE k == s.count
  <2>1. k \in Nat /\ k # 0 /\ n \in Nat /\ first = n - k + 1
        /\ Len(new) = n + 1 /\ longer.count = k + 1
    BY <1>1
  <2> HIDE DEF k, n, first, new
  <2> QED
    BY <2>1
<1>9. /\ longer.started = new[first].at
      /\ \A i \in first .. n + 1 :
           low1 <= new[i].ear /\ new[i].ear <= high1
  <2>1. longer.started = new[first].at
    BY <1>1, <1>2, <1>8
  <2>2. ASSUME NEW i \in first .. n + 1
        PROVE  low1 <= new[i].ear /\ new[i].ear <= high1
    <3>1. CASE i = n + 1
      BY <1>1, <1>5, <3>1
    <3>2. CASE i # n + 1
      <4>1. i \in first .. n /\ i \in 1 .. n
        BY <1>1, <1>2, <1>8, <3>2
      <4>2. samples[i] \in Sample
        BY <4>1
      <4>3. samples[i].ear \in Int /\ new[i].ear = samples[i].ear
        BY <1>1, <4>1, <4>2 DEF Sample
      <4>4. low <= samples[i].ear /\ samples[i].ear <= high
        BY <1>3, <4>1
      <4> DEFINE x == samples[i].ear
      <4>5. /\ x \in Int /\ low \in Int /\ high \in Int
            /\ low1 \in Int /\ high1 \in Int
            /\ low1 <= low /\ low <= x /\ x <= high /\ high <= high1
        BY <1>2, <1>5, <4>3, <4>4
      <4> HIDE DEF x, low, high, low1, high1
      <4>6. low1 <= x /\ x <= high1
        BY <4>5
      <4> QED
        BY <4>3, <4>6 DEF x
    <3> QED
      BY <3>1, <3>2
  <2> QED
    BY <2>1, <2>2
<1>10. \A x : x = ear \/ (\E i \in first .. n : samples[i].ear = x)
         => \E i \in first .. n + 1 : new[i].ear = x
  <2>1. ASSUME NEW i \in first .. n
        PROVE  i \in first .. n + 1 /\ new[i] = samples[i]
    BY <1>1, <1>2, <1>8
  <2>2. n + 1 \in first .. n + 1
    BY <1>1, <1>8
  <2> QED
    BY <1>1, <2>1, <2>2
<1>11. /\ \E i \in first .. n + 1 : new[i].ear = low1
       /\ \E i \in first .. n + 1 : new[i].ear = high1
  BY <1>3, <1>5, <1>10
<1> HIDE DEF new, n, first, low, high
<1> QED
  BY <1>1, <1>2, <1>5, <1>6, <1>7, <1>8, <1>9, <1>11 DEF Backed, new

\* A run with one more sample in it is backed by one more measurement.
LEMMA AddedEarIsBacked ==
  ASSUME NEW s, s = [started |-> s.started, run |-> s.run, count |-> s.count],
         NEW samples \in Seq(Sample), Backed(s, samples), s.count \in Nat,
         NEW ts \in Int, NEW ear \in Int
  PROVE  Backed(AddEar(s, ts, ear), Append(samples, [at |-> ts, ear |-> ear]))
<1> DEFINE fresh == [started |-> ts, run |-> RunOf(ear), count |-> 1]
           longer == [started |-> s.started, run |-> Extend(s.run, ear),
                      count |-> s.count + 1]
<1>1. CASE s.count = 0 \/ Spread(Extend(s.run, ear)) > MaximumEarRange
  <2>1. AddEar(s, ts, ear) = fresh
    BY <1>1 DEF AddEar
  <2> QED
    BY <2>1, FreshRunIsBacked
<1>2. CASE s.count # 0 /\ ~(Spread(Extend(s.run, ear)) > MaximumEarRange)
  <2>1. AddEar(s, ts, ear) = [s EXCEPT !.run = Extend(s.run, ear),
                                       !.count = @ + 1]
    BY <1>2 DEF AddEar
  <2>2. /\ AddEar(s, ts, ear).started = s.started
        /\ AddEar(s, ts, ear).run = Extend(s.run, ear)
        /\ AddEar(s, ts, ear).count = s.count + 1
    BY <2>1
  <2> QED
    BY <1>2, <2>2, LongerRunIsBacked
<1> QED
  BY <1>1, <1>2

LEMMA OptionalElement ==
  \A S, x : x \in Optional(S) <=> x = None \/ x \in S
BY DEF Optional

\* What counts as a good measurement of open eyes.
GoodEars(u, e) ==
  /\ u = "Usable" /\ e.right # None /\ e.left # None
  /\ LessOpen(e) >= MinimumCandidateEar

LEMMA EyeSamplesAre ==
  ASSUME NEW s, NEW ts, NEW u, NEW e, Instant(e.right), Instant(e.left)
  PROVE  EyeSamples(s, ts, u, e) =
           IF GoodEars(u, e) THEN AddEar(s, ts, LessOpen(e)) ELSE NoEyeRun
<1>1. CASE u = "Usable" /\ e.right # None /\ e.left # None
  <2>1. /\ e.right \in Int /\ e.left \in Int
        /\ Smaller(e.right, e.left) = LessOpen(e) /\ LessOpen(e) \in Int
    BY <1>1 DEF Instant, Smaller, LessOpen
  <2>2. EyeSamples(s, ts, u, e) =
          IF LessOpen(e) < MinimumCandidateEar THEN NoEyeRun
          ELSE AddEar(s, ts, LessOpen(e))
    BY <1>1, <2>1 DEF EyeSamples
  <2>3. GoodEars(u, e) <=> ~(LessOpen(e) < MinimumCandidateEar)
    BY <1>1, <2>1, CalibratorsAssumption
    DEF GoodEars, ValidEyeCalibrationConfig
  <2> QED
    BY <2>2, <2>3
<1>2. CASE ~(u = "Usable" /\ e.right # None /\ e.left # None)
  BY <1>2, Zenon DEF EyeSamples, GoodEars
<1> QED
  BY <1>1, <1>2

\* A calibration at the end of a long run is what the property asks for.
StableAt(ts, samples, open) ==
  \E first \in DOMAIN samples :
    LET run == SubSeq(samples, first, Len(samples))
    IN  /\ ts - run[1].at >= EyeConfirmation
        /\ Steady(run)
        /\ \E i, j \in DOMAIN run : run[i].ear <= open /\ open <= run[j].ear

LEMMA MeanIsBetween ==
  ASSUME NEW k \in Nat, k # 0, NEW low \in Int, NEW high \in Int,
         NEW sum \in Int, k * low <= sum, sum <= k * high
  PROVE  sum \div k \in Int /\ low <= sum \div k /\ sum \div k <= high
<1> DEFINE q == sum \div k
<1>1. q \in Int /\ k * q <= sum /\ sum < k * q + k
  OBVIOUS
<1> HIDE DEF q
<1>2. k * low < k * (q + 1) /\ k * q <= k * high
  BY <1>1
<1>3. low < q + 1 /\ q <= high
  BY <1>1, <1>2
<1> QED
  BY <1>1, <1>3 DEF q

LEMMA LongRunIsStable ==
  ASSUME NEW s, NEW samples \in Seq(Sample), Backed(s, samples),
         s.count \in Nat, s.count # 0,
         NEW ts \in Int, ts - s.started >= EyeConfirmation
  PROVE  StableAt(ts, samples, CalibrationOf(s).openEar)
<1> DEFINE n == Len(samples)
           first == n - s.count + 1
           run == SubSeq(samples, first, n)
           low == s.run.minimum
           high == s.run.maximum
           open == s.run.sum \div s.count
<1>1. /\ 1 <= first /\ s.started = samples[first].at
      /\ low \in Int /\ high \in Int /\ s.run.sum \in Int
      /\ high - low <= MaximumEarRange
      /\ s.count * low <= s.run.sum /\ s.run.sum <= s.count * high
  BY DEF Backed
<1>2. /\ \A i \in first .. n : low <= samples[i].ear /\ samples[i].ear <= high
      /\ \E i \in first .. n : samples[i].ear = low
      /\ \E i \in first .. n : samples[i].ear = high
  BY DEF Backed
<1>3. low <= open /\ open <= high /\ open \in Int
  <2> DEFINE k == s.count
             sum == s.run.sum
  <2>1. /\ k \in Nat /\ k # 0 /\ low \in Int /\ high \in Int /\ sum \in Int
        /\ k * low <= sum /\ sum <= k * high
    BY <1>1
  <2> HIDE DEF k, sum, low, high
  <2>2. /\ sum \div k \in Int /\ low <= sum \div k /\ sum \div k <= high
    BY <2>1, MeanIsBetween
  <2> QED
    BY <2>2 DEF k, sum
<1>4. CalibrationOf(s).openEar = open
  BY DEF CalibrationOf
<1>5. n \in Nat /\ first \in Int /\ first <= n
  <2> DEFINE k == s.count
  <2>1. k \in Nat /\ k # 0 /\ n \in Nat /\ first = n - k + 1
    OBVIOUS
  <2> HIDE DEF k, n, first
  <2> QED
    BY <2>1
<1>6. \A i \in first .. n : i \in 1 .. n /\ samples[i] \in Sample
  BY <1>1, <1>5
<1> HIDE DEF n, first, low, high, open
<1>7. /\ Len(run) = n - first + 1 /\ run \in Seq(Sample)
      /\ \A i \in 1 .. n - first + 1 : run[i] = samples[first + i - 1]
  BY <1>5, <1>6, SubSeqProperties
<1>8. \A i \in first .. n :
        i - first + 1 \in DOMAIN run /\ run[i - first + 1] = samples[i]
  <2> SUFFICES ASSUME NEW i \in first .. n
               PROVE  i - first + 1 \in DOMAIN run
                      /\ run[i - first + 1] = samples[i]
    OBVIOUS
  <2>1. i - first + 1 \in 1 .. n - first + 1 /\ first + (i - first + 1) - 1 = i
    BY <1>5
  <2> HIDE DEF run
  <2>2. DOMAIN run = 1 .. n - first + 1
    BY <1>5, <1>7
  <2> QED
    BY <1>7, <2>1, <2>2
<1>9. \A j \in DOMAIN run :
        \E i \in first .. n : run[j] = samples[i]
  <2> SUFFICES ASSUME NEW j \in DOMAIN run
               PROVE  \E i \in first .. n : run[j] = samples[i]
    OBVIOUS
  <2> HIDE DEF run
  <2>1. j \in 1 .. n - first + 1
    BY <1>5, <1>7
  <2>2. first + j - 1 \in first .. n
    BY <1>5, <2>1
  <2> QED
    BY <1>7, <2>1, <2>2
<1> HIDE DEF run
<1>10. ts - run[1].at >= EyeConfirmation
  <2>1. 1 \in 1 .. n - first + 1 /\ first + 1 - 1 = first
    BY <1>5
  <2>2. run[1] = samples[first]
    BY <1>7, <2>1
  <2> QED
    BY <1>1, <2>2
<1>11. Steady(run)
  <2> SUFFICES ASSUME NEW a \in DOMAIN run, NEW b \in DOMAIN run
               PROVE  run[a].ear - run[b].ear <= MaximumEarRange
    BY DEF Steady
  <2>1. PICK i \in first .. n : run[a] = samples[i]
    BY <1>9
  <2>2. PICK j \in first .. n : run[b] = samples[j]
    BY <1>9
  <2>3. /\ samples[i].ear \in Int /\ samples[j].ear \in Int
        /\ samples[i].ear <= high /\ low <= samples[j].ear
    BY <1>2, <1>6 DEF Sample
  <2>4. samples[i].ear - samples[j].ear <= MaximumEarRange
    BY <1>1, <2>3, CalibratorsAssumption DEF ValidEyeCalibrationConfig
  <2> QED
    BY <2>1, <2>2, <2>4
<1>12. \E i, j \in DOMAIN run : run[i].ear <= open /\ open <= run[j].ear
  <2>1. PICK i \in first .. n : samples[i].ear = low
    BY <1>2
  <2>2. PICK j \in first .. n : samples[j].ear = high
    BY <1>2
  <2> QED
    BY <1>3, <1>8, <2>1, <2>2
<1>13. first \in DOMAIN samples
  BY <1>1, <1>5 DEF n
<1> QED
  BY <1>4, <1>10, <1>11, <1>12, <1>13 DEF StableAt, run, n

\* The calibrator's run while there is no calibration in force, of the evidence
\* there is for it.
EvidenceInv ==
  /\ evidence \in Seq(Sample) /\ eyeCalibrator.samples.count \in Nat
  /\ ~eyeCalibrationApplied => Backed(eyeCalibrator.samples, evidence)

LEMMA EvidenceInit == HInit => EvidenceInv
<1> SUFFICES ASSUME HInit PROVE EvidenceInv
  OBVIOUS
<1>1. evidence = <<>> /\ eyeCalibrator.samples.count = 0
  BY NewIsCalibrator DEF HInit, Init, NoEyeRun
<1>2. evidence \in Seq(Sample)
  BY <1>1, EmptySeq
<1> QED
  BY <1>1, <1>2 DEF EvidenceInv, Backed

\* A recalibration throws away the run and the evidence alike.
EvidenceBefore(ts, f) == IF Recalibrates(ts, f) THEN <<>> ELSE evidence

\* What is recorded as good is what the calibrator takes for good.
LEMMA EvidenceIsWhatIsUsed ==
  ASSUME Clock, NEW ts \in Int, now # None => now \in Int /\ now < ts,
         NEW f \in Frames, Observe(ts, f), RecordFrame,
         ~eyeCalibrationApplied \/ Recalibrates(ts, f)
  PROVE  /\ Instant(SeenEars(f).right) /\ Instant(SeenEars(f).left)
         /\ evidence' = IF GoodEars(verdict', SeenEars(f))
                        THEN Append(EvidenceBefore(ts, f),
                                    [at |-> ts, ear |-> LessOpen(SeenEars(f))])
                        ELSE <<>>
<1>1. now' = ts /\ frame' = f
  BY DEF Observe
<1>2. verdict' = "Usable" => f.tracked
  BY GateFollows
<1>3. verdict' = "Usable" => SeenEars(f) = f.ears
  BY <1>2 DEF SeenEars
<1>4. OpenEyed <=> GoodEars(verdict', SeenEars(f))
  BY <1>1, <1>3 DEF OpenEyed, GoodEars
<1>5. evidence' = IF OpenEyed
                  THEN Append(EvidenceBefore(ts, f),
                              [at |-> ts, ear |-> LessOpen(f.ears)])
                  ELSE <<>>
  BY <1>1 DEF RecordFrame, EvidenceBefore
<1>6. f.ears.right \in Optional(Int) /\ f.ears.left \in Optional(Int)
  BY FramePipelineAssumption DEF Frame, Ears
<1>7. /\ Instant(f.ears.right) /\ Instant(f.ears.left) /\ Instant(None)
  BY <1>6, OptionalElement, Zenon DEF Instant
<1>8. Instant(SeenEars(f).right) /\ Instant(SeenEars(f).left)
  BY <1>7 DEF SeenEars
<1>9. GoodEars(verdict', SeenEars(f)) => SeenEars(f) = f.ears
  BY <1>3 DEF GoodEars
<1> QED
  BY <1>4, <1>5, <1>8, <1>9

LEMMA ObserveKeepsEvidence ==
  ASSUME Clock, Calibrated, EvidenceInv, RecordFrame, NEW ts \in Int,
         now # None => now \in Int /\ now < ts,
         NEW f \in Frames, Observe(ts, f)
  PROVE  /\ EvidenceInv'
         /\ eyeCalibrationApplied' /\ ~eyeCalibrationApplied =>
              StableAt(ts, evidence', calibration'.openEar)
<1>1. CASE KeepCalibration(ts, f)
  <2>1. /\ eyeCalibrationApplied /\ ~Recalibrates(ts, f)
        /\ eyeCalibrationApplied' = eyeCalibrationApplied
        /\ eyeCalibrator' = eyeCalibrator
    BY <1>1 DEF KeepCalibration
  <2>2. now' = ts /\ frame' = f
    BY DEF Observe
  <2>3. evidence' = <<>>
    BY <2>1, <2>2 DEF RecordFrame
  <2>4. evidence' \in Seq(Sample)
    BY <2>3, EmptySeq
  <2> QED
    BY <2>1, <2>4 DEF EvidenceInv
<1>2. CASE AwaitCalibration(ts, f) \/ ApplyCalibration(ts, f)
  <2> DEFINE before == SamplesBefore(ts, f)
             kept == EvidenceBefore(ts, f)
             after == eyeCalibrator'.samples
             e == SeenEars(f)
  <2>1. ~eyeCalibrationApplied \/ Recalibrates(ts, f)
    BY <1>2 DEF AwaitCalibration, ApplyCalibration
  <2>2. /\ Instant(e.right) /\ Instant(e.left)
        /\ evidence' = IF GoodEars(verdict', e)
                       THEN Append(kept, [at |-> ts, ear |-> LessOpen(e)])
                       ELSE <<>>
    BY <2>1, EvidenceIsWhatIsUsed
  <2>3. /\ after = EyeSamples(before, ts, verdict', e)
        /\ eyeCalibrationApplied' =>
             /\ after.count > 0 /\ ts - after.started >= EyeConfirmation
             /\ calibration' = CalibrationOf(after)
    BY <1>2, SamplesAwaitCalibration
  <2>4. /\ before = [started |-> before.started, run |-> before.run,
                     count |-> before.count]
        /\ before.count \in Nat /\ kept \in Seq(Sample)
        /\ Backed(before, kept)
    <3>1. CASE Recalibrates(ts, f)
      <4>1. /\ before = NoEyeRun /\ kept = <<>>
        BY <3>1 DEF SamplesBefore, EvidenceBefore
      <4>2. kept \in Seq(Sample)
        BY <4>1, EmptySeq
      <4>3. before.count = 0
        BY <4>1 DEF NoEyeRun
      <4>4. before = [started |-> before.started, run |-> before.run,
                      count |-> before.count]
        BY <4>1 DEF NoEyeRun
      <4> QED
        BY <4>2, <4>3, <4>4 DEF Backed
    <3>2. CASE ~Recalibrates(ts, f)
      BY <2>1, <3>2
      DEF SamplesBefore, EvidenceBefore, EvidenceInv, Clock, IsCalibrator
    <3> QED
      BY <3>1, <3>2
  <2>5. after = IF GoodEars(verdict', e) THEN AddEar(before, ts, LessOpen(e))
                                         ELSE NoEyeRun
    BY <2>2, <2>3, EyeSamplesAre
  <2> HIDE DEF before, kept, after, e
  <2>6. evidence' \in Seq(Sample) /\ after.count \in Nat
        /\ Backed(after, evidence')
    <3>1. CASE GoodEars(verdict', e)
      <4>1. LessOpen(e) \in Int
        BY <2>2, <3>1 DEF GoodEars, LessOpen, Instant
      <4>2. /\ after = AddEar(before, ts, LessOpen(e))
            /\ evidence' = Append(kept, [at |-> ts, ear |-> LessOpen(e)])
        BY <2>2, <2>5, <3>1
      <4>3. Backed(after, evidence')
        BY <2>4, <4>1, <4>2, AddedEarIsBacked
      <4>4. evidence' \in Seq(Sample)
        BY <2>4, <4>1, <4>2, SampleAppended
      <4>5. after.count \in Nat
        BY <2>4, <4>2 DEF AddEar
      <4> QED
        BY <4>3, <4>4, <4>5
    <3>2. CASE ~GoodEars(verdict', e)
      <4>1. after = NoEyeRun /\ evidence' = <<>>
        BY <2>2, <2>5, <3>2
      <4>2. after.count = 0
        BY <4>1 DEF NoEyeRun
      <4>3. evidence' \in Seq(Sample)
        BY <4>1, EmptySeq
      <4> QED
        BY <4>2, <4>3 DEF Backed
    <3> QED
      BY <3>1, <3>2
  <2>7. EvidenceInv'
    BY <2>6 DEF EvidenceInv, after
  <2>8. eyeCalibrationApplied' =>
          StableAt(ts, evidence', calibration'.openEar)
    BY <2>3, <2>6, LongRunIsStable
  <2> QED
    BY <2>7, <2>8
<1> QED
  BY <1>1, <1>2 DEF Observe

LEMMA EvidenceStep ==
  Clock /\ Calibrated /\ EvidenceInv /\ [HNext]_hvars =>
    /\ EvidenceInv'
    /\ eyeCalibrationApplied' /\ ~eyeCalibrationApplied =>
         StableAt(now', evidence', calibration'.openEar)
<1>1. ASSUME Clock, Calibrated, EvidenceInv, NextFrame, RecordFrame
      PROVE  /\ EvidenceInv'
             /\ eyeCalibrationApplied' /\ ~eyeCalibrationApplied =>
                  StableAt(now', evidence', calibration'.openEar)
  <2>1. PICK ts \in Timestamps, f \in Frames :
               /\ Observe(ts, f) /\ ts \in Int
               /\ now # None => now \in Int /\ now < ts
    BY <1>1, FrameComes
  <2>2. now' = ts
    BY <2>1 DEF Observe
  <2>3. /\ EvidenceInv'
        /\ eyeCalibrationApplied' /\ ~eyeCalibrationApplied =>
             StableAt(ts, evidence', calibration'.openEar)
    BY <1>1, <2>1, ObserveKeepsEvidence
  <2> QED
    BY <2>2, <2>3
<1>2. ASSUME EvidenceInv, Derive, RecordEvents
      PROVE  EvidenceInv' /\ eyeCalibrationApplied' = eyeCalibrationApplied
  BY <1>2 DEF EvidenceInv, Backed, Derive, RecordEvents, loopVars
<1>3. ASSUME EvidenceInv, UNCHANGED hvars
      PROVE  EvidenceInv' /\ eyeCalibrationApplied' = eyeCalibrationApplied
  BY <1>3 DEF EvidenceInv, Backed, hvars, history, vars, loopVars
<1> QED
  BY <1>1, <1>2, <1>3 DEF HNext

(***************************************************************************)
(* The run the calibrator keeps as a minimum, a maximum and a sum is the   *)
(* end of the unbroken run of measurements the quality gate let through:   *)
(* whatever interrupts one interrupts the other, and the mean lies among   *)
(* the measurements.                                                       *)
(***************************************************************************)
THEOREM CalibrationIsEarned == HSpec => CalibratedOnStableEvidence
<1>1. Clock /\ Calibrated /\ EvidenceInv /\ [HNext]_hvars =>
        [eyeCalibrationApplied' /\ ~eyeCalibrationApplied =>
           \E first \in DOMAIN evidence' :
             LET run == SubSeq(evidence', first, Len(evidence'))
             IN  /\ now' - run[1].at >= EyeConfirmation
                 /\ Steady(run)
                 /\ \E i, j \in DOMAIN run :
                      /\ run[i].ear <= calibration'.openEar
                      /\ calibration'.openEar <= run[j].ear]_hvars
  BY EvidenceStep DEF StableAt
<1> QED
  BY <1>1, EvidenceInit, EvidenceStep, ClockIsInvariant,
     CalibratedIsInvariant, PTL DEF HSpec, CalibratedOnStableEvidence

-----------------------------------------------------------------------------
(* Each machine, in the loop, is that machine.  The specification of a     *)
(* machine alone lets a client call it at any time with any sample; the    *)
(* loop is one such client of all of them at once, which hands each only   *)
(* samples it accepts as such.  So what is proved of a machine alone, for  *)
(* every sample a provider can deliver, holds of it in the loop.           *)

\* A client of a single machine may hand it anything a provider can say.
AnyInput ==
  /\ Headers = ObservationHeader /\ UsabilityInputs = ObservationUsability
  /\ EarInputs = Int /\ MouthInputs = Int
  /\ YawInputs = Int /\ PitchInputs = Int
  /\ HorizontalInputs = Int /\ VerticalInputs = Int
  /\ Calibrations = EyeCalibration

-----------------------------------------------------------------------------
(* What the loop hands to the machines.                                    *)

Angles(pose) == pose # None => pose.yaw \in Int /\ pose.pitch \in Int

\* The fields of a run of poses, and what it has added up.
IsPoseRun(s) ==
  /\ s = [started |-> s.started, yaw |-> s.yaw, pitch |-> s.pitch,
          count |-> s.count]
  /\ s.count \in Nat
  /\ s.count # 0 => s.yaw.sum \in Int /\ s.pitch.sum \in Int

IsPoseCalibrator(c) ==
  /\ c = [last |-> c.last, samples |-> c.samples, neutral |-> c.neutral]
  /\ IsPoseRun(c.samples) /\ Angles(c.neutral)

LEMMA NewIsPoseCalibrator == IsPoseCalibrator(NewPoseCalibrator)
<1>1. IsPoseRun(NoPoseRun)
  BY DEF IsPoseRun, NoPoseRun
<1> QED
  BY <1>1 DEF IsPoseCalibrator, NewPoseCalibrator, Angles

LEMMA PoseRunGrows ==
  ASSUME NEW s, IsPoseRun(s), NEW ts, NEW p, p.yaw \in Int, p.pitch \in Int
  PROVE  IsPoseRun(AddPose(s, ts, p)) /\ AddPose(s, ts, p).count # 0
<1> DEFINE fresh == [started |-> ts, yaw |-> RunOf(p.yaw),
                     pitch |-> RunOf(p.pitch), count |-> 1]
           yaw == Extend(s.yaw, p.yaw)
           pitch == Extend(s.pitch, p.pitch)
           longer == [started |-> s.started, yaw |-> yaw, pitch |-> pitch,
                      count |-> s.count + 1]
<1>1. IsPoseRun(fresh) /\ fresh.count # 0
  BY DEF IsPoseRun, RunOf
<1>2. ASSUME s.count # 0
      PROVE  IsPoseRun(longer) /\ longer.count # 0
  <2>1. yaw.sum = s.yaw.sum + p.yaw /\ pitch.sum = s.pitch.sum + p.pitch
    BY DEF Extend
  <2>2. yaw.sum \in Int /\ pitch.sum \in Int
    BY <1>2, <2>1 DEF IsPoseRun
  <2>3. s.count + 1 \in Nat /\ s.count + 1 # 0
    BY DEF IsPoseRun
  <2> HIDE DEF yaw, pitch
  <2> QED
    BY <2>2, <2>3 DEF IsPoseRun
<1>3. \/ AddPose(s, ts, p) = fresh
      \/ s.count # 0 /\ AddPose(s, ts, p) = longer
  <2> DEFINE turned == [s EXCEPT !.yaw = yaw]
             nodded == [turned EXCEPT !.pitch = pitch]
             counted == [nodded EXCEPT !.count = s.count + 1]
  <2>1. counted = longer
    <3>1. turned = [started |-> s.started, yaw |-> yaw, pitch |-> s.pitch,
                    count |-> s.count]
      BY DEF IsPoseRun
    <3> HIDE DEF turned
    <3>2. nodded = [started |-> s.started, yaw |-> yaw, pitch |-> pitch,
                    count |-> s.count]
      BY <3>1
    <3> HIDE DEF nodded
    <3> QED
      BY <3>2
  <2> HIDE DEF longer
  <2>2. s.count = 0 => AddPose(s, ts, p) = fresh
    BY Zenon DEF AddPose
  <2>3. s.count # 0 => AddPose(s, ts, p) = fresh \/ AddPose(s, ts, p) = longer
    BY <2>1, Zenon DEF AddPose
  <2> HIDE DEF fresh
  <2> QED
    BY <2>2, <2>3
<1> HIDE DEF fresh, longer
<1> QED
  BY <1>1, <1>2, <1>3

LEMMA PoseCalibratorUpdates ==
  ASSUME NEW c, IsPoseCalibrator(c), NEW ts, NEW p,
         p.yaw \in Int, p.pitch \in Int
  PROVE  LET updated == updatePoseCalibrator(c, ts, p)
         IN  IsPoseCalibrator(updated.calibrator) /\ Angles(updated.answer)
<1> DEFINE updated == updatePoseCalibrator(c, ts, p)
           samples == AddPose(c.samples, ts, p)
           neutral == NeutralOf(samples)
<1>1. \A n : n.yaw \in Int /\ n.pitch \in Int => Angles(RelativeTo(n, p))
  BY DEF Angles, RelativeTo
<1>2. CASE NotAfter(c.last, ts)
  <2>1. updated = [calibrator |-> c, answer |-> None]
    BY <1>2 DEF updatePoseCalibrator
  <2> QED
    BY <2>1 DEF Angles
<1>3. CASE ~NotAfter(c.last, ts) /\ c.neutral # None
  <2>1. updated = [calibrator |-> [last |-> ts, samples |-> c.samples,
                                   neutral |-> c.neutral],
                   answer |-> RelativeTo(c.neutral, p)]
    BY <1>3 DEF updatePoseCalibrator, IsPoseCalibrator
  <2>2. Angles(RelativeTo(c.neutral, p))
    BY <1>1, <1>3 DEF IsPoseCalibrator, Angles
  <2> QED
    BY <2>1, <2>2 DEF IsPoseCalibrator
<1>4. CASE ~NotAfter(c.last, ts) /\ c.neutral = None
  <2>1. IsPoseRun(samples) /\ samples.count # 0
    BY PoseRunGrows DEF IsPoseCalibrator
  <2>2. neutral.yaw \in Int /\ neutral.pitch \in Int
    BY <2>1 DEF IsPoseRun, NeutralOf
  <2> HIDE DEF samples, neutral
  <2>3. \/ updated = [calibrator |-> [last |-> ts, samples |-> samples,
                                      neutral |-> neutral],
                      answer |-> RelativeTo(neutral, p)]
        \/ updated = [calibrator |-> [last |-> ts, samples |-> samples,
                                      neutral |-> None],
                      answer |-> None]
    BY <1>4 DEF updatePoseCalibrator, samples, neutral
  <2>4. Angles(RelativeTo(neutral, p)) /\ Angles(neutral) /\ Angles(None)
    BY <1>1, <2>2 DEF Angles
  <2> QED
    BY <2>1, <2>3, <2>4 DEF IsPoseCalibrator
<1> HIDE DEF updated
<1> QED
  BY <1>2, <1>3, <1>4 DEF updated

\* The types of what the loop keeps of a frame.
LoopTypes ==
  /\ verdict \in ObservationUsability /\ eyeUsability \in ObservationUsability
  /\ IsPoseCalibrator(poseCalibrator) /\ Angles(calibratedPose)
  /\ zone \in Turning!HeadZone

LEMMA LoopTypesInit == Init => LoopTypes
BY NewIsPoseCalibrator
DEF Init, LoopTypes, Gate!Init, Turning!Init, Turning!HeadZone, Angles,
    ObservationUsability

LEMMA VerdictIsUsability ==
  ASSUME NEW ts, NEW h, h.validity \in SourceValidity, Gate!update(h, ts)
  PROVE  verdict' \in ObservationUsability
<1>1. Gate!classifyObservation(h, ts, policy) \in ObservationUsability
  BY DEF Gate!classifyObservation, SourceValidity, ObservationUsability
<1> QED
  BY <1>1
  DEF Gate!update, Gate!RejectTimestamp, Gate!LoseQuality, Gate!StayUsable,
      Gate!Recover, ObservationUsability

\* The header the loop gives the gate is one.
LEMMA HeaderIsHeader ==
  ASSUME NEW ts \in Int, NEW f \in Frames, NEW pose
  PROVE  QualityHeader(ts, f, pose) \in ObservationHeader
<1> DEFINE confidence == QualityHeader(ts, f, pose).confidence
           visibility == QualityHeader(ts, f, pose).visibility
           validity == QualityHeader(ts, f, pose).validity
<1>1. f.quality \in Quality
  BY FramePipelineAssumption DEF Frame
<1>2. /\ confidence \in {f.quality.confidence, 0}
      /\ visibility \in {f.quality.visibility, 0}
      /\ validity \in {f.quality.validity, "Missing"}
  BY DEF QualityHeader
<1>3. /\ f.quality.confidence \in Optional(Int)
      /\ f.quality.visibility \in Optional(Int)
      /\ f.quality.validity \in SourceValidity
  BY <1>1 DEF Quality
<1>4. 0 \in Optional(Int) /\ "Missing" \in SourceValidity
  BY DEF Optional, SourceValidity
<1>5. /\ confidence \in Optional(Int) /\ visibility \in Optional(Int)
      /\ validity \in SourceValidity
  BY <1>2, <1>3, <1>4
<1>6. QualityHeader(ts, f, pose) =
        [validity |-> validity, capturedAt |-> ts, confidence |-> confidence,
         visibility |-> visibility]
  BY DEF QualityHeader
<1> HIDE DEF confidence, visibility, validity
<1> QED
  BY <1>5, <1>6 DEF ObservationHeader

\* What a step of the loop is.
LEMMA LoopSteps ==
  ASSUME Clock, [HNext]_hvars
  PROVE  \/ \E ts \in Timestamps, f \in Frames : Observe(ts, f) /\ ts \in Int
         \/ Derive /\ phase = "events" /\ now \in Timestamps
         \/ UNCHANGED vars
<1>1. CASE NextFrame
  BY <1>1, FrameComes
<1>2. CASE Derive
  BY <1>2 DEF Derive, Clock
<1> QED
  BY <1>1, <1>2 DEF HNext, hvars

LEMMA ObserveKeepsTypes ==
  ASSUME LoopTypes, NEW ts \in Int, NEW f \in Frames, Observe(ts, f)
  PROVE  LoopTypes'
<1>1. verdict' \in ObservationUsability
  <2>1. QualityHeader(ts, f, calibratedPose').validity \in SourceValidity
    BY HeaderIsHeader DEF ObservationHeader
  <2> QED
    BY <2>1, VerdictIsUsability DEF Observe
<1>2. eyeUsability' \in ObservationUsability
  <2>1. eyeUsability' \in {verdict', "Recovering"}
    BY DEF Observe, KeepCalibration, AwaitCalibration, AwaitedUsability,
           ApplyCalibration
  <2> QED
    BY <1>1, <2>1 DEF ObservationUsability
<1>3. IsPoseCalibrator(poseCalibrator)' /\ Angles(calibratedPose)'
  <2> DEFINE before == IF Recalibrates(ts, f) THEN NewPoseCalibrator
                                              ELSE poseCalibrator
             updated == updatePoseCalibrator(before, ts, f.pose)
  <2>1. IsPoseCalibrator(before)
    BY NewIsPoseCalibrator DEF LoopTypes
  <2> HIDE DEF before
  <2>2. \/ poseCalibrator' = before /\ calibratedPose' = None
        \/ /\ f.pose # None
           /\ poseCalibrator' = updated.calibrator
           /\ calibratedPose' = updated.answer
    BY DEF Observe, ObservePose, before
  <2>3. f.pose # None => f.pose.yaw \in Int /\ f.pose.pitch \in Int
    <3>1. f.pose \in Optional(Pose)
      BY FramePipelineAssumption DEF Frame
    <3>2. f.pose # None => f.pose \in Pose
      BY <3>1, OptionalElement
    <3> QED
      BY <3>2 DEF Pose
  <2>4. f.pose # None => IsPoseCalibrator(updated.calibrator)
                         /\ Angles(updated.answer)
    BY <2>1, <2>3, PoseCalibratorUpdates
  <2> HIDE DEF updated
  <2> QED
    BY <2>1, <2>2, <2>4 DEF IsPoseCalibrator, Angles
<1>4. zone' = zone
  BY DEF Observe, machineVars
<1> QED
  BY <1>1, <1>2, <1>3, <1>4 DEF LoopTypes

LEMMA PoseSampleIsZone ==
  ASSUME NEW u, NEW x, NEW y
  PROVE  Turning!RawZone(u, x, y) \in Turning!HeadZone
BY DEF Turning!RawZone, Turning!rawZone, Turning!HeadZone, Turning!Direction

LEMMA ZoneIsZone ==
  ASSUME zone \in Turning!HeadZone, NEW ts, NEW u, NEW x, NEW y,
         Turning!update(ts, u, x, y)
  PROVE  /\ zone' \in Turning!HeadZone
         /\ poseResult'.zone \in Turning!HeadZone
<1> DEFINE raw == Turning!RawZone(u, x, y)
<1>1. raw \in Turning!HeadZone
  BY PoseSampleIsZone
<1>2. Turning!Sample(ts, raw)
  BY DEF Turning!update
<1> HIDE DEF raw
<1>3. "Unknown" \in Turning!HeadZone /\ "Neutral" \in Turning!HeadZone
  BY DEF Turning!HeadZone
<1>4. CASE Turning!RejectSample(ts) \/ Turning!LosePose(ts, raw)
  BY <1>3, <1>4 DEF Turning!RejectSample, Turning!LosePose, Turning!NoPose
<1>5. CASE Turning!HoldZone(ts, raw)
  BY <1>5 DEF Turning!HoldZone
<1>6. CASE Turning!ReturnToNeutral(ts, raw)
  BY <1>3, <1>6 DEF Turning!ReturnToNeutral
<1>7. CASE Turning!TurnHead(ts, raw)
  BY <1>1, <1>7 DEF Turning!TurnHead
<1> QED
  BY <1>2, <1>4, <1>5, <1>6, <1>7 DEF Turning!Sample

LEMMA LoopTypesAreInvariant == HSpec => []LoopTypes
<1>1. HInit => LoopTypes
  BY LoopTypesInit DEF HInit
<1>2. ASSUME Clock, LoopTypes, [HNext]_hvars PROVE LoopTypes'
  <2>1. ASSUME NEW ts \in Int, NEW f \in Frames, Observe(ts, f)
        PROVE  LoopTypes'
    BY <1>2, <2>1, ObserveKeepsTypes
  <2>2. CASE Derive
    <3>1. zone' \in Turning!HeadZone
      BY <1>2, <2>2, ZoneIsZone DEF Derive, LoopTypes
    <3>2. UNCHANGED <<loopVars, gateVars>>
      BY <2>2 DEF Derive
    <3> QED
      BY <1>2, <3>1, <3>2
      DEF loopVars, gateVars, LoopTypes, IsPoseCalibrator, IsPoseRun, Angles
  <2>3. CASE UNCHANGED vars
    BY <1>2, <2>3
    DEF vars, loopVars, gateVars, machineVars, LoopTypes, IsPoseCalibrator,
        IsPoseRun, Angles
  <2> QED
    BY <1>2, <2>1, <2>2, <2>3, LoopSteps
<1> QED
  BY <1>1, <1>2, ClockIsInvariant, PTL DEF HSpec

-----------------------------------------------------------------------------
(* The steps of the gate and of the machines.                              *)

LEMMA FrameFields ==
  ASSUME NEW f \in Frames
  PROVE  /\ f.detected \in BOOLEAN
         /\ f.mouth \in Optional(Int)
         /\ SeenEars(f).right \in Optional(Int)
         /\ SeenEars(f).left \in Optional(Int)
         /\ Of(f.gaze, "horizontal") \in Optional(Int)
         /\ Of(f.gaze, "vertical") \in Optional(Int)
<1>1. /\ f.detected \in BOOLEAN /\ f.mouth \in Optional(Int)
      /\ f.ears \in Ears /\ f.gaze \in Optional(MappedGaze)
  BY FramePipelineAssumption DEF Frame
<1>2. f.ears.right \in Optional(Int) /\ f.ears.left \in Optional(Int)
  BY <1>1 DEF Ears
<1>3. None \in Optional(Int) /\ \A x \in Int : x \in Optional(Int)
  BY DEF Optional
<1>4. /\ SeenEars(f).right \in {f.ears.right, None}
      /\ SeenEars(f).left \in {f.ears.left, None}
  BY DEF SeenEars
<1>5. CASE f.gaze = None
  BY <1>1, <1>2, <1>3, <1>4, <1>5 DEF Of
<1>6. CASE f.gaze # None
  <2>1. f.gaze \in MappedGaze
    BY <1>1, <1>6, OptionalElement
  <2>2. f.gaze["horizontal"] \in Int /\ f.gaze["vertical"] \in Int
    BY <2>1 DEF MappedGaze
  <2> QED
    BY <1>1, <1>2, <1>3, <1>4, <1>6, <2>2 DEF Of
<1> QED
  BY <1>5, <1>6

LEMMA UsableIfIsUsability ==
  ASSUME NEW c PROVE UsableIf(c) \in ObservationUsability
BY DEF UsableIf, ObservationUsability

LEMMA GateStep ==
  ASSUME AnyInput, Clock, LoopTypes, [HNext]_hvars
  PROVE  [Gate!Next]_(Gate!vars)
<1>1. ASSUME NEW ts \in Timestamps, NEW f \in Frames, Observe(ts, f),
             ts \in Int
      PROVE  Gate!Next
  <2>1. QualityHeader(ts, f, calibratedPose') \in Headers
    BY <1>1, HeaderIsHeader DEF AnyInput
  <2> QED
    BY <1>1, <2>1 DEF Observe, Gate!Next
<1>2. ASSUME Derive \/ UNCHANGED vars
      PROVE  UNCHANGED Gate!vars
  BY <1>2 DEF Derive, vars, gateVars, Gate!vars, Gate!fsm
<1> QED
  BY <1>1, <1>2, LoopSteps

\* The machines of DmsTemporalEvents have not heard of a frame until its
\* quality is known.
LEMMA MachinesRest ==
  ASSUME NEW ts, NEW f, Observe(ts, f) \/ UNCHANGED vars
  PROVE  /\ UNCHANGED Mouth!vars /\ UNCHANGED Turning!vars
         /\ UNCHANGED Gaze!vars /\ UNCHANGED Seat!vars
         /\ UNCHANGED Sight!vars /\ UNCHANGED Driver!vars
<1>1. UNCHANGED machineVars
  BY DEF Observe, vars
<1> QED
  BY <1>1
  DEF machineVars, Mouth!vars, Mouth!fsm, Turning!vars, Turning!fsm,
      Gaze!vars, Gaze!fsm, Seat!vars, Seat!fsm, Sight!vars, Sight!fsm,
      Driver!vars, Driver!fsm

LEMMA SeatStep ==
  ASSUME Clock, FrameGiven, [HNext]_hvars
  PROVE  [Seat!Next]_(Seat!vars)
<1>1. ASSUME Derive, phase = "events", now \in Timestamps
      PROVE  Seat!Next
  <2>1. frame.detected \in BOOLEAN
    BY <1>1, FrameFields DEF FrameGiven
  <2>2. UsableIf(frame.detected) \in Seat!ObservationUsability
    BY UsableIfIsUsability DEF ObservationUsability, Seat!ObservationUsability
  <2> QED
    BY <1>1, <2>1, <2>2 DEF Derive, Seat!Next
<1> QED
  BY <1>1, LoopSteps, MachinesRest

LEMMA SightStep ==
  ASSUME Clock, LoopTypes, [HNext]_hvars
  PROVE  [Sight!Next]_(Sight!vars)
<1>1. ASSUME Derive, phase = "events", now \in Timestamps
      PROVE  Sight!Next
  <2>1. eyeUsability \in Sight!ObservationUsability
    BY DEF LoopTypes, ObservationUsability, Sight!ObservationUsability
  <2> QED
    BY <1>1, <2>1 DEF Derive, Sight!Next
<1> QED
  BY <1>1, LoopSteps, MachinesRest

LEMMA MouthStep ==
  ASSUME AnyInput, Clock, FrameGiven, [HNext]_hvars
  PROVE  [Mouth!Next]_(Mouth!vars)
<1>1. ASSUME Derive, phase = "events", now \in Timestamps
      PROVE  Mouth!Next
  <2> DEFINE usability == UsableIf(frame.geometry)
  <2>1. frame.mouth \in Mouth!Optional(MouthInputs)
    BY <1>1, FrameFields DEF FrameGiven, AnyInput, Optional, Mouth!Optional
  <2>2. usability \in Mouth!ObservationUsability
    BY UsableIfIsUsability DEF ObservationUsability, Mouth!ObservationUsability
  <2>3. Mouth!Sample(now, Mouth!Mouth(usability, frame.mouth))
    BY <1>1 DEF Derive, Mouth!update
  <2> HIDE DEF usability
  <2>4. Mouth!Mouth(usability, frame.mouth) \in Mouth!MouthSamples
    BY <2>1, <2>2 DEF Mouth!MouthSamples
  <2> QED
    BY <1>1, <2>3, <2>4 DEF Mouth!Next
<1> QED
  BY <1>1, LoopSteps, MachinesRest

LEMMA TurningStep ==
  ASSUME AnyInput, Clock, LoopTypes, [HNext]_hvars
  PROVE  [Turning!Next]_(Turning!vars)
<1>1. ASSUME Derive, phase = "events", now \in Timestamps
      PROVE  Turning!Next
  <2> DEFINE yaw == Of(calibratedPose, "yaw")
             pitch == Of(calibratedPose, "pitch")
  <2>1. yaw \in Turning!Optional(Int) /\ pitch \in Turning!Optional(Int)
    BY DEF LoopTypes, Angles, Of, Turning!Optional
  <2>2. PoseUsability \in Turning!ObservationUsability
    BY DEF PoseUsability, Turning!ObservationUsability
  <2>3. Turning!Sample(now, Turning!RawZone(PoseUsability, yaw, pitch))
    BY <1>1 DEF Derive, Turning!update
  <2> HIDE DEF yaw, pitch
  <2>4. Turning!RawZone(PoseUsability, yaw, pitch) \in Turning!PoseSamples
    BY <2>1, <2>2 DEF Turning!PoseSamples, AnyInput
  <2> QED
    BY <1>1, <2>3, <2>4 DEF Turning!Next
<1> QED
  BY <1>1, LoopSteps, MachinesRest

LEMMA GazeStep ==
  ASSUME AnyInput, Clock, LoopTypes, FrameGiven, [HNext]_hvars
  PROVE  [Gaze!Next]_(Gaze!vars)
<1>1. ASSUME Derive, phase = "events", now \in Timestamps
      PROVE  Gaze!Next
  <2> DEFINE horizontal == Of(frame.gaze, "horizontal")
             vertical == Of(frame.gaze, "vertical")
             head == poseResult'.zone
  <2>1. horizontal \in Gaze!Optional(Int) /\ vertical \in Gaze!Optional(Int)
    BY <1>1, FrameFields DEF FrameGiven, Optional, Gaze!Optional
  <2>2. GazeUsability \in Gaze!ObservationUsability
    BY UsableIfIsUsability
    DEF GazeUsability, ObservationUsability, Gaze!ObservationUsability
  <2>3. head \in Gaze!HeadZone
    <3>1. head \in Turning!HeadZone
      BY <1>1, ZoneIsZone DEF Derive, LoopTypes
    <3> QED
      BY <3>1
      DEF Turning!HeadZone, Turning!Direction, Gaze!HeadZone, Gaze!Direction
  <2>4. Gaze!Sample(now, Gaze!RawGaze(GazeUsability, horizontal, vertical),
                    head)
    BY <1>1 DEF Derive, Gaze!update
  <2> HIDE DEF horizontal, vertical, head
  <2>5. Gaze!RawGaze(GazeUsability, horizontal, vertical) \in Gaze!GazeSamples
    BY <2>1, <2>2 DEF Gaze!GazeSamples, AnyInput
  <2> QED
    BY <1>1, <2>3, <2>4, <2>5 DEF Gaze!Next
<1> QED
  BY <1>1, LoopSteps, MachinesRest

LEMMA SightingIsSighting ==
  ASSUME NEW u, NEW p, NEW perclos, NEW prolonged, NEW longBlink,
         NEW yawn \in BOOLEAN
  PROVE  Driver!Sighting(u, p, perclos, prolonged, longBlink, yawn)
           \in Driver!Sightings
<1> DEFINE sight == Driver!Sighting(u, p, perclos, prolonged, longBlink, yawn)
           evident == Driver!EyeEvidence(perclos, prolonged, longBlink)
<1>1. /\ None \in Driver!Optional(PerclosInputs)
      /\ "Usable" \in Driver!ObservationUsability
      /\ "Unknown" \in Driver!PresenceState
      /\ "Present" \in Driver!PresenceState
  BY DEF Driver!Optional, Driver!ObservationUsability, Driver!PresenceState
<1>2. \A state \in Driver!PresenceState, long, blink \in BOOLEAN :
        Driver!Sighting("Usable", state, None, long, blink, yawn)
          \in Driver!Sightings
  BY <1>1 DEF Driver!Sightings
<1>3. CASE sight = None
  <2>1. Driver!Sighting("Usable", "Unknown", None, FALSE, FALSE, yawn) = None
    BY DEF Driver!Sighting
  <2> QED
    BY <1>1, <1>2, <1>3, <2>1
<1>4. CASE sight # None
  <2>1. sight = [eyes |-> evident, yawn |-> yawn]
    BY <1>4 DEF Driver!Sighting
  <2>2. \E long, blink \in BOOLEAN :
          evident = Driver!EyeEvidence(None, long, blink)
    <3>1. evident \in {"Drowsy", "Warning", "Normal"}
      BY DEF Driver!EyeEvidence
    <3>2. /\ Driver!EyeEvidence(None, TRUE, FALSE) = "Drowsy"
          /\ Driver!EyeEvidence(None, FALSE, TRUE) = "Warning"
          /\ Driver!EyeEvidence(None, FALSE, FALSE) = "Normal"
      BY DEF Driver!EyeEvidence, Driver!Reaches
    <3> QED
      BY <3>1, <3>2
  <2> HIDE DEF evident
  <2>3. PICK long \in BOOLEAN, blink \in BOOLEAN :
          evident = Driver!EyeEvidence(None, long, blink)
    BY <2>2
  <2>4. Driver!Sighting("Usable", "Present", None, long, blink, yawn) = sight
    BY <2>1, <2>3 DEF Driver!Sighting
  <2> QED
    BY <1>1, <1>2, <2>4
<1> QED
  BY <1>3, <1>4

LEMMA YawnsAreEvents ==
  ASSUME NEW ts, NEW u, NEW x, Mouth!update(ts, u, x)
  PROVE  yawnResult'.event \in BOOLEAN
<1> DEFINE mouth == Mouth!Mouth(u, x)
<1>1. CASE Mouth!CloseMouth(ts, mouth)
  <2> DEFINE since == Mouth!StartedBy(mouthCandidate, ts)
             confirmed == ts - since >= YawnConfirmation
             yawn == confirmed /\ Mouth!isYawn(since, ts)
  <2>1. yawnResult' = [active |-> ~confirmed, event |-> yawn]
    BY <1>1, Zenon DEF Mouth!CloseMouth
  <2>2. yawn \in BOOLEAN
    BY Zenon
  <2> HIDE DEF yawn, confirmed
  <2> QED
    BY <2>1, <2>2
<1>2. CASE \/ Mouth!RejectSample(ts)
           \/ Mouth!LoseMouth(ts, mouth)
           \/ Mouth!OpenMouth(ts, mouth)
           \/ Mouth!HoldMouth(ts, mouth)
  <2>1. PICK held : yawnResult' = [active |-> held, event |-> FALSE]
    BY <1>2, Zenon
    DEF Mouth!RejectSample, Mouth!LoseMouth, Mouth!OpenMouth, Mouth!HoldMouth,
        Mouth!NoYawn
  <2> QED
    BY <2>1
<1> QED
  BY <1>1, <1>2 DEF Mouth!update, Mouth!Sample

LEMMA DriverStep ==
  ASSUME Clock, [HNext]_hvars
  PROVE  [Driver!Next]_(Driver!vars)
<1>1. ASSUME Derive, now \in Timestamps
      PROVE  Driver!Next
  <2> DEFINE sight ==
        Driver!Sighting(eyeUsability, presenceReturned',
                        PerclosPercentage(eyeResult'.perclos),
                        eyeResult'.prolongedClosure,
                        eyeResult'.longBlinkEvent, yawnResult'.event)
  <2>1. Driver!Sample(now, sight)
    BY <1>1 DEF Derive, Driver!update
  <2>2. yawnResult'.event \in BOOLEAN
    BY <1>1, YawnsAreEvents DEF Derive
  <2>3. sight \in Driver!Sightings
    BY <2>2, SightingIsSighting
  <2> HIDE DEF sight
  <2> QED
    BY <1>1, <2>1, <2>3 DEF Driver!Next
<1> QED
  BY <1>1, LoopSteps, MachinesRest

-----------------------------------------------------------------------------
(* The steps of the eye metrics.                                           *)

\* A calibration that the calibrator finds is one.
LEMMA FoundIsCalibration ==
  ASSUME NEW s, s.count \in Nat, s.count # 0, s.run.sum \in Int
  PROVE  CalibrationOf(s) \in EyeCalibration
<1> DEFINE k == s.count
           sum == s.run.sum
           open == sum \div k
<1>1. open \in Int
  <2>1. k \in Nat /\ k # 0 /\ sum \in Int
    OBVIOUS
  <2> HIDE DEF k, sum
  <2> QED
    BY <2>1
<1>2. CalibrationOf(s) = [closedEar |-> (open * ClosedToOpenRatio) \div 100,
                          openEar |-> open]
  BY DEF CalibrationOf
<1> HIDE DEF open
<1>3. (open * ClosedToOpenRatio) \div 100 \in Int
  <2>1. ClosedToOpenRatio \in Int
    BY CalibratorsAssumption DEF ValidEyeCalibrationConfig
  <2>2. open * ClosedToOpenRatio \in Int
    BY <1>1, <2>1
  <2> QED
    BY <2>2
<1> QED
  BY <1>1, <1>2, <1>3 DEF EyeCalibration

LEMMA EyeRunGrows ==
  ASSUME NEW s, s.count \in Nat, s.count # 0 => s.run.sum \in Int,
         s = [started |-> s.started, run |-> s.run, count |-> s.count],
         NEW ts, NEW u, NEW e, Instant(e.right), Instant(e.left)
  PROVE  LET new == EyeSamples(s, ts, u, e)
         IN  new.count \in Nat /\ (new.count # 0 => new.run.sum \in Int)
<1> DEFINE ear == LessOpen(e)
           new == EyeSamples(s, ts, u, e)
           extended == Extend(s.run, ear)
           fresh == [started |-> ts, run |-> RunOf(ear), count |-> 1]
           longer == [started |-> s.started, run |-> extended,
                      count |-> s.count + 1]
<1>1. CASE ~GoodEars(u, e)
  <2>1. new = NoEyeRun
    BY <1>1, EyeSamplesAre
  <2> QED
    BY <2>1 DEF NoEyeRun
<1>2. CASE GoodEars(u, e)
  <2>1. ear \in Int
    BY <1>2 DEF GoodEars, LessOpen, Instant
  <2>2. new = AddEar(s, ts, ear)
    BY <1>2, EyeSamplesAre
  <2> HIDE DEF ear, new
  <2>3. new = fresh \/ (s.count # 0 /\ new = longer)
    BY <2>2 DEF AddEar
  <2>4. fresh.count \in Nat /\ fresh.run.sum \in Int
    BY <2>1 DEF RunOf
  <2>5. s.count # 0 => longer.count \in Nat /\ longer.run.sum \in Int
    <3>1. s.count # 0 => extended.sum \in Int
      BY <2>1 DEF Extend
    <3> HIDE DEF extended
    <3> QED
      BY <3>1
  <2> HIDE DEF fresh, longer
  <2> QED
    BY <2>3, <2>4, <2>5 DEF new
<1> QED
  BY <1>1, <1>2

LEMMA AppliedIsCalibration ==
  ASSUME Clock, Calibrated, EvidenceInv, NEW ts \in Int, NEW f \in Frames,
         ApplyCalibration(ts, f)
  PROVE  \E c \in EyeCalibration : Eyes!setCalibration(c)
<1> DEFINE e == SeenEars(f)
           s == eyeCalibrator.samples
           new == EyeSamples(s, ts, verdict', e)
           updated == updateEyeCalibrator(eyeCalibrator, ts, verdict', e)
<1>1. /\ ~eyeCalibrationApplied /\ updated.answer # None
      /\ Eyes!setCalibration(updated.answer)
  BY DEF ApplyCalibration
<1>2. /\ eyeCalibrator.calibration = None /\ IsCalibrator(eyeCalibrator)
      /\ ~NotAfter(eyeCalibrator.last, ts)
  <2>1. NotAfter(eyeCalibrator.last, ts) => updated.answer = None
    BY DEF updateEyeCalibrator
  <2> QED
    BY <1>1, <2>1 DEF Calibrated, Clock
<1>3. updated.answer = CalibrationOf(new) /\ new.count > 0
  BY <1>1, <1>2, CalibratorAwaits
<1>4. Instant(e.right) /\ Instant(e.left)
  BY FrameFields, OptionalElement DEF Instant
<1>5. /\ s.count \in Nat /\ (s.count # 0 => s.run.sum \in Int)
      /\ s = [started |-> s.started, run |-> s.run, count |-> s.count]
  BY <1>1, <1>2 DEF EvidenceInv, Backed, IsCalibrator
<1> HIDE DEF s, e
<1>6. new.count \in Nat /\ (new.count # 0 => new.run.sum \in Int)
  BY <1>4, <1>5, EyeRunGrows
<1> HIDE DEF new, updated
<1>7. CalibrationOf(new) \in EyeCalibration
  BY <1>3, <1>6, FoundIsCalibration
<1> QED
  BY <1>1, <1>3, <1>7

LEMMA EyesStep ==
  ASSUME AnyInput, Clock, Calibrated, EvidenceInv, LoopTypes, FrameGiven,
         [HNext]_hvars
  PROVE  [Eyes!Next]_(Eyes!vars)
<1>1. ASSUME NEW ts \in Timestamps, NEW f \in Frames, Observe(ts, f),
             ts \in Int
      PROVE  [Eyes!Next]_(Eyes!vars)
  <2>1. CASE UNCHANGED eyeVars
    BY <2>1 DEF eyeVars, Eyes!vars, Eyes!fsm
  <2>2. CASE AwaitCalibration(ts, f)
    BY <2>1, <2>2 DEF AwaitCalibration, Eyes!Next
  <2>3. CASE ApplyCalibration(ts, f)
    BY <1>1, <2>3, AppliedIsCalibration DEF AnyInput, Eyes!Next
  <2> QED
    BY <1>1, <2>1, <2>2, <2>3 DEF Observe, KeepCalibration
<1>2. ASSUME Derive, phase = "events", now \in Timestamps
      PROVE  Eyes!Next
  <2> DEFINE right == SeenEars(frame).right
             left == SeenEars(frame).left
  <2>1. right \in Eyes!Optional(EarInputs) /\ left \in Eyes!Optional(EarInputs)
    BY <1>2, FrameFields DEF FrameGiven, AnyInput, Optional, Eyes!Optional
  <2>2. eyeUsability \in UsabilityInputs
    BY DEF LoopTypes, AnyInput
  <2>3. Eyes!Sample(now, Eyes!Openness(eyeUsability, right, left))
    BY <1>2 DEF Derive, Eyes!update
  <2> HIDE DEF right, left
  <2>4. Eyes!Openness(eyeUsability, right, left) \in Eyes!OpennessInputs
    BY <2>1, <2>2 DEF Eyes!OpennessInputs
  <2> QED
    BY <1>2, <2>3, <2>4 DEF Eyes!Next
<1>3. CASE UNCHANGED vars
  BY <1>3 DEF vars, eyeVars, Eyes!vars, Eyes!fsm
<1> QED
  BY <1>1, <1>2, <1>3, LoopSteps

-----------------------------------------------------------------------------
(***************************************************************************)
(* The quality gate: its client is the header of every frame, and nothing  *)
(* else the loop does touches it.                                          *)
(***************************************************************************)
THEOREM LoopDrivesGate == ASSUME AnyInput PROVE HSpec => Gate!Spec
<1>1. HInit => Gate!Init
  BY DEF HInit, Init
<1>2. Clock /\ LoopTypes /\ [HNext]_hvars =>
        [Gate!Next]_(Gate!vars)
  BY GateStep
<1> QED
  BY <1>1, <1>2, ClockIsInvariant, LoopTypesAreInvariant, PTL
  DEF HSpec, Gate!Spec

(***************************************************************************)
(* The eye metrics: a recalibration is a reset, an answer of the           *)
(* calibrator a setCalibration with a calibration of integers, every frame *)
(* a sample with a usability and two ratios.                               *)
(***************************************************************************)
THEOREM LoopDrivesMetrics == ASSUME AnyInput PROVE HSpec => Eyes!Spec
<1>1. HInit => Eyes!Init
  BY DEF HInit, Init
<1>2. HSpec => []EvidenceInv
  BY EvidenceInit, EvidenceStep, ClockIsInvariant, CalibratedIsInvariant,
     PTL DEF HSpec
<1>3. Clock /\ Calibrated /\ EvidenceInv /\ LoopTypes /\ FrameGiven
        /\ [HNext]_hvars => [Eyes!Next]_(Eyes!vars)
  BY EyesStep
<1> QED
  BY <1>1, <1>2, <1>3, ClockIsInvariant, CalibratedIsInvariant,
     LoopTypesAreInvariant, FrameIsGiven, PTL
  DEF HSpec, Eyes!Spec

(***************************************************************************)
(* The six machines of DmsTemporalEvents: that one of them reads what      *)
(* another said of the same frame adds nothing to what a client could hand *)
(* it, so their composition in Derive breaks none of their contracts.      *)
(***************************************************************************)
THEOREM LoopDrivesMachines ==
  ASSUME AnyInput
  PROVE  HSpec => /\ Mouth!Spec /\ Turning!Spec /\ Gaze!Spec /\ Seat!Spec
                  /\ Sight!Spec /\ Driver!Spec
<1>1. HInit => /\ Mouth!Init /\ Turning!Init /\ Gaze!Init /\ Seat!Init
               /\ Sight!Init /\ Driver!Init
  BY DEF HInit, Init
<1>2. Clock /\ LoopTypes /\ FrameGiven /\ [HNext]_hvars =>
        /\ [Mouth!Next]_(Mouth!vars) /\ [Turning!Next]_(Turning!vars)
        /\ [Gaze!Next]_(Gaze!vars) /\ [Seat!Next]_(Seat!vars)
        /\ [Sight!Next]_(Sight!vars) /\ [Driver!Next]_(Driver!vars)
  BY MouthStep, TurningStep, GazeStep, SeatStep, SightStep, DriverStep
<1> QED
  BY <1>1, <1>2, ClockIsInvariant, LoopTypesAreInvariant, FrameIsGiven, PTL
  DEF HSpec, Mouth!Spec, Turning!Spec, Gaze!Spec, Seat!Spec, Sight!Spec,
      Driver!Spec
=============================================================================
