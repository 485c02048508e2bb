------------------------- MODULE EventMachinesProofs -------------------------
(***************************************************************************)
(* The machines of EventMachines share no state, so each behaves beside    *)
(* the others as it does alone, and what is proved of one alone            *)
(* (QualityGateProofs) holds in the composition.  Gate and GateProofs are  *)
(* two instances of the same definitions: the leaves that pass from one to *)
(* the other expand both.                                                  *)
(***************************************************************************)
EXTENDS EventMachines, RollingWindowProofs

\* An instant that may be absent, as the two cases the proofs distinguish.
Instant(x) == x = None \/ x \in Int

NotLater(since, then) == since # None => then # None /\ since <= then

LEMMA LongerSinceEarlier ==
  \A now, since, earlier, d \in Int :
    now - since >= d /\ earlier <= since => now - earlier >= d
OBVIOUS

GateProofs == INSTANCE QualityGateProofs WITH lastTimestamp <- gateLast

LEMMA GateConfig ==
  /\ Headers \subseteq GateProofs!ObservationHeader
  /\ GateProofs!ValidGateConfig
BY GateConfigAssumption
DEF ValidGateConfig, GateProofs!ValidGateConfig,
    ObservationHeader, GateProofs!ObservationHeader,
    ObservationPolicy, GateProofs!ObservationPolicy,
    SourceValidity, GateProofs!SourceValidity, Optional, GateProofs!Optional

\* The configurations of the other machines, which the gate does not read.
LEMMA OtherConfigs ==
  /\ GateProofs!ValidYawnConfig
  /\ GateProofs!ValidHeadPoseConfig
  /\ GateProofs!ValidDistractionConfig
  /\ GateProofs!ValidPresenceConfig
  /\ GateProofs!ValidAvailabilityConfig
  /\ GateProofs!ValidDrowsinessConfig
<1>1. GateProofs!ValidYawnConfig
  BY YawnConfigAssumption DEF ValidYawnConfig, GateProofs!ValidYawnConfig
<1>2. GateProofs!ValidHeadPoseConfig
  BY HeadPoseConfigAssumption
  DEF ValidHeadPoseConfig, GateProofs!ValidHeadPoseConfig
<1>3. GateProofs!ValidDistractionConfig
  BY DistractionConfigAssumption
  DEF ValidDistractionConfig, GateProofs!ValidDistractionConfig
<1>4. GateProofs!ValidPresenceConfig
  BY PresenceConfigAssumption
  DEF ValidPresenceConfig, GateProofs!ValidPresenceConfig
<1>5. GateProofs!ValidAvailabilityConfig
  BY AvailabilityConfigAssumption
  DEF ValidAvailabilityConfig, GateProofs!ValidAvailabilityConfig
<1>6. GateProofs!ValidDrowsinessConfig
  BY DrowsinessConfigAssumption
  DEF ValidDrowsinessConfig, GateProofs!ValidDrowsinessConfig
<1> QED
  BY <1>1, <1>2, <1>3, <1>4, <1>5, <1>6

\* The quality gate of the composition is a quality gate.
LEMMA GateAlone == Spec => GateProofs!HSpec
<1>1. Init => GateProofs!HInit
  BY DEF Init, Gate!HInit, GateProofs!HInit, Gate!Init, GateProofs!Init
<1>2. [Next]_vars => [GateProofs!HNext]_(GateProofs!hvars)
  <2>1. Gate!HNext <=> GateProofs!HNext
    BY DEF Gate!HNext, GateProofs!HNext, Gate!HReset, GateProofs!HReset,
           Gate!HUpdate, GateProofs!HUpdate, Gate!reset, GateProofs!reset,
           Gate!update, GateProofs!update,
           Gate!RejectTimestamp, GateProofs!RejectTimestamp,
           Gate!LoseQuality, GateProofs!LoseQuality,
           Gate!StayUsable, GateProofs!StayUsable,
           Gate!Recover, GateProofs!Recover,
           Gate!classifyObservation, GateProofs!classifyObservation,
           Gate!Good, GateProofs!Good, Gate!Acceptable, GateProofs!Acceptable,
           Gate!NotAfter, GateProofs!NotAfter,
           Gate!StartedBy, GateProofs!StartedBy
  <2> QED
    BY <2>1
    DEF Next, vars, gateVars,
        GateProofs!hvars, GateProofs!owned, GateProofs!fsm
<1> QED
  BY <1>1, <1>2, PTL DEF Spec, GateProofs!HSpec

\* The latch of the gate is open exactly at the end of a long enough run of
\* good samples (ObservationQualityGate::update), whatever the others do.
THEOREM GateLatchIsRight == Spec => []LatchFollowsQuality
<1>1. GateProofs!HSpec => []GateProofs!LatchFollowsQuality
  BY GateProofs!LatchIsRight, GateConfig, OtherConfigs, NoneAssumption,
     TimestampsAssumption, YawnConfigAssumption, HeadPoseConfigAssumption,
     DistractionConfigAssumption, NoZeroTimestamp, DrowsinessConfigAssumption
<1>2. GateProofs!LatchFollowsQuality => LatchFollowsQuality
  BY DEF LatchFollowsQuality, Gate!LatchFollowsQuality,
         GateProofs!LatchFollowsQuality, Gate!Sustained, GateProofs!Sustained,
         Gate!Elapsed, GateProofs!Elapsed
<1> QED
  BY <1>1, <1>2, GateAlone, PTL

\* What the gate answers follows the quality it has seen
\* (ObservationQualityGate::update), whatever the others do.
THEOREM GateVerdictIsRight == Spec => []VerdictFollowsQuality
<1>1. GateProofs!HSpec => []GateProofs!VerdictFollowsQuality
  BY GateProofs!VerdictIsRight, GateConfig, OtherConfigs, NoneAssumption,
     TimestampsAssumption, YawnConfigAssumption, HeadPoseConfigAssumption,
     DistractionConfigAssumption, NoZeroTimestamp, DrowsinessConfigAssumption
<1>2. GateProofs!VerdictFollowsQuality => VerdictFollowsQuality
  BY DEF VerdictFollowsQuality, Gate!VerdictFollowsQuality,
         GateProofs!VerdictFollowsQuality, Gate!Sustained,
         GateProofs!Sustained, Gate!Elapsed, GateProofs!Elapsed
<1> QED
  BY <1>1, <1>2, GateAlone, PTL

-----------------------------------------------------------------------------
(* The driver's presence.                                                  *)

\* The driver's presence in the composition is the machine alone.
LEMMA SeatAlone == Spec => Seat!HSpec
<1>1. Init => Seat!HInit
  BY DEF Init
<1>2. [Next]_vars => [Seat!HNext]_(Seat!hvars)
  BY DEF Next, vars, seatVars, Seat!hvars, Seat!owned, Seat!fsm
<1> QED
  BY <1>1, <1>2, PTL DEF Spec, Seat!HSpec

SeatTypes ==
  /\ Instant(seatLast) /\ Instant(presenceSince)
  /\ Instant(detectedSince) /\ Instant(missedSince)
  /\ presence \in Seat!PresenceState
  /\ candidatePresence \in Seat!PresenceState

\* The answer being confirmed is the one the unbroken run of samples supports,
\* since the start of that run.
CandidateFollowsRun ==
  /\ candidatePresence = "Present" =>
       /\ presenceSince = detectedSince /\ detectedSince # None
       /\ missedSince = None
  /\ candidatePresence = "Absent" =>
       /\ presenceSince = missedSince /\ missedSince # None
       /\ detectedSince = None
  /\ candidatePresence = "Unknown" =>
       detectedSince = None /\ missedSince = None
  /\ NotLater(presenceSince, seatLast)

SeatInv == SeatTypes /\ CandidateFollowsRun /\ AnswersFollowEvidence

LEMMA SeatInit == Seat!HInit => SeatInv
BY DEF Seat!HInit, Seat!Init, SeatInv, SeatTypes, CandidateFollowsRun,
       AnswersFollowEvidence, Seat!AnswersFollowEvidence, Seat!Elapsed,
       Seat!PresenceState, Instant, NotLater

\* What a step promises about a change of the answer.
ConfirmedAnswer ==
  /\ presence' = "Present" /\ presence # "Present" =>
       Seat!Elapsed(detectedSince', seatLast', PresentConfirmation)
  /\ presence' = "Absent" /\ presence # "Absent" =>
       Seat!Elapsed(missedSince', seatLast', AbsentConfirmation)

\* A sample of evidence continues the run it belongs to and breaks the other.
LEMMA SeatFollows ==
  ASSUME SeatInv, NEW ts \in Timestamps, NEW usability, NEW detected,
         Seat!HAccept(ts, usability, detected),
         NEW raw, raw = Seat!RawPresence(usability, detected),
         Seat!FollowEvidence(ts, raw)
  PROVE  SeatInv' /\ ConfirmedAnswer
<1> DEFINE start == IF raw = candidatePresence THEN presenceSince ELSE ts
<1>1. /\ ts \in Int /\ seatLast' = ts
      /\ seatLast # None => seatLast < ts
      /\ candidatePresence' = raw /\ raw \in {"Present", "Absent"}
      /\ presenceSince' = start
      /\ presence' = IF Seat!Elapsed(start, ts, Seat!required(raw))
                     THEN raw ELSE presence
  BY NoneAssumption, TimestampsAssumption
  DEF Seat!HAccept, Seat!FollowEvidence, Seat!AcceptSample, Seat!NotAfter,
      Seat!RawPresence, SeatInv, SeatTypes, Instant
<1>2. start \in Int /\ start <= ts
  BY <1>1, NoneAssumption
  DEF SeatInv, SeatTypes, CandidateFollowsRun, Instant, NotLater
<1>3. /\ raw = "Present" => detectedSince' = start /\ missedSince' = None
      /\ raw = "Absent" => missedSince' = start /\ detectedSince' = None
  BY <1>1 DEF Seat!HAccept, Seat!RawPresence, Seat!StartedBy, SeatInv,
              SeatTypes, Seat!PresenceState, CandidateFollowsRun
<1> HIDE DEF start
<1>4. presence' \in Seat!PresenceState
  BY <1>1 DEF SeatInv, SeatTypes, Seat!PresenceState
<1>5. SeatTypes' /\ CandidateFollowsRun'
  BY <1>1, <1>2, <1>3, <1>4, NoneAssumption
  DEF SeatTypes, CandidateFollowsRun, Seat!PresenceState, Instant, NotLater
<1>6. AnswersFollowEvidence'
  BY <1>1, <1>2, <1>3, NoneAssumption
  DEF Seat!Elapsed, Seat!required, AnswersFollowEvidence,
      Seat!AnswersFollowEvidence
<1>7. ConfirmedAnswer
  BY <1>1, <1>3 DEF ConfirmedAnswer, Seat!required
<1> QED
  BY <1>5, <1>6, <1>7 DEF SeatInv

LEMMA SeatStep ==
  ASSUME SeatInv, Seat!HNext
  PROVE  SeatInv' /\ ConfirmedAnswer
<1>1. CASE Seat!HReset
  <2>1. Seat!HInit'
    BY <1>1 DEF Seat!HReset, Seat!reset, Seat!HInit, Seat!Init
  <2>2. SeatInv'
    BY <2>1, SeatInit, PTL
  <2> QED
    BY <1>1, <2>2 DEF Seat!HReset, Seat!reset, ConfirmedAnswer
<1>2. ASSUME NEW ts \in Timestamps, Seat!HReject(ts)
      PROVE  SeatInv' /\ ConfirmedAnswer
  BY <1>2 DEF Seat!HReject, Seat!RejectSample, SeatInv, SeatTypes,
              CandidateFollowsRun, AnswersFollowEvidence,
              Seat!AnswersFollowEvidence, Seat!Elapsed, ConfirmedAnswer
<1>3. ASSUME NEW ts \in Timestamps, NEW usability \in Seat!ObservationUsability,
             NEW detected \in BOOLEAN, Seat!HAccept(ts, usability, detected)
      PROVE  SeatInv' /\ ConfirmedAnswer
  <2> DEFINE raw == Seat!RawPresence(usability, detected)
  <2>1. CASE Seat!LoseEvidence(ts, raw)
    <3>1. /\ presence' = "Unknown" /\ candidatePresence' = "Unknown"
          /\ presenceSince' = None /\ seatLast' = ts /\ ts \in Int
      BY <2>1, TimestampsAssumption
      DEF Seat!LoseEvidence, Seat!AcceptSample
    <3>2. detectedSince' = None /\ missedSince' = None
      BY <1>3, <2>1
      DEF Seat!HAccept, Seat!LoseEvidence, Seat!RawPresence
    <3> QED
      BY <3>1, <3>2
      DEF SeatInv, SeatTypes, CandidateFollowsRun, AnswersFollowEvidence,
          Seat!AnswersFollowEvidence, Seat!PresenceState, Instant, NotLater,
          ConfirmedAnswer
  <2>2. CASE Seat!FollowEvidence(ts, raw)
    BY <1>3, <2>2, SeatFollows
  <2> QED
    BY <1>3, <2>1, <2>2
    DEF Seat!HAccept, Seat!update, Seat!Sample, Seat!RejectSample
<1> QED
  BY <1>1, <1>2, <1>3 DEF Seat!HNext

LEMMA SeatIsInvariant == Seat!HSpec => []SeatInv
<1>1. SeatInv /\ UNCHANGED Seat!hvars => SeatInv'
  BY DEF Seat!hvars, Seat!owned, Seat!fsm, SeatInv, SeatTypes,
         CandidateFollowsRun, AnswersFollowEvidence,
         Seat!AnswersFollowEvidence, Seat!Elapsed
<1>2. SeatInv /\ [Seat!HNext]_(Seat!hvars) => SeatInv'
  BY <1>1, SeatStep
<1> QED
  BY <1>2, SeatInit, PTL DEF Seat!HSpec

\* Presence and absence do not outlive the evidence against them
\* (DriverPresenceFsm::update), for every pair of confirmations.
THEOREM PresenceFollowsEvidence == Spec => []AnswersFollowEvidence
<1>1. SeatInv => AnswersFollowEvidence
  BY DEF SeatInv
<1> QED
  BY <1>1, SeatAlone, SeatIsInvariant, PTL

\* An answer changes only at the end of an unbroken run that supports it, as
\* long as its own confirmation (DriverPresenceFsm::update).
THEOREM PresenceIsConfirmed == Spec => AnswersAreConfirmed
<1>1. SeatInv /\ [Seat!HNext]_(Seat!hvars) => [ConfirmedAnswer]_(Seat!hvars)
  BY SeatStep
<1> QED
  BY <1>1, SeatAlone, SeatIsInvariant, PTL
  DEF Seat!HSpec, AnswersAreConfirmed, Seat!AnswersAreConfirmed,
      ConfirmedAnswer

-----------------------------------------------------------------------------
(* The availability of monitoring.                                         *)

\* The availability machine of the composition is the machine alone.
LEMMA SightAlone == Spec => Sight!HSpec
<1>1. Init => Sight!HInit
  BY DEF Init
<1>2. [Next]_vars => [Sight!HNext]_(Sight!hvars)
  BY DEF Next, vars, sightVars, Sight!hvars, Sight!owned, Sight!fsm,
         Sight!history
<1> QED
  BY <1>1, <1>2, PTL DEF Spec, Sight!HSpec

SightTypes ==
  /\ Instant(sightLast) /\ Instant(lostSince)
  /\ recorded \in BOOLEAN /\ notified \in BOOLEAN

\* The plain time stamp of the code is the start of the run of unusable
\* samples: its zero, which no time stamp is, stands for no such run.
StartOfEpisode ==
  /\ lostSince = None => unavailableSince = 0
  /\ lostSince # None => unavailableSince = lostSince /\ lostSince # 0
  /\ NotLater(lostSince, sightLast)

SightInv ==
  SightTypes /\ StartOfEpisode /\ EpisodesAreTimed /\ EpisodesCountedOnce

LEMMA SightInit == Sight!HInit => SightInv
<1> SUFFICES ASSUME Sight!HInit
             PROVE  SightInv
  OBVIOUS
<1> USE DEF Sight!HInit, Sight!Init
<1>1. SightTypes /\ StartOfEpisode
  BY DEF SightTypes, StartOfEpisode, Instant, NotLater
<1>2. EpisodesAreTimed
  BY DEF EpisodesAreTimed, Sight!EpisodesAreTimed, Sight!Elapsed,
         Sight!Available
<1>3. EpisodesCountedOnce
  BY DEF EpisodesCountedOnce, Sight!EpisodesCountedOnce
<1> QED
  BY <1>1, <1>2, <1>3 DEF SightInv

LEMMA SightBecomesAvailable ==
  ASSUME SightInv, NEW ts \in Timestamps, NEW usability,
         Sight!HAccept(ts, usability), Sight!BecomeAvailable(ts, usability)
  PROVE  SightInv'
<1>1. /\ lostSince' = None /\ unavailableSince' = 0
      /\ sightLast' = ts /\ ts \in Int
      /\ recorded' = FALSE /\ notified' = FALSE
      /\ availabilityResult' = Sight!Available /\ UNCHANGED episodeCount
  BY TimestampsAssumption
  DEF Sight!HAccept, Sight!BecomeAvailable, Sight!AcceptSample,
      Sight!IsAvailable, Sight!Lost
<1>2. UNCHANGED longEpisodes
  BY <1>1 DEF Sight!HAccept, Sight!Elapsed
<1>3. SightTypes' /\ StartOfEpisode' /\ EpisodesAreTimed'
  BY <1>1
  DEF SightTypes, StartOfEpisode, EpisodesAreTimed, Sight!EpisodesAreTimed,
      Sight!Elapsed, Sight!Available, Instant, NotLater
<1> QED
  BY <1>1, <1>2, <1>3
  DEF SightInv, EpisodesCountedOnce, Sight!EpisodesCountedOnce

LEMMA SightStaysUnavailable ==
  ASSUME SightInv, NEW ts \in Timestamps, NEW usability,
         Sight!HAccept(ts, usability), Sight!StayUnavailable(ts, usability)
  PROVE  SightInv'
<1> DEFINE since == Sight!StartedBy(lostSince, ts)
           long == ts - since >= RecordAfter
           longer == ts - since >= NotifyAfter
<1>1. /\ ts \in Int /\ ts # 0 /\ sightLast' = ts
      /\ sightLast # None => sightLast < ts
      /\ RecordAfter \in Int /\ NotifyAfter \in Int
      /\ 0 <= RecordAfter /\ RecordAfter <= NotifyAfter
  BY NoneAssumption, TimestampsAssumption, NoZeroTimestamp,
     AvailabilityConfigAssumption
  DEF ValidAvailabilityConfig, Sight!HAccept, Sight!StayUnavailable,
      Sight!AcceptSample, Sight!NotAfter, SightInv, SightTypes, Instant
<1>2. since \in Int /\ since # 0 /\ since <= ts
  BY <1>1
  DEF Sight!StartedBy, SightInv, SightTypes, StartOfEpisode, Instant, NotLater
<1>3. lostSince' = since /\ unavailableSince' = since
  BY <1>1
  DEF Sight!HAccept, Sight!StayUnavailable, Sight!IsAvailable, Sight!Lost,
      Sight!StartedBy, SightInv, SightTypes, StartOfEpisode
<1>4. since = IF unavailableSince = 0 THEN ts ELSE unavailableSince
  BY DEF Sight!StartedBy, SightInv, StartOfEpisode
<1>5. /\ recorded' = (recorded \/ (~recorded /\ long))
      /\ notified' = (notified \/ (~notified /\ longer))
      /\ episodeCount' = episodeCount + IF ~recorded /\ long THEN 1 ELSE 0
      /\ availabilityResult'.duration = ts - since
  BY <1>4 DEF Sight!StayUnavailable, Sight!durationOf
<1>6. /\ recorded => long
      /\ notified => longer
      /\ Sight!Elapsed(lostSince, sightLast, RecordAfter) <=> recorded
  BY <1>1
  DEF Sight!StartedBy, Sight!Elapsed, SightInv, SightTypes, StartOfEpisode,
      EpisodesAreTimed, Sight!EpisodesAreTimed, Instant, NotLater
<1>7. recorded \in BOOLEAN /\ notified \in BOOLEAN
  BY DEF SightInv, SightTypes
<1>8. long \in BOOLEAN /\ longer \in BOOLEAN
  OBVIOUS
<1>9. /\ Sight!Elapsed(lostSince', sightLast', RecordAfter) <=> long
      /\ Sight!Elapsed(lostSince', sightLast', NotifyAfter) <=> longer
      /\ Sight!Elapsed(lostSince', ts, RecordAfter) <=> long
  BY <1>1, <1>2, <1>3, NoneAssumption DEF Sight!Elapsed
<1>10. longEpisodes' = IF long /\ ~recorded THEN longEpisodes + 1
                                            ELSE longEpisodes
  BY <1>6, <1>9 DEF Sight!HAccept
<1> HIDE DEF since, long, longer
<1>11. recorded' = long /\ notified' = longer
  BY <1>5, <1>6, <1>7, <1>8, Zenon
<1>12. SightTypes' /\ StartOfEpisode'
  BY <1>1, <1>2, <1>3, <1>8, <1>11, NoneAssumption
  DEF SightTypes, StartOfEpisode, Instant, NotLater
<1>13. EpisodesAreTimed'
  BY <1>1, <1>2, <1>3, <1>5, <1>9, <1>11, NoneAssumption
  DEF EpisodesAreTimed, Sight!EpisodesAreTimed
<1>14. EpisodesCountedOnce'
  <2>1. CASE ~recorded /\ long
    BY <1>5, <1>10, <2>1
    DEF SightInv, EpisodesCountedOnce, Sight!EpisodesCountedOnce
  <2>2. CASE ~(~recorded /\ long)
    BY <1>5, <1>10, <2>2
    DEF SightInv, EpisodesCountedOnce, Sight!EpisodesCountedOnce
  <2> QED
    BY <2>1, <2>2
<1> QED
  BY <1>12, <1>13, <1>14 DEF SightInv

LEMMA SightStep ==
  ASSUME SightInv, Sight!HNext
  PROVE  SightInv'
<1>1. CASE Sight!HReset
  <2>1. Sight!HInit'
    BY <1>1 DEF Sight!HReset, Sight!reset, Sight!HInit, Sight!Init
  <2> QED
    BY <2>1, SightInit, PTL
<1>2. ASSUME NEW ts \in Timestamps, Sight!HReject(ts)
      PROVE  SightInv'
  BY <1>2
  DEF Sight!HReject, Sight!RejectSample, Sight!history, SightInv, SightTypes,
      StartOfEpisode, EpisodesAreTimed, Sight!EpisodesAreTimed,
      EpisodesCountedOnce, Sight!EpisodesCountedOnce, Sight!Available,
      Sight!Elapsed
<1>3. ASSUME NEW ts \in Timestamps,
             NEW usability \in Sight!ObservationUsability,
             Sight!HAccept(ts, usability)
      PROVE  SightInv'
  BY <1>3, SightBecomesAvailable, SightStaysUnavailable
  DEF Sight!HAccept, Sight!update, Sight!RejectSample
<1> QED
  BY <1>1, <1>2, <1>3 DEF Sight!HNext

LEMMA SightIsInvariant == Sight!HSpec => []SightInv
<1>1. SightInv /\ UNCHANGED Sight!hvars => SightInv'
  BY DEF Sight!hvars, Sight!owned, Sight!fsm, Sight!history, SightInv,
         SightTypes, StartOfEpisode, EpisodesAreTimed,
         Sight!EpisodesAreTimed, EpisodesCountedOnce,
         Sight!EpisodesCountedOnce, Sight!Elapsed
<1>2. SightInv /\ [Sight!HNext]_(Sight!hvars) => SightInv'
  BY <1>1, SightStep
<1> QED
  BY <1>2, SightInit, PTL DEF Sight!HSpec

\* Episodes are recorded and notified exactly at their delays
\* (MonitoringAvailabilityFsm::update), whatever the delays.
THEOREM AvailabilityIsTimed == Spec => []EpisodesAreTimed
<1>1. SightInv => EpisodesAreTimed
  BY DEF SightInv
<1> QED
  BY <1>1, SightAlone, SightIsInvariant, PTL

\* Every long episode is counted once (MonitoringAvailabilityFsm::update).
THEOREM AvailabilityCountsOnce == Spec => []EpisodesCountedOnce
<1>1. SightInv => EpisodesCountedOnce
  BY DEF SightInv
<1> QED
  BY <1>1, SightAlone, SightIsInvariant, PTL

-----------------------------------------------------------------------------
(* Yawns.                                                                  *)

\* The yawn detector of the composition is the machine alone.
LEMMA MouthAlone == Spec => Mouth!HSpec
<1>1. Init => Mouth!HInit
  BY DEF Init
<1>2. [Next]_vars => [Mouth!HNext]_(Mouth!hvars)
  BY DEF Next, vars, mouthVars, Mouth!hvars, Mouth!owned, Mouth!fsm,
         Mouth!history
<1> QED
  BY <1>1, <1>2, PTL DEF Spec, Mouth!HSpec

MouthTypes ==
  /\ Instant(mouthLast) /\ Instant(mouthCandidate) /\ Instant(opened)
  /\ Instant(mouthVisibleSince) /\ Instant(shutSince) /\ Instant(lastYawn)
  /\ yawning \in BOOLEAN

\* The mouth was in sight since before what is being confirmed began; a yawn
\* in progress is being closed since the mouth was shut; and all of it began
\* after the last yawn that was counted.
YawnInOrder ==
  /\ yawning <=> opened # None
  /\ NotLater(mouthVisibleSince, mouthLast)
  /\ opened # None =>
       mouthVisibleSince # None /\ mouthVisibleSince <= opened
  /\ mouthCandidate # None =>
       mouthVisibleSince # None /\ mouthVisibleSince <= mouthCandidate
  /\ yawning => mouthCandidate = shutSince
  /\ lastYawn # None =>
       /\ opened # None => lastYawn < opened
       /\ ~yawning /\ mouthCandidate # None => lastYawn < mouthCandidate
  /\ NotLater(lastYawn, mouthLast)

MouthInv == MouthTypes /\ YawnInOrder

\* What a step promises about a yawn it counts.
YawnIsWhole ==
  yawnResult'.event =>
    /\ Mouth!Elapsed(shutSince', mouthLast', YawnConfirmation)
    /\ Mouth!Elapsed(mouthVisibleSince', shutSince', YawnMinimumDuration)
    /\ lastYawn # None =>
         mouthLast' - lastYawn > YawnMinimumDuration + YawnConfirmation

LEMMA MouthInit == Mouth!HInit => MouthInv
BY DEF Mouth!HInit, Mouth!Init, MouthInv, MouthTypes, YawnInOrder, Instant,
       NotLater

\* What every accepted sample does; one that shows the mouth continues the run
\* of those that did.
LEMMA MouthAccepts ==
  ASSUME MouthInv, NEW ts \in Timestamps, NEW mouth \in Mouth!MouthSamples,
         Mouth!HAccept(ts, mouth)
  PROVE  /\ ts \in Int /\ mouthLast' = ts
         /\ mouthLast # None => mouthLast \in Int /\ mouthLast < ts
         /\ lastYawn # None => lastYawn \in Int /\ lastYawn < ts
         /\ mouth = None => mouthVisibleSince' = None /\ shutSince' = None
         /\ mouth # None =>
              /\ mouth \in Int
              /\ mouthVisibleSince' \in Int /\ mouthVisibleSince' <= ts
              /\ mouthVisibleSince # None =>
                   mouthVisibleSince' = mouthVisibleSince
         /\ mouth # None /\ mouth <= YawnCloseThreshold =>
              shutSince' = Mouth!StartedBy(shutSince, ts)
         /\ ~(mouth # None /\ mouth <= YawnCloseThreshold) => shutSince' = None
         /\ lastYawn' = IF ~yawnResult'.event THEN lastYawn ELSE ts
<1>1. ts \in Int /\ mouthLast' = ts
  BY TimestampsAssumption
  DEF Mouth!HAccept, Mouth!Sample, Mouth!RejectSample, Mouth!LoseMouth,
      Mouth!OpenMouth, Mouth!CloseMouth, Mouth!HoldMouth, Mouth!AcceptSample
<1>2. mouthLast # None => mouthLast \in Int /\ mouthLast < ts
  BY <1>1 DEF Mouth!HAccept, Mouth!NotAfter, MouthInv, MouthTypes, Instant
<1>3. lastYawn # None => lastYawn \in Int /\ lastYawn < ts
  BY <1>1, <1>2 DEF MouthInv, MouthTypes, YawnInOrder, Instant, NotLater
<1>4. mouth # None => mouth \in Int
  BY DEF Mouth!MouthSamples, Mouth!Mouth
<1>5. mouth # None =>
        /\ mouthVisibleSince' \in Int /\ mouthVisibleSince' <= ts
        /\ mouthVisibleSince # None => mouthVisibleSince' = mouthVisibleSince
  BY <1>1, <1>2
  DEF Mouth!HAccept, Mouth!StartedBy, MouthInv, MouthTypes, YawnInOrder,
      Instant, NotLater
<1> QED
  BY <1>1, <1>2, <1>3, <1>4, <1>5 DEF Mouth!HAccept

LEMMA MouthLost ==
  ASSUME MouthInv, NEW ts \in Timestamps, NEW mouth \in Mouth!MouthSamples,
         Mouth!HAccept(ts, mouth), Mouth!LoseMouth(ts, mouth)
  PROVE  MouthInv' /\ YawnIsWhole
<1>1. /\ mouth = None /\ yawning' = FALSE /\ mouthCandidate' = None
      /\ opened' = None /\ ~yawnResult'.event
  BY DEF Mouth!LoseMouth, Mouth!NoYawn
<1>2. lastYawn' = lastYawn
  BY <1>1, MouthAccepts
<1>3. MouthTypes'
  BY <1>1, <1>2, MouthAccepts DEF MouthInv, MouthTypes, Instant
<1>4. YawnInOrder'
  BY <1>1, <1>2, MouthAccepts, NoneAssumption DEF YawnInOrder, NotLater
<1> QED
  BY <1>1, <1>3, <1>4 DEF MouthInv, YawnIsWhole

LEMMA MouthOpens ==
  ASSUME MouthInv, NEW ts \in Timestamps, NEW mouth \in Mouth!MouthSamples,
         Mouth!HAccept(ts, mouth), Mouth!OpenMouth(ts, mouth)
  PROVE  MouthInv' /\ YawnIsWhole
<1> DEFINE since == Mouth!StartedBy(mouthCandidate, ts)
           confirmed == ts - since >= YawnConfirmation
<1>1. /\ mouth # None /\ mouth >= YawnOpenThreshold /\ ~yawning
      /\ yawning' = confirmed
      /\ opened' = IF ~confirmed THEN opened ELSE since
      /\ mouthCandidate' = IF confirmed THEN None ELSE since
      /\ ~yawnResult'.event
  BY DEF Mouth!OpenMouth, Mouth!Opening
<1>2. opened = None
  BY <1>1 DEF MouthInv, YawnInOrder
<1>3. shutSince' = None
  BY <1>1, MouthAccepts, YawnConfigAssumption DEF ValidYawnConfig
<1>4. since \in Int /\ mouthVisibleSince' <= since
  BY <1>1, MouthAccepts
  DEF Mouth!StartedBy, MouthInv, MouthTypes, YawnInOrder, Instant
<1>5. lastYawn # None => lastYawn < since
  BY <1>1, MouthAccepts DEF Mouth!StartedBy, MouthInv, YawnInOrder
<1>6. lastYawn' = lastYawn
  BY <1>1, MouthAccepts
<1>7. confirmed \in BOOLEAN
  OBVIOUS
<1> HIDE DEF since, confirmed
<1>8. MouthTypes'
  BY <1>1, <1>2, <1>3, <1>4, <1>6, <1>7, MouthAccepts
  DEF MouthInv, MouthTypes, Instant
<1>9. YawnInOrder'
  BY <1>1, <1>2, <1>3, <1>4, <1>5, <1>6, MouthAccepts, NoneAssumption
  DEF YawnInOrder, NotLater
<1> QED
  BY <1>1, <1>8, <1>9 DEF MouthInv, YawnIsWhole

LEMMA MouthCloses ==
  ASSUME MouthInv, NEW ts \in Timestamps, NEW mouth \in Mouth!MouthSamples,
         Mouth!HAccept(ts, mouth), Mouth!CloseMouth(ts, mouth)
  PROVE  MouthInv' /\ YawnIsWhole
<1> DEFINE since == Mouth!StartedBy(mouthCandidate, ts)
           confirmed == ts - since >= YawnConfirmation
           yawn == confirmed /\ since - opened >= YawnMinimumDuration
<1>1. yawning /\ opened # None
  BY DEF Mouth!CloseMouth, Mouth!Closing, MouthInv, YawnInOrder
<1>2. /\ mouth # None /\ mouth <= YawnCloseThreshold
      /\ yawning' = ~confirmed
      /\ yawnResult'.event <=> yawn
  BY <1>1 DEF Mouth!CloseMouth, Mouth!Closing, Mouth!isYawn
<1>2a. confirmed => opened' = None /\ mouthCandidate' = None
  BY DEF Mouth!CloseMouth
<1>2b. ~confirmed => opened' = opened /\ mouthCandidate' = since
  BY DEF Mouth!CloseMouth
<1>3. shutSince' = since
  BY <1>1, <1>2, MouthAccepts DEF MouthInv, YawnInOrder
<1>4. /\ opened \in Int /\ mouthVisibleSince' \in Int
      /\ mouthVisibleSince' <= opened
      /\ lastYawn # None => lastYawn < opened
  BY <1>1, <1>2, MouthAccepts DEF MouthInv, MouthTypes, YawnInOrder, Instant
<1>5. since \in Int /\ mouthVisibleSince' <= since
  BY <1>1, <1>2, MouthAccepts
  DEF Mouth!StartedBy, MouthInv, MouthTypes, YawnInOrder, Instant
<1>6. lastYawn' = IF ~yawn THEN lastYawn ELSE ts
  BY <1>2, MouthAccepts
<1>7. confirmed \in BOOLEAN
  OBVIOUS
<1>8. yawn => /\ ts - since >= YawnConfirmation
              /\ since - opened >= YawnMinimumDuration
  OBVIOUS
<1>9. yawn => confirmed
  OBVIOUS
<1> HIDE DEF since, confirmed, yawn
<1>10. MouthTypes'
  BY <1>2, <1>2a, <1>2b, <1>3, <1>4, <1>5, <1>6, <1>7, MouthAccepts
  DEF MouthInv, MouthTypes, Instant
<1>11. YawnInOrder'
  <2>1. lastYawn' # None => lastYawn' \in Int /\ lastYawn' <= ts
    BY <1>6, MouthAccepts
  <2>2. CASE confirmed
    <3>1. yawning' = FALSE /\ opened' = None /\ mouthCandidate' = None
      BY <1>2, <1>2a, <2>2
    <3> QED
      BY <1>2, <2>1, <3>1, MouthAccepts, NoneAssumption
      DEF YawnInOrder, NotLater
  <2>3. CASE ~confirmed
    <3>1. /\ yawning' = TRUE /\ opened' = opened /\ mouthCandidate' = since
          /\ lastYawn' = lastYawn
      BY <1>2, <1>2b, <1>6, <1>9, <2>3
    <3> QED
      BY <1>2, <1>3, <1>4, <1>5, <2>1, <3>1, MouthAccepts, NoneAssumption
      DEF YawnInOrder, NotLater
  <2> QED
    BY <2>2, <2>3
<1>12. YawnIsWhole
  <2> SUFFICES ASSUME yawn
               PROVE  /\ since # None /\ ts - since >= YawnConfirmation
                      /\ mouthVisibleSince' # None
                      /\ since - mouthVisibleSince' >= YawnMinimumDuration
                      /\ lastYawn # None =>
                           ts - lastYawn
                             > YawnMinimumDuration + YawnConfirmation
    BY <1>2, <1>3, MouthAccepts DEF YawnIsWhole, Mouth!Elapsed
  <2>1. YawnMinimumDuration \in Int /\ YawnConfirmation \in Int
    BY YawnConfigAssumption DEF ValidYawnConfig
  <2>2. ts \in Int /\ (lastYawn # None => lastYawn \in Int)
    BY MouthAccepts
  <2>3. /\ ts - since >= YawnConfirmation
        /\ since - opened >= YawnMinimumDuration
    BY <1>8
  <2>4. since - mouthVisibleSince' >= YawnMinimumDuration
    BY <1>4, <1>5, <2>1, <2>3, LongerSinceEarlier
  <2>5. ASSUME lastYawn # None
        PROVE  ts - lastYawn > YawnMinimumDuration + YawnConfirmation
    BY <1>4, <1>5, <2>1, <2>2, <2>3, <2>5
  <2> QED
    BY <1>4, <1>5, <2>3, <2>4, <2>5, NoneAssumption
<1> QED
  BY <1>10, <1>11, <1>12 DEF MouthInv

LEMMA MouthHolds ==
  ASSUME MouthInv, NEW ts \in Timestamps, NEW mouth \in Mouth!MouthSamples,
         Mouth!HAccept(ts, mouth), Mouth!HoldMouth(ts, mouth)
  PROVE  MouthInv' /\ YawnIsWhole
<1>1. /\ mouth # None /\ mouthCandidate' = None /\ ~yawnResult'.event
      /\ yawning => ~(mouth <= YawnCloseThreshold)
      /\ yawning' = yawning /\ opened' = opened
  BY DEF Mouth!HoldMouth, Mouth!Closing
<1>2. /\ yawning => shutSince' = None
      /\ Instant(shutSince')
  BY <1>1, MouthAccepts
  DEF Mouth!StartedBy, MouthInv, MouthTypes, Instant
<1>3. lastYawn' = lastYawn
  BY <1>1, MouthAccepts
<1>4. MouthTypes'
  BY <1>1, <1>2, <1>3, MouthAccepts DEF MouthInv, MouthTypes, Instant
<1>5. YawnInOrder'
  BY <1>1, <1>2, <1>3, MouthAccepts, NoneAssumption
  DEF MouthInv, YawnInOrder, NotLater
<1> QED
  BY <1>1, <1>4, <1>5 DEF MouthInv, YawnIsWhole

LEMMA MouthStep ==
  ASSUME MouthInv, Mouth!HNext
  PROVE  MouthInv' /\ YawnIsWhole
<1>1. CASE Mouth!HReset
  <2>1. Mouth!HInit' /\ ~yawnResult'.event
    BY <1>1 DEF Mouth!HReset, Mouth!reset, Mouth!HInit, Mouth!Init,
                Mouth!NoYawn
  <2>2. MouthInv'
    BY <2>1, MouthInit, PTL
  <2> QED
    BY <2>1, <2>2 DEF YawnIsWhole
<1>2. ASSUME NEW ts \in Timestamps, Mouth!HReject(ts)
      PROVE  MouthInv' /\ YawnIsWhole
  BY <1>2
  DEF Mouth!HReject, Mouth!RejectSample, Mouth!NoYawn, Mouth!history, MouthInv,
      MouthTypes, YawnInOrder, YawnIsWhole, Instant, NotLater
<1>3. ASSUME NEW ts \in Timestamps, NEW mouth \in Mouth!MouthSamples,
             Mouth!HAccept(ts, mouth)
      PROVE  MouthInv' /\ YawnIsWhole
  BY <1>3, MouthLost, MouthOpens, MouthCloses, MouthHolds
  DEF Mouth!HAccept, Mouth!Sample, Mouth!RejectSample
<1> QED
  BY <1>1, <1>2, <1>3 DEF Mouth!HNext

LEMMA MouthIsInvariant == Mouth!HSpec => []MouthInv
<1>1. MouthInv /\ UNCHANGED Mouth!hvars => MouthInv'
  BY DEF Mouth!hvars, Mouth!owned, Mouth!fsm, Mouth!history, MouthInv,
         MouthTypes, YawnInOrder, Instant, NotLater
<1>2. MouthInv /\ [Mouth!HNext]_(Mouth!hvars) => MouthInv'
  BY <1>1, MouthStep
<1> QED
  BY <1>2, MouthInit, PTL DEF Mouth!HSpec

LEMMA YawnsAreWhole == Spec => [][YawnIsWhole]_(Mouth!hvars)
<1>1. MouthInv /\ [Mouth!HNext]_(Mouth!hvars) => [YawnIsWhole]_(Mouth!hvars)
  BY MouthStep
<1> QED
  BY <1>1, MouthAlone, MouthIsInvariant, PTL DEF Mouth!HSpec

\* A yawn is counted at the end of a confirmed closing only, with the mouth in
\* sight since the minimum duration before it began (YawnFsm::update), for
\* every pair of thresholds and durations.
THEOREM YawnIsSeenThroughout == Spec => YawnSeenFromOpeningToClosing
<1>1. YawnIsWhole =>
        (yawnResult'.event =>
           /\ Mouth!Elapsed(shutSince', mouthLast', YawnConfirmation)
           /\ Mouth!Elapsed(mouthVisibleSince', shutSince',
                            YawnMinimumDuration))
  BY DEF YawnIsWhole
<1> QED
  BY <1>1, YawnsAreWhole, PTL
  DEF YawnSeenFromOpeningToClosing, Mouth!YawnSeenFromOpeningToClosing

\* One movement of the mouth is never counted as two yawns (YawnFsm::update).
THEOREM YawnsKeepTheirDistance == Spec => YawnsSpaced
<1>1. YawnIsWhole =>
        (yawnResult'.event /\ lastYawn # None =>
           mouthLast' - lastYawn > YawnMinimumDuration + YawnConfirmation)
  BY DEF YawnIsWhole
<1> QED
  BY <1>1, YawnsAreWhole, PTL DEF YawnsSpaced, Mouth!YawnsSpaced

-----------------------------------------------------------------------------
(* Head zones and movements.                                               *)

\* The head-pose machine of the composition is the machine alone.
LEMMA HeadAlone == Spec => Pose!HSpec
<1>1. Init => Pose!HInit
  BY DEF Init
<1>2. [Next]_vars => [Pose!HNext]_(Pose!hvars)
  BY DEF Next, vars, headVars, Pose!hvars, Pose!owned, Pose!fsm, Pose!history
<1> QED
  BY <1>1, <1>2, PTL DEF Spec, Pose!HSpec

HeadTypes ==
  /\ Instant(headLast) /\ Instant(zoneSince) /\ Instant(poseVisibleSince)
  /\ Instant(lastNeutral) /\ Instant(lastMovement)
  /\ zone \in Pose!HeadZone /\ candidateZone \in Pose!HeadZone
  /\ neutralArmed \in BOOLEAN

\* A candidate exists exactly while the pose is seen, and since no earlier.
CandidateInSight ==
  /\ candidateZone = "Unknown" => poseVisibleSince = None
  /\ candidateZone # "Unknown" =>
       /\ zoneSince # None /\ poseVisibleSince # None
       /\ poseVisibleSince <= zoneSince
  /\ NotLater(poseVisibleSince, headLast)

\* The head came to its candidate zone no earlier than it was last confirmed
\* elsewhere, and is armed by a return that took its confirmation.
MovementsInOrder ==
  /\ NotLater(lastNeutral, headLast) /\ NotLater(lastMovement, headLast)
  /\ candidateZone = "Neutral" => NotLater(lastMovement, zoneSince)
  /\ candidateZone \in Pose!Direction => NotLater(lastNeutral, zoneSince)
  /\ neutralArmed /\ lastMovement # None =>
       lastNeutral # None /\ lastNeutral - lastMovement >= HeadConfirmation

HeadInv ==
  /\ HeadTypes /\ CandidateInSight
  /\ ZoneNeedsContinuousSight /\ MovementsInOrder

\* What a step promises about a movement it counts.
MovementReturned ==
  poseResult'.movementEvent /\ lastMovement # None =>
    /\ lastNeutral # None
    /\ lastNeutral - lastMovement >= HeadConfirmation
    /\ headLast' - lastNeutral >= HeadConfirmation

LEMMA HeadInit == Pose!HInit => HeadInv
BY DEF Pose!HInit, Pose!Init, HeadInv, HeadTypes, CandidateInSight,
       ZoneNeedsContinuousSight, Pose!ZoneNeedsContinuousSight,
       MovementsInOrder, Pose!HeadZone, Pose!Direction, Instant, NotLater

\* What every accepted sample does.
LEMMA HeadAccepts ==
  ASSUME HeadInv, NEW ts \in Timestamps, NEW raw \in Pose!PoseSamples,
         Pose!HAccept(ts, raw)
  PROVE  /\ ts \in Int /\ headLast' = ts
         /\ headLast # None => headLast \in Int /\ headLast < ts
         /\ lastNeutral # None => lastNeutral \in Int /\ lastNeutral < ts
         /\ lastMovement # None => lastMovement \in Int /\ lastMovement < ts
         /\ raw \in Pose!HeadZone
         /\ HeadConfirmation \in Int /\ 0 < HeadConfirmation
<1>1. ts \in Int /\ headLast' = ts
  BY TimestampsAssumption
  DEF Pose!HAccept, Pose!Sample, Pose!RejectSample, Pose!LosePose,
      Pose!HoldZone, Pose!ReturnToNeutral, Pose!TurnHead, Pose!FollowPose,
      Pose!AcceptSample
<1>2. headLast # None => headLast \in Int /\ headLast < ts
  BY <1>1 DEF Pose!HAccept, Pose!NotAfter, HeadInv, HeadTypes, Instant
<1>3. /\ lastNeutral # None => lastNeutral \in Int /\ lastNeutral < ts
      /\ lastMovement # None => lastMovement \in Int /\ lastMovement < ts
  BY <1>1, <1>2
  DEF HeadInv, HeadTypes, MovementsInOrder, Instant, NotLater
<1>4. raw \in Pose!HeadZone
  BY DEF Pose!PoseSamples, Pose!RawZone, Pose!rawZone, Pose!HeadZone,
         Pose!Direction
<1>5. HeadConfirmation \in Int /\ 0 < HeadConfirmation
  BY HeadPoseConfigAssumption DEF ValidHeadPoseConfig
<1> QED
  BY <1>1, <1>2, <1>3, <1>4, <1>5

LEMMA HeadLost ==
  ASSUME HeadInv, NEW ts \in Timestamps, NEW raw \in Pose!PoseSamples,
         Pose!HAccept(ts, raw), Pose!LosePose(ts, raw)
  PROVE  HeadInv' /\ MovementReturned
<1>1. /\ raw = "Unknown" /\ zone' = "Unknown" /\ candidateZone' = "Unknown"
      /\ zoneSince' = None /\ neutralArmed' = neutralArmed
      /\ ~poseResult'.movementEvent
  BY DEF Pose!LosePose, Pose!NoPose
<1>2. /\ poseVisibleSince' = None /\ lastNeutral' = lastNeutral
      /\ lastMovement' = lastMovement
  BY <1>1 DEF Pose!HAccept
<1>3. HeadTypes'
  BY <1>1, <1>2, HeadAccepts
  DEF HeadInv, HeadTypes, Pose!HeadZone, Instant
<1>4. CandidateInSight' /\ ZoneNeedsContinuousSight'
  BY <1>1, <1>2
  DEF CandidateInSight, ZoneNeedsContinuousSight,
      Pose!ZoneNeedsContinuousSight, NotLater
<1>5. MovementsInOrder'
  BY <1>1, <1>2, HeadAccepts, NoneAssumption
  DEF HeadInv, MovementsInOrder, Pose!Direction, NotLater
<1> QED
  BY <1>1, <1>3, <1>4, <1>5 DEF HeadInv, MovementReturned

\* What every sample with a pose does to the candidate and to the sight of it.
LEMMA HeadFollows ==
  ASSUME HeadInv, NEW ts \in Timestamps, NEW raw \in Pose!PoseSamples,
         Pose!HAccept(ts, raw), Pose!FollowPose(ts, raw)
  PROVE  /\ raw # "Unknown" /\ candidateZone' = raw
         /\ zoneSince' = Pose!SinceOf(ts, raw)
         /\ Pose!SinceOf(ts, raw) \in Int
         /\ poseVisibleSince' \in Int
         /\ poseVisibleSince' <= Pose!SinceOf(ts, raw)
         /\ poseVisibleSince' <= ts
         /\ poseVisibleSince # None => poseVisibleSince' = poseVisibleSince
         /\ raw = "Neutral" => NotLater(lastMovement, Pose!SinceOf(ts, raw))
         /\ raw \in Pose!Direction =>
              NotLater(lastNeutral, Pose!SinceOf(ts, raw))
<1>1. /\ raw # "Unknown" /\ candidateZone' = raw
      /\ zoneSince' = Pose!SinceOf(ts, raw)
  BY DEF Pose!FollowPose
<1>2. Pose!SinceOf(ts, raw) \in Int
  BY <1>1, HeadAccepts
  DEF Pose!SinceOf, HeadInv, HeadTypes, CandidateInSight, Instant
<1>3. poseVisibleSince' = Pose!StartedBy(poseVisibleSince, ts)
  BY <1>1 DEF Pose!HAccept
<1>4. /\ poseVisibleSince' \in Int
      /\ poseVisibleSince' <= ts
      /\ poseVisibleSince # None => poseVisibleSince' = poseVisibleSince
  BY <1>3, HeadAccepts
  DEF Pose!StartedBy, HeadInv, HeadTypes, CandidateInSight, Instant, NotLater
<1>5. poseVisibleSince' <= Pose!SinceOf(ts, raw)
  <2>1. CASE raw = candidateZone
    BY <1>1, <1>4, <2>1 DEF Pose!SinceOf, HeadInv, CandidateInSight
  <2>2. CASE raw # candidateZone
    BY <1>4, <2>2 DEF Pose!SinceOf
  <2> QED
    BY <2>1, <2>2
<1>6. /\ raw = "Neutral" => NotLater(lastMovement, Pose!SinceOf(ts, raw))
      /\ raw \in Pose!Direction => NotLater(lastNeutral, Pose!SinceOf(ts, raw))
  <2>1. CASE raw = candidateZone
    BY <2>1 DEF Pose!SinceOf, HeadInv, MovementsInOrder
  <2>2. CASE raw # candidateZone
    BY <2>2, HeadAccepts, NoneAssumption DEF Pose!SinceOf, NotLater
  <2> QED
    BY <2>1, <2>2
<1> QED
  BY <1>1, <1>2, <1>4, <1>5, <1>6

LEMMA HeadHolds ==
  ASSUME HeadInv, NEW ts \in Timestamps, NEW raw \in Pose!PoseSamples,
         Pose!HAccept(ts, raw), Pose!HoldZone(ts, raw)
  PROVE  HeadInv' /\ MovementReturned
<1> USE HeadAccepts, HeadFollows
<1>1. /\ Pose!FollowPose(ts, raw) /\ zone' = zone
      /\ neutralArmed' = neutralArmed /\ ~poseResult'.movementEvent
  BY DEF Pose!HoldZone
<1>2. lastNeutral' = lastNeutral /\ lastMovement' = lastMovement
  BY <1>1 DEF Pose!HAccept
<1>3. HeadTypes'
  BY <1>1, <1>2 DEF HeadInv, HeadTypes, Instant
<1>4. CandidateInSight'
  BY <1>1, NoneAssumption DEF CandidateInSight, NotLater
<1>5. ZoneNeedsContinuousSight'
  BY <1>1, NoneAssumption
  DEF HeadInv, HeadTypes, CandidateInSight, ZoneNeedsContinuousSight,
      Pose!ZoneNeedsContinuousSight, Pose!Elapsed, Instant, NotLater
<1>6. MovementsInOrder'
  BY <1>1, <1>2, NoneAssumption
  DEF HeadInv, MovementsInOrder, Pose!Direction, NotLater
<1> QED
  BY <1>1, <1>3, <1>4, <1>5, <1>6 DEF HeadInv, MovementReturned

\* A zone is confirmed on a candidate that has been in sight long enough.
LEMMA HeadConfirms ==
  ASSUME HeadInv, NEW ts \in Timestamps, NEW raw \in Pose!PoseSamples,
         Pose!HAccept(ts, raw), Pose!FollowPose(ts, raw),
         Pose!Confirmed(ts, raw)
  PROVE  /\ ts - Pose!SinceOf(ts, raw) >= HeadConfirmation
         /\ CandidateInSight'
         /\ ZoneNeedsContinuousSight'
<1> USE HeadAccepts, HeadFollows
<1>1. ts - Pose!SinceOf(ts, raw) >= HeadConfirmation
  BY DEF Pose!Confirmed, Pose!Elapsed
<1>2. CandidateInSight'
  BY NoneAssumption DEF CandidateInSight, NotLater
<1>3. ts - poseVisibleSince' >= HeadConfirmation
  BY <1>1, LongerSinceEarlier
<1>4. ZoneNeedsContinuousSight'
  BY <1>3, NoneAssumption
  DEF ZoneNeedsContinuousSight, Pose!ZoneNeedsContinuousSight, Pose!Elapsed
<1> QED
  BY <1>1, <1>2, <1>4

LEMMA HeadReturns ==
  ASSUME HeadInv, NEW ts \in Timestamps, NEW raw \in Pose!PoseSamples,
         Pose!HAccept(ts, raw), Pose!ReturnToNeutral(ts, raw)
  PROVE  HeadInv' /\ MovementReturned
<1> USE HeadAccepts, HeadFollows, HeadConfirms
<1>1. /\ Pose!FollowPose(ts, raw) /\ Pose!Confirmed(ts, raw)
      /\ raw = "Neutral" /\ zone # "Neutral" /\ zone' = "Neutral"
      /\ neutralArmed' = TRUE /\ ~poseResult'.movementEvent
  BY DEF Pose!ReturnToNeutral, Pose!Confirmed
<1>2. lastNeutral' = ts /\ lastMovement' = lastMovement
  BY <1>1 DEF Pose!HAccept
<1>3. HeadTypes'
  BY <1>1, <1>2 DEF HeadInv, HeadTypes, Pose!HeadZone, Instant
<1>4. lastMovement # None => ts - lastMovement >= HeadConfirmation
  BY <1>1, LongerSinceEarlier DEF NotLater
<1>5. MovementsInOrder'
  BY <1>1, <1>2, <1>4, NoneAssumption
  DEF MovementsInOrder, Pose!Direction, NotLater
<1> QED
  BY <1>1, <1>3, <1>5 DEF HeadInv, MovementReturned

LEMMA HeadTurns ==
  ASSUME HeadInv, NEW ts \in Timestamps, NEW raw \in Pose!PoseSamples,
         Pose!HAccept(ts, raw), Pose!TurnHead(ts, raw)
  PROVE  HeadInv' /\ MovementReturned
<1> USE HeadAccepts, HeadFollows, HeadConfirms
<1>1. /\ Pose!FollowPose(ts, raw) /\ Pose!Confirmed(ts, raw)
      /\ raw \in Pose!Direction /\ zone' = raw /\ neutralArmed' = FALSE
      /\ poseResult'.movementEvent = neutralArmed
  BY DEF Pose!TurnHead, Pose!Counts
<1>2. /\ lastNeutral' = lastNeutral
      /\ lastMovement' = IF ~neutralArmed THEN lastMovement ELSE ts
  BY <1>1 DEF Pose!HAccept, Pose!Direction
<1>3. HeadTypes'
  BY <1>1, <1>2 DEF HeadInv, HeadTypes, Instant
<1>4. MovementsInOrder'
  BY <1>1, <1>2, NoneAssumption DEF MovementsInOrder, Pose!Direction, NotLater
<1>5. lastNeutral # None => ts - lastNeutral >= HeadConfirmation
  BY <1>1, LongerSinceEarlier DEF NotLater
<1>6. MovementReturned
  BY <1>1, <1>5 DEF HeadInv, MovementsInOrder, MovementReturned
<1> QED
  BY <1>1, <1>3, <1>4, <1>6 DEF HeadInv

LEMMA HeadStep ==
  ASSUME HeadInv, Pose!HNext
  PROVE  HeadInv' /\ MovementReturned
<1>1. CASE Pose!HReset
  <2>1. Pose!HInit' /\ ~poseResult'.movementEvent
    BY <1>1 DEF Pose!HReset, Pose!reset, Pose!HInit, Pose!Init, Pose!NoPose
  <2>2. HeadInv'
    BY <2>1, HeadInit, PTL
  <2> QED
    BY <2>1, <2>2 DEF MovementReturned
<1>2. ASSUME NEW ts \in Timestamps, Pose!HReject(ts)
      PROVE  HeadInv' /\ MovementReturned
  BY <1>2
  DEF Pose!HReject, Pose!RejectSample, Pose!NoPose, Pose!history, HeadInv,
      HeadTypes, CandidateInSight, ZoneNeedsContinuousSight,
      Pose!ZoneNeedsContinuousSight, Pose!Elapsed, MovementsInOrder,
      MovementReturned, Instant, NotLater
<1>3. ASSUME NEW ts \in Timestamps, NEW raw \in Pose!PoseSamples,
             Pose!HAccept(ts, raw)
      PROVE  HeadInv' /\ MovementReturned
  BY <1>3, HeadLost, HeadHolds, HeadReturns, HeadTurns
  DEF Pose!HAccept, Pose!Sample, Pose!RejectSample
<1> QED
  BY <1>1, <1>2, <1>3 DEF Pose!HNext

LEMMA HeadIsInvariant == Pose!HSpec => []HeadInv
<1>1. HeadInv /\ UNCHANGED Pose!hvars => HeadInv'
  BY DEF Pose!hvars, Pose!owned, Pose!fsm, Pose!history, HeadInv, HeadTypes,
         CandidateInSight, ZoneNeedsContinuousSight,
         Pose!ZoneNeedsContinuousSight, Pose!Elapsed, MovementsInOrder,
         Instant, NotLater
<1>2. HeadInv /\ [Pose!HNext]_(Pose!hvars) => HeadInv'
  BY <1>1, HeadStep
<1> QED
  BY <1>2, HeadInit, PTL DEF Pose!HSpec

\* A zone is reported only after the pose was in sight for a confirmation
\* (HeadPoseFsm::update), for every pair of thresholds and every duration.
THEOREM ZoneIsSeen == Spec => []ZoneNeedsContinuousSight
<1>1. HeadInv => ZoneNeedsContinuousSight
  BY DEF HeadInv
<1> QED
  BY <1>1, HeadAlone, HeadIsInvariant, PTL

\* Between two counted movements the head was confirmed neutral, each with its
\* whole confirmation (HeadPoseFsm::update).
THEOREM MovementsReturn == Spec => MovementsNeedNeutralReturn
<1>1. HeadInv /\ [Pose!HNext]_(Pose!hvars) => [MovementReturned]_(Pose!hvars)
  BY HeadStep
<1> QED
  BY <1>1, HeadAlone, HeadIsInvariant, PTL
  DEF Pose!HSpec, MovementsNeedNeutralReturn,
      Pose!MovementsNeedNeutralReturn, MovementReturned

-----------------------------------------------------------------------------
(* Gaze and distraction.                                                   *)

\* The distraction machine of the composition is the machine alone.
LEMMA GazeAlone == Spec => Gaze!HSpec
<1>1. Init => Gaze!HInit
  BY DEF Init
<1>2. [Next]_vars => [Gaze!HNext]_(Gaze!hvars)
  BY DEF Next, vars, gazeVars, Gaze!hvars, Gaze!owned, Gaze!fsm, Gaze!history
<1> QED
  BY <1>1, <1>2, PTL DEF Spec, Gaze!HSpec

GazeTypes ==
  /\ Instant(gazeLast) /\ Instant(awaySince) /\ Instant(forwardClock)
  /\ Instant(gazeVisibleSince) /\ Instant(forwardSince) /\ Instant(lastEvent)
  /\ distracted \in BOOLEAN

\* Each clock runs within the run of samples it measures, and that of the
\* recovery in a distraction only.
ClocksInSight ==
  /\ NotLater(gazeVisibleSince, gazeLast) /\ NotLater(forwardSince, gazeLast)
  /\ awaySince # None =>
       gazeVisibleSince # None /\ gazeVisibleSince <= awaySince
  /\ forwardClock # None =>
       distracted /\ forwardSince # None /\ forwardSince <= forwardClock

\* A distraction recovers after its event, and the next one begins after that.
DistractionsInOrder ==
  lastEvent # None =>
    /\ gazeLast # None /\ lastEvent <= gazeLast
    /\ forwardClock # None => lastEvent < forwardClock
    /\ ~distracted => gazeLast - lastEvent > DistractionRecovery
    /\ ~distracted /\ awaySince # None =>
         awaySince - lastEvent > DistractionRecovery

GazeInv == GazeTypes /\ ClocksInSight /\ DistractionsInOrder

\* What a step promises about a distraction that begins or ends.
DistractionIsWhole ==
  /\ gazeResult'.event =>
       Gaze!Elapsed(gazeVisibleSince', gazeLast', DistractionDuration)
  /\ distracted /\ ~distracted' /\ gazeLast' # None =>
       Gaze!Elapsed(forwardSince', gazeLast', DistractionRecovery)
  /\ gazeResult'.event /\ lastEvent # None =>
       gazeLast' - lastEvent > DistractionRecovery + DistractionDuration

LEMMA GazeInit == Gaze!HInit => GazeInv
BY DEF Gaze!HInit, Gaze!Init, GazeInv, GazeTypes, ClocksInSight,
       DistractionsInOrder, Instant, NotLater

\* What every accepted sample does.
LEMMA GazeAccepts ==
  ASSUME GazeInv, NEW ts \in Timestamps, NEW raw \in Gaze!GazeSamples,
         NEW head \in Gaze!HeadZone, Gaze!HAccept(ts, raw, head)
  PROVE  /\ ts \in Int /\ gazeLast' = ts
         /\ gazeLast # None => gazeLast \in Int /\ gazeLast < ts
         /\ lastEvent # None => lastEvent \in Int /\ lastEvent < ts
         /\ DistractionDuration \in Int /\ 0 < DistractionDuration
         /\ DistractionRecovery \in Int /\ 0 < DistractionRecovery
<1>1. ts \in Int /\ gazeLast' = ts
  BY TimestampsAssumption
  DEF Gaze!HAccept, Gaze!Sample, Gaze!RejectSample, Gaze!LoseGaze,
      Gaze!LookAway, Gaze!LookForward, Gaze!FollowGaze, Gaze!AcceptSample
<1>2. gazeLast # None => gazeLast \in Int /\ gazeLast < ts
  BY <1>1 DEF Gaze!HAccept, Gaze!NotAfter, GazeInv, GazeTypes, Instant
<1>3. lastEvent # None => lastEvent \in Int /\ lastEvent < ts
  BY <1>1, <1>2 DEF GazeInv, GazeTypes, DistractionsInOrder, Instant
<1>4. /\ DistractionDuration \in Int /\ 0 < DistractionDuration
      /\ DistractionRecovery \in Int /\ 0 < DistractionRecovery
  BY DistractionConfigAssumption DEF ValidDistractionConfig
<1> QED
  BY <1>1, <1>2, <1>3, <1>4

LEMMA GazeLost ==
  ASSUME GazeInv, NEW ts \in Timestamps, NEW raw \in Gaze!GazeSamples,
         NEW head \in Gaze!HeadZone, Gaze!HAccept(ts, raw, head),
         Gaze!LoseGaze(ts, raw)
  PROVE  GazeInv' /\ DistractionIsWhole
<1> USE GazeAccepts
<1>1. /\ raw = "Unknown" /\ gaze' = "Unknown" /\ awaySince' = None
      /\ forwardClock' = None /\ distracted' = distracted
      /\ ~gazeResult'.event
  BY DEF Gaze!LoseGaze
<1>2. /\ gazeVisibleSince' = None /\ forwardSince' = None
      /\ lastEvent' = lastEvent
  BY <1>1 DEF Gaze!HAccept, Gaze!RunOf
<1>3. GazeTypes' /\ ClocksInSight'
  BY <1>1, <1>2
  DEF GazeInv, GazeTypes, ClocksInSight, Instant, NotLater
<1>4. DistractionsInOrder'
  <2> SUFFICES ASSUME lastEvent # None
               PROVE  /\ lastEvent <= ts
                      /\ ~distracted => ts - lastEvent > DistractionRecovery
    BY <1>1, <1>2, NoneAssumption DEF DistractionsInOrder
  <2>1. gazeLast \in Int /\ gazeLast < ts /\ lastEvent \in Int
    BY DEF GazeInv, DistractionsInOrder
  <2> QED
    BY <2>1 DEF GazeInv, DistractionsInOrder
<1>5. DistractionIsWhole
  BY <1>1 DEF DistractionIsWhole
<1> QED
  BY <1>3, <1>4, <1>5 DEF GazeInv

\* A sample with a gaze continues the run of those that showed it.
LEMMA GazeSeen ==
  ASSUME GazeInv, NEW ts \in Timestamps, NEW raw \in Gaze!GazeSamples,
         NEW head \in Gaze!HeadZone, Gaze!HAccept(ts, raw, head),
         raw # "Unknown"
  PROVE  /\ gazeVisibleSince' \in Int /\ gazeVisibleSince' <= ts
         /\ gazeVisibleSince # None => gazeVisibleSince' = gazeVisibleSince
<1>1. gazeVisibleSince' = Gaze!StartedBy(gazeVisibleSince, ts)
  BY DEF Gaze!HAccept, Gaze!RunOf
<1> QED
  BY <1>1, GazeAccepts
  DEF Gaze!StartedBy, GazeInv, GazeTypes, ClocksInSight, Instant, NotLater

LEMMA GazeAway ==
  ASSUME GazeInv, NEW ts \in Timestamps, NEW raw \in Gaze!GazeSamples,
         NEW head \in Gaze!HeadZone, Gaze!HAccept(ts, raw, head),
         Gaze!LookAway(ts, raw, head)
  PROVE  GazeInv' /\ DistractionIsWhole
<1> DEFINE since == Gaze!StartedBy(awaySince, ts)
           event == ~distracted /\ ts - since >= DistractionDuration
<1> USE GazeAccepts
<1>1. /\ raw # "Unknown" /\ forwardClock' = None /\ awaySince' = since
      /\ distracted' = (distracted \/ event)
      /\ gazeResult'.event = event
      /\ ~(gaze' = "Forward" /\ head \notin Gaze!Direction)
  BY DEF Gaze!LookAway, Gaze!FollowGaze, Gaze!Away
<1>2. forwardSince' = None /\ lastEvent' = IF ~event THEN lastEvent ELSE ts
  BY <1>1 DEF Gaze!HAccept, Gaze!RunOf
<1>3. /\ gazeVisibleSince' \in Int /\ gazeVisibleSince' <= ts
      /\ gazeVisibleSince # None => gazeVisibleSince' = gazeVisibleSince
  BY <1>1, GazeSeen
<1>4. since \in Int /\ gazeVisibleSince' <= since
  BY <1>3
  DEF Gaze!StartedBy, GazeInv, GazeTypes, ClocksInSight, Instant
<1>5. event => ts - since >= DistractionDuration
  OBVIOUS
<1>6. lastEvent # None /\ ~distracted =>
        since - lastEvent > DistractionRecovery
  <2> SUFFICES ASSUME lastEvent # None, ~distracted
               PROVE  since - lastEvent > DistractionRecovery
    OBVIOUS
  <2>1. /\ gazeLast - lastEvent > DistractionRecovery
        /\ gazeLast \in Int /\ gazeLast < ts /\ lastEvent \in Int
    BY DEF GazeInv, DistractionsInOrder
  <2>2. CASE awaySince = None
    BY <2>1, <2>2 DEF Gaze!StartedBy
  <2>3. CASE awaySince # None
    BY <2>3 DEF Gaze!StartedBy, GazeInv, DistractionsInOrder
  <2> QED
    BY <2>2, <2>3
<1>7. event \in BOOLEAN /\ distracted \in BOOLEAN
  BY DEF GazeInv, GazeTypes
<1>8. event => ~distracted
  OBVIOUS
<1> HIDE DEF since, event
<1>9. distracted' \in BOOLEAN
  BY <1>1, <1>7
<1>10. GazeTypes' /\ ClocksInSight'
  BY <1>1, <1>2, <1>3, <1>4, <1>9, NoneAssumption
  DEF GazeInv, GazeTypes, ClocksInSight, Instant, NotLater
<1>11. DistractionsInOrder'
  <2>1. CASE event
    <3>1. lastEvent' = ts /\ distracted'
      BY <1>1, <1>2, <2>1
    <3> QED
      BY <1>1, <3>1, NoneAssumption DEF DistractionsInOrder
  <2>2. CASE ~event
    <3> SUFFICES ASSUME lastEvent # None
                 PROVE  /\ lastEvent <= ts
                        /\ ~distracted => ts - lastEvent > DistractionRecovery
      BY <1>1, <1>2, <1>6, <2>2, NoneAssumption DEF DistractionsInOrder
    <3>1. gazeLast \in Int /\ gazeLast < ts /\ lastEvent \in Int
      BY DEF GazeInv, DistractionsInOrder
    <3> QED
      BY <3>1 DEF GazeInv, DistractionsInOrder
  <2> QED
    BY <2>1, <2>2
<1>12. DistractionIsWhole
  <2>1. distracted => distracted'
    BY <1>1
  <2>2. event => ts - gazeVisibleSince' >= DistractionDuration
    BY <1>3, <1>4, <1>5, LongerSinceEarlier
  <2>3. ASSUME event, lastEvent # None
        PROVE  ts - lastEvent > DistractionRecovery + DistractionDuration
    <3>1. /\ since - lastEvent > DistractionRecovery
          /\ ts - since >= DistractionDuration
      BY <1>5, <1>6, <1>8, <2>3
    <3>2. lastEvent \in Int
      BY <2>3
    <3> QED
      BY <1>4, <3>1, <3>2
  <2> QED
    BY <1>1, <1>3, <2>1, <2>2, <2>3, NoneAssumption
    DEF DistractionIsWhole, Gaze!Elapsed
<1> QED
  BY <1>10, <1>11, <1>12 DEF GazeInv

LEMMA GazeForward ==
  ASSUME GazeInv, NEW ts \in Timestamps, NEW raw \in Gaze!GazeSamples,
         NEW head \in Gaze!HeadZone, Gaze!HAccept(ts, raw, head),
         Gaze!LookForward(ts, raw, head)
  PROVE  GazeInv' /\ DistractionIsWhole
<1> DEFINE since == Gaze!StartedBy(forwardClock, ts)
           over == distracted /\ ts - since >= DistractionRecovery
<1> USE GazeAccepts
<1>1. /\ raw # "Unknown" /\ awaySince' = None
      /\ distracted' = (distracted /\ ~over)
      /\ gazeResult'.event = FALSE
      /\ gaze' = "Forward" /\ head \notin Gaze!Direction
  BY DEF Gaze!LookForward, Gaze!FollowGaze, Gaze!Away, Gaze!recovered
<1>2. /\ ~distracted => forwardClock' = forwardClock
      /\ over => forwardClock' = None
      /\ distracted /\ ~over => forwardClock' = since
  BY DEF Gaze!LookForward, Gaze!recovered
<1>3. /\ forwardSince' = Gaze!StartedBy(forwardSince, ts)
      /\ lastEvent' = lastEvent
  BY <1>1 DEF Gaze!HAccept, Gaze!RunOf
<1>4. /\ gazeVisibleSince' \in Int /\ gazeVisibleSince' <= ts
      /\ gazeVisibleSince # None => gazeVisibleSince' = gazeVisibleSince
  BY <1>1, GazeSeen
<1>5. /\ forwardSince' \in Int /\ forwardSince' <= ts
      /\ forwardSince # None => forwardSince' = forwardSince
  BY <1>3
  DEF Gaze!StartedBy, GazeInv, GazeTypes, ClocksInSight, Instant, NotLater
<1>6. since \in Int /\ forwardSince' <= since
  BY <1>5 DEF Gaze!StartedBy, GazeInv, GazeTypes, ClocksInSight, Instant
<1>7. lastEvent # None => lastEvent < since
  BY DEF Gaze!StartedBy, GazeInv, DistractionsInOrder
<1>8. over => distracted /\ ts - since >= DistractionRecovery
  OBVIOUS
<1>9. ~distracted => forwardClock = None
  BY DEF GazeInv, ClocksInSight
<1>10. over \in BOOLEAN /\ distracted \in BOOLEAN
  BY DEF GazeInv, GazeTypes
<1> HIDE DEF since, over
<1>11. distracted' \in BOOLEAN
  BY <1>1, <1>10
<1>12. \/ forwardClock' = None
       \/ forwardClock' = since /\ distracted'
  BY <1>1, <1>2, <1>8, <1>9
<1>13. GazeTypes' /\ ClocksInSight'
  BY <1>1, <1>3, <1>4, <1>5, <1>6, <1>11, <1>12, NoneAssumption
  DEF GazeInv, GazeTypes, ClocksInSight, Instant, NotLater
<1>14. DistractionsInOrder'
  <2> SUFFICES ASSUME lastEvent # None
               PROVE  /\ lastEvent <= ts
                      /\ forwardClock' # None => lastEvent < forwardClock'
                      /\ ~distracted' => ts - lastEvent > DistractionRecovery
    BY <1>1, <1>3, NoneAssumption DEF DistractionsInOrder
  <2>1. gazeLast \in Int /\ gazeLast < ts /\ lastEvent \in Int
    BY DEF GazeInv, DistractionsInOrder
  <2>2. forwardClock' # None => lastEvent < forwardClock'
    BY <1>7, <1>12
  <2>3. ASSUME ~distracted'
        PROVE  ts - lastEvent > DistractionRecovery
    <3>1. CASE distracted
      <4>1. ts - since >= DistractionRecovery
        BY <1>1, <1>8, <2>3, <3>1
      <4> QED
        BY <1>6, <1>7, <2>1, <4>1
    <3>2. CASE ~distracted
      BY <2>1, <3>2 DEF GazeInv, DistractionsInOrder
    <3> QED
      BY <3>1, <3>2
  <2> QED
    BY <2>1, <2>2, <2>3
<1>15. DistractionIsWhole
  <2>1. over => ts - forwardSince' >= DistractionRecovery
    BY <1>5, <1>6, <1>8, LongerSinceEarlier
  <2>2. distracted /\ ~distracted' => over
    BY <1>1
  <2> QED
    BY <1>1, <1>5, <2>1, <2>2, NoneAssumption
    DEF DistractionIsWhole, Gaze!Elapsed
<1> QED
  BY <1>13, <1>14, <1>15 DEF GazeInv

LEMMA GazeStep ==
  ASSUME GazeInv, Gaze!HNext
  PROVE  GazeInv' /\ DistractionIsWhole
<1>1. CASE Gaze!HReset
  <2>1. Gaze!HInit' /\ ~gazeResult'.event /\ gazeLast' = None
    BY <1>1 DEF Gaze!HReset, Gaze!reset, Gaze!HInit, Gaze!Init
  <2>2. GazeInv'
    BY <2>1, GazeInit, PTL
  <2> QED
    BY <2>1, <2>2 DEF DistractionIsWhole
<1>2. ASSUME NEW ts \in Timestamps, Gaze!HReject(ts)
      PROVE  GazeInv' /\ DistractionIsWhole
  BY <1>2
  DEF Gaze!HReject, Gaze!RejectSample, Gaze!history, GazeInv, GazeTypes,
      ClocksInSight, DistractionsInOrder, DistractionIsWhole, Instant, NotLater
<1>3. ASSUME NEW ts \in Timestamps, NEW raw \in Gaze!GazeSamples,
             NEW head \in Gaze!HeadZone, Gaze!HAccept(ts, raw, head)
      PROVE  GazeInv' /\ DistractionIsWhole
  BY <1>3, GazeLost, GazeAway, GazeForward
  DEF Gaze!HAccept, Gaze!Sample, Gaze!RejectSample
<1> QED
  BY <1>1, <1>2, <1>3 DEF Gaze!HNext

LEMMA GazeIsInvariant == Gaze!HSpec => []GazeInv
<1>1. GazeInv /\ UNCHANGED Gaze!hvars => GazeInv'
  BY DEF Gaze!hvars, Gaze!owned, Gaze!fsm, Gaze!history, GazeInv, GazeTypes,
         ClocksInSight, DistractionsInOrder, Instant, NotLater
<1>2. GazeInv /\ [Gaze!HNext]_(Gaze!hvars) => GazeInv'
  BY <1>1, GazeStep
<1> QED
  BY <1>2, GazeInit, PTL DEF Gaze!HSpec

LEMMA DistractionsAreWhole == Spec => [][DistractionIsWhole]_(Gaze!hvars)
<1>1. GazeInv /\ [Gaze!HNext]_(Gaze!hvars) => [DistractionIsWhole]_(Gaze!hvars)
  BY GazeStep
<1> QED
  BY <1>1, GazeAlone, GazeIsInvariant, PTL DEF Gaze!HSpec

\* A distraction is raised on uninterrupted sight of the gaze only
\* (DistractionFsm::update), for all thresholds and durations.
THEOREM DistractionIsSeen == Spec => EventNeedsVisibleGaze
<1>1. DistractionIsWhole =>
        (gazeResult'.event =>
           Gaze!Elapsed(gazeVisibleSince', gazeLast', DistractionDuration))
  BY DEF DistractionIsWhole
<1> QED
  BY <1>1, DistractionsAreWhole, PTL
  DEF EventNeedsVisibleGaze, Gaze!EventNeedsVisibleGaze

\* A distraction ends after a whole recovery in which the driver was confirmed
\* to look forward (DistractionFsm::update).
THEOREM DistractionEndsForward == Spec => EndsOnlyByForwardEvidence
<1>1. DistractionIsWhole =>
        (distracted /\ ~distracted' /\ gazeLast' # None =>
           Gaze!Elapsed(forwardSince', gazeLast', DistractionRecovery))
  BY DEF DistractionIsWhole
<1> QED
  BY <1>1, DistractionsAreWhole, PTL
  DEF EndsOnlyByForwardEvidence, Gaze!EndsOnlyByForwardEvidence

\* One distraction is one event: the next is a recovery and a whole distraction
\* away (DistractionFsm::update).
THEOREM DistractionsKeepTheirDistance == Spec => EventsSpaced
<1>1. DistractionIsWhole =>
        (gazeResult'.event /\ lastEvent # None =>
           gazeLast' - lastEvent > DistractionRecovery + DistractionDuration)
  BY DEF DistractionIsWhole
<1> QED
  BY <1>1, DistractionsAreWhole, PTL DEF EventsSpaced, Gaze!EventsSpaced

-----------------------------------------------------------------------------
(* Drowsiness.                                                             *)

\* Instances of a library operator are the operator.
LEMMA OneCardinality == \A S : Driver!Cardinality(S) = Cardinality(S)
BY DEF Driver!Cardinality, Cardinality

\* The drowsiness of the composition is the machine alone.
LEMMA DriverAlone == Spec => Driver!HSpec
<1>1. Init => Driver!HInit
  BY DEF Init
<1>2. [Next]_vars => [Driver!HNext]_(Driver!hvars)
  BY DEF Next, vars, driverVars, Driver!hvars, Driver!owned, Driver!fsm
<1> QED
  BY <1>1, <1>2, PTL DEF Spec, Driver!HSpec

DriverTypes ==
  /\ Instant(driverLast) /\ Instant(recoverySince) /\ Instant(normalSince)
  /\ yawns \in Seq(Int) /\ yawnedAt \in SUBSET Int

\* The yawns kept are in order, and they are those of the window.
YawnsKept ==
  /\ InOrder(yawns)
  /\ drowsinessResult.recentYawns = Len(yawns)
  /\ driverLast = None => yawns = <<>> /\ yawnedAt = {}
  /\ driverLast # None =>
       /\ \A t \in yawnedAt : t <= driverLast
       /\ Times(yawns) = Driver!RecentAt(driverLast, yawnedAt)

\* The recovery of an alert is timed from within the run of normal evidence.
RecoveryInRun ==
  /\ NotLater(normalSince, driverLast)
  /\ recoverySince # None /\ drowsiness \in Driver!Alert =>
       normalSince # None /\ normalSince <= recoverySince

DriverInv == DriverTypes /\ YawnsKept /\ RecoveryInRun

LEMMA DriverInit == Driver!HInit => DriverInv
<1> SUFFICES ASSUME Driver!HInit
             PROVE  DriverInv
  OBVIOUS
<1>1. /\ driverLast = None /\ recoverySince = None /\ normalSince = None
      /\ yawns = <<>> /\ yawnedAt = {}
      /\ drowsinessResult.recentYawns = 0
  BY DEF Driver!HInit, Driver!Init
<1>2. yawns \in Seq(Int) /\ Len(yawns) = 0 /\ InOrder(yawns)
  BY <1>1 DEF InOrder
<1> QED
  BY <1>1, <1>2
  DEF DriverInv, DriverTypes, YawnsKept, RecoveryInRun, Instant, NotLater

\* What a step promises of an alert that turns to Normal.
DebouncedRecovery ==
  drowsiness \in Driver!Alert /\ driverLast' # None /\ drowsiness' = "Normal" =>
    Driver!Elapsed(normalSince', driverLast', DrowsinessRecovery)

\* The yawns of the window, when it has moved on to ts.
LEMMA YawnsAge ==
  ASSUME DriverInv, NEW ts \in Int,
         driverLast # None => driverLast \in Int /\ driverLast < ts
  PROVE  /\ Driver!RecentYawns(ts) \in Seq(Int)
         /\ InOrder(Driver!RecentYawns(ts))
         /\ Times(Driver!RecentYawns(ts)) = Driver!RecentAt(ts, yawnedAt)
         /\ \A t \in yawnedAt : t \in Int /\ t < ts
<1>1. YawnEvidenceWindow \in Int /\ 0 < YawnEvidenceWindow
  BY DrowsinessConfigAssumption DEF ValidDrowsinessConfig
<1>2. yawns \in Seq(Int) /\ InOrder(yawns)
  BY DEF DriverInv, DriverTypes, YawnsKept
<1>3. Driver!RecentYawns(ts) = Young(yawns, ts, YawnEvidenceWindow)
  BY OneCardinality DEF Driver!RecentYawns, Young
<1>4. \A t \in yawnedAt : t \in Int /\ t < ts
  <2> SUFFICES ASSUME NEW t \in yawnedAt
               PROVE  t \in Int /\ t < ts
    OBVIOUS
  <2>1. t \in Int /\ driverLast # None
    BY DEF DriverInv, DriverTypes, YawnsKept
  <2>2. driverLast \in Int /\ driverLast < ts
    BY <2>1
  <2>3. t <= driverLast
    BY <2>1 DEF DriverInv, YawnsKept
  <2> QED
    BY <2>1, <2>2, <2>3
<1>5. \A t : /\ t \in Times(yawns) /\ t >= ts - YawnEvidenceWindow
             <=> t \in Driver!RecentAt(ts, yawnedAt)
  <2>1. CASE driverLast = None
    BY <2>1 DEF DriverInv, YawnsKept, Driver!RecentAt, Times
  <2>2. CASE driverLast # None
    <3>1. \A t : t \in Times(yawns) <=>
                   t \in yawnedAt /\ t >= driverLast - YawnEvidenceWindow
      BY <2>2 DEF DriverInv, YawnsKept, Driver!RecentAt
    <3>2. \A t \in Int : t >= ts - YawnEvidenceWindow =>
                           t >= driverLast - YawnEvidenceWindow
      BY <1>1, <2>2
    <3> QED
      BY <1>4, <3>1, <3>2 DEF Driver!RecentAt
  <2> QED
    BY <2>1, <2>2
<1>6. {t \in Times(yawns) : t >= ts - YawnEvidenceWindow}
        = Driver!RecentAt(ts, yawnedAt)
  BY <1>5
<1> DEFINE rest == Young(yawns, ts, YawnEvidenceWindow)
<1>7. /\ rest \in Seq(Int) /\ InOrder(rest)
      /\ Times(rest) = {t \in Times(yawns) : t >= ts - YawnEvidenceWindow}
  BY <1>1, <1>2, PoppingLeavesTheYoung
<1> HIDE DEF rest
<1>8. Driver!RecentYawns(ts) = rest
  BY <1>3 DEF rest
<1>9. Times(rest) = Driver!RecentAt(ts, yawnedAt)
  BY <1>6, <1>7
<1> QED
  BY <1>4, <1>7, <1>8, <1>9

LEMMA DriverAccepts ==
  ASSUME DriverInv, NEW ts \in Timestamps, NEW sight, Driver!HAccept(ts, sight)
  PROVE  /\ ts \in Int /\ driverLast' = ts
         /\ driverLast # None => driverLast \in Int /\ driverLast < ts
         /\ drowsinessResult'.recentYawns = Len(yawns')
         /\ sight = None => yawns' = Driver!RecentYawns(ts)
         /\ sight # None =>
              yawns' = Driver!RecentYawns(ts)
                         \o (IF sight.yawn THEN <<ts>> ELSE <<>>)
<1>1. ts \in Int
  BY TimestampsAssumption
<1>2. driverLast # None => driverLast \in Int /\ driverLast < ts
  BY <1>1 DEF Driver!HAccept, Driver!NotAfter, DriverInv, DriverTypes, Instant
<1>3. \/ Driver!LoseSight(ts, sight) \/ Driver!Follow(ts, sight)
      \/ Driver!HoldAlert(ts, sight) \/ Driver!Recover(ts, sight)
  BY DEF Driver!HAccept, Driver!Sample, Driver!RejectSample
<1>4. driverLast' = ts /\ Driver!Report
  BY <1>3
  DEF Driver!LoseSight, Driver!Follow, Driver!HoldAlert, Driver!Recover,
      Driver!SeeDriver, Driver!AcceptSample
<1>5. drowsinessResult'.recentYawns = Len(yawns')
  BY <1>4 DEF Driver!Report
<1>6. /\ sight = None => yawns' = Driver!RecentYawns(ts)
      /\ sight # None =>
           yawns' = Driver!RecentYawns(ts)
                      \o (IF sight.yawn THEN <<ts>> ELSE <<>>)
  BY <1>3
  DEF Driver!LoseSight, Driver!Follow, Driver!HoldAlert, Driver!Recover,
      Driver!SeeDriver
<1> QED
  BY <1>1, <1>2, <1>4, <1>5, <1>6

\* A sample keeps the recent yawns exact, whatever it says of the alert.
LEMMA YawnsFollow ==
  ASSUME DriverInv, NEW ts \in Timestamps, NEW sight, Driver!HAccept(ts, sight)
  PROVE  /\ yawns' \in Seq(Int) /\ yawnedAt' \in SUBSET Int /\ YawnsKept'
         /\ Cardinality(Driver!RecentAt(ts, yawnedAt')) = Len(yawns')
<1> DEFINE rest == Driver!RecentYawns(ts)
<1>1. /\ ts \in Int /\ driverLast' = ts
      /\ driverLast # None => driverLast \in Int /\ driverLast < ts
      /\ drowsinessResult'.recentYawns = Len(yawns')
  BY DriverAccepts
<1>2. /\ sight = None => yawns' = rest
      /\ sight # None =>
           yawns' = rest \o (IF sight.yawn THEN <<ts>> ELSE <<>>)
  BY DriverAccepts
<1>3. /\ rest \in Seq(Int) /\ InOrder(rest)
      /\ Times(rest) = Driver!RecentAt(ts, yawnedAt)
      /\ \A t \in yawnedAt : t \in Int /\ t < ts
  BY <1>1, YawnsAge
<1>4. yawnedAt' = IF sight # None /\ sight.yawn THEN yawnedAt \cup {ts}
                                                ELSE yawnedAt
  BY DEF Driver!HAccept
<1> HIDE DEF rest
<1>5. /\ yawns' \in Seq(Int) /\ InOrder(yawns')
      /\ Times(yawns') = Driver!RecentAt(ts, yawnedAt')
      /\ \A t \in yawnedAt' : t \in Int /\ t <= ts
  <2>1. CASE sight # None /\ sight.yawn
    <3>1. yawns' = rest \o <<ts>> /\ yawnedAt' = yawnedAt \cup {ts}
      BY <1>2, <1>4, <2>1
    <3>2. \A t \in Times(rest) : t < ts
      BY <1>3 DEF Driver!RecentAt
    <3>3. /\ yawns' \in Seq(Int) /\ InOrder(yawns')
          /\ Times(yawns') = Times(rest) \cup {ts}
      BY <1>1, <1>3, <3>1, <3>2, AppendingKeepsOrder
    <3>4. ts >= ts - YawnEvidenceWindow
      BY <1>1, DrowsinessConfigAssumption DEF ValidDrowsinessConfig
    <3>5. Driver!RecentAt(ts, yawnedAt')
            = Driver!RecentAt(ts, yawnedAt) \cup {ts}
      BY <3>1, <3>4 DEF Driver!RecentAt
    <3>6. \A t \in yawnedAt' : t \in Int /\ t <= ts
      BY <1>1, <1>3, <3>1
    <3> QED
      BY <1>3, <3>3, <3>5, <3>6
  <2>2. CASE ~(sight # None /\ sight.yawn)
    <3>1. yawns' = rest /\ yawnedAt' = yawnedAt
      <4>1. rest \o <<>> = rest
        BY <1>3
      <4> QED
        BY <1>2, <1>4, <2>2, <4>1
    <3>2. \A t \in yawnedAt' : t \in Int /\ t <= ts
      BY <1>1, <1>3, <3>1
    <3> QED
      BY <1>3, <3>1, <3>2
  <2> QED
    BY <2>1, <2>2
<1>6. yawnedAt' \in SUBSET Int
  BY <1>5
<1>7. YawnsKept'
  BY <1>1, <1>5, NoneAssumption DEF YawnsKept
<1>8. Cardinality(Driver!RecentAt(ts, yawnedAt')) = Len(yawns')
  BY <1>5, TimesCounted
<1> QED
  BY <1>5, <1>6, <1>7, <1>8

\* The run of normal evidence goes on exactly as long as the machine finds
\* none of drowsiness.
LEMMA NormalEvidence ==
  ASSUME DriverInv, NEW ts \in Timestamps, NEW sight, Driver!HAccept(ts, sight)
  PROVE  normalSince' =
           IF sight # None /\ Driver!evidence(sight, yawns') = "Normal"
           THEN Driver!StartedBy(normalSince, ts) ELSE None
<1>1. normalSince' = IF /\ sight # None /\ sight.eyes = "Normal"
                        /\ Len(yawns') < YawnsForWarning
                     THEN Driver!StartedBy(normalSince, ts) ELSE None
  BY YawnsFollow, OneCardinality DEF Driver!HAccept
<1>2. Driver!evidence(sight, yawns') = "Normal" <=>
        sight.eyes = "Normal" /\ ~(Len(yawns') >= YawnsForWarning)
  BY DEF Driver!evidence
<1>3. Len(yawns') < YawnsForWarning <=> ~(Len(yawns') >= YawnsForWarning)
  <2>1. Len(yawns') \in Nat
    BY YawnsFollow
  <2> QED
    BY <2>1, DrowsinessConfigAssumption DEF ValidDrowsinessConfig
<1> QED
  BY <1>1, <1>2, <1>3

\* A sample that continues the run of normal evidence.
LEMMA RunContinues ==
  ASSUME DriverInv, NEW ts \in Timestamps, NEW sight, Driver!HAccept(ts, sight),
         sight # None, Driver!evidence(sight, yawns') = "Normal"
  PROVE  /\ normalSince' \in Int /\ normalSince' <= ts
         /\ normalSince # None => normalSince' = normalSince
<1>1. normalSince' = Driver!StartedBy(normalSince, ts)
  BY NormalEvidence
<1>2. /\ ts \in Int
      /\ driverLast # None => driverLast \in Int /\ driverLast < ts
  BY DriverAccepts
<1> QED
  BY <1>1, <1>2
  DEF Driver!StartedBy, DriverInv, DriverTypes, RecoveryInRun, Instant, NotLater

LEMMA RecoveryFollows ==
  ASSUME DriverInv, NEW ts \in Timestamps, NEW sight, Driver!HAccept(ts, sight)
  PROVE  /\ Instant(recoverySince') /\ Instant(normalSince') /\ RecoveryInRun'
         /\ DebouncedRecovery
<1>1. /\ ts \in Int /\ driverLast' = ts
      /\ driverLast # None => driverLast \in Int /\ driverLast < ts
  BY DriverAccepts
<1>2. /\ Instant(normalSince')
      /\ normalSince' # None => normalSince' <= ts
  BY <1>1, NormalEvidence, RunContinues DEF Instant
<1>3. CASE /\ recoverySince' = None
           /\ ~(drowsiness \in Driver!Alert /\ drowsiness' = "Normal")
  BY <1>1, <1>2, <1>3, NoneAssumption
  DEF RecoveryInRun, DebouncedRecovery, Instant, NotLater
<1>4. CASE Driver!LoseSight(ts, sight)
  BY <1>3, <1>4 DEF Driver!LoseSight
<1>5. CASE Driver!Follow(ts, sight)
  BY <1>3, <1>5 DEF Driver!Follow, Driver!Alert
<1>6. CASE Driver!HoldAlert(ts, sight)
  <2>1. /\ sight # None /\ Driver!evidence(sight, yawns') = "Normal"
        /\ drowsiness \in Driver!Alert
        /\ drowsiness' = drowsiness /\ recoverySince' = recoverySince
    BY <1>6 DEF Driver!HoldAlert, Driver!SeeDriver
  <2>2. /\ normalSince' \in Int /\ normalSince' <= ts
        /\ normalSince # None => normalSince' = normalSince
    BY <2>1, RunContinues
  <2>3. ~(drowsiness' = "Normal")
    BY <2>1 DEF Driver!Alert
  <2>4. recoverySince # None =>
          normalSince # None /\ normalSince <= recoverySince
    BY <2>1 DEF DriverInv, RecoveryInRun
  <2> QED
    BY <1>1, <2>1, <2>2, <2>3, <2>4, NoneAssumption
    DEF DriverInv, DriverTypes, RecoveryInRun, DebouncedRecovery, Instant,
        NotLater
<1>7. CASE Driver!Recover(ts, sight)
  <2> DEFINE since == Driver!StartedBy(recoverySince, ts)
  <2>1. /\ sight # None /\ Driver!evidence(sight, yawns') = "Normal"
        /\ drowsiness \in Driver!Alert
        /\ recoverySince' = since
        /\ drowsiness' = IF ts - since >= DrowsinessRecovery
                         THEN "Normal" ELSE drowsiness
    BY <1>7 DEF Driver!Recover, Driver!SeeDriver
  <2>2. /\ normalSince' \in Int /\ normalSince' <= ts
        /\ normalSince # None => normalSince' = normalSince
    BY <2>1, RunContinues
  <2>3. recoverySince # None =>
          normalSince # None /\ normalSince <= recoverySince
    BY <2>1 DEF DriverInv, RecoveryInRun
  <2>4. since \in Int /\ normalSince' <= since
    BY <1>1, <2>2, <2>3
    DEF Driver!StartedBy, DriverInv, DriverTypes, Instant
  <2> HIDE DEF since
  <2>5. Instant(recoverySince') /\ RecoveryInRun'
    BY <1>1, <2>1, <2>2, <2>4, NoneAssumption
    DEF RecoveryInRun, Instant, NotLater
  <2>6. DebouncedRecovery
    <3> SUFFICES ASSUME drowsiness' = "Normal"
                 PROVE  Driver!Elapsed(normalSince', ts, DrowsinessRecovery)
      BY <1>1 DEF DebouncedRecovery
    <3>1. ts - since >= DrowsinessRecovery
      BY <2>1 DEF Driver!Alert
    <3>2. DrowsinessRecovery \in Int
      BY DrowsinessConfigAssumption DEF ValidDrowsinessConfig
    <3>3. ts - normalSince' >= DrowsinessRecovery
      BY <1>1, <2>2, <2>4, <3>1, <3>2, LongerSinceEarlier
    <3> QED
      BY <2>2, <3>3, NoneAssumption DEF Driver!Elapsed
  <2> QED
    BY <1>2, <2>5, <2>6
<1> QED
  BY <1>4, <1>5, <1>6, <1>7
  DEF Driver!HAccept, Driver!Sample, Driver!RejectSample

LEMMA DriverStep ==
  ASSUME DriverInv, Driver!HNext
  PROVE  DriverInv' /\ DebouncedRecovery
<1>1. CASE Driver!HReset
  <2>1. Driver!HInit' /\ driverLast' = None
    BY <1>1 DEF Driver!HReset, Driver!reset, Driver!HInit, Driver!Init
  <2>2. DriverInv'
    BY <2>1, DriverInit, PTL
  <2> QED
    BY <2>1, <2>2 DEF DebouncedRecovery
<1>2. ASSUME NEW ts \in Timestamps, Driver!HReject(ts)
      PROVE  DriverInv' /\ DebouncedRecovery
  <2>1. /\ UNCHANGED <<driverLast, drowsiness, recoverySince, yawns>>
        /\ UNCHANGED <<yawnedAt, normalSince>>
        /\ drowsinessResult'.recentYawns = Len(yawns)
    BY <1>2 DEF Driver!HReject, Driver!RejectSample
  <2>2. DriverInv'
    BY <2>1 DEF DriverInv, DriverTypes, YawnsKept, RecoveryInRun, Instant,
                NotLater
  <2>3. ~(drowsiness \in Driver!Alert /\ drowsiness' = "Normal")
    BY <2>1 DEF Driver!Alert
  <2> QED
    BY <2>2, <2>3 DEF DebouncedRecovery
<1>3. ASSUME NEW ts \in Timestamps, NEW sight, Driver!HAccept(ts, sight)
      PROVE  DriverInv' /\ DebouncedRecovery
  <2>1. Instant(driverLast')
    BY <1>3, DriverAccepts DEF Instant
  <2>2. /\ yawns' \in Seq(Int) /\ yawnedAt' \in SUBSET Int /\ YawnsKept'
    BY <1>3, YawnsFollow
  <2>3. /\ Instant(recoverySince') /\ Instant(normalSince') /\ RecoveryInRun'
        /\ DebouncedRecovery
    BY <1>3, RecoveryFollows
  <2> QED
    BY <2>1, <2>2, <2>3 DEF DriverInv, DriverTypes
<1> QED
  BY <1>1, <1>2, <1>3 DEF Driver!HNext

LEMMA DriverIsInvariant == Driver!HSpec => []DriverInv
<1>1. DriverInv /\ UNCHANGED Driver!hvars => DriverInv'
  BY DEF Driver!hvars, Driver!owned, Driver!fsm, DriverInv, DriverTypes,
         YawnsKept, RecoveryInRun, Instant, NotLater
<1>2. DriverInv /\ [Driver!HNext]_(Driver!hvars) => DriverInv'
  BY <1>1, DriverStep
<1> QED
  BY <1>2, DriverInit, PTL DEF Driver!HSpec

\* The yawns counted as evidence are exactly those seen in the window
\* (DrowsinessFsm::update), for every window and any number of yawns.
THEOREM YawnEvidenceIsKept == Spec => []YawnEvidenceIsExact
<1>1. DriverInv => YawnEvidenceIsExact
  <2> SUFFICES ASSUME DriverInv, driverLast # None
               PROVE  drowsinessResult.recentYawns
                        = Cardinality(Driver!RecentAt(driverLast, yawnedAt))
    BY OneCardinality
    DEF YawnEvidenceIsExact, Driver!YawnEvidenceIsExact
  <2>1. /\ yawns \in Seq(Int) /\ InOrder(yawns)
        /\ drowsinessResult.recentYawns = Len(yawns)
        /\ Times(yawns) = Driver!RecentAt(driverLast, yawnedAt)
    BY DEF DriverInv, DriverTypes, YawnsKept
  <2> QED
    BY <2>1, TimesCounted
<1> QED
  BY <1>1, DriverAlone, DriverIsInvariant, PTL

\* An alert turns to Normal only at the end of a whole recovery of normal
\* evidence (DrowsinessFsm::update), for every recovery and any hold.
THEOREM RecoveryIsWhole == Spec => RecoveryIsDebounced
<1>1. DriverInv /\ [Driver!HNext]_(Driver!hvars) =>
        [DebouncedRecovery]_(Driver!hvars)
  BY DriverStep
<1>2. DebouncedRecovery =>
        (drowsiness \in Driver!Alert /\ driverLast' # None
           /\ drowsiness' = "Normal" =>
           Driver!Elapsed(normalSince', driverLast', DrowsinessRecovery))
  BY DEF DebouncedRecovery
<1> QED
  BY <1>1, <1>2, DriverAlone, DriverIsInvariant, PTL
  DEF Driver!HSpec, RecoveryIsDebounced, Driver!RecoveryIsDebounced

-----------------------------------------------------------------------------
(* Types.  The invariants above have those of the clocks; what is left of  *)
(* each machine, its zones, counts and results, is kept by its steps.      *)

\* Every machine has the types its module declares.
MachinesTypeOK ==
  /\ Gate!TypeOK /\ Mouth!TypeOK /\ Pose!TypeOK /\ Gaze!TypeOK
  /\ Seat!TypeOK /\ Sight!TypeOK /\ Driver!TypeOK

LEMMA InstantsAreOptional ==
  \A x : Instant(x) =>
    /\ x \in Mouth!Optional(Int) /\ x \in Pose!Optional(Int)
    /\ x \in Gaze!Optional(Int) /\ x \in Seat!Optional(Int)
    /\ x \in Sight!Optional(Int) /\ x \in Driver!Optional(Int)
BY DEF Instant, Mouth!Optional, Pose!Optional, Gaze!Optional, Seat!Optional,
       Sight!Optional, Driver!Optional

LEMMA GateTyped == Spec => []Gate!TypeOK
<1>1. GateProofs!HSpec => []GateProofs!TypeOK
  BY GateProofs!TypeCorrect, GateConfig, OtherConfigs, NoneAssumption,
     TimestampsAssumption, YawnConfigAssumption, HeadPoseConfigAssumption,
     DistractionConfigAssumption, NoZeroTimestamp, DrowsinessConfigAssumption
<1>2. GateProofs!TypeOK => Gate!TypeOK
  BY DEF GateProofs!TypeOK, Gate!TypeOK, GateProofs!Optional, Gate!Optional,
         GateProofs!ObservationUsability, Gate!ObservationUsability
<1> QED
  BY <1>1, <1>2, GateAlone, PTL

-----------------------------------------------------------------------------
LEMMA SeatTyped == Spec => []Seat!TypeOK
<1> DEFINE Answered == presenceReturned \in Seat!PresenceState
<1>1. Seat!HInit => Answered
  BY DEF Seat!HInit, Seat!Init, Seat!PresenceState
<1>2. SeatInv' /\ Answered /\ [Seat!HNext]_(Seat!hvars) => Answered'
  <2> SUFFICES ASSUME SeatInv', Answered, [Seat!HNext]_(Seat!hvars)
               PROVE  Answered'
    OBVIOUS
  <2>1. /\ "Unknown" \in Seat!PresenceState
        /\ presence' \in Seat!PresenceState
    BY DEF SeatInv, SeatTypes, Seat!PresenceState
  <2>2. presenceReturned' \in {"Unknown", presence', presenceReturned}
    BY DEF Seat!HNext, Seat!HReset, Seat!HReject, Seat!HAccept, Seat!reset,
           Seat!update, Seat!Sample, Seat!RejectSample, Seat!LoseEvidence,
           Seat!FollowEvidence, Seat!hvars, Seat!owned, Seat!fsm
  <2> QED
    BY <2>1, <2>2
<1>3. SeatInv /\ Answered => Seat!TypeOK
  BY InstantsAreOptional DEF SeatInv, SeatTypes, Seat!TypeOK
<1> QED
  BY <1>1, <1>2, <1>3, SeatAlone, SeatIsInvariant, PTL DEF Seat!HSpec

-----------------------------------------------------------------------------
SightRest ==
  /\ unavailableSince \in Int /\ episodeCount \in Nat
  /\ availabilityResult \in
       [unavailable : BOOLEAN, recordEvent : BOOLEAN, notify : BOOLEAN,
        notifyEvent : BOOLEAN, duration : Nat]

LEMMA SightAvailable ==
  Sight!Available \in
    [unavailable : BOOLEAN, recordEvent : BOOLEAN, notify : BOOLEAN,
     notifyEvent : BOOLEAN, duration : Nat]
BY DEF Sight!Available

LEMMA SightRestStays ==
  ASSUME SightInv, SightRest, NEW ts \in Timestamps, NEW u,
         Sight!HAccept(ts, u), Sight!StayUnavailable(ts, u)
  PROVE  SightRest'
<1> DEFINE since == IF unavailableSince = 0 THEN ts ELSE unavailableSince
           record == ~recorded /\ Sight!durationOf(since, ts) >= RecordAfter
           notify == ~notified /\ Sight!durationOf(since, ts) >= NotifyAfter
<1>1. ts \in Int
  BY TimestampsAssumption
<1>2. since \in Int /\ since <= ts
  BY <1>1
  DEF SightInv, SightTypes, StartOfEpisode, SightRest, Instant, NotLater,
      Sight!HAccept, Sight!NotAfter
<1>3. record \in BOOLEAN /\ notify \in BOOLEAN
  BY Zenon
<1>4. notified \in BOOLEAN
  BY DEF SightInv, SightTypes
<1> HIDE DEF since
<1>5. /\ unavailableSince' = since
      /\ notified' = (notified \/ notify)
      /\ episodeCount' = episodeCount + IF record THEN 1 ELSE 0
      /\ availabilityResult' =
           [unavailable |-> TRUE, recordEvent |-> record,
            notify |-> notified', notifyEvent |-> notify,
            duration |-> ts - since]
  BY DEF Sight!StayUnavailable, Sight!durationOf, since
<1> HIDE DEF record, notify
<1>6. notified' \in BOOLEAN
  BY <1>3, <1>4, <1>5
<1>7. ts - since \in Nat
  BY <1>1, <1>2
<1> QED
  BY <1>2, <1>3, <1>5, <1>6, <1>7 DEF SightRest

LEMMA SightTyped == Spec => []Sight!TypeOK
<1>1. Sight!HInit => SightRest
  BY SightAvailable DEF Sight!HInit, Sight!Init, SightRest
<1>2. SightInv /\ SightRest /\ [Sight!HNext]_(Sight!hvars) => SightRest'
  <2>1. ASSUME SightRest,
               \/ Sight!HReset
               \/ \E ts \in Timestamps : Sight!HReject(ts)
               \/ \E ts, u : Sight!BecomeAvailable(ts, u)
        PROVE  SightRest'
    BY <2>1, SightAvailable
    DEF Sight!HReset, Sight!reset, Sight!HReject, Sight!RejectSample,
        Sight!BecomeAvailable, SightRest
  <2>2. ASSUME SightInv, SightRest, NEW ts \in Timestamps, NEW u,
               Sight!HAccept(ts, u)
        PROVE  SightRest'
    BY <2>1, <2>2, SightRestStays
    DEF Sight!HAccept, Sight!update, Sight!RejectSample
  <2>3. SightRest /\ UNCHANGED Sight!hvars => SightRest'
    BY DEF Sight!hvars, Sight!owned, Sight!fsm, SightRest
  <2> QED
    BY <2>1, <2>2, <2>3 DEF Sight!HNext
<1>3. SightInv /\ SightRest => Sight!TypeOK
  BY InstantsAreOptional DEF SightInv, SightTypes, SightRest, Sight!TypeOK
<1> QED
  BY <1>1, <1>2, <1>3, SightAlone, SightIsInvariant, PTL DEF Sight!HSpec

-----------------------------------------------------------------------------
MouthRest == yawnCount \in Nat /\ yawnResult \in Mouth!Result

LEMMA MouthRestStays ==
  ASSUME MouthInv, MouthRest, NEW ts \in Timestamps,
         NEW mouth \in Mouth!MouthSamples, Mouth!HAccept(ts, mouth)
  PROVE  MouthRest'
<1>1. yawning \in BOOLEAN
  BY DEF MouthInv, MouthTypes
<1>2. CASE Mouth!LoseMouth(ts, mouth)
  BY <1>2 DEF Mouth!LoseMouth, Mouth!NoYawn, Mouth!Result, MouthRest
<1>3. CASE Mouth!HoldMouth(ts, mouth)
  BY <1>1, <1>3 DEF Mouth!HoldMouth, Mouth!Result, MouthRest
<1>4. CASE Mouth!OpenMouth(ts, mouth)
  <2> DEFINE since == Mouth!StartedBy(mouthCandidate, ts)
             confirmed == ts - since >= YawnConfirmation
  <2>1. confirmed \in BOOLEAN
    OBVIOUS
  <2>2. /\ yawnResult' = [active |-> confirmed, event |-> FALSE]
        /\ yawnCount' = yawnCount
    BY <1>4 DEF Mouth!OpenMouth
  <2> HIDE DEF confirmed
  <2> QED
    BY <2>1, <2>2 DEF Mouth!Result, MouthRest
<1>5. CASE Mouth!CloseMouth(ts, mouth)
  <2> DEFINE since == Mouth!StartedBy(mouthCandidate, ts)
             confirmed == ts - since >= YawnConfirmation
             yawn == confirmed /\ Mouth!isYawn(since, ts)
  <2>1. confirmed \in BOOLEAN
    OBVIOUS
  <2>2. yawn \in BOOLEAN
    BY Zenon
  <2>3. /\ yawnResult' = [active |-> ~confirmed, event |-> yawn]
        /\ yawnCount' = yawnCount + IF yawn THEN 1 ELSE 0
    BY <1>5 DEF Mouth!CloseMouth
  <2> HIDE DEF confirmed, yawn
  <2> QED
    BY <2>1, <2>2, <2>3 DEF Mouth!Result, MouthRest
<1> QED
  BY <1>2, <1>3, <1>4, <1>5
  DEF Mouth!HAccept, Mouth!Sample, Mouth!RejectSample

LEMMA MouthTyped == Spec => []Mouth!TypeOK
<1>1. Mouth!HInit => MouthRest
  BY DEF Mouth!HInit, Mouth!Init, Mouth!NoYawn, Mouth!Result, MouthRest
<1>2. MouthInv /\ MouthRest /\ [Mouth!HNext]_(Mouth!hvars) => MouthRest'
  <2>1. ASSUME MouthRest,
               Mouth!HReset \/ \E ts \in Timestamps : Mouth!HReject(ts)
        PROVE  MouthRest'
    <3>1. /\ yawnCount' \in {0, yawnCount}
          /\ yawnResult' = Mouth!NoYawn
      BY <2>1
      DEF Mouth!HReset, Mouth!reset, Mouth!HReject, Mouth!RejectSample
    <3> QED
      BY <2>1, <3>1 DEF Mouth!NoYawn, Mouth!Result, MouthRest
  <2>2. MouthRest /\ UNCHANGED Mouth!hvars => MouthRest'
    BY DEF Mouth!hvars, Mouth!owned, Mouth!fsm, MouthRest
  <2> QED
    BY <2>1, <2>2, MouthRestStays DEF Mouth!HNext
<1>3. MouthInv /\ MouthRest => Mouth!TypeOK
  BY InstantsAreOptional DEF MouthInv, MouthTypes, MouthRest, Mouth!TypeOK
<1> QED
  BY <1>1, <1>2, <1>3, MouthAlone, MouthIsInvariant, PTL DEF Mouth!HSpec

-----------------------------------------------------------------------------
HeadRest ==
  moveCount \in [Pose!Direction -> Nat] /\ poseResult \in Pose!Result

LEMMA HeadRestStays ==
  ASSUME HeadInv, HeadRest, NEW ts \in Timestamps,
         NEW raw \in Pose!PoseSamples, Pose!HAccept(ts, raw)
  PROVE  HeadRest'
<1>1. zone \in Pose!HeadZone /\ neutralArmed \in BOOLEAN
  BY DEF HeadInv, HeadTypes
<1>2. CASE Pose!LosePose(ts, raw)
  BY <1>2 DEF Pose!LosePose, Pose!NoPose, Pose!Result, Pose!HeadZone, HeadRest
<1>3. CASE Pose!HoldZone(ts, raw)
  BY <1>1, <1>3 DEF Pose!HoldZone, Pose!Result, HeadRest
<1>4. CASE Pose!ReturnToNeutral(ts, raw)
  BY <1>4 DEF Pose!ReturnToNeutral, Pose!Result, Pose!HeadZone, HeadRest
<1>5. CASE Pose!TurnHead(ts, raw)
  <2>1. raw \in Pose!HeadZone /\ raw \in Pose!Direction
    BY <1>5 DEF Pose!TurnHead, Pose!HeadZone, Pose!Direction
  <2>2. poseResult' \in Pose!Result
    BY <1>1, <1>5, <2>1 DEF Pose!TurnHead, Pose!Counts, Pose!Result
  <2>3. moveCount' \in [Pose!Direction -> Nat]
    BY <1>5, <2>1 DEF Pose!TurnHead, HeadRest
  <2> QED
    BY <2>2, <2>3 DEF HeadRest
<1> QED
  BY <1>2, <1>3, <1>4, <1>5
  DEF Pose!HAccept, Pose!Sample, Pose!RejectSample

LEMMA HeadTyped == Spec => []Pose!TypeOK
<1>1. Pose!HInit => HeadRest
  BY DEF Pose!HInit, Pose!Init, Pose!NoPose, Pose!Result, Pose!HeadZone,
         HeadRest
<1>2. HeadInv /\ HeadRest /\ [Pose!HNext]_(Pose!hvars) => HeadRest'
  <2>1. ASSUME HeadRest,
               Pose!HReset \/ \E ts \in Timestamps : Pose!HReject(ts)
        PROVE  HeadRest'
    <3>1. /\ moveCount' \in {[d \in Pose!Direction |-> 0], moveCount}
          /\ poseResult' = Pose!NoPose
      BY <2>1
      DEF Pose!HReset, Pose!reset, Pose!HReject, Pose!RejectSample
    <3> QED
      BY <2>1, <3>1 DEF Pose!NoPose, Pose!Result, Pose!HeadZone, HeadRest
  <2>2. HeadRest /\ UNCHANGED Pose!hvars => HeadRest'
    BY DEF Pose!hvars, Pose!owned, Pose!fsm, HeadRest
  <2> QED
    BY <2>1, <2>2, HeadRestStays DEF Pose!HNext
<1>3. HeadInv /\ HeadRest => Pose!TypeOK
  BY InstantsAreOptional DEF HeadInv, HeadTypes, HeadRest, Pose!TypeOK
<1> QED
  BY <1>1, <1>2, <1>3, HeadAlone, HeadIsInvariant, PTL DEF Pose!HSpec

-----------------------------------------------------------------------------
GazeRest ==
  /\ gaze \in Gaze!GazeZone /\ candidateGaze \in Gaze!GazeZone
  /\ Instant(gazeSince) /\ gazeResult \in Gaze!Result

LEMMA GazeUnknown ==
  /\ "Unknown" \in Gaze!GazeZone
  /\ \A d \in BOOLEAN :
       [gaze |-> "Unknown", distracted |-> d, event |-> FALSE] \in Gaze!Result
BY DEF Gaze!GazeZone, Gaze!Result

LEMMA GazeSamplesAreZones ==
  \A raw \in Gaze!GazeSamples : raw \in Gaze!GazeZone
<1>1. \A h, v : Gaze!rawGaze(h, v) \in Gaze!GazeZone
  <2> SUFFICES ASSUME NEW h, NEW v
               PROVE  Gaze!rawGaze(h, v)
                        \in {"Left", "Right", "Up", "Down", "Forward"}
    BY DEF Gaze!GazeZone, Gaze!Direction
  <2> QED
    BY DEF Gaze!rawGaze
<1>2. \A u, h, v : Gaze!RawGaze(u, h, v) \in Gaze!GazeZone
  BY <1>1, GazeUnknown DEF Gaze!RawGaze
<1> QED
  BY <1>2 DEF Gaze!GazeSamples

LEMMA GazeFollowed ==
  ASSUME GazeRest, NEW ts \in Timestamps, NEW raw \in Gaze!GazeSamples,
         Gaze!FollowGaze(ts, raw)
  PROVE  /\ gaze' \in Gaze!GazeZone /\ candidateGaze' \in Gaze!GazeZone
         /\ Instant(gazeSince')
<1>1. Instant(ts)
  BY TimestampsAssumption DEF Instant
<1>2. gazeSince' \in {gazeSince, ts}
  BY DEF Gaze!FollowGaze
<1>3. gaze' \in {gaze, raw} /\ candidateGaze' = raw
  BY DEF Gaze!FollowGaze
<1> QED
  BY <1>1, <1>2, <1>3, GazeSamplesAreZones DEF GazeRest

LEMMA GazeRestStays ==
  ASSUME GazeInv, GazeRest, NEW ts \in Timestamps,
         NEW raw \in Gaze!GazeSamples, NEW head \in Gaze!HeadZone,
         Gaze!HAccept(ts, raw, head)
  PROVE  GazeRest'
<1>1. distracted \in BOOLEAN
  BY DEF GazeInv, GazeTypes
<1>2. CASE Gaze!LoseGaze(ts, raw)
  BY <1>2, GazeUnknown DEF Gaze!LoseGaze, GazeRest, Instant
<1>3. CASE Gaze!LookAway(ts, raw, head)
  <2> DEFINE since == Gaze!StartedBy(awaySince, ts)
             event == ~distracted /\ ts - since >= DistractionDuration
  <2>1. event \in BOOLEAN
    BY Zenon
  <2>2. /\ gazeResult' = [gaze |-> gaze', distracted |-> distracted',
                          event |-> event]
        /\ distracted' = (distracted \/ event)
        /\ Gaze!FollowGaze(ts, raw)
    BY <1>3 DEF Gaze!LookAway
  <2> HIDE DEF event
  <2>3. distracted' \in BOOLEAN
    BY <1>1, <2>1, <2>2
  <2> QED
    BY <2>1, <2>2, <2>3, GazeFollowed DEF GazeRest, Gaze!Result
<1>4. CASE Gaze!LookForward(ts, raw, head)
  <2> DEFINE since == Gaze!StartedBy(forwardClock, ts)
             over == distracted /\ Gaze!recovered(since, ts)
  <2>1. over \in BOOLEAN
    BY Zenon
  <2>2. /\ gazeResult' = [gaze |-> gaze', distracted |-> distracted',
                          event |-> FALSE]
        /\ distracted' = (distracted /\ ~over)
        /\ Gaze!FollowGaze(ts, raw)
    BY <1>4 DEF Gaze!LookForward
  <2> HIDE DEF over
  <2>3. distracted' \in BOOLEAN
    BY <1>1, <2>1, <2>2
  <2> QED
    BY <2>2, <2>3, GazeFollowed DEF GazeRest, Gaze!Result
<1> QED
  BY <1>2, <1>3, <1>4 DEF Gaze!HAccept, Gaze!Sample, Gaze!RejectSample

LEMMA GazeTyped == Spec => []Gaze!TypeOK
<1>1. Gaze!HInit => GazeRest
  BY GazeUnknown DEF Gaze!HInit, Gaze!Init, GazeRest, Instant
<1>2. GazeInv /\ GazeRest /\ [Gaze!HNext]_(Gaze!hvars) => GazeRest'
  <2>1. ASSUME GazeInv, GazeRest,
               Gaze!HReset \/ \E ts \in Timestamps : Gaze!HReject(ts)
        PROVE  GazeRest'
    BY <2>1, GazeUnknown
    DEF Gaze!HReset, Gaze!reset, Gaze!HReject, Gaze!RejectSample, GazeInv,
        GazeTypes, GazeRest, Instant
  <2>2. GazeRest /\ UNCHANGED Gaze!hvars => GazeRest'
    BY DEF Gaze!hvars, Gaze!owned, Gaze!fsm, GazeRest, Instant
  <2> QED
    BY <2>1, <2>2, GazeRestStays DEF Gaze!HNext
<1>3. GazeInv /\ GazeRest => Gaze!TypeOK
  BY InstantsAreOptional DEF GazeInv, GazeTypes, GazeRest, Gaze!TypeOK
<1> QED
  BY <1>1, <1>2, <1>3, GazeAlone, GazeIsInvariant, PTL DEF Gaze!HSpec

-----------------------------------------------------------------------------
\* The result of the last call: its count is that of the yawns kept.
DriverRest ==
  /\ drowsiness \in Driver!DrowsinessState /\ Instant(alertSince)
  /\ \E s \in Driver!DrowsinessState :
       drowsinessResult = [state |-> s, recentYawns |-> Len(yawns)]

LEMMA DriverUnknown == "Unknown" \in Driver!DrowsinessState
BY DEF Driver!DrowsinessState

LEMMA EvidenceIsState ==
  \A sight \in Driver!Sightings : \A recent :
    sight # None =>
      Driver!evidence(sight, recent) \in {"Normal", "Warning", "Drowsy"}
<1> SUFFICES ASSUME NEW sight \in Driver!Sightings, sight # None, NEW recent
             PROVE  Driver!evidence(sight, recent)
                      \in {"Normal", "Warning", "Drowsy"}
  OBVIOUS
<1>1. sight.eyes \in {"Normal", "Warning", "Drowsy"}
  BY DEF Driver!Sightings, Driver!Sighting, Driver!EyeEvidence
<1> QED
  BY <1>1 DEF Driver!evidence

LEMMA DriverRestStays ==
  ASSUME DriverRest, NEW ts \in Timestamps, NEW sight \in Driver!Sightings,
         Driver!HAccept(ts, sight)
  PROVE  DriverRest'
<1>1. Instant(ts) /\ Instant(None)
  BY TimestampsAssumption DEF Instant
<1>2. Driver!Report
  BY DEF Driver!HAccept, Driver!Sample, Driver!RejectSample,
         Driver!LoseSight, Driver!Follow, Driver!HoldAlert, Driver!Recover
<1>3. alertSince' \in {alertSince, ts, None}
  BY DEF Driver!HAccept, Driver!Sample, Driver!RejectSample,
         Driver!LoseSight, Driver!Follow, Driver!HoldAlert, Driver!Recover,
         Driver!StartedBy
<1>4. drowsiness' \in Driver!DrowsinessState
  <2>1. CASE Driver!Follow(ts, sight)
    BY <2>1, EvidenceIsState
    DEF Driver!Follow, Driver!SeeDriver, Driver!DrowsinessState
  <2> QED
    BY <2>1
    DEF Driver!HAccept, Driver!Sample, Driver!RejectSample,
        Driver!LoseSight, Driver!HoldAlert, Driver!Recover,
        Driver!DrowsinessState, DriverRest
<1> QED
  BY <1>1, <1>2, <1>3, <1>4 DEF Driver!Report, DriverRest

LEMMA DriverTyped == Spec => []Driver!TypeOK
<1>1. Driver!HInit => DriverRest
  BY DriverUnknown DEF Driver!HInit, Driver!Init, DriverRest, Instant
<1>2. DriverRest /\ [Driver!HNext]_(Driver!hvars) => DriverRest'
  <2>1. ASSUME DriverRest,
               Driver!HReset \/ \E ts \in Timestamps : Driver!HReject(ts)
        PROVE  DriverRest'
    BY <2>1, DriverUnknown
    DEF Driver!HReset, Driver!reset, Driver!HReject, Driver!RejectSample,
        DriverRest, Instant
  <2>2. DriverRest /\ UNCHANGED Driver!hvars => DriverRest'
    BY DEF Driver!hvars, Driver!owned, Driver!fsm, DriverRest
  <2> QED
    BY <2>1, <2>2, DriverRestStays DEF Driver!HNext
<1>3. DriverInv /\ DriverRest => Driver!TypeOK
  <2> SUFFICES ASSUME DriverInv, DriverRest
               PROVE  Driver!TypeOK
    OBVIOUS
  <2>1. yawns \in Seq(Int) /\ Len(yawns) \in Nat
    BY DEF DriverInv, DriverTypes
  <2>2. drowsinessResult \in
          [state : Driver!DrowsinessState, recentYawns : Nat]
    BY <2>1 DEF DriverRest
  <2> QED
    BY <2>1, <2>2, InstantsAreOptional
    DEF DriverInv, DriverTypes, DriverRest, Driver!TypeOK
<1> QED
  BY <1>1, <1>2, <1>3, DriverAlone, DriverIsInvariant, PTL DEF Driver!HSpec

(***************************************************************************)
(* Whatever samples a machine is given, in whatever order of time and with *)
(* resets anywhere between them, what it keeps and what it answers stay in *)
(* their types (src/DmsTemporalEvents.cpp, src/DmsQualityGate.cpp): no     *)
(* branch of an update leaves a clock, a zone or a count undefined.        *)
(***************************************************************************)
THEOREM MachinesTypeCorrect == Spec => []MachinesTypeOK
BY GateTyped, MouthTyped, HeadTyped, GazeTyped, SeatTyped, SightTyped,
   DriverTyped, PTL DEF MachinesTypeOK
=============================================================================
