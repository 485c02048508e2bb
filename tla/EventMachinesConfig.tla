-------------------------- MODULE EventMachinesConfig --------------------------
(* The configurations of the observation quality gate and of the six        *)
(* machines of include/DmsTemporalEvents.hpp.                               *)
EXTENDS Observation

-----------------------------------------------------------------------------
(* ObservationQualityGateConfig (include/DmsObservation.hpp).              *)
CONSTANTS
  Headers,                   (* the headers a provider may deliver          *)
  policy,                    (* config_.policy                              *)
  ReacquisitionConfirmation  (* config_.reacquisitionConfirmation           *)

\* ObservationQualityGateConfig::validate.
ValidGateConfig ==
  /\ policy \in ObservationPolicy
  /\ policy.maximumAge >= 0
  /\ ReacquisitionConfirmation \in Nat

ASSUME GateConfigAssumption ==
  /\ Headers \subseteq ObservationHeader
  /\ ValidGateConfig

-----------------------------------------------------------------------------
(* YawnConfig, as percentages of openness.                                 *)
CONSTANTS
  MouthInputs,      (* the openness values a provider may deliver           *)
  YawnOpenThreshold, YawnCloseThreshold, YawnMinimumDuration, YawnConfirmation

\* YawnConfig::validate.
ValidYawnConfig ==
  /\ YawnOpenThreshold \in 0 .. 100 /\ YawnCloseThreshold \in 0 .. 100
  /\ YawnCloseThreshold < YawnOpenThreshold
  /\ YawnMinimumDuration \in Int /\ 0 < YawnMinimumDuration
  /\ YawnConfirmation \in Int /\ 0 < YawnConfirmation

ASSUME YawnConfigAssumption ==
  /\ MouthInputs \subseteq Int
  /\ ValidYawnConfig

-----------------------------------------------------------------------------
(* HeadPoseConfig, in degrees.                                             *)
CONSTANTS
  YawInputs, PitchInputs,   (* the angles the estimator may deliver         *)
  YawEnter, YawExit, PitchEnter, PitchExit, HeadConfirmation

\* HeadPoseConfig::validate.
ValidHeadPoseConfig ==
  /\ YawExit \in Nat /\ YawEnter \in Int /\ YawExit < YawEnter
  /\ PitchExit \in Nat /\ PitchEnter \in Int /\ PitchExit < PitchEnter
  /\ HeadConfirmation \in Int /\ 0 < HeadConfirmation

ASSUME HeadPoseConfigAssumption ==
  /\ YawInputs \subseteq Int /\ PitchInputs \subseteq Int
  /\ ValidHeadPoseConfig

-----------------------------------------------------------------------------
(* DistractionConfig, as percentages.                                      *)
CONSTANTS
  HorizontalInputs, VerticalInputs,   (* the gazes a provider may deliver   *)
  HorizontalEnter, HorizontalExit, VerticalEnter, VerticalExit,
  GazeConfirmation, DistractionDuration, DistractionRecovery

\* DistractionConfig::validate.
ValidDistractionConfig ==
  /\ HorizontalEnter \in 0 .. 100 /\ HorizontalExit \in 0 .. 100
  /\ HorizontalExit < HorizontalEnter
  /\ VerticalEnter \in 0 .. 100 /\ VerticalExit \in 0 .. 100
  /\ VerticalExit < VerticalEnter
  /\ GazeConfirmation \in Int /\ 0 < GazeConfirmation
  /\ DistractionDuration \in Int /\ 0 < DistractionDuration
  /\ DistractionRecovery \in Int /\ 0 < DistractionRecovery

ASSUME DistractionConfigAssumption ==
  /\ HorizontalInputs \subseteq Int /\ VerticalInputs \subseteq Int
  /\ ValidDistractionConfig

-----------------------------------------------------------------------------
(* PresenceConfig.                                                         *)
CONSTANTS PresentConfirmation, AbsentConfirmation

\* PresenceConfig::validate.
ValidPresenceConfig ==
  /\ PresentConfirmation \in Int /\ 0 < PresentConfirmation
  /\ AbsentConfirmation \in Int /\ 0 < AbsentConfirmation

ASSUME PresenceConfigAssumption == ValidPresenceConfig

-----------------------------------------------------------------------------
(* MonitoringAvailabilityConfig.                                           *)
CONSTANTS RecordAfter, NotifyAfter

\* MonitoringAvailabilityConfig::validate.
ValidAvailabilityConfig ==
  /\ RecordAfter \in Nat
  /\ NotifyAfter \in Int /\ RecordAfter <= NotifyAfter

ASSUME AvailabilityConfigAssumption == ValidAvailabilityConfig

\* An episode is never started at time zero, which the code could not tell from
\* no episode: in the frame loop the first observation is Recovering, since the
\* eyes are not calibrated yet, and every later time stamp is positive.
ASSUME NoZeroTimestamp == 0 \notin Timestamps

-----------------------------------------------------------------------------
(* DrowsinessConfig; PERCLOS as a percentage.                              *)
CONSTANTS
  PerclosInputs,       (* the PERCLOS values it may be given, besides none  *)
  PerclosWarning, PerclosDrowsy,
  YawnEvidenceWindow, YawnsForWarning, MinimumAlertHold, DrowsinessRecovery

\* DrowsinessConfig::validate.
ValidDrowsinessConfig ==
  /\ PerclosWarning \in 0 .. 100 /\ PerclosDrowsy \in 0 .. 100
  /\ PerclosWarning < PerclosDrowsy
  /\ YawnEvidenceWindow \in Int /\ 0 < YawnEvidenceWindow
  /\ YawnsForWarning \in Int /\ 0 < YawnsForWarning
  /\ MinimumAlertHold \in Int /\ 0 <= MinimumAlertHold
  /\ DrowsinessRecovery \in Int /\ 0 < DrowsinessRecovery

ASSUME DrowsinessConfigAssumption ==
  /\ PerclosInputs \subseteq Int
  /\ ValidDrowsinessConfig
=============================================================================
