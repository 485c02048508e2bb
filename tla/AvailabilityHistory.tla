------------------------- MODULE AvailabilityHistory -------------------------
(***************************************************************************)
(* MonitoringAvailabilityFsm with history variables computed from the      *)
(* samples alone, and what it promises about its episodes.                 *)
(***************************************************************************)
EXTENDS Availability

VARIABLES
  lostSince,       (* the first of the unbroken run of unusable samples,
                      or None                                               *)
  longEpisodes     (* how many runs have lasted for RecordAfter             *)

history == <<lostSince, longEpisodes>>

owned == <<fsm, history>>

hvars == <<lastTimestamp, owned>>

HInit == Init /\ lostSince = None /\ longEpisodes = 0

HReset == reset /\ lostSince' = None /\ longEpisodes' = 0

HReject(ts) == RejectSample(ts) /\ UNCHANGED history

Lost(usability) == usability \notin {"Usable", "Recovering"}

HAccept(ts, usability) ==
  /\ ~NotAfter(lastTimestamp, ts)
  /\ update(ts, usability)
  /\ lostSince' = IF Lost(usability) THEN StartedBy(lostSince, ts) ELSE None
  /\ longEpisodes' =
       IF /\ Elapsed(lostSince', ts, RecordAfter)
          /\ ~Elapsed(lostSince, lastTimestamp, RecordAfter)
       THEN longEpisodes + 1 ELSE longEpisodes

HNext ==
  \/ HReset
  \/ \E ts \in Timestamps : HReject(ts)
  \/ \E ts \in Timestamps, usability \in ObservationUsability :
       HAccept(ts, usability)

HSpec == HInit /\ [][HNext]_hvars

(***************************************************************************)
(* An episode is recorded and notified exactly when it has lasted for its  *)
(* two delays, measured from its first sample; notification never comes    *)
(* without a record.                                                       *)
(***************************************************************************)
EpisodesAreTimed ==
  /\ recorded <=> Elapsed(lostSince, lastTimestamp, RecordAfter)
  /\ notified <=> Elapsed(lostSince, lastTimestamp, NotifyAfter)
  /\ result.unavailable =>
       /\ lostSince # None
       /\ result.duration = lastTimestamp - lostSince

(***************************************************************************)
(* Each episode that lasts for RecordAfter is counted once, also when the  *)
(* quality only recovers briefly in between.                               *)
(***************************************************************************)
EpisodesCountedOnce == count = longEpisodes
=============================================================================
