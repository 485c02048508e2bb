-------------------------- MODULE DistractionHistory --------------------------
(***************************************************************************)
(* DistractionFsm with history variables computed from the samples and the *)
(* confirmed zones, and what it promises about distraction.                *)
(***************************************************************************)
EXTENDS Distraction

VARIABLES
  visibleSince,    (* the first of the unbroken run of samples with a gaze,
                      or None                                               *)
  forwardSince,    (* the first of the run of samples with the gaze confirmed
                      forward and the head not turned, or None              *)
  confirmedAway,   (* the first of the run of samples with the gaze confirmed
                      away, or with a gaze and the head turned, or None     *)
  lastEvent        (* when the last distraction event was raised, or None   *)

history == <<visibleSince, forwardSince, confirmedAway, lastEvent>>

owned == <<fsm, history>>

hvars == <<lastTimestamp, owned>>

HInit ==
  /\ Init
  /\ visibleSince = None /\ forwardSince = None
  /\ confirmedAway = None /\ lastEvent = None

HReset ==
  /\ reset
  /\ visibleSince' = None /\ forwardSince' = None
  /\ confirmedAway' = None /\ lastEvent' = None

HReject(ts) == RejectSample(ts) /\ UNCHANGED history

RunOf(since, holds, ts) == IF holds THEN StartedBy(since, ts) ELSE None

HAccept(ts, raw, head) ==
  /\ ~NotAfter(lastTimestamp, ts)
  /\ Sample(ts, raw, head)
  /\ visibleSince' = RunOf(visibleSince, raw # "Unknown", ts)
  /\ forwardSince' =
       RunOf(forwardSince, gaze' = "Forward" /\ head \notin Direction, ts)
  /\ confirmedAway' =
       RunOf(confirmedAway,
             raw # "Unknown" /\ (gaze' \in Direction \/ head \in Direction), ts)
  /\ lastEvent' = IF ~result'.event THEN lastEvent ELSE ts

HNext ==
  \/ HReset
  \/ \E ts \in Timestamps : HReject(ts)
  \/ \E ts \in Timestamps, raw \in GazeSamples, head \in HeadZone :
       HAccept(ts, raw, head)

HSpec == HInit /\ [][HNext]_hvars

(***************************************************************************)
(* A distraction event closes a whole distraction duration in which the    *)
(* gaze was available in every sample: time the eyes were hidden or closed *)
(* is never evidence of looking away.                                      *)
(***************************************************************************)
EventNeedsVisibleGaze ==
  [][result'.event =>
       Elapsed(visibleSince', lastTimestamp', DistractionDuration)]_hvars

(***************************************************************************)
(* A distraction ends only after the driver was confirmed looking forward  *)
(* for the whole recovery duration, without an occlusion in between.       *)
(***************************************************************************)
EndsOnlyByForwardEvidence ==
  [][distracted /\ ~distracted' /\ lastTimestamp' # None =>
       Elapsed(forwardSince', lastTimestamp', DistractionRecovery)]_hvars

(***************************************************************************)
(* One distraction is one event: the next event is further away than a     *)
(* recovery and a whole new distraction, however often the gaze is lost in *)
(* between.                                                                *)
(***************************************************************************)
EventsSpaced ==
  [][result'.event /\ lastEvent # None =>
       lastTimestamp' - lastEvent >
         DistractionRecovery + DistractionDuration]_hvars

(***************************************************************************)
(* "Distraction | Continuous confirmed away evidence for 2 s": when the     *)
(* event is raised the gaze is at least confirmed away, or the head is     *)
(* turned.                                                                 *)
(***************************************************************************)
EventNeedsConfirmedAway == [][result'.event => confirmedAway' # None]_hvars
=============================================================================
