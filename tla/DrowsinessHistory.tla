-------------------------- MODULE DrowsinessHistory --------------------------
(***************************************************************************)
(* DrowsinessFsm with history variables computed from the samples alone,   *)
(* and what it promises about its evidence and its alerts.                 *)
(***************************************************************************)
EXTENDS Drowsiness

VARIABLES
  yawnedAt,        (* the instants of all the yawns seen since the reset    *)
  normalSince,     (* the first of the unbroken run of samples that show
                      the driver and no evidence of drowsiness              *)
  uncleared        (* an alert was raised and no such run of the length of
                      DrowsinessRecovery was seen since                       *)

owned == <<fsm, yawnedAt, normalSince, uncleared>>

hvars == <<lastTimestamp, owned>>

\* The yawns that still count at ts.
RecentAt(ts, times) == {t \in times : t >= ts - YawnEvidenceWindow}

HInit == Init /\ yawnedAt = {} /\ normalSince = None /\ uncleared = FALSE

HReset ==
  reset /\ yawnedAt' = {} /\ normalSince' = None /\ uncleared' = FALSE

HReject(ts) ==
  RejectSample(ts) /\ UNCHANGED <<yawnedAt, normalSince, uncleared>>

HAccept(ts, sight) ==
  /\ ~NotAfter(lastTimestamp, ts)
  /\ Sample(ts, sight)
  /\ yawnedAt' = IF sight # None /\ sight.yawn THEN yawnedAt \cup {ts}
                                               ELSE yawnedAt
  /\ normalSince' =
       IF /\ sight # None /\ sight.eyes = "Normal"
          /\ Cardinality(RecentAt(ts, yawnedAt')) < YawnsForWarning
       THEN StartedBy(normalSince, ts) ELSE None
  /\ uncleared' = \/ state' \in Alert
                  \/ uncleared /\ ~Elapsed(normalSince', ts, DrowsinessRecovery)

HNext ==
  \/ HReset
  \/ \E ts \in Timestamps : HReject(ts)
  \/ \E ts \in Timestamps, sight \in Sightings : HAccept(ts, sight)

HSpec == HInit /\ [][HNext]_hvars

(***************************************************************************)
(* The yawns reported as recent are exactly those seen within the evidence *)
(* window, whether the driver was in sight or not while they aged.         *)
(***************************************************************************)
YawnEvidenceIsExact ==
  lastTimestamp # None =>
    result.recentYawns = Cardinality(RecentAt(lastTimestamp, yawnedAt))

(***************************************************************************)
(* An alert turns to Normal from one sample to the next only at the end of *)
(* an unbroken run of normal evidence as long as DrowsinessRecovery          *)
(* (docs/DMS_CORE.md: "debounces recovery from warning/drowsy states").    *)
(***************************************************************************)
RecoveryIsDebounced ==
  [][(state \in Alert /\ lastTimestamp' # None /\ state' = "Normal") =>
       Elapsed(normalSince', lastTimestamp', DrowsinessRecovery)]_hvars

-----------------------------------------------------------------------------
(* What the approved policy says and the code does not do. *)

(***************************************************************************)
(* "Alert recovery | Retain warning at least 5 s; clear only after 10 s    *)
(* valid normal evidence": as long as that evidence has not been seen, the *)
(* driver is not reported Normal again.                                    *)
(***************************************************************************)
ClearedOnlyByNormalEvidence ==
  [][lastTimestamp' # lastTimestamp /\ uncleared' =>
       result'.state # "Normal"]_hvars
=============================================================================
