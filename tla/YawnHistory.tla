----------------------------- MODULE YawnHistory -----------------------------
(***************************************************************************)
(* YawnFsm with history variables computed from the samples alone, and     *)
(* what it promises about the yawns it counts.                             *)
(***************************************************************************)
EXTENDS Yawn

VARIABLES
  visibleSince,    (* the first of the unbroken run of samples showing the
                      mouth, or None                                        *)
  shutSince,       (* the first of the unbroken run of samples at or below
                      the close threshold, or None                          *)
  lastYawn         (* when the last yawn was counted, or None               *)

history == <<visibleSince, shutSince, lastYawn>>

owned == <<fsm, history>>

hvars == <<lastTimestamp, owned>>

HInit == Init /\ visibleSince = None /\ shutSince = None /\ lastYawn = None

HReset ==
  /\ reset
  /\ visibleSince' = None /\ shutSince' = None /\ lastYawn' = None

HReject(ts) == RejectSample(ts) /\ UNCHANGED history

HAccept(ts, mouth) ==
  /\ ~NotAfter(lastTimestamp, ts)
  /\ Sample(ts, mouth)
  /\ visibleSince' = IF mouth = None THEN None ELSE StartedBy(visibleSince, ts)
  /\ shutSince' = IF mouth # None /\ mouth <= YawnCloseThreshold
                  THEN StartedBy(shutSince, ts) ELSE None
  /\ lastYawn' = IF ~result'.event THEN lastYawn ELSE ts

HNext ==
  \/ HReset
  \/ \E ts \in Timestamps : HReject(ts)
  \/ \E ts \in Timestamps, mouth \in MouthSamples : HAccept(ts, mouth)

HSpec == HInit /\ [][HNext]_hvars

(***************************************************************************)
(* A yawn is counted only at the end of a closing that lasted for the      *)
(* confirmation and that followed at least the minimum duration of a mouth *)
(* seen in every sample: an occlusion neither begins nor completes a yawn  *)
(* (docs/DMS_CORE.md, Temporal event contract).                            *)
(***************************************************************************)
YawnSeenFromOpeningToClosing ==
  [][result'.event =>
       /\ Elapsed(shutSince', lastTimestamp', YawnConfirmation)
       /\ Elapsed(visibleSince', shutSince', YawnMinimumDuration)]_hvars

(***************************************************************************)
(* One movement of the mouth is counted once: two yawns are further apart  *)
(* than a whole minimum duration and closing.                              *)
(***************************************************************************)
YawnsSpaced ==
  [][result'.event /\ lastYawn # None =>
       lastTimestamp' - lastYawn > YawnMinimumDuration + YawnConfirmation]_hvars
=============================================================================
