----------------------------- MODULE Observation -----------------------------
(***************************************************************************)
(* The values every component of the driver-monitoring core exchanges:     *)
(* what an observation says about its own quality, and the classification  *)
(* a consumer makes of it at its own monotonic time                        *)
(* (include/DmsObservation.hpp, src/DmsObservation.cpp).                   *)
(*                                                                         *)
(* A MonotonicTime is an integer.  A confidence or visibility is an        *)
(* integer on the scale of the policy's thresholds, or None when the       *)
(* float is not finite.                                                    *)
(***************************************************************************)
EXTENDS Integers

CONSTANTS
  None,        (* an empty std::optional, or a float that is not finite     *)
  Timestamps   (* the instants at which a component may be called           *)

ASSUME NoneAssumption == None \notin Int

ASSUME TimestampsAssumption == Timestamps \subseteq Int

Optional(S) == {None} \cup S

ObservationUsability ==
  {"Usable", "Recovering", "Missing", "LowConfidence", "Occluded", "Stale",
   "FutureTimestamp"}

SourceValidity == {"Missing", "Valid", "Occluded"}

ObservationHeader ==
  [validity : SourceValidity, capturedAt : Int,
   confidence : Optional(Int), visibility : Optional(Int)]

ObservationPolicy ==
  [minimumConfidence : Int, minimumVisibility : Int, maximumAge : Int]

(***************************************************************************)
(* A time stamp is rejected by every temporal component when it does not   *)
(* lie after the last one it accepted.                                     *)
(***************************************************************************)
NotAfter(last, ts) == last # None /\ ts <= last

\* At least d has passed since the optional instant `since`.
Elapsed(since, ts, d) == since # None /\ ts - since >= d

\* The first instant of a run of samples that `ts` starts or continues.
StartedBy(since, ts) == IF since # None THEN since ELSE ts

Acceptable(score, minimum) == score # None /\ score >= minimum

classifyObservation(header, now, policy) ==
  IF header.validity \in {"Missing", "Occluded"} THEN header.validity
  ELSE IF now < header.capturedAt THEN "FutureTimestamp"
  ELSE IF now - header.capturedAt > policy.maximumAge THEN "Stale"
  ELSE IF /\ Acceptable(header.confidence, policy.minimumConfidence)
          /\ Acceptable(header.visibility, policy.minimumVisibility)
    THEN "Usable"
    ELSE "LowConfidence"
=============================================================================
