-------------------------- MODULE EyeMetricsHistory --------------------------
(***************************************************************************)
(* EyeMetrics with history variables computed from the samples alone, and  *)
(* what the eye metrics promise about the events they report.              *)
(***************************************************************************)
EXTENDS EyeMetrics

VARIABLES
  visibleSince,    (* the first of the unbroken run of samples showing both
                      eyes, or None                                         *)
  closedSince,     (* the first of the run of closed samples without a gap
                      longer than MaximumSampleGap, or None                 *)
  lastCounted,     (* when the last blink or long blink was counted         *)
  lastProlonged,   (* the start of the closure last reported as prolonged   *)
  reopened         (* no closure has been reported as prolonged since the
                      last confirmed reopening                              *)

history == <<visibleSince, closedSince, lastCounted, lastProlonged, reopened>>

hvars == <<vars, history>>

Counted == result.blinkEvent \/ result.longBlinkEvent

ReopeningConfirmed ==
  closureStarted # None /\ closureStarted' = None /\ state' = "Open"

HInit ==
  /\ Init
  /\ visibleSince = None /\ closedSince = None
  /\ lastCounted = None /\ lastProlonged = None /\ reopened = TRUE

ForgetHistory ==
  /\ visibleSince' = None /\ closedSince' = None
  /\ lastCounted' = None /\ lastProlonged' = None /\ reopened' = TRUE

HReset == reset /\ ForgetHistory

HSetCalibration(c) == setCalibration(c) /\ ForgetHistory

HReject(ts) == RejectSample(ts) /\ UNCHANGED history

HAccept(ts, openness) ==
  /\ ~NotAfter(lastTimestamp, ts)
  /\ Sample(ts, openness)
  /\ visibleSince' =
       IF openness = None THEN None ELSE StartedBy(visibleSince, ts)
  /\ closedSince' =
       IF openness = None \/ openness > CloseOpenness THEN None
       ELSE IF closedSince # None /\ ts - lastTimestamp <= MaximumSampleGap
         THEN closedSince
         ELSE ts
  /\ lastCounted' = IF ~Counted' THEN lastCounted ELSE ts
  /\ lastProlonged' = IF result'.prolongedClosure THEN closureStarted'
                                                  ELSE lastProlonged
  /\ reopened' = /\ ~result'.prolongedClosure
                 /\ reopened \/ ReopeningConfirmed

HNext ==
  \/ HReset
  \/ \E c \in Calibrations : HSetCalibration(c)
  \/ \E ts \in Timestamps : HReject(ts)
  \/ \E ts \in Timestamps, openness \in OpennessInputs : HAccept(ts, openness)

HSpec == HInit /\ [][HNext]_hvars

-----------------------------------------------------------------------------
(***************************************************************************)
(* A reopening is never being confirmed without the closure it ends, so    *)
(* update never reads the empty optional closureStarted_ when it computes  *)
(* the length of the closure (src/DmsEyeMetrics.cpp, line 226).            *)
(***************************************************************************)
NoEmptyDereference == reopeningStarted # None => closureStarted # None

(***************************************************************************)
(* A blink or long blink is counted only if both eyes were seen in every   *)
(* sample from the start of its closure to the end of its reopening:       *)
(* unknown, missing or occluded samples neither create nor complete one.   *)
(***************************************************************************)
CountedOnlyIfSeenThroughout ==
  [][Counted' => /\ visibleSince # None /\ closureStarted # None
                 /\ closureStarted >= visibleSince
                 /\ visibleSince' = visibleSince]_hvars

(***************************************************************************)
(* Two counted closures are apart by the refractory time and a whole       *)
(* closure and reopening: landmark jitter never splits a blink in two.     *)
(***************************************************************************)
CountedClosuresSpaced ==
  [][Counted' /\ lastCounted # None =>
       lastTimestamp' - lastCounted >=
         BlinkRefractory + MinimumBlinkClosure + ReopenConfirmation]_hvars

(***************************************************************************)
(* A closure once reported as prolonged is never counted as a blink or     *)
(* long blink when it ends: one closure is one kind of evidence.           *)
(***************************************************************************)
ProlongedIsNotCountedAgain ==
  [][Counted' => lastProlonged # closureStarted]_hvars

(***************************************************************************)
(* A closure gives rise to at most one prolonged-closure event.            *)
(***************************************************************************)
ProlongedEventOnce ==
  [][result'.prolongedClosureEvent => lastProlonged # closureStarted']_hvars

-----------------------------------------------------------------------------
(* What the approved policy says and the code does not do. *)

(***************************************************************************)
(* "Prolonged closure | Continuous visible closure >=1500 ms": eyes seen   *)
(* closed without interruption for that long are reported as such.         *)
(***************************************************************************)
ContinuousClosureIsReported ==
  [][/\ lastTimestamp' # lastTimestamp
     /\ Elapsed(closedSince', lastTimestamp', ProlongedClosure)
     => result'.prolongedClosure]_hvars

(***************************************************************************)
(* "Prolonged closure | Yes | Yes | Event and duration": a closure that     *)
(* becomes prolonged after the eyes were confirmed open is an event of its *)
(* own and is counted, the second one of a drive as well as the first.     *)
(***************************************************************************)
EveryProlongedClosureIsCounted ==
  [][/\ reopened /\ result'.prolongedClosure
     /\ Elapsed(closedSince', lastTimestamp', ProlongedClosure)
     => result'.prolongedClosureEvent]_hvars
=============================================================================
