------------------------------ MODULE EyeMetrics ------------------------------
(***************************************************************************)
(* EyeTemporalMetrics (src/DmsEyeMetrics.cpp): from the openness of the    *)
(* two eyes, sample by sample, the hysteresis state Open / Closed /        *)
(* Unknown, blinks and long blinks, prolonged closures and PERCLOS.        *)
(*                                                                         *)
(* Openness is the integer percentage normalize() computes from an eye     *)
(* aspect ratio and the calibration; times are integers.                   *)
(***************************************************************************)
EXTENDS EyeMetricsConfig, RollingWindow

EyeState == {"Unknown", "Open", "Closed"}

VARIABLES
  calibration,
  lastTimestamp,            (* hasTimestamp_ and lastTimestamp_             *)
  state,
  closureStarted, reopeningStarted, refractoryUntil,
  prolongedClosureEmitted,
  blinkCount, longBlinkCount, prolongedClosureCount,
  intervals,
  result                    (* the part of EyeMetricResult others read      *)

fsm == <<state, closureStarted, reopeningStarted, refractoryUntil,
         prolongedClosureEmitted, blinkCount, longBlinkCount,
         prolongedClosureCount>>

vars == <<calibration, lastTimestamp, fsm, intervals, result>>

-----------------------------------------------------------------------------
(* PERCLOS: the closed share of the known time, as the pair of the two     *)
(* times, and only when the known time covers enough of the window.        *)

Perclos(known, closed) ==
  IF known > 0 /\ 100 * known >= MinimumPerclosCoverage * PerclosWindow
  THEN [closed |-> closed, known |-> known]
  ELSE None

updatePerclos(history) ==
  Perclos(TimeIn(history, {"Open", "Closed"}), TimeIn(history, {"Closed"}))

\* EyeMetricResult{}, and what update returns for a rejected time stamp.
NoResult ==
  [state |-> "Unknown", perclos |-> None, blinkEvent |-> FALSE,
   longBlinkEvent |-> FALSE, prolongedClosure |-> FALSE,
   prolongedClosureEvent |-> FALSE, closureDuration |-> 0]

-----------------------------------------------------------------------------
(* From eye aspect ratios to openness and from openness to a state.        *)

Clamp(x, low, high) == IF x < low THEN low ELSE IF x > high THEN high ELSE x

normalize(ear, c) ==
  IF ear = None \/ ~validCalibration(c) THEN None
  ELSE Clamp((100 * (ear - c.closedEar)) \div (c.openEar - c.closedEar), 0, 100)

\* The less open eye counts, and only when both are seen.
Openness(usability, rightEar, leftEar) ==
  LET right == normalize(rightEar, calibration)
      left == normalize(leftEar, calibration)
  IN  IF usability # "Usable" \/ right = None \/ left = None THEN None
      ELSE IF right < left THEN right ELSE left

\* Between the thresholds the state stays what it is.
NextState(openness) ==
  IF openness = None THEN "Unknown"
  ELSE IF openness <= CloseOpenness THEN "Closed"
  ELSE IF openness >= ReopenOpenness THEN "Open"
  ELSE state

-----------------------------------------------------------------------------
TypeOK ==
  /\ calibration \in EyeCalibration
  /\ lastTimestamp \in Optional(Int)
  /\ state \in EyeState
  /\ closureStarted \in Optional(Int)
  /\ reopeningStarted \in Optional(Int)
  /\ refractoryUntil \in Optional(Int)
  /\ prolongedClosureEmitted \in BOOLEAN
  /\ blinkCount \in Nat /\ longBlinkCount \in Nat
  /\ prolongedClosureCount \in Nat
  /\ intervals \in Seq([start : Int, end : Int, state : EyeState])
  /\ result.state \in EyeState /\ result.closureDuration \in Nat

Init ==
  /\ calibration \in {c \in Calibrations : validCalibration(c)}
  /\ lastTimestamp = None
  /\ state = "Unknown"
  /\ closureStarted = None /\ reopeningStarted = None /\ refractoryUntil = None
  /\ prolongedClosureEmitted = FALSE
  /\ blinkCount = 0 /\ longBlinkCount = 0 /\ prolongedClosureCount = 0
  /\ intervals = <<>>
  /\ result = NoResult

-----------------------------------------------------------------------------
(* reset and setCalibration. *)

ClearState ==
  /\ lastTimestamp' = None
  /\ state' = "Unknown"
  /\ closureStarted' = None /\ reopeningStarted' = None
  /\ refractoryUntil' = None
  /\ prolongedClosureEmitted' = FALSE
  /\ blinkCount' = 0 /\ longBlinkCount' = 0 /\ prolongedClosureCount' = 0
  /\ intervals' = <<>>
  /\ result' = NoResult

reset == ClearState /\ UNCHANGED calibration

setCalibration(c) ==
  /\ validCalibration(c)
  /\ calibration' = c
  /\ ClearState

-----------------------------------------------------------------------------
(* update: what every accepted sample does, then one action per state the  *)
(* sample leads to. *)

AcceptSample(ts) ==
  /\ ~NotAfter(lastTimestamp, ts)
  /\ lastTimestamp' = ts
  /\ intervals' =
       IF lastTimestamp = None THEN intervals
       ELSE trimIntervals(appendInterval(intervals, lastTimestamp, ts, state,
                                         MaximumSampleGap),
                          ts, PerclosWindow)
  /\ UNCHANGED calibration

Report(blink, longBlink, prolonged, event, duration) ==
  result' = [state |-> state', perclos |-> updatePerclos(intervals'),
             blinkEvent |-> blink, longBlinkEvent |-> longBlink,
             prolongedClosure |-> prolonged,
             prolongedClosureEvent |-> event, closureDuration |-> duration]

ReportNoEvent == Report(FALSE, FALSE, FALSE, FALSE, 0)

RejectSample(ts) ==
  /\ NotAfter(lastTimestamp, ts)
  /\ result' = NoResult
  /\ UNCHANGED <<calibration, lastTimestamp, fsm, intervals>>

\* Seeded fault: losing sight of the eyes forgets the closure but not the
\* reopening that was being confirmed.
LoseSightWhileReopening(ts, openness) ==
  /\ AcceptSample(ts)
  /\ NextState(openness) = "Unknown"
  /\ state' = "Unknown"
  /\ closureStarted' = None
  /\ prolongedClosureEmitted' = FALSE
  /\ ReportNoEvent
  /\ UNCHANGED <<reopeningStarted, refractoryUntil, blinkCount, longBlinkCount,
                 prolongedClosureCount>>

\* Seeded fault: losing sight of the eyes leaves the closure running.
LoseSightInClosure(ts, openness) ==
  /\ AcceptSample(ts)
  /\ NextState(openness) = "Unknown"
  /\ state' = "Unknown"
  /\ prolongedClosureEmitted' = FALSE
  /\ ReportNoEvent
  /\ UNCHANGED <<closureStarted, reopeningStarted, refractoryUntil, blinkCount,
                 longBlinkCount, prolongedClosureCount>>

LoseSight(ts, openness) ==
  /\ AcceptSample(ts)
  /\ NextState(openness) = "Unknown"
  /\ state' = "Unknown"
  /\ closureStarted' = None
  /\ reopeningStarted' = None
  /\ prolongedClosureEmitted' = FALSE
  /\ ReportNoEvent
  /\ UNCHANGED <<refractoryUntil, blinkCount, longBlinkCount,
                 prolongedClosureCount>>

OutsideRefractory(ts) == refractoryUntil = None \/ ts >= refractoryUntil

\* Seeded fault: a closure may start inside the refractory time.
closureOfIgnoringRefractory(ts) ==
  IF state = "Closed" THEN closureStarted ELSE ts

\* The closure a closed sample belongs to; one that begins inside the
\* refractory time after a blink is not followed.
closureOf(ts) ==
  IF state = "Closed" THEN closureStarted
  ELSE IF OutsideRefractory(ts) THEN ts
  ELSE None

\* Seeded fault: every sample of a prolonged closure is an event.
newlyProlongedEverySample(closure, ts) == Elapsed(closure, ts, ProlongedClosure)

newlyProlonged(closure, ts) ==
  Elapsed(closure, ts, ProlongedClosure) /\ ~prolongedClosureEmitted

\* Seeded fault: the difference is taken the wrong way round.
durationOfReversed(closure, ts) == IF closure = None THEN 0 ELSE closure - ts

durationOf(closure, ts) == IF closure = None THEN 0 ELSE ts - closure

CloseEyes(ts, openness) ==
  LET closure == closureOf(ts)
      event == newlyProlonged(closure, ts)
  IN  /\ AcceptSample(ts)
      /\ NextState(openness) = "Closed"
      /\ state' = "Closed"
      /\ closureStarted' = closure
      /\ reopeningStarted' = None
      /\ prolongedClosureEmitted' = (prolongedClosureEmitted \/ event)
      /\ prolongedClosureCount' = prolongedClosureCount + IF event THEN 1 ELSE 0
      /\ Report(FALSE, FALSE, Elapsed(closure, ts, ProlongedClosure), event,
                durationOf(closure, ts))
      /\ UNCHANGED <<refractoryUntil, blinkCount, longBlinkCount>>

reopeningOf(ts) ==
  IF state # "Closed" \/ closureStarted = None THEN reopeningStarted ELSE ts

\* The eyes are open and no closure has been reopened for long enough yet.
OpenEyes(ts, openness) ==
  /\ AcceptSample(ts)
  /\ NextState(openness) = "Open"
  /\ ~Elapsed(reopeningOf(ts), ts, ReopenConfirmation)
  /\ state' = "Open"
  /\ reopeningStarted' = reopeningOf(ts)
  /\ ReportNoEvent
  /\ UNCHANGED <<closureStarted, refractoryUntil, prolongedClosureEmitted,
                 blinkCount, longBlinkCount, prolongedClosureCount>>

isBlink(closure, ts) ==
  /\ OutsideRefractory(ts)
  /\ MinimumBlinkClosure <= closure /\ closure <= MaximumBlinkClosure

\* Seeded fault: no upper bound on a long blink.
isLongBlinkUnbounded(closure, ts) ==
  OutsideRefractory(ts) /\ MaximumBlinkClosure < closure

isLongBlink(closure, ts) ==
  /\ OutsideRefractory(ts)
  /\ MaximumBlinkClosure < closure /\ closure < MaximumLongBlinkClosure

\* The reopening is confirmed: the closure ends, counted or not.
ConfirmReopening(ts, openness) ==
  LET closure == reopeningOf(ts) - closureStarted
      blink == isBlink(closure, ts)
      longBlink == ~blink /\ isLongBlink(closure, ts)
  IN  /\ AcceptSample(ts)
      /\ NextState(openness) = "Open"
      /\ Elapsed(reopeningOf(ts), ts, ReopenConfirmation)
      /\ state' = "Open"
      /\ closureStarted' = None
      /\ reopeningStarted' = None
      /\ blinkCount' = blinkCount + IF blink THEN 1 ELSE 0
      /\ longBlinkCount' = longBlinkCount + IF longBlink THEN 1 ELSE 0
      /\ refractoryUntil' = IF ~blink /\ ~longBlink THEN refractoryUntil
                                                    ELSE ts + BlinkRefractory
      /\ Report(blink, longBlink, FALSE, FALSE, 0)
      /\ UNCHANGED <<prolongedClosureEmitted, prolongedClosureCount>>

Sample(ts, openness) ==
  \/ RejectSample(ts)
  \/ LoseSight(ts, openness)
  \/ CloseEyes(ts, openness)
  \/ OpenEyes(ts, openness)
  \/ ConfirmReopening(ts, openness)

update(ts, usability, rightEar, leftEar) ==
  Sample(ts, Openness(usability, rightEar, leftEar))

-----------------------------------------------------------------------------
\* Every openness the inputs can amount to under the present calibration.
OpennessInputs ==
  {Openness(usability, right, left) :
     usability \in UsabilityInputs,
     right \in Optional(EarInputs), left \in Optional(EarInputs)}

Next ==
  \/ reset
  \/ \E c \in Calibrations : setCalibration(c)
  \/ \E ts \in Timestamps, openness \in OpennessInputs : Sample(ts, openness)

Spec == Init /\ [][Next]_vars
=============================================================================
