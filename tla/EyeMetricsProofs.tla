--------------------------- MODULE EyeMetricsProofs ---------------------------
(***************************************************************************)
(* What EyeTemporalMetrics promises about its events holds for every       *)
(* configuration validate() accepts, every calibration and every sequence  *)
(* of samples.  The inductive invariant orders the instants the machine    *)
(* keeps: sight of the eyes, the start of the closure, the start of the    *)
(* reopening, the last sample and the last counted closure.                *)
(***************************************************************************)
EXTENDS EyeMetricsHistory, EyePerclos, RollingWindowProofs

\* An instant that may be absent, as the two cases the proofs distinguish.
Instant(x) == x = None \/ x \in Int

USE NoneAssumption DEF Instant

-----------------------------------------------------------------------------
(* The rolling window. *)

\* Popping the intervals that ended leaves a sequence of intervals.
LEMMA PopType ==
  ASSUME NEW s \in Seq(IntervalType), NEW start \in Int
  PROVE  PopEndedBy(s, start) \in Seq(IntervalType)
<1> DEFINE ended == {i \in DOMAIN s : s[i].end <= start}
<1>1. DOMAIN s = 1 .. Len(s) /\ Len(s) \in Nat
  BY LenProperties
<1>2. IsFiniteSet(ended)
  <2>1. IsFiniteSet(1 .. Len(s))
    BY <1>1, FS_Interval
  <2> QED
    BY <1>1, <2>1, FS_Subset
<1>3. Cardinality(ended) \in Nat
  BY <1>2, FS_CardinalityType
<1>4. \A i \in (Cardinality(ended) + 1) .. Len(s) : s[i] \in IntervalType
  BY <1>1, <1>3, ElementOfSeq
<1> HIDE DEF ended
<1>5. SubSeq(s, Cardinality(ended) + 1, Len(s)) \in Seq(IntervalType)
  BY <1>1, <1>3, <1>4, SubSeqProperties
<1> QED
  BY <1>5 DEF PopEndedBy, ended

\* Appending one interval and trimming keeps a sequence of intervals.
LEMMA WindowType ==
  ASSUME NEW s \in Seq(IntervalType), NEW last \in Int, NEW now \in Int,
         NEW st \in EyeState, NEW gap \in Int, NEW window \in Int
  PROVE  trimIntervals(appendInterval(s, last, now, st, gap), now, window)
           \in Seq(IntervalType)
<1> DEFINE longer == appendInterval(s, last, now, st, gap)
           rest == PopEndedBy(longer, now - window)
<1>1. longer \in Seq(IntervalType)
  BY DEF appendInterval, Interval, IntervalType, HeldState, EyeState
<1>2. rest \in Seq(IntervalType)
  BY <1>1, PopType
<1> HIDE DEF longer, rest
<1>3. rest # <<>> =>
        [rest EXCEPT ![1].start = now - window] \in Seq(IntervalType)
  <2> SUFFICES ASSUME rest # <<>>
               PROVE  [rest EXCEPT ![1].start = now - window]
                        \in Seq(IntervalType)
    OBVIOUS
  <2>1. Len(rest) \in Nat \ {0} /\ 1 \in 1 .. Len(rest)
    BY <1>2, EmptySeq
  <2>2. rest[1] \in IntervalType
    BY <1>2, <2>1, ElementOfSeq
  <2> DEFINE from == now - window
  <2>a. from \in Int
    OBVIOUS
  <2> HIDE DEF from
  <2>b. [rest[1] EXCEPT !.start = from] \in IntervalType
    BY <2>2, <2>a, ClipType
  <2>3. [rest[1] EXCEPT !.start = now - window] \in IntervalType
    BY <2>b DEF from
  <2>4. [rest EXCEPT ![1] = [rest[1] EXCEPT !.start = now - window]]
          \in Seq(IntervalType)
    BY <1>2, <2>1, <2>3, ExceptSeq
  <2> QED
    BY <2>4
<1> QED
  BY <1>2, <1>3 DEF trimIntervals, longer, rest

-----------------------------------------------------------------------------
(* The inductive invariant. *)

\* TypeOK, and the types of the history variables.
HTypeOK ==
  /\ calibration \in EyeCalibration /\ state \in EyeState
  /\ Instant(lastTimestamp) /\ Instant(refractoryUntil)
  /\ Instant(closureStarted) /\ Instant(reopeningStarted)
  /\ prolongedClosureEmitted \in BOOLEAN
  /\ blinkCount \in Nat /\ longBlinkCount \in Nat
  /\ prolongedClosureCount \in Nat
  /\ intervals \in Seq(IntervalType)
  /\ result.state \in EyeState /\ result.closureDuration \in Nat
  /\ Instant(visibleSince) /\ Instant(lastCounted) /\ Instant(lastProlonged)

\* A closure lies inside the run of samples that show the eyes, and is being
\* reopened exactly when the eyes are open.
ClosureInSight ==
  /\ visibleSince # None =>
       lastTimestamp # None /\ visibleSince <= lastTimestamp
  /\ closureStarted # None =>
       /\ visibleSince # None
       /\ visibleSince <= closureStarted /\ closureStarted <= lastTimestamp
       /\ \/ state = "Closed" /\ reopeningStarted = None
          \/ state = "Open" /\ reopeningStarted # None

\* A reopening has a closure to end and begins no earlier.
ReopeningEndsClosure ==
  reopeningStarted # None =>
    /\ closureStarted # None
    /\ closureStarted <= reopeningStarted /\ reopeningStarted <= lastTimestamp

\* The refractory time runs from the last counted closure, and no closure is
\* followed that began inside it.
RefractoryHolds ==
  /\ lastCounted = None => refractoryUntil = None
  /\ lastCounted # None =>
       /\ lastTimestamp # None /\ lastCounted <= lastTimestamp
       /\ refractoryUntil = lastCounted + BlinkRefractory
  /\ closureStarted # None /\ refractoryUntil # None =>
       refractoryUntil <= closureStarted

\* The closure last reported as prolonged is latched and stays too long to be
\* counted for as long as it is followed.
ProlongedStaysLong ==
  /\ lastProlonged # None =>
       lastTimestamp # None /\ lastProlonged <= lastTimestamp
  /\ closureStarted # None /\ lastProlonged = closureStarted =>
       /\ prolongedClosureEmitted
       /\ closureStarted + ProlongedClosure <=
            IF reopeningStarted = None THEN lastTimestamp ELSE reopeningStarted

IInv ==
  /\ HTypeOK
  /\ ClosureInSight
  /\ ReopeningEndsClosure
  /\ RefractoryHolds
  /\ ProlongedStaysLong

\* The facts about the configuration the proofs use.
LEMMA Durations ==
  /\ MinimumBlinkClosure \in Int /\ MaximumBlinkClosure \in Int
  /\ MaximumLongBlinkClosure \in Int /\ ReopenConfirmation \in Int
  /\ BlinkRefractory \in Int /\ ProlongedClosure \in Int
  /\ PerclosWindow \in Int /\ MaximumSampleGap \in Int
  /\ 0 < MinimumBlinkClosure /\ MinimumBlinkClosure <= MaximumBlinkClosure
  /\ MaximumBlinkClosure < MaximumLongBlinkClosure
  /\ MaximumLongBlinkClosure <= ProlongedClosure
  /\ 0 < ReopenConfirmation /\ 0 <= BlinkRefractory
BY EyeTemporalConfigAssumption DEF ValidEyeTemporalConfig

\* Cleared state and cleared history satisfy the invariant.
Cleared ==
  /\ lastTimestamp = None /\ state = "Unknown"
  /\ closureStarted = None /\ reopeningStarted = None /\ refractoryUntil = None
  /\ prolongedClosureEmitted = FALSE
  /\ blinkCount = 0 /\ longBlinkCount = 0 /\ prolongedClosureCount = 0
  /\ intervals = <<>> /\ result = NoResult
  /\ visibleSince = None /\ lastCounted = None /\ lastProlonged = None

LEMMA ClearedIsGood ==
  ASSUME Cleared, calibration \in EyeCalibration
  PROVE  IInv
<1>1. <<>> \in Seq(IntervalType)
  BY EmptySeq
<1> QED
  BY <1>1
  DEF Cleared, IInv, HTypeOK, IntervalType, EyeState,
      NoResult, ClosureInSight, ReopeningEndsClosure, RefractoryHolds,
      ProlongedStaysLong

LEMMA InitEstablishes == HInit => IInv
BY ClearedIsGood, InputAssumption, TimestampsAssumption DEF HInit, Init, Cleared

LEMMA ResetPreserves == IInv /\ HReset => IInv'
<1> SUFFICES ASSUME IInv, HReset PROVE IInv'
  OBVIOUS
<1>1. Cleared' /\ (calibration \in EyeCalibration)'
  BY DEF HReset, reset, ClearState, ForgetHistory, Cleared, IInv, HTypeOK
<1>2. (Cleared /\ calibration \in EyeCalibration => IInv)'
  BY ClearedIsGood, PTL
<1> QED
  BY <1>1, <1>2

LEMMA SetCalibrationPreserves ==
  ASSUME IInv, NEW c \in Calibrations, HSetCalibration(c)
  PROVE  IInv'
<1>1. Cleared' /\ (calibration \in EyeCalibration)'
  BY InputAssumption, TimestampsAssumption
  DEF HSetCalibration, setCalibration, ClearState, ForgetHistory, Cleared
<1>2. (Cleared /\ calibration \in EyeCalibration => IInv)'
  BY ClearedIsGood, PTL
<1> QED
  BY <1>1, <1>2

LEMMA RejectPreserves ==
  ASSUME IInv, NEW ts \in Timestamps, HReject(ts)
  PROVE  IInv'
BY DEF HReject, RejectSample, history, fsm, NoResult, EyeState, IInv,
       HTypeOK, ClosureInSight, ReopeningEndsClosure, RefractoryHolds,
       ProlongedStaysLong

-----------------------------------------------------------------------------
(* An accepted sample: first what all of them share, then one lemma per    *)
(* action. *)

LEMMA AcceptFacts ==
  ASSUME IInv, NEW ts \in Timestamps, NEW openness, HAccept(ts, openness),
         AcceptSample(ts)
  PROVE  /\ ts \in Int
         /\ lastTimestamp' = ts
         /\ lastTimestamp # None => lastTimestamp \in Int /\ lastTimestamp < ts
         /\ calibration' \in EyeCalibration
         /\ intervals' \in Seq(IntervalType)
<1>1. /\ ts \in Int /\ Instant(lastTimestamp)
      /\ calibration \in EyeCalibration /\ state \in EyeState
      /\ intervals \in Seq(IntervalType)
  BY InputAssumption, TimestampsAssumption DEF IInv, HTypeOK, IntervalType
<1>2. /\ lastTimestamp' = ts
      /\ lastTimestamp # None => lastTimestamp \in Int /\ lastTimestamp < ts
      /\ calibration' \in EyeCalibration
  BY <1>1 DEF AcceptSample, NotAfter
<1>3. intervals' \in Seq(IntervalType)
  <2>1. CASE lastTimestamp = None
    BY <1>1, <2>1 DEF AcceptSample
  <2>2. CASE lastTimestamp # None
    BY <1>1, <1>2, <2>2, Durations, WindowType DEF AcceptSample
  <2> QED
    BY <2>1, <2>2
<1> QED
  BY <1>1, <1>2, <1>3

\* An openness leads to a state other than Unknown only if the eyes are seen.
LEMMA SeenState ==
  ASSUME NEW openness, NextState(openness) # "Unknown"
  PROVE  openness # None
BY DEF NextState

LEMMA LoseSightPreserves ==
  ASSUME IInv, NEW ts \in Timestamps, NEW openness,
         HAccept(ts, openness), LoseSight(ts, openness)
  PROVE  IInv'
<1>1. /\ ts \in Int /\ lastTimestamp' = ts
      /\ lastTimestamp # None => lastTimestamp \in Int /\ lastTimestamp < ts
      /\ calibration' \in EyeCalibration /\ intervals' \in Seq(IntervalType)
  BY AcceptFacts DEF LoseSight
<1>2. /\ result' = [state |-> state', perclos |-> updatePerclos(intervals'),
                    blinkEvent |-> FALSE, longBlinkEvent |-> FALSE,
                    prolongedClosure |-> FALSE, prolongedClosureEvent |-> FALSE,
                    closureDuration |-> 0]
      /\ state' = "Unknown"
      /\ closureStarted' = None /\ reopeningStarted' = None
      /\ prolongedClosureEmitted' = FALSE
      /\ UNCHANGED <<refractoryUntil, blinkCount, longBlinkCount,
                     prolongedClosureCount>>
  BY DEF LoseSight, ReportNoEvent, Report
<1>3. lastCounted' = lastCounted /\ lastProlonged' = lastProlonged
  BY <1>2 DEF HAccept, Counted
<1>4. Instant(visibleSince') /\ (visibleSince' # None => visibleSince' <= ts)
  BY <1>1 DEF HAccept, StartedBy, IInv, HTypeOK, ClosureInSight
<1>5. HTypeOK'
  BY <1>1, <1>2, <1>3, <1>4
  DEF IInv, HTypeOK, IntervalType, EyeState
<1>6. ClosureInSight' /\ ReopeningEndsClosure'
  BY <1>1, <1>2, <1>4 DEF ClosureInSight, ReopeningEndsClosure
<1>7. RefractoryHolds'
  BY <1>1, <1>2, <1>3 DEF IInv, HTypeOK, RefractoryHolds
<1>8. ProlongedStaysLong'
  BY <1>1, <1>2, <1>3 DEF IInv, HTypeOK, ProlongedStaysLong
<1> QED
  BY <1>5, <1>6, <1>7, <1>8 DEF IInv

LEMMA CloseEyesPreserves ==
  ASSUME IInv, NEW ts \in Timestamps, NEW openness,
         HAccept(ts, openness), CloseEyes(ts, openness)
  PROVE  /\ IInv'
         /\ result'.prolongedClosureEvent => lastProlonged # closureStarted'
<1> DEFINE closure == closureOf(ts)
           event == newlyProlonged(closure, ts)
           long == Elapsed(closure, ts, ProlongedClosure)
<1>1. /\ ts \in Int /\ lastTimestamp' = ts
      /\ lastTimestamp # None => lastTimestamp \in Int /\ lastTimestamp < ts
      /\ calibration' \in EyeCalibration /\ intervals' \in Seq(IntervalType)
  BY AcceptFacts DEF CloseEyes
<1>2. /\ result'.blinkEvent = FALSE /\ result'.longBlinkEvent = FALSE
      /\ result'.prolongedClosure = long
      /\ result'.prolongedClosureEvent = event
      /\ result'.state = "Closed"
      /\ result'.closureDuration = durationOf(closure, ts)
      /\ state' = "Closed" /\ closureStarted' = closure
      /\ reopeningStarted' = None
      /\ prolongedClosureEmitted' = (prolongedClosureEmitted \/ event)
      /\ prolongedClosureCount' = prolongedClosureCount + IF event THEN 1 ELSE 0
      /\ UNCHANGED <<refractoryUntil, blinkCount, longBlinkCount>>
  BY DEF CloseEyes, Report
<1>3. /\ lastCounted' = lastCounted
      /\ lastProlonged' = IF long THEN closure ELSE lastProlonged
  BY <1>2 DEF HAccept, Counted
<1>4. openness # None
  BY SeenState DEF CloseEyes
<1>5. /\ visibleSince' \in Int /\ visibleSince' <= ts
      /\ visibleSince # None => visibleSince' = visibleSince
  BY <1>1, <1>4
  DEF HAccept, StartedBy, IInv, HTypeOK, ClosureInSight
<1>6. \/ closure = None
      \/ closure = closureStarted /\ closure \in Int /\ state = "Closed"
      \/ closure = ts /\ OutsideRefractory(ts)
  BY DEF closureOf, IInv, HTypeOK
<1>7. long <=> closure # None /\ ts - closure >= ProlongedClosure
  BY DEF Elapsed
<1>8. event <=> long /\ ~prolongedClosureEmitted
  BY DEF newlyProlonged
<1>9. /\ prolongedClosureEmitted \in BOOLEAN
      /\ long \in BOOLEAN /\ event \in BOOLEAN
  BY DEF IInv, HTypeOK, newlyProlonged, Elapsed
<1> HIDE DEF closure, event, long
<1>10. HTypeOK'
  <2>1. closure # None => closure \in Int /\ closure <= ts
    BY <1>1, <1>6 DEF IInv, HTypeOK, ClosureInSight
  <2>2. result'.closureDuration \in Nat
    BY <1>1, <1>2, <2>1 DEF durationOf
  <2>3. prolongedClosureEmitted' \in BOOLEAN /\ prolongedClosureCount' \in Nat
    BY <1>2, <1>9 DEF IInv, HTypeOK
  <2>4. Instant(lastProlonged') /\ Instant(closureStarted')
    BY <1>2, <1>3, <2>1 DEF IInv, HTypeOK
  <2>5. /\ state' \in EyeState /\ Instant(reopeningStarted')
        /\ result'.state \in EyeState
    BY <1>2 DEF EyeState
  <2>6. /\ Instant(refractoryUntil')
        /\ blinkCount' \in Nat /\ longBlinkCount' \in Nat
        /\ Instant(lastCounted')
    BY <1>2, <1>3 DEF IInv, HTypeOK
  <2>7. Instant(lastTimestamp') /\ Instant(visibleSince')
    BY <1>1, <1>5
  <2> QED
    BY <1>1, <2>2, <2>3, <2>4, <2>5, <2>6, <2>7
    DEF HTypeOK, IntervalType
<1>11. ClosureInSight' /\ ReopeningEndsClosure'
  BY <1>1, <1>2, <1>5, <1>6
  DEF IInv, HTypeOK, ClosureInSight, ReopeningEndsClosure
<1>12. RefractoryHolds'
  BY <1>1, <1>2, <1>3, <1>6, Durations
  DEF IInv, HTypeOK, OutsideRefractory, RefractoryHolds
<1>13. closure # None /\ lastProlonged = closure =>
         prolongedClosureEmitted /\ long
  BY <1>1, <1>6, <1>7, Durations
  DEF IInv, HTypeOK, ProlongedStaysLong, ClosureInSight
<1>14. ProlongedStaysLong'
  BY <1>1, <1>2, <1>3, <1>6, <1>7, <1>8, <1>9, <1>13, Durations
  DEF IInv, HTypeOK, ProlongedStaysLong
<1>15. result'.prolongedClosureEvent => lastProlonged # closureStarted'
  BY <1>2, <1>7, <1>8, <1>13
<1> QED
  BY <1>10, <1>11, <1>12, <1>14, <1>15 DEF IInv

LEMMA OpenEyesPreserves ==
  ASSUME IInv, NEW ts \in Timestamps, NEW openness,
         HAccept(ts, openness), OpenEyes(ts, openness)
  PROVE  IInv'
<1>1. /\ ts \in Int /\ lastTimestamp' = ts
      /\ lastTimestamp # None => lastTimestamp \in Int /\ lastTimestamp < ts
      /\ calibration' \in EyeCalibration /\ intervals' \in Seq(IntervalType)
  BY AcceptFacts DEF OpenEyes
<1>2. /\ result'.blinkEvent = FALSE /\ result'.longBlinkEvent = FALSE
      /\ result'.prolongedClosure = FALSE
      /\ result'.state = "Open" /\ state' = "Open"
      /\ result'.closureDuration = 0
      /\ reopeningStarted' = reopeningOf(ts)
      /\ UNCHANGED <<closureStarted, refractoryUntil, prolongedClosureEmitted,
                     blinkCount, longBlinkCount, prolongedClosureCount>>
  BY DEF OpenEyes, ReportNoEvent, Report
<1>3. lastCounted' = lastCounted /\ lastProlonged' = lastProlonged
  BY <1>2 DEF HAccept, Counted
<1>4. openness # None
  BY SeenState DEF OpenEyes
<1>5. /\ visibleSince' \in Int /\ visibleSince' <= ts
      /\ visibleSince # None => visibleSince' = visibleSince
  BY <1>1, <1>4
  DEF HAccept, StartedBy, IInv, HTypeOK, ClosureInSight
<1>6. /\ closureStarted = None => reopeningStarted' = None
      /\ closureStarted # None =>
           reopeningStarted' = IF reopeningStarted # None THEN reopeningStarted
                                                          ELSE ts
  BY <1>2 DEF reopeningOf, IInv, ClosureInSight, ReopeningEndsClosure
<1>7. HTypeOK'
  BY <1>1, <1>2, <1>3, <1>5, <1>6
  DEF IInv, HTypeOK, IntervalType, EyeState
<1>8. ClosureInSight' /\ ReopeningEndsClosure'
  BY <1>1, <1>2, <1>5, <1>6
  DEF IInv, HTypeOK, ClosureInSight, ReopeningEndsClosure
<1>9. RefractoryHolds'
  BY <1>1, <1>2, <1>3 DEF IInv, HTypeOK, RefractoryHolds
<1>10. ProlongedStaysLong'
  BY <1>1, <1>2, <1>3, <1>6, Durations
  DEF IInv, HTypeOK, ClosureInSight, ProlongedStaysLong
<1> QED
  BY <1>7, <1>8, <1>9, <1>10 DEF IInv

LEMMA ConfirmReopeningPreserves ==
  ASSUME IInv, NEW ts \in Timestamps, NEW openness,
         HAccept(ts, openness), ConfirmReopening(ts, openness)
  PROVE  /\ IInv'
         /\ Counted' =>
              /\ visibleSince # None /\ closureStarted # None
              /\ closureStarted >= visibleSince /\ visibleSince' = visibleSince
         /\ Counted' /\ lastCounted # None =>
              lastTimestamp' - lastCounted >=
                BlinkRefractory + MinimumBlinkClosure + ReopenConfirmation
         /\ Counted' => lastProlonged # closureStarted
         /\ ~result'.prolongedClosureEvent
<1> DEFINE closure == reopeningOf(ts) - closureStarted
           blink == isBlink(closure, ts)
           longBlink == ~blink /\ isLongBlink(closure, ts)
<1>1. /\ ts \in Int /\ lastTimestamp' = ts
      /\ lastTimestamp # None => lastTimestamp \in Int /\ lastTimestamp < ts
      /\ calibration' \in EyeCalibration /\ intervals' \in Seq(IntervalType)
  BY AcceptFacts DEF ConfirmReopening
<1>2. /\ result'.blinkEvent = blink /\ result'.longBlinkEvent = longBlink
      /\ result'.prolongedClosure = FALSE
      /\ result'.prolongedClosureEvent = FALSE
      /\ result'.state = "Open" /\ state' = "Open"
      /\ result'.closureDuration = 0
      /\ closureStarted' = None /\ reopeningStarted' = None
      /\ blinkCount' = blinkCount + IF blink THEN 1 ELSE 0
      /\ longBlinkCount' = longBlinkCount + IF longBlink THEN 1 ELSE 0
      /\ refractoryUntil' = IF ~blink /\ ~longBlink THEN refractoryUntil
                                                    ELSE ts + BlinkRefractory
      /\ UNCHANGED <<prolongedClosureEmitted, prolongedClosureCount>>
  BY DEF ConfirmReopening, Report
<1>3. /\ lastCounted' = IF ~(blink \/ longBlink) THEN lastCounted ELSE ts
      /\ lastProlonged' = lastProlonged
      /\ Counted' <=> blink \/ longBlink
  BY <1>2 DEF HAccept, Counted
<1>4. openness # None
  BY SeenState DEF ConfirmReopening
<1>5. /\ reopeningOf(ts) # None
      /\ ts - reopeningOf(ts) >= ReopenConfirmation
  BY DEF ConfirmReopening, Elapsed
<1>6. /\ closureStarted \in Int
      /\ reopeningOf(ts) =
           IF reopeningStarted # None THEN reopeningStarted ELSE ts
  BY <1>5
  DEF reopeningOf, IInv, HTypeOK, ClosureInSight,
      ReopeningEndsClosure
<1>7. /\ visibleSince \in Int /\ visibleSince <= closureStarted
      /\ visibleSince' = visibleSince
  BY <1>1, <1>4, <1>6
  DEF HAccept, StartedBy, IInv, HTypeOK, ClosureInSight
<1>8. reopeningOf(ts) \in Int
  BY <1>1, <1>6 DEF IInv, HTypeOK
<1>9. /\ blink \/ longBlink => closure >= MinimumBlinkClosure
      /\ blink \/ longBlink => closure < MaximumLongBlinkClosure
  BY <1>6, <1>8, Durations DEF isBlink, isLongBlink
<1>10. blink \in BOOLEAN /\ longBlink \in BOOLEAN
  BY DEF isBlink, isLongBlink, OutsideRefractory
<1>11. closure = reopeningOf(ts) - closureStarted
  OBVIOUS
<1> HIDE DEF closure, blink, longBlink
<1>12. HTypeOK'
  BY <1>1, <1>2, <1>3, <1>7, <1>10, Durations
  DEF IInv, HTypeOK, IntervalType, EyeState
<1>13. ClosureInSight' /\ ReopeningEndsClosure'
  <2>1. visibleSince <= ts
    BY <1>1, <1>6, <1>7 DEF IInv, HTypeOK, ClosureInSight
  <2> QED
    BY <1>1, <1>2, <1>7, <2>1 DEF ClosureInSight, ReopeningEndsClosure
<1>14. RefractoryHolds'
  BY <1>1, <1>2, <1>3 DEF IInv, HTypeOK, RefractoryHolds
<1>15. ProlongedStaysLong'
  BY <1>1, <1>2, <1>3 DEF IInv, HTypeOK, ProlongedStaysLong
<1>16. Counted' /\ lastCounted # None =>
         ts - lastCounted >=
           BlinkRefractory + MinimumBlinkClosure + ReopenConfirmation
  <2> SUFFICES ASSUME blink \/ longBlink, lastCounted # None
               PROVE  ts - lastCounted >=
                        BlinkRefractory + MinimumBlinkClosure + ReopenConfirmation
    BY <1>3
  <2>1. lastCounted \in Int /\ lastCounted + BlinkRefractory <= closureStarted
    BY <1>6, Durations DEF IInv, HTypeOK, RefractoryHolds
  <2>2. closureStarted + MinimumBlinkClosure <= reopeningOf(ts)
    BY <1>6, <1>8, <1>9, <1>11, Durations
  <2>3. reopeningOf(ts) + ReopenConfirmation <= ts
    BY <1>1, <1>5, <1>8, Durations
  <2>4. lastCounted + BlinkRefractory + MinimumBlinkClosure + ReopenConfirmation
          <= ts
    <3>1. closureStarted \in Int
      BY <1>6
    <3> QED
      BY <1>1, <1>8, <2>1, <2>2, <2>3, <3>1, Durations
  <2> QED
    BY <1>1, <2>1, <2>4, Durations
<1>17. Counted' => lastProlonged # closureStarted
  <2> SUFFICES ASSUME blink \/ longBlink, lastProlonged = closureStarted
               PROVE  FALSE
    BY <1>3
  <2>1. closureStarted + ProlongedClosure <= reopeningOf(ts)
    BY <1>1, <1>6, <1>8, Durations
    DEF IInv, HTypeOK, ClosureInSight, ProlongedStaysLong
  <2> QED
    BY <1>6, <1>8, <1>9, <1>11, <2>1, Durations
<1> QED
  BY <1>1, <1>2, <1>6, <1>7, <1>12, <1>13, <1>14, <1>15, <1>16, <1>17 DEF IInv

-----------------------------------------------------------------------------
(* The whole next-state relation. *)

\* What every step promises about the events it reports.
EventsAreRight ==
  /\ Counted' =>
       /\ visibleSince # None /\ closureStarted # None
       /\ closureStarted >= visibleSince /\ visibleSince' = visibleSince
  /\ Counted' /\ lastCounted # None =>
       lastTimestamp' - lastCounted >=
         BlinkRefractory + MinimumBlinkClosure + ReopenConfirmation
  /\ Counted' => lastProlonged # closureStarted
  /\ result'.prolongedClosureEvent => lastProlonged # closureStarted'

LEMMA NoResultNoEvent ==
  ASSUME result' = NoResult
  PROVE  EventsAreRight
BY DEF NoResult, EventsAreRight, Counted

LEMMA StepIsRight ==
  ASSUME IInv, HNext
  PROVE  IInv' /\ EventsAreRight
<1>1. CASE HReset
  BY <1>1, ResetPreserves, NoResultNoEvent DEF HReset, reset, ClearState
<1>2. CASE \E c \in Calibrations : HSetCalibration(c)
  BY <1>2, SetCalibrationPreserves, NoResultNoEvent
  DEF HSetCalibration, setCalibration, ClearState
<1>3. CASE \E ts \in Timestamps : HReject(ts)
  BY <1>3, RejectPreserves, NoResultNoEvent DEF HReject, RejectSample
<1>4. CASE \E ts \in Timestamps, openness \in OpennessInputs :
              HAccept(ts, openness)
  <2>1. PICK ts \in Timestamps, openness \in OpennessInputs :
               HAccept(ts, openness)
    BY <1>4
  <2>2. CASE LoseSight(ts, openness)
    <3>1. /\ ~result'.blinkEvent /\ ~result'.longBlinkEvent
          /\ ~result'.prolongedClosureEvent
      BY <2>2 DEF LoseSight, ReportNoEvent, Report
    <3> QED
      BY <2>1, <2>2, <3>1, LoseSightPreserves DEF EventsAreRight, Counted
  <2>3. CASE CloseEyes(ts, openness)
    <3>1. ~result'.blinkEvent /\ ~result'.longBlinkEvent
      BY <2>3 DEF CloseEyes, Report
    <3> QED
      BY <2>1, <2>3, <3>1, CloseEyesPreserves DEF EventsAreRight, Counted
  <2>4. CASE OpenEyes(ts, openness)
    <3>1. /\ ~result'.blinkEvent /\ ~result'.longBlinkEvent
          /\ ~result'.prolongedClosureEvent
      BY <2>4 DEF OpenEyes, ReportNoEvent, Report
    <3> QED
      BY <2>1, <2>4, <3>1, OpenEyesPreserves DEF EventsAreRight, Counted
  <2>5. CASE ConfirmReopening(ts, openness)
    BY <2>1, <2>5, ConfirmReopeningPreserves DEF EventsAreRight
  <2> QED
    BY <2>1, <2>2, <2>3, <2>4, <2>5 DEF HAccept, Sample, RejectSample
<1> QED
  BY <1>1, <1>2, <1>3, <1>4 DEF HNext

LEMMA StutterPreserves ==
  ASSUME IInv, UNCHANGED hvars
  PROVE  IInv'
BY DEF hvars, vars, fsm, history, IInv, HTypeOK, ClosureInSight,
       ReopeningEndsClosure, RefractoryHolds, ProlongedStaysLong

LEMMA Invariance == HSpec => []IInv
<1>1. IInv /\ [HNext]_hvars => IInv'
  BY StepIsRight, StutterPreserves
<1> QED
  BY <1>1, InitEstablishes, PTL DEF HSpec

LEMMA EveryStep == HSpec => [][EventsAreRight]_hvars
<1>1. IInv /\ [HNext]_hvars => [EventsAreRight]_hvars
  BY StepIsRight
<1> QED
  BY <1>1, Invariance, PTL DEF HSpec

\* The state of EyeTemporalMetrics keeps its types, and its deque holds
\* intervals however it is trimmed.
THEOREM TypeCorrect == HSpec => []TypeOK
<1>0. IntervalType = [start : Int, end : Int, state : EyeState]
  BY DEF IntervalType, HeldState, EyeState
<1>1. IInv => TypeOK
  BY <1>0 DEF IInv, HTypeOK, TypeOK, Optional
<1> QED
  BY <1>1, Invariance, PTL

\* update never computes the length of a closure from an empty optional
\* (src/DmsEyeMetrics.cpp, line 226).
THEOREM ClosureIsThere == HSpec => []NoEmptyDereference
<1>1. IInv => NoEmptyDereference
  BY DEF IInv, ReopeningEndsClosure, NoEmptyDereference
<1> QED
  BY <1>1, Invariance, PTL

\* A counted closure was in sight from its start to its confirmed end.
THEOREM CountedInSight == HSpec => CountedOnlyIfSeenThroughout
<1>1. EventsAreRight =>
        (Counted' => /\ visibleSince # None /\ closureStarted # None
                     /\ closureStarted >= visibleSince
                     /\ visibleSince' = visibleSince)
  BY DEF EventsAreRight
<1> QED
  BY <1>1, EveryStep, PTL DEF CountedOnlyIfSeenThroughout

\* No blink is split in two: counted closures keep their distance.
THEOREM CountedApart == HSpec => CountedClosuresSpaced
<1>1. EventsAreRight =>
        (Counted' /\ lastCounted # None =>
           lastTimestamp' - lastCounted >=
             BlinkRefractory + MinimumBlinkClosure + ReopenConfirmation)
  BY DEF EventsAreRight
<1> QED
  BY <1>1, EveryStep, PTL DEF CountedClosuresSpaced

\* A closure is reported as prolonged, or counted when it ends, never both.
THEOREM ProlongedOrCounted == HSpec => ProlongedIsNotCountedAgain
<1>1. EventsAreRight => (Counted' => lastProlonged # closureStarted)
  BY DEF EventsAreRight
<1> QED
  BY <1>1, EveryStep, PTL DEF ProlongedIsNotCountedAgain

\* A closure is a prolonged-closure event at most once.
THEOREM ProlongedOnce == HSpec => ProlongedEventOnce
<1>1. EventsAreRight =>
        (result'.prolongedClosureEvent => lastProlonged # closureStarted')
  BY DEF EventsAreRight
<1> QED
  BY <1>1, EveryStep, PTL DEF ProlongedEventOnce

-----------------------------------------------------------------------------
(* PERCLOS. *)

\* The deque tells the same story as the record of the window, and the share
\* last reported is taken from it.
WindowRecorded ==
  /\ Instant(lastTimestamp) /\ state \in HeldState
  /\ lastTimestamp = None => intervals = <<>> /\ seen = <<>>
  /\ lastTimestamp # None =>
       /\ DOMAIN seen = Window(lastTimestamp)
       /\ Records(intervals, seen, lastTimestamp - PerclosWindow, lastTimestamp)
  /\ result.perclos # None => result.perclos = updatePerclos(intervals)

LEMMA WindowIsPositive == PerclosWindow \in Int /\ 0 < PerclosWindow
BY EyeTemporalConfigAssumption DEF ValidEyeTemporalConfig

LEMMA ClearedWindow ==
  ASSUME ClearState, PClear
  PROVE  WindowRecorded'
BY DEF ClearState, PClear, NoResult, WindowRecorded, HeldState

\* What every accepted sample does to the window, whatever state it leads to.
LEMMA SampleMovesWindow ==
  ASSUME NEW ts, NEW openness, ~NotAfter(lastTimestamp, ts),
         state \in HeldState, Sample(ts, openness)
  PROVE  /\ AcceptSample(ts)
         /\ state' \in HeldState
         /\ result'.perclos = updatePerclos(intervals')
<1>1. CASE LoseSight(ts, openness)
  BY <1>1 DEF LoseSight, ReportNoEvent, Report, HeldState
<1>2. CASE CloseEyes(ts, openness)
  BY <1>2 DEF CloseEyes, Report, HeldState
<1>3. CASE OpenEyes(ts, openness)
  BY <1>3 DEF OpenEyes, ReportNoEvent, Report, HeldState
<1>4. CASE ConfirmReopening(ts, openness)
  BY <1>4 DEF ConfirmReopening, Report, HeldState
<1>5. ~RejectSample(ts)
  BY DEF RejectSample
<1> QED
  BY <1>1, <1>2, <1>3, <1>4, <1>5 DEF Sample

LEMMA AcceptKeepsRecord ==
  ASSUME WindowRecorded, NEW ts \in Timestamps, NEW openness,
         PAccept(ts, openness)
  PROVE  WindowRecorded'
<1>1. /\ Instant(lastTimestamp) /\ state \in HeldState /\ ts \in Int
      /\ ~NotAfter(lastTimestamp, ts) /\ Sample(ts, openness)
  BY TimestampsAssumption DEF WindowRecorded, PAccept
<1>2. /\ AcceptSample(ts) /\ state' \in HeldState
      /\ result'.perclos = updatePerclos(intervals')
  BY <1>1, SampleMovesWindow
<1>3. lastTimestamp' = ts /\ lastTimestamp' # None /\ Instant(lastTimestamp')
  BY <1>1, <1>2 DEF AcceptSample
<1>4. DOMAIN seen' = Window(ts)
  BY DEF PAccept
<1>5. Window(ts) = (ts - PerclosWindow) .. (ts - 1)
  BY DEF Window
<1>6. Records(intervals', seen', ts - PerclosWindow, ts)
  <2>1. CASE lastTimestamp = None
    <3>1. \A t \in Window(ts) : seen'[t] = "Unknown"
      BY <2>1 DEF PAccept
    <3>2. intervals' = <<>>
      BY <1>2, <2>1 DEF AcceptSample, WindowRecorded
    <3> QED
      BY <1>5, <3>1, <3>2, NothingRecorded
  <2>2. CASE lastTimestamp # None
    <3>1. lastTimestamp \in Int /\ lastTimestamp < ts
      BY <1>1, <2>2 DEF NotAfter
    <3>2. /\ DOMAIN seen = (lastTimestamp - PerclosWindow) .. (lastTimestamp - 1)
          /\ Records(intervals, seen, lastTimestamp - PerclosWindow,
                     lastTimestamp)
      BY <2>2 DEF WindowRecorded, Window
    <3>3. intervals' =
            trimIntervals(appendInterval(intervals, lastTimestamp, ts, state,
                                         MaximumSampleGap),
                          ts, PerclosWindow)
      BY <1>2, <2>2 DEF AcceptSample
    <3>4. \A t \in Window(ts) :
            seen'[t] = IF t >= lastTimestamp
                       THEN IF ts - lastTimestamp <= MaximumSampleGap
                            THEN state ELSE "Unknown"
                       ELSE IF t \in DOMAIN seen THEN seen[t] ELSE "Unknown"
      BY <2>2 DEF PAccept
    <3>5. \A t \in (ts - PerclosWindow) .. (ts - 1) :
            seen'[t] = IF t < lastTimestamp THEN seen[t]
                       ELSE IF ts - lastTimestamp <= MaximumSampleGap
                            THEN state ELSE "Unknown"
      <4> SUFFICES ASSUME NEW t \in (ts - PerclosWindow) .. (ts - 1)
                   PROVE  seen'[t] =
                            IF t < lastTimestamp THEN seen[t]
                            ELSE IF ts - lastTimestamp <= MaximumSampleGap
                                 THEN state ELSE "Unknown"
        OBVIOUS
      <4>1. t < lastTimestamp => t \in DOMAIN seen
        BY <1>1, <3>1, <3>2, WindowIsPositive
      <4>2. t < lastTimestamp <=> ~(t >= lastTimestamp)
        BY <1>1, <3>1, WindowIsPositive
      <4> QED
        BY <1>5, <3>4, <4>1, <4>2
    <3> QED
      BY <1>1, <3>1, <3>2, <3>3, <3>5, WindowIsPositive, Durations,
         MovingRecords
  <2> QED
    BY <2>1, <2>2
<1> QED
  BY <1>2, <1>3, <1>4, <1>6 DEF WindowRecorded, Window

LEMMA WindowInvariant == PSpec => []WindowRecorded
<1>1. PInit => WindowRecorded
  BY DEF PInit, Init, NoResult, WindowRecorded, HeldState
<1>2. ASSUME WindowRecorded, [PNext]_pvars
      PROVE  WindowRecorded'
  <2>1. CASE reset /\ PClear
    BY <2>1, ClearedWindow DEF reset
  <2>2. CASE \E c \in Calibrations : setCalibration(c) /\ PClear
    BY <2>2, ClearedWindow DEF setCalibration
  <2>3. CASE \E ts \in Timestamps : RejectSample(ts) /\ UNCHANGED seen
    BY <1>2, <2>3 DEF RejectSample, NoResult, fsm, WindowRecorded, Window
  <2>4. CASE \E ts \in Timestamps, openness \in OpennessInputs :
               PAccept(ts, openness)
    BY <1>2, <2>4, AcceptKeepsRecord
  <2>5. CASE UNCHANGED pvars
    BY <1>2, <2>5 DEF pvars, vars, fsm, WindowRecorded, Window, updatePerclos,
                      Perclos
  <2> QED
    BY <1>2, <2>1, <2>2, <2>3, <2>4, <2>5 DEF PNext
<1> QED
  BY <1>1, <1>2, PTL DEF PSpec

\* PERCLOS is the closed share of exactly the known time of the window, instant
\* by instant, for every window, gap and sequence of samples
\* (EyeTemporalMetrics::updatePerclos).
THEOREM PerclosIsExact == PSpec => []PerclosMatchesWindow
<1>1. ASSUME WindowRecorded, NEW states, "Unknown" \notin states
      PROVE  TimeIn(intervals, states) = SeenIn(states)
  <2>1. CASE lastTimestamp = None
    <3>1. intervals = <<>> /\ seen = <<>>
      BY <1>1, <2>1 DEF WindowRecorded
    <3>2. Records(<<>>, seen, 0, 0)
      <4>1. \A t \in 0 .. (0 - 1) : seen[t] = "Unknown"
        OBVIOUS
      <4> QED
        BY <4>1, NothingRecorded
    <3>3. TimeIn(<<>>, states) =
            Cardinality({t \in 0 .. (0 - 1) : seen[t] \in states})
      BY <1>1, <3>2, RecordedTime
    <3>4. {t \in 0 .. (0 - 1) : seen[t] \in states} = {}
      OBVIOUS
    <3>5. {t \in DOMAIN seen : seen[t] \in states} = {}
      BY <3>1
    <3> QED
      BY <3>1, <3>3, <3>4, <3>5 DEF SeenIn
  <2>2. CASE lastTimestamp # None
    <3>1. /\ lastTimestamp \in Int
          /\ DOMAIN seen = (lastTimestamp - PerclosWindow) .. (lastTimestamp - 1)
          /\ Records(intervals, seen, lastTimestamp - PerclosWindow,
                     lastTimestamp)
      BY <1>1, <2>2 DEF WindowRecorded, Window
    <3>2. lastTimestamp - PerclosWindow \in Int
      BY <3>1, WindowIsPositive
    <3>3. TimeIn(intervals, states) =
            Cardinality({t \in (lastTimestamp - PerclosWindow)
                                 .. (lastTimestamp - 1) : seen[t] \in states})
      BY <1>1, <3>1, <3>2, RecordedTime
    <3> QED
      BY <3>1, <3>3, Zenon DEF SeenIn
  <2> QED
    BY <2>1, <2>2
<1>2. ASSUME WindowRecorded
      PROVE  PerclosMatchesWindow
  <2>1. /\ TimeIn(intervals, {"Closed"}) = SeenIn({"Closed"})
        /\ TimeIn(intervals, {"Open", "Closed"}) = SeenIn({"Open", "Closed"})
    BY <1>1, <1>2
  <2>2. ASSUME result.perclos # None
        PROVE  /\ result.perclos.closed = TimeIn(intervals, {"Closed"})
               /\ result.perclos.known = TimeIn(intervals, {"Open", "Closed"})
               /\ 100 * result.perclos.known >=
                    MinimumPerclosCoverage * PerclosWindow
    <3> DEFINE known == TimeIn(intervals, {"Open", "Closed"})
               closed == TimeIn(intervals, {"Closed"})
    <3>1. result.perclos = Perclos(known, closed)
      BY <1>2, <2>2 DEF WindowRecorded, updatePerclos
    <3> HIDE DEF known, closed
    <3>2. /\ 100 * known >= MinimumPerclosCoverage * PerclosWindow
          /\ result.perclos = [closed |-> closed, known |-> known]
      BY <2>2, <3>1 DEF Perclos
    <3> QED
      BY <3>2 DEF known, closed
  <2> QED
    BY <2>1, <2>2 DEF PerclosMatchesWindow
<1> QED
  BY <1>2, WindowInvariant, PTL
=============================================================================
