-------------------------- MODULE RecordedFrameClock --------------------------
(***************************************************************************)
(* RecordedFrameClock (src/RecordedFrameClock.cpp) driven by the input of  *)
(* face_benchmark (InputFrames in src/benchmark_main.cpp).  The clock      *)
(* counts whole units (nanoseconds); a container stamps its frames in      *)
(* ticks, fractions of a unit, so that every truncation of the code is one *)
(* of the model; the rounding of its floating point is left out.           *)
(***************************************************************************)
EXTENDS Integers

CONSTANTS
  NoStamp,         (* a stamp that is missing, negative or not a number    *)
  NoOrigin,
  UnitsPerSecond, TicksPerUnit,
  Rates,           (* nominal frames per second that framePeriod accepts   *)
  UnusableRate,    (* one it does not: not a number, or out of range       *)
  FallbackRate,    (* fallbackFramesPerSecond                              *)
  SequenceLength,  (* images in a directory                                *)
  MaxStamp         (* bound on the stamps, and through it on time          *)

ASSUME ClockAssumption ==
  /\ UnitsPerSecond \in Nat \ {0} /\ TicksPerUnit \in Nat \ {0}
  /\ Rates \subseteq 1 .. UnitsPerSecond /\ FallbackRate \in Rates
  /\ UnusableRate \notin Rates
  /\ SequenceLength \in Nat \ {0} /\ MaxStamp \in Nat
  /\ NoStamp \notin 0 .. MaxStamp /\ NoOrigin \notin 0 .. MaxStamp

VARIABLES
  kind, sequenceIndex,   (* kind_ and sequenceIndex_ of InputFrames        *)
  period, timestamp,     (* framePeriod_ and timestamp_                    *)
  origin,                (* sourceOriginMilliseconds_                      *)
  started,               (* started_                                       *)
  rate,                  (* the rate the clock was reset with              *)
  lastStamp,             (* the stamp of the last frame                    *)
  evenly                 (* every frame was stamped, none sooner after the *)
                         (* last than the nominal rate allows              *)

recordVars == <<rate, lastStamp, evenly>>
clockVars == <<kind, sequenceIndex, period, timestamp, origin, started,
               recordVars>>

\* Seeded fault: the period is rounded up.
framePeriodRoundedUp(r) ==
  1 + (UnitsPerSecond - 1) \div (IF r \in Rates THEN r ELSE FallbackRate)

framePeriod(r) ==
  UnitsPerSecond \div (IF r \in Rates THEN r ELSE FallbackRate)

ClockInit ==
  /\ kind = "none" /\ sequenceIndex = 0
  /\ rate = FallbackRate /\ period = framePeriod(FallbackRate)
  /\ timestamp = 0 /\ origin = NoOrigin /\ started = FALSE
  /\ lastStamp = NoStamp /\ evenly = TRUE

\* open and openCamera end with a reset of the clock.
Open(k, r) ==
  /\ kind = "none"
  /\ kind' = k
  /\ r = FallbackRate \/ k \in {"video", "camera"}
  /\ rate' = (IF r \in Rates THEN r ELSE FallbackRate)
  /\ period' = framePeriod(r)
  /\ UNCHANGED <<sequenceIndex, timestamp, origin, started, lastStamp, evenly>>

-----------------------------------------------------------------------------
SourceTime(stamp) == (stamp - origin) \div TicksPerUnit

LaterOf(s, t) == IF s < t THEN t ELSE s

\* advance: the first frame is at zero; every later one at least a period on,
\* and where its container puts it if that is later still.
FirstFrame(stamp) ==
  /\ ~started
  /\ started' = TRUE
  /\ origin' = IF stamp = NoStamp THEN NoOrigin ELSE stamp
  /\ UNCHANGED <<period, timestamp>>

\* Seeded fault: a container's time is taken as it is.
LaterFrameAsStamped(stamp) ==
  /\ started
  /\ timestamp' = IF stamp # NoStamp /\ origin # NoOrigin /\ origin <= stamp
                  THEN SourceTime(stamp) ELSE timestamp + period
  /\ UNCHANGED <<period, origin, started>>

LaterFrame(stamp) ==
  /\ started
  /\ LET fallback == timestamp + period
     IN timestamp' =
          IF stamp # NoStamp /\ origin # NoOrigin /\ origin <= stamp
          THEN LaterOf(fallback, SourceTime(stamp)) ELSE fallback
  /\ UNCHANGED <<period, origin, started>>

\* A frame is due one period of the nominal rate after the last.
InTime(stamp) ==
  (stamp - lastStamp) * rate >= UnitsPerSecond * TicksPerUnit

advance(stamp) ==
  /\ FirstFrame(stamp) \/ LaterFrame(stamp)
  /\ lastStamp' = stamp
  /\ evenly' = /\ evenly /\ stamp # NoStamp
               /\ started => InTime(stamp)
  /\ UNCHANGED <<kind, rate>>

-----------------------------------------------------------------------------
(* next: a frame that cannot be read changes nothing.                      *)
NextOfSequence ==
  /\ kind = "image-sequence"
  /\ sequenceIndex' = (sequenceIndex + 1) % SequenceLength
  /\ advance(NoStamp)

NextOfImage ==
  /\ kind = "image-repeat"
  /\ advance(NoStamp)
  /\ UNCHANGED sequenceIndex

\* The capture, which may have been set back to the start, stamps the frame
\* as it likes.
NextOfCapture(stamp) ==
  /\ kind \in {"video", "camera"}
  /\ advance(stamp)
  /\ UNCHANGED sequenceIndex

next ==
  /\ timestamp * TicksPerUnit < MaxStamp
  /\ \/ NextOfSequence \/ NextOfImage
     \/ \E stamp \in {NoStamp} \cup (0 .. MaxStamp) : NextOfCapture(stamp)

ClockNext ==
  \/ \E k \in {"camera", "video", "image-sequence", "image-repeat"},
        r \in {UnusableRate} \cup Rates : Open(k, r)
  \/ next

ClockSpec == ClockInit /\ [][ClockNext]_clockVars

-----------------------------------------------------------------------------
(***************************************************************************)
(* "Strictly monotonic ... never depends on wall-clock inference time"     *)
(* (RecordedFrameClock.hpp): whatever a container stamps, the frames of an *)
(* input, across its restart too, are at least the nominal period apart.   *)
(***************************************************************************)
FramesArePeriodsApart ==
  [][next /\ started =>
       0 < period /\ timestamp + period <= timestamp']_clockVars

(***************************************************************************)
(* A recording whose frames are stamped no closer than its nominal rate    *)
(* keeps its own time: the truncations of the period and of the stamps     *)
(* never push the clock ahead of the container, however long it runs.      *)
(***************************************************************************)
EvenRecordingKeepsItsTime ==
  started /\ evenly => timestamp = SourceTime(lastStamp)
=============================================================================
