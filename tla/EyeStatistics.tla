----------------------------- MODULE EyeStatistics -----------------------------
(***************************************************************************)
(* EyeStatistics (src/DmsEyeStatistics.cpp): how long the eyes were open   *)
(* and how often they blinked, since the start and over a rolling window.  *)
(* A share of time is a pair of durations, <<part, whole>>; the queue of   *)
(* intervals is kept as the one behind PERCLOS is.                         *)
(***************************************************************************)
EXTENDS RollingWindow

CONSTANTS
  NoShare,              (* a share that is not reported                    *)
  StatisticsTimes,      (* the time stamps of samples                      *)
  StatisticsWindow, StatisticsGap,   (* rollingWindow, maximumSampleGap    *)
  MinimumKnownPercent   (* minimumKnownCoverage                            *)

ASSUME StatisticsAssumption ==
  /\ StatisticsTimes \subseteq Nat
  /\ StatisticsWindow \in Nat \ {0} /\ StatisticsGap \in Nat \ {0}
  /\ MinimumKnownPercent \in 0 .. 100

VARIABLES
  hasTimestamp, epoch, lastTimestamp, lastState,
  cumulativeKnown, cumulativeOpen, cumulativeBlinks,
  intervals,            (* intervals_                                      *)
  blinkEvents,          (* blinkEvents_                                    *)
  watched,              (* which state was held in each unit of time that  *)
                        (* has ended, by its last moment                   *)
  blinks                (* when a blink was reported                       *)

statisticsVars ==
  <<hasTimestamp, epoch, lastTimestamp, lastState, cumulativeKnown,
    cumulativeOpen, cumulativeBlinks, intervals, blinkEvents, watched, blinks>>

EyeStates == {"Unknown", "Open", "Closed"}

StatisticsInit ==
  /\ hasTimestamp = FALSE /\ epoch = 0 /\ lastTimestamp = 0
  /\ lastState = "Unknown"
  /\ cumulativeKnown = 0 /\ cumulativeOpen = 0 /\ cumulativeBlinks = 0
  /\ intervals = << >> /\ blinkEvents = << >>
  /\ watched = << >> /\ blinks = {}

KnownEnough(known, time) == 100 * known >= MinimumKnownPercent * time

-----------------------------------------------------------------------------
\* What trim leaves of blinkEvents_, which are in order.
trimBlinks(events, start) ==
  LET popped == Cardinality({i \in DOMAIN events : events[i] < start})
  IN  SubSeq(events, popped + 1, Len(events))

\* result, of the sample at time lastTimestamp.
result ==
  LET elapsed == lastTimestamp - epoch
      available == IF elapsed < StatisticsWindow THEN elapsed
                                                 ELSE StatisticsWindow
      rollingKnown == TimeIn(intervals, {"Open", "Closed"})
  IN [cumulativeEyeOpen |-> IF cumulativeKnown = 0 THEN NoShare
                            ELSE <<cumulativeOpen, cumulativeKnown>>,
      cumulativeBlinkCount |-> cumulativeBlinks,
      rollingEyeOpen |-> IF rollingKnown > 0 /\ KnownEnough(rollingKnown, available)
                         THEN <<TimeIn(intervals, {"Open"}), rollingKnown>>
                         ELSE NoShare,
      rollingBlinkCount |-> Len(blinkEvents)]

-----------------------------------------------------------------------------
CountBlink(timestamp, blinkEvent) ==
  /\ cumulativeBlinks' = IF blinkEvent THEN cumulativeBlinks + 1
                         ELSE cumulativeBlinks
  /\ blinks' = IF blinkEvent THEN blinks \cup {timestamp} ELSE blinks

AppendBlink(timestamp, blinkEvent) ==
  IF blinkEvent THEN Append(blinkEvents, timestamp) ELSE blinkEvents

FirstSample(timestamp, blinkEvent) ==
  /\ ~hasTimestamp
  /\ hasTimestamp' = TRUE
  /\ epoch' = timestamp
  /\ blinkEvents' = AppendBlink(timestamp, blinkEvent)
  /\ UNCHANGED <<cumulativeKnown, cumulativeOpen, intervals, watched>>

\* A sample that is not newer than the last changes nothing.
NextSample(timestamp, blinkEvent) ==
  /\ hasTimestamp /\ lastTimestamp < timestamp
  /\ LET duration == timestamp - lastTimestamp
         held == IF duration <= StatisticsGap THEN lastState ELSE "Unknown"
     IN /\ cumulativeKnown' =
             cumulativeKnown + (IF held # "Unknown" THEN duration ELSE 0)
        /\ cumulativeOpen' =
             cumulativeOpen + (IF held = "Open" THEN duration ELSE 0)
        /\ watched' = watched \o [u \in 1 .. duration |-> held]
  /\ intervals' = trimIntervals(
       appendInterval(intervals, lastTimestamp, timestamp, lastState,
                      StatisticsGap), timestamp, StatisticsWindow)
  /\ blinkEvents' = trimBlinks(AppendBlink(timestamp, blinkEvent),
                               timestamp - StatisticsWindow)
  /\ UNCHANGED <<hasTimestamp, epoch>>

updateStatistics(timestamp, state, blinkEvent) ==
  /\ \/ FirstSample(timestamp, blinkEvent)
     \/ NextSample(timestamp, blinkEvent)
  /\ lastTimestamp' = timestamp
  /\ lastState' = state
  /\ CountBlink(timestamp, blinkEvent)

resetStatistics ==
  /\ hasTimestamp' = FALSE /\ epoch' = 0 /\ lastTimestamp' = 0
  /\ lastState' = "Unknown"
  /\ cumulativeKnown' = 0 /\ cumulativeOpen' = 0 /\ cumulativeBlinks' = 0
  /\ intervals' = << >> /\ blinkEvents' = << >>
  /\ watched' = << >> /\ blinks' = {}

\* The eye metrics report a blink where the eyes are open again.
StatisticsNext ==
  \/ \E timestamp \in StatisticsTimes, state \in EyeStates, blinkEvent \in BOOLEAN :
       /\ blinkEvent => state = "Open"
       /\ updateStatistics(timestamp, state, blinkEvent)
  \/ resetStatistics

StatisticsSpec == StatisticsInit /\ [][StatisticsNext]_statisticsVars

-----------------------------------------------------------------------------
\* Of the last n units of the record, those in a set of states.
WatchedIn(states, n) ==
  Cardinality({u \in DOMAIN watched :
                 u > Len(watched) - n /\ watched[u] \in states})

ShareOpen(n) ==
  <<WatchedIn({"Open"}, n), WatchedIn({"Open", "Closed"}, n)>>

(***************************************************************************)
(* What the display shows is what happened: with every sample the running  *)
(* sums and the trimmed queues give exactly the shares and the blinks that *)
(* a full record of the drive gives, over the drive and over the window,   *)
(* and a rolling share is reported only where enough of the window was     *)
(* seen, of a drive shorter than the window as well.                       *)
(***************************************************************************)
StatisticsMatchRecord ==
  hasTimestamp =>
    LET whole == ShareOpen(Len(watched))
        rolling == ShareOpen(StatisticsWindow)
        time == WatchedIn(EyeStates, StatisticsWindow)
    IN /\ result.cumulativeEyeOpen =
            (IF whole[2] = 0 THEN NoShare ELSE whole)
       /\ result.cumulativeBlinkCount = Cardinality(blinks)
       /\ result.rollingEyeOpen =
            (IF rolling[2] # 0 /\ KnownEnough(rolling[2], time)
             THEN rolling ELSE NoShare)
       /\ result.rollingBlinkCount =
            Cardinality({t \in blinks : lastTimestamp - StatisticsWindow <= t})
=============================================================================
