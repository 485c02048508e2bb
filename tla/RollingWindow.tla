---------------------------- MODULE RollingWindow ----------------------------
(***************************************************************************)
(* The deque of timed eye states behind PERCLOS: appendInterval,           *)
(* trimIntervals and the sums of updatePerclos (src/DmsEyeMetrics.cpp).    *)
(* An interval [start, end) holds the state the eyes were last seen in     *)
(* over that time.                                                         *)
(***************************************************************************)
EXTENDS Integers, Sequences, FiniteSets

Interval(start, end, state) == [start |-> start, end |-> end, state |-> state]

\* Seeded fault: the state is trusted across any gap.
appendIntervalAcrossGaps(intervals, last, now, state, maximumGap) ==
  Append(intervals, Interval(last, now, state))

\* A state is not trusted across a gap between samples longer than `maximumGap`.
appendInterval(intervals, last, now, state, maximumGap) ==
  Append(intervals,
         Interval(last, now, IF now - last <= maximumGap THEN state
                                                         ELSE "Unknown"))

\* What is left once the leading intervals that end by `start` are popped;
\* the intervals are in order, so none behind them ends as early.
PopEndedBy(intervals, start) ==
  LET popped ==
        Cardinality({i \in DOMAIN intervals : intervals[i].end <= start})
  IN  SubSeq(intervals, popped + 1, Len(intervals))

\* Seeded fault: the first interval that remains keeps its old start.
trimIntervalsWithoutClipping(intervals, now, window) ==
  PopEndedBy(intervals, now - window)

trimIntervals(intervals, now, window) ==
  LET start == now - window
      rest == PopEndedBy(intervals, start)
  IN  IF rest # <<>> /\ Head(rest).start < start
      THEN [rest EXCEPT ![1].start = start]
      ELSE rest

\* The time the intervals in one of `states` add up to.
TimeIn(intervals, states) ==
  LET sum[n \in 0 .. Len(intervals)] ==
        IF n = 0 THEN 0
        ELSE sum[n - 1] + (IF intervals[n].state \in states
                           THEN intervals[n].end - intervals[n].start ELSE 0)
  IN  sum[Len(intervals)]
=============================================================================
