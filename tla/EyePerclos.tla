------------------------------ MODULE EyePerclos ------------------------------
(***************************************************************************)
(* EyeMetrics beside the exact record of its window: for every instant of  *)
(* the last PerclosWindow, the state the eyes are known to have been in.   *)
(* The deque of intervals, appended to, popped and clipped one sample at a *)
(* time, has to tell the same story.                                       *)
(***************************************************************************)
EXTENDS EyeMetrics, FiniteSets

VARIABLE seen  (* seen[t]: the state over [t, t + 1)                         *)

pvars == <<vars, seen>>

\* The instants of the window that ends at ts.
Window(ts) == (ts - PerclosWindow) .. (ts - 1)

PInit == Init /\ seen = <<>>

PClear == seen' = <<>>

\* The state seen by the last sample holds until the next one, unless that
\* comes too late.
PAccept(ts, openness) ==
  /\ ~NotAfter(lastTimestamp, ts)
  /\ Sample(ts, openness)
  /\ seen' = [t \in Window(ts) |->
                IF lastTimestamp = None THEN "Unknown"
                ELSE IF t >= lastTimestamp
                  THEN IF ts - lastTimestamp <= MaximumSampleGap
                       THEN state ELSE "Unknown"
                ELSE IF t \in DOMAIN seen THEN seen[t] ELSE "Unknown"]

PNext ==
  \/ reset /\ PClear
  \/ \E c \in Calibrations : setCalibration(c) /\ PClear
  \/ \E ts \in Timestamps : RejectSample(ts) /\ UNCHANGED seen
  \/ \E ts \in Timestamps, openness \in OpennessInputs : PAccept(ts, openness)

PSpec == PInit /\ [][PNext]_pvars

-----------------------------------------------------------------------------
\* The time of the window spent in one of `states`, counted instant by instant.
SeenIn(states) == Cardinality({t \in DOMAIN seen : seen[t] \in states})

(***************************************************************************)
(* PERCLOS is the closed share of exactly the known time of the window:    *)
(* unknown time and the time across gaps counts neither above nor below    *)
(* the line (docs/STAGE20_OPERATIONAL_POLICY_RECOMMENDATION.md, item 2).   *)
(***************************************************************************)
PerclosMatchesWindow ==
  /\ TimeIn(intervals, {"Closed"}) = SeenIn({"Closed"})
  /\ TimeIn(intervals, {"Open", "Closed"}) = SeenIn({"Open", "Closed"})
  /\ result.perclos # None =>
       /\ result.perclos.closed = SeenIn({"Closed"})
       /\ result.perclos.known = SeenIn({"Open", "Closed"})
       /\ 100 * result.perclos.known >= MinimumPerclosCoverage * PerclosWindow
=============================================================================
