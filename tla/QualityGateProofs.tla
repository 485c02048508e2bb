-------------------------- MODULE QualityGateProofs --------------------------
(***************************************************************************)
(* What the quality gate promises holds for every policy, every header and *)
(* every reacquisition time.  LatchFollowsQuality is inductive: it ties    *)
(* the latch of the code to the run of good samples it stands for.         *)
(***************************************************************************)
EXTENDS QualityGateHistory, TLAPS

\* Optional is not expanded below: the solver then keeps the absent value and
\* the integers apart.
LEMMA OptionalElement ==
  \A S, x : x \in Optional(S) <=> x = None \/ x \in S
BY DEF Optional

USE NoneAssumption, OptionalElement DEF ValidGateConfig

\* The classification order of the code says Usable of exactly the samples
\* that are good on every count (classifyObservation).
LEMMA UsableIsGood ==
  ASSUME NEW header \in Headers, NEW now \in Timestamps
  PROVE  classifyObservation(header, now, policy) = "Usable"
           <=> Good(header, now)
BY GateConfigAssumption, TimestampsAssumption
DEF classifyObservation, Good, Acceptable, ObservationHeader, SourceValidity,
    ObservationPolicy

LEMMA ClassificationType ==
  ASSUME NEW header \in Headers, NEW now
  PROVE  classifyObservation(header, now, policy) \in ObservationUsability
BY GateConfigAssumption, TimestampsAssumption
DEF classifyObservation, ObservationUsability, ObservationHeader, SourceValidity

HTypeOK == TypeOK /\ goodSince \in Optional(Int)

\* A run of good samples ends at the last accepted one; the verdict is what
\* the latch says.
IInv ==
  /\ HTypeOK
  /\ goodSince # None => lastTimestamp # None
  /\ LatchFollowsQuality
  /\ VerdictFollowsQuality

LEMMA InitEstablishes == HInit => IInv
BY DEF HInit, Init, IInv, HTypeOK, TypeOK, LatchFollowsQuality,
       VerdictFollowsQuality, Sustained, Elapsed, ObservationUsability

LEMMA ResetPreserves == IInv /\ HReset => IInv'
BY DEF HReset, reset, IInv, HTypeOK, TypeOK, LatchFollowsQuality,
       VerdictFollowsQuality, Sustained, Elapsed, ObservationUsability

LEMMA UpdatePreserves ==
  ASSUME IInv, NEW header \in Headers, NEW now \in Timestamps,
         HUpdate(header, now)
  PROVE  IInv'
<1> DEFINE classified == classifyObservation(header, now, policy)
<1>1. now \in Int /\ ReacquisitionConfirmation \in Nat
  BY GateConfigAssumption, TimestampsAssumption
<1>2. classified = "Usable" <=> Good(header, now)
  BY UsableIsGood
<1>3. classified \in ObservationUsability
  BY ClassificationType
<1>4. /\ lastTimestamp \in Optional(Int) /\ usableSince = goodSince
      /\ goodSince \in Optional(Int) /\ usableConfirmed \in BOOLEAN
      /\ usableConfirmed <=> Sustained
      /\ goodSince # None => lastTimestamp # None
  BY DEF IInv, HTypeOK, TypeOK, LatchFollowsQuality
<1> HIDE DEF classified
<1>5. CASE RejectTimestamp(now)
  BY <1>5 DEF HUpdate, RejectTimestamp, IInv, HTypeOK, TypeOK, Sustained,
              LatchFollowsQuality, VerdictFollowsQuality, ObservationUsability
<1>6. CASE LoseQuality(classified, now)
  <2>1. goodSince' = None /\ usableSince' = None /\ usableConfirmed' = FALSE
    BY <1>2, <1>6 DEF HUpdate, LoseQuality
  <2>2. classified \notin {"Usable", "Recovering"}
    BY <1>6, GateConfigAssumption, TimestampsAssumption
    DEF LoseQuality, classified, classifyObservation, ObservationHeader,
        SourceValidity
  <2>3. HTypeOK'
    BY <1>1, <1>3, <1>6, <2>1 DEF LoseQuality, HTypeOK, TypeOK
  <2>4. ~Sustained'
    BY <2>1 DEF Sustained, Elapsed
  <2>5. LatchFollowsQuality'
    BY <2>1, <2>4 DEF LatchFollowsQuality
  <2>6. VerdictFollowsQuality'
    BY <1>6, <2>2 DEF LoseQuality, VerdictFollowsQuality
  <2> QED
    BY <2>1, <2>3, <2>5, <2>6 DEF IInv
<1>7. CASE StayUsable(classified, now)
  <2>1. goodSince # None /\ goodSince' = goodSince /\ usableSince' = usableSince
    BY <1>2, <1>4, <1>7
    DEF HUpdate, StayUsable, StartedBy, Sustained, Elapsed
  <2>2. Sustained'
    <3>1. Sustained
      BY <1>4, <1>7 DEF StayUsable
    <3>2. goodSince \in Int /\ lastTimestamp \in Int
      BY <1>4, <2>1
    <3>3. lastTimestamp - goodSince >= ReacquisitionConfirmation
      BY <3>1 DEF Sustained, Elapsed
    <3>4. lastTimestamp' = now /\ now > lastTimestamp
      BY <1>1, <1>7, <3>2 DEF StayUsable, NotAfter
    <3> QED
      BY <1>1, <2>1, <3>2, <3>3, <3>4 DEF Sustained, Elapsed
  <2> QED
    BY <1>1, <1>4, <1>7, <2>1, <2>2
    DEF StayUsable, IInv, HTypeOK, TypeOK, ObservationUsability,
        LatchFollowsQuality, VerdictFollowsQuality
<1>8. CASE Recover(classified, now)
  <2>1. goodSince' = StartedBy(goodSince, now) /\ usableSince' = goodSince'
    BY <1>2, <1>4, <1>8 DEF HUpdate, Recover
  <2>2. goodSince' \in Int
    BY <1>1, <1>4, <2>1 DEF StartedBy
  <2>3. /\ usableConfirmed' \in BOOLEAN
        /\ usableConfirmed' <=> Sustained'
    <3>1. usableConfirmed' = (now - goodSince' >= ReacquisitionConfirmation)
      BY <1>4, <1>8, <2>1 DEF Recover
    <3>2. (now - goodSince' >= ReacquisitionConfirmation) \in BOOLEAN
      OBVIOUS
    <3>3. Sustained' <=> now - goodSince' >= ReacquisitionConfirmation
      BY <1>8, <2>2 DEF Recover, Sustained, Elapsed
    <3> QED
      BY <3>1, <3>2, <3>3, Zenon
  <2>4. verdict' = IF usableConfirmed' THEN "Usable" ELSE "Recovering"
    BY <1>8 DEF Recover
  <2>5. lastTimestamp' = now /\ goodSince' # None
    BY <1>8, <2>2 DEF Recover
  <2>6. VerdictFollowsQuality'
    BY <2>3, <2>4, <2>5 DEF VerdictFollowsQuality
  <2>7. HTypeOK'
    BY <1>1, <2>1, <2>2, <2>3, <2>4, <2>5
    DEF HTypeOK, TypeOK, ObservationUsability
  <2> QED
    <3>1. lastTimestamp' # None
      BY <1>1, <2>5
    <3> QED
      BY <2>1, <2>3, <2>6, <2>7, <3>1 DEF IInv, LatchFollowsQuality
<1> QED
  BY <1>5, <1>6, <1>7, <1>8 DEF HUpdate, update, classified

LEMMA Invariance == HSpec => []IInv
<1>1. IInv /\ [HNext]_hvars => IInv'
  <2> SUFFICES ASSUME IInv, [HNext]_hvars PROVE IInv'
    OBVIOUS
  <2>1. CASE UNCHANGED hvars
    BY <2>1 DEF hvars, owned, fsm, vars, IInv, HTypeOK, TypeOK,
                LatchFollowsQuality, VerdictFollowsQuality, Sustained
  <2> QED
    BY <2>1, ResetPreserves, UpdatePreserves DEF HNext
<1> QED
  BY <1>1, InitEstablishes, PTL DEF HSpec

\* The latch of the gate is open exactly at the end of a long enough run of
\* good samples (usableConfirmed_ and usableSince_ of ObservationQualityGate).
THEOREM LatchIsRight == HSpec => []LatchFollowsQuality
<1>1. IInv => LatchFollowsQuality
  BY DEF IInv
<1> QED
  BY <1>1, Invariance, PTL

\* What ObservationQualityGate::update returns is Usable only after such a run
\* and Recovering only before its end.
THEOREM VerdictIsRight == HSpec => []VerdictFollowsQuality
<1>1. IInv => VerdictFollowsQuality
  BY DEF IInv
<1> QED
  BY <1>1, Invariance, PTL

\* The state of the gate keeps its types.
THEOREM TypeCorrect == HSpec => []TypeOK
<1>1. IInv => TypeOK
  BY DEF IInv, HTypeOK
<1> QED
  BY <1>1, Invariance, PTL
=============================================================================
