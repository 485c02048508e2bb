---------------------------- MODULE ServicesProofs ----------------------------
(***************************************************************************)
(* What the parts around the frame loop promise, for any number of         *)
(* threads, administrators, drivers and frames, every rate and every       *)
(* fraction of a unit.  The parts share no state: each behaves beside the  *)
(* others as its own specification says, and is proved about alone.        *)
(***************************************************************************)
EXTENDS Services, RollingWindowProofs

-----------------------------------------------------------------------------
(* LatestFrameSlot.                                                        *)
LEMMA SlotAlone == Spec => SlotSafeSpec
<1>1. Init => SlotInit
  BY DEF Init
<1>2. [Next]_vars => [SlotNext]_slotVars
  BY DEF Next, StepOf, vars
<1> QED
  BY <1>1, <1>2, PTL DEF Spec, SafeSpec, SlotSafeSpec

SlotTypeOK ==
  /\ mutex \in {None} \cup Threads
  /\ step \in [Threads -> {"outside", "counting", "superseding", "storing",
                           "looking", "moving", "consuming"}]
  /\ latest \in {None} \cup Nat
  /\ published \in Nat /\ consumed \in Nat /\ superseded \in Nat
  /\ taken \in [Consumers -> Nat]

\* The thread that holds the mutex is the only one between two statements.
MutualExclusion ==
  /\ \A t \in Threads : step[t] = "outside" <=> mutex # t
  /\ \A p \in Producers :
       step[p] \in {"outside", "counting", "superseding", "storing"}
  /\ \A c \in Consumers :
       step[c] \in {"outside", "looking", "moving", "consuming"}

\* What its statements have counted already and what they have not.
Accounted ==
  LET about == IF mutex = None THEN "outside" ELSE step[mutex] IN
  /\ about = "moving" => latest # None
  /\ about = "consuming" => latest = None
  /\ published = consumed + superseded
                 + (IF about = "storing" THEN 0 ELSE depth)
                 + (IF about \in {"superseding", "storing", "consuming"} THEN 1 ELSE 0)

\* A frame in the slot is the newest, and nobody was handed it or a newer one.
Newest == IF \E p \in Producers : InPublication(p)
          THEN published - 1 ELSE published

NewestInSlot ==
  /\ published <= MaxFrames
  /\ \A p \in Producers : step[p] = "counting" => published < MaxFrames
  /\ \A p \in Producers : InPublication(p) => 0 < published
  /\ \A c \in Consumers : taken[c] <= Newest
  /\ latest # None => /\ latest = Newest
                      /\ \A c \in Consumers : taken[c] < latest

SlotInv == SlotTypeOK /\ MutualExclusion /\ Accounted /\ NewestInSlot

LEMMA SlotInitEstablishes == SlotInit => SlotInv
BY SlotAssumption
DEF SlotInit, SlotInv, SlotTypeOK, MutualExclusion, Accounted, NewestInSlot,
    Newest, InPublication, Threads, depth

\* One statement of a publication.
LEMMA PublicationPreserves ==
  ASSUME SlotInv, NEW p \in Producers, CallPublish(p) \/ publish(p)
  PROVE  SlotInv' /\ [Register!Next]_Register!vars
<1>1. /\ p \in Threads /\ p \notin Consumers /\ None \notin Threads
      /\ MaxFrames \in Nat /\ None \notin Nat
  BY SlotAssumption DEF Threads
<1>2. CASE CallPublish(p)
  <2>1. SlotTypeOK' /\ MutualExclusion'
    BY <1>1, <1>2
    DEF CallPublish, Lock, SlotInv, SlotTypeOK, MutualExclusion, counters,
        Threads
  <2>2. Accounted'
    BY <1>1, <1>2
    DEF CallPublish, Lock, SlotInv, SlotTypeOK, Accounted, counters, depth
  <2>3. \A q \in Producers : InPublication(q)' <=> InPublication(q)
    BY <1>1, <1>2
    DEF CallPublish, Lock, SlotInv, SlotTypeOK, InPublication, Threads
  <2>4. NewestInSlot' /\ Newest' = Newest
    BY <1>1, <1>2, <2>3
    DEF CallPublish, Lock, SlotInv, SlotTypeOK, NewestInSlot, Newest, counters,
        Threads
  <2> QED
    BY <1>2, <2>1, <2>2, <2>4
    DEF SlotInv, CallPublish, Newest, Register!vars
<1>3. ASSUME publish(p)
      PROVE  mutex = p /\ \A t \in Threads \ {p} : step[t] = "outside"
  BY <1>1, <1>3
  DEF publish, CountPublished, CountSuperseded, Store, Go, SlotInv,
      MutualExclusion
<1>4. ASSUME publish(p)
      PROVE  \A q \in Producers \ {p} : ~InPublication(q) /\ ~InPublication(q)'
  BY <1>1, <1>3, <1>4
  DEF publish, CountPublished, CountSuperseded, Store, Go, SlotInv, SlotTypeOK,
      InPublication, Threads
<1>5. CASE CountPublished(p)
  <2>1. publish(p) /\ step[p] = "counting" /\ step'[p] = "superseding"
    BY <1>1, <1>5 DEF CountPublished, Go, publish, SlotInv, SlotTypeOK
  <2>2. SlotTypeOK' /\ MutualExclusion'
    BY <1>1, <1>3, <1>5, <2>1
    DEF CountPublished, Go, SlotInv, SlotTypeOK, MutualExclusion, Threads
  <2>3. Accounted'
    BY <1>1, <1>3, <1>5, <2>1
    DEF CountPublished, SlotInv, SlotTypeOK, Accounted, depth
  <2>4. Newest' = Newest
    BY <1>4, <1>5, <2>1
    DEF CountPublished, Newest, InPublication, SlotInv, SlotTypeOK
  <2>5. NewestInSlot'
    BY <1>1, <1>3, <1>5, <2>1, <2>4
    DEF CountPublished, Go, SlotInv, SlotTypeOK, NewestInSlot, InPublication,
        Threads
  <2> QED
    BY <1>5, <2>2, <2>3, <2>4, <2>5
    DEF SlotInv, CountPublished, Newest, Register!vars
<1>6. CASE CountSuperseded(p)
  <2>1. publish(p) /\ step[p] = "superseding" /\ step'[p] = "storing"
    BY <1>1, <1>6 DEF CountSuperseded, Go, publish, SlotInv, SlotTypeOK
  <2>2. SlotTypeOK' /\ MutualExclusion'
    BY <1>1, <1>3, <1>6, <2>1
    DEF CountSuperseded, Go, SlotInv, SlotTypeOK, MutualExclusion, Threads,
        depth
  <2>3. Accounted'
    BY <1>1, <1>3, <1>6, <2>1
    DEF CountSuperseded, SlotInv, SlotTypeOK, Accounted, depth
  <2>4. Newest' = Newest
    BY <1>4, <1>6, <2>1
    DEF CountSuperseded, Newest, InPublication, SlotInv, SlotTypeOK
  <2>5. NewestInSlot'
    BY <1>1, <1>3, <1>6, <2>1, <2>4
    DEF CountSuperseded, Go, SlotInv, SlotTypeOK, NewestInSlot, InPublication,
        Threads
  <2> QED
    BY <1>6, <2>2, <2>3, <2>4, <2>5
    DEF SlotInv, CountSuperseded, Newest, Register!vars
<1>7. CASE Store(p)
  <2>1. /\ publish(p) /\ mutex' = None
        /\ step[p] = "storing" /\ step'[p] = "outside"
    BY <1>1, <1>7 DEF Store, Go, Unlock, publish, SlotInv, SlotTypeOK
  <2>2. SlotTypeOK' /\ MutualExclusion'
    BY <1>1, <1>3, <1>7, <2>1
    DEF Store, Go, counters, SlotInv, SlotTypeOK, MutualExclusion, Threads
  <2>3. Accounted'
    BY <1>1, <1>3, <1>7, <2>1
    DEF Store, counters, SlotInv, SlotTypeOK, Accounted, depth
  <2>4. /\ Newest = published - 1 /\ Newest' = published
        /\ 0 < published /\ published <= MaxFrames
    BY <1>4, <1>7, <2>1
    DEF Store, counters, Newest, InPublication, SlotInv, NewestInSlot
  <2>5. \A c \in Consumers : taken[c] <= published - 1 /\ taken[c] \in Nat
    BY <2>4 DEF SlotInv, SlotTypeOK, NewestInSlot
  <2>6. NewestInSlot'
    BY <1>1, <1>3, <1>4, <1>7, <2>1, <2>4, <2>5
    DEF Store, Go, counters, SlotInv, SlotTypeOK, NewestInSlot, InPublication,
        Threads
  <2>7. Register!Publish
    BY <1>1, <1>7, <2>4 DEF Store, Register!Publish, Newest, SlotInv, SlotTypeOK
  <2> QED
    BY <2>2, <2>3, <2>6, <2>7 DEF SlotInv, Register!Next
<1> QED
  BY <1>2, <1>5, <1>6, <1>7 DEF publish

\* One statement of a call of takeLatest.
LEMMA TakePreserves ==
  ASSUME SlotInv, NEW c \in Consumers, takeLatest(c)
  PROVE  SlotInv' /\ [Register!Next]_Register!vars
<1>1. /\ c \in Threads /\ c \notin Producers /\ None \notin Threads
      /\ MaxFrames \in Nat /\ None \notin Nat
  BY SlotAssumption DEF Threads
<1>2. \A q \in Producers : InPublication(q)' <=> InPublication(q)
  BY <1>1
  DEF takeLatest, CallTake, ReturnNothing, FindFrame, MoveOut, CountConsumed,
      Lock,
      Go, SlotInv, SlotTypeOK, InPublication, Threads
<1>3. published' = published /\ Newest' = Newest
  BY <1>2
  DEF takeLatest, CallTake, ReturnNothing, FindFrame, MoveOut, CountConsumed,
      Newest, counters
<1>4. CASE CallTake(c)
  <2>1. SlotTypeOK' /\ MutualExclusion'
    BY <1>1, <1>4
    DEF CallTake, Lock, SlotInv, SlotTypeOK, MutualExclusion, counters, Threads
  <2>2. Accounted'
    BY <1>1, <1>4
    DEF CallTake, Lock, SlotInv, SlotTypeOK, Accounted, counters, depth
  <2>3. NewestInSlot'
    BY <1>1, <1>2, <1>3, <1>4
    DEF CallTake, Lock, SlotInv, SlotTypeOK, NewestInSlot, Threads
  <2> QED
    BY <1>3, <1>4, <2>1, <2>2, <2>3 DEF SlotInv, CallTake, Newest, Register!vars
<1>5. CASE ReturnNothing(c)
  <2>1. /\ step[c] = "looking" /\ step' = [step EXCEPT ![c] = "outside"]
        /\ latest = None /\ mutex' = None
        /\ UNCHANGED <<latest, published, consumed, superseded, taken>>
    BY <1>5 DEF ReturnNothing, Go, Unlock, counters
  <2>2. mutex = c /\ \A t \in Threads \ {c} : step[t] = "outside"
    BY <1>1, <2>1 DEF SlotInv, MutualExclusion
  <2>3. SlotTypeOK' /\ MutualExclusion'
    BY <1>1, <2>1, <2>2 DEF SlotInv, SlotTypeOK, MutualExclusion, Threads
  <2>4. Accounted'
    BY <1>1, <2>1, <2>2 DEF SlotInv, SlotTypeOK, Accounted, depth
  <2>5. NewestInSlot'
    BY <1>1, <1>2, <1>3, <2>1 DEF SlotInv, SlotTypeOK, NewestInSlot, Threads
  <2> QED
    BY <1>3, <2>1, <2>3, <2>4, <2>5 DEF SlotInv, Newest, Register!vars
<1>6. CASE FindFrame(c)
  <2>1. /\ step[c] = "looking" /\ step' = [step EXCEPT ![c] = "moving"]
        /\ latest # None
        /\ UNCHANGED <<mutex, latest, published, consumed, superseded, taken>>
    BY <1>6 DEF FindFrame, Go, counters
  <2>2. mutex = c
    BY <1>1, <2>1 DEF SlotInv, MutualExclusion
  <2>3. SlotTypeOK' /\ MutualExclusion'
    BY <1>1, <2>1, <2>2 DEF SlotInv, SlotTypeOK, MutualExclusion, Threads
  <2>4. Accounted'
    BY <1>1, <2>1, <2>2 DEF SlotInv, SlotTypeOK, Accounted, depth
  <2>5. NewestInSlot'
    BY <1>1, <1>2, <1>3, <2>1 DEF SlotInv, SlotTypeOK, NewestInSlot, Threads
  <2> QED
    BY <1>3, <2>1, <2>3, <2>4, <2>5 DEF SlotInv, Newest, Register!vars
<1>7. CASE MoveOut(c)
  <2>1. /\ step[c] = "moving" /\ step' = [step EXCEPT ![c] = "consuming"]
        /\ taken' = [taken EXCEPT ![c] = latest] /\ latest' = None
        /\ UNCHANGED <<mutex, published, consumed, superseded>>
    BY <1>7 DEF MoveOut, Go, counters
  <2>2. mutex = c
    BY <1>1, <2>1 DEF SlotInv, MutualExclusion
  <2>3. /\ latest # None /\ latest = Newest
        /\ \A d \in Consumers : taken[d] < Newest
    BY <1>1, <2>1, <2>2 DEF SlotInv, Accounted, NewestInSlot
  <2>4. SlotTypeOK' /\ MutualExclusion'
    BY <1>1, <2>1, <2>2, <2>3 DEF SlotInv, SlotTypeOK, MutualExclusion, Threads
  <2>5. Accounted'
    BY <1>1, <2>1, <2>2, <2>3 DEF SlotInv, SlotTypeOK, Accounted, depth
  <2>6. NewestInSlot'
    BY <1>1, <1>2, <1>3, <2>1, <2>3 DEF SlotInv, SlotTypeOK, NewestInSlot,
                                        Threads
  <2>7. Register!Take(c)
    BY <1>3, <2>1, <2>3 DEF Register!Take, Newest
  <2> QED
    BY <2>4, <2>5, <2>6, <2>7 DEF SlotInv, Register!Next
<1>8. CASE CountConsumed(c)
  <2>1. /\ step[c] = "consuming" /\ step' = [step EXCEPT ![c] = "outside"]
        /\ consumed' = consumed + 1 /\ mutex' = None
        /\ UNCHANGED <<latest, published, superseded, taken>>
    BY <1>8 DEF CountConsumed, Go, Unlock
  <2>2. mutex = c /\ \A t \in Threads \ {c} : step[t] = "outside"
    BY <1>1, <2>1 DEF SlotInv, MutualExclusion
  <2>3. SlotTypeOK' /\ MutualExclusion'
    BY <1>1, <2>1, <2>2 DEF SlotInv, SlotTypeOK, MutualExclusion, Threads
  <2>4. Accounted'
    BY <1>1, <2>1, <2>2 DEF SlotInv, SlotTypeOK, Accounted, depth
  <2>5. NewestInSlot'
    BY <1>1, <1>2, <1>3, <2>1 DEF SlotInv, SlotTypeOK, NewestInSlot, Threads
  <2> QED
    BY <1>3, <2>1, <2>3, <2>4, <2>5 DEF SlotInv, Newest, Register!vars
<1> QED
  BY <1>4, <1>5, <1>6, <1>7, <1>8 DEF takeLatest

LEMMA SlotInvariant == SlotSafeSpec => []SlotInv
<1>1. SlotInv /\ [SlotNext]_slotVars => SlotInv'
  <2>1. ASSUME SlotInv, UNCHANGED slotVars
        PROVE  SlotInv'
    BY <2>1
    DEF slotVars, counters, SlotInv, SlotTypeOK, MutualExclusion, Accounted,
        NewestInSlot, Newest, InPublication, depth
  <2> QED
    BY <2>1, PublicationPreserves, TakePreserves DEF SlotNext
<1> QED
  BY <1>1, SlotInitEstablishes, PTL DEF SlotSafeSpec

\* Every frame published is consumed, superseded or still in the slot
\* (LatestFrameSlot::Counters), for any number of threads.
THEOREM FramesAccountedFor == Spec => []EveryFrameAccountedFor
<1>1. SlotInv => EveryFrameAccountedFor
  BY DEF SlotInv, SlotTypeOK, Accounted, EveryFrameAccountedFor, depth
<1> QED
  BY <1>1, SlotAlone, SlotInvariant, PTL

\* No frame is handed out twice or after a newer one: the statements of
\* publish and takeLatest, interleaved by any number of threads, implement
\* the register.
THEOREM SlotImplementsRegister == Spec => Register!SafeSpec
<1>1. SlotInit => Register!Init
  BY SlotAssumption DEF SlotInit, Register!Init, InPublication, Threads
<1>2. SlotInv /\ [SlotNext]_slotVars => [Register!Next]_Register!vars
  <2>1. UNCHANGED slotVars => UNCHANGED Register!vars
    BY DEF slotVars, counters, Register!vars, InPublication
  <2> QED
    BY <2>1, PublicationPreserves, TakePreserves DEF SlotNext
<1> QED
  BY <1>1, <1>2, SlotAlone, SlotInvariant, PTL DEF SlotSafeSpec,
                                                   Register!SafeSpec

-----------------------------------------------------------------------------
(* BenchmarkRun and its ResourceProfiler.                                  *)
LEMMA RunAlone == Spec => RunSafeSpec
<1>1. Init => RunInit
  BY DEF Init
<1>2. [Next]_vars => [RunNext]_runVars
  BY DEF Next, StepOf, vars
<1> QED
  BY <1>1, <1>2, PTL DEF Spec, SafeSpec, RunSafeSpec

\* Before the launch, and without --resource-profile, there is no worker on
\* any path to the report.
RunInv ==
  /\ at = "starting" \/ ~options.resourceProfile => worker = "none"
  /\ NobodySamplesWhileRead

LEMMA RunInvariant == RunSafeSpec => []RunInv
<1>1. RunInit => RunInv
  BY DEF RunInit, ProfilerInit, RunInv, NobodySamplesWhileRead, NotLaunched
<1>2. RunInv /\ [RunNext]_runVars => RunInv'
  <2> SUFFICES ASSUME RunInv, [RunNext]_runVars
               PROVE  RunInv'
    OBVIOUS
  <2> USE DEF RunInv, NobodySamplesWhileRead, joinable
  <2>1. ASSUME NEW o \in Options, Launch(o)
        PROVE  RunInv'
    BY <2>1 DEF Launch, start, profilerVars
  <2>2. CASE mainStep
    <3>1. CASE Prepare \/ Fail \/ BeginFrame \/ EndLoop \/ Capture \/ InputEnds
               \/ KeepShowing \/ UserStops
               \/ \E success, calibration \in BOOLEAN :
                    Process(success, calibration)
      BY <3>1
      DEF Prepare, Fail, BeginFrame, EndLoop, Capture, InputEnds, KeepShowing,
          UserStops, Process, Reach, setPhase, profilerVars
    <3>2. CASE StopProfiler
      BY <3>2 DEF StopProfiler, Reach, setPhase, profilerVars
    <3>3. CASE RequestStop \/ JoinProfiler
      BY <3>3 DEF RequestStop, requestStop, JoinProfiler, join, Reach
    <3>4. CASE WriteReport \/ LeaveBlock
      BY <3>4 DEF WriteReport, LeaveBlock, requestStop, Reach, profilerVars
    <3>5. CASE DestroyProfiler
      BY <3>5 DEF DestroyProfiler, join, Reach, profilerVars
    <3> QED
      BY <2>2, <3>1, <3>2, <3>3, <3>4, <3>5 DEF mainStep
  <2>3. CASE workerStep
    BY <2>3 DEF workerStep, run, Leave, BeginSample, AppendSample, mainVars
  <2>4. CASE PressAnyKey
    BY <2>4 DEF PressAnyKey, Reach, profilerVars
  <2>5. CASE UNCHANGED runVars
    BY <2>5 DEF runVars, mainVars, profilerVars
  <2> QED
    BY <2>1, <2>2, <2>3, <2>4, <2>5 DEF RunNext
<1> QED
  BY <1>1, <1>2, PTL DEF RunSafeSpec

\* main reads the samples, and the process ends, only when the sampling
\* thread was joined, or never was there (ResourceProfiler::stop).
THEOREM SamplesAreReadAlone == Spec => []NobodySamplesWhileRead
<1>1. RunInv => NobodySamplesWhileRead
  BY DEF RunInv
<1> QED
  BY <1>1, RunAlone, RunInvariant, PTL

-----------------------------------------------------------------------------
(* FaceMediaPipeRuntime and MediaPipeBackend.                              *)
LEMMA BridgeAlone == Spec => BridgeSpec
<1>1. Init => BridgeInit
  BY DEF Init
<1>2. [Next]_vars => [BridgeNext]_bridgeVars
  BY DEF Next, StepOf, vars
<1> QED
  BY <1>1, <1>2, PTL DEF Spec, SafeSpec, BridgeSpec

Handles == [library : 1 .. MaxLoads, number : 1 .. MaxHandles]

Natives == [library : {NoLibrary} \cup (1 .. MaxLoads), live : SUBSET Handles,
            loads : 0 .. MaxLoads, created : 0 .. MaxHandles]

\* The backend holds a handle exactly as long as its runtime holds a library.
BridgeInv ==
  /\ native \in Natives
  /\ handle \in {NoHandle} \cup Handles /\ alive \in BOOLEAN
  /\ handle # NoHandle => isLoaded(native)
  /\ NativeHandlesAccountedFor

\* Whatever there was, a backend that is initialized or destroyed starts from
\* a process without handle and library.
LEMMA ReleaseAllReleases ==
  ASSUME BridgeInv
  PROVE  ReleaseAll(native) = [native EXCEPT !.library = NoLibrary, !.live = {}]
BY DEF BridgeInv, Natives, NativeHandlesAccountedFor, ReleaseAll, ReleaseHandle,
       DestroyHandle, CloseLibrary, isLoaded

LEMMA InitializePreserves ==
  ASSUME BridgeInv, initialize
  PROVE  BridgeInv'
<1> DEFINE released == [native EXCEPT !.library = NoLibrary, !.live = {}]
<1>1. PICK loaded \in LoadLibrary(released) : \E made \in CreateHandle(loaded) :
         IF made = loaded
         THEN native' = CloseLibrary(loaded) /\ handle' = NoHandle
         ELSE native' = made /\ handle' = NewHandle(loaded)
  BY ReleaseAllReleases DEF initialize
<1>2. PICK made \in CreateHandle(loaded) :
         IF made = loaded
         THEN native' = CloseLibrary(loaded) /\ handle' = NoHandle
         ELSE native' = made /\ handle' = NewHandle(loaded)
  BY <1>1
<1>3. /\ alive = TRUE /\ alive' = alive
      /\ native.loads < MaxLoads /\ native.created < MaxHandles
  BY DEF initialize, BridgeInv
<1>4. /\ loaded \in Natives
      /\ loaded.live = {} /\ loaded.created < MaxHandles
  <2>1. released \in Natives /\ released.live = {}
        /\ released.loads < MaxLoads /\ released.created < MaxHandles
    BY <1>3 DEF BridgeInv, Natives
  <2>2. CASE loaded = CloseLibrary(released)
    BY <2>1, <2>2 DEF CloseLibrary, Natives
  <2>3. CASE loaded = [released EXCEPT !.library = released.loads + 1,
                                       !.loads = released.loads + 1]
    <3> HIDE DEF released
    <3>1. released.loads + 1 \in 1 .. MaxLoads
          /\ released.loads + 1 \in 0 .. MaxLoads
      BY <2>1, BridgeAssumption DEF Natives
    <3> QED
      BY <2>1, <2>3, <3>1 DEF Natives
  <2> QED
    BY <1>1, <2>2, <2>3 DEF LoadLibrary
<1>5. CASE made = loaded
  BY <1>2, <1>3, <1>4, <1>5
  DEF CloseLibrary, Natives, BridgeInv, NativeHandlesAccountedFor, isLoaded
<1>6. CASE made # loaded
  <2>1. /\ isLoaded(loaded)
        /\ native' = [loaded EXCEPT !.live = loaded.live \cup {NewHandle(loaded)},
                                   !.created = loaded.created + 1]
        /\ handle' = NewHandle(loaded)
    BY <1>2, <1>6 DEF CreateHandle
  <2>2. NewHandle(loaded) \in Handles /\ NewHandle(loaded) # NoHandle
        /\ NewHandle(loaded).library = loaded.library
    BY <1>4, <2>1, BridgeAssumption DEF NewHandle, Handles, Natives, isLoaded
  <2>3. native'.live = {NewHandle(loaded)} /\ native'.library = loaded.library
    BY <1>4, <2>1 DEF Natives
  <2>4. native' \in Natives
    <3>1. loaded.created + 1 \in 0 .. MaxHandles
      BY <1>4, BridgeAssumption DEF Natives
    <3>2. loaded.live \cup {NewHandle(loaded)} \in SUBSET Handles
      BY <1>4, <2>2
    <3> QED
      BY <1>4, <2>1, <3>1, <3>2 DEF Natives
  <2> QED
    BY <1>3, <2>1, <2>2, <2>3, <2>4
    DEF BridgeInv, NativeHandlesAccountedFor, isLoaded
<1> QED
  BY <1>5, <1>6

LEMMA BridgeInvariant == BridgeSpec => []BridgeInv
<1>1. BridgeInit => BridgeInv
  BY BridgeAssumption DEF BridgeInit, BridgeInv, Natives,
                          NativeHandlesAccountedFor, isLoaded
<1>2. BridgeInv /\ [BridgeNext]_bridgeVars => BridgeInv'
  <2>1. ASSUME BridgeInv, process \/ UNCHANGED bridgeVars
        PROVE  BridgeInv'
    BY <2>1 DEF process, bridgeVars, BridgeInv, NativeHandlesAccountedFor,
                isLoaded
  <2>2. ASSUME BridgeInv, DestroyBackend
        PROVE  BridgeInv'
    BY <2>2, ReleaseAllReleases
    DEF DestroyBackend, BridgeInv, Natives, NativeHandlesAccountedFor, isLoaded
  <2> QED
    BY <2>1, <2>2, InitializePreserves DEF BridgeNext
<1> QED
  BY <1>1, <1>2, PTL DEF BridgeSpec

\* No handle outlives its library or its backend, and none is deleted by
\* another library (MediaPipeBackend::initialize).
THEOREM HandlesAccountedFor == Spec => []NativeHandlesAccountedFor
<1>1. BridgeInv => NativeHandlesAccountedFor
  BY DEF BridgeInv
<1> QED
  BY <1>1, BridgeAlone, BridgeInvariant, PTL

-----------------------------------------------------------------------------
(* RecordedFrameClock.                                                     *)
LEMMA ClockAlone == Spec => ClockSpec
<1>1. Init => ClockInit
  BY DEF Init
<1>2. [Next]_vars => [ClockNext]_clockVars
  BY DEF Next, StepOf, vars
<1> QED
  BY <1>1, <1>2, PTL DEF Spec, SafeSpec, ClockSpec

LEMMA DivBounds ==
  ASSUME NEW a \in Int, NEW n \in Nat \ {0}
  PROVE  a \div n \in Int /\ n * (a \div n) <= a /\ a < n * (a \div n) + n
OBVIOUS

LEMMA DivAbove ==
  ASSUME NEW a \in Int, NEW n \in Nat \ {0}, NEW q \in Int, n * q <= a
  PROVE  q <= a \div n
<1>1. n * q < n * ((a \div n) + 1)
  BY DivBounds
<1>2. q < (a \div n) + 1
  BY <1>1, DivBounds
<1> QED
  BY <1>2, DivBounds

\* The truncations of the period and of a stamp add up to no more than that of
\* the next stamp, if that is due.
LEMMA TruncationsLagBehind ==
  ASSUME NEW u \in Nat \ {0}, NEW n \in Nat \ {0}, NEW r \in Nat \ {0},
         NEW a \in Int, NEW d \in Int, u * n <= d * r
  PROVE  (a \div n) + (u \div r) <= (a + d) \div n
<1> DEFINE q == a \div n
           p == u \div r
<1>1. q \in Int /\ p \in Int /\ n * q <= a /\ r * p <= u
  BY DivBounds
<1> HIDE DEF q, p
<1>2. n * (r * p) <= n * u
  BY <1>1
<1>3. r * (n * p) <= r * d
  BY <1>1, <1>2
<1>4. n * p <= d
  BY <1>1, <1>3
<1>5. n * (q + p) <= a + d
  BY <1>1, <1>4
<1>6. q + p <= (a + d) \div n
  BY <1>1, <1>5, DivAbove
<1> QED
  BY <1>6 DEF q, p

\* What the clock keeps; of a recording stamped evenly so far, the container's
\* own time.
ClockInv ==
  /\ rate \in Rates /\ period = UnitsPerSecond \div rate
  /\ timestamp \in Int /\ started \in BOOLEAN
  /\ origin \in {NoOrigin} \cup (0 .. MaxStamp)
  /\ kind = "none" => ~started
  /\ ~started => timestamp = 0
  /\ started /\ evenly => /\ lastStamp \in 0 .. MaxStamp
                          /\ origin \in 0 .. MaxStamp /\ origin <= lastStamp
                          /\ timestamp = SourceTime(lastStamp)

LEMMA PeriodIsPositive ==
  ASSUME ClockInv
  PROVE  period \in Int /\ 0 < period
<1>1. rate \in Nat \ {0} /\ rate * 1 <= UnitsPerSecond /\ UnitsPerSecond \in Int
  BY ClockAssumption DEF ClockInv
<1>2. 1 <= UnitsPerSecond \div rate /\ UnitsPerSecond \div rate \in Int
  BY <1>1, DivAbove, DivBounds
<1> QED
  BY <1>2 DEF ClockInv

LEMMA AdvancePreserves ==
  ASSUME ClockInv, kind # "none",
         NEW stamp \in {NoStamp} \cup (0 .. MaxStamp), advance(stamp),
         kind' = kind
  PROVE  ClockInv' /\ (started => timestamp + period <= timestamp')
<1>1. /\ UnitsPerSecond \in Nat \ {0} /\ TicksPerUnit \in Nat \ {0}
      /\ Rates \subseteq Nat \ {0}
      /\ NoStamp \notin 0 .. MaxStamp /\ NoOrigin \notin 0 .. MaxStamp
  BY ClockAssumption
<1>2. period \in Int /\ 0 < period
  BY PeriodIsPositive
<1>3. CASE FirstFrame(stamp)
  <2>1. 0 \div TicksPerUnit = 0
    BY <1>1
  <2>2. evenly' => stamp \in 0 .. MaxStamp
    BY <1>1 DEF advance
  <2> QED
    BY <1>1, <1>3, <2>1, <2>2 DEF FirstFrame, advance, ClockInv, SourceTime
<1>4. CASE LaterFrame(stamp)
  <2>1. /\ started /\ started'
        /\ period' = period /\ origin' = origin /\ rate' = rate
    BY <1>4 DEF LaterFrame, advance
  <2>2. origin # NoOrigin /\ stamp # NoStamp => SourceTime(stamp) \in Int
    BY <1>1, DivBounds DEF SourceTime, ClockInv
  <2>3. timestamp' \in Int /\ timestamp + period <= timestamp'
    BY <1>2, <1>4, <2>2 DEF LaterFrame, LaterOf, ClockInv
  <2>4. ASSUME evenly'
        PROVE  /\ stamp \in 0 .. MaxStamp /\ origin \in 0 .. MaxStamp
               /\ origin <= stamp /\ timestamp' = SourceTime(stamp)
    <3>1. /\ evenly /\ stamp \in 0 .. MaxStamp /\ InTime(stamp)
          /\ lastStamp \in 0 .. MaxStamp /\ origin \in 0 .. MaxStamp
          /\ origin <= lastStamp /\ timestamp = SourceTime(lastStamp)
      BY <2>1, <2>4 DEF advance, ClockInv
    <3>2. rate \in Nat \ {0} /\ period = UnitsPerSecond \div rate
      BY <1>1 DEF ClockInv
    <3>3. UnitsPerSecond * TicksPerUnit <= (stamp - lastStamp) * rate
      BY <1>1, <3>1, <3>2 DEF InTime
    <3>4. lastStamp <= stamp
      <4>1. 0 < UnitsPerSecond * TicksPerUnit
        BY <1>1
      <4>2. 0 < (stamp - lastStamp) * rate
        BY <1>1, <3>1, <3>2, <3>3, <4>1
      <4> QED
        BY <3>1, <3>2, <4>2
    <3>5. (lastStamp - origin) \div TicksPerUnit + UnitsPerSecond \div rate
            <= ((lastStamp - origin) + (stamp - lastStamp)) \div TicksPerUnit
      <4> DEFINE a == lastStamp - origin
                 d == stamp - lastStamp
      <4>1. a \in Int /\ d \in Int /\ UnitsPerSecond * TicksPerUnit <= d * rate
        BY <3>1, <3>3
      <4> HIDE DEF a, d
      <4>2. (a \div TicksPerUnit) + (UnitsPerSecond \div rate)
              <= (a + d) \div TicksPerUnit
        BY ONLY <1>1, <3>2, <4>1, TruncationsLagBehind
      <4> QED
        BY <4>2 DEF a, d
    <3>6. (lastStamp - origin) + (stamp - lastStamp) = stamp - origin
      BY <3>1
    <3>7. timestamp + period <= SourceTime(stamp)
      BY <3>1, <3>2, <3>5, <3>6 DEF SourceTime
    <3> QED
      BY <1>1, <1>2, <1>4, <2>2, <3>1, <3>4, <3>7 DEF LaterFrame, LaterOf,
                                                      ClockInv
  <2>5. lastStamp' = stamp
    BY DEF advance
  <2> QED
    BY <2>1, <2>3, <2>4, <2>5 DEF ClockInv, SourceTime
<1> QED
  BY <1>3, <1>4 DEF advance

LEMMA NextPreserves ==
  ASSUME ClockInv, next
  PROVE  ClockInv' /\ (started => timestamp + period <= timestamp')
<1>1. PICK stamp \in {NoStamp} \cup (0 .. MaxStamp) :
             kind # "none" /\ advance(stamp)
  BY DEF next, NextOfSequence, NextOfImage, NextOfCapture
<1>2. kind' = kind
  BY <1>1 DEF advance
<1> QED
  BY <1>1, <1>2, AdvancePreserves

LEMMA ClockInvariant == ClockSpec => []ClockInv
<1>1. ASSUME ClockInit
      PROVE  ClockInv
  <2>1. rate \in Rates /\ period = UnitsPerSecond \div rate
    BY <1>1, ClockAssumption DEF ClockInit, framePeriod
  <2>2. /\ timestamp \in Int /\ started = FALSE
        /\ timestamp = 0 /\ origin = NoOrigin
    BY <1>1 DEF ClockInit
  <2> QED
    BY <2>1, <2>2 DEF ClockInv
<1>2. ClockInv /\ [ClockNext]_clockVars => ClockInv'
  <2>1. ASSUME ClockInv,
               NEW k \in {"camera", "video", "image-sequence", "image-repeat"},
               NEW r \in {UnusableRate} \cup Rates, Open(k, r)
        PROVE  ClockInv'
    BY <2>1, ClockAssumption DEF Open, ClockInv, framePeriod
  <2>2. ASSUME ClockInv, UNCHANGED clockVars
        PROVE  ClockInv'
    BY <2>2 DEF clockVars, recordVars, ClockInv, SourceTime
  <2> QED
    BY <2>1, <2>2, NextPreserves DEF ClockNext
<1> QED
  BY <1>1, <1>2, PTL DEF ClockSpec

\* Two frames of an input are at least its nominal period apart, whatever the
\* container stamps (RecordedFrameClock::advance), at any rate.
THEOREM FramesAreApart == Spec => FramesArePeriodsApart
<1>1. ASSUME ClockInv, [ClockNext]_clockVars
      PROVE  [next /\ started =>
                0 < period /\ timestamp + period <= timestamp']_clockVars
  BY <1>1, NextPreserves, PeriodIsPositive
<1> QED
  BY <1>1, ClockAlone, ClockInvariant, PTL DEF ClockSpec, FramesArePeriodsApart

\* The truncations of the clock never accumulate ahead of the container
\* (framePeriod and RecordedFrameClock::advance), at any rate, for any fraction
\* of a unit and for a recording of any length.
THEOREM EvenRecordingsKeepTheirTime == Spec => []EvenRecordingKeepsItsTime
<1>1. ClockInv => EvenRecordingKeepsItsTime
  BY DEF ClockInv, EvenRecordingKeepsItsTime
<1> QED
  BY <1>1, ClockAlone, ClockInvariant, PTL

-----------------------------------------------------------------------------
(* EyeStatistics.                                                          *)
LEMMA StatisticsAlone == Spec => StatisticsSpec
<1>1. Init => StatisticsInit
  BY DEF Init
<1>2. [Next]_vars => [StatisticsNext]_statisticsVars
  BY DEF Next, StepOf, vars
<1> QED
  BY <1>1, <1>2, PTL DEF Spec, SafeSpec, StatisticsSpec

\* The units of a record spent in one of `states`.
Units(record, states) == {u \in DOMAIN record : record[u] \in states}

\* The record by instant, over the window that ends at lastTimestamp.
HeldAt ==
  [t \in (lastTimestamp - StatisticsWindow) .. (lastTimestamp - 1) |->
     IF t < epoch THEN "Unknown" ELSE watched[t - epoch + 1]]

StatisticsTypes ==
  /\ hasTimestamp \in BOOLEAN /\ epoch \in Int /\ lastTimestamp \in Int
  /\ lastState \in HeldState /\ watched \in Seq(HeldState)
  /\ blinkEvents \in Seq(Int)
  /\ IsFiniteSet(blinks) /\ blinks \subseteq Int

\* Before the first sample there is nothing to tell.
NothingWatched ==
  ~hasTimestamp =>
    /\ watched = <<>> /\ intervals = <<>> /\ blinkEvents = <<>> /\ blinks = {}
    /\ cumulativeKnown = 0 /\ cumulativeOpen = 0 /\ cumulativeBlinks = 0

\* The sums are those of the record, which reaches from the first sample to the
\* last.
SumsOfRecord ==
  /\ hasTimestamp =>
       epoch <= lastTimestamp /\ Len(watched) = lastTimestamp - epoch
  /\ cumulativeKnown = Cardinality(Units(watched, {"Open", "Closed"}))
  /\ cumulativeOpen = Cardinality(Units(watched, {"Open"}))
  /\ cumulativeBlinks = Cardinality(blinks)

\* The queues hold what the record holds of the window.
QueuesOfRecord ==
  hasTimestamp =>
    /\ Records(intervals, HeldAt, lastTimestamp - StatisticsWindow,
               lastTimestamp)
    /\ \A t \in blinks : t <= lastTimestamp
    /\ InOrder(blinkEvents)
    /\ Times(blinkEvents) =
         {t \in blinks : t >= lastTimestamp - StatisticsWindow}

StatisticsInv ==
  StatisticsTypes /\ NothingWatched /\ SumsOfRecord /\ QueuesOfRecord

LEMMA StatisticsConfig ==
  /\ StatisticsTimes \subseteq Int
  /\ StatisticsWindow \in Int /\ 0 < StatisticsWindow /\ StatisticsGap \in Int
BY StatisticsAssumption

\* A record that goes on for d units in one state.
Continued(w, d, st) == w \o [u \in 1 .. d |-> st]

LEMMA RecordGoesOn ==
  ASSUME NEW w \in Seq(HeldState), NEW d \in Nat, NEW st \in HeldState
  PROVE  /\ Continued(w, d, st) \in Seq(HeldState)
         /\ Len(Continued(w, d, st)) = Len(w) + d
         /\ \A u \in 1 .. Len(w) : Continued(w, d, st)[u] = w[u]
         /\ \A u \in (Len(w) + 1) .. (Len(w) + d) :
              Continued(w, d, st)[u] = st
<1> DEFINE more == [u \in 1 .. d |-> st]
<1>1. more \in Seq(HeldState) /\ Len(more) = d /\ \A u \in 1 .. d : more[u] = st
  OBVIOUS
<1> HIDE DEF more
<1>2. /\ w \o more \in Seq(HeldState) /\ Len(w \o more) = Len(w) + Len(more)
      /\ \A u \in 1 .. Len(w) + Len(more) :
           (w \o more)[u] = IF u <= Len(w) THEN w[u] ELSE more[u - Len(w)]
  BY <1>1, ConcatProperties
<1>3. Len(w) \in Nat
  OBVIOUS
<1>4. \A u \in 1 .. Len(w) : (w \o more)[u] = w[u]
  BY <1>1, <1>2, <1>3
<1>5. \A u \in (Len(w) + 1) .. (Len(w) + d) : (w \o more)[u] = st
  <2> SUFFICES ASSUME NEW u \in (Len(w) + 1) .. (Len(w) + d)
               PROVE  (w \o more)[u] = st
    OBVIOUS
  <2>1. u \in 1 .. Len(w) + Len(more) /\ ~(u <= Len(w)) /\ u - Len(w) \in 1 .. d
    BY <1>1, <1>3
  <2> QED
    BY <1>1, <1>2, <2>1
<1> QED
  BY <1>1, <1>2, <1>4, <1>5 DEF more, Continued

\* Its units in some states are as many more as it goes on in one of them.
LEMMA UnitsOfLongerRecord ==
  ASSUME NEW w \in Seq(HeldState), NEW d \in Nat, NEW st \in HeldState,
         NEW states
  PROVE  /\ IsFiniteSet(Units(Continued(w, d, st), states))
         /\ Cardinality(Units(Continued(w, d, st), states)) =
              Cardinality(Units(w, states)) + (IF st \in states THEN d ELSE 0)
<1> DEFINE n == Len(w)
           longer == Continued(w, d, st)
           old == Units(w, states)
           new == IF st \in states THEN (n + 1) .. (n + d) ELSE {}
<1>1. /\ longer \in Seq(HeldState) /\ Len(longer) = n + d
      /\ \A u \in 1 .. n : longer[u] = w[u]
      /\ \A u \in (n + 1) .. (n + d) : longer[u] = st
  BY RecordGoesOn
<1>2. n \in Nat /\ DOMAIN w = 1 .. n
  OBVIOUS
<1> HIDE DEF longer, n
<1>3. DOMAIN longer = 1 .. n + d
  BY <1>1
<1>4. old \in SUBSET (1 .. n) /\ IsFiniteSet(old)
  <2>1. IsFiniteSet(1 .. n)
    BY <1>2, FS_Interval
  <2>2. old \in SUBSET (1 .. n)
    BY <1>2 DEF Units
  <2> QED
    BY <2>1, <2>2, FS_Subset
<1>5. IsFiniteSet(new) /\ Cardinality(new) = IF st \in states THEN d ELSE 0
  <2>1. CASE st \in states
    <3>0. n + 1 \in Int /\ n + d + 1 \in Int /\ n + 1 <= n + d + 1
      BY <1>2
    <3>1. /\ IsFiniteSet((n + 1) .. ((n + d + 1) - 1))
          /\ Cardinality((n + 1) .. ((n + d + 1) - 1)) = (n + d + 1) - (n + 1)
      BY <3>0, SpanSize
    <3>2. (n + d + 1) - 1 = n + d /\ (n + d + 1) - (n + 1) = d
      BY <1>2
    <3>3. new = (n + 1) .. (n + d)
      BY <2>1
    <3> HIDE DEF new
    <3> QED
      BY <2>1, <3>1, <3>2, <3>3
  <2>2. CASE st \notin states
    <3>1. new = {}
      BY <2>2
    <3> HIDE DEF new
    <3> QED
      BY <2>2, <3>1, FS_EmptySet
  <2> QED
    BY <2>1, <2>2
<1>6. Units(longer, states) = old \cup new
  <2>1. \A u \in 1 .. n + d : u \in 1 .. n \/ u \in (n + 1) .. (n + d)
    BY <1>2
  <2>2. 1 .. n \subseteq 1 .. n + d /\ (n + 1) .. (n + d) \subseteq 1 .. n + d
    BY <1>2
  <2> QED
    BY <1>1, <1>2, <1>3, <2>1, <2>2 DEF Units
<1>7. old \cap new = {}
  <2>1. new \subseteq (n + 1) .. (n + d)
    OBVIOUS
  <2>2. \A u \in 1 .. n : u \notin (n + 1) .. (n + d)
    BY <1>2
  <2> HIDE DEF new
  <2> QED
    BY <1>4, <2>1, <2>2
<1> HIDE DEF new, old
<1>8. /\ IsFiniteSet(old \cup new)
      /\ Cardinality(old \cup new) =
           Cardinality(old) + Cardinality(new) - Cardinality(old \cap new)
  BY <1>4, <1>5, FS_Union
<1>9. Cardinality(old \cap new) = 0
  BY <1>7, FS_EmptySet
<1>10. Cardinality(old) \in Nat /\ Cardinality(new) \in Nat
  BY <1>4, <1>5, FS_CardinalityType
<1>11. Cardinality(old \cup new) = Cardinality(old) + Cardinality(new)
  BY <1>8, <1>9, <1>10
<1> QED
  BY <1>5, <1>6, <1>8, <1>11 DEF longer, old

\* MovingRecords, with names for the beginnings of the two windows.
LEMMA MovedRecords ==
  ASSUME NEW s, NEW held, NEW window \in Int, 0 <= window,
         NEW last \in Int, NEW now \in Int, last < now,
         NEW from, from = last - window, NEW to, to = now - window,
         Records(s, held, from, last),
         NEW st \in HeldState, NEW gap \in Int, NEW kept,
         \A t \in to .. (now - 1) :
           kept[t] = IF t < last THEN held[t]
                     ELSE IF now - last <= gap THEN st ELSE "Unknown"
  PROVE  Records(trimIntervals(appendInterval(s, last, now, st, gap),
                               now, window),
                 kept, to, now)
BY MovingRecords

LEMMA FirstSamplePreserves ==
  ASSUME StatisticsInv, NEW ts \in StatisticsTimes,
         NEW state \in EyeStates, NEW blinkEvent \in BOOLEAN,
         FirstSample(ts, blinkEvent),
         lastTimestamp' = ts, lastState' = state,
         CountBlink(ts, blinkEvent)
  PROVE  StatisticsInv'
<1>1. /\ watched = <<>> /\ intervals = <<>> /\ blinkEvents = <<>>
      /\ blinks = {} /\ cumulativeBlinks = 0 /\ ts \in Int
      /\ hasTimestamp' = TRUE /\ epoch' = ts
      /\ cumulativeKnown' = cumulativeKnown /\ cumulativeOpen' = cumulativeOpen
      /\ intervals' = <<>> /\ watched' = watched
      /\ cumulativeKnown = Cardinality(Units(watched, {"Open", "Closed"}))
      /\ cumulativeOpen = Cardinality(Units(watched, {"Open"}))
  BY StatisticsConfig
  DEF StatisticsInv, NothingWatched, SumsOfRecord, FirstSample
<1>2. /\ IsFiniteSet(blinks') /\ blinks' \subseteq {ts}
      /\ cumulativeBlinks' = Cardinality(blinks')
      /\ blinkEvents' \in Seq(Int) /\ InOrder(blinkEvents')
      /\ Times(blinkEvents') = blinks'
  <2>1. CASE blinkEvent
    <3>1. /\ blinks' = {ts} /\ cumulativeBlinks' = 1
          /\ blinkEvents' = <<ts>>
      BY <1>1, <2>1 DEF CountBlink, FirstSample, AppendBlink
    <3>2. /\ <<ts>> \in Seq(Int) /\ DOMAIN <<ts>> = {1}
          /\ <<ts>>[1] = ts
      BY <1>1
    <3>3. InOrder(<<ts>>) /\ Times(<<ts>>) = {ts}
      BY <3>2 DEF InOrder, Times
    <3> QED
      BY <3>1, <3>2, <3>3, FS_Singleton
  <2>2. CASE ~blinkEvent
    <3>1. blinks' = {} /\ cumulativeBlinks' = 0 /\ blinkEvents' = <<>>
      BY <1>1, <2>2 DEF CountBlink, FirstSample, AppendBlink
    <3>2. <<>> \in Seq(Int) /\ DOMAIN <<>> = {}
      OBVIOUS
    <3>3. InOrder(<<>>) /\ Times(<<>>) = {}
      BY <3>2 DEF InOrder, Times
    <3> QED
      BY <3>1, <3>2, <3>3, FS_EmptySet
  <2> QED
    BY <2>1, <2>2
<1>3. StatisticsTypes'
  BY <1>1, <1>2 DEF StatisticsInv, StatisticsTypes, EyeStates, HeldState
<1>4. SumsOfRecord'
  <2>1. Len(watched') = 0
    BY <1>1
  <2> QED
    BY <1>1, <1>2, <2>1 DEF SumsOfRecord, Units
<1>5. QueuesOfRecord'
  <2>1. \A t \in (ts - StatisticsWindow) .. (ts - 1) :
          HeldAt'[t] = "Unknown"
    BY <1>1, StatisticsConfig DEF HeldAt
  <2>2. Records(<<>>, HeldAt', ts - StatisticsWindow, ts)
    BY <2>1, NothingRecorded
  <2>3. \A t \in blinks' :
          t <= ts /\ t >= ts - StatisticsWindow
    BY <1>1, <1>2, StatisticsConfig
  <2>4. blinks' = {t \in blinks' : t >= ts - StatisticsWindow}
    BY <2>3
  <2> QED
    BY <1>1, <1>2, <2>2, <2>3, <2>4 DEF QueuesOfRecord
<1>6. NothingWatched'
  BY <1>1 DEF NothingWatched
<1> QED
  BY <1>3, <1>4, <1>5, <1>6 DEF StatisticsInv

\* The blinks that stay are those of the window and the new one.
LEMMA BlinksMoveOn ==
  ASSUME StatisticsInv, hasTimestamp, NEW ts \in Int,
         lastTimestamp < ts, NEW blinkEvent \in BOOLEAN,
         CountBlink(ts, blinkEvent)
  PROVE  LET events == trimBlinks(AppendBlink(ts, blinkEvent),
                                  ts - StatisticsWindow) IN
         /\ events \in Seq(Int) /\ InOrder(events)
         /\ Times(events) = {t \in blinks' : t >= ts - StatisticsWindow}
         /\ IsFiniteSet(blinks') /\ blinks' \subseteq Int
         /\ \A t \in blinks' : t <= ts
         /\ cumulativeBlinks' = Cardinality(blinks')
<1> DEFINE appended == AppendBlink(ts, blinkEvent)
           events == trimBlinks(appended, ts - StatisticsWindow)
<1>1. /\ lastTimestamp \in Int /\ blinkEvents \in Seq(Int)
      /\ IsFiniteSet(blinks) /\ blinks \subseteq Int
      /\ InOrder(blinkEvents)
      /\ \A t \in blinks : t <= lastTimestamp
      /\ Times(blinkEvents) =
           {t \in blinks : t >= lastTimestamp - StatisticsWindow}
      /\ cumulativeBlinks = Cardinality(blinks)
  BY DEF StatisticsInv, StatisticsTypes, QueuesOfRecord, SumsOfRecord
<1>2. \A t \in blinks : t < ts
  BY <1>1
<1>3. \A t \in Times(blinkEvents) : t < ts
  BY <1>1, <1>2
<1>4. /\ IsFiniteSet(blinks') /\ blinks' \subseteq Int
      /\ \A t \in blinks' : t <= ts
      /\ cumulativeBlinks' = Cardinality(blinks')
  <2>1. CASE blinkEvent
    <3>1. /\ blinks' = blinks \cup {ts}
          /\ cumulativeBlinks' = cumulativeBlinks + 1
      BY <2>1 DEF CountBlink
    <3>2. ts \notin blinks
      BY <1>1, <1>2
    <3>3. /\ IsFiniteSet(blinks \cup {ts})
          /\ Cardinality(blinks \cup {ts}) = Cardinality(blinks) + 1
      BY <1>1, <3>2, FS_AddElement
    <3>4. cumulativeBlinks' = Cardinality(blinks')
      BY <1>1, <3>1, <3>3
    <3>5. \A t \in blinks \cup {ts} : t \in Int /\ t <= ts
      BY <1>1, <1>2
    <3> QED
      BY <3>1, <3>3, <3>4, <3>5
  <2>2. CASE ~blinkEvent
    <3>1. blinks' = blinks /\ cumulativeBlinks' = cumulativeBlinks
      BY <2>2 DEF CountBlink
    <3> QED
      BY <1>1, <1>2, <3>1
  <2> QED
    BY <2>1, <2>2
<1>5. /\ appended \in Seq(Int) /\ InOrder(appended)
      /\ Times(appended) = Times(blinkEvents) \cup (blinks' \ blinks)
      /\ blinks' \ blinks \subseteq {ts} /\ blinks \subseteq blinks'
  <2>1. CASE blinkEvent
    <3>1. appended = blinkEvents \o <<ts>>
      BY <1>1, <2>1 DEF AppendBlink
    <3>2. blinks' = blinks \cup {ts} /\ ts \notin blinks
      BY <1>1, <1>2, <2>1 DEF CountBlink
    <3>3. blinks' \ blinks = {ts} /\ blinks \subseteq blinks'
      BY <3>2
    <3> HIDE DEF appended
    <3> QED
      BY <1>1, <1>3, <3>1, <3>3, AppendingKeepsOrder
  <2>2. CASE ~blinkEvent
    BY <1>1, <2>2 DEF AppendBlink, CountBlink
  <2> QED
    BY <2>1, <2>2
<1> HIDE DEF appended
<1>6. events = Young(appended, ts, StatisticsWindow)
  <2>1. \A i \in DOMAIN appended : appended[i] \in Int
    BY <1>5
  <2>2. \A i \in DOMAIN appended :
          appended[i] < ts - StatisticsWindow
            <=> ts - appended[i] > StatisticsWindow
    BY <2>1, StatisticsConfig
  <2>3. {i \in DOMAIN appended : appended[i] < ts - StatisticsWindow} =
          {i \in DOMAIN appended : ts - appended[i] > StatisticsWindow}
    BY <2>2
  <2> QED
    BY <2>3, Zenon DEF trimBlinks, Young
<1>7. /\ events \in Seq(Int) /\ InOrder(events)
      /\ Times(events) =
           {t \in Times(appended) : t >= ts - StatisticsWindow}
  <2> HIDE DEF events
  <2> QED
    BY <1>5, <1>6, StatisticsConfig, PoppingLeavesTheYoung
<1>8. {t \in Times(appended) : t >= ts - StatisticsWindow} =
        {t \in blinks' : t >= ts - StatisticsWindow}
  <2>1. ASSUME NEW t \in blinks, t >= ts - StatisticsWindow
        PROVE  t \in Times(blinkEvents)
    <3>1. t >= lastTimestamp - StatisticsWindow
      BY <1>1, <2>1, StatisticsConfig
    <3> QED
      BY <1>1, <3>1
  <2>2. Times(blinkEvents) \subseteq blinks
    BY <1>1
  <2> QED
    BY <1>5, <2>1, <2>2
<1> QED
  BY <1>4, <1>7, <1>8 DEF appended

\* A sample moves the sums and the queues on with the record.
LEMMA NextSamplePreserves ==
  ASSUME StatisticsInv, NEW ts \in StatisticsTimes,
         NEW state \in EyeStates, NEW blinkEvent \in BOOLEAN,
         NextSample(ts, blinkEvent),
         lastTimestamp' = ts, lastState' = state,
         CountBlink(ts, blinkEvent)
  PROVE  StatisticsInv'
<1> DEFINE duration == ts - lastTimestamp
           held == IF duration <= StatisticsGap THEN lastState ELSE "Unknown"
<1>1. /\ hasTimestamp /\ lastTimestamp < ts /\ ts \in Int
      /\ hasTimestamp' = hasTimestamp /\ epoch' = epoch
      /\ epoch \in Int /\ lastTimestamp \in Int /\ lastState \in HeldState
      /\ watched \in Seq(HeldState)
      /\ epoch <= lastTimestamp /\ Len(watched) = lastTimestamp - epoch
      /\ cumulativeKnown = Cardinality(Units(watched, {"Open", "Closed"}))
      /\ cumulativeOpen = Cardinality(Units(watched, {"Open"}))
      /\ Records(intervals, HeldAt, lastTimestamp - StatisticsWindow,
                 lastTimestamp)
  BY StatisticsConfig
  DEF StatisticsInv, StatisticsTypes, SumsOfRecord, QueuesOfRecord, NextSample
<1>2. /\ cumulativeKnown' =
           cumulativeKnown + (IF held # "Unknown" THEN duration ELSE 0)
      /\ cumulativeOpen' =
           cumulativeOpen + (IF held = "Open" THEN duration ELSE 0)
      /\ watched' = Continued(watched, duration, held)
      /\ intervals' =
           trimIntervals(appendInterval(intervals, lastTimestamp, ts,
                                        lastState, StatisticsGap),
                         ts, StatisticsWindow)
      /\ blinkEvents' = trimBlinks(AppendBlink(ts, blinkEvent),
                                   ts - StatisticsWindow)
  BY DEF NextSample, Continued
<1>3. duration \in Nat /\ held \in HeldState
  BY <1>1 DEF HeldState
<1>4. \A t \in lastTimestamp .. (ts - 1) :
        held = IF ts - lastTimestamp <= StatisticsGap THEN lastState
               ELSE "Unknown"
  OBVIOUS
<1>5. duration = ts - lastTimestamp
  OBVIOUS
<1> HIDE DEF held, duration
<1>6. /\ watched' \in Seq(HeldState)
      /\ Len(watched') = Len(watched) + duration
      /\ \A u \in 1 .. Len(watched) : watched'[u] = watched[u]
      /\ \A u \in (Len(watched) + 1) .. (Len(watched) + duration) :
           watched'[u] = held
  <2>1. /\ Continued(watched, duration, held) \in Seq(HeldState)
        /\ Len(Continued(watched, duration, held)) = Len(watched) + duration
        /\ \A u \in 1 .. Len(watched) :
             Continued(watched, duration, held)[u] = watched[u]
        /\ \A u \in (Len(watched) + 1) .. (Len(watched) + duration) :
             Continued(watched, duration, held)[u] = held
    BY <1>1, <1>3, RecordGoesOn
  <2>2. watched' = Continued(watched, duration, held)
    BY <1>2
  <2> QED
    BY <2>1, <2>2
<1>7. Len(watched') = ts - epoch
  BY <1>1, <1>5, <1>6
<1>8. /\ cumulativeKnown' = Cardinality(Units(watched', {"Open", "Closed"}))
      /\ cumulativeOpen' = Cardinality(Units(watched', {"Open"}))
  <2>1. /\ held \in {"Open", "Closed"} <=> held # "Unknown"
        /\ held \in {"Open"} <=> held = "Open"
    BY <1>3 DEF HeldState
  <2>2. Cardinality(Units(watched', {"Open", "Closed"})) =
          Cardinality(Units(watched, {"Open", "Closed"}))
            + (IF held \in {"Open", "Closed"} THEN duration ELSE 0)
    BY <1>1, <1>2, <1>3, UnitsOfLongerRecord
  <2>3. Cardinality(Units(watched', {"Open"})) =
          Cardinality(Units(watched, {"Open"}))
            + (IF held \in {"Open"} THEN duration ELSE 0)
    BY <1>1, <1>2, <1>3, UnitsOfLongerRecord
  <2> QED
    BY <1>1, <1>2, <2>1, <2>2, <2>3
<1>9. \A t \in (ts - StatisticsWindow) .. (ts - 1) :
        HeldAt'[t] = IF t < lastTimestamp THEN HeldAt[t]
                     ELSE IF ts - lastTimestamp <= StatisticsGap
                          THEN lastState ELSE "Unknown"
  <2> SUFFICES ASSUME NEW t \in (ts - StatisticsWindow) .. (ts - 1)
               PROVE  HeldAt'[t] =
                        IF t < lastTimestamp THEN HeldAt[t]
                        ELSE IF ts - lastTimestamp <= StatisticsGap
                             THEN lastState ELSE "Unknown"
    OBVIOUS
  <2>1. HeldAt'[t] = IF t < epoch THEN "Unknown" ELSE watched'[t - epoch + 1]
    BY <1>1 DEF HeldAt
  <2>2. t \in Int /\ t < ts
    BY <1>1, StatisticsConfig
  <2>3. CASE t < lastTimestamp
    <3>1. t \in (lastTimestamp - StatisticsWindow) .. (lastTimestamp - 1)
      BY <1>1, <2>2, <2>3, StatisticsConfig
    <3>2. HeldAt[t] = IF t < epoch THEN "Unknown" ELSE watched[t - epoch + 1]
      BY <3>1 DEF HeldAt
    <3>3. ~(t < epoch) => t - epoch + 1 \in 1 .. Len(watched)
      BY <1>1, <2>2, <2>3
    <3> QED
      BY <1>6, <2>1, <2>3, <3>2, <3>3
  <2>4. CASE ~(t < lastTimestamp)
    <3>1. /\ ~(t < epoch)
          /\ t - epoch + 1 \in (Len(watched) + 1) .. (Len(watched) + duration)
      BY <1>1, <1>5, <2>2, <2>4
    <3>2. t \in lastTimestamp .. (ts - 1)
      BY <1>1, <2>2, <2>4
    <3> QED
      BY <1>4, <1>6, <2>1, <2>4, <3>1, <3>2
  <2> QED
    BY <2>3, <2>4
<1>10. Records(intervals', HeldAt', ts - StatisticsWindow, ts)
  <2> DEFINE from == lastTimestamp - StatisticsWindow
             to == ts - StatisticsWindow
             before == HeldAt
             kept == HeldAt'
  <2>1. /\ 0 <= StatisticsWindow /\ StatisticsWindow \in Int
        /\ StatisticsGap \in Int
    BY StatisticsConfig
  <2>2. /\ lastTimestamp \in Int /\ ts \in Int
        /\ lastTimestamp < ts /\ lastState \in HeldState
    BY <1>1
  <2>3. \A t \in to .. (ts - 1) :
          kept[t] = IF t < lastTimestamp THEN before[t]
                    ELSE IF ts - lastTimestamp <= StatisticsGap
                         THEN lastState ELSE "Unknown"
    BY <1>9
  <2>4. Records(intervals, before, from, lastTimestamp)
    BY <1>1
  <2>5. from = lastTimestamp - StatisticsWindow /\ to = ts - StatisticsWindow
    OBVIOUS
  <2> HIDE DEF from, to, kept, before
  <2>6. Records(trimIntervals(appendInterval(intervals, lastTimestamp, ts,
                                             lastState, StatisticsGap),
                              ts, StatisticsWindow),
                kept, to, ts)
    BY <2>1, <2>2, <2>3, <2>4, <2>5, MovedRecords
  <2> QED
    BY <1>2, <2>6 DEF kept, to
<1>11. /\ blinkEvents' \in Seq(Int) /\ InOrder(blinkEvents')
       /\ Times(blinkEvents') =
            {t \in blinks' : t >= ts - StatisticsWindow}
       /\ IsFiniteSet(blinks') /\ blinks' \subseteq Int
       /\ \A t \in blinks' : t <= ts
       /\ cumulativeBlinks' = Cardinality(blinks')
  BY <1>1, <1>2, BlinksMoveOn
<1>12. StatisticsTypes'
  <2>1. EyeStates = HeldState
    BY DEF EyeStates, HeldState
  <2>2. hasTimestamp \in BOOLEAN
    BY DEF StatisticsInv, StatisticsTypes
  <2> QED
    BY <1>1, <1>6, <1>11, <2>1, <2>2 DEF StatisticsTypes
<1>13. SumsOfRecord'
  BY <1>1, <1>7, <1>8, <1>11 DEF SumsOfRecord
<1>14. QueuesOfRecord'
  BY <1>1, <1>10, <1>11 DEF QueuesOfRecord
<1>15. NothingWatched'
  BY <1>1 DEF NothingWatched
<1> QED
  BY <1>12, <1>13, <1>14, <1>15 DEF StatisticsInv

\* Before the first sample, or after a reset, nothing is recorded.
NothingYet ==
  /\ hasTimestamp = FALSE /\ epoch = 0 /\ lastTimestamp = 0
  /\ lastState = "Unknown"
  /\ cumulativeKnown = 0 /\ cumulativeOpen = 0 /\ cumulativeBlinks = 0
  /\ intervals = << >> /\ blinkEvents = << >>
  /\ watched = << >> /\ blinks = {}

LEMMA NothingYetIsRight == NothingYet => StatisticsInv
<1> SUFFICES ASSUME NothingYet
             PROVE  StatisticsInv
  OBVIOUS
<1>1. StatisticsTypes
  <2>1. "Unknown" \in HeldState
    BY DEF HeldState
  <2>2. << >> \in Seq(HeldState) /\ << >> \in Seq(Int)
    OBVIOUS
  <2>3. watched \in Seq(HeldState) /\ blinkEvents \in Seq(Int)
    BY <2>2, Zenon DEF NothingYet
  <2>4. IsFiniteSet(blinks) /\ blinks \subseteq Int
    BY FS_EmptySet DEF NothingYet
  <2>5. hasTimestamp \in BOOLEAN /\ lastState \in HeldState
    BY <2>1, Zenon DEF NothingYet
  <2>6. epoch \in Int /\ lastTimestamp \in Int
    BY DEF NothingYet
  <2> QED
    BY <2>3, <2>4, <2>5, <2>6 DEF StatisticsTypes
<1>2. Units(watched, {"Open", "Closed"}) = {} /\ Units(watched, {"Open"}) = {}
  BY DEF NothingYet, Units
<1>3. SumsOfRecord
  BY <1>2, FS_EmptySet DEF NothingYet, SumsOfRecord
<1> QED
  BY <1>1, <1>3 DEF NothingYet, NothingWatched, QueuesOfRecord, StatisticsInv

LEMMA StatisticsInvariant == StatisticsSpec => []StatisticsInv
<1>1. StatisticsInit => StatisticsInv
  BY NothingYetIsRight DEF StatisticsInit, NothingYet
<1>2. ASSUME StatisticsInv, [StatisticsNext]_statisticsVars
      PROVE  StatisticsInv'
  <2>1. ASSUME NEW ts \in StatisticsTimes, NEW state \in EyeStates,
               NEW blinkEvent \in BOOLEAN,
               updateStatistics(ts, state, blinkEvent)
        PROVE  StatisticsInv'
    BY <1>2, <2>1, FirstSamplePreserves, NextSamplePreserves
    DEF updateStatistics
  <2>2. CASE resetStatistics
    <3>1. NothingYet'
      BY <2>2 DEF resetStatistics, NothingYet
    <3>2. NothingYet' => StatisticsInv'
      BY NothingYetIsRight, PTL
    <3> QED
      BY <3>1, <3>2
  <2>3. CASE UNCHANGED statisticsVars
    BY <1>2, <2>3
    DEF statisticsVars, StatisticsInv, StatisticsTypes, NothingWatched,
        SumsOfRecord, QueuesOfRecord, HeldAt
  <2> QED
    BY <1>2, <2>1, <2>2, <2>3 DEF StatisticsNext
<1> QED
  BY <1>1, <1>2, PTL DEF StatisticsSpec

\* The units of a record that are in the window are the instants of the window
\* at which a known state was held.
LEMMA WindowUnits ==
  ASSUME StatisticsInv, hasTimestamp, NEW states, "Unknown" \notin states
  PROVE  TimeIn(intervals, states) = WatchedIn(states, StatisticsWindow)
<1> DEFINE from == lastTimestamp - StatisticsWindow
           instants == {t \in from .. (lastTimestamp - 1) : HeldAt[t] \in states}
           units == {u \in DOMAIN watched :
                       u > Len(watched) - StatisticsWindow
                         /\ watched[u] \in states}
           unitOf == [t \in instants |-> t - epoch + 1]
<1>1. /\ epoch \in Int /\ lastTimestamp \in Int /\ epoch <= lastTimestamp
      /\ watched \in Seq(HeldState) /\ Len(watched) = lastTimestamp - epoch
      /\ Records(intervals, HeldAt, lastTimestamp - StatisticsWindow,
                 lastTimestamp)
  BY DEF StatisticsInv, StatisticsTypes, SumsOfRecord, QueuesOfRecord
<1>2. from \in Int
  BY <1>1, StatisticsConfig
<1>3. TimeIn(intervals, states) = Cardinality(instants)
  BY <1>1, <1>2, RecordedTime
<1>4. DOMAIN watched = 1 .. Len(watched)
  BY <1>1
<1>5. ASSUME NEW t \in instants
      PROVE  t \in Int /\ t - epoch + 1 \in units
  <2>1. /\ t \in from .. (lastTimestamp - 1) /\ t \in Int
        /\ HeldAt[t] \in states
        /\ HeldAt[t] = IF t < epoch THEN "Unknown" ELSE watched[t - epoch + 1]
    BY <1>1, <1>2 DEF HeldAt
  <2>2. ~(t < epoch) /\ watched[t - epoch + 1] \in states
    BY <2>1
  <2>3. /\ t - epoch + 1 \in 1 .. Len(watched)
        /\ t - epoch + 1 > Len(watched) - StatisticsWindow
    BY <1>1, <1>2, <2>1, <2>2, StatisticsConfig
  <2> QED
    BY <1>4, <2>1, <2>2, <2>3
<1>6. ASSUME NEW u \in units
      PROVE  /\ u \in Int /\ u + epoch - 1 \in instants
             /\ (u + epoch - 1) - epoch + 1 = u
  <2>1. /\ u \in 1 .. Len(watched) /\ u \in Int /\ watched[u] \in states
        /\ u > Len(watched) - StatisticsWindow
    BY <1>1, <1>4
  <2>2. /\ u + epoch - 1 \in from .. (lastTimestamp - 1)
        /\ ~(u + epoch - 1 < epoch) /\ (u + epoch - 1) - epoch + 1 = u
    BY <1>1, <1>2, <2>1, StatisticsConfig
  <2>3. HeldAt[u + epoch - 1] =
          IF u + epoch - 1 < epoch THEN "Unknown"
          ELSE watched[(u + epoch - 1) - epoch + 1]
    BY <2>2 DEF HeldAt
  <2>4. HeldAt[u + epoch - 1] = watched[u]
    BY <2>2, <2>3
  <2> QED
    BY <2>1, <2>2, <2>4
<1>7. IsFiniteSet(instants)
  <2>1. IsFiniteSet(from .. (lastTimestamp - 1))
    BY <1>1, <1>2, FS_Interval
  <2>2. instants \in SUBSET (from .. (lastTimestamp - 1))
    OBVIOUS
  <2> QED
    BY <2>1, <2>2, FS_Subset
<1>8. ExistsBijection(instants, units)
  <2>1. \A t \in instants : unitOf[t] = t - epoch + 1
    OBVIOUS
  <2>2. unitOf \in [instants -> units]
    BY <1>5
  <2> HIDE DEF instants, units, unitOf
  <2>3. \A t1, t2 \in instants : unitOf[t1] = unitOf[t2] => t1 = t2
    BY <1>1, <1>5, <2>1
  <2>4. \A u \in units : \E t \in instants : unitOf[t] = u
    BY <1>6, <2>1
  <2> QED
    BY <2>2, <2>3, <2>4
    DEF ExistsBijection, Bijection, Injection, Surjection, IsInjective
<1>9. Cardinality(units) = Cardinality(instants)
  <2> HIDE DEF instants, units
  <2> QED
    BY <1>7, <1>8, FS_Bijection
<1> QED
  BY <1>3, <1>9 DEF WatchedIn

LEMMA WholeUnits ==
  ASSUME NEW n \in Nat, Len(watched) = n, DOMAIN watched = 1 .. n, NEW states
  PROVE  WatchedIn(states, Len(watched)) = Cardinality(Units(watched, states))
<1>1. {u \in DOMAIN watched : u > Len(watched) - n /\ watched[u] \in states} =
        Units(watched, states)
  BY DEF Units
<1> QED
  BY <1>1, Zenon DEF WatchedIn

\* The time of the window, of a record shorter than the window as well.
LEMMA WindowTime ==
  ASSUME StatisticsInv, hasTimestamp
  PROVE  WatchedIn(EyeStates, StatisticsWindow) =
           IF lastTimestamp - epoch < StatisticsWindow
           THEN lastTimestamp - epoch ELSE StatisticsWindow
<1> DEFINE n == Len(watched)
           first == IF n < StatisticsWindow THEN 1 ELSE n - StatisticsWindow + 1
           units == {u \in DOMAIN watched :
                       u > Len(watched) - StatisticsWindow
                         /\ watched[u] \in EyeStates}
<1>1. /\ epoch \in Int /\ lastTimestamp \in Int /\ epoch <= lastTimestamp
      /\ watched \in Seq(HeldState) /\ n = lastTimestamp - epoch
  BY DEF StatisticsInv, StatisticsTypes, SumsOfRecord
<1>2. /\ n \in Nat /\ DOMAIN watched = 1 .. n
      /\ \A u \in 1 .. n : watched[u] \in HeldState
  BY <1>1
<1>3. EyeStates = HeldState
  BY DEF EyeStates, HeldState
<1>4. units = {u \in 1 .. n : u > n - StatisticsWindow}
  BY <1>2, <1>3
<1> HIDE DEF n, units
<1>5. first \in Int /\ first <= n + 1
  BY <1>2, StatisticsConfig
<1>6. units = first .. ((n + 1) - 1)
  <2>1. \A u \in Int : u \in 1 .. n /\ u > n - StatisticsWindow
                         <=> first <= u /\ u <= (n + 1) - 1
    BY <1>2, StatisticsConfig
  <2>2. units \subseteq Int /\ first .. ((n + 1) - 1) \subseteq Int
    BY <1>2, <1>4, <1>5
  <2> HIDE DEF first
  <2> QED
    BY <1>2, <1>4, <1>5, <2>1, <2>2
<1> HIDE DEF first
<1>7. Cardinality(units) = (n + 1) - first
  <2>1. n + 1 \in Int
    BY <1>2
  <2> QED
    BY <1>5, <1>6, <2>1, SpanSize
<1>8. (n + 1) - first = IF n < StatisticsWindow THEN n ELSE StatisticsWindow
  BY <1>2, StatisticsConfig DEF first
<1> QED
  BY <1>1, <1>7, <1>8 DEF WatchedIn, units

\* The shares and the counts the display shows are those of the full record of
\* the drive, over the drive and over the window (EyeStatistics::update, trim
\* and result), for every window, gap and sequence of samples.
THEOREM StatisticsAreExact == Spec => []StatisticsMatchRecord
<1>1. ASSUME StatisticsInv, hasTimestamp
      PROVE  StatisticsMatchRecord
  <2> DEFINE known == {"Open", "Closed"}
             open == {"Open"}
  <2>1. /\ lastTimestamp \in Int /\ epoch \in Int /\ epoch <= lastTimestamp
        /\ watched \in Seq(HeldState)
        /\ blinkEvents \in Seq(Int) /\ InOrder(blinkEvents)
        /\ Times(blinkEvents) =
             {t \in blinks : t >= lastTimestamp - StatisticsWindow}
        /\ cumulativeKnown = Cardinality(Units(watched, known))
        /\ cumulativeOpen = Cardinality(Units(watched, open))
        /\ cumulativeBlinks = Cardinality(blinks)
        /\ blinks \subseteq Int
    BY <1>1
    DEF StatisticsInv, StatisticsTypes, SumsOfRecord, QueuesOfRecord
  <2>2. Len(watched) \in Nat /\ DOMAIN watched = 1 .. Len(watched)
    BY <2>1
  <2>3. ShareOpen(Len(watched)) = <<cumulativeOpen, cumulativeKnown>>
    <3>1. /\ WatchedIn(open, Len(watched)) = cumulativeOpen
          /\ WatchedIn(known, Len(watched)) = cumulativeKnown
      BY <2>1, <2>2, WholeUnits
    <3> QED
      BY <3>1 DEF ShareOpen
  <2>4. ShareOpen(StatisticsWindow) =
          <<TimeIn(intervals, open), TimeIn(intervals, known)>>
    <3>1. /\ WatchedIn(open, StatisticsWindow) = TimeIn(intervals, open)
          /\ WatchedIn(known, StatisticsWindow) = TimeIn(intervals, known)
      BY <1>1, WindowUnits
    <3> QED
      BY <3>1 DEF ShareOpen
  <2>5. TimeIn(intervals, known) \in Nat
    <3>1. TimeIn(intervals, known) = WatchedIn(known, StatisticsWindow)
      BY <1>1, WindowUnits
    <3> DEFINE units == {u \in DOMAIN watched :
                           u > Len(watched) - StatisticsWindow
                             /\ watched[u] \in known}
    <3>2. units \in SUBSET (1 .. Len(watched))
      BY <2>2
    <3>3. IsFiniteSet(1 .. Len(watched))
      BY <2>2, FS_Interval
    <3> HIDE DEF units
    <3>4. Cardinality(units) \in Nat
      BY <3>2, <3>3, FS_Subset, FS_CardinalityType
    <3> QED
      BY <3>1, <3>4 DEF WatchedIn, units
  <2>6. Len(blinkEvents) =
          Cardinality({t \in blinks : lastTimestamp - StatisticsWindow <= t})
    <3>1. Times(blinkEvents) =
            {t \in blinks : lastTimestamp - StatisticsWindow <= t}
      BY <2>1, StatisticsConfig
    <3> QED
      BY <2>1, <3>1, TimesCounted
  <2> DEFINE time == WatchedIn(EyeStates, StatisticsWindow)
             rollingKnown == TimeIn(intervals, known)
             rollingOpen == TimeIn(intervals, open)
  <2>7. time = IF lastTimestamp - epoch < StatisticsWindow
               THEN lastTimestamp - epoch ELSE StatisticsWindow
    BY <1>1, WindowTime
  <2>8. /\ result.cumulativeEyeOpen = (IF cumulativeKnown = 0 THEN NoShare
                                       ELSE <<cumulativeOpen, cumulativeKnown>>)
        /\ result.cumulativeBlinkCount = cumulativeBlinks
        /\ result.rollingEyeOpen =
             (IF rollingKnown > 0 /\ KnownEnough(rollingKnown, time)
              THEN <<rollingOpen, rollingKnown>> ELSE NoShare)
        /\ result.rollingBlinkCount = Len(blinkEvents)
    BY <2>7, Zenon DEF result
  <2>9. rollingKnown > 0 <=> rollingKnown # 0
    BY <2>5
  <2>10. /\ ShareOpen(Len(watched))[2] = cumulativeKnown
         /\ ShareOpen(StatisticsWindow)[2] = rollingKnown
    BY <2>3, <2>4
  <2> HIDE DEF time, rollingKnown, rollingOpen, known, open
  <2> QED
    BY <1>1, <2>1, <2>3, <2>4, <2>6, <2>8, <2>9, <2>10
    DEF StatisticsMatchRecord, time, rollingKnown, rollingOpen, known, open
<1>2. StatisticsInv => StatisticsMatchRecord
  BY <1>1 DEF StatisticsMatchRecord
<1> QED
  BY <1>2, StatisticsAlone, StatisticsInvariant, PTL

-----------------------------------------------------------------------------
(* ProfileStore.                                                           *)
LEMMA StoreAlone == Spec => StoreSpec
<1>1. Init => StoreInit
  BY DEF Init
<1>2. [Next]_vars => [StoreNext]_storeVars
  BY DEF Next, StepOf, vars
<1> QED
  BY <1>1, <1>2, PTL DEF Spec, SafeSpec, StoreSpec

Steps == {"idle", "loading", "changing", "saving", "writing", "moving",
          "reporting"}

Databases == SUBSET Drivers

Files == {Absent, Torn} \cup Databases

StoreTypes ==
  /\ store \in Files /\ sibling \in Files
  /\ doing \in [Admins -> Steps] /\ command \in [Admins -> Commands]
  /\ memory \in [Admins -> Databases]
  /\ enrolled \in Databases

DatabaseOf(file) == IF file = Absent THEN {} ELSE file

LEMMA FileKinds ==
  /\ Torn \in Files /\ Absent \in Files /\ {} \in Databases
  /\ \A db \in Databases : db \in Files /\ db # Absent /\ db # Torn
  /\ \A file \in Files : file # Torn => DatabaseOf(file) \in Databases
BY StoreAssumption DEF Databases, Files, DatabaseOf

Saves(a) == command[a].name # "list"

\* Where a command that saves stands, if it has the store to itself.
SaverOnCourse(a) ==
  /\ command[a].name = "delete" => command[a].driver \notin enrolled
  /\ doing[a] = "changing" => memory[a] = DatabaseOf(store)
  /\ doing[a] \in {"saving", "writing", "moving"} =>
       /\ enrolled \subseteq memory[a]
       /\ command[a].name = "create" => command[a].driver \in memory[a]
  /\ doing[a] = "writing" => sibling = Torn
  /\ doing[a] = "moving" => sibling = memory[a]
  /\ doing[a] = "reporting" /\ command[a].name = "create" =>
       command[a].driver \in DatabaseOf(store)

StoreInv ==
  /\ StoreTypes
  /\ \A a \in Admins :
       /\ doing[a] = "idle" => ~Saves(a)
       /\ doing[a] \in {"saving", "writing", "moving", "reporting"} => Saves(a)
  /\ ~overlapped =>
       /\ \A a, b \in Admins : Saves(a) /\ Saves(b) => a = b
       /\ \A a \in Admins : Saves(a) => SaverOnCourse(a)
       /\ store # Torn /\ enrolled \subseteq DatabaseOf(store)

\* A process that ends early leaves the others on course.
LEMMA ExitPreserves ==
  ASSUME StoreInv, NEW a \in Admins, Exit(a), doing[a] # "idle",
         UNCHANGED <<store, enrolled, overlapped>>,
         \/ sibling' = sibling
         \/ doing[a] = "moving" /\ sibling' = Absent
  PROVE  StoreInv'
<1>1. [name |-> "list"] \in Commands /\ "idle" \in Steps
  BY DEF Commands, Steps
<1>2. StoreTypes'
  <2>1. command' \in [Admins -> Commands]
    BY <1>1 DEF StoreInv, StoreTypes, Exit
  <2>2. doing' \in [Admins -> Steps] /\ memory' \in [Admins -> Databases]
    BY <1>1, FileKinds DEF StoreInv, StoreTypes, Exit
  <2> QED
    BY <2>1, <2>2, FileKinds DEF StoreInv, StoreTypes
<1>3. /\ command'[a].name = "list" /\ doing'[a] = "idle"
      /\ \A b \in Admins : b # a => /\ command'[b] = command[b]
                                   /\ doing'[b] = doing[b]
                                   /\ memory'[b] = memory[b]
  BY DEF StoreInv, StoreTypes, Exit
<1>4. doing[a] = "moving" => Saves(a)
  BY DEF StoreInv
<1> QED
  BY <1>2, <1>3, <1>4 DEF StoreInv, SaverOnCourse, Saves, DatabaseOf

LEMMA StoreInvariant == StoreSpec => []StoreInv
<1>1. ASSUME StoreInit
      PROVE  StoreInv
  <2>1. [name |-> "list"] \in Commands
    BY DEF Commands
  <2>2. StoreTypes
    <3>1. "idle" \in Steps
      BY DEF Steps
    <3> QED
      <4>1. /\ doing \in [Admins -> Steps] /\ command \in [Admins -> Commands]
            /\ memory \in [Admins -> Databases]
        BY <1>1, <2>1, <3>1, FileKinds DEF StoreInit
      <4> QED
        BY <1>1, <4>1, FileKinds DEF StoreInit, StoreTypes
  <2>3. \A a \in Admins : ~Saves(a) /\ doing[a] = "idle"
    BY <1>1 DEF StoreInit, Saves
  <2> QED
    BY <1>1, <2>2, <2>3, StoreAssumption DEF StoreInit, StoreInv, DatabaseOf
<1>2. StoreInv /\ [StoreNext]_storeVars => StoreInv'
  <2> SUFFICES ASSUME StoreInv, [StoreNext]_storeVars
               PROVE  StoreInv'
    OBVIOUS
  <2> USE DEF StoreInv, StoreTypes, Steps, Become, Exit, Saves, SaverOnCourse,
              DatabaseOf
  <2>1. ASSUME NEW a \in Admins, NEW c \in Commands, Start(a, c)
        PROVE  StoreInv'
    <3>1. StoreTypes'
      <4>1. enrolled' \in Databases
        BY <2>1 DEF Start, Databases
      <4> QED
        BY <2>1, <4>1 DEF Start
    <3>2. /\ doing[a] = "idle" /\ ~overlapped /\ command'[a] = c
          /\ doing'[a] = "loading"
          /\ \A b \in Admins : b # a => /\ command'[b] = command[b]
                                       /\ doing'[b] = doing[b]
          /\ memory' = memory /\ store' = store /\ sibling' = sibling
          /\ enrolled' \subseteq enrolled
      BY <2>1 DEF Start
    <3>3. c.name = "delete" => c.driver \notin enrolled'
      BY <2>1 DEF Start
    <3>4. ~overlapped' /\ c.name # "list" =>
            \A b \in Admins : b # a => command'[b].name = "list"
      BY <2>1, <3>2 DEF Start
    <3> QED
      BY <3>1, <3>2, <3>3, <3>4
  <2>2. ASSUME NEW a \in Admins, Load(a)
        PROVE  StoreInv'
    <3>1. /\ doing[a] = "loading" /\ doing' = [doing EXCEPT ![a] = "changing"]
          /\ memory' = [memory EXCEPT ![a] = DatabaseOf(store)]
          /\ DatabaseOf(store) \in Databases
          /\ UNCHANGED <<store, sibling, command, enrolled, overlapped>>
      BY <2>2, FileKinds DEF Load
    <3> HIDE DEF DatabaseOf
    <3>2. StoreTypes'
      BY <3>1
    <3> QED
      BY <3>1, <3>2
  <2>3. ASSUME NEW a \in Admins, Change(a)
        PROVE  StoreInv'
    <3>1. /\ doing[a] = "changing" /\ doing' = [doing EXCEPT ![a] = "saving"]
          /\ UNCHANGED <<store, sibling, command, enrolled, overlapped>>
          /\ Saves(a)
      BY <2>3 DEF Change
    <3>2. CASE command[a].name = "create"
      <4>1. memory' = [memory EXCEPT ![a] = @ \cup {command[a].driver}]
        BY <2>3, <3>2 DEF Change
      <4>2. memory[a] \cup {command[a].driver} \in Databases
        BY <3>2 DEF Commands, Databases
      <4> QED
        BY <3>1, <3>2, <4>1, <4>2
    <3>3. CASE command[a].name = "delete"
      <4>1. memory' = [memory EXCEPT ![a] = @ \ {command[a].driver}]
        BY <2>3, <3>3 DEF Change
      <4>2. memory[a] \ {command[a].driver} \in Databases
        BY DEF Databases
      <4> QED
        BY <3>1, <3>3, <4>1, <4>2
    <3>4. CASE command[a].name = "init"
      <4>1. memory' = memory
        BY <2>3, <3>4 DEF Change
      <4> QED
        BY <3>1, <3>4, <4>1
    <3> QED
      BY <2>3, <3>1, <3>2, <3>3, <3>4 DEF Commands
  <2>4. ASSUME NEW a \in Admins, GiveUp(a) \/ Killed(a)
        PROVE  StoreInv'
    BY <2>4, ExitPreserves DEF GiveUp, Killed
  <2>5. ASSUME NEW a \in Admins, OpenSibling(a)
        PROVE  StoreInv'
    BY <2>5, FileKinds DEF OpenSibling
  <2>6. ASSUME NEW a \in Admins, WriteBundle(a)
        PROVE  StoreInv'
    BY <2>6, FileKinds DEF WriteBundle
  <2>7. ASSUME NEW a \in Admins, MoveSibling(a)
        PROVE  StoreInv'
    <3>1. /\ doing[a] = "moving" /\ doing' = [doing EXCEPT ![a] = "reporting"]
          /\ store' = sibling
          /\ UNCHANGED <<command, memory, enrolled, overlapped>>
      BY <2>7 DEF MoveSibling
    <3>2. StoreTypes'
      BY <2>7, <3>1, FileKinds DEF MoveSibling
    <3>3. memory[a] \in Databases
      OBVIOUS
    <3>4. ASSUME ~overlapped
          PROVE  /\ SaverOnCourse(a) /\ store' = memory[a]
                 /\ store' # Torn /\ DatabaseOf(store') = store'
                 /\ \A b \in Admins : Saves(b) => a = b
      BY <3>1, <3>3, <3>4, FileKinds
    <3> QED
      BY <3>1, <3>2, <3>4
  <2>8. ASSUME NEW a \in Admins, MoveRefused(a)
        PROVE  StoreInv'
    BY <2>8, ExitPreserves DEF MoveRefused
  <2>9. ASSUME NEW a \in Admins, Report(a)
        PROVE  StoreInv'
    <3>1. /\ doing[a] = "reporting" /\ UNCHANGED <<store, sibling, overlapped>>
          /\ doing' = [doing EXCEPT ![a] = "idle"]
          /\ command' = [command EXCEPT ![a] = [name |-> "list"]]
          /\ memory' = [memory EXCEPT ![a] = {}]
      BY <2>9 DEF Report
    <3>2. [name |-> "list"] \in Commands
      BY DEF Commands
    <3>3. enrolled' \in Databases
      BY <2>9 DEF Report, Commands, Databases
    <3>4. StoreTypes'
      BY <3>1, <3>2, <3>3, FileKinds
    <3>5. ~overlapped => /\ enrolled' \subseteq DatabaseOf(store)
                         /\ \A b \in Admins : Saves(b) => a = b
      BY <2>9 DEF Report
    <3> QED
      BY <3>1, <3>4, <3>5
  <2>10. ASSUME UNCHANGED storeVars
         PROVE  StoreInv'
    BY <2>10 DEF storeVars
  <2> QED
    BY <2>1, <2>2, <2>3, <2>4, <2>5, <2>6, <2>7, <2>8, <2>9, <2>10 DEF StoreNext
<1> QED
  BY <1>1, <1>2, PTL DEF StoreSpec

\* A reported creation survives every crash and failed write of any number of
\* administrators whose saving commands do not overlap (writeFileAtomic).
THEOREM EnrolmentsSurvive == Spec => []EnrolmentsSurviveCrashes
<1>1. StoreInv => EnrolmentsSurviveCrashes
  BY DEF StoreInv, EnrolmentsSurviveCrashes, DatabaseOf
<1> QED
  BY <1>1, StoreAlone, StoreInvariant, PTL

-----------------------------------------------------------------------------
(* DriverProfileDatabase.                                                  *)
LEMMA DatabaseAlone == Spec => DatabaseSpec
<1>1. Init => DatabaseInit
  BY DEF Init
<1>2. [Next]_vars => [DatabaseNext]_profiles
  BY DEF Next, StepOf, vars
<1> QED
  BY <1>1, <1>2, PTL DEF Spec, SafeSpec, DatabaseSpec

Profile == [driverId : DriverIds, revision : 0 .. MaxRevision, images : Int,
            embeddings : Int]

UniqueIds(db) ==
  \A i, j \in DOMAIN db : db[i].driverId = db[j].driverId => i = j

DatabaseInv ==
  /\ profiles \in Seq(Profile) /\ UniqueIds(profiles)
  /\ \A i \in DOMAIN profiles : validateProfile(profiles[i])

\* A later revision than p's, or the one after the largest.
Follows(q, p) == p.revision < q.revision \/ q.revision = 0

\* A profile q as it was, new, or of a later revision.
Succeeds(q) ==
  \/ \E i \in DOMAIN profiles : q = profiles[i]
  \/ q.driverId \notin IdsOf(profiles)
  \/ \E i \in DOMAIN profiles :
       q.driverId = profiles[i].driverId /\ Follows(q, profiles[i])

Succession == \A j \in DOMAIN profiles' : Succeeds(profiles'[j])

LEMMA ProfileFound ==
  ASSUME NEW id \in IdsOf(profiles)
  PROVE  /\ IndexOf(id) \in DOMAIN profiles
         /\ profiles[IndexOf(id)].driverId = id
BY DEF IdsOf, IndexOf

LEMMA AddingPreserves ==
  ASSUME DatabaseInv, NEW q \in Profile, validateProfile(q),
         q.driverId \notin IdsOf(profiles), profiles' = Append(profiles, q)
  PROVE  DatabaseInv' /\ Succession
<1>1. profiles \in Seq(Profile) /\ Len(profiles) \in Nat
  BY DEF DatabaseInv
<1>2. /\ profiles' \in Seq(Profile)
      /\ DOMAIN profiles' = 1 .. Len(profiles) + 1
      /\ \A i \in 1 .. Len(profiles) : profiles'[i] = profiles[i]
      /\ profiles'[Len(profiles) + 1] = q
  BY <1>1, AppendProperties
<1>3. \A j \in DOMAIN profiles' :
        \/ j \in DOMAIN profiles /\ profiles'[j] = profiles[j]
        \/ j = Len(profiles) + 1 /\ profiles'[j] = q
  BY <1>1, <1>2
<1>4. \A i \in DOMAIN profiles : profiles[i].driverId # q.driverId
  BY DEF IdsOf
<1> QED
  BY <1>2, <1>3, <1>4
  DEF DatabaseInv, UniqueIds, validateProfile, Succession, Succeeds

LEMMA ReplacingPreserves ==
  ASSUME DatabaseInv, NEW i \in DOMAIN profiles, NEW q \in Profile,
         validateProfile(q), q.driverId = profiles[i].driverId,
         Follows(q, profiles[i]),
         profiles' = [profiles EXCEPT ![i] = q]
  PROVE  DatabaseInv' /\ Succession
<1>1. profiles \in Seq(Profile) /\ i \in 1 .. Len(profiles)
  BY DEF DatabaseInv
<1>2. /\ profiles' \in Seq(Profile) /\ DOMAIN profiles' = DOMAIN profiles
      /\ \A j \in DOMAIN profiles :
           profiles'[j] = IF j = i THEN q ELSE profiles[j]
  BY <1>1, ExceptSeq
<1>3. UniqueIds(profiles')
  BY <1>2 DEF DatabaseInv, UniqueIds
<1>4. \A j \in DOMAIN profiles' : validateProfile(profiles'[j])
  BY <1>2 DEF DatabaseInv
<1> QED
  BY <1>2, <1>3, <1>4 DEF DatabaseInv, validateProfile, Succession, Succeeds

LEMMA RemovingPreserves ==
  ASSUME DatabaseInv, NEW i \in DOMAIN profiles,
         profiles' = SubSeq(profiles, 1, i - 1)
                       \o SubSeq(profiles, i + 1, Len(profiles))
  PROVE  DatabaseInv' /\ Succession
<1> DEFINE n == Len(profiles)
           front == SubSeq(profiles, 1, i - 1)
           back == SubSeq(profiles, i + 1, n)
<1>1. /\ profiles \in Seq(Profile) /\ n \in Nat /\ i \in 1 .. n
      /\ \A j \in 1 .. n : profiles[j] \in Profile
  BY DEF DatabaseInv
<1>2. /\ front \in Seq(Profile) /\ Len(front) = i - 1
      /\ \A j \in 1 .. i - 1 : front[j] = profiles[j]
  <2>1. /\ front \in Seq(Profile)
        /\ Len(front) = IF 1 <= i - 1 THEN (i - 1) - 1 + 1 ELSE 0
        /\ \A j \in 1 .. (i - 1) - 1 + 1 : front[j] = profiles[1 + j - 1]
    BY <1>1, SubSeqProperties
  <2> HIDE DEF front
  <2> QED
    BY <1>1, <2>1
<1>3. /\ back \in Seq(Profile) /\ Len(back) = n - i
      /\ \A j \in 1 .. n - i : back[j] = profiles[i + j]
  <2>1. /\ back \in Seq(Profile)
        /\ Len(back) = IF i + 1 <= n THEN n - (i + 1) + 1 ELSE 0
        /\ \A j \in 1 .. n - (i + 1) + 1 : back[j] = profiles[(i + 1) + j - 1]
    BY <1>1, SubSeqProperties
  <2>2. i \in Int /\ n \in Int /\ i <= n
    BY <1>1
  <2> HIDE DEF n, back
  <2>3. Len(back) = n - i /\ n - (i + 1) + 1 = n - i
    BY <2>1, <2>2
  <2>4. ASSUME NEW j \in 1 .. n - i
        PROVE  back[j] = profiles[i + j]
    <3>1. (i + 1) + j - 1 = i + j /\ j \in 1 .. n - (i + 1) + 1
      BY <2>2
    <3> QED
      BY <2>1, <3>1
  <2> QED
    BY <2>1, <2>3, <2>4
<1>4. profiles' = front \o back
  OBVIOUS
<1>0. n \in Int /\ i \in Int /\ 1 <= i /\ i <= n
  BY <1>1
<1>0a. DOMAIN profiles = 1 .. n
  BY <1>1
<1> HIDE DEF n, front, back
<1>5. /\ profiles' \in Seq(Profile) /\ Len(profiles') = n - 1
      /\ \A j \in 1 .. n - 1 :
           profiles'[j] = IF j < i THEN profiles[j] ELSE profiles[j + 1]
  <2>1. /\ profiles' \in Seq(Profile)
        /\ Len(profiles') = (i - 1) + (n - i)
        /\ \A j \in 1 .. (i - 1) + (n - i) :
             profiles'[j] = IF j <= i - 1 THEN front[j] ELSE back[j - (i - 1)]
    <3>1. /\ front \o back \in Seq(Profile)
          /\ Len(front \o back) = Len(front) + Len(back)
          /\ \A j \in 1 .. Len(front) + Len(back) :
               (front \o back)[j] = IF j <= Len(front) THEN front[j]
                                    ELSE back[j - Len(front)]
      BY <1>2, <1>3, ConcatProperties
    <3> QED
      BY <1>2, <1>3, <1>4, <3>1
  <2>2. ASSUME NEW j \in 1 .. n - 1
        PROVE  profiles'[j] = IF j < i THEN profiles[j] ELSE profiles[j + 1]
    <3>1. j \in Int /\ j \in 1 .. (i - 1) + (n - i)
      BY <1>0
    <3>2. CASE j < i
      <4>1. j \in 1 .. i - 1 /\ j <= i - 1
        BY <1>0, <3>1, <3>2
      <4> QED
        BY <1>2, <2>1, <3>1, <3>2, <4>1
    <3>3. CASE ~(j < i)
      <4>1. /\ j - (i - 1) \in 1 .. n - i /\ ~(j <= i - 1)
            /\ i + (j - (i - 1)) = j + 1
        <5>1. i <= j /\ j <= n - 1
          BY <1>0, <3>1, <3>3
        <5> QED
          BY ONLY <1>0, <3>1, <5>1
      <4> QED
        BY <1>3, <2>1, <3>1, <3>3, <4>1
    <3> QED
      BY <3>2, <3>3
  <2>3. (i - 1) + (n - i) = n - 1
    BY <1>0
  <2> QED
    BY <2>1, <2>2, <2>3
<1>6. \A j \in DOMAIN profiles' :
        /\ j \in Int
        /\ \E k \in DOMAIN profiles :
             k = (IF j < i THEN j ELSE j + 1) /\ profiles'[j] = profiles[k]
  <2>1. DOMAIN profiles' = 1 .. n - 1
    BY <1>5
  <2>2. ASSUME NEW j \in 1 .. n - 1
        PROVE  /\ j \in Int
               /\ (IF j < i THEN j ELSE j + 1) \in 1 .. n
    BY <1>0
  <2> QED
    BY <1>0a, <1>5, <2>1, <2>2
<1>7. UniqueIds(profiles')
  <2> SUFFICES ASSUME NEW j \in DOMAIN profiles', NEW k \in DOMAIN profiles',
                      profiles'[j].driverId = profiles'[k].driverId
               PROVE  j = k
    BY DEF UniqueIds
  <2>1. j \in Int /\ k \in Int
    BY <1>6
  <2>2. PICK a \in DOMAIN profiles :
          a = (IF j < i THEN j ELSE j + 1) /\ profiles'[j] = profiles[a]
    BY <1>6
  <2>3. PICK b \in DOMAIN profiles :
          b = (IF k < i THEN k ELSE k + 1) /\ profiles'[k] = profiles[b]
    BY <1>6
  <2>4. (IF j < i THEN j ELSE j + 1) = (IF k < i THEN k ELSE k + 1)
    BY <2>2, <2>3 DEF DatabaseInv, UniqueIds
  <2> QED
    BY ONLY <1>0, <2>1, <2>4
<1>8. \A j \in DOMAIN profiles' : validateProfile(profiles'[j])
  BY <1>6 DEF DatabaseInv
<1>9. Succession
  BY <1>6 DEF Succession, Succeeds
<1> QED
  BY <1>5, <1>7, <1>8, <1>9 DEF DatabaseInv, validateProfile

LEMMA IncrementFollows ==
  ASSUME NEW r \in 0 .. MaxRevision
  PROVE  /\ Increment(r) \in 0 .. MaxRevision
         /\ r < Increment(r) \/ Increment(r) = 0
BY DatabaseAssumption DEF Increment

LEMMA AmendingPreserves ==
  ASSUME DatabaseInv, NEW id \in IdsOf(profiles), NEW copy \in Profile,
         copy.driverId = id,
         copy.revision = profiles[IndexOf(id)].revision, Amend(id, copy)
  PROVE  DatabaseInv' /\ Succession
<1> DEFINE q == [copy EXCEPT !.revision = Increment(@)]
<1>1. /\ IndexOf(id) \in DOMAIN profiles
      /\ profiles[IndexOf(id)].driverId = id
  BY ProfileFound
<1>2. /\ q \in Profile /\ q.driverId = id
      /\ copy.revision \in 0 .. MaxRevision
      /\ q.revision = Increment(copy.revision)
      /\ q.images = copy.images /\ q.embeddings = copy.embeddings
  BY IncrementFollows DEF Profile
<1>3. validateProfile(copy) /\ profiles' = [profiles EXCEPT ![IndexOf(id)] = q]
  BY DEF Amend
<1> HIDE DEF q
<1>4. validateProfile(q) /\ Follows(q, profiles[IndexOf(id)])
  BY <1>2, <1>3, IncrementFollows DEF validateProfile, Follows
<1> QED
  BY <1>1, <1>2, <1>3, <1>4, ReplacingPreserves

LEMMA ImportPreserves ==
  ASSUME DatabaseInv, NEW profile, NEW newId,
         profile \in [driverId : {InvalidId} \cup DriverIds,
                      revision : 0 .. MaxRevision,
                      images : Int, embeddings : Int],
         importProfile(profile, newId)
  PROVE  DatabaseInv' /\ Succession
<1>1. profile \in Profile /\ validateProfile(profile)
  BY DEF Profile, importProfile, validateProfile
<1>2. CASE ImportUnknown(profile)
  BY <1>1, <1>2, AddingPreserves DEF ImportUnknown
<1>3. CASE ImportAsNew(profile, newId)
  <2> DEFINE q == [profile EXCEPT !.driverId = newId]
  <2>1. /\ newId \in DriverIds /\ newId \notin IdsOf(profiles)
        /\ profiles' = Append(profiles, q)
    BY <1>3 DEF ImportAsNew
  <2>2. /\ q \in Profile /\ q.driverId = newId
        /\ q.images = profile.images /\ q.embeddings = profile.embeddings
    BY <1>1, <2>1 DEF Profile
  <2> HIDE DEF q
  <2>3. validateProfile(q)
    BY <1>1, <2>1, <2>2 DEF validateProfile
  <2> QED
    BY <2>1, <2>2, <2>3, AddingPreserves
<1>4. CASE ImportReplacing(profile)
  <2> DEFINE i == IndexOf(profile.driverId)
             newer == IF profiles[i].revision < profile.revision
                      THEN profile.revision ELSE profiles[i].revision
             q == [profile EXCEPT !.revision = Increment(newer)]
  <2>1. /\ i \in DOMAIN profiles /\ profiles[i].driverId = profile.driverId
        /\ profiles' = [profiles EXCEPT ![i] = q]
    BY <1>4, ProfileFound DEF ImportReplacing
  <2> HIDE DEF i, q
  <2>2. /\ profiles[i].revision \in 0 .. MaxRevision
        /\ profile.revision \in 0 .. MaxRevision
    <3>1. profiles[i] \in Profile
      BY <2>1 DEF DatabaseInv
    <3> QED
      BY <1>1, <3>1 DEF Profile
  <2>3. newer \in 0 .. MaxRevision /\ profiles[i].revision <= newer
    BY <2>2, DatabaseAssumption
  <2> HIDE DEF newer
  <2>4. /\ q \in Profile /\ q.driverId = profile.driverId
        /\ q.revision = Increment(newer)
        /\ q.images = profile.images /\ q.embeddings = profile.embeddings
    BY <1>1, <2>3, IncrementFollows DEF Profile, q
  <2>5. validateProfile(q)
    BY <1>1, <2>4 DEF validateProfile
  <2>6. Follows(q, profiles[i])
    <3>1. newer < Increment(newer) \/ Increment(newer) = 0
      BY <2>3, IncrementFollows
    <3>2. Increment(newer) \in Int /\ newer \in Int
      BY <2>3, IncrementFollows, DatabaseAssumption
    <3> QED
      BY <2>2, <2>3, <2>4, <3>1, <3>2, DatabaseAssumption DEF Follows
  <2> QED
    BY <2>1, <2>4, <2>5, <2>6, ReplacingPreserves
<1> QED
  BY <1>2, <1>3, <1>4 DEF importProfile

LEMMA DatabaseStep ==
  ASSUME DatabaseInv, DatabaseNext
  PROVE  DatabaseInv' /\ Succession
<1>1. ASSUME NEW id \in {InvalidId} \cup DriverIds, create(id)
      PROVE  DatabaseInv' /\ Succession
  <2> DEFINE q == [driverId |-> id, revision |-> 1, images |-> 0,
                   embeddings |-> 0]
  <2>1. /\ validateProfile(q) /\ id \notin IdsOf(profiles)
        /\ profiles' = Append(profiles, q)
    BY <1>1 DEF create
  <2>2. q \in Profile /\ q.driverId = id
    BY <2>1, DatabaseAssumption DEF Profile, validateProfile
  <2> HIDE DEF q
  <2> QED
    BY <2>1, <2>2, AddingPreserves
<1>2. ASSUME NEW id \in {InvalidId} \cup DriverIds, erase(id)
      PROVE  DatabaseInv' /\ Succession
  <2>1. /\ IndexOf(id) \in DOMAIN profiles
        /\ profiles' = SubSeq(profiles, 1, IndexOf(id) - 1)
                         \o SubSeq(profiles, IndexOf(id) + 1, Len(profiles))
    BY <1>2, ProfileFound DEF erase
  <2> QED
    BY <2>1, RemovingPreserves
<1>3. ASSUME NEW id \in {InvalidId} \cup DriverIds,
             addImage(id) \/ addEmbedding(id)
      PROVE  DatabaseInv' /\ Succession
  <2> DEFINE p == profiles[IndexOf(id)]
  <2>1. id \in IdsOf(profiles) /\ p.driverId = id /\ p \in Profile
    BY <1>3, ProfileFound DEF addImage, addEmbedding, DatabaseInv
  <2>2. PICK copy :
          /\ copy \in {[p EXCEPT !.images = @ + 1],
                       [p EXCEPT !.embeddings = @ + 1]}
          /\ Amend(id, copy)
    BY <1>3 DEF addImage, addEmbedding
  <2>3. copy \in Profile /\ copy.driverId = id /\ copy.revision = p.revision
    BY <2>1, <2>2 DEF Profile
  <2> QED
    BY <2>1, <2>2, <2>3, AmendingPreserves
<1>4. ASSUME NEW id \in {InvalidId} \cup DriverIds,
             NEW newId \in {InvalidId} \cup DriverIds,
             NEW r \in 0 .. MaxRevision,
             NEW n \in 0 .. MaximumImagesPerProfile + 1,
             importProfile([driverId |-> id, revision |-> r, images |-> n,
                            embeddings |-> 0], newId)
      PROVE  DatabaseInv' /\ Succession
  <2>1. r \in Int /\ n \in Int
    BY DatabaseAssumption
  <2> QED
    BY <1>4, <2>1, ImportPreserves
<1> QED
  BY <1>1, <1>2, <1>3, <1>4 DEF DatabaseNext

LEMMA DatabaseInvariant == DatabaseSpec => []DatabaseInv
<1>1. DatabaseInit => DatabaseInv
  BY EmptySeq DEF DatabaseInit, DatabaseInv, UniqueIds
<1>2. DatabaseInv /\ UNCHANGED profiles => DatabaseInv'
  BY DEF DatabaseInv, UniqueIds, validateProfile
<1> QED
  BY <1>1, <1>2, DatabaseStep, PTL DEF DatabaseSpec

\* What serialize writes is never refused by deserialize: whatever the
\* operations before, identifiers stay unique and every profile stays valid.
THEOREM SavedIsReadable == Spec => []SavedDatabaseLoads
<1>1. DatabaseInv => SavedDatabaseLoads
  <2> SUFFICES ASSUME DatabaseInv, serialize(profiles) # Unserialized
               PROVE  Readable(profiles) /\ serialize(profiles) = profiles
    BY DEF SavedDatabaseLoads
  <2>1. Len(profiles) <= MaximumDriverProfiles /\ serialize(profiles) = profiles
    BY DEF serialize
  <2>2. ASSUME NEW i \in DOMAIN profiles
        PROVE  profiles[i].driverId \notin IdsOf(SubSeq(profiles, 1, i - 1))
    <3> DEFINE front == SubSeq(profiles, 1, i - 1)
    <3>1. /\ profiles \in Seq(Profile) /\ Len(profiles) \in Nat
          /\ i \in 1 .. Len(profiles)
          /\ \A j \in 1 .. i - 1 : profiles[j] \in Profile
      BY DEF DatabaseInv
    <3>2. /\ front \in Seq(Profile)
          /\ Len(front) = IF 1 <= i - 1 THEN (i - 1) - 1 + 1 ELSE 0
          /\ \A j \in 1 .. (i - 1) - 1 + 1 : front[j] = profiles[1 + j - 1]
      BY <3>1, SubSeqProperties
    <3> HIDE DEF front
    <3>3. ASSUME NEW j \in DOMAIN front
          PROVE  front[j].driverId # profiles[i].driverId
      <4>1. j \in 1 .. i - 1 /\ front[j] = profiles[j]
        BY <3>1, <3>2
      <4>2. j \in DOMAIN profiles /\ j # i
        BY <3>1, <4>1
      <4> QED
        BY <4>1, <4>2 DEF DatabaseInv, UniqueIds
    <3> QED
      BY <3>3 DEF IdsOf, front
  <2> QED
    BY <2>1, <2>2 DEF Readable, DatabaseInv
<1> QED
  BY <1>1, DatabaseAlone, DatabaseInvariant, PTL

\* A profile that changes changes to a higher revision, whether it is amended
\* or replaced by an import of any revision, or else to 0, after the largest.
THEOREM RevisionsRise == Spec => RevisionsGrow
<1>1. DatabaseInv /\ [DatabaseNext]_profiles =>
        [\A id \in IdsOf(profiles) \cap IdsOf(profiles') :
           \A p \in ProfileOf(profiles, id), q \in ProfileOf(profiles', id) :
             q # p => p.revision < q.revision \/ q.revision = 0]_profiles
  <2> SUFFICES ASSUME DatabaseInv, DatabaseNext,
                      NEW id \in IdsOf(profiles),
                      NEW p \in ProfileOf(profiles, id),
                      NEW q \in ProfileOf(profiles', id), q # p
               PROVE  p.revision < q.revision \/ q.revision = 0
    OBVIOUS
  <2>1. PICK k \in DOMAIN profiles : p = profiles[k] /\ p.driverId = id
    BY DEF ProfileOf
  <2>2. Succeeds(q) /\ q.driverId = id
    BY DatabaseStep DEF ProfileOf, Succession
  <2>3. PICK i \in DOMAIN profiles :
          /\ profiles[i].driverId = id
          /\ q = profiles[i] \/ Follows(q, profiles[i])
    BY <2>2 DEF Succeeds
  <2>4. i = k
    BY <2>1, <2>3 DEF DatabaseInv, UniqueIds
  <2> QED
    BY <2>1, <2>3, <2>4 DEF Follows
<1> QED
  BY <1>1, DatabaseAlone, DatabaseInvariant, PTL DEF RevisionsGrow, DatabaseSpec

-----------------------------------------------------------------------------
(* BlinkTracker.                                                           *)
DemoSafeSpec == DemoInit /\ [][DemoNext]_demoVars

LEMMA DemoAlone == Spec => DemoSafeSpec
<1>1. Init => DemoInit
  BY DEF Init
<1>2. [Next]_vars => [DemoNext]_demoVars
  BY DEF Next, StepOf, vars
<1> QED
  BY <1>1, <1>2, PTL DEF Spec, SafeSpec, DemoSafeSpec

Eyes == {"closed", "open", "invalid"}

LastWasClosed == tracked # << >> /\ tracked[Len(tracked)] = "closed"

DemoInv ==
  /\ tracked \in Seq(Eyes) /\ IsFiniteSet(Closures)
  /\ BlinksAreClosures

\* One more frame begins a closure or leaves the closures as they are.
LEMMA ClosuresGrow ==
  ASSUME tracked \in Seq(Eyes), NEW eyes \in Eyes,
         tracked' = Append(tracked, eyes)
  PROVE  /\ tracked' \in Seq(Eyes) /\ Len(tracked) + 1 \notin Closures
         /\ LastWasClosed' <=> eyes = "closed"
         /\ Closures' = IF eyes = "closed" /\ ~LastWasClosed
                        THEN Closures \cup {Len(tracked) + 1} ELSE Closures
<1> DEFINE n == Len(tracked)
<1>1. /\ n \in Nat /\ DOMAIN tracked = 1 .. n /\ DOMAIN tracked' = 1 .. n + 1
      /\ Len(tracked') = n + 1 /\ tracked'[n + 1] = eyes
      /\ \A i \in 1 .. n : tracked'[i] = tracked[i]
      /\ tracked' \in Seq(Eyes) /\ tracked' # << >>
      /\ tracked = << >> <=> n = 0
  OBVIOUS
<1> HIDE DEF n
<1>2. n + 1 \notin Closures
  BY <1>1 DEF Closures
<1>3. LastWasClosed' <=> eyes = "closed"
  BY <1>1 DEF LastWasClosed
<1>4. \A i \in 1 .. n : i \in Closures' <=> i \in Closures
  BY <1>1 DEF Closures
<1>5. LastWasClosed <=> n > 0 /\ tracked[n] = "closed"
  BY <1>1 DEF LastWasClosed, n
<1>6. n + 1 \in Closures' <=> eyes = "closed" /\ ~LastWasClosed
  BY <1>1, <1>5 DEF Closures
<1>7. Closures \subseteq 1 .. n /\ Closures' \subseteq 1 .. n + 1
  BY <1>1 DEF Closures
<1>8. Closures' = IF eyes = "closed" /\ ~LastWasClosed
                  THEN Closures \cup {n + 1} ELSE Closures
  <2> DEFINE begins == eyes = "closed" /\ ~LastWasClosed
  <2>1. \A i \in 1 .. n + 1 : i \in Closures' <=>
          i \in IF begins THEN Closures \cup {n + 1} ELSE Closures
    <3> SUFFICES ASSUME NEW i \in 1 .. n + 1
                 PROVE  i \in Closures' <=>
                          i \in Closures \/ (begins /\ i = n + 1)
      OBVIOUS
    <3>1. CASE i = n + 1
      BY <1>2, <1>6, <3>1
    <3>2. CASE i \in 1 .. n
      BY <1>1, <1>4, <3>2
    <3> QED
      BY <1>1, <3>1, <3>2
  <2>2. (IF begins THEN Closures \cup {n + 1} ELSE Closures)
          \subseteq 1 .. n + 1
    BY <1>1, <1>7
  <2> QED
    BY <1>7, <2>1, <2>2
<1> QED
  BY <1>1, <1>2, <1>3, <1>8 DEF n

LEMMA DemoInvariant == DemoSafeSpec => []DemoInv
<1>1. ASSUME DemoInit
      PROVE  DemoInv
  <2>1. tracked = << >> /\ Closures = {}
    BY <1>1 DEF DemoInit, Closures
  <2> QED
    BY <1>1, <2>1, FS_EmptySet DEF DemoInit, DemoInv, BlinksAreClosures
<1>2. ASSUME DemoInv, [DemoNext]_demoVars
      PROVE  DemoInv'
  <2>1. CASE UNCHANGED trackerVars
    BY <1>2, <2>1
    DEF trackerVars, DemoInv, BlinksAreClosures, Closures
  <2>2. ASSUME TrackNothing
        PROVE  DemoInv'
    <3>1. tracked' \in Seq(Eyes) /\ Closures' = Closures /\ ~LastWasClosed'
      BY <1>2, <2>2, ClosuresGrow DEF TrackNothing, DemoInv, Eyes
    <3> QED
      BY <1>2, <2>2, <3>1
      DEF TrackNothing, DemoInv, BlinksAreClosures, LastWasClosed
  <2>3. ASSUME NEW right \in EARs, NEW left \in EARs, TrackEyes(right, left)
        PROVE  DemoInv'
    <3> DEFINE eyes == IF IsClosed(right, left) THEN "closed" ELSE "open"
    <3>1. eyes \in Eyes /\ tracked' = Append(tracked, eyes)
      BY <2>3 DEF TrackEyes, Eyes
    <3>2. eyes = "closed" <=> IsClosed(right, left)
      OBVIOUS
    <3>3. eyeClosed <=> LastWasClosed
      BY <1>2 DEF DemoInv, BlinksAreClosures, LastWasClosed
    <3> HIDE DEF eyes
    <3>4. /\ tracked' \in Seq(Eyes) /\ Len(tracked) + 1 \notin Closures
          /\ LastWasClosed' <=> eyes = "closed"
          /\ Closures' = IF eyes = "closed" /\ ~LastWasClosed
                         THEN Closures \cup {Len(tracked) + 1} ELSE Closures
      BY <1>2, <3>1, ClosuresGrow DEF DemoInv
    <3>5. eyeClosed' <=> LastWasClosed'
      BY <2>3, <3>2, <3>4 DEF TrackEyes
    <3>6. IsFiniteSet(Closures') /\ blinkCount' = Cardinality(Closures')
      <4>1. IsFiniteSet(Closures) /\ blinkCount = Cardinality(Closures)
        BY <1>2 DEF DemoInv, BlinksAreClosures
      <4>2. CASE eyes = "closed" /\ ~LastWasClosed
        <5>1. blinkCount' = blinkCount + 1
          BY <2>3, <3>2, <3>3, <4>2 DEF TrackEyes
        <5> QED
          BY <3>4, <4>1, <4>2, <5>1, FS_AddElement
      <4>3. CASE ~(eyes = "closed" /\ ~LastWasClosed)
        <5>1. blinkCount' = blinkCount
          BY <2>3, <3>2, <3>3, <4>3 DEF TrackEyes
        <5> QED
          BY <3>4, <4>1, <4>3, <5>1
      <4> QED
        BY <4>2, <4>3
    <3> QED
      BY <3>4, <3>5, <3>6 DEF DemoInv, BlinksAreClosures, LastWasClosed
  <2>4. \/ UNCHANGED trackerVars \/ TrackNothing
        \/ \E right, left \in EARs : TrackEyes(right, left)
    BY <1>2
    DEF DemoNext, SetUp, EmptyFrame, ReadFrame, ProcessFrame, NoEyes, PollKey,
        Throw, PressQuit, demoVars, trackerVars
  <2> QED
    BY <2>1, <2>2, <2>3, <2>4
<1> QED
  BY <1>1, <1>2, PTL DEF DemoSafeSpec

\* Frames without a face neither break a closure nor add a blink, over a
\* recording of any length (BlinkTracker::process).
THEOREM BlinksCountClosures == Spec => []BlinksAreClosures
<1>1. DemoInv => BlinksAreClosures
  BY DEF DemoInv
<1> QED
  BY <1>1, DemoAlone, DemoInvariant, PTL
=============================================================================
