# A verification project for the driver-monitoring core

The repository watches a driver's face: a backend finds the face and its
landmarks in each frame, and a provider-neutral core turns what it finds into
events: blinks, yawns, head movements, distraction, presence, drowsiness, and
"monitoring unavailable". This directory holds TLA+ modules that model that
core, TLC configurations that check them on small instances, and theorems about
them that TLAPS proves for every value of the constants. `PROJECT.json` lists
the components, the runs, the seeded faults, the source lines each definition
models, the findings, the hazards and the theorems.

## The system

All paths are relative to the repository. The core is driven by one loop
(`src/benchmark_main.cpp`, 810-1035): it takes a frame, runs the backend, and
hands the same monotonic time stamp to every state machine below, in a fixed
order, on one thread. Nothing in the core reads a clock. The hard behaviour of
the core is therefore not concurrency but *histories*: samples that are
missing, late, out of order or of poor quality, clocks that must stop at the
right moment, flags cleared by a different event than the one that set them.

Around the core are parts with the other kinds of difficulty: a slot made for
threads to share (no thread of the repository does so yet: only the
single-threaded `tests/dms_core_test.cpp` uses it), a run with a second thread that samples it, processes that write
one file and may be killed, a library loaded at run time whose handles must not
outlive it, a clock made of the time stamps a container happens to hold, and an
interactive program that must obey its user.

| Component | State | Operations | Interaction | What makes it correct |
| --- | --- | --- | --- | --- |
| Observation quality gate (`DmsObservation`) | last time stamp, start of the good run, confirmation latch | `update`, `reset` | its answer is the usability every eye-based machine receives | usable only after an unbroken good run; loss reported at once |
| Eye temporal metrics (`DmsEyeMetrics`) | calibration, eye state, closure, reopening and refractory clocks, emitted flag, counts, deque of intervals | `update`, `setCalibration`, `reset` | reads the gate's usability; feeds statistics, gaze usability, drowsiness | one closure is one event of one kind, seen throughout; PERCLOS exact over the window |
| Eye open calibrator (`DmsEyeMetrics`) | run of stable open-eye samples | `update`, `reset` | produces the calibration the metrics use | calibrates on uninterrupted stable evidence only |
| Eye statistics (`DmsEyeStatistics`) | cumulative sums, rolling deque | `update`, `reset` | reads the metrics' state and blinks | sums agree with what was seen |
| Yawn, head pose, distraction, presence, availability, drowsiness (`DmsTemporalEvents`) | a state, a candidate and its start, clocks, counts | `update`, `reset` each | distraction reads the head zone; drowsiness reads presence, metrics and yawns; availability reads usability | confirmations are continuous, events counted once, alerts cleared by evidence |
| Frame loop (`benchmark_main`) | absence and invalid-pose clocks, calibration flag, all of the above | one iteration per frame | composes everything, recalibrates | no cross-machine loss of an alert |
| Recorded frame clock (`RecordedFrameClock`) | last source time, offset | `advance`, `reset` | gives the time stamps | strictly increasing |
| Scheduler (`DmsScheduler`) | due times; a slot of depth one under a mutex | `publish`, `takeLatest`, `depth`, `counters`; `evaluate`, `markRun` | for a capture thread and a worker; a library type with a mutex, not yet part of any program here | newest frame wins; every frame taken once or counted as superseded |
| Benchmark run (`benchmark_main`, `main`) | options, frame index, what is left of the input, exit status | parse, prepare, loop, report, exit | owns the profiler, the input and the loop | ends, whatever fails (no property is about the exit status) |
| Resource profiler (`ResourceProfiler`) | sampling thread, phase, samples | start, set phase, stop, summarize | a thread beside the run | nobody reads samples while the thread appends; stopping never blocks |
| Neutral head-pose calibrator (`DmsHeadPoseEstimator`) | run of stable poses | `update`, `reset` | offsets the pose | as the eye calibrator |
| Driver profile database (`DriverProfileDatabase`) | profiles in memory | create, erase, add, import, serialize, deserialize | what administration loads and saves | limits kept, revisions never go back but by the wrap of their counter, what is saved loads |
| Profile administration (`driver_profile_admin`) | the encrypted store and its sibling `.new` | init, list, create, delete: load, change, write the sibling, move it onto the store | separate processes on one file | no reported enrolment is lost to a crash |
| MediaPipe runtime (`FaceMediaPipeRuntime`, `MediaPipeBackend`, the bridge library) | library, function table, runtime and native handles | load, unload, create, process, destroy | backends hold handles of the library | no handle outlives its library or is leaked |
| Legacy blink tracker and interactive program (`BlinkTracker`, `main`) | eye state, blink count; the loop | `process`; one iteration per camera frame | | a blink per closure; the quit key is obeyed |
| Driver identity matcher | last decision | identify | | see the plan |
| Everything else | none that lasts | | | backends, mappers, regions of interest, option parsing, drawing: out of scope, see "Not modelled" |

## The modules

Every machine of the core has a module with the code's state as VARIABLES, one
action per branch of `update` and one for `reset`, and a `...History` module
that adds history variables computed from what the machine was shown and what
it answered, and states the properties over them. The properties never read
back the clocks they judge: they compare the machine with an account of their
own.

| Module | Models | Correspondence |
| --- | --- | --- |
| `Observation` | the shared types and `classifyObservation` | a `MonotonicTime` is an integer, an empty optional or a non-finite float is `None`, a score is an integer on the scale of its threshold |
| `EyeMetricsConfig`, `EventMachinesConfig` | the configuration structs | the constants of the machines (those of the gate with those of the event machines), and each `validate` as an ASSUME |
| `QualityGate` | `ObservationQualityGate` | `RejectTimestamp`, `LoseQuality`, `StayUsable`, `Recover` are the returns of `update`, in order |
| `RollingWindow` | `appendInterval`, `trimIntervals`, the sums of `updatePerclos` | operators on a sequence of intervals |
| `EyeMetrics` | `EyeTemporalMetrics` | `Sample` takes the openness `update` computes; `LoseSight`, `CloseEyes`, `OpenEyes`, `ConfirmReopening` are its branches, each with the common tail (interval, PERCLOS, result) |
| `EyePerclos` | `EyeMetrics` beside an exact instant-by-instant record of the window | the deque against a function from instants to states |
| `Yawn`, `HeadPose`, `Distraction`, `Presence`, `Availability`, `Drowsiness` | the machines of `DmsTemporalEvents` | one action per branch of `update` |
| `...History` | nothing: the history variables and the properties of a machine | |
| `EventMachines` | a client of the gate and the six machines above | calls one of them, chosen at the start, with any samples; the machines are instances |
| `Calibrators` | `EyeOpenCalibrator`, `HeadPoseNeutralCalibrator` | operators: a calibrator is a record, `update` gives the next record and the answer |
| `FramePipeline` | the loop of `benchmark_main` and the delays of `OperationalPolicyProfile` | `Observe` is the first half of an iteration, up to the usability handed to the machines, with the calibration kept, awaited or applied; `Derive` calls the metrics and the six machines in the loop's order, each an instance of its module, fed with what the ones before it answered |
| `FrameRegister` | what `docs/DMS_CORE.md` promises of the slot | a register: publishing replaces, taking hands out the newest value, once |
| `LatestFrameSlot` | `LatestFrameSlot` | one step per statement that touches the slot, from the lock to the unlock; several producers and consumers, which is the use its mutex and `docs/DMS_CORE.md` are for |
| `ResourceProfiler` | `ResourceProfiler` | the steps of its thread (sleep, look at the request, sample, append) and of its owner (`start`, `setPhase`, the two halves of `stop`) |
| `BenchmarkRun` | `main` of `benchmark_main` | EXTENDS `ResourceProfiler`; one action per stretch of `main` between two places where it can branch, fail or wait |
| `DriverProfileDatabase` | `DriverProfileDatabase` | one operator per member function; images and embeddings are counted; `erase`, which removes all profiles of an identifier, removes the one at its index, as identifiers are unique (`UniqueIds`, proved) |
| `ProfileStore` | `driver_profile_admin` | processes that load, change, open, write, move and report, and may be killed between any two of these |
| `RecordedFrameClock` | `RecordedFrameClock` and the input of the benchmark | `Open`, and one action per kind of input in `next`; `advance` is shared |
| `EyeStatistics` | `EyeStatistics` of `DmsEyeStatistics` | `update`, `trim`, `result` and `reset`, on `RollingWindow` |
| `FaceMediaPipeRuntime` | the runtime loader, the backend that owns it and the bridge it loads | `initialize`, with the failures of the load and of the creation; `process`; `DestroyBackend` |
| `BlinkTracker` | `BlinkTracker` and the loop of `src/main.cpp` | `TrackEyes` and `TrackNothing` are the two ways through `process`, the rest are the stations of the loop |
| `Services` | a behaviour of one of these parts | EXTENDS them all and lets the part chosen at the start move |
| `FramePipelineHistory` | nothing: three history variables and the properties that relate machines | |
| `MC...` | nothing: the constant values of an instance | |
| `RollingWindowProofs`, `QualityGateProofs`, `EyeMetricsProofs`, `EventMachinesProofs`, `FramePipelineProofs`, `ServicesProofs` | nothing: theorems about queues of intervals and of instants, the gate, the eye metrics, the gate and the six event machines side by side, the frame loop, and the parts of `Services` | |

Conventions. A rejected time stamp is an action of every machine and is always
enabled: a caller may repeat or reorder time stamps (the frame loop never does:
its clock is strictly increasing). A result that a caller reads is a variable
(`result`, `verdict`, `returned`). Counts are in the state, not repeated in the
result. A configuration is a constant, and what `validate` demands of it is the
module's ASSUME; a machine with an invalid configuration, which the program
refuses to start with, is not modelled. Openness, gaze and PERCLOS are integer
percentages; the rounding of the division is the only place where this shows,
and no property is about it. Operators marked "Seeded fault" are plausible
mistakes in the code; no specification uses them, the mutants of `PROJECT.json`
do.

## The runs and their bounds

A type invariant is checked once, where it is needed to read a variable safely
(run `eye_metrics`); a variable of the wrong type elsewhere would stop TLC.

| Run | Shows | Bound |
| --- | --- | --- |
| `event_machines` | for each of seven machines, alone: gate usable exactly after sustained quality; yawns seen throughout and spaced; head zones confirmed afresh and movements counted per return to neutral; distraction begun and ended on uninterrupted evidence, one event each; presence confirmed and never stale; episodes timed and counted once; recent yawns exact and recovery debounced | times 1..10; gate confirmation 3, age limit 2; yawn duration 3, confirmation 1; head confirmation 2; gaze confirmation 1, distraction 2, recovery 2; presence 2 and 4; availability 2 and 4; yawn window 3, two yawns, hold 2, recovery 2; inputs below, at, between and above every threshold |
| `eye_metrics` | blinks, long blinks and prolonged closures: type, no empty dereference, seen throughout, spaced, one kind, once | times 0..13, blink 1..2, long below 4, prolonged 4, reopening 1, refractory 2, gap 2; three ear values on both sides of and between the thresholds |
| `eye_perclos` | the deque tells the exact story of the window | times 0..9, window 4, gap 2, two calibrations |
| `services` | the slot implements the register, and nothing is lost uncounted; nobody reads the samples while the profiler appends, and a run ends; what a database saves loads again, and revisions grow; no crash costs an enrolment; the frames are apart and an even recording keeps its time; the statistics match an account of what was seen; native handles are accounted for; a blink is a closure and quitting is obeyed | two producers and consumers, three publications; warm-up 1, measured 2, a file of 2 frames; three drivers and two profiles of one image and one embedding, a revision counter that wraps after 3; two administrators, two drivers; five units a second at two or three frames a second, two ticks to a unit, stamps 0..12; times 0..5, window 3, gap 2, 60 % known; three loads, three handles; ratios below and at the threshold, four frames |
| `frame_pipeline` | the machines together: the eye state is known only under this driver's calibration; a calibration comes from an unbroken, steady run of good open-eye measurements; a distraction needs eyes open throughout; an absent driver is forgotten; "monitoring unavailable" is announced only after an outage of the notification time | times 1..9, one frame per instant, eight kinds of frame; gate 1, calibration 2, recalibration after absence 2 or invalid geometry 3, absence 2, notification 3, blink 1, long below 2, prolonged 2, distraction 2; a diagnostic recalibration at 6 or none |

`event_machines` adds the state spaces of its machines where a product would
multiply them. That loses nothing: the machines share no state at all, and what
one machine reads of another (the head zone, the presence, the yawn event) is
an input here, with every value in every step.

Time only moves forward through accepted samples, so a bound on the instants
bounds every behaviour except that of `reset`, which starts the machine again
at any instant: that is why the state spaces are finite without any further
constraint. Samples of a single machine may skip any number of instants, so its
runs contain every spacing of samples, among them gaps longer than
`MaximumSampleGap`. The durations keep the order of the approved ones and
differ from each other wherever the code compares them; the horizon holds two
whole cycles of the event in question, which is the longest history any of the
properties looks at. The tightest is the yawn: opened at 1, closing at 4 and
counted at 5, and a second one opened at 6, closing at 9 and counted at 10, the
last instant. A second distraction is possible at 9, a second movement at 9.
That these cases happen was checked with TLC, by asserting of each that it does
not: a second yawn, movement, distraction and counted closure, a second long
episode that is notified as well, a prolonged closure after another, a counted
closure after a prolonged one, a recovery from an alert, and yawns that age out
of the window one by one. The machines stop being given
samples at the end of the horizon but can always be reset, so deadlock is
checked. The frame loop does end, with its last frame: its two runs, and those
of the services, do not check deadlock.

`services` adds the state spaces of its parts in the same way: `part` is chosen
at the start, and the other parts stay as they are. The bounds of a part are
small enough to be crossed: three publications are superseded, taken and left
behind in every order by four threads; two commands overlap, follow each other
and crash at each of their steps; a third profile and a second image do not
fit; five units are no multiple of three frames, nor two ticks of every stamp,
so that the truncations of the clock are seen; the window of the statistics is
shorter than the horizon; a third load follows two whole lives of a backend; a
closure, a frame that breaks it and a second closure fit into four frames.
The revision counter wraps where it ends, as the 64-bit one does, so
that `MaxRevision` cuts nothing short. Deadlock is not checked there:
publications, stamps and frames are bounded, and runs end.

`frame_pipeline` gives each frame as one of eight kinds: attentive, no face,
eyes closed, gaze away, no pose, face turned away, eyes occluded, and eyes wide
open in a way that unsettles a calibration. Nine frames are enough to calibrate
(three) and then either be distracted, or close the eyes while the gaze is
still reported away, or lose the driver for longer than the
notification time, or lose the driver for the absence time and calibrate the
next one. Frames of differing length are left to the runs of the single
machines, which the pipeline calls with the same operators. The absence time of
the loop is no longer than that of the presence machine, as in the approved
policy (both 1 s): `AbsentDriverIsForgotten` depends on it, and no `validate`
demands it (see "What is proved").

### What the code does differently from its documents

Seven runs check a sentence of the documents and find it violated; all but the
last are about `docs/STAGE20_OPERATIONAL_POLICY_RECOMMENDATION.md`:

- `eye_closure_missed`: eyes that close within the refractory time of a counted
  blink and stay closed are never a prolonged closure
  (`src/DmsEyeMetrics.cpp:213`).
- `eye_prolonged_uncounted`: the second prolonged closure of a drive is not
  counted and raises no event unless sight of the eyes was lost in between,
  since the flag survives the reopening (`src/DmsEyeMetrics.cpp:242`, `:260`).
- `head_entry`: the first direction of a drive counts as a movement without any
  neutral pose before it.
- `distraction_unconfirmed`: a gaze never confirmed in any zone counts as away.
- `drowsiness_clear`: one sample of unknown quality clears an alert.
- `outage_unnotified`: a face that is gone is recalibrated away after a second,
  from then on every frame is handed on as Recovering
  (`src/benchmark_main.cpp:979`), which counts as available: monitoring is
  never shown to be unavailable while the face is away.
- `profile_limit`: `docs/STAGE21_ENROLLMENT_PROFILE.md:13` says that the store
  enforces 50 profiles; an import under a new anonymous identifier goes past it
  (`src/DriverProfileDatabase.cpp:133`), after which `serialize` refuses the
  database. Only tests import today: the administration tool has no such
  command.

Observations that no run is needed to see:

- `docs/DISPLAY_AOI_STATISTICS_CONFIGURATION.md:44-45, 87` lets the statistics
  be reset on a change of driver or at the start of a session; the keys are
  parsed (`src/DmsPresentationConfigLoader.cpp:116-117`) and used by nobody.
- `docs/STAGE21_ENROLLMENT_PROFILE.md:29` speaks of atomic replacement. The
  replacement is; the whole command is not. Two commands that overlap share the
  sibling file, may lose an enrolment, and may leave a store that does not
  load. `EnrolmentsSurviveCrashes` therefore speaks of commands that do not
  overlap.
- `--sponsor-demo` with `--camera` is accepted although the message of its
  check asks for a video file, and with the display disabled it polls no key
  and never ends (`src/benchmark_main.cpp:629, 805, 1120, 1184`). `RunEnds`
  leaves this combination out.
- The CPU time of an interval is booked to the phase at its end, not at its
  start.
- `unavailableSince_` uses time zero for "no episode"
  (`src/DmsTemporalEvents.cpp:336`): harmless, since the frame loop hands on
  Recovering until it has calibrated (`src/benchmark_main.cpp:979`).

The table of the policy asks for 2 s of refractory time after a yawn, which
`YawnConfig` does not have; no run is needed to see that.

## Fairness

The machines of the core are passive: they act when the frame loop calls them,
and nothing in the code promises another frame. Their properties are safety
properties. Fairness is assumed, weakly, of

- the slot: a thread that is inside `publish` leaves it, as it only counts and
  moves under the lock; a consumer goes on asking for frames. Producers need
  not publish. Nothing is assumed of who gets the mutex: a consumer may be
  beaten to it any number of times while the publications last, which are
  bounded here. `SlotIsARegister` therefore says that the newest frame is taken
  once the producers pause, and nothing of a consumer that starves while they
  go on.
- the run: `main` and the sampling thread are both scheduled. A user need
  neither launch the program nor press a key, and so `RunEnds` is about the
  runs that do not ask for one.
- the interactive program: a frame that was read is processed, and the keys are
  polled. Nothing is assumed of the camera: an empty frame goes back to it past
  the polling of the keys (`src/main.cpp:129`), for ever if no other comes, and
  `QuitIsObeyed` names that as the one way in which a user is not obeyed.

Administrators, the database, the clock, the statistics and the runtime have no
fairness: a process may stop for good anywhere.

## What is proved

`QualityGateProofs`. The latch stands for the run of good samples
(`LatchIsRight`) and the verdict follows it (`VerdictIsRight`), for every set
of time stamps, headers, policy and confirmation that `validate` accepts. The
latch property is inductive together with the type invariant and the fact that
the run starts no later than the last sample.

`EventMachinesProofs`. All thirteen properties that run `event_machines` checks
of the six machines of `DmsTemporalEvents`, and the gate's two, for every
configuration that validates, any set of time stamps and any samples. The
client, when it calls a machine, is that machine (`SeatAlone`, `GazeAlone`,
...), so each machine has an inductive invariant of its own. Each says how the
clocks the code keeps lie among the runs of samples the history records; the
action properties follow from it, one lemma per branch of `update`:

| Machine | Theorems | What the invariant adds to the types |
| --- | --- | --- |
| gate | `GateLatchIsRight`, `GateVerdictIsRight` | that of `QualityGateProofs` |
| presence | `PresenceFollowsEvidence`, `PresenceIsConfirmed` | the candidate is the answer the unbroken run supports, and its clock the start of that run (`CandidateFollowsRun`): without it the confirmation of one answer could have begun under the other |
| availability | `AvailabilityIsTimed`, `AvailabilityCountsOnce` | `unavailableSince` is the start of the run of unusable samples, and its zero, which no time stamp is (`NoZeroTimestamp`), stands for no run |
| yawn | `YawnIsSeenThroughout`, `YawnsKeepTheirDistance` | the mouth was in sight before what is being confirmed began, a yawn is being closed since the mouth was shut, and all of it is later than the last yawn (`YawnInOrder`) |
| head pose | `ZoneIsSeen`, `MovementsReturn` | a candidate exists only while the pose is seen (`CandidateInSight`); the machine is armed only by a return that took its confirmation after the last movement (`MovementsInOrder`) |
| distraction | `DistractionIsSeen`, `DistractionEndsForward`, `DistractionsKeepTheirDistance` | each clock runs inside the run of samples it measures and the recovery clock only in a distraction (`ClocksInSight`); what comes after an event comes a recovery later (`DistractionsInOrder`) |
| drowsiness | `YawnEvidenceIsKept`, `RecoveryIsWhole` | the queue is in order and its instants are those of the window (`YawnsKept`); the recovery clock of an alert lies in the run of normal evidence (`RecoveryInRun`) |

`MachinesTypeCorrect` adds what these invariants leave out: under any samples
and resets the gate and the six machines also keep their zones, counts and
results in the types they declare. No run checks that; reading a variable of
the wrong type would stop TLC, a proof has to say it.

`RollingWindowProofs`. What the code computes from its queues, for queues of
any length. The eye metrics and the statistics keep a queue of intervals, the
statistics and the drowsiness machine a queue of instants; each trims it from
the front and sums or counts what is left.

- Instants: what is old in an ordered queue is a prefix of it
  (`FrontOfSequence`), so that popping the front as long as it is old drops
  exactly the old ones (`PoppingLeavesTheYoung`), and the length of the queue
  counts them (`TimesCounted`).
- Intervals: the time a queue spends in a state is the number of instants that
  its intervals in that state cover (`TimeInCountsInstants`). The sum of
  `updatePerclos` is a recursive function of the length; the induction is over
  that length, where `SetInduction` says that a set of naturals with 0 in it and
  closed under successors is Nat. It is derived from the least element of a
  non-empty set, because the library's own induction theorem takes a predicate
  as a parameter.
- A queue `Records` a window if its intervals follow each other inside it, say
  the state held at each instant they cover, and cover every instant at which a
  state was known. `MovingRecords`: `appendInterval` followed by
  `trimIntervals`, which clips the interval the window begins in, turns a
  record of one window into a record of the next, whatever the gap between the
  samples.

`EyeMetricsProofs`. All six properties of run `eye_metrics` and that of run
`eye_perclos`, for every configuration `EyeTemporalConfig::validate` accepts.
None is inductive by itself. For the closures the inductive invariant is

- `HTypeOK`: types, with a closure duration in Nat, which needs that no clock
  lies after the last time stamp;
- `ClosureInSight`: a closure being followed started when both eyes had been
  seen in every sample since;
- `ReopeningEndsClosure`: a reopening being confirmed belongs to a closure and
  the eyes are not closed;
- `RefractoryHolds`: the refractory time after the last counted closure lies
  before the start of any closure being followed;
- `ProlongedStaysLong`: a closure reported as prolonged that is still followed
  is at least as long as `ProlongedClosure` when it is reopened, so that it
  falls outside both ranges that count.

For PERCLOS (`PerclosIsExact`) it is `WindowRecorded`: the deque records the
window up to the last sample, and the share reported was taken from it. One
step of it is `MovingRecords`; `RecordedTime` then turns the sums of
`updatePerclos` into the counts of instants the property speaks of.

`FramePipelineProofs`. The five properties of run `frame_pipeline`, for every
policy, any frames in any order and any times between them. They relate several
machines, so that none is inductive before the loop itself is understood. The
invariants, each built on the ones before it:

- `Clock`: in each half of an iteration every machine has last seen the same
  instant, earlier than the one it is about to see. Hence no machine ever
  rejects a sample of the loop (`NobodyRejects`), and the branches of `update`
  that the others rely on are always taken.
- `Calibrated` gives `EyesAreKnownWhenCalibrated`: the calibration in force is
  that of the calibrator, which answers once; until then the usability handed
  on is Recovering, under which the eyes are unknown.
- `OutageUnseen` gives `OutagesAreUnseen`: an episode of the availability
  machine began no earlier than the unbroken run of frames without good eyes.
  The two disagree within an iteration, where the loop has seen the frame and
  the machine has not, so the invariant has a case for each half.
- `AwayWithOpenEyes` gives `DistractionIsOfOpenEyes`: the clock of a gaze away
  runs only as long as the eyes stay measured open.
- `Absence` gives `AbsenceForgets`: the absence clock of the loop and the
  candidate of the presence machine agree (`ClocksAgree`), the calibrator's run
  began after the present driver came (`SampledWhilePresent`), and a calibration
  in force while the machine still says absent was found in this frame, in a
  driver whose presence this frame confirms (`ForgottenWhenAbsent`).
- `EvidenceInv` gives `CalibrationIsEarned`: the minimum, maximum, sum and count
  that the calibrator keeps are those of a suffix of the measurements recorded
  (`Backed`), so the quotient lies between two of them (`MeanIsBetween`).

`AbsenceForgets` has two hypotheses: a recalibration after absence waits no
longer than the presence machine takes to confirm the absence, and the eyes
take no less long to calibrate than a presence to be confirmed. The approved
policy satisfies both (1 s and 1 s; 300 ms and 2 s), `validate` demands
neither, and the property fails without either: with a longer wait the old
calibration is still in force when the absence is confirmed, with a quicker
calibration the eyes of the next driver are known before that driver counts as
present.

The runs and the proofs of single machines let a client call a machine at any
time with any sample. `LoopDrivesGate`, `LoopDrivesMetrics` and
`LoopDrivesMachines` say that the frame loop is such a client of the gate, of
the eye metrics and of each of the six machines of `DmsTemporalEvents`: a
behaviour of the loop is, for each of them, a behaviour of that machine's own
specification. What is proved of a machine alone therefore holds in the loop,
where it receives what the machines before it answered. The hypothesis is
`AnyInput`: the sets of inputs of the single machines are everything of their
type, which is what they stand for. What the loop hands on has that type
(`LoopTypes`), the calibrations included, which are quotients of sums of
measurements (`EvidenceInv`).

`ServicesProofs`. Each part behaves, beside the others, as its own
specification says (`SlotAlone`, `RunAlone`, ...), so a theorem about a part is
one about `Services`. The invariants:

- slot (`FramesAccountedFor`, `SlotImplementsRegister`): only the holder of the
  mutex is inside; the counters add up, less the one the holder has still to
  count; the slot is empty or holds the newest frame, and no consumer was
  handed that one. The last part gives the refinement: `Store` is the
  register's `Publish`, `MoveOut` its `Take`, every other statement a stutter.
- run (`SamplesAreReadAlone`): there is no thread before the launch, nor ever
  without `--resource-profile`, in which case `main` joins nothing.
- runtime (`HandlesAccountedFor`): a backend holds a handle exactly as long as
  its runtime holds a library; `ReleaseAllReleases` says that an initialization
  starts from a process without either, whatever there was before.
- clock (`FramesAreApart`, `EvenRecordingsKeepTheirTime`): the rate is that of
  the period and, while the recording is even, the time is that of the last
  stamp. The step is `TruncationsLagBehind`: two truncated quotients never add
  up to more than the truncated sum. It holds for every rate, every fraction of
  a unit and a recording of any length, which no run can show.
- store (`EnrolmentsSurvive`): while commands that save have not overlapped, at
  most one is at work; what it has in memory contains every reported driver and
  its own; the sibling is torn while it writes and equal to its memory when it
  moves; a driver it deletes is reported no longer.
- database (`SavedIsReadable`, `RevisionsRise`): the identifiers are unique and
  every profile in memory is valid (`DatabaseInv`). Both are needed: the first
  for a replaced or amended profile to be the one it succeeds, the second for
  `deserialize` to accept what `serialize` wrote, also past the limit that an
  import skips. A revision is one of the 64-bit counter, whose successor is
  greater or 0 (`IncrementFollows`). `AddingPreserves`, `ReplacingPreserves` and `RemovingPreserves`
  are the three ways in which an operation changes the sequence of profiles.
- tracker (`BlinksCountClosures`): the closures grow by one frame exactly where
  the tracker counts (`ClosuresGrow`).
- statistics (`StatisticsAreExact`, invariant `StatisticsInv`): the cumulative
  sums are those of the record of everything watched, from the first sample to
  the last (`SumsOfRecord`), and both queues hold what that record holds of the
  window (`QueuesOfRecord`); before the first sample there is nothing
  (`NothingWatched`), which a reset has to restore.

The assumptions are those named in the modules: `NoneAssumption` (None is no
integer), the sets of inputs being of the right type, that no time stamp is
zero, the `validate` conditions, and the hypotheses of `AbsenceForgets` and of
`LoopDrives...`, which stand in the theorems. Each action has a step of its own
and each conjunct it can disturb a step under it; the temporal steps use PTL.

An optional instant is written `Instant(x) == x = None \/ x \in Int` in the
proofs, and every comparison of one is guarded by its presence (`NotLater`).
The provers assign a sort to every name they meet in arithmetic; with the two
cases spelled out, none of them takes an absent value for an integer. For the
same reason no leaf uses the length of a sequence beside a function whose
domain is another range of integers: what is needed of the one is stated, and
the definition kept hidden, where the other is reasoned about.

Only model-checked:

- the liveness (`RunEnds`, `QuitIsObeyed`, and of `SlotIsARegister` that the
  newest frame is taken), which rests on ENABLED;
- the seven violations, each of which is one behaviour that TLC shows.

## Not modelled

Backends, landmark and gaze mappers, regions of interest, drawing, option
parsing and the offline baselines keep no state between frames that the core
depends on, or wrap neural networks: what they find in a frame is a
nondeterministic input. The decision of the identity matcher, the eye quality
assessor, the cadence scheduler and `classifyMetadata` answer from their
arguments and at most one time stamp; there is no history in which they could
go wrong.

Within the modelled parts: timings, the contents of traces and reports, images
and names are left out; a report or a trace that cannot be written once it is
open is not noticed by the code either. The store's files behave as on Windows,
the only platform its encryption exists for. Container stamps beyond the range
of a 64-bit integer, which the conversion in `src/RecordedFrameClock.cpp:58`
does not survive, are not in the model. Configurations that do not validate are
refused at the start and not modelled. Counts are unbounded naturals: the
code's 64-bit counters cannot overflow in a drive. The revision of a profile is
the exception, as a bundle may bring any: its wrap is modelled. Time stamps are small
integers: nanoseconds in 64 bits.

## Plan

Done: the core (the quality gate, the eye metrics, the machines of
`DmsTemporalEvents`, the calibrators and the frame loop that composes them);
the parts around it (slot, run and profiler, database, store, clock,
statistics, runtime, blink tracker); proofs of every safety and action property
of the passing runs, of the types of the machines, and that the loop is a client
of each of them.

Next:

1. The identity matcher, and the cadence scheduler with a model that overruns.
2. A property of overlapping commands of the administration tool: what is left
   in the store when two of them race, which `EnrolmentsSurviveCrashes` leaves
   out.
