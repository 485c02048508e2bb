----------------------------- MODULE BenchmarkRun -----------------------------
(***************************************************************************)
(* A run of face_benchmark (main of src/benchmark_main.cpp) from its       *)
(* options to its exit status, beside the profiler's thread: every early   *)
(* return, and the exceptions main catches, leave through the destructor   *)
(* of the profiler.  What a frame is measured for is FramePipeline's.      *)
(***************************************************************************)
EXTENDS ResourceProfiler

CONSTANTS
  WarmupFrames, MeasuredFrames,   (* --warmup, --frames                    *)
  FileFrames                      (* frames a recorded file holds          *)

ASSUME RunAssumption ==
  /\ WarmupFrames \in Nat \ {0} /\ MeasuredFrames \in Nat \ {0}
  /\ FileFrames \in Nat

VARIABLES
  options,         (* what parseBenchmarkOptions accepted                  *)
  at,              (* where main is                                        *)
  index,           (* frames begun, up to TotalFrames                      *)
  framesLeft,      (* frames before the end of the file                    *)
  calibrated, calibratedOnce,   (* eyeCalibrationApplied and its history   *)
  everyFrameSucceeded,          (* successfulFrames == measuredFrames      *)
  userStopped,                  (* userStoppedDemo                         *)
  exitStatus

mainVars == <<options, at, index, framesLeft, calibrated, calibratedOnce,
              everyFrameSucceeded, userStopped, exitStatus>>

runVars == <<mainVars, profilerVars>>

\* The combinations the parser lets through.
Options ==
  {o \in [camera : BOOLEAN, sponsorDemo : BOOLEAN, autoExit : BOOLEAN,
          resourceProfile : BOOLEAN, display : BOOLEAN] :
     o.autoExit => o.sponsorDemo}

NotLaunched == [camera |-> FALSE, sponsorDemo |-> FALSE, autoExit |-> FALSE,
                resourceProfile |-> FALSE, display |-> FALSE]

\* A demonstration goes on until its input ends or the user stops it; the
\* frames beyond TotalFrames need no counting.
TotalFrames == WarmupFrames + MeasuredFrames

RunInit ==
  /\ ProfilerInit
  /\ options = NotLaunched
  /\ at = "starting" /\ index = 0 /\ framesLeft = FileFrames
  /\ calibrated = FALSE /\ calibratedOnce = FALSE
  /\ everyFrameSucceeded = TRUE /\ userStopped = FALSE /\ exitStatus = 0

Reach(place) ==
  /\ at' = place
  /\ UNCHANGED <<options, index, framesLeft, calibrated, calibratedOnce,
                 everyFrameSucceeded, userStopped, exitStatus>>

-----------------------------------------------------------------------------
\* The command line is parsed and, if it asks for it, the profiler started.
Launch(o) ==
  /\ at = "starting"
  /\ options' = o
  /\ at' = "preparing"
  /\ IF o.resourceProfile THEN start ELSE UNCHANGED profilerVars
  /\ UNCHANGED <<index, framesLeft, calibrated, calibratedOnce,
                 everyFrameSucceeded, userStopped, exitStatus>>

\* Input, models, policy and output files are all there.
Prepare == at = "preparing" /\ Reach("looping") /\ UNCHANGED profilerVars

\* An error message and return 1, or an exception on its way to the catch.
Fail ==
  /\ at \in {"preparing", "capturing", "processing", "writing"}
  /\ at' = "leaving" /\ exitStatus' = 1
  /\ UNCHANGED <<options, index, framesLeft, calibrated, calibratedOnce,
                 everyFrameSucceeded, userStopped, profilerVars>>

PhaseOfFrame ==
  IF index < WarmupFrames THEN "warmup"
  ELSE IF calibrated THEN "processing"
  ELSE IF calibratedOnce THEN "recalibration" ELSE "calibration"

BeginFrame ==
  /\ at = "looping"
  /\ options.sponsorDemo \/ index < TotalFrames
  /\ setPhase(PhaseOfFrame)
  /\ Reach("capturing")

EndLoop ==
  /\ at = "looping"
  /\ ~options.sponsorDemo /\ index = TotalFrames
  /\ Reach("stopping") /\ UNCHANGED profilerVars

\* A demonstration does not start its recording again.
Capture ==
  /\ at = "capturing"
  /\ options.sponsorDemo /\ ~options.camera => 0 < framesLeft
  /\ at' = "processing"
  /\ framesLeft' = IF options.sponsorDemo /\ ~options.camera
                   THEN framesLeft - 1 ELSE framesLeft
  /\ UNCHANGED <<options, index, calibrated, calibratedOnce,
                 everyFrameSucceeded, userStopped, exitStatus, profilerVars>>

InputEnds ==
  /\ at = "capturing" /\ options.sponsorDemo
  /\ Reach("stopping") /\ UNCHANGED profilerVars

\* A measured frame may lose the calibration or complete it.
Process(success, calibration) ==
  /\ at = "processing"
  /\ LET measured == WarmupFrames <= index IN
       /\ calibrated' = (measured /\ calibration)
       /\ calibratedOnce' = (calibratedOnce \/ calibrated')
       /\ everyFrameSucceeded' =
            (everyFrameSucceeded /\ (measured => success))
       /\ at' = IF measured /\ options.sponsorDemo /\ options.display
                THEN "showing" ELSE "looping"
  /\ index' = IF index < TotalFrames THEN index + 1 ELSE index
  /\ UNCHANGED <<options, framesLeft, userStopped, exitStatus, profilerVars>>

\* The window is shown and polled for a key.
KeepShowing ==
  at = "showing" /\ Reach("looping") /\ UNCHANGED profilerVars

UserStops ==
  /\ at = "showing"
  /\ at' = "stopping" /\ userStopped' = TRUE
  /\ UNCHANGED <<options, index, framesLeft, calibrated, calibratedOnce,
                 everyFrameSucceeded, exitStatus, profilerVars>>

-----------------------------------------------------------------------------
StopProfiler ==
  /\ at = "stopping"
  /\ IF options.resourceProfile
     THEN setPhase("shutdown") /\ Reach("requesting")
     ELSE UNCHANGED profilerVars /\ Reach("writing")

RequestStop == at = "requesting" /\ requestStop /\ Reach("joining")

\* Seeded fault: main does not wait for the worker.
DetachProfiler ==
  at = "joining" /\ Reach("writing") /\ UNCHANGED profilerVars

JoinProfiler == at = "joining" /\ join /\ Reach("writing")

\* The trace, the summaries and the report are written from samples_; a
\* demonstration nobody stopped shows its last frame until a key is pressed.
WriteReport ==
  /\ at = "writing"
  /\ at' = IF /\ options.sponsorDemo /\ options.display
              /\ ~options.autoExit /\ ~userStopped
              /\ WarmupFrames < index
           THEN "waiting" ELSE "leaving"
  /\ exitStatus' = IF everyFrameSucceeded THEN 0 ELSE 1
  /\ UNCHANGED <<options, index, framesLeft, calibrated, calibratedOnce,
                 everyFrameSucceeded, userStopped, profilerVars>>

PressAnyKey == at = "waiting" /\ Reach("leaving") /\ UNCHANGED profilerVars

\* The end of the try block destroys the profiler, which stops it.
LeaveBlock ==
  /\ at = "leaving"
  /\ requestStop
  /\ Reach("destroying")

DestroyProfiler ==
  /\ at = "destroying"
  /\ IF joinable THEN join ELSE UNCHANGED profilerVars
  /\ Reach("exited")

-----------------------------------------------------------------------------
\* The steps that wait for nobody.
mainStep ==
  \/ Prepare \/ Fail \/ BeginFrame \/ EndLoop \/ Capture
  \/ InputEnds \/ KeepShowing \/ UserStops
  \/ \E success, calibration \in BOOLEAN : Process(success, calibration)
  \/ StopProfiler \/ RequestStop \/ JoinProfiler \/ WriteReport
  \/ LeaveBlock \/ DestroyProfiler

workerStep == run /\ UNCHANGED mainVars

RunNext ==
  \/ \E o \in Options : Launch(o)
  \/ mainStep \/ workerStep \/ PressAnyKey

\* Both threads are scheduled; a user need not launch or press anything.
RunFairness == WF_runVars(mainStep) /\ WF_runVars(workerStep)

RunSafeSpec == RunInit /\ [][RunNext]_runVars

-----------------------------------------------------------------------------
(***************************************************************************)
(* samples_ has no lock of its own: whoever reads it must know that the    *)
(* worker is gone.  main reads it only where the worker was joined, on     *)
(* every path, and the process never ends with a thread left to join.      *)
(***************************************************************************)
NobodySamplesWhileRead == at \in {"writing", "exited"} => ~joinable

(***************************************************************************)
(* A run that does not depend on a user ends, whatever fails and however   *)
(* the two threads interleave: joining the profiler never blocks main.     *)
(***************************************************************************)
RunEnds ==
  /\ at # "starting"
  /\ ~options.sponsorDemo \/ (options.autoExit /\ ~options.camera)
  ~> at = "exited"
=============================================================================
