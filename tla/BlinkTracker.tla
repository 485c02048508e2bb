----------------------------- MODULE BlinkTracker -----------------------------
(***************************************************************************)
(* yunet_demo: the loop of src/main.cpp around BlinkTracker                *)
(* (src/BlinkTracker.cpp), from the opening of the camera to the key that  *)
(* ends it.  An eye aspect ratio is a whole number; the extremes the       *)
(* tracker records for the display, and what is drawn, are left out.       *)
(***************************************************************************)
EXTENDS Naturals, Sequences, FiniteSets

CONSTANTS
  EARs,                (* ratios calculateEAR may give, 0 for a degenerate *)
                       (* eye                                              *)
  EarCloseThreshold,   (* earCloseThreshold_                               *)
  MaxTracked           (* bound on the frames that reach the tracker       *)

ASSUME TrackerAssumption ==
  EARs \subseteq Nat /\ EarCloseThreshold \in Nat /\ MaxTracked \in Nat

VARIABLES
  demo,                (* where main is                                    *)
  quitPressed,         (* q or Esc waits to be polled                      *)
  rightEAR, leftEAR, landmarkValid, eyeClosed, blinkCount,
  tracked              (* what the tracker was shown, frame by frame       *)

trackerVars ==
  <<rightEAR, leftEAR, landmarkValid, eyeClosed, blinkCount, tracked>>
demoVars == <<demo, quitPressed, trackerVars>>

DemoInit ==
  /\ demo = "setup" /\ quitPressed = FALSE
  /\ rightEAR = 0 /\ leftEAR = 0 /\ landmarkValid = FALSE
  /\ eyeClosed = FALSE /\ blinkCount = 0 /\ tracked = << >>

GoTo(here, there) == demo = here /\ demo' = there

-----------------------------------------------------------------------------
\* Options, camera, a first frame, the backend: each may be the end.
SetUp ==
  /\ GoTo("setup", "reading") \/ GoTo("setup", "exited")
  /\ UNCHANGED <<quitPressed, trackerVars>>

\* An empty frame goes straight back to the camera.
EmptyFrame == demo = "reading" /\ UNCHANGED demoVars

ReadFrame ==
  /\ GoTo("reading", "processing")
  /\ UNCHANGED <<quitPressed, trackerVars>>

-----------------------------------------------------------------------------
IsClosed(right, left) == right < EarCloseThreshold \/ left < EarCloseThreshold

\* process, of landmarks that are finite and of those that are not.
TrackEyes(right, left) ==
  /\ rightEAR' = right /\ leftEAR' = left
  /\ landmarkValid' = TRUE
  /\ blinkCount' = IF IsClosed(right, left) /\ ~eyeClosed
                   THEN blinkCount + 1 ELSE blinkCount
  /\ eyeClosed' = IsClosed(right, left)
  /\ tracked' = Append(tracked,
                       IF IsClosed(right, left) THEN "closed" ELSE "open")

TrackNothing ==
  /\ rightEAR' = 0 /\ leftEAR' = 0
  /\ landmarkValid' = FALSE
  /\ eyeClosed' = FALSE
  /\ tracked' = Append(tracked, "invalid")
  /\ UNCHANGED blinkCount

\* Seeded fault: a frame without a face opens the eyes.
NoEyesForgetting ==
  /\ eyeClosed' = FALSE
  /\ UNCHANGED <<rightEAR, leftEAR, landmarkValid, blinkCount, tracked>>

\* The backend fails, finds no face, or its landmarks cannot be mapped: the
\* tracker is not called.
NoEyes == UNCHANGED trackerVars

ProcessFrame ==
  /\ GoTo("processing", "polling")
  /\ \/ NoEyes
     \/ /\ Len(tracked) < MaxTracked
        /\ TrackNothing \/ \E right, left \in EARs : TrackEyes(right, left)
  /\ UNCHANGED quitPressed

\* Seeded fault: the keys are polled only where the eyes were tracked.
PollKeyWithEyes ==
  /\ IF quitPressed /\ landmarkValid THEN GoTo("polling", "exited")
                                    ELSE GoTo("polling", "reading")
  /\ quitPressed' = (quitPressed /\ ~landmarkValid)
  /\ UNCHANGED trackerVars

\* waitKey takes the key out of the queue.
PollKey ==
  /\ GoTo("polling", IF quitPressed THEN "exited" ELSE "reading")
  /\ quitPressed' = FALSE
  /\ UNCHANGED trackerVars

\* An exception anywhere in the loop.
Throw ==
  /\ GoTo("processing", "exited")
  /\ UNCHANGED <<quitPressed, trackerVars>>

\* There is a window to press a key in once a frame was shown.
PressQuit ==
  /\ demo \notin {"setup", "exited"} /\ ~quitPressed
  /\ quitPressed' = TRUE
  /\ UNCHANGED <<demo, trackerVars>>

-----------------------------------------------------------------------------
DemoNext ==
  \/ SetUp \/ EmptyFrame \/ ReadFrame \/ ProcessFrame \/ PollKey \/ Throw
  \/ PressQuit

\* The loop waits for nothing but the camera, of which nothing is assumed.
DemoFairness == WF_demoVars(ProcessFrame) /\ WF_demoVars(PollKey)

DemoSpec == DemoInit /\ [][DemoNext]_demoVars /\ DemoFairness

-----------------------------------------------------------------------------
(***************************************************************************)
(* A user who asks to quit is obeyed, whatever becomes of the frames,      *)
(* unless the camera from some moment on gives empty frames only: the loop *)
(* then reads on, past the polling of the keys, and nothing else keeps it. *)
(***************************************************************************)
QuitIsObeyed ==
  (quitPressed ~> demo = "exited") \/ <>[](demo = "reading")

\* A closure begins where the frame before it that the tracker was shown, if
\* any, was not closed.
Closures == {i \in DOMAIN tracked : /\ tracked[i] = "closed"
                                    /\ i > 1 => tracked[i - 1] # "closed"}

(***************************************************************************)
(* A blink is counted once for each closure: frames without a face do not  *)
(* break a closure in two, frames with landmarks that are not finite do,   *)
(* and what eyeClosed_ remembers is the last frame the tracker was shown.  *)
(***************************************************************************)
BlinksAreClosures ==
  /\ blinkCount = Cardinality(Closures)
  /\ eyeClosed <=> tracked # << >> /\ tracked[Len(tracked)] = "closed"
=============================================================================
