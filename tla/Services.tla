------------------------------- MODULE Services -------------------------------
(***************************************************************************)
(* The parts of the repository around the frame loop, each in a behaviour  *)
(* of its own: they share no state, so that one specification chooses the  *)
(* part a behaviour is about and lets it alone move.                       *)
(***************************************************************************)
EXTENDS LatestFrameSlot, BenchmarkRun, DriverProfileDatabase, ProfileStore,
        RecordedFrameClock, EyeStatistics, FaceMediaPipeRuntime, BlinkTracker

VARIABLE part      (* the part this behaviour is about                     *)

vars == <<part, slotVars, runVars, profiles, storeVars, clockVars,
          statisticsVars, bridgeVars, demoVars>>

Parts == {"slot", "run", "database", "store", "clock", "statistics", "bridge",
          "demo"}

Init ==
  /\ part \in Parts
  /\ SlotInit /\ RunInit /\ DatabaseInit /\ StoreInit /\ ClockInit
  /\ StatisticsInit /\ BridgeInit /\ DemoInit

StepOf(p) ==
  /\ part = p
  /\ p # "slot" => UNCHANGED slotVars
  /\ p # "run" => UNCHANGED runVars
  /\ p # "database" => UNCHANGED profiles
  /\ p # "store" => UNCHANGED storeVars
  /\ p # "clock" => UNCHANGED clockVars
  /\ p # "statistics" => UNCHANGED statisticsVars
  /\ p # "bridge" => UNCHANGED bridgeVars
  /\ p # "demo" => UNCHANGED demoVars
  /\ UNCHANGED part

Next ==
  \/ StepOf("slot") /\ SlotNext
  \/ StepOf("run") /\ RunNext
  \/ StepOf("database") /\ DatabaseNext
  \/ StepOf("store") /\ StoreNext
  \/ StepOf("clock") /\ ClockNext
  \/ StepOf("statistics") /\ StatisticsNext
  \/ StepOf("bridge") /\ BridgeNext
  \/ StepOf("demo") /\ DemoNext

SafeSpec == Init /\ [][Next]_vars

\* A producer may stop publishing, but not in the middle of a publication; a
\* consumer goes on asking for frames.
SlotFairness ==
  /\ \A p \in Producers : WF_slotVars(publish(p))
  /\ \A c \in Consumers : WF_slotVars(part = "slot" /\ takeLatest(c))

Spec == SafeSpec /\ SlotFairness /\ RunFairness /\ DemoFairness
=============================================================================
