--------------------------- MODULE ResourceProfiler ---------------------------
(***************************************************************************)
(* ResourceProfiler (src/ResourceProfiler.cpp): a thread that samples the  *)
(* process at intervals, and what its owner may do with it.  What a sample *)
(* holds is what the operating system answered and is left out.            *)
(***************************************************************************)
EXTENDS Naturals

VARIABLES
  worker,          (* worker_: none, running in one of its steps, ended or *)
                   (* joined                                               *)
  stopRequested, phase    (* both under the mutex                          *)

profilerVars == <<worker, stopRequested, phase>>

ProfilerInit ==
  /\ worker = "none"
  /\ stopRequested = FALSE /\ phase = "startup"

joinable == worker \notin {"none", "joined"}

\* start() on a profiler that was never started, as its owner calls it.
start ==
  /\ ~joinable
  /\ stopRequested' = FALSE
  /\ worker' = "sleeping"
  /\ UNCHANGED <<phase>>

setPhase(name) ==
  /\ phase' = name
  /\ UNCHANGED <<worker, stopRequested>>

\* Seeded fault: nobody tells the worker.
forgetRequest == UNCHANGED profilerVars

\* The two halves of stop(), and of the destructor, which calls it.
requestStop ==
  /\ stopRequested' = TRUE
  /\ UNCHANGED <<worker, phase>>

join ==
  /\ worker = "ended"
  /\ worker' = "joined"
  /\ UNCHANGED <<stopRequested, phase>>

-----------------------------------------------------------------------------
(* run(): sleep for an interval; under the mutex leave or copy the phase;  *)
(* read the counters of the system and append the sample to samples_.      *)
Leave ==
  /\ worker = "sleeping" /\ stopRequested
  /\ worker' = "ended"
  /\ UNCHANGED <<stopRequested, phase>>

BeginSample ==
  /\ worker = "sleeping" /\ ~stopRequested
  /\ worker' = "sampling"
  /\ UNCHANGED <<stopRequested, phase>>

AppendSample ==
  /\ worker = "sampling"
  /\ worker' = "sleeping"
  /\ UNCHANGED <<stopRequested, phase>>

run == Leave \/ BeginSample \/ AppendSample
=============================================================================
