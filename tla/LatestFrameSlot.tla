--------------------------- MODULE LatestFrameSlot ---------------------------
(***************************************************************************)
(* LatestFrameSlot (include/DmsScheduler.hpp) shared by threads that       *)
(* publish frames and threads that take the latest.  Every statement that  *)
(* touches the slot is a step of its own, so that it is the mutex that     *)
(* makes publish and takeLatest atomic and not the model.  A frame stands  *)
(* for its place in the order of publication.                              *)
(***************************************************************************)
EXTENDS Naturals

CONSTANTS
  None,        (* no frame, and the mutex being free                       *)
  Producers, Consumers,
  MaxFrames    (* bound on the number of publications                      *)

ASSUME SlotAssumption ==
  /\ MaxFrames \in Nat /\ None \notin Nat
  /\ None \notin Producers \cup Consumers
  /\ Producers \cap Consumers = {}

VARIABLES
  mutex,       (* the thread that holds mutex_                             *)
  step,        (* the statement each thread is about to execute            *)
  latest,      (* latest_                                                  *)
  published, consumed, superseded,   (* counters_                          *)
  taken        (* what takeLatest last returned to a consumer, 0 if never  *)

counters == <<published, consumed, superseded>>

slotVars == <<mutex, step, latest, counters, taken>>

Threads == Producers \cup Consumers

SlotInit ==
  /\ mutex = None /\ step = [t \in Threads |-> "outside"]
  /\ latest = None
  /\ published = 0 /\ consumed = 0 /\ superseded = 0
  /\ taken = [c \in Consumers |-> 0]

depth == IF latest = None THEN 0 ELSE 1

\* std::lock_guard: taken at the first statement, given back after the last.
Lock(t, first) ==
  /\ step[t] = "outside" /\ mutex = None
  /\ mutex' = t
  /\ step' = [step EXCEPT ![t] = first]

Go(t, from, to) == step[t] = from /\ step' = [step EXCEPT ![t] = to]

Unlock(t) == mutex' = None

-----------------------------------------------------------------------------
CallPublish(p) ==
  /\ published < MaxFrames
  /\ Lock(p, "counting")
  /\ UNCHANGED <<latest, counters, taken>>

CountPublished(p) ==
  /\ Go(p, "counting", "superseding")
  /\ published' = published + 1
  /\ UNCHANGED <<mutex, latest, consumed, superseded, taken>>

\* Seeded fault: every publication counts as one that superseded a frame.
CountSupersededAlways(p) ==
  /\ Go(p, "superseding", "storing")
  /\ superseded' = superseded + 1
  /\ UNCHANGED <<mutex, latest, published, consumed, taken>>

CountSuperseded(p) ==
  /\ Go(p, "superseding", "storing")
  /\ superseded' = superseded + depth
  /\ UNCHANGED <<mutex, latest, published, consumed, taken>>

Store(p) ==
  /\ Go(p, "storing", "outside")
  /\ latest' = published
  /\ Unlock(p)
  /\ UNCHANGED <<counters, taken>>

publish(p) == CountPublished(p) \/ CountSuperseded(p) \/ Store(p)

-----------------------------------------------------------------------------
CallTake(c) ==
  /\ Lock(c, "looking")
  /\ UNCHANGED <<latest, counters, taken>>

ReturnNothing(c) ==
  /\ latest = None
  /\ Go(c, "looking", "outside")
  /\ Unlock(c)
  /\ UNCHANGED <<latest, counters, taken>>

FindFrame(c) ==
  /\ latest # None
  /\ Go(c, "looking", "moving")
  /\ UNCHANGED <<mutex, latest, counters, taken>>

\* Seeded fault: the frame is copied, not moved, out of the slot.
CopyOut(c) ==
  /\ Go(c, "moving", "consuming")
  /\ taken' = [taken EXCEPT ![c] = latest]
  /\ UNCHANGED <<mutex, latest, counters>>

MoveOut(c) ==
  /\ Go(c, "moving", "consuming")
  /\ taken' = [taken EXCEPT ![c] = latest]
  /\ latest' = None
  /\ UNCHANGED <<mutex, counters>>

CountConsumed(c) ==
  /\ Go(c, "consuming", "outside")
  /\ consumed' = consumed + 1
  /\ Unlock(c)
  /\ UNCHANGED <<latest, published, superseded, taken>>

takeLatest(c) ==
  \/ CallTake(c) \/ ReturnNothing(c) \/ FindFrame(c) \/ MoveOut(c)
  \/ CountConsumed(c)

SlotNext ==
  \/ \E p \in Producers : CallPublish(p) \/ publish(p)
  \/ \E c \in Consumers : takeLatest(c)

SlotSafeSpec == SlotInit /\ [][SlotNext]_slotVars

-----------------------------------------------------------------------------
InPublication(p) == step[p] \in {"superseding", "storing"}

\* A frame counts as published once it can be taken.
Register == INSTANCE FrameRegister
  WITH newest <- IF \E p \in Producers : InPublication(p)
                 THEN published - 1 ELSE published,
       received <- taken

(***************************************************************************)
(* "Publishing while work is pending atomically replaces the older frame": *)
(* to its threads the slot is the register, whatever the interleaving.  No *)
(* frame is handed out twice or after a newer one, and once the producers  *)
(* pause the newest frame does not stay in the slot while consumers ask.   *)
(***************************************************************************)
SlotIsARegister == Register!Spec

(***************************************************************************)
(* When nobody is inside, every published frame is accounted for once:     *)
(* consumed, superseded or still in the slot, which is what depth() and    *)
(* counters() then report.                                                 *)
(***************************************************************************)
EveryFrameAccountedFor ==
  mutex = None => published = consumed + superseded + depth
=============================================================================
