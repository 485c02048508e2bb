---------------------------- MODULE FrameRegister ----------------------------
(***************************************************************************)
(* What LatestFrameSlot promises the threads that share it                 *)
(* (docs/DMS_CORE.md): frames are numbered in the order of their           *)
(* publication, a frame handed out is always the newest one published, it  *)
(* is handed to one consumer only, and a frame that is still the newest    *)
(* does not wait forever.                                                  *)
(***************************************************************************)
EXTENDS Naturals

CONSTANTS
  Consumers,   (* the threads that take frames                             *)
  MaxFrames    (* bound on the number of publications                      *)

VARIABLES
  newest,      (* how many frames were published                           *)
  received     (* the last frame each consumer was handed, 0 for none      *)

vars == <<newest, received>>

Init == newest = 0 /\ received = [c \in Consumers |-> 0]

Publish ==
  /\ newest < MaxFrames
  /\ newest' = newest + 1
  /\ UNCHANGED received

Take(c) ==
  /\ \A d \in Consumers : received[d] < newest
  /\ received' = [received EXCEPT ![c] = newest]
  /\ UNCHANGED newest

Next == Publish \/ \E c \in Consumers : Take(c)

SafeSpec == Init /\ [][Next]_vars

Spec == SafeSpec /\ WF_vars(\E c \in Consumers : Take(c))
=============================================================================
