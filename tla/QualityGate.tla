----------------------------- MODULE QualityGate -----------------------------
(***************************************************************************)
(* ObservationQualityGate (src/DmsObservation.cpp): loss of quality is     *)
(* reported at once, and quality that comes back is reported as Recovering *)
(* until it has lasted for reacquisitionConfirmation.                      *)
(***************************************************************************)
EXTENDS EventMachinesConfig

VARIABLES
  lastTimestamp,    (* hasTimestamp_ and lastTimestamp_                     *)
  usableSince,
  usableConfirmed,
  verdict           (* what update last returned; Missing before any call   *)

fsm == <<usableSince, usableConfirmed, verdict>>

vars == <<lastTimestamp, fsm>>

TypeOK ==
  /\ lastTimestamp \in Optional(Int)
  /\ usableSince \in Optional(Int)
  /\ usableConfirmed \in BOOLEAN
  /\ verdict \in ObservationUsability

Init ==
  /\ lastTimestamp = None
  /\ usableSince = None
  /\ usableConfirmed = FALSE
  /\ verdict = "Missing"

reset ==
  /\ lastTimestamp' = None
  /\ usableSince' = None
  /\ usableConfirmed' = FALSE
  /\ verdict' = "Missing"

-----------------------------------------------------------------------------
(* update, by the branch it takes. *)

RejectTimestamp(now) ==
  /\ NotAfter(lastTimestamp, now)
  /\ verdict' = "FutureTimestamp"
  /\ UNCHANGED <<lastTimestamp, usableSince, usableConfirmed>>

\* Seeded fault: a lost sample leaves the earlier confirmation in place.
LoseQualityKeepingConfirmation(classified, now) ==
  /\ ~NotAfter(lastTimestamp, now)
  /\ classified # "Usable"
  /\ lastTimestamp' = now
  /\ usableSince' = None
  /\ verdict' = classified
  /\ UNCHANGED usableConfirmed

LoseQuality(classified, now) ==
  /\ ~NotAfter(lastTimestamp, now)
  /\ classified # "Usable"
  /\ lastTimestamp' = now
  /\ usableSince' = None
  /\ usableConfirmed' = FALSE
  /\ verdict' = classified

StayUsable(classified, now) ==
  /\ ~NotAfter(lastTimestamp, now)
  /\ classified = "Usable"
  /\ usableConfirmed
  /\ lastTimestamp' = now
  /\ verdict' = "Usable"
  /\ UNCHANGED <<usableSince, usableConfirmed>>

Recover(classified, now) ==
  LET since == StartedBy(usableSince, now)
      confirmed == now - since >= ReacquisitionConfirmation
  IN  /\ ~NotAfter(lastTimestamp, now)
      /\ classified = "Usable"
      /\ ~usableConfirmed
      /\ lastTimestamp' = now
      /\ usableSince' = since
      /\ usableConfirmed' = confirmed
      /\ verdict' = IF confirmed THEN "Usable" ELSE "Recovering"

update(header, now) ==
  LET classified == classifyObservation(header, now, policy)
  IN  \/ RejectTimestamp(now)
      \/ LoseQuality(classified, now)
      \/ StayUsable(classified, now)
      \/ Recover(classified, now)

Next ==
  \/ reset
  \/ \E header \in Headers, now \in Timestamps : update(header, now)

Spec == Init /\ [][Next]_vars
=============================================================================
