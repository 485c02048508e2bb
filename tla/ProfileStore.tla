----------------------------- MODULE ProfileStore -----------------------------
(***************************************************************************)
(* The encrypted store of driver_profile_admin                             *)
(* (src/driver_profile_admin.cpp) and its sibling ".new", shared by every  *)
(* administrator that runs the program: a command loads the store, changes *)
(* the database in memory and writes the whole of it to the sibling, which *)
(* then replaces the store.  A process may be killed between any two       *)
(* steps.  Files behave as on Windows, the only platform the encryption    *)
(* exists for: a file that is open is neither replaced nor removed.        *)
(***************************************************************************)
EXTENDS Naturals, FiniteSets

CONSTANTS
  Admins,      (* processes, each running one command after another        *)
  Drivers,     (* driver identifiers a command may create or delete        *)
  Absent,      (* no such file                                             *)
  Torn         (* a file load refuses: empty, cut short or mixed           *)

ASSUME StoreAssumption ==
  Absent # Torn /\ \A db \in SUBSET Drivers : db # Absent /\ db # Torn

VARIABLES
  store, sibling,   (* Absent, Torn or the set of drivers of the database  *)
  doing,            (* the step each process is at                         *)
  command,          (* its command                                         *)
  memory,           (* the database it has loaded and changed              *)
  enrolled,         (* drivers whose creation was reported and whose       *)
                    (* deletion was not begun                              *)
  overlapped        (* two commands that save were at work at the same     *)
                    (* time                                                *)

storeVars ==
  <<store, sibling, doing, command, memory, enrolled, overlapped>>

Commands ==
  [name : {"create", "delete"}, driver : Drivers] \cup [name : {"init", "list"}]

StoreInit ==
  /\ store = Absent /\ sibling = Absent
  /\ doing = [a \in Admins |-> "idle"]
  /\ command = [a \in Admins |-> [name |-> "list"]]
  /\ memory = [a \in Admins |-> {}]
  /\ enrolled = {} /\ overlapped = FALSE

Become(a, from, to) == doing[a] = from /\ doing' = [doing EXCEPT ![a] = to]

\* The process ends, with all it holds in memory.
Exit(a) ==
  /\ doing' = [doing EXCEPT ![a] = "idle"]
  /\ command' = [command EXCEPT ![a] = [name |-> "list"]]
  /\ memory' = [memory EXCEPT ![a] = {}]

\* The stream of writeFileAtomic is open in these steps.
Writing(a) == doing[a] = "writing"

-----------------------------------------------------------------------------
\* main reads its options and the passphrase.  Nothing is claimed of what
\* follows an overlap: the commands then at work are the last.
Start(a, c) ==
  /\ ~overlapped
  /\ Become(a, "idle", "loading")
  /\ command' = [command EXCEPT ![a] = c]
  /\ enrolled' = IF c.name = "delete" THEN enrolled \ {c.driver} ELSE enrolled
  /\ overlapped' =
       \/ overlapped
       \/ c.name # "list" /\ \E b \in Admins : command[b].name # "list"
  /\ UNCHANGED <<store, sibling, memory>>

\* load: a store that is not there is an empty database.
Load(a) ==
  /\ store # Torn
  /\ memory' = [memory EXCEPT ![a] = IF store = Absent THEN {} ELSE store]
  /\ Become(a, "loading", "changing")
  /\ UNCHANGED <<store, sibling, command, enrolled, overlapped>>

\* The command as the database carries it out, refusals aside.
Change(a) ==
  /\ CASE command[a].name = "create" ->
            /\ command[a].driver \notin memory[a]
            /\ memory' = [memory EXCEPT ![a] = @ \cup {command[a].driver}]
       [] command[a].name = "delete" ->
            /\ command[a].driver \in memory[a]
            /\ memory' = [memory EXCEPT ![a] = @ \ {command[a].driver}]
       [] command[a].name = "init" -> store = Absent /\ UNCHANGED memory
       [] OTHER -> FALSE
  /\ Become(a, "changing", "saving")
  /\ UNCHANGED <<store, sibling, command, enrolled, overlapped>>

\* list, a refused command, a load that throws, or any failure while saving;
\* what the failure leaves of the sibling stays there.
GiveUp(a) ==
  /\ doing[a] \in {"loading", "changing", "saving", "writing"}
  /\ Exit(a)
  /\ UNCHANGED <<store, sibling, enrolled, overlapped>>

-----------------------------------------------------------------------------
(* writeFileAtomic: open and truncate the sibling; write the bundle, flush *)
(* and close; move the sibling onto the store, or remove it.               *)
\* Seeded fault: the store itself is opened and truncated.
OpenStoreItself(a) ==
  /\ store' = Torn
  /\ Become(a, "saving", "writing")
  /\ UNCHANGED <<sibling, command, memory, enrolled, overlapped>>

OpenSibling(a) ==
  /\ sibling' = Torn
  /\ Become(a, "saving", "writing")
  /\ UNCHANGED <<store, command, memory, enrolled, overlapped>>

\* Bytes another process wrote into the file may remain behind this bundle.
WriteBundle(a) ==
  /\ sibling' \in IF sibling = Torn THEN {memory[a]} ELSE {memory[a], Torn}
  /\ Become(a, "writing", "moving")
  /\ UNCHANGED <<store, command, memory, enrolled, overlapped>>

MoveSibling(a) ==
  /\ sibling # Absent
  /\ ~\E b \in Admins : Writing(b)
  /\ store' = sibling /\ sibling' = Absent
  /\ Become(a, "moving", "reporting")
  /\ UNCHANGED <<command, memory, enrolled, overlapped>>

MoveRefused(a) ==
  /\ doing[a] = "moving"
  /\ sibling' = IF \E b \in Admins : Writing(b) THEN sibling ELSE Absent
  /\ Exit(a)
  /\ UNCHANGED <<store, enrolled, overlapped>>

Report(a) ==
  /\ doing[a] = "reporting"
  /\ enrolled' = IF command[a].name = "create"
                 THEN enrolled \cup {command[a].driver} ELSE enrolled
  /\ Exit(a)
  /\ UNCHANGED <<store, sibling, overlapped>>

\* The system closes the files of a killed process.
Killed(a) ==
  /\ doing[a] # "idle"
  /\ Exit(a)
  /\ UNCHANGED <<store, sibling, enrolled, overlapped>>

StoreNext ==
  \E a \in Admins :
    \/ \E c \in Commands : Start(a, c)
    \/ Load(a) \/ Change(a) \/ GiveUp(a)
    \/ OpenSibling(a) \/ WriteBundle(a) \/ MoveSibling(a) \/ MoveRefused(a)
    \/ Report(a) \/ Killed(a)

StoreSpec == StoreInit /\ [][StoreNext]_storeVars

-----------------------------------------------------------------------------
(***************************************************************************)
(* As long as commands that save run one after the other, no crash, failed *)
(* write, reader at work or stale sibling of an earlier crash costs a      *)
(* driver: the store can be read, or was never written, and every creation *)
(* that was reported is in it.  Commands that overlap may lose an          *)
(* enrolment, or the store: nothing locks it.                              *)
(***************************************************************************)
EnrolmentsSurviveCrashes ==
  ~overlapped =>
    /\ store # Torn
    /\ enrolled \subseteq (IF store = Absent THEN {} ELSE store)
=============================================================================
