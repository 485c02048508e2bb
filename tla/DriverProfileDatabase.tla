------------------------ MODULE DriverProfileDatabase ------------------------
(***************************************************************************)
(* DriverProfileDatabase (src/DriverProfileDatabase.cpp): the enrolled     *)
(* drivers in memory, and what of them survives serialize and deserialize. *)
(* Of an image or an embedding only the number and the validity matter; a  *)
(* display name is left out.                                               *)
(***************************************************************************)
EXTENDS Integers, Sequences

CONSTANTS
  DriverIds,                  (* the identifiers validId accepts           *)
  InvalidId,                  (* one it does not                           *)
  MaximumDriverProfiles,      (* kMaximumDriverProfiles                    *)
  MaximumImagesPerProfile, MaximumEmbeddingsPerProfile,
  Unserialized,               (* the empty answer of a failed serialize    *)
  MaxRevision                 (* the largest value of the revision counter,*)
                              (* 2^64 - 1 in the code                      *)

ASSUME DatabaseAssumption ==
  /\ InvalidId \notin DriverIds
  /\ MaximumDriverProfiles \in Nat /\ MaxRevision \in Nat \ {0}
  /\ MaximumImagesPerProfile \in Nat /\ MaximumEmbeddingsPerProfile \in Nat

VARIABLE
  profiles     (* profiles_                                                *)

DatabaseInit == profiles = << >>

validateProfile(profile) ==
  /\ profile.driverId \in DriverIds
  /\ profile.images <= MaximumImagesPerProfile
  /\ profile.embeddings <= MaximumEmbeddingsPerProfile

IdsOf(db) == {db[i].driverId : i \in DOMAIN db}

\* find, and the find_if the other operations repeat.
IndexOf(id) == CHOOSE i \in DOMAIN profiles : profiles[i].driverId = id

\* An unsigned increment: the revision after the largest is 0.
Increment(revision) == IF revision = MaxRevision THEN 0 ELSE revision + 1

-----------------------------------------------------------------------------
create(id) ==
  LET profile == [driverId |-> id, revision |-> 1,
                  images |-> 0, embeddings |-> 0]
  IN /\ validateProfile(profile)
     /\ id \notin IdsOf(profiles)
     /\ Len(profiles) < MaximumDriverProfiles
     /\ profiles' = Append(profiles, profile)

\* No two profiles have the same identifier: removing all that have this one
\* removes one.
erase(id) ==
  /\ id \in IdsOf(profiles)
  /\ LET i == IndexOf(id)
     IN profiles' = SubSeq(profiles, 1, i - 1)
                      \o SubSeq(profiles, i + 1, Len(profiles))

\* The copy is validated before it replaces the profile.
Amend(id, copy) ==
  /\ validateProfile(copy)
  /\ profiles' = [profiles EXCEPT ![IndexOf(id)] =
                    [copy EXCEPT !.revision = Increment(@)]]

addImage(id) ==
  /\ id \in IdsOf(profiles)
  /\ Amend(id, [profiles[IndexOf(id)] EXCEPT !.images = @ + 1])

addEmbedding(id) ==
  /\ id \in IdsOf(profiles)
  /\ Amend(id, [profiles[IndexOf(id)] EXCEPT !.embeddings = @ + 1])

-----------------------------------------------------------------------------
(* importProfile(profile, conflict, newId), whose refusals change nothing. *)
ImportUnknown(profile) ==
  /\ profile.driverId \notin IdsOf(profiles)
  /\ Len(profiles) < MaximumDriverProfiles
  /\ profiles' = Append(profiles, profile)

\* Seeded fault: the new identifier is taken without looking for it.
ImportAsAny(profile, newId) ==
  /\ profile.driverId \in IdsOf(profiles)
  /\ newId \in DriverIds
  /\ profiles' = Append(profiles, [profile EXCEPT !.driverId = newId])

\* NewAnonymousId does not ask how many profiles there are.
ImportAsNew(profile, newId) ==
  /\ profile.driverId \in IdsOf(profiles)
  /\ newId \in DriverIds /\ newId \notin IdsOf(profiles)
  /\ profiles' = Append(profiles, [profile EXCEPT !.driverId = newId])

\* Seeded fault: the imported profile keeps its revision.
ImportReplacingAsIs(profile) ==
  /\ profile.driverId \in IdsOf(profiles)
  /\ profiles' = [profiles EXCEPT ![IndexOf(profile.driverId)] = profile]

ImportReplacing(profile) ==
  /\ profile.driverId \in IdsOf(profiles)
  /\ LET i == IndexOf(profile.driverId)
         newer == IF profiles[i].revision < profile.revision
                  THEN profile.revision ELSE profiles[i].revision
     IN profiles' = [profiles EXCEPT ![i] =
                       [profile EXCEPT !.revision = Increment(newer)]]

importProfile(profile, newId) ==
  /\ validateProfile(profile)
  /\ \/ ImportUnknown(profile) \/ ImportAsNew(profile, newId)
     \/ ImportReplacing(profile)

-----------------------------------------------------------------------------
\* The payload stands for its profiles in their order.
serialize(db) ==
  IF /\ Len(db) <= MaximumDriverProfiles
     /\ \A i \in DOMAIN db : validateProfile(db[i])
  THEN db ELSE Unserialized

Readable(payload) ==
  /\ Len(payload) <= MaximumDriverProfiles
  /\ \A i \in DOMAIN payload :
       /\ validateProfile(payload[i])
       /\ payload[i].driverId \notin IdsOf(SubSeq(payload, 1, i - 1))

DatabaseNext ==
  \/ \E id \in {InvalidId} \cup DriverIds :
       create(id) \/ erase(id) \/ addImage(id) \/ addEmbedding(id)
  \/ \E id, newId \in {InvalidId} \cup DriverIds,
        r \in 0 .. MaxRevision, n \in 0 .. MaximumImagesPerProfile + 1 :
       importProfile([driverId |-> id, revision |-> r,
                      images |-> n, embeddings |-> 0], newId)

DatabaseSpec == DatabaseInit /\ [][DatabaseNext]_profiles

-----------------------------------------------------------------------------
(***************************************************************************)
(* What serialize writes, deserialize reads back: a database that could be *)
(* saved is never refused by the checks of the next load, whatever the     *)
(* operations that led to it, the import that skips a limit included.      *)
(***************************************************************************)
SavedDatabaseLoads ==
  serialize(profiles) # Unserialized => Readable(serialize(profiles))

ProfileOf(db, id) == {db[i] : i \in {j \in DOMAIN db : db[j].driverId = id}}

(***************************************************************************)
(* A driver's profile only ever changes to a higher revision, by an        *)
(* import that replaces it as well, so that the older of two bundles is    *)
(* told from the newer.  The one exception is the revision after the       *)
(* largest, 0: nothing checks what revision a bundle brings, so that one   *)
(* import may be enough to get there.                                      *)
(***************************************************************************)
RevisionsGrow ==
  [][\A id \in IdsOf(profiles) \cap IdsOf(profiles') :
       \A p \in ProfileOf(profiles, id), q \in ProfileOf(profiles', id) :
         q # p => p.revision < q.revision \/ q.revision = 0]_profiles

(***************************************************************************)
(* "The store enforces 50 profiles" (docs/STAGE21_ENROLLMENT_PROFILE.md).  *)
(***************************************************************************)
ProfileLimitEnforced == Len(profiles) <= MaximumDriverProfiles
=============================================================================
