------------------------- MODULE FaceMediaPipeRuntime -------------------------
(***************************************************************************)
(* MediaPipeBackend (src/MediaPipeBackend.cpp) above the library that      *)
(* FaceMediaPipeRuntime loads at run time (src/FaceMediaPipeRuntime.cpp),  *)
(* down to the handles the library allocates                               *)
(* (mediapipe/src/FaceMediaPipe.cpp).  A library is told by the load that  *)
(* opened it, a handle by its library.  The landmarks of a face and the    *)
(* video time of a call are left out.                                      *)
(***************************************************************************)
EXTENDS Naturals

CONSTANTS
  NoLibrary, NoHandle,   (* null pointers                                  *)
  MaxLoads,              (* bound on the libraries loaded                  *)
  MaxHandles             (* bound on the handles one library allocates     *)

ASSUME BridgeAssumption ==
  /\ MaxLoads \in Nat /\ MaxHandles \in Nat /\ NoLibrary \notin Nat
  /\ NoHandle \notin [library : 1 .. MaxLoads, number : 1 .. MaxHandles]

VARIABLES
  native,      (* the process: the library the runtime has open, the       *)
               (* handles allocated and not deleted, how often a library   *)
               (* was loaded and a handle created                          *)
  handle,      (* handle_ of the backend                                   *)
  alive,       (* the backend has not been destroyed                       *)
  answer,      (* what the last process returned                           *)
  face         (* detected of the FaceResult it was handed                 *)

bridgeVars == <<native, handle, alive, answer, face>>

BridgeInit ==
  /\ native = [library |-> NoLibrary, live |-> {}, loads |-> 0, created |-> 0]
  /\ handle = NoHandle /\ alive = TRUE
  /\ answer = FALSE /\ face = FALSE

isLoaded(n) == n.library # NoLibrary

-----------------------------------------------------------------------------
(* FaceMediaPipeRuntime, on the state of the process.                      *)
CloseLibrary(n) == [n EXCEPT !.library = NoLibrary]

\* A library that is missing, lacks a symbol or has another version is closed
\* again; load begins with a close.
LoadLibrary(n) ==
  {CloseLibrary(n), [n EXCEPT !.library = n.loads + 1, !.loads = @ + 1]}

\* The handle create returns, if it returns one.
NewHandle(n) == [library |-> n.library, number |-> n.created + 1]

CreateHandle(n) ==
  IF isLoaded(n)
  THEN {[n EXCEPT !.live = @ \cup {NewHandle(n)}, !.created = @ + 1], n}
  ELSE {n}

\* face_mp_process_bgr: an image it refuses or a detection that fails is an
\* error, a frame without a face is not.
processBgr(n) == IF isLoaded(n) THEN {"failed", "no face", "face"} ELSE {"failed"}

DestroyHandle(n, h) == IF isLoaded(n) THEN [n EXCEPT !.live = @ \ {h}] ELSE n

-----------------------------------------------------------------------------
(* MediaPipeBackend.                                                       *)
ReleaseHandle(n) == IF handle = NoHandle THEN n ELSE DestroyHandle(n, handle)

\* Seeded fault: the library is closed before the handle is deleted.
ReleaseLibraryFirst(n) == ReleaseHandle(CloseLibrary(n))

ReleaseAll(n) == CloseLibrary(ReleaseHandle(n))

initialize ==
  /\ alive /\ native.loads < MaxLoads /\ native.created < MaxHandles
  /\ \E loaded \in LoadLibrary(ReleaseAll(native)) : \E made \in CreateHandle(loaded) :
       IF made = loaded
       THEN native' = CloseLibrary(loaded) /\ handle' = NoHandle
       ELSE native' = made /\ handle' = NewHandle(loaded)
  /\ UNCHANGED <<alive, answer, face>>

\* The result is cleared before the first check; a call that fails, or
\* answers with more landmarks than there is room for, leaves it so.
process ==
  /\ alive
  /\ \E outcome \in IF handle = NoHandle THEN {"failed"} ELSE processBgr(native) :
       answer' = (outcome # "failed") /\ face' = (outcome = "face")
  /\ UNCHANGED <<native, handle, alive>>

\* The destructors of the backend and of its runtime.
DestroyBackend ==
  /\ alive
  /\ alive' = FALSE /\ handle' = NoHandle
  /\ native' = ReleaseAll(native)
  /\ UNCHANGED <<answer, face>>

BridgeNext == initialize \/ process \/ DestroyBackend

BridgeSpec == BridgeInit /\ [][BridgeNext]_bridgeVars

-----------------------------------------------------------------------------
(***************************************************************************)
(* Whatever fails, and however often a backend is initialized again, the   *)
(* only handle that lives is the backend's, it belongs to the library that *)
(* is open now, and a backend that is gone leaves neither handle nor       *)
(* library: none is deleted by another library or after its own is closed. *)
(***************************************************************************)
NativeHandlesAccountedFor ==
  /\ native.live = IF handle = NoHandle THEN {} ELSE {handle}
  /\ handle # NoHandle => handle.library = native.library
  /\ isLoaded(native) => alive /\ handle # NoHandle
=============================================================================
