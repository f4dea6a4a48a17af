----------------------------- MODULE TypedDriver -----------------------------
(***************************************************************************)
(* The typestate wrapper around the driver and its submission session      *)
(* (typed_generic_driver.rs, submission_session.rs; typed_driver.rs is the *)
(* same wrapper without peek and sessions).                                *)
(*                                                                         *)
(* The type parameter S of the wrapper is a copy, kept by the compiler, of *)
(* the lifecycle state the inner driver keeps at run time.  Nothing in the *)
(* types ties the two together: change_state converts any wrapper into any *)
(* other, and is right only where the code calls it.  Which calls compile  *)
(* depends on S and on who holds the driver: the client, a                 *)
(* TransitionError after a failed transition, or a session that borrows it *)
(* exclusively.  That is the guard of the actions here.  The variables and *)
(* the calls of the inner driver are those of GpuDriver, and so is the     *)
(* queue a client hands to new in whatever state.                          *)
(***************************************************************************)
EXTENDS GpuDriver

VARIABLES
  marker,      \* the type parameter S of the wrapper
  holder       \* where the driver is: "client", "error" or "session"

wrapper == <<marker, holder>>
typedVars == <<vars, wrapper>>

\* The markers that implement the sealed trait DriverState, and those that
\* implement Operational.
DriverState == {"Offline", "FirmwareLoaded", "Ready"}
OperationalState == {"Ready"}

-----------------------------------------------------------------------------
TypedInit ==
  /\ Init
  /\ marker = "Offline"
  /\ holder = "client"

\* Mutant: the marker changes before the outcome is known.
TransitionAlways(next_marker) ==
  /\ marker' = next_marker
  /\ IF IsErr(answer') THEN holder' = "error" ELSE UNCHANGED holder

\* change_state on success; on failure the driver moves into the error.
Transition(next_marker) ==
  IF IsErr(answer')
  THEN holder' = "error" /\ UNCHANGED marker
  ELSE marker' = next_marker /\ UNCHANGED holder

TypedLoadFirmware(image) ==
  /\ marker = "Offline" /\ holder = "client"
  /\ LoadFirmware(image)
  /\ Transition("FirmwareLoaded")

TypedStart ==
  /\ marker = "FirmwareLoaded" /\ holder = "client"
  /\ Start
  /\ Transition("Ready")

\* into_driver and into_parts take the driver back out of the error.
IntoDriver ==
  /\ holder = "error"
  /\ holder' = "client"
  /\ UNCHANGED <<vars, marker>>

\* Mutants: the methods exist for every S, or during a borrow.
OperationalForEveryMarker == holder = "client"
OperationalWhileBorrowed == marker = "Ready"

\* Methods of S: Operational, on a driver that is not borrowed.
Operational == marker \in OperationalState /\ holder = "client"

TypedAllocateBuffer(capacity) ==
  /\ Operational
  /\ AllocateBuffer(capacity)
  /\ UNCHANGED wrapper

TypedWriteBuffer(id, length, b) ==
  /\ Operational
  /\ WriteBuffer(id, length, b)
  /\ UNCHANGED wrapper

TypedSubmit(id, raw) ==
  /\ Operational
  /\ Submit(id, raw)
  /\ UNCHANGED wrapper

TypedNextSubmission ==
  /\ Operational
  /\ NextSubmission
  /\ UNCHANGED wrapper

TypedPeekSubmission ==
  /\ Operational
  /\ PeekSubmission
  /\ UNCHANGED wrapper

TypedObserveQueue ==
  /\ Operational
  /\ ObserveQueue
  /\ UNCHANGED wrapper

BeginSubmissionSession ==
  /\ Operational
  /\ holder' = "session"
  /\ UNCHANGED <<vars, marker>>

\* The session's submit, queued_len, is_queue_empty and is_queue_full are the
\* driver's; taking and writing are not among its methods.
SessionSubmit(id, raw) ==
  /\ holder = "session"
  /\ Submit(id, raw)
  /\ UNCHANGED wrapper

SessionObserve ==
  /\ holder = "session"
  /\ ObserveQueue
  /\ UNCHANGED wrapper

\* Mutant: closing the session drops what is pending.
FinishDrains ==
  /\ holder = "session"
  /\ holder' = "client"
  /\ queue' = << >>
  /\ given' = 0
  /\ UNCHANGED <<state, next_id, buffers, answer, marker>>

\* finish, or the end of the session's scope.
Finish ==
  /\ holder = "session"
  /\ holder' = "client"
  /\ UNCHANGED <<vars, marker>>

TypedNext ==
  \/ \E image \in Images : TypedLoadFirmware(image)
  \/ TypedStart
  \/ IntoDriver
  \/ \E c \in Capacities : TypedAllocateBuffer(c)
  \/ \E id \in 0 .. MaxId :
       \/ \E n \in Lengths, b \in Byte : TypedWriteBuffer(id, n, b)
       \/ \E raw \in RawCommands : TypedSubmit(id, raw) \/ SessionSubmit(id, raw)
  \/ TypedNextSubmission
  \/ TypedPeekSubmission
  \/ TypedObserveQueue
  \/ BeginSubmissionSession
  \/ SessionObserve
  \/ Finish

TypedSpec == TypedInit /\ [][TypedNext]_typedVars

-----------------------------------------------------------------------------
(* Properties.                                                             *)

\* Type invariant.  Only a ready driver is borrowed by a session, and only a
\* driver before its start can sit in a TransitionError.
TypedOK ==
  /\ TypeOK
  /\ marker \in DriverState
  /\ holder \in {"client", "error", "session"}
  /\ holder = "session" => marker = "Ready"
  /\ holder = "error" => marker # "Ready"

\* The compile-time state is the run-time state in every state of the
\* program, in errors and during sessions too.
MarkerMatchesRuntime == marker = state.kind

\* No method the types let a client call is ever refused because of the
\* lifecycle state: the run-time checks behind the wrapper never fail.
NeverInvalidState == [][answer' # Err("InvalidState")]_typedVars

\* A failed transition returns the driver it was given, with everything in it.
FailureReturnsOriginal ==
  [][holder' = "error" /\ holder # "error" =>
       UNCHANGED <<marker, state, next_id, buffers, queue>>]_typedVars

\* While a session is open nothing but its own submissions changes the
\* driver: what is pending stays pending, in place.
SessionOnlyAppends ==
  [][holder = "session" =>
       /\ UNCHANGED <<marker, state, next_id, buffers>>
       /\ Len(queue) <= Len(queue')
       /\ \A i \in 1 .. Len(queue) : queue'[i] = queue[i]]_typedVars

\* The wrapper adds no behaviour to the driver: with the marker and the
\* holder hidden, each of its behaviours is one of GpuDriver.
ImplementsDriver == Spec

=============================================================================
