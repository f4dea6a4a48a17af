----------------------- MODULE DeviceController_proofs -----------------------
(***************************************************************************)
(* Proofs about the device lifecycle, for every set of images.             *)
(***************************************************************************)
EXTENDS DeviceController, TLAPS

\* The state an image that passes the checks leaves behind.
Brings(image) ==
  /\ image.magic /\ image.len >= 6 /\ image.major = 1
  /\ state' = FirmwareLoaded([major |-> image.major, minor |-> image.minor])

\* What a call does to a state of the lifecycle: one step forward with the
\* version of an image that passed, or back to the beginning, or nothing; and
\* nothing when it is refused.
LEMMA StepKinds ==
  ASSUME TypeOK, [Next]_vars
  PROVE  /\ \/ state' = state
            \/ state' = Offline /\ answer' = Ok
            \/ state = Offline /\ \E image \in Images : Brings(image)
            \/ state.kind = "FirmwareLoaded" /\ state' = Ready(state.info)
         /\ IsErr(answer') => state' = state
<1> USE DEF Ok, IsErr
<1>1. CASE Start
  BY <1>1 DEF Start, Started
<1>2. ASSUME NEW image \in Images, LoadFirmware(image)
      PROVE  \/ state' = state
             \/ state = Offline /\ answer' = Ok /\ Brings(image)
  <2>1. CASE UNCHANGED state
    BY <2>1
  <2>2. CASE IsOffline /\ CheckImage(image) = "Valid"
    <3>1. state = Offline
      BY <2>2 DEF IsOffline, TypeOK, IsDeviceState, Offline, FirmwareLoaded, Ready
    <3>2. image.magic /\ ~(image.len < 6) /\ image.major = 1
      BY <2>2 DEF CheckImage
    <3>3. image.len \in Nat
      BY ImagesAssumption
    <3>4. answer' = Ok
          /\ state' = FirmwareLoaded([major |-> image.major, minor |-> image.minor])
      BY <1>2, <2>2 DEF LoadFirmware, Refuse
    <3> QED
      BY <3>1, <3>2, <3>3, <3>4 DEF Brings
  <2> QED
    BY <1>2, <2>1, <2>2 DEF LoadFirmware, Refuse
<1>3. CASE EnsureReady
  BY <1>3 DEF EnsureReady, Refuse
<1>4. CASE Reset
  BY <1>4 DEF Reset
<1>5. CASE UNCHANGED vars
  BY <1>5 DEF vars
<1> QED
  BY <1>1, <1>2, <1>3, <1>4, <1>5 DEF Next

\* A call keeps the type invariant of the state.
LEMMA NextTyped == TypeOK /\ [Next]_vars => TypeOK'
<1> SUFFICES ASSUME TypeOK, [Next]_vars
             PROVE  TypeOK'
  OBVIOUS
<1> USE DEF TypeOK, IsDeviceState, Offline, FirmwareLoaded, Ready
<1>1. CASE state' = state \/ state' = Offline
  BY <1>1
<1>2. ASSUME NEW image \in Images, Brings(image) PROVE TypeOK'
  <2>1. [major |-> image.major, minor |-> image.minor] \in FirmwareInfo
    BY ImagesAssumption DEF FirmwareInfo
  <2> QED
    BY <1>2, <2>1 DEF Brings
<1>3. CASE state.kind = "FirmwareLoaded" /\ state' = Ready(state.info)
  BY <1>3
<1> QED
  BY <1>1, <1>2, <1>3, StepKinds

\* A new device is offline.
LEMMA InitTyped == Init => TypeOK
BY DEF Init, TypeOK, IsDeviceState, Offline

-----------------------------------------------------------------------------
\* A device is in a state of the lifecycle, with firmware of the major version
\* that is supported.
THEOREM TypeCorrect == Spec => []TypeOK
BY InitTyped, NextTyped, PTL DEF Spec

\* No device skips the firmware, and none has or comes to have a version that
\* no image brought.
THEOREM Forward == Spec => LifecycleOrder
<1>1. TypeOK /\ [Next]_vars =>
        [\/ state' = state
         \/ state'.kind = "Offline" /\ answer' = Ok
         \/ /\ state = Offline
            /\ \E image \in Images :
                 /\ image.magic /\ image.len >= 6
                 /\ state' = FirmwareLoaded([major |-> image.major, minor |-> image.minor])
         \/ state.kind = "FirmwareLoaded" /\ state' = Ready(state.info)]_vars
  BY StepKinds DEF Offline, Brings
<1> QED
  BY TypeCorrect, <1>1, PTL DEF Spec, LifecycleOrder

\* A refused call puts back the state that start took out.
THEOREM Refusal == Spec => RefusalKeepsState
<1>1. TypeOK /\ [Next]_vars => [IsErr(answer') => state' = state]_vars
  BY StepKinds
<1> QED
  BY TypeCorrect, <1>1, PTL DEF Spec, RefusalKeepsState

=============================================================================
