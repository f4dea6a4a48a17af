-------------------------- MODULE DeviceController --------------------------
(***************************************************************************)
(* The device lifecycle (DeviceController of device_state.rs): an offline  *)
(* device takes a firmware image, a device with firmware is started, and a *)
(* reset takes any device offline again.  The enum also has a state        *)
(* Faulted; no code constructs it.                                         *)
(*                                                                         *)
(* A firmware image is abstracted to what check_image reads of it: its     *)
(* length, whether it starts with the magic bytes, and the two version     *)
(* bytes.                                                                  *)
(***************************************************************************)
EXTENDS Naturals, Answers

CONSTANT
  Images       \* the images callers load: [len, magic, major, minor]

ASSUME ImagesAssumption ==
  Images \subseteq [len : Nat, magic : BOOLEAN, major : 0 .. 255, minor : 0 .. 255]

VARIABLES
  state,       \* the DeviceState, with the firmware's version where it has one
  answer       \* what the last call returned

vars == <<state, answer>>

FirmwareInfo == [major : 0 .. 255, minor : 0 .. 255]

Offline == [kind |-> "Offline"]
FirmwareLoaded(info) == [kind |-> "FirmwareLoaded", info |-> info]
Ready(info) == [kind |-> "Ready", info |-> info]

IsDeviceState(s) ==
  \/ s = Offline
  \/ s.info \in FirmwareInfo /\ s \in {FirmwareLoaded(s.info), Ready(s.info)}

-----------------------------------------------------------------------------
Init ==
  /\ state = Offline
  /\ answer = Ok

\* Mutant: loaded firmware is taken for a ready device.
IsNotOffline == state.kind # "Offline"

IsReady == state.kind = "Ready"

\* Mutant: firmware can be replaced before the start.
IsNotReady == state.kind # "Ready"

IsOffline == state.kind = "Offline"

\* Mutant: the major version is not looked at.
CheckImageAnyMajor(image) ==
  IF image.len < 6 THEN "FirmwareTooShort"
  ELSE IF ~image.magic THEN "InvalidFirmwareMagic"
  ELSE "Valid"

\* The first of the three checks that fails names the error.
CheckImage(image) ==
  IF image.len < 6 THEN "FirmwareTooShort"
  ELSE IF ~image.magic THEN "InvalidFirmwareMagic"
  ELSE IF image.major # 1 THEN "UnsupportedFirmwareMajor"
  ELSE "Valid"

Refuse(e) ==
  /\ answer' = Err(e)
  /\ UNCHANGED state

\* The state is checked before the image.
LoadFirmware(image) ==
  \/ /\ ~IsOffline
     /\ Refuse("InvalidState")
  \/ /\ IsOffline
     /\ CheckImage(image) # "Valid"
     /\ Refuse(CheckImage(image))
  \/ /\ IsOffline
     /\ CheckImage(image) = "Valid"
     /\ state' = FirmwareLoaded([major |-> image.major, minor |-> image.minor])
     /\ answer' = Ok

\* Mutant: a refused start leaves the Offline that stood in for the state.
StartedOrOffline(prevst) ==
  IF prevst.kind = "FirmwareLoaded" THEN Ready(prevst.info) ELSE Offline

Started(prevst) ==
  IF prevst.kind = "FirmwareLoaded" THEN Ready(prevst.info) ELSE prevst

\* start takes the state out, leaving Offline in its place, and puts back
\* either the started state or, on a refusal, what it took.
Start ==
  /\ state' = Started(state)
  /\ answer' = IF state.kind = "FirmwareLoaded" THEN Ok ELSE Err("InvalidState")

\* ensure_ready borrows the firmware's version.
EnsureReady ==
  \/ /\ IsReady
     /\ answer' = [info |-> state.info]
     /\ UNCHANGED state
  \/ /\ ~IsReady
     /\ Refuse("InvalidState")

Reset ==
  /\ state' = Offline
  /\ answer' = Ok

Next ==
  \/ \E image \in Images : LoadFirmware(image)
  \/ Start
  \/ EnsureReady
  \/ Reset

Spec == Init /\ [][Next]_vars

-----------------------------------------------------------------------------
(* Properties.                                                             *)

\* Type invariant; the version a device carries is one check_image accepts.
TypeOK ==
  /\ IsDeviceState(state)
  /\ state # Offline => state.info.major = 1

\* A step goes forward through the lifecycle one state at a time, or takes the
\* device offline.  It never skips the firmware, the version is the one that
\* an image with a whole header and the magic bytes brought, and it never
\* changes in a device that has one.
LifecycleOrder ==
  [][\/ state' = state
     \/ state'.kind = "Offline" /\ answer' = Ok
     \/ /\ state = Offline
        /\ \E image \in Images :
             /\ image.magic /\ image.len >= 6
             /\ state' = FirmwareLoaded([major |-> image.major, minor |-> image.minor])
     \/ state.kind = "FirmwareLoaded" /\ state' = Ready(state.info)]_vars

\* A refused call leaves the device as it was, although start empties the
\* state before it knows whether it can go on.
RefusalKeepsState == [][IsErr(answer') => state' = state]_vars

=============================================================================
