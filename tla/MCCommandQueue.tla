--------------------------- MODULE MCCommandQueue ---------------------------
(***************************************************************************)
(* A small CommandQueue for TLC.  A submission is its id and a tag that    *)
(* tells two submissions with the same id apart.                           *)
(***************************************************************************)
EXTENDS CommandQueue

CONSTANTS CommandIds, Tags

MCSubmission == [id : CommandIds, tag : Tags]

=============================================================================
