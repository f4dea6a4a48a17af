------------------------ MODULE MCStaticCommandQueue ------------------------
(***************************************************************************)
(* A small StaticCommandQueue for TLC.  A submission is its id and a tag   *)
(* that tells two submissions with the same id apart.                      *)
(***************************************************************************)
EXTENDS StaticCommandQueue

CONSTANTS CommandIds, Tags

MCSubmission == [id : CommandIds, tag : Tags]

=============================================================================
