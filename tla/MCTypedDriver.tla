--------------------------- MODULE MCTypedDriver ---------------------------
(***************************************************************************)
(* A small typed driver for TLC.                                           *)
(***************************************************************************)
EXTENDS TypedDriver

\* An image that is accepted and one that is not.
MCImages ==
  {[len |-> 6, magic |-> TRUE, major |-> 1, minor |-> 5],
   [len |-> 6, magic |-> TRUE, major |-> 2, minor |-> 5]}

\* Two valid commands, one with the id of the first, and one without an id.
MCRawCommands ==
  {[id |-> 1, offset |-> 0, length |-> 4, priority |-> 0],
   [id |-> 2, offset |-> 4, length |-> 4, priority |-> 3],
   [id |-> 1, offset |-> 4, length |-> 2, priority |-> 1],
   [id |-> 3, offset |-> 0, length |-> 8, priority |-> 1],
   [id |-> 0, offset |-> 0, length |-> 4, priority |-> 0]}

\* A new queue, and one with a submission of a buffer this device never has.
MCGivenQueues ==
  {<< >>, <<[id |-> 1, buffer_id |-> 2, offset |-> 0, length |-> 4, priority |-> 0]>>}

=============================================================================
