---------------------------- MODULE MCGpuDriver ----------------------------
(***************************************************************************)
(* A small driver for TLC.                                                 *)
(***************************************************************************)
EXTENDS GpuDriver

CONSTANTS
  CommandIds,        \* the valid command ids callers use
  CommandOffsets,    \* aligned offsets
  CommandLengths     \* lengths that are not zero

\* One image that is accepted and one that fails each check.
MCImages ==
  {[len |-> 6, magic |-> TRUE, major |-> 1, minor |-> 5],
   [len |-> 5, magic |-> TRUE, major |-> 1, minor |-> 5],
   [len |-> 6, magic |-> FALSE, major |-> 1, minor |-> 5],
   [len |-> 6, magic |-> TRUE, major |-> 2, minor |-> 5]}

GoodCommands ==
  [id : CommandIds, offset : CommandOffsets, length : CommandLengths, priority : {3}]

\* The good commands, of which some ranges overflow, and for each of the other
\* checks a command that fails it alone.
MCRawCommands ==
  GoodCommands \cup
  {[id |-> 0, offset |-> 0, length |-> 4, priority |-> 3],
   [id |-> 1, offset |-> 2, length |-> 4, priority |-> 3],
   [id |-> 1, offset |-> 0, length |-> 0, priority |-> 3],
   [id |-> 1, offset |-> 0, length |-> 4, priority |-> 4]}

\* Submissions from elsewhere: of a buffer this device will issue too, with a
\* range beyond what it will hold, and of one it will never issue.
Foreign(id, buffer_id) ==
  [id |-> id, buffer_id |-> buffer_id, offset |-> 4, length |-> 8, priority |-> 3]

\* A queue of which nothing was asked before, one that is half full and one
\* that is full.
MCGivenQueues ==
  {<< >>, <<Foreign(1, 0)>>, <<Foreign(2, 2), Foreign(1, 0)>>}

=============================================================================
