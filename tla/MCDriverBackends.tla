-------------------------- MODULE MCDriverBackends --------------------------
(***************************************************************************)
(* Two small drivers for TLC, with as many callers' mistakes as it takes   *)
(* to reach every refusal of the queues.                                   *)
(***************************************************************************)
EXTENDS DriverBackends

CONSTANT CommandIds

\* One image that is accepted.
MCImages == {[len |-> 6, magic |-> TRUE, major |-> 1, minor |-> 5]}

\* Two ranges of a buffer of eight bytes for every id, and an id that is not
\* valid.
MCRawCommands ==
  [id : CommandIds, offset : {0, 4}, length : {4}, priority : {3}]
  \cup {[id |-> 0, offset |-> 0, length |-> 4, priority |-> 3]}

\* Submissions of a buffer neither device ever has.
Foreign(id) == [id |-> id, buffer_id |-> 1, offset |-> 0, length |-> 4, priority |-> 3]

\* A queue with nothing in it, one with two submissions and a full one.
MCGivenQueues ==
  {<< >>, <<Foreign(2), Foreign(1)>>, <<Foreign(3), Foreign(1), Foreign(4)>>}

=============================================================================
