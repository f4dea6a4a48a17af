------------------------------ MODULE Answers ------------------------------
(***************************************************************************)
(* What a Rust call gives back to its caller: the Result and Option values *)
(* of the crate.  Error payloads that only repeat the arguments of the     *)
(* call are dropped; the error's variant is kept.  An Ok that carries a    *)
(* value is a record with one field, named for what the value is.          *)
(***************************************************************************)

\* Ok(()) of a call that returns nothing else.
Ok == [ok |-> TRUE]

\* Err(e), e the name of the error's variant.
Err(e) == [error |-> e]

\* Err(e) of a call that was about one command: the caller knows its id, and
\* DuplicateCommandId carries it.
ErrFor(e, id) == [error |-> e, command_id |-> id]

\* Some(x) and None of an Option.
Some(x) == [some |-> x]
None == [none |-> TRUE]

IsErr(a) == "error" \in DOMAIN a

=============================================================================
