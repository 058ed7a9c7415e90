-------------------------- MODULE CollationContract --------------------------
(***************************************************************************)
(* What a collation promises its caller, in one step: an input is accepted *)
(* exactly when it obeys the rules, and for an accepted one the caller     *)
(* gets what the input declares.  It is silent about what a rejected input *)
(* leaves behind.  collate_atom promises this for the message of one atom, *)
(* collate_atoms for all the atoms of a module, the tools of the express    *)
(* catalog for its files.                                                  *)
(***************************************************************************)
CONSTANTS
  Inputs,            \* the inputs there are
  WellFormed(_),     \* the rules an input must obey
  Declaration(_),    \* what a well formed input declares
  NoDeclaration

VARIABLES input, verdict, declared

vars == <<input, verdict, declared>>

Init ==
  /\ input \in Inputs
  /\ verdict = "pending"
  /\ declared = NoDeclaration

Accept ==
  /\ verdict = "pending"
  /\ WellFormed(input)
  /\ verdict' = "accepted"
  /\ declared' = Declaration(input)
  /\ UNCHANGED input

Reject ==
  /\ verdict = "pending"
  /\ ~WellFormed(input)
  /\ verdict' = "rejected"
  /\ UNCHANGED <<input, declared>>

Next == Accept \/ Reject

Safety == Init /\ [][Next]_vars

Spec == Safety /\ WF_vars(Next)
=============================================================================
