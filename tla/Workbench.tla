------------------------------ MODULE Workbench ------------------------------
(***************************************************************************)
(* Parts of the program that are called, answer, and share no state with   *)
(* one another: a behaviour is the work of one of them.  Each has a module *)
(* of its own that extends this one; MCWorkbench puts them side by side.   *)
(***************************************************************************)
EXTENDS Integers, Sequences, FiniteSets, SequencesExt, FiniteSetsExt, TLC

CONSTANTS
  Failed,      \* Result::Err
  Missing      \* Option::None

VARIABLES
  unit,        \* the part at work
  state        \* its input, its tables and its answers

vars == <<unit, state>>
=============================================================================
