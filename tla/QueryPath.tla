----------------------------- MODULE QueryPath -----------------------------
(***************************************************************************)
(* A query on its way to the database: the SQLValidators decide whether    *)
(* the tool executes it, and then the configuration or a preset is turned  *)
(* into a ConnectionString, with which pgx connects.                       *)
(***************************************************************************)
EXTENDS SQLValidators, ConnectionString

pathVars == <<validatorVars, stringVars>>

PathInit == ValidatorInit /\ StringInit

(* A query that was refused may be tried with another tool; nothing is     *)
(* connected for it.                                                       *)
Validate ==
  /\ stage = "start" /\ ~ Accepted
  /\ ValidatorNext
  /\ UNCHANGED stringVars

FindDatabase ==
  /\ Accepted
  /\ StringNext
  /\ UNCHANGED validatorVars

PathNext == Validate \/ FindDatabase

PathSpec == PathInit /\ [][PathNext]_pathVars

=============================================================================
