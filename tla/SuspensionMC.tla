---------------------------- MODULE SuspensionMC ----------------------------
(* One request handler, the minute job and one member, for the temporal     *)
(* properties and for the runs that show where the account ends badly.      *)
EXTENDS Suspension

OneMember == {1}
=============================================================================
