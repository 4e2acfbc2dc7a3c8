------------------------ MODULE PlanetTransactionMC ------------------------
(***************************************************************************)
(* Two activations and a reset.  The second activation is an archive that  *)
(* brings its own signing keys; the first finds its keys on the server.    *)
(***************************************************************************)
EXTENDS PlanetTransaction

CONSTANTS i, k, z

MCActivation == {i, k}
MCReset == {z}
MCWithKeys == {k}
(* The rows an import commits hold the configuration and no hash of the    *)
(* planet (config.ts:159-169): two archives that differ in their keys only *)
(* commit the same rows.                                                   *)
MCDbId == [r \in MCActivation |-> "imported"]
=============================================================================
