---------------------------- MODULE PlanetSwitch ----------------------------
(***************************************************************************)
(* What the Planet lifecycle promises: the planet file, the world folder   *)
(* with its signing keys, local.conf and the planet rows of the database   *)
(* are one value, and an activation or a reset replaces all of it at once. *)
(***************************************************************************)
CONSTANTS Activation,  \* requests that generate or import a planet
          WithKeys,    \* imports whose archive holds a signing key pair
          DbId,        \* activation |-> identity of the rows it commits
          Orig,        \* the planet file ZeroTier was shipped with
          DefaultConf, \* local.conf with port 9993
          NoRows,      \* identity of "no custom planet"
          None

VARIABLE active

(* A signing key pair outlives the planets signed with it: a server that   *)
(* has one keeps it, unless an archive brings another.                     *)
KeysAfter(r, world) ==
  IF r \in WithKeys \/ world = None THEN r ELSE world.keys

Activated(r, world) ==
  [planet |-> r, world |-> [by |-> r, keys |-> KeysAfter(r, world)],
   conf |-> r, db |-> DbId[r]]

Restored == [planet |-> Orig, world |-> None, conf |-> DefaultConf, db |-> NoRows]

Init == /\ active \in [planet : {Orig, None}, world : {None},
                       conf : {DefaultConf, None}, db : {NoRows}]

Activate(r) == active' = Activated(r, active.world)
Restore == active' = Restored

Next == Restore \/ \E r \in Activation : Activate(r)

Spec == Init /\ [][Next]_active
=============================================================================
