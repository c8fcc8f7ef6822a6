------------------------------- MODULE MCRunner -------------------------------
(* Small instances of Runner for TLC.                                      *)
EXTENDS Runner, TLC

CONSTANTS parent, child, hall, cave

MCObjects == {parent, child}
MCParent == parent :> NoObject @@ child :> parent
MCRooms == {hall, cave}
MCRoomObjects == hall :> {1} @@ cave :> {2}
MCStaticIds == {1, 2}
MCObjectOf == 1 :> child @@ 2 :> parent

\* What code may do in an event: `f' where it says so, nothing elsewhere.
Otherwise(f) == [e \in Events |-> IF e \in DOMAIN f THEN f[e] ELSE {}]

\* life: instances are created, copied, changed and destroyed while two rooms exchange them.
LifeOps == Otherwise(
    "Step" :> {"create", "destroy", "change", "roomGoto"} @@ "CleanUp" :> {"destroy"} @@
    "RoomEnd" :> {"copy", "destroyObject"})
LifeHandlers == {<<parent, "Step">>, <<child, "CleanUp">>, <<parent, "Create">>,
                 <<child, "RoomEnd">>}

\* upheaval: instances are switched off and on, join or leave the persistent ones and are
\* activated by the code their own destruction runs; rooms are asked for at every turn and
\* change their persistence, and the game starts over or ends.
UpheavalOps == Otherwise(
    "Step" :> {"deactivate", "persist", "roomGoto"} @@
    "Draw" :> {"destroy", "activate", "roomSetPersistent", "gameRestart", "gameEnd"} @@
    "Destroy" :> {"destroy", "activate"} @@ "CleanUp" :> {"activate", "withAll"} @@
    "RoomCode" :> {"roomGoto", "gameRestart"} @@ "CreationCode" :> {"roomGoto"} @@
    "RoomEnd" :> {"roomGoto"})
UpheavalHandlers == {<<parent, "Step">>, <<child, "Draw">>, <<parent, "Destroy">>,
                     <<child, "CleanUp">>, <<parent, "RoomEnd">>, <<child, "PreCode">>,
                     <<parent, "CreationCode">>}

\* restored: a persistent room is left while the game starts.
RestoredOps == Otherwise("Step" :> {"roomGoto"} @@ "RoomCode" :> {"roomGoto"})
RestoredHandlers == {<<child, "Step">>}
===============================================================================
