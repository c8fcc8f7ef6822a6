---------------------------- MODULE MCSpatialGrid ----------------------------
(* Small instances of SpatialGrid for TLC: a room of two cells of two      *)
(* pixels, cells that wrap around at 4, and boxes that instances take or   *)
(* queries ask for: across the cells, left of the room, right of it, and   *)
(* so far right that the cell of its end wraps around.                     *)
EXTENDS SpatialGrid, TLC

CONSTANTS hall, cave

MCRooms == {hall, cave}
HallOnly == hall :> {1} @@ cave :> {}

Across == <<-3, 2>>
Left == <<-4, -3>>
Outside == <<5, 7>>
Far == <<7, 9>>
MCBoxes == {Across, Outside, Far}
MCAskedBoxes == {Across, Left, Outside, Far}
===============================================================================
