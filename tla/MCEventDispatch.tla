--------------------------- MODULE MCEventDispatch ---------------------------
(* Small instances of EventDispatch for TLC: two objects, two instances in *)
(* the room and two that code may create.                                  *)
EXTENDS EventDispatch

Handling(all, both) ==
    [e \in Events |-> IF e \in both THEN {0, 1} ELSE IF e \in all THEN {0} ELSE {}]
EachLoop == Handling({"Step", "Timeline", "MouseEnter", "MouseHeld", "GlobalMouse"},
                     {"Alarm", "OutsideRoom", "NoMoreLives", "Collision"})
MCObjectOf == <<0, 1>>
Mutual == 0 :> <<1>> @@ 1 :> <<0>>
===============================================================================
