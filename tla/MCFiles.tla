-------------------------------- MODULE MCFiles --------------------------------
(* Small instances of Files for TLC: a file that comes with the game,      *)
(* called by its name and by working_directory + its name, which holds     *)
(* something that the game itself does not write there.                    *)
EXTENDS Files, TLC

CONSTANTS config, x

OneFile == {config}
BothNames == [path : OneFile, full : BOOLEAN]
OneShipped == config :> <<Zero>>
===============================================================================
