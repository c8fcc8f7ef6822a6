----------------------------- MODULE MCN3DSAudio -----------------------------
(* A small instance of N3DSAudio for TLC: one stereo stream, one sound, two *)
(* instances, of which one is meant for streams.                            *)
EXTENDS N3DSAudio

OneStereoStream == [f \in Sounds |-> IF f \in Streams THEN 2 ELSE 1]
===============================================================================
