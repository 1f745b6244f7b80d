----------------------------- MODULE MCFrontDoor -----------------------------
(* Constants for the run that checks FrontDoor. *)
EXTENDS FrontDoor

Difficulty(refused, outside, unverified) ==
  [refused |-> refused, outside |-> outside, unverified |-> unverified]

\* None at all, and for the first of two hosts each kind by itself.
MCTroubles ==
  {Difficulty({}, {}, {}), Difficulty({1}, {}, {}),
   Difficulty({}, {1}, {}), Difficulty({}, {}, {1})}
=============================================================================
