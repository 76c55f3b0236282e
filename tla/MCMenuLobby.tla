------------------------------ MODULE MCMenuLobby ------------------------------
(* Instances of MenuLobby for TLC. *)
EXTENDS MenuLobby

CONSTANTS s1, s2, s3

Bounds(link, call, whim) ==
  [k \in Kinds |-> CASE k = "link" -> link [] k = "call" -> call [] k = "whim" -> whim]

\* A lobby of two controllers, with three disturbances of the links or three
\* whims, two RPCs, or a link with another; or of three controllers with one.
MCStarts ==
  ({{s1, s2}} \X {Bounds(3, 0, 0), Bounds(1, 1, 0), Bounds(1, 0, 1), Bounds(0, 2, 0),
                  Bounds(0, 0, 3)})
  \cup ({{s1, s2, s3}} \X {Bounds(1, 0, 0), Bounds(0, 1, 0), Bounds(0, 0, 1)})

\* For the counterexample, two controllers and no disturbance.
MCFewStarts == (SUBSET {s1, s2}) \X {Bounds(0, 0, 0)}
=============================================================================
