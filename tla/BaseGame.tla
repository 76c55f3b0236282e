------------------------------ MODULE BaseGame ------------------------------
(***************************************************************************)
(* What the games of the other modes share: the players, the phases of     *)
(* run(), the flag that a game goes on, and the game loop, one task, with  *)
(* what it waits for.                                                      *)
(*                                                                         *)
(* The players are numbered in the order of the start request.  The loop   *)
(* proper, its stream and the countdown are in FFAGame: here a frame comes *)
(* whole, a stream that broke is opened again or given up in one step, and *)
(* a player in its grace period is one that does not move too fast.        *)
(***************************************************************************)
EXTENDS Naturals, FiniteSets

CONSTANT None

ASSUME BaseConstants == None \notin Nat

VARIABLES
  numPlayers, \* how many players the game is started with
  phase,   \* how far run() has come
  running, \* the flag that ForceEndGame clears
  loop,    \* what the game loop waits for, and for whom
  hot      \* the rest of the update: who moves too fast

Players == 1..numPlayers
Phases  == {"new", "intro", "playing", "over", "ending", "ended", "failed"}

At(x)       == [at |-> x, who |-> None]
Idle        == At("frame")
Onwards     == At("update")
Goes(x)     == [loop EXCEPT !.at = x]
Playing(at) == phase = "playing" /\ loop.at = at

\* Outside the game loop nobody catches the error of a write: it leaves run().
RunFails(at) == phase \in at /\ phase' = "failed" /\ running' = FALSE

BaseInit ==
  /\ numPlayers \in Nat \ {0, 1}
  /\ phase = "new" /\ running = TRUE /\ loop = Idle /\ hot = {}

BaseTypeOK ==
  numPlayers \in Nat \ {0, 1} /\ phase \in Phases /\ running \in BOOLEAN /\ hot \subseteq Players

\* A game that is forced to end ends, whatever its loop waits for.
ForcedGamesEnd == ~running ~> phase \in {"ended", "failed"}
=============================================================================
