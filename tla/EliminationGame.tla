--------------------------- MODULE EliminationGame ---------------------------
(***************************************************************************)
(* What a last-player-standing mode promises, with nothing of how it gets  *)
(* there: players leave the game one at a time and never come back, one    *)
(* verdict is given at most once, it is about the players who are left,    *)
(* and nobody dies after the verdict or after the end.  FFAGame implements *)
(* it.                                                                     *)
(***************************************************************************)
CONSTANTS Players, NoVerdict, Tie

VARIABLES alive,    \* players still in the game
          verdict,  \* NoVerdict, Tie, or the winner announced
          over      \* the game has published its ending event

absVars == <<alive, verdict, over>>

AtMostOne(S) == \A p, q \in S : p = q

\* The verdict on a set of survivors with at most one element.
Outcome(S) == IF S = {} THEN Tie ELSE CHOOSE p \in S : TRUE

AInit == /\ alive = Players
         /\ verdict = NoVerdict
         /\ over = FALSE

\* A player dies; if that decides the game the verdict may come with it.
Eliminate(p) == /\ ~over /\ verdict = NoVerdict
                /\ p \in alive
                /\ alive' = alive \ {p}
                /\ \/ verdict' = NoVerdict
                   \/ AtMostOne(alive') /\ verdict' = Outcome(alive')
                /\ UNCHANGED over

\* The verdict on the players who are left.
Declare == /\ ~over /\ verdict = NoVerdict
           /\ AtMostOne(alive)
           /\ verdict' = Outcome(alive)
           /\ UNCHANGED <<alive, over>>

\* The game ends, decided or not (force-ended, stream closed, error).
Finish == /\ ~over
          /\ over' = TRUE
          /\ UNCHANGED <<alive, verdict>>

ANext == (\E p \in Players : Eliminate(p)) \/ Declare \/ Finish

ASpec == AInit /\ [][ANext]_absVars
=============================================================================
