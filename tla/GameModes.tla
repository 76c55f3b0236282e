----------------------------- MODULE GameModes ------------------------------
(***************************************************************************)
(* The game factory: the name in the start request picks the class of the  *)
(* game, and from then on only that game runs.  The modes share the state  *)
(* of the base class; what each has of its own the others leave alone.     *)
(***************************************************************************)
EXTENDS BaseGame, Sequences

CONSTANTS Games, NumTeams, Modes, Tie, Clock, MinRounds, MaxRounds, MaxField,
          Size \* the numbers of players each game is started with

ASSUME GameModesConstants ==
  /\ Games \subseteq {"sides", "zombie", "fight_club", "tournament"}
  /\ Modes \subseteq {"teams", "random_teams", "traitor", "swapper", "werewolf"} /\ Modes # {}
  /\ NumTeams \in Nat \ {0, 1} /\ Clock \in Nat \ {0} /\ MinRounds \in Nat \ {0}
  /\ MaxRounds \in Nat /\ MaxField \in Nat /\ Tie \notin Nat /\ Tie # None
  /\ Size \in [Games -> SUBSET (Nat \ {0, 1})]

VARIABLES
  game,                                          \* the game that was created
  alive, gone, verdict, final,                   \* shared by some of the modes
  mode, team, secret, light, reveal, excused, lost, \* the games of sides
  zombies, humans, respawns, time,               \* the zombie game
  queue, defender, fighter, fighting, score, round, faceOff, gameOver, timer,
  settled, broken,                               \* Fight Club
  bracket, current, state,                       \* the tournament
  shielded                                       \* both of the latter

sideVars   == <<mode, team, secret, light, reveal, excused, lost>>
zombieVars == <<zombies, humans, respawns, time>>
clubVars   == <<queue, defender, fighter, fighting, score, round, faceOff, gameOver,
                timer, settled, broken>>
fieldVars  == <<bracket, current, state>>
modesVars  == <<numPlayers, game, phase, running, loop, hot, alive, gone, verdict, final, sideVars,
                zombieVars, clubVars, fieldVars, shielded>>

Side  == INSTANCE SideGames
Zomb  == INSTANCE Zombie
Club  == INSTANCE FightClub
Field == INSTANCE Tournament

\* create_game, which maps the name to a class: its fields are those of Init.
CreateGame ==
  /\ game \in Games /\ numPlayers \in Size[game]
  /\ Side!Init /\ Zomb!Init /\ Club!Init /\ Field!Init
  /\ game # "sides" => mode = CHOOSE m \in Modes : TRUE

\* What a step of one mode leaves alone.
Outside(g) ==
  CASE g = "sides"  -> UNCHANGED <<game, numPlayers, zombieVars, clubVars, fieldVars, shielded>>
    [] g = "zombie" -> UNCHANGED <<game, numPlayers, sideVars, clubVars, fieldVars, shielded>>
    [] g = "fight_club" -> UNCHANGED <<game, numPlayers, alive, sideVars, zombieVars, fieldVars>>
    [] g = "tournament" ->
         UNCHANGED <<game, numPlayers, alive, gone, verdict, final, sideVars, zombieVars,
                     clubVars>>

Next ==
  \/ game = "sides"      /\ Side!Next  /\ Outside(game)
  \/ game = "zombie"     /\ Zomb!Next  /\ Outside(game)
  \/ game = "fight_club" /\ Club!Next  /\ Outside(game)
  \/ game = "tournament" /\ Field!Next /\ Outside(game)

\* Each mode's own fairness.
Loop ==
  \/ game = "sides"      /\ Side!Loop  /\ Outside(game)
  \/ game = "zombie"     /\ Zomb!Loop  /\ Outside(game)
  \/ game = "fight_club" /\ Club!Loop  /\ Outside(game)
  \/ game = "tournament" /\ Field!Loop /\ Outside(game)

Fairness ==
  /\ WF_modesVars(Loop)
  /\ WF_modesVars(game = "zombie" /\ Zomb!Tick /\ Outside(game))
  /\ SF_modesVars(game = "zombie" /\ Zomb!Frame /\ Outside(game))
  /\ SF_modesVars(game = "zombie" /\ Zomb!EffectSent /\ Outside(game))

Spec == CreateGame /\ [][Next]_modesVars /\ Fairness

-----------------------------------------------------------------------------
(* The modes' properties, each of its own game. *)

\* Every variable of the game that runs has its type.
TypeOK ==
  /\ game = "sides"      => Side!TypeOK
  /\ game = "zombie"     => Zomb!TypeOK
  /\ game = "fight_club" => Club!TypeOK
  /\ game = "tournament" => Field!TypeOK

\* In every mode that announces a winner before it celebrates one, both are
\* the same, whatever runs in between (_check_win_condition, _end_game_impl).
VerdictsAgree ==
  /\ game = "sides"      => Side!VerdictsAgree
  /\ game = "zombie"     => Zomb!VerdictsAgree
  /\ game = "fight_club" => Club!VerdictsAgree

\* In the games of sides the last player is not killed (teams_base, base 557).
SomebodySurvives == game = "sides" => Side!SomebodySurvives

\* In the games of sides the lights tell who is in play.
LightsTellWhoPlays == game = "sides" => Side!LightsTellWhoPlays

\* In Swapper a swapped player comes back into play.
SwappersComeBack == game = "sides" => Side!SwappersComeBack

\* A zombie that is out has one task that brings it back.
ZombiesComeBack == game = "zombie" => Zomb!ZombiesComeBack

\* The ways a player is known to be human agree.
HumansAreHuman == game = "zombie" => Zomb!HumansAreHuman

\* In Fight Club every player has one place, until there is a face-off.
EveryPlayerHasOnePlace == game = "fight_club" => Club!EveryPlayerHasOnePlace

\* In Fight Club a round is settled by the loop or by its timer, not by both.
RoundsSettleOnce == game = "fight_club" => Club!RoundsSettleOnce

\* In Fight Club somebody will settle the round or start the next.
SomebodyWatchesTheRound == game = "fight_club" => Club!SomebodyWatchesTheRound

\* The tournament's bracket has one place for every player and every winner.
BracketIsFair == game = "tournament" => Field!BracketIsFair

\* The zombie game ends when its time is over.
TimeEndsTheGame == game = "zombie" /\ phase = "playing" ~> phase \in {"over", "failed"}

\* "Winners advance, losers are eliminated" (tournament.py:83).
LosersAreEliminated == game = "tournament" => Field!LosersAreEliminated
=============================================================================
