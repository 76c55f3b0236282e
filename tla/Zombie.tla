------------------------------- MODULE Zombie -------------------------------
(***************************************************************************)
(* The zombie game: a human that moves too fast becomes a zombie, a zombie *)
(* that does comes back after a while, and time runs for the humans.       *)
(*                                                                         *)
(* Three kinds of tasks share the players: the game loop, which suspends   *)
(* to play the explosion and to show a conversion, the timer, and one task *)
(* for each zombie that waits to come back.                                *)
(* Clock is the length of the game in ticks of the timer, of which the     *)
(* code has one a second.                                                  *)
(***************************************************************************)
EXTENDS BaseGame

CONSTANT Clock

VARIABLES
  zombies,   \* the players whose is_zombie is set
  humans,    \* human_serials
  alive,     \* the players whose alive is set
  respawns,  \* how many respawn tasks each player has
  time,      \* time_remaining
  gone,      \* the disconnects the update still has
  verdict, final     \* the winner announced, and the one celebrated

vars == <<numPlayers, phase, running, zombies, humans, alive, respawns, time, loop, gone, hot,
          verdict, final>>
roles  == <<zombies, humans>>
update == <<gone, hot>>
ending == <<verdict, final>>

Init ==
  /\ BaseInit
  /\ zombies = {} /\ humans = {} /\ alive = {} /\ respawns = [p \in Players |-> 0]
  /\ time = 0 /\ gone = {} /\ verdict = None /\ final = None

\* INITIAL_ZOMBIES, but one human at least.
InitialZombies == IF numPlayers = 2 THEN 1 ELSE 2

StartGame ==
  /\ phase = "new"
  /\ \E Z \in SUBSET Players :
       Cardinality(Z) = InitialZombies /\ zombies' = Z /\ humans' = Players \ Z
  /\ phase' = "intro" /\ alive' = Players /\ time' = Clock
  /\ UNCHANGED <<running, respawns, loop, update, ending>>

\* A game forced to end during the intro or the countdown is not celebrated.
CountdownOver ==
  /\ phase = "intro"
  /\ phase' = IF running THEN "playing" ELSE "ended"
  /\ UNCHANGED <<running, roles, alive, respawns, time, loop, update, ending>>

-----------------------------------------------------------------------------
(* The game loop. *)

AliveHumans(H, Z, S) == {p \in H : p \in S /\ p \notin Z}

\* Mutant: the clock is not looked at.
JudgeTimeless(next, g, h) ==
  LET survivors == AliveHumans(humans', zombies', alive')
  IN  IF survivors = {}
        THEN /\ phase' = "over" /\ loop' = Idle /\ gone' = {} /\ hot' = {}
             /\ verdict' = "zombies"
        ELSE phase' = phase /\ verdict' = verdict /\ loop' = next /\ gone' = g /\ hot' = h

\* _check_win_condition: first whether all are zombies, then the clock.
Judge(next, g, h) ==
  LET survivors == AliveHumans(humans', zombies', alive')
  IN  IF survivors = {} \/ time = 0
        THEN /\ phase' = "over" /\ loop' = Idle /\ gone' = {} /\ hot' = {}
             /\ verdict' = IF survivors = {} THEN "zombies" ELSE "humans"
        ELSE phase' = phase /\ verdict' = verdict /\ loop' = next /\ gone' = g /\ hot' = h

Frame ==
  /\ Playing("frame") /\ running
  /\ \E g \in SUBSET alive : \E h \in SUBSET (alive \ g) : gone' = g /\ hot' = h
  /\ loop' = Onwards
  /\ UNCHANGED <<phase, running, roles, alive, respawns, time, ending>>

Process(p) ==
  /\ Playing("update")
  /\ p \in gone \/ (gone = {} /\ p \in hot)
  /\ loop' = [at |-> "sound", who |-> p]
  /\ gone' = gone \ {p} /\ hot' = hot \ {p}
  /\ UNCHANGED <<phase, running, roles, alive, respawns, time, ending>>

FrameDone ==
  /\ Playing("update") /\ gone = {} /\ hot = {}
  /\ UNCHANGED <<running, roles, alive, respawns, time, final>>
  /\ Judge(Idle, {}, {})

\* Mutant: a zombie that waits to come back is still in play.
ZombieStaysInPlay ==
  /\ Playing("sound") /\ loop.who \in zombies
  /\ respawns' = [respawns EXCEPT ![loop.who] = @ + 1]
  /\ loop' = Goes("effect")
  /\ UNCHANGED <<phase, running, roles, alive, time, update, ending>>

\* A zombie is out, and a task of its own will bring it back.
ZombieKilled ==
  /\ Playing("sound") /\ loop.who \in zombies
  /\ alive' = alive \ {loop.who}
  /\ respawns' = [respawns EXCEPT ![loop.who] = @ + 1]
  /\ loop' = Goes("effect")
  /\ UNCHANGED <<phase, running, roles, time, update, ending>>

\* Mutant: a human that falls stays on the list of humans.
HumanStaysListed ==
  /\ Playing("sound") /\ loop.who \notin zombies
  /\ zombies' = zombies \cup {loop.who}
  /\ loop' = Goes("convert")
  /\ UNCHANGED <<phase, running, humans, alive, respawns, time, update, ending>>

\* A human becomes a zombie at once, and stays alive; its light takes a while.
HumanKilled ==
  /\ Playing("sound") /\ loop.who \notin zombies
  /\ zombies' = zombies \cup {loop.who} /\ humans' = humans \ {loop.who}
  /\ loop' = Goes("convert")
  /\ UNCHANGED <<phase, running, alive, respawns, time, update, ending>>

Converted ==
  /\ Playing("convert")
  /\ loop' = Goes("effect")
  /\ UNCHANGED <<phase, running, roles, alive, respawns, time, update, ending>>

\* The death effect of the base class follows either.
EffectSent ==
  /\ Playing("effect")
  /\ UNCHANGED <<running, roles, alive, respawns, time, final>>
  /\ Judge(Onwards, gone, hot)

\* Where the loop reads or writes the stream, and may find it broken.
Streaming == phase = "playing" /\ loop.at \in {"frame", "convert", "effect"}

\* A read or a write fails; what was left of the update is lost.
Reconnect ==
  /\ Streaming /\ running
  /\ loop' = Idle /\ gone' = {} /\ hot' = {}
  /\ UNCHANGED <<phase, running, roles, alive, respawns, time, ending>>

\* After three attempts the error leaves run(), and cleanup cancels the tasks.
GiveUp ==
  /\ Streaming /\ running
  /\ phase' = "failed" /\ running' = FALSE
  /\ respawns' = [p \in Players |-> 0]
  /\ loop' = Idle /\ gone' = {} /\ hot' = {}
  /\ UNCHANGED <<roles, alive, time, ending>>

StreamEnds ==
  /\ Playing("frame")
  /\ phase' = "over"
  /\ UNCHANGED <<running, roles, alive, respawns, time, loop, update, ending>>

LoopBreaks ==
  /\ Streaming /\ ~running
  /\ phase' = "over"
  /\ loop' = Idle /\ gone' = {} /\ hot' = {}
  /\ UNCHANGED <<running, roles, alive, respawns, time, ending>>

\* The winner is found anew: the humans only if the time is over, so that a
\* game that was cut short is the zombies'.
Celebrated ==
  IF time = 0 /\ humans \cap alive # {} THEN "humans" ELSE "zombies"

Celebrate ==
  /\ phase = "over"
  /\ phase' = "ending" /\ final' = Celebrated
  /\ UNCHANGED <<running, roles, alive, respawns, time, loop, update, verdict>>

\* The colours of the intro, or the winner's effect, cannot be written.
WriteFails ==
  /\ RunFails({"intro", "ending"})
  /\ respawns' = [p \in Players |-> 0]
  /\ UNCHANGED <<roles, alive, time, loop, update, ending>>

GameEnded ==
  /\ phase = "ending"
  /\ phase' = "ended" /\ running' = FALSE
  /\ respawns' = [p \in Players |-> 0]
  /\ UNCHANGED <<roles, alive, time, loop, update, ending>>

ForceEnd ==
  /\ phase \in {"intro", "playing", "over", "ending"} /\ running
  /\ running' = FALSE
  /\ UNCHANGED <<phase, roles, alive, respawns, time, loop, update, ending>>

-----------------------------------------------------------------------------
(* The other tasks. *)

\* The timer, which _end_game_impl cancels.
Tick ==
  /\ phase \in {"playing", "over"} /\ running /\ time > 0
  /\ time' = time - 1
  /\ UNCHANGED <<phase, running, roles, alive, respawns, loop, update, ending>>

\* Mutant: a zombie is not brought back while the loop is busy.
RespawnWhenIdle(p) ==
  /\ respawns[p] > 0
  /\ respawns' = [respawns EXCEPT ![p] = @ - 1]
  /\ alive' = IF running /\ loop = Idle THEN alive \cup {p} ELSE alive
  /\ UNCHANGED <<phase, running, roles, time, loop, update, ending>>

Respawn(p) ==
  /\ respawns[p] > 0
  /\ respawns' = [respawns EXCEPT ![p] = @ - 1]
  /\ alive' = IF running /\ p \in zombies THEN alive \cup {p} ELSE alive
  /\ UNCHANGED <<phase, running, roles, time, loop, update, ending>>

-----------------------------------------------------------------------------
Loop ==
  \/ \E p \in Players : Process(p)
  \/ FrameDone \/ ZombieKilled \/ HumanKilled \/ Converted \/ EffectSent
  \/ CountdownOver \/ LoopBreaks \/ Celebrate \/ GameEnded

Step ==
  \/ StartGame \/ WriteFails \/ Frame \/ Loop \/ Reconnect \/ GiveUp \/ StreamEnds \/ ForceEnd
  \/ Tick \/ \E p \in Players : Respawn(p)

Next == Step /\ UNCHANGED numPlayers

\* The loop's own steps are taken and the timer ticks.  Frames keep coming: a
\* human is alive as long as the game goes on, so the filter lets one through.
\* The stream may break, but not for ever before a frame, as it is then given
\* up, nor on every single death.
Fairness ==
  /\ WF_vars(Loop /\ UNCHANGED numPlayers) /\ WF_vars(Tick /\ UNCHANGED numPlayers)
  /\ SF_vars(Frame /\ UNCHANGED numPlayers) /\ SF_vars(EffectSent /\ UNCHANGED numPlayers)

Spec     == Init /\ [][Next]_vars
FairSpec == Spec /\ Fairness

-----------------------------------------------------------------------------
(* Properties. *)

\* Every variable has its type.
TypeOK ==
  /\ BaseTypeOK
  /\ zombies \subseteq Players /\ humans \subseteq Players /\ alive \subseteq Players
  /\ respawns \in [Players -> 0..1] /\ time \in 0..Clock
  /\ loop \in [at : {"frame", "update", "sound", "convert", "effect"}, who : Players \cup {None}]
  /\ gone \subseteq Players
  /\ verdict \in {"humans", "zombies", None} /\ final \in {"humans", "zombies", None}

\* While the game goes on a player that is out is a zombie with one task, and
\* only one, to bring it back, and only such a player has one: no interleaving
\* of kills, conversions and respawns loses a zombie or brings it back twice.
ZombiesComeBack ==
  phase = "playing" /\ running =>
    \A p \in Players : respawns[p] = IF p \in alive THEN 0 ELSE 1

\* The three ways a player is known to be human agree: it is on the list, it
\* is no zombie, and it is in play.
HumansAreHuman ==
  phase = "playing" => humans = Players \ zombies /\ humans \subseteq alive

\* The winner announced is the winner celebrated, though the clock and the
\* respawns go on in between.
VerdictsAgree == verdict # None /\ final # None => verdict = final

\* The zombie game does not last for ever: the clock ends it, whoever dies.
TimeEndsTheGame == phase = "playing" ~> phase \in {"over", "failed"}
=============================================================================
