------------------------------ MODULE SideGames ------------------------------
(***************************************************************************)
(* The game modes played by sides: Teams, Random Teams, Traitor, Swapper   *)
(* and Werewolf.  They share the game loop and differ in how the sides are *)
(* drawn, in what a death does, and in which side a survivor counts for.   *)
(*                                                                         *)
(* The game loop is one task: it suspends to play the explosion, and, in   *)
(* Swapper, while a swapped player's light flashes.  Meanwhile the other   *)
(* tasks run: the werewolves' reveal, and ForceEndGame.                    *)
(***************************************************************************)
EXTENDS BaseGame

CONSTANTS NumTeams, Modes, Tie

VARIABLES
  mode,
  team,      \* Player.team
  secret,    \* the side a player wins with: secret_team, else the team
  alive,     \* the players whose alive is set
  gone,      \* the disconnects the update still has
  light,     \* each controller's light: the player's colour, white, green, or dark
  reveal,    \* the reveal task
  verdict,   \* the side _check_win_condition announced
  final,     \* the side _end_game_impl celebrates
  excused,   \* history: players whose light one of the races below left wrong
  lost       \* history: players whose death or swap a broken stream interrupted

vars == <<numPlayers, mode, phase, running, team, secret, alive, loop, gone, hot,
          light, reveal, verdict, final, excused, lost>>
draw   == <<mode, team, secret>>
update == <<gone, hot>>
ending == <<verdict, final>>
history == <<excused, lost>>

\* Swapper forces two teams; the werewolf game has humans (0) and werewolves (1).
Sides(m) == IF m \in {"swapper", "werewolf"} THEN 0..1 ELSE 0..(NumTeams - 1)
NoReveal == [at |-> "none", todo |-> {}, who |-> None]

Init ==
  /\ BaseInit /\ mode \in Modes
  /\ team = [p \in Players |-> 0] /\ secret = team
  /\ alive = {} /\ gone = {}
  /\ light = [p \in Players |-> "dark"]
  /\ reveal = NoReveal /\ verdict = None /\ final = None
  /\ excused = {} /\ lost = {}

-----------------------------------------------------------------------------
(* The sides. *)

Member(f, t)     == {p \in Players : f[p] = t}
RoundRobin(f, k) == \A p \in Players : f[p] = (p - 1) % k

\* Random Teams: each player takes the next entry of a shuffled pool that
\* holds every team equally often, and more often than it may be needed.
FromPool(f, k) == \A t \in 0..(k - 1) : Cardinality(Member(f, t)) <= numPlayers \div k + 1

TraitorCount == IF numPlayers <= 5 THEN 1
                ELSE IF numPlayers <= 8 THEN 2
                ELSE IF numPlayers <= 11 THEN 3 ELSE numPlayers \div 3

\* The traitors are picked from the teams in rotation, passing over a team
\* that has no loyal member left.
PickedInTurn(T, f, k) ==
  /\ Cardinality(T) = TraitorCount
  /\ \A t \in 0..(k - 1) : ~(Member(f, t) \subseteq T) =>
       \A u \in 0..(k - 1) :
          LET picked(x) == Cardinality(Member(f, x) \cap T)
          IN  picked(u) <= IF u < t THEN picked(t) + 1 ELSE picked(t)

Betrays(f, g, T, k) ==
  \A p \in Players : IF p \in T THEN g[p] \in 0..(k - 1) \ {f[p]} ELSE g[p] = f[p]

WolfCount == IF (numPlayers * 44) \div 100 = 0 THEN 1 ELSE (numPlayers * 44) \div 100

Drawn(f, g) ==
  CASE mode \in {"teams", "swapper"} -> RoundRobin(f, Cardinality(Sides(mode))) /\ g = f
    [] mode = "random_teams" -> FromPool(f, NumTeams) /\ g = f
    [] mode = "traitor" ->
         /\ RoundRobin(f, NumTeams)
         /\ \E T \in SUBSET Players : PickedInTurn(T, f, NumTeams) /\ Betrays(f, g, T, NumTeams)
    [] mode = "werewolf" -> Cardinality(Member(f, 1)) = WolfCount /\ g = f

\* What all the controllers show.
Shown(colour) == \A p \in Players : light[p] = colour

\* The players are created and get their sides, and the stream opens with
\* their colours.
StartGame ==
  /\ phase = "new"
  /\ \E f, g \in [Players -> Sides(mode)] : Drawn(f, g) /\ team' = f /\ secret' = g
  /\ phase' = "intro" /\ alive' = Players
  /\ light' = [p \in Players |-> "own"]
  /\ UNCHANGED <<mode, running, loop, update, reveal, ending, history>>

\* The countdown of the games of teams shows the team's colour, then white and
\* then green to everybody, each as the base colour; nothing restores the
\* team's.  Werewolf has the countdown of the base class, an effect.
CountdownLights ==
  /\ phase = "intro" /\ running /\ mode # "werewolf"
  /\ \/ Shown("own") /\ light' = [p \in Players |-> "white"]
     \/ Shown("white") /\ light' = [p \in Players |-> "green"]
  /\ UNCHANGED <<draw, phase, running, alive, loop, update, reveal, ending, history>>

\* The game loop starts, and the reveal task in Werewolf.  The countdown has run
\* its course, or was skipped or interrupted.  A game forced to end before it
\* gets there is celebrated nevertheless, but for Werewolf, which has a run()
\* of its own.
CountdownOver ==
  /\ phase = "intro" /\ (running => ~Shown("white"))
  /\ phase' = IF running THEN "playing" ELSE IF mode = "werewolf" THEN "ended" ELSE "over"
  /\ reveal' = IF running /\ mode = "werewolf" THEN [NoReveal EXCEPT !.at = "asleep"]
               ELSE NoReveal
  /\ UNCHANGED <<draw, running, alive, light, loop, update, ending, history>>

-----------------------------------------------------------------------------
(* The verdict. *)

\* The one side left, a tie without any, or none yet.
OneSideLeft(sides) ==
  IF Cardinality(sides) > 1 THEN None ELSE IF sides = {} THEN Tie ELSE CHOOSE t \in sides : TRUE

\* A side counts while a member of it is alive, in Traitor a secret member.  In
\* Swapper nobody is ever out, and every player counts.
TeamsVerdict(f, S)   == OneSideLeft({f[p] : p \in S})
TraitorVerdict(g, S) == OneSideLeft({g[p] : p \in S})
SwapperVerdict(f)    == OneSideLeft({f[p] : p \in Players})

\* The werewolves are asked for first.
WerewolfVerdict(f, S) ==
  LET humans == S \cap Member(f, 0)
      wolves == S \cap Member(f, 1)
  IN  IF humans # {} /\ wolves # {} THEN None
      ELSE IF wolves # {} THEN 1 ELSE IF humans # {} THEN 0 ELSE Tie

Verdict(f, g, S) ==
  CASE mode = "traitor"  -> TraitorVerdict(g, S)
    [] mode = "swapper"  -> SwapperVerdict(f)
    [] mode = "werewolf" -> WerewolfVerdict(f, S)
    [] OTHER             -> TeamsVerdict(f, S)

\* Mutant: the win condition is checked once, when the update is through.
JudgeAtTheEnd(next, g, h) ==
  LET v == Verdict(team', secret', alive')
  IN  IF g = {} /\ h = {} /\ v # None
        THEN phase' = "over" /\ verdict' = v /\ loop' = Idle /\ gone' = {} /\ hot' = {}
        ELSE phase' = phase /\ verdict' = verdict /\ loop' = next /\ gone' = g /\ hot' = h

\* _check_win_condition, after every controller of an update: the loop stops
\* at once, or it goes on as said.
Judge(next, g, h) ==
  LET v == Verdict(team', secret', alive')
  IN  IF v # None
        THEN phase' = "over" /\ verdict' = v /\ loop' = Idle /\ gone' = {} /\ hot' = {}
        ELSE phase' = phase /\ verdict' = verdict /\ loop' = next /\ gone' = g /\ hot' = h

\* Whom _end_game_impl celebrates, also when the loop ended undecided: nobody,
\* but in Swapper the first of the teams that have players, and in Werewolf the
\* werewolves if one of them is alive.
TraitorCelebrated(g)  == LET v == TraitorVerdict(g, alive) IN IF v = None THEN Tie ELSE v
SwapperCelebrated(f)  == CHOOSE t \in {f[p] : p \in Players} : \A p \in Players : t <= f[p]
WerewolfCelebrated(f) ==
  IF alive \cap Member(f, 1) # {} THEN 1 ELSE IF alive \cap Member(f, 0) # {} THEN 0 ELSE Tie

\* Mutant: the celebration forgets that traitors win with their secret team.
CelebratedVisible ==
  CASE mode = "swapper"  -> SwapperCelebrated(team)
    [] mode = "werewolf" -> WerewolfCelebrated(team)
    [] OTHER             -> TraitorCelebrated(team)

Celebrated ==
  CASE mode = "traitor"  -> TraitorCelebrated(secret)
    [] mode = "swapper"  -> SwapperCelebrated(team)
    [] mode = "werewolf" -> WerewolfCelebrated(team)
    [] OTHER             -> LET v == TeamsVerdict(team, alive) IN IF v = None THEN Tie ELSE v

-----------------------------------------------------------------------------
(* The game loop. *)

\* In Swapper, where the death effect darkens who is in play, no light tells.
Excuse(S) == excused' = IF mode = "swapper" THEN {} ELSE excused \cup S

\* An update arrives: its disconnects are handled before its controllers.
Frame ==
  /\ Playing("frame") /\ running
  /\ \E g \in SUBSET alive : \E h \in SUBSET (alive \ g) : gone' = g /\ hot' = h
  /\ loop' = Onwards
  /\ UNCHANGED <<draw, phase, running, alive, light, reveal, ending, history>>

\* _kill_player suspends to play the explosion; the player is alive meanwhile.
Process(p) ==
  /\ Playing("update")
  /\ p \in gone \/ (gone = {} /\ p \in hot)
  /\ loop' = [at |-> "sound", who |-> p]
  /\ gone' = gone \ {p} /\ hot' = hot \ {p}
  /\ UNCHANGED <<draw, phase, running, alive, light, reveal, ending, history>>

\* The remaining controllers move little.
FrameDone ==
  /\ Playing("update") /\ gone = {} /\ hot = {}
  /\ UNCHANGED <<draw, running, alive, light, reveal, final, history>>
  /\ Judge(Idle, {}, {})

\* _kill_player_impl, which only Swapper does otherwise.
Killed ==
  /\ Playing("sound") /\ mode # "swapper"
  /\ alive' = alive \ {loop.who} /\ loop' = Goes("effect")
  /\ UNCHANGED <<draw, phase, running, update, light, reveal, ending, history>>

\* In Swapper the player changes sides, out of play until its light flashed.
Swapped ==
  /\ Playing("sound") /\ mode = "swapper"
  /\ alive' = alive \ {loop.who}
  /\ team' = [team EXCEPT ![loop.who] = 1 - @] /\ secret' = team'
  /\ loop' = Goes("flash")
  /\ UNCHANGED <<mode, phase, running, update, light, reveal, ending, history>>

\* Mutant: the swapped player is not put back into play.
StaysOutOfPlay ==
  /\ Playing("flash")
  /\ light' = [light EXCEPT ![loop.who] = "own"]
  /\ loop' = Goes("effect")
  /\ UNCHANGED <<draw, phase, running, alive, update, reveal, ending, history>>

\* It gets its new colour and is back in play; a beep suspends again.
BackInPlay ==
  /\ Playing("flash")
  /\ light' = [light EXCEPT ![loop.who] = "own"]
  /\ alive' = alive \cup {loop.who}
  /\ loop' = Goes("effect")
  /\ UNCHANGED <<draw, phase, running, update, reveal, ending, history>>

\* The death effect follows, also for a swapped player, which so goes dark.  A
\* werewolf may have died while the reveal waits to colour it.
EffectSent ==
  /\ Playing("effect")
  /\ light' = [light EXCEPT ![loop.who] = "dark"]
  /\ Excuse(IF reveal.who = loop.who THEN {loop.who} ELSE {})
  /\ UNCHANGED <<draw, running, alive, reveal, final, lost>>
  /\ Judge(Onwards, gone, hot)

\* Where the loop reads or writes the stream, and may find it broken.
Streaming == phase = "playing" /\ loop.at \in {"frame", "flash", "effect"}

\* The stream fails and is opened again, with the colours of all players, the
\* dead ones too.  The rest of the update is dropped, and with it the check of
\* the win condition; a player amid a swap stays out of play, and a reveal that
\* writes meanwhile dies of the error.
Reconnect ==
  /\ Streaming /\ running
  /\ light' = [p \in Players |-> "own"]
  /\ Excuse(Players \ alive)
  /\ lost' = lost \cup (Players \cap {loop.who})
  /\ reveal' \in {reveal, NoReveal}
  /\ loop' = Idle /\ gone' = {} /\ hot' = {}
  /\ UNCHANGED <<draw, phase, running, alive, ending>>

\* After three attempts in a row the error leaves run().
GiveUp ==
  /\ Streaming /\ running
  /\ phase' = "failed" /\ running' = FALSE
  /\ loop' = Idle /\ gone' = {} /\ hot' = {} /\ reveal' = NoReveal
  /\ UNCHANGED <<draw, alive, light, ending, history>>

\* The server ends the stream.
StreamEnds ==
  /\ Playing("frame")
  /\ phase' = "over"
  /\ UNCHANGED <<draw, running, alive, loop, update, light, reveal,
                 ending, history>>

\* The next update, or an error, finds running false.
LoopBreaks ==
  /\ Streaming /\ ~running
  /\ phase' = "over"
  /\ loop' = Idle /\ gone' = {} /\ hot' = {}
  /\ Excuse(Players \cap {loop.who})
  /\ UNCHANGED <<draw, running, alive, light, reveal, ending, lost>>

\* _end_game_impl, after a second when there is a verdict.
Celebrate ==
  /\ phase = "over"
  /\ phase' = "ending" /\ final' = Celebrated /\ reveal' = NoReveal
  /\ UNCHANGED <<draw, running, alive, loop, update, light, verdict, history>>

\* The countdown's effects, or the winner's, cannot be written.
WriteFails ==
  /\ RunFails(IF final = Tie THEN {"intro"} ELSE {"intro", "ending"})
  /\ UNCHANGED <<draw, alive, light, loop, update, reveal, ending, history>>

GameEnded ==
  /\ phase = "ending"
  /\ phase' = "ended" /\ running' = FALSE
  /\ UNCHANGED <<draw, alive, loop, update, light, reveal, ending, history>>

ForceEnd ==
  /\ phase \in {"intro", "playing", "over", "ending"} /\ running
  /\ running' = FALSE
  /\ UNCHANGED <<draw, phase, alive, loop, update, light, reveal,
                 ending, history>>

-----------------------------------------------------------------------------
(* The reveal task of Werewolf. *)

Elsewhere == <<draw, phase, running, alive, loop, update, ending, history>>

\* The timer is over and the announcement is played.
RevealStarts ==
  /\ reveal.at = "asleep" /\ phase \in {"playing", "over"}
  /\ reveal' = IF running THEN [NoReveal EXCEPT !.at = "next", !.todo = Member(team, 1)]
               ELSE NoReveal
  /\ UNCHANGED <<Elsewhere, light>>

\* Mutant: the dead werewolves are revealed as well.
RevealEveryone(p) ==
  /\ reveal.at = "next" /\ p \in reveal.todo
  /\ reveal' = [at |-> "flash", todo |-> reveal.todo \ {p}, who |-> p]
  /\ UNCHANGED <<Elsewhere, light>>

\* The next werewolf flashes if it is alive, and is coloured 0.3 s later.
RevealNext(p) ==
  /\ reveal.at = "next" /\ p \in reveal.todo
  /\ reveal' = IF p \in alive THEN [at |-> "flash", todo |-> reveal.todo \ {p}, who |-> p]
               ELSE [reveal EXCEPT !.todo = @ \ {p}]
  /\ UNCHANGED <<Elsewhere, light>>

\* Nobody looks whether it still is.
RevealColours ==
  /\ reveal.at = "flash"
  /\ light' = [light EXCEPT ![reveal.who] = "own"]
  /\ reveal' = [reveal EXCEPT !.at = "next", !.who = None]
  /\ UNCHANGED Elsewhere

RevealOver ==
  /\ reveal.at = "next" /\ reveal.todo = {}
  /\ reveal' = NoReveal
  /\ UNCHANGED <<Elsewhere, light>>

-----------------------------------------------------------------------------
Loop ==
  \/ \E p \in Players : Process(p)
  \/ FrameDone \/ Killed \/ Swapped \/ BackInPlay \/ EffectSent
  \/ CountdownLights \/ CountdownOver \/ LoopBreaks \/ Celebrate \/ GameEnded

Step ==
  \/ StartGame \/ WriteFails \/ Frame \/ Loop \/ Reconnect \/ GiveUp \/ StreamEnds \/ ForceEnd
  \/ RevealStarts \/ RevealColours \/ RevealOver
  \/ \E p \in Players : RevealNext(p)

Next == Step /\ UNCHANGED numPlayers

\* The loop's own steps, once they can be taken, are taken: sounds, flashes
\* and pauses end, and updates keep coming, so that running is looked at.
Fairness == WF_vars(Loop /\ UNCHANGED numPlayers)

Spec     == Init /\ [][Next]_vars
FairSpec == Spec /\ Fairness

-----------------------------------------------------------------------------
(* Properties. *)

\* Every variable has its type.
TypeOK ==
  /\ BaseTypeOK /\ mode \in Modes
  /\ team \in [Players -> Sides(mode)] /\ secret \in [Players -> Sides(mode)]
  /\ alive \subseteq Players /\ gone \subseteq Players
  /\ excused \subseteq Players /\ lost \subseteq Players
  /\ loop \in [at : {"frame", "update", "sound", "flash", "effect"}, who : Players \cup {None}]
  /\ light \in [Players -> {"own", "white", "green", "dark"}]
  /\ reveal \in [at : {"none", "asleep", "next", "flash"}, todo : SUBSET Players,
                 who : Players \cup {None}]
  /\ verdict \in Sides(mode) \cup {None, Tie} /\ final \in Sides(mode) \cup {None, Tie}

\* However many players disconnect or move too fast in one update, somebody
\* survives the game: the win condition stops the loop before the last dies,
\* unless a stream that breaks on a death makes the loop skip it.
SomebodySurvives ==
  phase \notin {"new", "failed"} /\ mode # "swapper" /\ lost = {} => alive # {}

\* The side the win condition announced is the side _end_game_impl celebrates
\* a second later, which it finds anew: nothing that runs meanwhile, and no
\* difference between the two ways to count the sides, changes the winner.
VerdictsAgree == verdict # None /\ final # None => verdict = final

\* But for Swapper a controller is dark exactly when its player is out of play,
\* while every other task writes the lights as well: they err only for a player
\* revealed while it died and for one lit by a stream that was opened again.
LightsTellWhoPlays ==
  phase \in {"playing", "over"} /\ mode # "swapper" =>
    \A p \in Players \ (excused \cup {loop.who}) : light[p] # "dark" <=> p \in alive

\* A swapped player comes back into play, but for a stream that breaks amid
\* the swap.
SwappersComeBack ==
  mode = "swapper" /\ phase = "playing" => Players \ alive \subseteq lost \cup {loop.who}

=============================================================================
