--------------------------- MODULE SideGames_proofs ---------------------------
(***************************************************************************)
(* Safety of the games of sides, for every number of players and of teams. *)
(*                                                                         *)
(* SomebodySurvives is not inductive: two players have to be in play when  *)
(* the loop takes up the next one (Survivors), and they are because the    *)
(* win condition, looked at after every death, finds two sides, and with   *)
(* them two players, or stops the loop.  VerdictsAgree needs that the      *)
(* verdict stays what the sides say until it is celebrated, and that both  *)
(* ways to ask them agree (CelebratedVerdict).  LightsTellWhoPlays needs   *)
(* to know whom a waiting reveal is about to light.                        *)
(***************************************************************************)
EXTENDS GameModes, FiniteSetTheorems, TLAPS

USE DEF Side!Players, Side!Phases, Side!At, Side!Idle, Side!Onwards, Side!Goes, Side!Playing

\* The loop waits for nobody between two players; for which of them it waits
\* tells how far its death, or its swap, has come.
SideWaits ==
  /\ phase \in {"new", "intro"} => loop = Side!Idle /\ gone = {} /\ hot = {}
                                   /\ reveal = Side!NoReveal
  /\ phase = "intro" => alive = Side!Players
  /\ phase = "playing" =>
       /\ loop.who = None <=> loop.at \in {"frame", "update"}
       /\ loop.at = "flash" => mode = "swapper"
       /\ loop.at = "effect" => (loop.who \in alive <=> mode = "swapper")
  /\ phase = "over" => loop = Side!Idle

\* Two players are in play whenever the loop takes up the next one, unless a
\* broken stream made it skip the win condition; so one is left of them.
Survivors ==
  mode # "swapper" /\ lost = {} =>
    /\ phase = "intro" \/ (phase = "playing" /\ loop.at # "effect") =>
         \E p, q \in alive : p # q
    /\ phase \in {"playing", "over", "ending", "ended"} => alive # {}

\* The light that a waiting reveal will set is that of a player in play, of one
\* that is dying, or of one excused.
Lights ==
  phase \in {"intro", "playing", "over"} /\ mode # "swapper" =>
    /\ \A p \in Side!Players \ (excused \cup {loop.who}) : light[p] # "dark" <=> p \in alive
    /\ reveal.at = "flash" =>
         reveal.who \in Side!Players /\ reveal.who \in alive \cup excused \cup {loop.who}

\* Who is out of play is lost, or the one whose light flashes.
Swappers ==
  mode = "swapper" /\ phase = "playing" =>
    \A p \in Side!Players \ alive : p \in lost \/ (loop.at = "flash" /\ loop.who = p)

\* Nothing is announced before the end nor celebrated before the celebration,
\* and what is announced is what the sides still say until then.
SideOutcome ==
  /\ phase \in {"new", "intro", "playing"} => verdict = None
  /\ phase \in {"new", "intro", "playing", "over"} => final = None
  /\ phase = "over" /\ verdict # None => verdict = Side!Verdict(team, secret, alive)
  /\ Side!VerdictsAgree

SideInv == Side!TypeOK /\ SideWaits /\ Survivors /\ Lights /\ Swappers /\ SideOutcome

-----------------------------------------------------------------------------
(* The verdict. *)

\* The instance of SideGames counts as FiniteSets does.
LEMMA SideSameCount == ASSUME NEW S PROVE Side!Cardinality(S) = Cardinality(S)
BY DEF Side!Cardinality, Cardinality

\* A look at the sides either ends the game with what they say, or finds them
\* undecided and lets the loop go on.
LEMMA SideJudged ==
  ASSUME NEW next, NEW g, NEW h, Side!Judge(next, g, h)
  PROVE  \/ /\ phase' = "over" /\ loop' = Side!Idle /\ gone' = {} /\ hot' = {}
            /\ verdict' # None /\ verdict' = Side!Verdict(team', secret', alive')
         \/ /\ phase' = phase /\ verdict' = verdict /\ loop' = next /\ gone' = g /\ hot' = h
            /\ Side!Verdict(team', secret', alive') = None
BY DEF Side!Judge

\* One side left is one of those there are.
LEMMA SideLeft ==
  ASSUME NEW S, NEW T, S \subseteq T
  PROVE  Side!OneSideLeft(S) \in T \cup {None, Tie}
<1>1. S # {} => (CHOOSE t \in S : TRUE) \in S
  OBVIOUS
<1>2. QED
  BY <1>1 DEF Side!OneSideLeft

\* No side left alone: two are there.
LEMMA UndecidedSides ==
  ASSUME NEW S, None \notin S, Side!OneSideLeft(S) = None
  PROVE  \E t, u \in S : t # u
<1>1. Tie # None
  BY GameModesConstants
<1>2. S # {} => (CHOOSE t \in S : TRUE) \in S
  OBVIOUS
<1>3. Cardinality(S) > 1
  BY <1>1, <1>2, SideSameCount DEF Side!OneSideLeft
<1>4. S # {}
  BY <1>3, FS_EmptySet
<1>5. PICK t \in S : TRUE
  BY <1>4
<1>6. S # {t}
  BY <1>3, FS_Singleton
<1>7. QED
  BY <1>5, <1>6

\* The sides are numbers, in every mode.
LEMMA SidesAreNumbers == Side!Sides(mode) \subseteq Nat
BY GameModesConstants DEF Side!Sides

\* Every verdict is a side, a tie or none.
LEMMA SideVerdictTyped ==
  ASSUME NEW f \in [Side!Players -> Side!Sides(mode)], NEW g \in [Side!Players -> Side!Sides(mode)],
         NEW S \in SUBSET Side!Players
  PROVE  Side!Verdict(f, g, S) \in Side!Sides(mode) \cup {None, Tie}
<1>1. /\ {f[p] : p \in S} \subseteq Side!Sides(mode) /\ {g[p] : p \in S} \subseteq Side!Sides(mode)
      /\ {f[p] : p \in Side!Players} \subseteq Side!Sides(mode)
  OBVIOUS
<1>2. mode = "werewolf" => Side!WerewolfVerdict(f, S) \in Side!Sides(mode) \cup {None, Tie}
  BY DEF Side!WerewolfVerdict, Side!Sides
<1>3. QED
  BY <1>1, <1>2, SideLeft
  DEF Side!Verdict, Side!TeamsVerdict, Side!TraitorVerdict, Side!SwapperVerdict

\* While the sides are undecided two players are in play, but for Swapper.
LEMMA UndecidedPlayers ==
  ASSUME NEW f \in [Side!Players -> Side!Sides(mode)], NEW g \in [Side!Players -> Side!Sides(mode)],
         NEW S \in SUBSET Side!Players, mode # "swapper", Side!Verdict(f, g, S) = None
  PROVE  \E p, q \in S : p # q
<1>1. None \notin {f[p] : p \in S} /\ None \notin {g[p] : p \in S}
  BY SidesAreNumbers, BaseConstants
<1>2. CASE mode = "werewolf"
  <2>1. S \cap Side!Member(f, 0) # {} /\ S \cap Side!Member(f, 1) # {}
    BY <1>2, BaseConstants, GameModesConstants DEF Side!Verdict, Side!WerewolfVerdict
  <2>2. QED
    BY <2>1 DEF Side!Member
<1>3. CASE mode = "traitor"
  <2>1. \E t, u \in {g[p] : p \in S} : t # u
    BY <1>1, <1>3, UndecidedSides DEF Side!Verdict, Side!TraitorVerdict
  <2>2. QED
    BY <2>1
<1>4. CASE mode \notin {"werewolf", "traitor"}
  <2>1. \E t, u \in {f[p] : p \in S} : t # u
    BY <1>1, <1>4, UndecidedSides DEF Side!Verdict, Side!TeamsVerdict
  <2>2. QED
    BY <2>1
<1>5. QED
  BY <1>2, <1>3, <1>4

\* What is celebrated is what the sides say, if they say anything.
LEMMA CelebratedVerdict ==
  ASSUME Side!TypeOK, Side!Verdict(team, secret, alive) # None
  PROVE  Side!Celebrated = Side!Verdict(team, secret, alive)
<1>1. CASE mode = "swapper"
  <2> DEFINE S == {team[p] : p \in Side!Players}
  <2>1. S \subseteq 0..1 /\ 1 \in Side!Players /\ S # {}
    BY <1>1 DEF Side!TypeOK, Side!BaseTypeOK, Side!Sides
  <2>2. IsFiniteSet(S)
    <3>1. IsFiniteSet(0..1)
      BY FS_Interval, 0 \in Int, 1 \in Int, Zenon
    <3>2. QED
      BY <2>1, <3>1, FS_Subset
  <2>3. ~(Cardinality(S) > 1)
    BY <1>1, <2>1, SideSameCount DEF Side!Verdict, Side!SwapperVerdict, Side!OneSideLeft
  <2>4. \A x, y \in S : x = y
    <3> SUFFICES ASSUME NEW x \in S, NEW y \in S, x # y PROVE FALSE
      OBVIOUS
    <3>1. IsFiniteSet({x}) /\ Cardinality({x}) = 1
      BY FS_Singleton
    <3>2. Cardinality({x} \cup {y}) = 2
      BY <3>1, FS_AddElement
    <3>3. Cardinality({x} \cup {y}) <= Cardinality(S)
      BY <2>2, FS_Subset
    <3>4. Cardinality(S) \in Nat
      BY <2>2, FS_CardinalityType
    <3>5. QED
      BY <2>3, <3>2, <3>3, <3>4
  <2>5. PICK x \in S : S = {x}
    BY <2>1, <2>4
  <2>6. Side!Celebrated = x
    <3>1. Side!Celebrated = CHOOSE t \in S : \A p \in Side!Players : t <= team[p]
      BY <1>1 DEF Side!Celebrated, Side!SwapperCelebrated
    <3>2. \A p \in Side!Players : x <= team[p]
      BY <2>1, <2>5
    <3>3. QED
      BY <2>5, <3>1, <3>2
  <2>7. Side!Verdict(team, secret, alive) = x
    <3>1. Side!Verdict(team, secret, alive) = CHOOSE t \in S : TRUE
      BY <1>1, <2>1, <2>3, SideSameCount
      DEF Side!Verdict, Side!SwapperVerdict, Side!OneSideLeft
    <3>2. QED
      BY <2>5, <3>1
  <2>8. QED
    BY <2>6, <2>7
<1>2. CASE mode = "werewolf"
  BY <1>2 DEF Side!Verdict, Side!Celebrated, Side!WerewolfVerdict, Side!WerewolfCelebrated
<1>3. CASE mode = "traitor"
  BY <1>3 DEF Side!Verdict, Side!Celebrated, Side!TraitorCelebrated
<1>4. CASE mode \notin {"swapper", "werewolf", "traitor"}
  BY <1>4 DEF Side!Verdict, Side!Celebrated
<1>5. QED
  BY <1>1, <1>2, <1>3, <1>4

\* What is celebrated is a side or a tie.
LEMMA SideCelebratedTyped ==
  ASSUME Side!TypeOK
  PROVE  Side!Celebrated \in Side!Sides(mode) \cup {None, Tie}
<1> USE DEF Side!TypeOK, Side!Celebrated
<1>1. CASE mode = "swapper"
  <2> DEFINE S == {team[p] : p \in Side!Players}
  <2>1. PICK s \in S : \A p \in Side!Players : s <= team[p]
    <3>1. 1 \in Side!Players /\ \A p \in Side!Players : team[p] \in {0, 1}
      BY <1>1 DEF Side!Sides, Side!BaseTypeOK
    <3>2. CASE 0 \in S
      BY <3>1, <3>2
    <3>3. CASE 0 \notin S
      BY <3>1, <3>3
    <3>4. QED
      BY <3>2, <3>3
  <2>2. Side!Celebrated \in S
    BY <1>1, <2>1 DEF Side!SwapperCelebrated
  <2>3. QED
    BY <2>2
<1>2. CASE mode = "werewolf"
  BY <1>2 DEF Side!WerewolfCelebrated, Side!Sides
<1>3. CASE mode = "traitor"
  <2>1. {secret[p] : p \in alive} \subseteq Side!Sides(mode)
    OBVIOUS
  <2>2. QED
    BY <1>3, <2>1, SideLeft DEF Side!TraitorCelebrated, Side!TraitorVerdict
<1>4. CASE mode \notin {"swapper", "werewolf", "traitor"}
  <2>1. {team[p] : p \in alive} \subseteq Side!Sides(mode)
    OBVIOUS
  <2>2. QED
    BY <1>4, <2>1, SideLeft DEF Side!TeamsVerdict
<1>5. QED
  BY <1>1, <1>2, <1>3, <1>4

\* Nothing else than mode and players goes into a verdict.
LEMMA VerdictPrimed ==
  ASSUME UNCHANGED <<mode, numPlayers>>
  PROVE  Side!Verdict(team, secret, alive)' = Side!Verdict(team', secret', alive')
BY DEF Side!Verdict, Side!TeamsVerdict, Side!TraitorVerdict, Side!SwapperVerdict,
       Side!WerewolfVerdict, Side!Member, Side!OneSideLeft

-----------------------------------------------------------------------------
(* One lemma for each part of the invariant, one case for each action. *)

\* Every step keeps the types.
LEMMA SideTypeStep ==
  ASSUME Side!TypeOK, SideWaits, [Side!Next]_(Side!vars)
  PROVE  Side!TypeOK'
<1> USE DEF Side!draw, Side!update, Side!ending, Side!history, Side!Elsewhere,
           Side!TypeOK, Side!BaseTypeOK, Side!NoReveal
<1>1. CASE Side!StartGame /\ UNCHANGED numPlayers
  BY <1>1 DEF Side!StartGame
<1>2. CASE Side!CountdownOver /\ UNCHANGED numPlayers
  BY <1>2 DEF Side!CountdownOver
<1>3. CASE Side!Frame /\ UNCHANGED numPlayers
  BY <1>3 DEF Side!Frame
<1>4. ASSUME NEW p \in Side!Players, Side!Process(p), UNCHANGED numPlayers PROVE Side!TypeOK'
  BY <1>4 DEF Side!Process
<1>5. CASE Side!FrameDone /\ UNCHANGED numPlayers
  <2>1. Side!Verdict(team', secret', alive') \in Side!Sides(mode) \cup {None, Tie}
    BY <1>5, SideVerdictTyped DEF Side!FrameDone
  <2>2. QED
    BY <1>5, <2>1, SideJudged DEF Side!FrameDone
<1>6. CASE Side!Killed /\ UNCHANGED numPlayers
  BY <1>6 DEF Side!Killed
<1>7. CASE Side!Swapped /\ UNCHANGED numPlayers
  <2>1. mode = "swapper" /\ Side!Sides(mode) = 0..1
    BY <1>7 DEF Side!Swapped, Side!Sides
  <2>2. team' \in [Side!Players -> 0..1]
    <3>1. \A x \in 0..1 : 1 - x \in 0..1
      OBVIOUS
    <3>2. loop.who \in Side!Players
      BY <1>7 DEF Side!Swapped, SideWaits
    <3>3. team' = [team EXCEPT ![loop.who] = 1 - team[loop.who]]
      BY <1>7 DEF Side!Swapped
    <3>4. QED
      BY <2>1, <3>1, <3>2, <3>3
  <2>3. QED
    BY <1>7, <2>1, <2>2 DEF Side!Swapped
<1>8. CASE Side!BackInPlay /\ UNCHANGED numPlayers
  BY <1>8 DEF Side!BackInPlay, SideWaits
<1>9. CASE Side!EffectSent /\ UNCHANGED numPlayers
  <2>1. Side!Verdict(team', secret', alive') \in Side!Sides(mode) \cup {None, Tie}
    BY <1>9, SideVerdictTyped DEF Side!EffectSent
  <2>2. loop.who \in Side!Players
    BY <1>9 DEF Side!EffectSent, SideWaits
  <2>3. light' \in [Side!Players -> {"own", "white", "green", "dark"}] /\ excused' \subseteq Side!Players
    BY <1>9, <2>2 DEF Side!EffectSent, Side!Excuse
  <2>4. /\ phase' \in Side!Phases /\ gone' \subseteq Side!Players /\ hot' \subseteq Side!Players
        /\ verdict' \in Side!Sides(mode) \cup {None, Tie}
        /\ loop' \in {Side!Idle, Side!Onwards}
    <3>1. CASE phase' = phase /\ verdict' = verdict /\ loop' = Side!Onwards
               /\ gone' = gone /\ hot' = hot
      BY <3>1
    <3>2. CASE phase' = "over" /\ loop' = Side!Idle /\ gone' = {} /\ hot' = {}
               /\ verdict' = Side!Verdict(team', secret', alive')
      BY <2>1, <3>2
    <3>3. QED
      BY <1>9, <3>1, <3>2, SideJudged DEF Side!EffectSent
  <2>5. UNCHANGED <<numPlayers, mode, team, secret, running, alive, reveal, final, lost>>
    BY <1>9 DEF Side!EffectSent
  <2>6. QED
    BY <2>3, <2>4, <2>5
<1>10. CASE Side!Reconnect /\ UNCHANGED numPlayers
  <2>1. light' \in [Side!Players -> {"own", "white", "green", "dark"}] /\ reveal' \in {reveal, Side!NoReveal}
    BY <1>10 DEF Side!Reconnect
  <2>2. excused' \subseteq Side!Players /\ lost' \subseteq Side!Players
    BY <1>10 DEF Side!Reconnect, Side!Excuse
  <2>3. QED
    BY <1>10, <2>1, <2>2 DEF Side!Reconnect
<1>11. CASE Side!GiveUp /\ UNCHANGED numPlayers
  BY <1>11 DEF Side!GiveUp, Side!Streaming
<1>12. CASE Side!StreamEnds /\ UNCHANGED numPlayers
  BY <1>12 DEF Side!StreamEnds
<1>13. CASE Side!LoopBreaks /\ UNCHANGED numPlayers
  BY <1>13 DEF Side!LoopBreaks, Side!Streaming, Side!Excuse
<1>14. CASE Side!Celebrate /\ UNCHANGED numPlayers
  <2>1. Side!Celebrated \in Side!Sides(mode) \cup {None, Tie}
    BY SideCelebratedTyped
  <2>2. QED
    BY <1>14, <2>1 DEF Side!Celebrate
<1>15. CASE Side!WriteFails /\ UNCHANGED numPlayers
  BY <1>15 DEF Side!WriteFails, Side!RunFails
<1>16. CASE Side!GameEnded /\ UNCHANGED numPlayers
  BY <1>16 DEF Side!GameEnded
<1>17. CASE Side!ForceEnd /\ UNCHANGED numPlayers
  <2>1. /\ running' = FALSE
        /\ UNCHANGED <<numPlayers, phase, mode, team, secret, alive, gone, hot, loop, light,
                       reveal, verdict, final, excused, lost>>
    BY <1>17 DEF Side!ForceEnd
  <2>2. QED
    <3>1. Side!BaseTypeOK'
      BY <2>1
    <3>2. QED
      BY <2>1, <3>1
<1>18. CASE Side!RevealStarts /\ UNCHANGED numPlayers
  BY <1>18 DEF Side!RevealStarts, Side!Member
<1>19. ASSUME NEW p \in Side!Players, Side!RevealNext(p), UNCHANGED numPlayers PROVE Side!TypeOK'
  BY <1>19 DEF Side!RevealNext
<1>20. CASE Side!RevealColours /\ UNCHANGED numPlayers
  <2>1. light' \in [Side!Players -> {"own", "white", "green", "dark"}]
    BY <1>20 DEF Side!RevealColours
  <2>2. reveal' \in [at : {"none", "asleep", "next", "flash"}, todo : SUBSET Side!Players,
                     who : Side!Players \cup {None}]
    BY <1>20 DEF Side!RevealColours
  <2>3. QED
    BY <1>20, <2>1, <2>2 DEF Side!RevealColours
<1>21. CASE Side!RevealOver /\ UNCHANGED numPlayers
  BY <1>21 DEF Side!RevealOver
<1>22. CASE UNCHANGED Side!vars
  BY <1>22 DEF Side!vars
<1>23. CASE Side!CountdownLights /\ UNCHANGED numPlayers
  BY <1>23 DEF Side!CountdownLights
<1>24. QED
  BY <1>1, <1>2, <1>3, <1>4, <1>5, <1>6, <1>7, <1>8, <1>9, <1>10, <1>11, <1>12, <1>13,
     <1>14, <1>15, <1>16, <1>17, <1>18, <1>19, <1>20, <1>21, <1>22, <1>23
  DEF Side!Next, Side!Step, Side!Loop

\* Every step leaves the loop waiting for whom the invariant says.
LEMMA SideWaitsStep ==
  ASSUME Side!TypeOK, SideWaits, [Side!Next]_(Side!vars)
  PROVE  SideWaits'
<1> USE DEF Side!draw, Side!update, Side!ending, Side!history, Side!Elsewhere,
           Side!TypeOK, Side!BaseTypeOK, SideWaits, Side!NoReveal
<1>1. CASE Side!StartGame /\ UNCHANGED numPlayers
  BY <1>1 DEF Side!StartGame
<1>2. CASE Side!CountdownOver /\ UNCHANGED numPlayers
  BY <1>2 DEF Side!CountdownOver
<1>3. CASE Side!Frame /\ UNCHANGED numPlayers
  BY <1>3 DEF Side!Frame
<1>4. ASSUME NEW p \in Side!Players, Side!Process(p), UNCHANGED numPlayers PROVE SideWaits'
  BY <1>4, BaseConstants DEF Side!Process
<1>5. CASE Side!FrameDone /\ UNCHANGED numPlayers
  BY <1>5, SideJudged DEF Side!FrameDone
<1>6. CASE Side!Killed /\ UNCHANGED numPlayers
  BY <1>6 DEF Side!Killed
<1>7. CASE Side!Swapped /\ UNCHANGED numPlayers
  BY <1>7 DEF Side!Swapped
<1>8. CASE Side!BackInPlay /\ UNCHANGED numPlayers
  BY <1>8 DEF Side!BackInPlay
<1>9. CASE Side!EffectSent /\ UNCHANGED numPlayers
  BY <1>9, SideJudged DEF Side!EffectSent
<1>10. CASE Side!Reconnect /\ UNCHANGED numPlayers
  BY <1>10 DEF Side!Reconnect, Side!Streaming
<1>11. CASE Side!GiveUp /\ UNCHANGED numPlayers
  BY <1>11 DEF Side!GiveUp, Side!Streaming
<1>12. CASE Side!StreamEnds /\ UNCHANGED numPlayers
  BY <1>12 DEF Side!StreamEnds
<1>13. CASE Side!LoopBreaks /\ UNCHANGED numPlayers
  BY <1>13 DEF Side!LoopBreaks, Side!Streaming
<1>14. CASE Side!Celebrate /\ UNCHANGED numPlayers
  BY <1>14 DEF Side!Celebrate
<1>15. CASE Side!WriteFails /\ UNCHANGED numPlayers
  BY <1>15 DEF Side!WriteFails, Side!RunFails
<1>16. CASE Side!GameEnded /\ UNCHANGED numPlayers
  BY <1>16 DEF Side!GameEnded
<1>17. CASE Side!ForceEnd /\ UNCHANGED numPlayers
  BY <1>17 DEF Side!ForceEnd
<1>18. CASE Side!RevealStarts /\ UNCHANGED numPlayers
  BY <1>18 DEF Side!RevealStarts
<1>19. ASSUME NEW p \in Side!Players, Side!RevealNext(p), UNCHANGED numPlayers PROVE SideWaits'
  BY <1>19 DEF Side!RevealNext
<1>20. CASE Side!RevealColours /\ UNCHANGED numPlayers
  BY <1>20 DEF Side!RevealColours
<1>21. CASE Side!RevealOver /\ UNCHANGED numPlayers
  BY <1>21 DEF Side!RevealOver
<1>22. CASE UNCHANGED Side!vars
  BY <1>22 DEF Side!vars
<1>23. CASE Side!CountdownLights /\ UNCHANGED numPlayers
  BY <1>23 DEF Side!CountdownLights
<1>24. QED
  BY <1>1, <1>2, <1>3, <1>4, <1>5, <1>6, <1>7, <1>8, <1>9, <1>10, <1>11, <1>12, <1>13,
     <1>14, <1>15, <1>16, <1>17, <1>18, <1>19, <1>20, <1>21, <1>22, <1>23
  DEF Side!Next, Side!Step, Side!Loop

\* Every step but that of a broken stream leaves two players to go on with.
LEMMA SurvivorsStep ==
  ASSUME Side!TypeOK, SideWaits, Survivors, [Side!Next]_(Side!vars)
  PROVE  Survivors'
<1> USE DEF Side!draw, Side!update, Side!ending, Side!history, Side!Elsewhere,
           Side!TypeOK, Side!BaseTypeOK, SideWaits, Survivors
<1>1. CASE Side!StartGame /\ UNCHANGED numPlayers
  <2>1. 1 \in Side!Players /\ 2 \in Side!Players
    OBVIOUS
  <2>2. alive' = Side!Players /\ phase' = "intro"
    BY <1>1 DEF Side!StartGame
  <2>3. \E p, q \in alive' : p # q
    <3>1. 1 # 2
      OBVIOUS
    <3>2. QED
      BY <2>1, <2>2, <3>1
  <2>4. QED
    BY <2>2, <2>3 DEF Survivors
<1>2. CASE Side!CountdownOver /\ UNCHANGED numPlayers
  BY <1>2 DEF Side!CountdownOver
<1>3. CASE Side!Frame /\ UNCHANGED numPlayers
  BY <1>3 DEF Side!Frame
<1>4. ASSUME NEW p \in Side!Players, Side!Process(p), UNCHANGED numPlayers PROVE Survivors'
  BY <1>4, BaseConstants DEF Side!Process
<1>5. CASE Side!FrameDone /\ UNCHANGED numPlayers
  BY <1>5, SideJudged DEF Side!FrameDone
<1>6. CASE Side!Killed /\ UNCHANGED numPlayers
  BY <1>6 DEF Side!Killed
<1>7. CASE Side!Swapped /\ UNCHANGED numPlayers
  BY <1>7 DEF Side!Swapped
<1>8. CASE Side!BackInPlay /\ UNCHANGED numPlayers
  BY <1>8 DEF Side!BackInPlay
<1>9. CASE Side!EffectSent /\ UNCHANGED numPlayers
  <2>1. UNCHANGED <<mode, team, secret, alive, lost>>
    BY <1>9 DEF Side!EffectSent
  <2>2. Side!Verdict(team', secret', alive') = None /\ mode # "swapper" =>
          \E p, q \in alive : p # q
    <3> SUFFICES ASSUME Side!Verdict(team, secret, alive) = None, mode # "swapper"
                 PROVE  \E p, q \in alive : p # q
      BY <2>1
    <3>1. /\ team \in [Side!Players -> Side!Sides(mode)] /\ alive \in SUBSET Side!Players
          /\ secret \in [Side!Players -> Side!Sides(mode)]
      OBVIOUS
    <3>2. QED
      BY ONLY <3>1, UndecidedPlayers, Side!Verdict(team, secret, alive) = None, mode # "swapper"
  <2>3. QED
    BY <1>9, <2>1, <2>2, SideJudged DEF Side!EffectSent
<1>10. CASE Side!Reconnect /\ UNCHANGED numPlayers
  BY <1>10 DEF Side!Reconnect, Side!Streaming
<1>11. CASE Side!GiveUp /\ UNCHANGED numPlayers
  BY <1>11 DEF Side!GiveUp, Side!Streaming
<1>12. CASE Side!StreamEnds /\ UNCHANGED numPlayers
  BY <1>12 DEF Side!StreamEnds
<1>13. CASE Side!LoopBreaks /\ UNCHANGED numPlayers
  BY <1>13 DEF Side!LoopBreaks, Side!Streaming
<1>14. CASE Side!Celebrate /\ UNCHANGED numPlayers
  BY <1>14 DEF Side!Celebrate
<1>15. CASE Side!WriteFails /\ UNCHANGED numPlayers
  BY <1>15 DEF Side!WriteFails, Side!RunFails
<1>16. CASE Side!GameEnded /\ UNCHANGED numPlayers
  BY <1>16 DEF Side!GameEnded
<1>17. CASE Side!ForceEnd /\ UNCHANGED numPlayers
  BY <1>17 DEF Side!ForceEnd
<1>18. CASE Side!RevealStarts /\ UNCHANGED numPlayers
  BY <1>18 DEF Side!RevealStarts
<1>19. ASSUME NEW p \in Side!Players, Side!RevealNext(p), UNCHANGED numPlayers PROVE Survivors'
  BY <1>19 DEF Side!RevealNext
<1>20. CASE Side!RevealColours /\ UNCHANGED numPlayers
  BY <1>20 DEF Side!RevealColours
<1>21. CASE Side!RevealOver /\ UNCHANGED numPlayers
  BY <1>21 DEF Side!RevealOver
<1>22. CASE UNCHANGED Side!vars
  BY <1>22 DEF Side!vars
<1>23. CASE Side!CountdownLights /\ UNCHANGED numPlayers
  BY <1>23 DEF Side!CountdownLights
<1>24. QED
  BY <1>1, <1>2, <1>3, <1>4, <1>5, <1>6, <1>7, <1>8, <1>9, <1>10, <1>11, <1>12, <1>13,
     <1>14, <1>15, <1>16, <1>17, <1>18, <1>19, <1>20, <1>21, <1>22, <1>23
  DEF Side!Next, Side!Step, Side!Loop

\* Every step keeps the lights in step with who plays, but for the excused.
LEMMA LightsStep ==
  ASSUME Side!TypeOK, SideWaits, Lights, [Side!Next]_(Side!vars)
  PROVE  Lights'
<1> USE DEF Side!draw, Side!update, Side!ending, Side!history, Side!Elsewhere,
           Side!TypeOK, Side!BaseTypeOK, SideWaits, Lights, Side!NoReveal
<1>1. CASE Side!StartGame /\ UNCHANGED numPlayers
  BY <1>1 DEF Side!StartGame
<1>2. CASE Side!CountdownOver /\ UNCHANGED numPlayers
  BY <1>2 DEF Side!CountdownOver
<1>3. CASE Side!Frame /\ UNCHANGED numPlayers
  BY <1>3 DEF Side!Frame
<1>4. ASSUME NEW p \in Side!Players, Side!Process(p), UNCHANGED numPlayers PROVE Lights'
  BY <1>4, BaseConstants DEF Side!Process
<1>5. CASE Side!FrameDone /\ UNCHANGED numPlayers
  BY <1>5, SideJudged DEF Side!FrameDone
<1>6. CASE Side!Killed /\ UNCHANGED numPlayers
  BY <1>6 DEF Side!Killed
<1>7. CASE Side!Swapped /\ UNCHANGED numPlayers
  BY <1>7 DEF Side!Swapped
<1>8. CASE Side!BackInPlay /\ UNCHANGED numPlayers
  BY <1>8 DEF Side!BackInPlay
<1>9. CASE Side!EffectSent /\ UNCHANGED numPlayers
  BY <1>9, SideJudged DEF Side!EffectSent, Side!Excuse
<1>10. CASE Side!Reconnect /\ UNCHANGED numPlayers
  BY <1>10 DEF Side!Reconnect, Side!Streaming, Side!Excuse
<1>11. CASE Side!GiveUp /\ UNCHANGED numPlayers
  BY <1>11 DEF Side!GiveUp, Side!Streaming
<1>12. CASE Side!StreamEnds /\ UNCHANGED numPlayers
  BY <1>12 DEF Side!StreamEnds
<1>13. CASE Side!LoopBreaks /\ UNCHANGED numPlayers
  BY <1>13 DEF Side!LoopBreaks, Side!Streaming, Side!Excuse
<1>14. CASE Side!Celebrate /\ UNCHANGED numPlayers
  BY <1>14 DEF Side!Celebrate
<1>15. CASE Side!WriteFails /\ UNCHANGED numPlayers
  BY <1>15 DEF Side!WriteFails, Side!RunFails
<1>16. CASE Side!GameEnded /\ UNCHANGED numPlayers
  BY <1>16 DEF Side!GameEnded
<1>17. CASE Side!ForceEnd /\ UNCHANGED numPlayers
  BY <1>17 DEF Side!ForceEnd
<1>18. CASE Side!RevealStarts /\ UNCHANGED numPlayers
  BY <1>18 DEF Side!RevealStarts
<1>19. ASSUME NEW p \in Side!Players, Side!RevealNext(p), UNCHANGED numPlayers PROVE Lights'
  BY <1>19 DEF Side!RevealNext
<1>20. CASE Side!RevealColours /\ UNCHANGED numPlayers
  BY <1>20 DEF Side!RevealColours
<1>21. CASE Side!RevealOver /\ UNCHANGED numPlayers
  BY <1>21 DEF Side!RevealOver
<1>22. CASE UNCHANGED Side!vars
  BY <1>22 DEF Side!vars
<1>23. CASE Side!CountdownLights /\ UNCHANGED numPlayers
  BY <1>23 DEF Side!CountdownLights
<1>24. QED
  BY <1>1, <1>2, <1>3, <1>4, <1>5, <1>6, <1>7, <1>8, <1>9, <1>10, <1>11, <1>12, <1>13,
     <1>14, <1>15, <1>16, <1>17, <1>18, <1>19, <1>20, <1>21, <1>22, <1>23
  DEF Side!Next, Side!Step, Side!Loop

\* Every step leaves whoever is out of play lost or amid a swap.
LEMMA SwappersStep ==
  ASSUME Side!TypeOK, SideWaits, Swappers, [Side!Next]_(Side!vars)
  PROVE  Swappers'
<1> USE DEF Side!draw, Side!update, Side!ending, Side!history, Side!Elsewhere,
           Side!TypeOK, Side!BaseTypeOK, SideWaits, Swappers
<1>1. CASE Side!StartGame /\ UNCHANGED numPlayers
  BY <1>1 DEF Side!StartGame
<1>2. CASE Side!CountdownOver /\ UNCHANGED numPlayers
  BY <1>2 DEF Side!CountdownOver
<1>3. CASE Side!Frame /\ UNCHANGED numPlayers
  BY <1>3 DEF Side!Frame
<1>4. ASSUME NEW p \in Side!Players, Side!Process(p), UNCHANGED numPlayers PROVE Swappers'
  BY <1>4, BaseConstants DEF Side!Process
<1>5. CASE Side!FrameDone /\ UNCHANGED numPlayers
  BY <1>5, SideJudged DEF Side!FrameDone
<1>6. CASE Side!Killed /\ UNCHANGED numPlayers
  BY <1>6 DEF Side!Killed
<1>7. CASE Side!Swapped /\ UNCHANGED numPlayers
  BY <1>7 DEF Side!Swapped
<1>8. CASE Side!BackInPlay /\ UNCHANGED numPlayers
  BY <1>8 DEF Side!BackInPlay
<1>9. CASE Side!EffectSent /\ UNCHANGED numPlayers
  BY <1>9, SideJudged DEF Side!EffectSent
<1>10. CASE Side!Reconnect /\ UNCHANGED numPlayers
  BY <1>10 DEF Side!Reconnect, Side!Streaming
<1>11. CASE Side!GiveUp /\ UNCHANGED numPlayers
  BY <1>11 DEF Side!GiveUp, Side!Streaming
<1>12. CASE Side!StreamEnds /\ UNCHANGED numPlayers
  BY <1>12 DEF Side!StreamEnds
<1>13. CASE Side!LoopBreaks /\ UNCHANGED numPlayers
  BY <1>13 DEF Side!LoopBreaks, Side!Streaming
<1>14. CASE Side!Celebrate /\ UNCHANGED numPlayers
  BY <1>14 DEF Side!Celebrate
<1>15. CASE Side!WriteFails /\ UNCHANGED numPlayers
  BY <1>15 DEF Side!WriteFails, Side!RunFails
<1>16. CASE Side!GameEnded /\ UNCHANGED numPlayers
  BY <1>16 DEF Side!GameEnded
<1>17. CASE Side!ForceEnd /\ UNCHANGED numPlayers
  BY <1>17 DEF Side!ForceEnd
<1>18. CASE Side!RevealStarts /\ UNCHANGED numPlayers
  BY <1>18 DEF Side!RevealStarts
<1>19. ASSUME NEW p \in Side!Players, Side!RevealNext(p), UNCHANGED numPlayers PROVE Swappers'
  BY <1>19 DEF Side!RevealNext
<1>20. CASE Side!RevealColours /\ UNCHANGED numPlayers
  BY <1>20 DEF Side!RevealColours
<1>21. CASE Side!RevealOver /\ UNCHANGED numPlayers
  BY <1>21 DEF Side!RevealOver
<1>22. CASE UNCHANGED Side!vars
  BY <1>22 DEF Side!vars
<1>23. CASE Side!CountdownLights /\ UNCHANGED numPlayers
  BY <1>23 DEF Side!CountdownLights
<1>24. QED
  BY <1>1, <1>2, <1>3, <1>4, <1>5, <1>6, <1>7, <1>8, <1>9, <1>10, <1>11, <1>12, <1>13,
     <1>14, <1>15, <1>16, <1>17, <1>18, <1>19, <1>20, <1>21, <1>22, <1>23
  DEF Side!Next, Side!Step, Side!Loop

\* Every step keeps a verdict true until it is celebrated.
LEMMA SideOutcomeStep ==
  ASSUME Side!TypeOK, SideOutcome, [Side!Next]_(Side!vars)
  PROVE  SideOutcome'
<1> USE VerdictPrimed DEF Side!draw, Side!update, Side!ending, Side!history, Side!Elsewhere,
           SideOutcome, Side!VerdictsAgree
<1>1. CASE Side!StartGame /\ UNCHANGED numPlayers
  BY <1>1 DEF Side!StartGame
<1>2. CASE Side!CountdownOver /\ UNCHANGED numPlayers
  BY <1>2 DEF Side!CountdownOver
<1>3. CASE Side!Frame /\ UNCHANGED numPlayers
  BY <1>3 DEF Side!Frame
<1>4. ASSUME NEW p \in Side!Players, Side!Process(p), UNCHANGED numPlayers PROVE SideOutcome'
  BY <1>4, BaseConstants DEF Side!Process
<1>5. CASE Side!FrameDone /\ UNCHANGED numPlayers
  BY <1>5, SideJudged DEF Side!FrameDone
<1>6. CASE Side!Killed /\ UNCHANGED numPlayers
  BY <1>6 DEF Side!Killed
<1>7. CASE Side!Swapped /\ UNCHANGED numPlayers
  BY <1>7 DEF Side!Swapped
<1>8. CASE Side!BackInPlay /\ UNCHANGED numPlayers
  BY <1>8 DEF Side!BackInPlay
<1>9. CASE Side!EffectSent /\ UNCHANGED numPlayers
  BY <1>9, SideJudged DEF Side!EffectSent
<1>10. CASE Side!Reconnect /\ UNCHANGED numPlayers
  BY <1>10 DEF Side!Reconnect, Side!Streaming
<1>11. CASE Side!GiveUp /\ UNCHANGED numPlayers
  BY <1>11 DEF Side!GiveUp, Side!Streaming
<1>12. CASE Side!StreamEnds /\ UNCHANGED numPlayers
  BY <1>12 DEF Side!StreamEnds
<1>13. CASE Side!LoopBreaks /\ UNCHANGED numPlayers
  BY <1>13 DEF Side!LoopBreaks, Side!Streaming
<1>14. CASE Side!Celebrate /\ UNCHANGED numPlayers
  BY <1>14, CelebratedVerdict DEF Side!Celebrate
<1>15. CASE Side!WriteFails /\ UNCHANGED numPlayers
  BY <1>15 DEF Side!WriteFails, Side!RunFails
<1>16. CASE Side!GameEnded /\ UNCHANGED numPlayers
  BY <1>16 DEF Side!GameEnded
<1>17. CASE Side!ForceEnd /\ UNCHANGED numPlayers
  BY <1>17 DEF Side!ForceEnd
<1>18. CASE Side!RevealStarts /\ UNCHANGED numPlayers
  BY <1>18 DEF Side!RevealStarts
<1>19. ASSUME NEW p \in Side!Players, Side!RevealNext(p), UNCHANGED numPlayers PROVE SideOutcome'
  BY <1>19 DEF Side!RevealNext
<1>20. CASE Side!RevealColours /\ UNCHANGED numPlayers
  BY <1>20 DEF Side!RevealColours
<1>21. CASE Side!RevealOver /\ UNCHANGED numPlayers
  BY <1>21 DEF Side!RevealOver
<1>22. CASE UNCHANGED Side!vars
  BY <1>22 DEF Side!vars
<1>23. CASE Side!CountdownLights /\ UNCHANGED numPlayers
  BY <1>23 DEF Side!CountdownLights
<1>24. QED
  BY <1>1, <1>2, <1>3, <1>4, <1>5, <1>6, <1>7, <1>8, <1>9, <1>10, <1>11, <1>12, <1>13,
     <1>14, <1>15, <1>16, <1>17, <1>18, <1>19, <1>20, <1>21, <1>22, <1>23
  DEF Side!Next, Side!Step, Side!Loop

-----------------------------------------------------------------------------
(* Of all the games, the invariant is that of the one which runs. *)

SideGame == game = "sides" => SideInv

\* A game as created satisfies the invariant.
LEMMA InitSide == CreateGame => SideGame
<1> SUFFICES ASSUME CreateGame PROVE SideInv
  BY DEF SideGame
<1> USE DEF CreateGame, Side!Init, Side!BaseInit, Side!NoReveal
<1>1. Side!TypeOK
  <2>1. 0 \in Side!Sides(mode)
    BY GameModesConstants DEF Side!Sides
  <2>2. QED
    BY <2>1 DEF Side!TypeOK, Side!BaseTypeOK
<1>2. SideWaits /\ Survivors /\ Lights /\ Swappers /\ SideOutcome
  BY DEF SideWaits, Survivors, Lights, Swappers, SideOutcome, Side!VerdictsAgree
<1>3. QED
  BY <1>1, <1>2 DEF SideInv

\* Every step keeps the invariant, or is one of another game.
LEMMA SideStep == SideGame /\ [Next]_modesVars => SideGame'
<1> SUFFICES ASSUME SideGame, [Next]_modesVars, game' = "sides" PROVE SideInv'
  BY DEF SideGame
<1>1. game = "sides" /\ [Side!Next]_(Side!vars)
  BY DEF Next, Outside, modesVars, sideVars, Side!vars
<1>2. Side!TypeOK /\ SideWaits /\ Survivors /\ Lights /\ Swappers /\ SideOutcome
  BY <1>1 DEF SideGame, SideInv
<1>3. QED
  BY <1>1, <1>2, SideTypeStep, SideWaitsStep, SurvivorsStep, LightsStep, SwappersStep, SideOutcomeStep
  DEF SideInv

\* The inductive invariant of the games of sides holds throughout.
THEOREM SideInvariance == Spec => []SideGame
BY InitSide, SideStep, PTL DEF Spec

\* Somebody survives every game of sides, however many fall in one update, for
\* any number of players and of teams.
THEOREM SomebodyAlwaysSurvives == Spec => []SomebodySurvives
<1>1. SideGame => SomebodySurvives
  BY DEF SideGame, SideInv, SomebodySurvives, Side!SomebodySurvives, Survivors, Side!TypeOK,
         Side!BaseTypeOK
<1>2. QED
  BY SideInvariance, <1>1, PTL

\* In every game of sides but Swapper the dark controllers are those of the
\* players out of play, but for players a reveal or a reopened stream has lit.
THEOREM LightsAlwaysTell == Spec => []LightsTellWhoPlays
<1>1. SideGame => LightsTellWhoPlays
  BY DEF SideGame, SideInv, LightsTellWhoPlays, Side!LightsTellWhoPlays, Lights
<1>2. QED
  BY SideInvariance, <1>1, PTL

\* A swapped player comes back, but for a stream that breaks amid the swap.
THEOREM SwappersAlwaysComeBack == Spec => []SwappersComeBack
<1>1. SideGame => SwappersComeBack
  BY DEF SideGame, SideInv, SwappersComeBack, Side!SwappersComeBack, Swappers
<1>2. QED
  BY SideInvariance, <1>1, PTL
===============================================================================
