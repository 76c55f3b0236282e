-------------------------- MODULE GameModes_proofs --------------------------
(***************************************************************************)
(* Safety of the zombie game, for every number of players and every clock, *)
(* and then what is proved of each mode, together: only one of them is     *)
(* played, so the invariants of the modes hold side by side.               *)
(*                                                                         *)
(* ZombiesComeBack is not inductive: when a zombie falls it must have been *)
(* in play, or it would get a second task.  It is in play because a frame  *)
(* only names players in play, each once, and because nothing takes those  *)
(* that are still to be processed out of play (UpdateInPlay).  What the    *)
(* tasks do after a forced end is kept in TasksBringBack.  VerdictsAgree   *)
(* needs that the verdict stays true while it waits to be celebrated: the  *)
(* clock does not leave 0, and tasks only bring back zombies.              *)
(*                                                                         *)
(* BracketIsFair is about numbers only: how often the slots are doubled    *)
(* (RoundsAre), which seeds each match of the first round gets, and where  *)
(* the winner of each later match goes (PlaceIs).  The prover has no       *)
(* induction; that a set of numbers has a least one stands for it.  The    *)
(* types of the tournament need that a match which is played has two       *)
(* players (MatchHasTwo), so that whoever falls leaves a winner.           *)
(***************************************************************************)
EXTENDS SideGames_proofs, FightClub_proofs, FiniteSetTheorems, SequenceTheorems,
        NaturalsInduction, WellFoundedInduction, TLAPS

-----------------------------------------------------------------------------
(* The zombie game. *)

ZombieTyped ==
  /\ Zomb!BaseTypeOK
  /\ zombies \subseteq Zomb!Players /\ humans \subseteq Zomb!Players
  /\ alive \subseteq Zomb!Players /\ gone \subseteq Zomb!Players
  /\ respawns \in [Zomb!Players -> Nat] /\ time \in 0..Clock
  /\ loop \in [at : {"frame", "update", "sound", "convert", "effect"},
               who : Zomb!Players \cup {None}]

\* The players an update has still to process, and the one it processes, are
\* different and in play.
UpdateInPlay ==
  phase = "playing" =>
    /\ gone \cup hot \subseteq alive /\ gone \cap hot = {}
    /\ loop.at = "sound" => loop.who \in alive \ (gone \cup hot)

\* Only a zombie that is out of play has a task, and only one.
TasksBringBack ==
  \A p \in Zomb!Players :
    /\ respawns[p] <= IF p \in alive THEN 0 ELSE 1
    /\ respawns[p] > 0 => p \in zombies

BeforePlay ==
  /\ phase \in {"new", "intro"} =>
       /\ loop = Zomb!Idle /\ gone = {} /\ hot = {}
       /\ \A p \in Zomb!Players : respawns[p] = 0
  /\ phase = "intro" => alive = Zomb!Players /\ humans = Zomb!Players \ zombies

HumansApart == humans \cap zombies = {}

\* Nothing is announced before the end, nor celebrated before the celebration.
NothingAnnounced ==
  /\ phase \in {"new", "intro", "playing"} => verdict = None
  /\ phase \in {"new", "intro", "playing", "over"} => final = None
  /\ verdict \in {"humans", "zombies", None} /\ final \in {"humans", "zombies", None}

\* The verdict is still true when it comes to be celebrated.
ZombieVerdictHolds ==
  phase = "over" /\ verdict # None =>
    \/ verdict = "zombies" /\ humans \cap alive = {}
    \/ verdict = "humans" /\ time = 0 /\ humans \cap alive # {}

ZombieCourse  == ZombieTyped /\ UpdateInPlay /\ TasksBringBack /\ BeforePlay
ZombieRoles   == HumansApart /\ Zomb!HumansAreHuman
ZombieOutcome == NothingAnnounced /\ ZombieVerdictHolds /\ Zomb!VerdictsAgree
ZombieInv     == ZombieCourse /\ Zomb!ZombiesComeBack /\ ZombieRoles /\ ZombieOutcome

USE DEF Zomb!Players, Zomb!Phases, Zomb!Playing, Zomb!At, Zomb!Idle, Zomb!Onwards, Zomb!Goes

\* A look at the survivors ends the game, or lets the loop go on.
LEMMA ZombieJudged ==
  ASSUME NEW next, NEW g, NEW h, Zomb!Judge(next, g, h)
  PROVE  \/ phase' = "over" /\ loop' = Zomb!Idle /\ gone' = {} /\ hot' = {}
         \/ phase' = phase /\ loop' = next /\ gone' = g /\ hot' = h
BY DEF Zomb!Judge

\* If it ends the game, it announces what is then true.
LEMMA ZombieJudgedTrue ==
  ASSUME NEW next, NEW g, NEW h, Zomb!Judge(next, g, h), HumansApart'
  PROVE  \/ phase' = "over" /\ verdict' = "zombies" /\ humans' \cap alive' = {}
         \/ phase' = "over" /\ verdict' = "humans" /\ time = 0 /\ humans' \cap alive' # {}
         \/ phase' = phase /\ verdict' = verdict
<1>1. Zomb!AliveHumans(humans', zombies', alive') = humans' \cap alive'
  BY DEF Zomb!AliveHumans, HumansApart
<1>2. QED
  BY <1>1 DEF Zomb!Judge

-----------------------------------------------------------------------------
(* One lemma for each part of the invariant, one case for each action. *)

\* Every step keeps the types, and the update, the tasks and play in step.
LEMMA ZombieCourseStep ==
  ASSUME ZombieCourse, [Zomb!Next]_(Zomb!vars)
  PROVE  ZombieCourse'
<1> USE GameModesConstants DEF Zomb!roles, Zomb!update, Zomb!ending,
           ZombieCourse, ZombieTyped, Zomb!BaseTypeOK, UpdateInPlay, TasksBringBack, BeforePlay
<1>1. CASE Zomb!StartGame /\ UNCHANGED numPlayers
  BY <1>1 DEF Zomb!StartGame
<1>2. CASE Zomb!CountdownOver /\ UNCHANGED numPlayers
  BY <1>2 DEF Zomb!CountdownOver
<1>3. CASE Zomb!Frame /\ UNCHANGED numPlayers
  BY <1>3 DEF Zomb!Frame
<1>4. ASSUME NEW p \in Zomb!Players, Zomb!Process(p), UNCHANGED numPlayers PROVE ZombieCourse'
  BY <1>4 DEF Zomb!Process
<1>5. CASE Zomb!FrameDone /\ UNCHANGED numPlayers
  BY <1>5, ZombieJudged DEF Zomb!FrameDone
<1>6. CASE Zomb!ZombieKilled /\ UNCHANGED numPlayers
  <2>1. /\ loop.who \in zombies /\ loop.who \in alive \ (gone \cup hot)
        /\ alive' = alive \ {loop.who}
        /\ gone \cup hot \subseteq alive /\ gone \cap hot = {}
    BY <1>6 DEF Zomb!ZombieKilled
  <2>2. /\ respawns' = [respawns EXCEPT ![loop.who] = @ + 1] /\ respawns[loop.who] = 0
        /\ respawns' \in [Zomb!Players -> Nat]
    BY <1>6, <2>1 DEF Zomb!ZombieKilled
  <2>3. /\ phase = "playing" /\ loop' = [at |-> "effect", who |-> loop.who]
        /\ UNCHANGED <<numPlayers, phase, running, zombies, humans, time, gone, hot, verdict,
                       final>>
    BY <1>6 DEF Zomb!ZombieKilled
  <2>4. ZombieTyped'
    BY <2>1, <2>2, <2>3
  <2>5. TasksBringBack'
    BY <2>1, <2>2, <2>3
  <2>6. QED
    <3>1. UpdateInPlay'
      <4>1. loop'.at = "effect"
        BY <2>3
      <4>2. gone' \cup hot' \subseteq alive' /\ gone' \cap hot' = {}
        BY <2>1, <2>3
      <4>3. QED
        BY <4>1, <4>2
    <3>2. BeforePlay'
      BY <2>3
    <3>3. QED
      BY <2>4, <2>5, <3>1, <3>2
<1>7. CASE Zomb!HumanKilled /\ UNCHANGED numPlayers
  BY <1>7 DEF Zomb!HumanKilled
<1>8. CASE Zomb!Converted /\ UNCHANGED numPlayers
  BY <1>8 DEF Zomb!Converted
<1>9. CASE Zomb!EffectSent /\ UNCHANGED numPlayers
  <2>1. /\ UNCHANGED <<numPlayers, running, zombies, humans, alive, respawns, time>>
        /\ phase = "playing"
    BY <1>9 DEF Zomb!EffectSent
  <2>2. CASE phase' = "over" /\ loop' = Zomb!Idle /\ gone' = {} /\ hot' = {}
    BY <2>1, <2>2
  <2>3. CASE phase' = phase /\ loop' = Zomb!Onwards /\ gone' = gone /\ hot' = hot
    BY <2>1, <2>3
  <2>4. QED
    BY <1>9, ZombieJudged, <2>2, <2>3 DEF Zomb!EffectSent
<1>10. CASE Zomb!Reconnect /\ UNCHANGED numPlayers
  BY <1>10 DEF Zomb!Reconnect, Zomb!Streaming
<1>11. CASE Zomb!GiveUp /\ UNCHANGED numPlayers
  <2>1. respawns' \in [Zomb!Players' -> Nat] /\ \A p \in Zomb!Players' : respawns'[p] = 0
    BY <1>11 DEF Zomb!GiveUp, Zomb!Streaming
  <2>2. ZombieTyped'
    BY <1>11, <2>1 DEF Zomb!GiveUp, Zomb!Streaming
  <2>3. QED
    BY <1>11, <2>1, <2>2 DEF Zomb!GiveUp, Zomb!Streaming
<1>12. CASE Zomb!StreamEnds /\ UNCHANGED numPlayers
  BY <1>12 DEF Zomb!StreamEnds
<1>13. CASE Zomb!LoopBreaks /\ UNCHANGED numPlayers
  BY <1>13 DEF Zomb!LoopBreaks, Zomb!Streaming
<1>14. CASE Zomb!Celebrate /\ UNCHANGED numPlayers
  BY <1>14 DEF Zomb!Celebrate
<1>15. CASE Zomb!WriteFails /\ UNCHANGED numPlayers
  <2>1. respawns' \in [Zomb!Players' -> Nat] /\ \A p \in Zomb!Players' : respawns'[p] = 0
    BY <1>15 DEF Zomb!WriteFails, Zomb!RunFails
  <2>2. ZombieTyped'
    BY <1>15, <2>1 DEF Zomb!WriteFails, Zomb!RunFails
  <2>3. QED
    BY <1>15, <2>1, <2>2 DEF Zomb!WriteFails, Zomb!RunFails
<1>16. CASE Zomb!GameEnded /\ UNCHANGED numPlayers
  <2>1. respawns' \in [Zomb!Players' -> Nat] /\ \A p \in Zomb!Players' : respawns'[p] = 0
    BY <1>16 DEF Zomb!GameEnded
  <2>2. ZombieTyped'
    BY <1>16, <2>1 DEF Zomb!GameEnded
  <2>3. QED
    BY <1>16, <2>1, <2>2 DEF Zomb!GameEnded
<1>17. CASE Zomb!ForceEnd /\ UNCHANGED numPlayers
  BY <1>17 DEF Zomb!ForceEnd
<1>18. CASE Zomb!Tick /\ UNCHANGED numPlayers
  BY <1>18 DEF Zomb!Tick
<1>19. ASSUME NEW p \in Zomb!Players, Zomb!Respawn(p), UNCHANGED numPlayers PROVE ZombieCourse'
  BY <1>19 DEF Zomb!Respawn
<1>20. CASE UNCHANGED Zomb!vars
  BY <1>20 DEF Zomb!vars
<1>21. QED
  BY <1>1, <1>2, <1>3, <1>4, <1>5, <1>6, <1>7, <1>8, <1>9, <1>10, <1>11, <1>12, <1>13,
     <1>14, <1>15, <1>16, <1>17, <1>18, <1>19, <1>20
  DEF Zomb!Next, Zomb!Step, Zomb!Loop

\* Every step leaves each player in play or with a task.
LEMMA ZombieTasksStep ==
  ASSUME ZombieCourse, Zomb!ZombiesComeBack, [Zomb!Next]_(Zomb!vars)
  PROVE  Zomb!ZombiesComeBack'
<1> USE DEF Zomb!roles, Zomb!update, Zomb!ending,
           ZombieCourse, ZombieTyped, Zomb!BaseTypeOK, UpdateInPlay, TasksBringBack, BeforePlay,
           Zomb!ZombiesComeBack
<1>1. CASE Zomb!StartGame /\ UNCHANGED numPlayers
  BY <1>1 DEF Zomb!StartGame
<1>2. CASE Zomb!CountdownOver /\ UNCHANGED numPlayers
  BY <1>2 DEF Zomb!CountdownOver
<1>3. CASE Zomb!Frame /\ UNCHANGED numPlayers
  BY <1>3 DEF Zomb!Frame
<1>4. ASSUME NEW p \in Zomb!Players, Zomb!Process(p), UNCHANGED numPlayers PROVE Zomb!ZombiesComeBack'
  BY <1>4 DEF Zomb!Process
<1>5. CASE Zomb!FrameDone /\ UNCHANGED numPlayers
  BY <1>5, ZombieJudged DEF Zomb!FrameDone
<1>6. CASE Zomb!ZombieKilled /\ UNCHANGED numPlayers
  BY <1>6 DEF Zomb!ZombieKilled
<1>7. CASE Zomb!HumanKilled /\ UNCHANGED numPlayers
  BY <1>7 DEF Zomb!HumanKilled
<1>8. CASE Zomb!Converted /\ UNCHANGED numPlayers
  BY <1>8 DEF Zomb!Converted
<1>9. CASE Zomb!EffectSent /\ UNCHANGED numPlayers
  BY <1>9, ZombieJudged DEF Zomb!EffectSent
<1>10. CASE Zomb!Reconnect /\ UNCHANGED numPlayers
  BY <1>10 DEF Zomb!Reconnect, Zomb!Streaming
<1>11. CASE Zomb!GiveUp /\ UNCHANGED numPlayers
  BY <1>11 DEF Zomb!GiveUp, Zomb!Streaming
<1>12. CASE Zomb!StreamEnds /\ UNCHANGED numPlayers
  BY <1>12 DEF Zomb!StreamEnds
<1>13. CASE Zomb!LoopBreaks /\ UNCHANGED numPlayers
  BY <1>13 DEF Zomb!LoopBreaks, Zomb!Streaming
<1>14. CASE Zomb!Celebrate /\ UNCHANGED numPlayers
  BY <1>14 DEF Zomb!Celebrate
<1>15. CASE Zomb!WriteFails /\ UNCHANGED numPlayers
  BY <1>15 DEF Zomb!WriteFails, Zomb!RunFails
<1>16. CASE Zomb!GameEnded /\ UNCHANGED numPlayers
  BY <1>16 DEF Zomb!GameEnded
<1>17. CASE Zomb!ForceEnd /\ UNCHANGED numPlayers
  BY <1>17 DEF Zomb!ForceEnd
<1>18. CASE Zomb!Tick /\ UNCHANGED numPlayers
  BY <1>18 DEF Zomb!Tick
<1>19. ASSUME NEW p \in Zomb!Players, Zomb!Respawn(p), UNCHANGED numPlayers PROVE Zomb!ZombiesComeBack'
  BY <1>19 DEF Zomb!Respawn
<1>20. CASE UNCHANGED Zomb!vars
  BY <1>20 DEF Zomb!vars
<1>21. QED
  BY <1>1, <1>2, <1>3, <1>4, <1>5, <1>6, <1>7, <1>8, <1>9, <1>10, <1>11, <1>12, <1>13,
     <1>14, <1>15, <1>16, <1>17, <1>18, <1>19, <1>20
  DEF Zomb!Next, Zomb!Step, Zomb!Loop

\* Every step keeps the roles apart, and the humans in play.
LEMMA ZombieRolesStep ==
  ASSUME ZombieCourse, ZombieRoles, [Zomb!Next]_(Zomb!vars)
  PROVE  ZombieRoles'
<1> USE DEF Zomb!roles, Zomb!update, Zomb!ending,
           ZombieCourse, ZombieTyped, Zomb!BaseTypeOK, BeforePlay, ZombieRoles, HumansApart,
           Zomb!HumansAreHuman
<1>1. CASE Zomb!StartGame /\ UNCHANGED numPlayers
  BY <1>1 DEF Zomb!StartGame
<1>2. CASE Zomb!CountdownOver /\ UNCHANGED numPlayers
  BY <1>2 DEF Zomb!CountdownOver
<1>3. CASE Zomb!Frame /\ UNCHANGED numPlayers
  BY <1>3 DEF Zomb!Frame
<1>4. ASSUME NEW p \in Zomb!Players, Zomb!Process(p), UNCHANGED numPlayers PROVE ZombieRoles'
  BY <1>4 DEF Zomb!Process
<1>5. CASE Zomb!FrameDone /\ UNCHANGED numPlayers
  BY <1>5, ZombieJudged DEF Zomb!FrameDone
<1>6. CASE Zomb!ZombieKilled /\ UNCHANGED numPlayers
  BY <1>6 DEF Zomb!ZombieKilled
<1>7. CASE Zomb!HumanKilled /\ UNCHANGED numPlayers
  BY <1>7 DEF Zomb!HumanKilled
<1>8. CASE Zomb!Converted /\ UNCHANGED numPlayers
  BY <1>8 DEF Zomb!Converted
<1>9. CASE Zomb!EffectSent /\ UNCHANGED numPlayers
  BY <1>9, ZombieJudged DEF Zomb!EffectSent
<1>10. CASE Zomb!Reconnect /\ UNCHANGED numPlayers
  BY <1>10 DEF Zomb!Reconnect, Zomb!Streaming
<1>11. CASE Zomb!GiveUp /\ UNCHANGED numPlayers
  BY <1>11 DEF Zomb!GiveUp, Zomb!Streaming
<1>12. CASE Zomb!StreamEnds /\ UNCHANGED numPlayers
  BY <1>12 DEF Zomb!StreamEnds
<1>13. CASE Zomb!LoopBreaks /\ UNCHANGED numPlayers
  BY <1>13 DEF Zomb!LoopBreaks, Zomb!Streaming
<1>14. CASE Zomb!Celebrate /\ UNCHANGED numPlayers
  BY <1>14 DEF Zomb!Celebrate
<1>15. CASE Zomb!WriteFails /\ UNCHANGED numPlayers
  BY <1>15 DEF Zomb!WriteFails, Zomb!RunFails
<1>16. CASE Zomb!GameEnded /\ UNCHANGED numPlayers
  BY <1>16 DEF Zomb!GameEnded
<1>17. CASE Zomb!ForceEnd /\ UNCHANGED numPlayers
  BY <1>17 DEF Zomb!ForceEnd
<1>18. CASE Zomb!Tick /\ UNCHANGED numPlayers
  BY <1>18 DEF Zomb!Tick
<1>19. ASSUME NEW p \in Zomb!Players, Zomb!Respawn(p), UNCHANGED numPlayers PROVE ZombieRoles'
  BY <1>19 DEF Zomb!Respawn
<1>20. CASE UNCHANGED Zomb!vars
  BY <1>20 DEF Zomb!vars
<1>21. QED
  BY <1>1, <1>2, <1>3, <1>4, <1>5, <1>6, <1>7, <1>8, <1>9, <1>10, <1>11, <1>12, <1>13,
     <1>14, <1>15, <1>16, <1>17, <1>18, <1>19, <1>20
  DEF Zomb!Next, Zomb!Step, Zomb!Loop

\* Every step keeps a verdict true until it is celebrated.
LEMMA ZombieOutcomeStep ==
  ASSUME ZombieCourse, ZombieRoles, ZombieOutcome, ZombieRoles', [Zomb!Next]_(Zomb!vars)
  PROVE  ZombieOutcome'
<1> USE DEF Zomb!roles, Zomb!update, Zomb!ending,
           ZombieCourse, ZombieTyped, TasksBringBack, ZombieRoles, HumansApart, ZombieOutcome,
           NothingAnnounced, ZombieVerdictHolds, Zomb!VerdictsAgree
<1>1. CASE Zomb!StartGame /\ UNCHANGED numPlayers
  BY <1>1 DEF Zomb!StartGame
<1>2. CASE Zomb!CountdownOver /\ UNCHANGED numPlayers
  BY <1>2 DEF Zomb!CountdownOver
<1>3. CASE Zomb!Frame /\ UNCHANGED numPlayers
  BY <1>3 DEF Zomb!Frame
<1>4. ASSUME NEW p \in Zomb!Players, Zomb!Process(p), UNCHANGED numPlayers PROVE ZombieOutcome'
  BY <1>4 DEF Zomb!Process
<1>5. CASE Zomb!FrameDone /\ UNCHANGED numPlayers
  BY <1>5, ZombieJudgedTrue DEF Zomb!FrameDone
<1>6. CASE Zomb!ZombieKilled /\ UNCHANGED numPlayers
  BY <1>6 DEF Zomb!ZombieKilled
<1>7. CASE Zomb!HumanKilled /\ UNCHANGED numPlayers
  BY <1>7 DEF Zomb!HumanKilled
<1>8. CASE Zomb!Converted /\ UNCHANGED numPlayers
  BY <1>8 DEF Zomb!Converted
<1>9. CASE Zomb!EffectSent /\ UNCHANGED numPlayers
  BY <1>9, ZombieJudgedTrue DEF Zomb!EffectSent
<1>10. CASE Zomb!Reconnect /\ UNCHANGED numPlayers
  BY <1>10 DEF Zomb!Reconnect, Zomb!Streaming
<1>11. CASE Zomb!GiveUp /\ UNCHANGED numPlayers
  BY <1>11 DEF Zomb!GiveUp, Zomb!Streaming
<1>12. CASE Zomb!StreamEnds /\ UNCHANGED numPlayers
  BY <1>12 DEF Zomb!StreamEnds
<1>13. CASE Zomb!LoopBreaks /\ UNCHANGED numPlayers
  BY <1>13 DEF Zomb!LoopBreaks, Zomb!Streaming
<1>14. CASE Zomb!Celebrate /\ UNCHANGED numPlayers
  BY <1>14 DEF Zomb!Celebrate, Zomb!Celebrated
<1>15. CASE Zomb!WriteFails /\ UNCHANGED numPlayers
  BY <1>15 DEF Zomb!WriteFails, Zomb!RunFails
<1>16. CASE Zomb!GameEnded /\ UNCHANGED numPlayers
  BY <1>16 DEF Zomb!GameEnded
<1>17. CASE Zomb!ForceEnd /\ UNCHANGED numPlayers
  BY <1>17 DEF Zomb!ForceEnd
<1>18. CASE Zomb!Tick /\ UNCHANGED numPlayers
  BY <1>18 DEF Zomb!Tick
<1>19. ASSUME NEW p \in Zomb!Players, Zomb!Respawn(p), UNCHANGED numPlayers PROVE ZombieOutcome'
  BY <1>19 DEF Zomb!Respawn
<1>20. CASE UNCHANGED Zomb!vars
  BY <1>20 DEF Zomb!vars
<1>21. QED
  BY <1>1, <1>2, <1>3, <1>4, <1>5, <1>6, <1>7, <1>8, <1>9, <1>10, <1>11, <1>12, <1>13,
     <1>14, <1>15, <1>16, <1>17, <1>18, <1>19, <1>20
  DEF Zomb!Next, Zomb!Step, Zomb!Loop

-----------------------------------------------------------------------------
(* Of all the games, the invariant is that of the one which runs. *)

ZombieGame == game = "zombie" => ZombieInv

\* A game as created satisfies the invariant.
LEMMA InitZombie == CreateGame => ZombieGame
BY GameModesConstants
DEF CreateGame, Zomb!Init, Zomb!BaseInit, ZombieGame, ZombieInv, ZombieCourse, ZombieTyped,
    Zomb!BaseTypeOK, UpdateInPlay, TasksBringBack, BeforePlay, Zomb!ZombiesComeBack, ZombieRoles,
    HumansApart, Zomb!HumansAreHuman, ZombieOutcome, NothingAnnounced, ZombieVerdictHolds,
    Zomb!VerdictsAgree

\* Every step keeps the invariant, or is one of another game.
LEMMA ZombieStep == ZombieGame /\ [Next]_modesVars => ZombieGame'
<1> SUFFICES ASSUME ZombieGame, [Next]_modesVars, game' = "zombie" PROVE ZombieInv'
  BY DEF ZombieGame
<1>1. game = "zombie" /\ [Zomb!Next]_(Zomb!vars)
  BY DEF Next, Outside, modesVars, zombieVars, Zomb!vars
<1>2. ZombieCourse /\ Zomb!ZombiesComeBack /\ ZombieRoles /\ ZombieOutcome
  BY <1>1 DEF ZombieGame, ZombieInv
<1>3. QED
  BY <1>1, <1>2, ZombieCourseStep, ZombieTasksStep, ZombieRolesStep, ZombieOutcomeStep
  DEF ZombieInv

\* The inductive invariant of the zombie game holds throughout.
THEOREM ZombieInvariance == Spec => []ZombieGame
BY InitZombie, ZombieStep, PTL DEF Spec

\* Every player that is out while the game goes on has exactly one task to
\* bring it back, whatever the interleaving of kills and tasks.
THEOREM NoZombieIsLost == Spec => []ZombiesComeBack
<1>1. ZombieGame => ZombiesComeBack
  BY DEF ZombieGame, ZombieInv, ZombiesComeBack
<1>2. QED
  BY ZombieInvariance, <1>1, PTL

\* The list of humans, the zombie flags and the alive flags agree.
THEOREM HumansStayHuman == Spec => []HumansAreHuman
<1>1. ZombieGame => HumansAreHuman
  BY DEF ZombieGame, ZombieInv, ZombieRoles, HumansAreHuman
<1>2. QED
  BY ZombieInvariance, <1>1, PTL

-----------------------------------------------------------------------------
(* The bracket of a tournament. *)

\* A set of numbers has a least one: this stands for induction.
LEMMA LeastNumber ==
  ASSUME NEW S \in SUBSET Nat, S # {}
  PROVE  \E x \in S : \A y \in S : x <= y
<1> DEFINE R == OpToRel(<, Nat)
<1>1. IsWellFoundedOn(R, Nat)
  BY NatLessThanWellFounded
<1>2. \A x, y \in Nat : <<x, y>> \in R <=> x < y
  BY DEF OpToRel
<1> HIDE DEF R
<1>3. PICK x \in S : \A y \in S : ~(<<y, x>> \in R)
  BY <1>1, WFMin
<1>4. \A y \in S : x \in Nat /\ y \in Nat /\ ~(y < x)
  BY <1>2, <1>3
<1>5. QED
  BY <1>4

\* A function that doubles from 1 on, as far as n.
Doubles(f, n) == f \in [0..n -> Nat] /\ f[0] = 1 /\ \A k \in 1..n : f[k] = 2 * f[k - 1]

\* There is one for every n.
LEMMA DoublesFar == \A n \in Nat : \E f : Doubles(f, n)
<1> DEFINE bad == {n \in Nat : ~\E f : Doubles(f, n)}
<1>1. SUFFICES ASSUME bad # {} PROVE FALSE
  OBVIOUS
<1>2. PICK n \in bad : \A m \in bad : n <= m
  BY <1>1, LeastNumber
<1>3. CASE n = 0
  <2>1. Doubles([k \in 0..0 |-> 1], 0)
    BY DEF Doubles
  <2>2. QED
    BY <1>2, <1>3, <2>1
<1>4. CASE n # 0
  <2>1. n \in Nat /\ n - 1 \in Nat /\ ~(n <= n - 1)
    BY <1>4
  <2>2. PICK f : Doubles(f, n - 1)
    BY <1>2, <2>1
  <2> DEFINE g == [k \in 0..n |-> IF k = n THEN 2 * f[n - 1] ELSE f[k]]
  <2>3. g \in [0..n -> Nat] /\ g[0] = 1
    BY <1>4, <2>1, <2>2 DEF Doubles
  <2>4. ASSUME NEW k \in 1..n PROVE g[k] = 2 * g[k - 1]
    BY <1>4, <2>1, <2>2, <2>4 DEF Doubles
  <2>5. Doubles(g, n)
    BY <2>3, <2>4 DEF Doubles
  <2>6. QED
    BY <1>2, <2>5
<1>5. QED
  BY <1>3, <1>4

\* Two of them agree as far as both go.
LEMMA DoublesOnce ==
  ASSUME NEW n \in Nat, NEW m \in Nat, NEW f, NEW g, Doubles(f, n), Doubles(g, m)
  PROVE  \A k \in Nat : k <= n /\ k <= m => f[k] = g[k]
<1> DEFINE bad == {k \in Nat : k <= n /\ k <= m /\ f[k] # g[k]}
<1>1. SUFFICES ASSUME bad # {} PROVE FALSE
  OBVIOUS
<1>2. PICK k \in bad : \A j \in bad : k <= j
  BY <1>1, LeastNumber
<1>3. k # 0
  BY DEF Doubles
<1>4. k - 1 \in Nat /\ k - 1 \notin bad /\ k \in 1..n /\ k \in 1..m
  BY <1>2, <1>3
<1>5. f[k - 1] = g[k - 1]
  BY <1>4
<1>6. QED
  BY <1>4, <1>5 DEF Doubles

\* total_slots is 1 before the first doubling, and twice as much after each.
LEMMA DoubledIs ==
  Field!Doubled[0] = 1 /\ \A k \in Nat : /\ Field!Doubled[k] \in Nat
                                         /\ Field!Doubled[k + 1] = 2 * Field!Doubled[k]
<1> DEFINE F == [n \in Nat |-> (CHOOSE f : Doubles(f, n))[n]]
<1>1. ASSUME NEW n \in Nat, NEW f, Doubles(f, n) PROVE F[n] = f[n]
  <2>1. Doubles(CHOOSE g : Doubles(g, n), n)
    BY DoublesFar
  <2>2. QED
    BY <1>1, <2>1, DoublesOnce
<1>2. F[0] = 1 /\ \A k \in Nat : F[k] \in Nat /\ F[k + 1] = 2 * F[k]
  <2>1. ASSUME NEW k \in Nat PROVE F[k] \in Nat /\ F[k + 1] = 2 * F[k] /\ (k = 0 => F[0] = 1)
    <3>1. PICK f : Doubles(f, k + 1)
      BY DoublesFar
    <3>2. PICK g : Doubles(g, k)
      BY DoublesFar
    <3>3. F[k + 1] = f[k + 1] /\ F[k] = g[k] /\ f[k] = g[k]
      BY <1>1, <3>1, <3>2, DoublesOnce
    <3>4. f[k + 1] = 2 * f[k] /\ f[k] \in Nat
      BY <3>1 DEF Doubles
    <3>5. g[0] = 1
      BY <3>2 DEF Doubles
    <3>6. QED
      BY <3>3, <3>4, <3>5
  <2>2. QED
    BY <2>1
<1> HIDE DEF F
<1>3. F = [k \in Nat |-> IF k = 0 THEN 1 ELSE 2 * F[k - 1]]
  <2>1. \E S : F = [n \in Nat |-> F[n]]
    BY DEF F
  <2>2. \A k \in Nat : F[k] = IF k = 0 THEN 1 ELSE 2 * F[k - 1]
    <3>1. TAKE k \in Nat
    <3>2. k # 0 => k - 1 \in Nat /\ (k - 1) + 1 = k
      OBVIOUS
    <3>3. QED
      BY <1>2, <3>2
  <2>3. QED
    BY <2>1, <2>2
<1>4. Field!Doubled = [k \in Nat |-> IF k = 0 THEN 1 ELSE 2 * Field!Doubled[k - 1]]
  BY <1>3 DEF Field!Doubled
<1> DEFINE D == Field!Doubled
<1> HIDE DEF D
<1>5. D[0] = 1 /\ \A k \in Nat : D[k + 1] = 2 * D[k]
  <2>1. D = [k \in Nat |-> IF k = 0 THEN 1 ELSE 2 * D[k - 1]]
    BY <1>4 DEF D
  <2>2. D[0] = 1
    BY <2>1
  <2>3. ASSUME NEW k \in Nat PROVE D[k + 1] = 2 * D[k]
    <3>1. k + 1 \in Nat /\ k + 1 # 0 /\ (k + 1) - 1 = k
      OBVIOUS
    <3>2. D[k + 1] = IF k + 1 = 0 THEN 1 ELSE 2 * D[(k + 1) - 1]
      BY <2>1, <3>1
    <3>3. QED
      BY <3>1, <3>2
  <2>4. QED
    BY <2>2, <2>3
<1>6. \A k \in Nat : D[k] \in Nat
  <2> DEFINE bad == {k \in Nat : D[k] \notin Nat}
  <2>1. SUFFICES ASSUME bad # {} PROVE FALSE
    OBVIOUS
  <2>2. PICK k \in bad : \A j \in bad : k <= j
    BY <2>1, LeastNumber
  <2>3. k # 0
    BY <1>5
  <2>4. k - 1 \in Nat /\ k - 1 \notin bad /\ (k - 1) + 1 = k
    BY <2>2, <2>3
  <2>5. QED
    BY <1>5, <2>4
<1>7. QED
  BY <1>5, <1>6 DEF D

\* The slots grow with every doubling, beyond every number.
LEMMA DoubledGrows ==
  /\ \A k \in Nat : Field!Doubled[k] > k
  /\ \A j, k \in Nat : j < k => Field!Doubled[j] < Field!Doubled[k]
<1> DEFINE D == Field!Doubled
<1>1. D[0] = 1 /\ \A k \in Nat : D[k] \in Nat /\ D[k + 1] = 2 * D[k]
  BY DoubledIs
<1> HIDE DEF D
<1>2. \A k \in Nat : D[k] > k
  <2> DEFINE bad == {k \in Nat : ~(D[k] > k)}
  <2>1. SUFFICES ASSUME bad # {} PROVE FALSE
    OBVIOUS
  <2>2. PICK k \in bad : \A j \in bad : k <= j
    BY <2>1, LeastNumber
  <2>3. k # 0
    BY <1>1
  <2>4. k - 1 \in Nat /\ D[k - 1] > k - 1 /\ (k - 1) + 1 = k
    BY <2>2, <2>3
  <2>5. D[k] = 2 * D[k - 1] /\ D[k - 1] \in Nat
    BY <1>1, <2>4
  <2>6. QED
    BY <2>4, <2>5
<1>3. ASSUME NEW j \in Nat PROVE \A k \in Nat : j < k => D[j] < D[k]
  <2> DEFINE bad == {k \in Nat : j < k /\ ~(D[j] < D[k])}
  <2>1. SUFFICES ASSUME bad # {} PROVE FALSE
    OBVIOUS
  <2>2. PICK k \in bad : \A i \in bad : k <= i
    BY <2>1, LeastNumber
  <2>3. k - 1 \in Nat /\ k - 1 \notin bad /\ (k - 1) + 1 = k
    BY <2>2
  <2>4. j = k - 1 \/ D[j] < D[k - 1]
    BY <2>3
  <2>5. D[k] = 2 * D[k - 1] /\ D[k - 1] \in Nat /\ D[k - 1] > k - 1
    BY <1>1, <1>2, <2>3
  <2>6. D[j] \in Nat
    BY <1>1
  <2>7. QED
    BY <2>3, <2>4, <2>5, <2>6
<1>4. QED
  BY <1>2, <1>3 DEF D

\* Every number beyond 1 lies between two neighbours.
LEMMA DoubledAround ==
  ASSUME NEW x \in Nat, x >= 2
  PROVE  \E a \in Nat : Field!Doubled[a] < x /\ x <= Field!Doubled[a + 1]
<1> DEFINE above == {k \in Nat : x <= Field!Doubled[k]}
<1>1. x \in above
  BY DoubledIs, DoubledGrows
<1>2. PICK k \in above : \A j \in above : k <= j
  BY <1>1, LeastNumber
<1>3. k # 0
  BY DoubledIs
<1>4. k - 1 \in Nat /\ k - 1 \notin above /\ (k - 1) + 1 = k
  BY <1>2, <1>3
<1>5. Field!Doubled[k - 1] \in Nat
  BY <1>4, DoubledIs
<1>6. QED
  BY <1>4, <1>5

\* More doublings give a multiple.
LEMMA DoubledDivides ==
  ASSUME NEW a \in Nat
  PROVE  \A b \in Nat : \E q \in Nat : Field!Doubled[a + b] = q * Field!Doubled[a]
<1> DEFINE D == Field!Doubled
<1>1. \A k \in Nat : D[k] \in Nat /\ D[k + 1] = 2 * D[k]
  BY DoubledIs
<1> HIDE DEF D
<1> DEFINE bad == {b \in Nat : ~\E q \in Nat : D[a + b] = q * D[a]}
<1>2. SUFFICES ASSUME bad # {} PROVE FALSE
  BY DEF D
<1>3. PICK b \in bad : \A c \in bad : b <= c
  BY <1>2, LeastNumber
<1>4. b # 0
  <2>1. D[a + 0] = 1 * D[a]
    BY <1>1
  <2>2. QED
    BY <2>1
<1>5. b - 1 \in Nat /\ b - 1 \notin bad /\ (a + (b - 1)) + 1 = a + b /\ a + (b - 1) \in Nat
  BY <1>3, <1>4
<1>6. PICK q \in Nat : D[a + (b - 1)] = q * D[a]
  BY <1>5
<1>7. D[a + b] = 2 * (q * D[a])
  BY <1>1, <1>5, <1>6
<1>8. 2 * (q * D[a]) = (2 * q) * D[a] /\ 2 * q \in Nat
  BY <1>1
<1>9. QED
  BY <1>3, <1>7, <1>8

\* What is left of a number after so many whole rounds of h.
LEMMA RemainderIs ==
  ASSUME NEW h \in Nat, NEW q \in Nat, NEW j \in Nat, j < h
  PROVE  (q * h + j) % h = j
<1> DEFINE x == q * h + j
           d == x \div h
<1>1. x \in Nat /\ h > 0
  OBVIOUS
<1>2. d \in Nat /\ x % h \in 0..(h - 1) /\ x = h * d + (x % h)
  BY <1>1
<1> DEFINE r == x % h
<1>3. q * h + j = h * d + r /\ r \in Nat /\ r < h
  BY <1>2
<1> HIDE DEF x, d, r
<1>4. CASE d > q
  <2>1. PICK e \in Nat : d = q + 1 + e
    <3>1. d - q - 1 \in Nat /\ d = q + 1 + (d - q - 1)
      BY <1>2, <1>4
    <3>2. QED
      BY <3>1
  <2>2. h * d = q * h + h + h * e /\ h * e >= 0
    BY <2>1
  <2>3. QED
    BY <1>2, <1>3, <2>2
<1>5. CASE d < q
  <2>1. PICK e \in Nat : q = d + 1 + e
    <3>1. q - d - 1 \in Nat /\ q = d + 1 + (q - d - 1)
      BY <1>2, <1>5
    <3>2. QED
      BY <3>1
  <2>2. q * h = h * d + h + h * e /\ h * e >= 0
    BY <1>2, <2>1
  <2>3. QED
    BY <1>2, <1>3, <2>2
<1>6. CASE d = q
  <2>1. h * d = q * h
    BY <1>2, <1>6
  <2>2. r = j
    BY <1>2, <1>3, <2>1
  <2>3. QED
    BY <2>2 DEF r, x
<1>7. QED
  BY <1>2, <1>4, <1>5, <1>6

\* The doubling stops at the first number of slots that suffices.
LEMMA RoundsAre ==
  ASSUME NEW n \in Nat, n >= 2
  PROVE  /\ Field!Rounds(n) \in Nat \ {0}
         /\ Field!Doubled[Field!Rounds(n) - 1] < n /\ n <= Field!Doubled[Field!Rounds(n)]
         /\ Field!Doubled[Field!Rounds(n)] = 2 * Field!Doubled[Field!Rounds(n) - 1]
<1> DEFINE D == Field!Doubled
           Fits(k) == D[k] >= n /\ \A j \in 0..(k - 1) : D[j] < n
<1>1. D[0] = 1 /\ \A k \in Nat : D[k] \in Nat /\ D[k + 1] = 2 * D[k]
  BY DoubledIs
<1>2. PICK a \in Nat : D[a] < n /\ n <= D[a + 1]
  BY DoubledAround
<1>3. D[a] > a /\ \A j \in 0..a : D[j] <= D[a]
  <2>1. D[a] > a /\ \A j \in Nat : j < a => D[j] < D[a]
    BY DoubledGrows
  <2>2. QED
    BY <1>1, <2>1
<1> HIDE DEF D
<1>4. a + 1 \in 0..n /\ Fits(a + 1)
  BY <1>1, <1>2, <1>3
<1>5. Field!Rounds(n) = CHOOSE k \in 0..n : Fits(k)
  BY DEF Field!Rounds, D
<1>6. Field!Rounds(n) \in 0..n /\ Fits(Field!Rounds(n))
  BY <1>4, <1>5
<1>7. Field!Rounds(n) # 0
  BY <1>1, <1>6
<1>8. Field!Rounds(n) - 1 \in Nat /\ (Field!Rounds(n) - 1) + 1 = Field!Rounds(n)
  BY <1>6, <1>7
<1>9. D[Field!Rounds(n) - 1] < n
  BY <1>6, <1>8
<1>10. D[Field!Rounds(n)] = 2 * D[Field!Rounds(n) - 1]
  BY <1>1, <1>8
<1>11. QED
  BY <1>6, <1>7, <1>9, <1>10 DEF D

\* The first round seats everybody once, and leaves no match empty.
LEMMA SeatsAreFair ==
  ASSUME NEW n \in Nat, n >= 2
  PROVE  LET firstRound == 0..(Field!MatchesIn(1, n) - 1)
         IN  /\ \A i \in 1..n : \E m \in firstRound :
                  /\ i \in Field!Seated(m, n)
                  /\ \A k \in firstRound \ {m} : i \notin Field!Seated(k, n)
             /\ \A m \in firstRound : Field!Seated(m, n) # {}
<1> DEFINE f == Field!MatchesIn(1, n)
           b == Field!Byes(n)
<1>1. f \in Nat /\ b \in Nat /\ f < n /\ b + n = 2 * f
  <2> DEFINE h == Field!Doubled[Field!Rounds(n) - 1]
             s == Field!Doubled[Field!Rounds(n)]
  <2>1. h \in Nat /\ s \in Nat /\ h < n /\ n <= s /\ s = 2 * h
    BY RoundsAre, DoubledIs
  <2>2. f = h /\ b = s - n
    BY DEF Field!MatchesIn, Field!Byes, Field!Slots
  <2> HIDE DEF h, s, f, b
  <2>3. QED
    BY <2>1, <2>2
<1>2. \A m : Field!Seated(m, n) =
        IF m < b THEN {m + 1} ELSE {(b + 2 * (m - b)) + 1, (b + 2 * (m - b)) + 2} \cap (1..n)
  BY DEF Field!Seated
<1> HIDE DEF f, b
<1>3. ASSUME NEW i \in 1..n
      PROVE  \E m \in 0..(f - 1) : /\ i \in Field!Seated(m, n)
                                   /\ \A k \in (0..(f - 1)) \ {m} : i \notin Field!Seated(k, n)
  <2>1. CASE i <= b
    <3>1. i - 1 \in 0..(f - 1) /\ i \in Field!Seated(i - 1, n)
      BY <1>1, <1>2, <2>1
    <3>2. ASSUME NEW k \in (0..(f - 1)) \ {i - 1} PROVE i \notin Field!Seated(k, n)
      BY <1>1, <1>2, <2>1, <3>2
    <3>3. QED
      BY <3>1, <3>2
  <2>2. CASE i > b
    <3>1. PICK j \in Nat : i = b + 2 * j + 1 \/ i = b + 2 * j + 2
      <4>1. (i - b - 1) \div 2 \in Nat /\ (\/ i - b - 1 = 2 * ((i - b - 1) \div 2)
                                           \/ i - b - 1 = 2 * ((i - b - 1) \div 2) + 1)
        BY <1>1, <2>2
      <4>2. QED
        BY <1>1, <4>1
    <3>2. b + j \in 0..(f - 1) /\ i \in Field!Seated(b + j, n)
      BY <1>1, <1>2, <3>1
    <3>3. ASSUME NEW k \in (0..(f - 1)) \ {b + j} PROVE i \notin Field!Seated(k, n)
      BY <1>1, <1>2, <2>2, <3>1, <3>3
    <3>4. QED
      BY <3>2, <3>3
  <2>3. QED
    BY <1>1, <2>1, <2>2
<1>4. ASSUME NEW m \in 0..(f - 1) PROVE Field!Seated(m, n) # {}
  <2>1. CASE m < b
    BY <1>2, <2>1
  <2>2. CASE ~(m < b)
    <3>1. (b + 2 * (m - b)) + 1 \in 1..n
      BY <1>1, <2>2
    <3>2. QED
      BY <1>2, <2>2, <3>1
  <2>3. QED
    BY <2>1, <2>2
<1>5. QED
  BY <1>3, <1>4 DEF f

\* Each match but the later ones is of exactly one round.
LEMMA RoundOfIs ==
  ASSUME NEW n \in Nat, n >= 2, NEW m \in Nat, m + 2 <= Field!Slots(n)
  PROVE  /\ Field!RoundOf(m, n) \in 1..Field!Rounds(n)
         /\ \A r \in 1..Field!Rounds(n) :
              r = Field!RoundOf(m, n)
                <=> /\ m >= Field!Slots(n) - 2 * Field!MatchesIn(r, n)
                    /\ m < Field!Slots(n) - Field!MatchesIn(r, n)
<1> DEFINE D == Field!Doubled
           R == Field!Rounds(n)
           In(r) == r \in 1..R /\ m >= D[R] - 2 * D[R - r] /\ m < D[R] - D[R - r]
<1>1. R \in Nat \ {0}
  BY RoundsAre
<1>2. \A k \in Nat : D[k] \in Nat /\ D[k + 1] = 2 * D[k]
  BY DoubledIs
<1>3. \A j, k \in Nat : j < k => D[j] < D[k]
  BY DoubledGrows
<1>4. Field!RoundOf(m, n) = CHOOSE r \in 1..R : In(r)
  BY DEF Field!RoundOf, Field!Slots, Field!MatchesIn
<1>5. m + 2 <= D[R]
  BY DEF Field!Slots
<1>6. PICK a \in Nat : D[a] < D[R] - m /\ D[R] - m <= D[a + 1]
  <2>1. D[R] - m \in Nat /\ D[R] - m >= 2
    BY <1>1, <1>2, <1>5
  <2>2. QED
    BY <2>1, DoubledAround
<1> HIDE DEF D, R
<1>7. a < R
  <2>1. D[a] < D[R]
    BY <1>1, <1>2, <1>6
  <2>2. a = R \/ R < a => FALSE
    BY <1>1, <1>2, <1>3, <2>1
  <2>3. QED
    BY <1>1, <2>2
<1>8. In(R - a)
  <2>1. R - a \in 1..R /\ R - (R - a) = a
    BY <1>1, <1>7
  <2>2. QED
    BY <1>1, <1>2, <1>6, <2>1
<1>9. ASSUME NEW r, In(r) PROVE r = R - a
  <2>1. R - r \in Nat
    BY <1>1, <1>9
  <2>2. D[R - r] < D[R] - m /\ D[R] - m <= D[(R - r) + 1]
    BY <1>1, <1>2, <1>9, <2>1
  <2>3. CASE R - r < a
    <3>1. D[(R - r) + 1] <= D[a]
      <4>1. (R - r) + 1 \in Nat /\ ((R - r) + 1 < a \/ (R - r) + 1 = a)
        BY <2>1, <2>3
      <4>2. D[a] \in Nat /\ D[(R - r) + 1] \in Nat
        BY <1>2, <4>1
      <4>3. QED
        BY <1>3, <4>1, <4>2
    <3>2. QED
      BY <1>1, <1>2, <1>6, <2>1, <2>2, <3>1
  <2>4. CASE a < R - r
    <3>1. D[a + 1] <= D[R - r]
      <4>1. a + 1 \in Nat /\ (a + 1 < R - r \/ a + 1 = R - r)
        BY <2>1, <2>4
      <4>2. D[a + 1] \in Nat /\ D[R - r] \in Nat
        BY <1>2, <2>1, <4>1
      <4>3. QED
        BY <1>3, <2>1, <4>1, <4>2
    <3>2. QED
      BY <1>1, <1>2, <1>6, <2>1, <2>2, <3>1
  <2>5. QED
    BY <1>1, <1>9, <2>1, <2>3, <2>4
<1>10. Field!RoundOf(m, n) = R - a
  BY <1>4, <1>8, <1>9
<1>11. \A r \in 1..R : In(r) <=> r = R - a
  BY <1>8, <1>9
<1>12. R - a \in 1..R
  BY <1>8
<1>13. QED
  BY <1>10, <1>11, <1>12 DEF R, D, Field!Slots, Field!MatchesIn

\* The winner of the j-th match of a round goes to the match j \div 2 of the next.
LEMMA PlaceIs ==
  ASSUME NEW n \in Nat, n >= 2, NEW r \in 1..(Field!Rounds(n) - 1), NEW j \in Nat,
         j < Field!MatchesIn(r, n)
  PROVE  LET m == (Field!Slots(n) - 2 * Field!MatchesIn(r, n)) + j
         IN  /\ m \in Nat /\ m + 3 <= Field!Slots(n)
             /\ Field!Place(m, n) =
                  <<(Field!Slots(n) - Field!MatchesIn(r, n)) + (j \div 2), j % 2>>
<1> DEFINE D == Field!Doubled
           R == Field!Rounds(n)
           s == Field!Slots(n)
           h == Field!MatchesIn(r, n)
           g == Field!MatchesIn(r + 1, n)
           m == (s - 2 * h) + j
<1>1. R \in Nat \ {0}
  BY RoundsAre
<1>2. s \in Nat /\ h \in Nat /\ g \in Nat /\ g > 0 /\ h = 2 * g
  <2>1. R \in Nat /\ R - r \in Nat /\ R - (r + 1) \in Nat /\ (R - (r + 1)) + 1 = R - r
    BY <1>1
  <2>2. D[R] \in Nat /\ D[R - r] \in Nat /\ D[R - (r + 1)] \in Nat
        /\ D[R - r] = 2 * D[R - (r + 1)]
    BY <2>1, DoubledIs
  <2>3. D[R - (r + 1)] > 0
    <3>1. D[R - (r + 1)] > R - (r + 1)
      BY <2>1, DoubledGrows
    <3>2. QED
      BY <2>1, <2>2, <3>1
  <2>4. QED
    BY <2>2, <2>3 DEF Field!Slots, Field!MatchesIn
<1>3. PICK q \in Nat : s = q * h + 2 * h
  <2>1. (R - r) + 1 \in Nat /\ r - 1 \in Nat /\ ((R - r) + 1) + (r - 1) = R /\ R - r \in Nat
    BY <1>1
  <2>2. PICK p \in Nat : D[R] = p * D[(R - r) + 1]
    <3>1. ASSUME NEW a \in Nat, NEW b \in Nat PROVE \E p \in Nat : D[a + b] = p * D[a]
      BY DoubledDivides
    <3>2. \E p \in Nat : D[((R - r) + 1) + (r - 1)] = p * D[(R - r) + 1]
      <4> DEFINE a == (R - r) + 1
                 b == r - 1
      <4>1. a \in Nat /\ b \in Nat
        BY <2>1
      <4> HIDE DEF a, b, D
      <4>2. \E p \in Nat : D[a + b] = p * D[a]
        BY <3>1, <4>1
      <4>3. QED
        BY <4>2 DEF a, b
    <3>3. QED
      BY <2>1, <3>2
  <2>3. s = p * (2 * h)
    <3>1. D[(R - r) + 1] = 2 * D[R - r]
      BY <2>1, DoubledIs
    <3>2. s = D[R] /\ h = D[R - r]
      BY DEF Field!Slots, Field!MatchesIn
    <3>3. D[(R - r) + 1] = 2 * h /\ s = p * D[(R - r) + 1]
      BY <2>2, <3>1, <3>2
    <3> HIDE DEF s, h
    <3>4. QED
      BY <3>3
  <2>4. s > 0
    <3>1. D[R] > R
      BY <1>1, DoubledGrows
    <3>2. QED
      BY <1>1, <1>2, <3>1 DEF Field!Slots
  <2> HIDE DEF s, h, g, R, D
  <2>5. p # 0
    BY <1>2, <2>3, <2>4
  <2>6. PICK o \in Nat : p = o + 1
    <3>1. p - 1 \in Nat /\ p = (p - 1) + 1
      BY <2>5
    <3>2. QED
      BY <3>1
  <2>7. s = (2 * o) * h + 2 * h /\ 2 * o \in Nat
    BY <1>2, <2>3, <2>6
  <2>8. QED
    BY <2>7
<1>4. j < h
  OBVIOUS
<1> HIDE DEF s, h, g
<1>5. m = q * h + j /\ q * h \in Nat /\ m \in Nat /\ m + 3 <= s
  BY <1>2, <1>3, <1>4
<1>6. m % h = j
  BY <1>2, <1>4, <1>5, RemainderIs
<1>7. Field!RoundOf(m, n) = r
  <2>1. m + 2 <= Field!Slots(n)
    BY <1>2, <1>5 DEF s
  <2>2. r \in 1..R
    BY <1>1
  <2>3. m >= s - 2 * h /\ m < s - h
    BY <1>2, <1>4
  <2> HIDE DEF m
  <2>4. QED
    BY <1>5, <2>1, <2>2, <2>3, RoundOfIs DEF s, h
<1> HIDE DEF m
<1>8. Field!Place(m, n) = <<(s - 2 * g) + ((m % h) \div 2), (m % h) % 2>>
  BY <1>7 DEF Field!Place, s, g, h
<1>9. Field!Place(m, n) = <<(s - h) + (j \div 2), j % 2>>
  BY <1>2, <1>6, <1>8
<1>10. QED
  BY <1>5, <1>9 DEF m, s, h

\* The winners of all matches but the last have the places of the later rounds.
LEMMA PlacesAreFair ==
  ASSUME NEW n \in Nat, n >= 2
  PROVE  {Field!Place(m, n) : m \in 0..(Field!Matches(n) - 2)}
           = {<<m, i>> : m \in Field!MatchesIn(1, n)..(Field!Matches(n) - 1), i \in 0..1}
<1> DEFINE R == Field!Rounds(n)
           s == Field!Slots(n)
           f == Field!MatchesIn(1, n)
           h(r) == Field!MatchesIn(r, n)
<1>1. R \in Nat \ {0} /\ s \in Nat /\ f \in Nat /\ s = 2 * f /\ Field!Matches(n) = s - 1
  BY RoundsAre, DoubledIs DEF Field!Slots, Field!MatchesIn, Field!Matches
<1>2. \A r \in 1..R : h(r) \in Nat /\ h(r) > 0 /\ h(r) <= f
  <2>1. TAKE r \in 1..R
  <2>2. R - r \in Nat /\ R - 1 \in Nat /\ (r = 1 \/ R - r < R - 1)
    BY <1>1
  <2>3. Field!Doubled[R - r] > R - r /\ (r = 1 \/ Field!Doubled[R - r] < Field!Doubled[R - 1])
    BY <2>2, DoubledGrows
  <2>4. Field!Doubled[R - r] \in Nat /\ Field!Doubled[R - 1] \in Nat
    BY <2>2, DoubledIs
  <2>5. QED
    BY <2>2, <2>3, <2>4 DEF Field!MatchesIn
<1>3. \A r \in 1..(R - 1) : r + 1 \in 1..R /\ h(r) = 2 * h(r + 1)
  <2>1. TAKE r \in 1..(R - 1)
  <2>2. R - (r + 1) \in Nat /\ (R - (r + 1)) + 1 = R - r
    BY <1>1
  <2>3. QED
    BY <1>1, <2>2, DoubledIs DEF Field!MatchesIn
<1>4. h(R) = 1
  BY <1>1, DoubledIs DEF Field!MatchesIn
<1>5. ASSUME NEW r \in 1..(R - 1), NEW j \in Nat, j < h(r)
      PROVE  /\ (s - 2 * h(r)) + j \in Nat /\ (s - 2 * h(r)) + j + 3 <= s
             /\ Field!Place((s - 2 * h(r)) + j, n) = <<(s - h(r)) + (j \div 2), j % 2>>
  BY <1>5, PlaceIs
<1>6. ASSUME NEW m \in Nat, m + 2 <= s
      PROVE  \E r \in 1..R : m >= s - 2 * h(r) /\ m < s - h(r)
  BY <1>6, RoundOfIs
<1> HIDE DEF R, s, f, h
<1>7. ASSUME NEW m \in 0..(s - 3)
      PROVE  \E k \in f..(s - 2), i \in 0..1 : Field!Place(m, n) = <<k, i>>
  <2>1. PICK r \in 1..R : m >= s - 2 * h(r) /\ m < s - h(r)
    BY <1>1, <1>6
  <2>2. r # R
    BY <1>1, <1>4, <2>1
  <2>3. r \in 1..(R - 1)
    BY <1>1, <2>2
  <2>4. h(r) \in Nat /\ h(r + 1) \in Nat /\ h(r + 1) > 0 /\ h(r) <= f /\ h(r) = 2 * h(r + 1)
    BY <1>2, <1>3, <2>3
  <2>5. PICK j \in Nat : m = (s - 2 * h(r)) + j /\ j < h(r)
    <3>1. m - (s - 2 * h(r)) \in Nat
      BY <1>1, <2>1, <2>4
    <3>2. m = (s - 2 * h(r)) + (m - (s - 2 * h(r))) /\ m - (s - 2 * h(r)) < h(r)
      BY <1>1, <2>1, <2>4
    <3>3. QED
      BY <3>1, <3>2
  <2>6. Field!Place(m, n) = <<(s - h(r)) + (j \div 2), j % 2>>
    BY <1>5, <2>3, <2>5
  <2>7. (s - h(r)) + (j \div 2) \in f..(s - 2) /\ j % 2 \in 0..1
    BY <1>1, <2>4, <2>5
  <2>8. QED
    BY <2>6, <2>7
<1>8. ASSUME NEW k \in f..(s - 2), NEW i \in 0..1
      PROVE  \E m \in 0..(s - 3) : Field!Place(m, n) = <<k, i>>
  <2>1. PICK p \in 1..R : k >= s - 2 * h(p) /\ k < s - h(p)
    BY <1>1, <1>6
  <2>2. p # 1
    BY <1>1, <2>1 DEF f, h
  <2>3. PICK r \in 1..(R - 1) : p = r + 1
    <3>1. p - 1 \in 1..(R - 1) /\ p = (p - 1) + 1
      BY <1>1, <2>2
    <3>2. QED
      BY <3>1
  <2>4. h(r) \in Nat /\ h(p) \in Nat /\ h(r) = 2 * h(p)
    BY <1>1, <1>2, <1>3, <2>3
  <2>5. PICK j \in Nat : k = (s - 2 * h(p)) + j /\ j < h(p)
    <3>1. k - (s - 2 * h(p)) \in Nat
      BY <1>1, <2>1, <2>4
    <3>2. k = (s - 2 * h(p)) + (k - (s - 2 * h(p))) /\ k - (s - 2 * h(p)) < h(p)
      BY <1>1, <2>1, <2>4
    <3>3. QED
      BY <3>1, <3>2
  <2>6. 2 * j + i \in Nat /\ 2 * j + i < h(r) /\ (2 * j + i) \div 2 = j /\ (2 * j + i) % 2 = i
    BY <2>4, <2>5
  <2> DEFINE m == (s - 2 * h(r)) + (2 * j + i)
  <2>7. m \in Nat /\ m + 3 <= s /\ Field!Place(m, n) = <<(s - h(r)) + j, i>>
    BY <1>1, <1>5, <2>4, <2>6
  <2>8. (s - h(r)) + j = k
    BY <1>1, <2>4, <2>5
  <2> HIDE DEF m
  <2>9. m \in 0..(s - 3)
    BY <1>1, <2>7
  <2>10. QED
    BY <2>7, <2>8, <2>9
<1>9. Field!Matches(n) - 2 = s - 3 /\ Field!Matches(n) - 1 = s - 2
  BY <1>1
<1>10. QED
  BY <1>7, <1>8, <1>9 DEF f

\* For any number of players the bracket has one place for each of them, and
\* later one for each winner but the last (tournament.py, _generate_bracket and
\* _advance_winner).
THEOREM BracketsAreFair == Spec => []BracketIsFair
<1>1. ASSUME NEW n \in 2..MaxField PROVE n \in Nat /\ n >= 2
  BY GameModesConstants
<1>2. ASSUME NEW n \in 2..MaxField
      PROVE  /\ \A i \in 1..n : \E m \in 0..(Field!MatchesIn(1, n) - 1) :
                  /\ i \in Field!Seated(m, n)
                  /\ \A k \in (0..(Field!MatchesIn(1, n) - 1)) \ {m} : i \notin Field!Seated(k, n)
             /\ \A m \in 0..(Field!MatchesIn(1, n) - 1) : Field!Seated(m, n) # {}
  BY <1>1, SeatsAreFair
<1>3. ASSUME NEW n \in 2..MaxField
      PROVE  {Field!Place(m, n) : m \in 0..(Field!Matches(n) - 2)}
               = {<<m, i>> : m \in Field!MatchesIn(1, n)..(Field!Matches(n) - 1), i \in 0..1}
  BY <1>1, PlacesAreFair
<1>4. Field!BracketIsFair
  BY <1>2, <1>3 DEF Field!BracketIsFair
<1>5. BracketIsFair
  BY <1>4 DEF BracketIsFair
<1>6. QED
  BY <1>5, PTL

-----------------------------------------------------------------------------
(* The tournament's types. *)

MatchRecords == [players : SUBSET Field!Players, bye : BOOLEAN, complete : BOOLEAN,
                 winner : Field!Players \cup {None}]

FieldTyped ==
  /\ Field!BaseTypeOK /\ shielded \in BOOLEAN /\ bracket \in Seq(MatchRecords)
  /\ current \in DOMAIN bracket \cup {None}
  /\ state \in [Field!Players -> {"waiting", "bye", "fighting", "eliminated"}]
  /\ loop \in [at : {"frame", "pick", "match", "update", "sound"}, who : Field!Players \cup {None}]

\* A match that is played has two players, and none is played before the bracket
\* has been drawn.
MatchHasTwo ==
  /\ loop.at \in {"match", "update", "sound"} =>
       current \in DOMAIN bracket /\ Cardinality(bracket[current].players) = 2
  /\ phase = "new" => loop.at = "frame" /\ current = None

FieldGame == game = "tournament" => FieldTyped /\ MatchHasTwo

\* The instance counts as the library does.
LEMMA FieldSameCount == ASSUME NEW S PROVE Field!Cardinality(S) = Cardinality(S)
BY DEF Field!Cardinality, Cardinality

\* What the bracket holds are matches.
LEMMA MatchTyped ==
  ASSUME FieldTyped, NEW i \in DOMAIN bracket
  PROVE  bracket[i] \in MatchRecords /\ bracket[i].players \subseteq Field!Players
<1>1. bracket[i] \in MatchRecords
  BY DEF FieldTyped
<1>2. QED
  BY <1>1 DEF MatchRecords

\* A match after a fall or a draw is still a match, of the same players.
LEMMA MatchKept ==
  ASSUME FieldTyped, NEW i \in DOMAIN bracket, NEW w \in Field!Players
  PROVE  LET b == [bracket EXCEPT ![i] = [bracket[i] EXCEPT !.winner = w, !.complete = TRUE]]
         IN  /\ b \in Seq(MatchRecords) /\ DOMAIN b = DOMAIN bracket
             /\ \A j \in DOMAIN b : b[j].players = bracket[j].players
<1>1. bracket \in Seq(MatchRecords) /\ i \in 1..Len(bracket) /\ bracket[i] \in MatchRecords
  BY DEF FieldTyped
<1> DEFINE y == [bracket[i] EXCEPT !.winner = w, !.complete = TRUE]
           b == [bracket EXCEPT ![i] = y]
<1>2. y \in MatchRecords /\ y.players = bracket[i].players
  BY <1>1 DEF MatchRecords
<1>3. b = [bracket EXCEPT ![i] = y]
  OBVIOUS
<1> HIDE DEF y, b
<1>4. b \in Seq(MatchRecords) /\ DOMAIN b = DOMAIN bracket
  BY <1>1, <1>2, <1>3, ExceptSeq
<1>5. \A j \in DOMAIN b : b[j].players = bracket[j].players
  BY <1>1, <1>2, <1>3, <1>4
<1>6. QED
  BY <1>4, <1>5 DEF b, y

\* The bracket drawn for any order of the players is one of matches.
LEMMA BracketTyped ==
  ASSUME numPlayers \in Nat \ {0, 1}, NEW s \in [Field!Players -> Field!Players]
  PROVE  Field!Bracket(s) \in Seq(MatchRecords)
<1> DEFINE n == numPlayers
<1>1. n \in Nat /\ n >= 2
  OBVIOUS
<1>2. Field!Slots(n) \in Nat /\ Field!Slots(n) >= n /\ Field!Slots(n) < 2 * n
  <2> DEFINE k == Field!Rounds(n)
             D == Field!Doubled
  <2>1. k \in Nat /\ k - 1 \in Nat /\ D[k - 1] < n /\ n <= D[k] /\ D[k] = 2 * D[k - 1]
    BY <1>1, RoundsAre
  <2>2. D[k] \in Nat /\ D[k - 1] \in Nat
    BY <2>1, DoubledIs
  <2>3. Field!Slots(n) = D[k]
    BY DEF Field!Slots
  <2> HIDE DEF k, D
  <2>4. QED
    BY <1>1, <2>1, <2>2, <2>3
<1>3. Field!Matches(n) \in Nat /\ Field!Byes(n) \in Nat /\ Field!Byes(n) < n
  BY <1>1, <1>2 DEF Field!Matches, Field!Byes
<1>4. \A m : Field!Seated(m, n) \subseteq 1..n \/ m < Field!Byes(n)
  BY DEF Field!Seated
<1> DEFINE first(i) == i <= Field!MatchesIn(1, n)
           bye(i) == first(i) /\ i - 1 < Field!Byes(n)
           match(i) ==
             [players |-> IF first(i) THEN {s[j] : j \in Field!Seated(i - 1, n)} ELSE {},
              bye |-> bye(i), complete |-> bye(i), winner |-> IF bye(i) THEN s[i] ELSE None]
<1>5. ASSUME NEW i \in 1..Field!Matches(n) PROVE match(i) \in MatchRecords
  <2>2. Field!Seated(i - 1, n) \subseteq Field!Players
    <3>1. CASE i - 1 < Field!Byes(n)
      <4>1. Field!Seated(i - 1, n) = {(i - 1) + 1} /\ (i - 1) + 1 \in 1..n
        BY <1>1, <1>3, <1>5, <3>1 DEF Field!Seated
      <4>2. QED
        BY <4>1 DEF Field!Players
    <3>2. CASE ~(i - 1 < Field!Byes(n))
      <4>1. Field!Seated(i - 1, n) \subseteq 1..n
        BY <3>2 DEF Field!Seated
      <4>2. QED
        BY <4>1 DEF Field!Players
    <3>3. QED
      BY <3>1, <3>2
  <2>3. {s[j] : j \in Field!Seated(i - 1, n)} \subseteq Field!Players
    BY <2>2
  <2>4. bye(i) => s[i] \in Field!Players
    BY <1>1, <1>3, <1>5 DEF Field!Players
  <2>5. bye(i) \in BOOLEAN
    OBVIOUS
  <2> HIDE DEF first, bye
  <2>6. QED
    BY <2>3, <2>4, <2>5 DEF MatchRecords
<1>6. Field!Bracket(s) = [i \in 1..Field!Matches(n) |-> match(i)]
  BY DEF Field!Bracket
<1>7. Field!Bracket(s) \in [1..Field!Matches(n) -> MatchRecords]
  <2> HIDE DEF match
  <2>1. QED
    BY <1>5, <1>6
<1>8. QED
  BY <1>3, <1>7

\* Every step of a tournament.
LEMMA FieldStep ==
  ASSUME FieldTyped, MatchHasTwo, Field!Next
  PROVE  FieldTyped' /\ MatchHasTwo'
<1> USE DEF Field!field, Field!Players, Field!Phases, Field!At, Field!Idle, Field!Onwards, Field!Playing
<1>0. UNCHANGED numPlayers /\ Field!Step
  BY DEF Field!Next
<1>1. CASE Field!StartGame
  <2>1. PICK s \in [Field!Players -> Field!Players] : bracket' = Field!Bracket(s)
    BY <1>1 DEF Field!StartGame
  <2>2. bracket' \in Seq(MatchRecords)
    BY <2>1, BracketTyped DEF FieldTyped, Field!BaseTypeOK
  <2>3. /\ phase' = "intro" /\ phase = "new" /\ UNCHANGED <<running, current, shielded, loop, hot>>
        /\ state' \in [Field!Players -> {"waiting", "bye", "fighting", "eliminated"}]
    BY <1>1 DEF Field!StartGame
  <2>4. MatchRecords' = MatchRecords
    BY <1>0 DEF MatchRecords
  <2>5. QED
    BY <1>0, <2>2, <2>3, <2>4 DEF FieldTyped, MatchHasTwo, Field!BaseTypeOK
<1>2. CASE Field!PickMatch
  <2>1. PICK i \in Field!NextMatch :
          /\ current' = i
          /\ state' = [p \in Field!Players |->
                         IF p \in bracket[i].players THEN "fighting" ELSE state[p]]
    BY <1>2 DEF Field!PickMatch
  <2>2. i \in DOMAIN bracket /\ Cardinality(bracket[i].players) = 2
    BY <2>1, FieldSameCount DEF Field!NextMatch, Field!Ready
  <2>3. /\ shielded' = TRUE /\ loop' = [at |-> "match", who |-> None]
        /\ UNCHANGED <<phase, running, bracket, hot>> /\ phase = "playing"
    BY <1>2 DEF Field!PickMatch
  <2>4. state' \in [Field!Players -> {"waiting", "bye", "fighting", "eliminated"}]
    BY <2>1 DEF FieldTyped
  <2>5. MatchRecords' = MatchRecords
    BY <1>0 DEF MatchRecords
  <2>6. QED
    BY <1>0, <2>1, <2>2, <2>3, <2>4, <2>5 DEF FieldTyped, MatchHasTwo, Field!BaseTypeOK
<1>3. CASE Field!Fall
  <2>1. current \in DOMAIN bracket /\ Cardinality(bracket[current].players) = 2
    BY <1>3 DEF Field!Fall, MatchHasTwo
  <2>2. bracket[current].players \subseteq Field!Players
    BY <2>1, MatchTyped
  <2>3. \E w \in bracket[current].players : w # loop.who
    <3>1. IsFiniteSet(bracket[current].players)
      <4>1. IsFiniteSet(1..numPlayers)
        BY FS_Interval DEF FieldTyped, Field!BaseTypeOK
      <4>2. QED
        BY <2>2, <4>1, FS_Subset
    <3>2. SUFFICES ASSUME bracket[current].players \subseteq {loop.who} PROVE FALSE
      OBVIOUS
    <3>3. Cardinality({loop.who}) = 1 /\ IsFiniteSet({loop.who})
      BY FS_Singleton
    <3>4. Cardinality(bracket[current].players) <= Cardinality({loop.who})
      BY <3>2, <3>3, FS_Subset
    <3>5. QED
      BY <2>1, <3>3, <3>4
  <2>4. PICK w \in Field!Players :
          \/ bracket' = bracket
          \/ bracket' = [bracket EXCEPT
                            ![current] = [bracket[current] EXCEPT !.winner = w, !.complete = TRUE]]
    <3> DEFINE w == CHOOSE w \in bracket[current].players : w # loop.who
    <3>1. w \in Field!Players
      BY <2>2, <2>3
    <3>2. \/ bracket' = bracket
          \/ bracket' = [bracket EXCEPT ![current].complete = TRUE, ![current].winner = w]
      BY <1>3 DEF Field!Fall
    <3> HIDE DEF w
    <3>3. \/ bracket' = bracket
          \/ bracket' = [bracket EXCEPT
                            ![current] = [bracket[current] EXCEPT !.winner = w, !.complete = TRUE]]
      BY <2>1, <3>2 DEF FieldTyped, MatchRecords
    <3>4. QED
      BY <3>1, <3>3
  <2>5. /\ bracket' \in Seq(MatchRecords) /\ DOMAIN bracket' = DOMAIN bracket
        /\ \A j \in DOMAIN bracket : bracket'[j].players = bracket[j].players
    <3> DEFINE b == [bracket EXCEPT
                       ![current] = [bracket[current] EXCEPT !.winner = w, !.complete = TRUE]]
    <3>1. CASE bracket' = bracket
      BY <3>1 DEF FieldTyped
    <3>2. CASE bracket' = b
      <4>1. /\ b \in Seq(MatchRecords) /\ DOMAIN b = DOMAIN bracket
            /\ \A j \in DOMAIN b : b[j].players = bracket[j].players
        BY <2>1, MatchKept
      <4> HIDE DEF b
      <4>2. QED
        BY <3>2, <4>1
    <3>3. QED
      BY <2>4, <3>1, <3>2
  <2>6. loop' = [at |-> "update", who |-> None]
        /\ UNCHANGED <<phase, running, current, state, shielded, hot>> /\ phase = "playing"
    BY <1>3 DEF Field!Fall
  <2>7. MatchRecords' = MatchRecords
    BY <1>0 DEF MatchRecords
  <2>8. QED
    BY <1>0, <2>1, <2>5, <2>6, <2>7 DEF FieldTyped, MatchHasTwo, Field!BaseTypeOK
<1>4. CASE Field!TimesUp
  <2>1. /\ phase' = "failed" /\ running' = FALSE /\ loop.at = "match"
        /\ UNCHANGED <<current, shielded, loop, hot>>
    BY <1>4 DEF Field!TimesUp
  <2>2. current \in DOMAIN bracket /\ Cardinality(bracket[current].players) = 2
        /\ bracket[current].players \subseteq Field!Players
    BY <2>1, MatchTyped DEF MatchHasTwo
  <2>3. PICK w \in bracket[current].players :
          /\ bracket' = [bracket EXCEPT ![current].winner = w, ![current].complete = TRUE]
          /\ state' = [p \in Field!Players |-> IF p = w THEN "waiting"
                                               ELSE IF p \in bracket[current].players THEN "eliminated"
                                               ELSE state[p]]
    BY <1>4 DEF Field!TimesUp
  <2> DEFINE b == [bracket EXCEPT
                     ![current] = [bracket[current] EXCEPT !.winner = w, !.complete = TRUE]]
  <2>4. bracket' = b
    BY <2>2, <2>3 DEF FieldTyped, MatchRecords
  <2>5. /\ bracket' \in Seq(MatchRecords) /\ DOMAIN bracket' = DOMAIN bracket
        /\ \A j \in DOMAIN bracket : bracket'[j].players = bracket[j].players
    <3>1. w \in Field!Players
      BY <2>2
    <3>2. /\ b \in Seq(MatchRecords) /\ DOMAIN b = DOMAIN bracket
          /\ \A j \in DOMAIN b : b[j].players = bracket[j].players
      BY <2>2, <3>1, MatchKept
    <3> HIDE DEF b
    <3>3. QED
      BY <2>4, <3>2
  <2>6. state' \in [Field!Players -> {"waiting", "bye", "fighting", "eliminated"}]
    BY <2>3 DEF FieldTyped
  <2>7. MatchRecords' = MatchRecords
    BY <1>0 DEF MatchRecords
  <2>8. QED
    BY <1>0, <2>1, <2>2, <2>5, <2>6, <2>7 DEF FieldTyped, MatchHasTwo, Field!BaseTypeOK
<1>5. CASE Field!CountdownOver \/ Field!LoopEnds \/ Field!MatchOver \/ Field!StreamEnds
  <2>1. /\ UNCHANGED <<bracket, state, shielded, hot, running>> /\ phase' \in Field!Phases \ {"new"}
        /\ loop' \in {[at |-> "pick", who |-> None], [at |-> "frame", who |-> None]}
        /\ current' \in {current, None}
    BY <1>5 DEF Field!CountdownOver, Field!LoopEnds, Field!MatchOver, Field!StreamEnds
  <2>2. MatchRecords' = MatchRecords
    BY <1>0 DEF MatchRecords
  <2>3. QED
    BY <1>0, <2>1, <2>2 DEF FieldTyped, MatchHasTwo, Field!BaseTypeOK
<1>6. CASE Field!Frame \/ Field!FrameDone \/ \E p \in Field!Players : Field!Process(p)
  <2>1. /\ UNCHANGED <<phase, running, bracket, current, state, shielded>> /\ phase = "playing"
        /\ hot' \subseteq Field!Players /\ loop.at \in {"match", "update"}
        /\ loop' \in [at : {"match", "update", "sound"}, who : Field!Players \cup {None}]
    <3>1. CASE Field!Frame
      BY <3>1 DEF Field!Frame
    <3>2. CASE Field!FrameDone
      BY <3>2 DEF Field!FrameDone
    <3>3. ASSUME NEW p \in Field!Players, Field!Process(p)
          PROVE  /\ UNCHANGED <<phase, running, bracket, current, state, shielded>>
                 /\ phase = "playing" /\ hot' \subseteq Field!Players /\ loop.at = "update"
                 /\ loop' = [at |-> "sound", who |-> p]
      BY <3>3 DEF Field!Process, FieldTyped, Field!BaseTypeOK
    <3>4. QED
      BY <1>6, <3>1, <3>2, <3>3
  <2>2. MatchRecords' = MatchRecords
    BY <1>0 DEF MatchRecords
  <2>3. QED
    BY <1>0, <2>1, <2>2 DEF FieldTyped, MatchHasTwo, Field!BaseTypeOK
<1>7. CASE \/ Field!WriteFails \/ Field!ShieldDown \/ Field!Celebrate \/ Field!GameEnded
           \/ Field!StreamFails \/ Field!ForceEnd
  <2>1. /\ UNCHANGED <<bracket, current, state, loop, hot>> /\ phase' \in Field!Phases
        /\ running' \in BOOLEAN /\ shielded' \in BOOLEAN /\ (phase' = "new" => phase = "new")
    BY <1>7 DEF Field!WriteFails, Field!RunFails, Field!ShieldDown, Field!Celebrate, Field!GameEnded,
       Field!StreamFails, Field!ForceEnd, FieldTyped, Field!BaseTypeOK
  <2>2. MatchRecords' = MatchRecords
    BY <1>0 DEF MatchRecords
  <2>3. QED
    BY <1>0, <2>1, <2>2 DEF FieldTyped, MatchHasTwo, Field!BaseTypeOK
<1>8. QED
  BY <1>0, <1>1, <1>2, <1>3, <1>4, <1>5, <1>6, <1>7 DEF Field!Step, Field!Loop

\* In a tournament every variable has its type, and whoever falls in a match leaves an
\* opponent to win it (tournament.py, _kill_player_impl).
THEOREM TournamentInvariance == Spec => []FieldGame
<1>1. CreateGame => FieldGame
  <2>1. SUFFICES ASSUME Field!Init PROVE FieldTyped /\ MatchHasTwo
    BY DEF CreateGame, FieldGame
  <2>2. <<>> \in Seq(MatchRecords)
    BY EmptySeq
  <2>3. QED
    BY <2>1, <2>2 DEF Field!Init, Field!BaseInit, FieldTyped, MatchHasTwo, Field!BaseTypeOK,
       Field!Players, Field!Phases, Field!Idle, Field!At
<1>2. FieldGame /\ [Next]_modesVars => FieldGame'
  <2>1. SUFFICES ASSUME FieldGame, [Next]_modesVars, game' = "tournament"
        PROVE  FieldTyped' /\ MatchHasTwo'
    BY DEF FieldGame
  <2>2. game = "tournament" /\ (Field!Next \/ UNCHANGED modesVars)
    BY <2>1 DEF Next, Outside, modesVars
  <2>3. FieldTyped /\ MatchHasTwo
    BY <2>1, <2>2 DEF FieldGame
  <2>4. CASE UNCHANGED modesVars
    <3>1. UNCHANGED <<numPlayers, phase, running, loop, hot, bracket, current, state, shielded>>
      BY <2>4 DEF modesVars, fieldVars
    <3>2. MatchRecords' = MatchRecords
      BY <3>1 DEF MatchRecords, Field!Players
    <3>3. QED
      BY <2>3, <3>1, <3>2 DEF FieldTyped, MatchHasTwo, Field!BaseTypeOK, Field!Players
  <2>5. QED
    BY <2>2, <2>3, <2>4, FieldStep
<1>3. QED
  BY <1>1, <1>2, PTL DEF Spec

-----------------------------------------------------------------------------
(* All modes. *)

\* Whichever mode was created: every variable of it has its type (create_game,
\* and all that the mode's tasks do afterwards).
THEOREM ModesAreTyped == Spec => []TypeOK
<1>1. SideGame /\ ZombieGame /\ ClubGame /\ FieldGame => TypeOK
  <2>1. game = "sides" /\ SideGame => Side!TypeOK
    BY DEF SideGame, SideInv
  <2>2. game = "zombie" /\ ZombieGame => Zomb!TypeOK
    <3>1. SUFFICES ASSUME ZombieTyped, TasksBringBack, NothingAnnounced PROVE Zomb!TypeOK
      BY DEF ZombieGame, ZombieInv, ZombieCourse, ZombieOutcome
    <3>2. respawns \in [Zomb!Players -> 0..1]
      BY <3>1 DEF ZombieTyped, TasksBringBack
    <3>3. QED
      BY <3>1, <3>2 DEF ZombieTyped, NothingAnnounced, Zomb!TypeOK
  <2>3. game = "fight_club" /\ ClubGame => Club!TypeOK
    BY DEF ClubGame, ClubInv
  <2>4. game = "tournament" /\ FieldGame => Field!TypeOK
    BY DEF FieldGame, FieldTyped, MatchRecords, Field!TypeOK
  <2>5. QED
    BY <2>1, <2>2, <2>3, <2>4 DEF TypeOK
<1>2. QED
  BY <1>1, SideInvariance, ZombieInvariance, ClubInvariance, TournamentInvariance, PTL

\* In every mode that announces a winner before it celebrates one, both are the
\* same, whatever runs in between (_check_win_condition, _end_game_impl).
THEOREM OneVerdict == Spec => []VerdictsAgree
<1>1. SideGame /\ ZombieGame /\ ClubGame => VerdictsAgree
  <2>1. game = "sides" /\ SideGame => Side!VerdictsAgree
    BY DEF SideGame, SideInv, SideOutcome
  <2>2. game = "zombie" /\ ZombieGame => Zomb!VerdictsAgree
    BY DEF ZombieGame, ZombieInv, ZombieOutcome
  <2>3. game = "fight_club" /\ ClubGame => Club!VerdictsAgree
    BY DEF ClubGame, ClubInv, ClubOutcome
  <2>4. QED
    BY <2>1, <2>2, <2>3 DEF VerdictsAgree
<1>2. QED
  BY <1>1, SideInvariance, ZombieInvariance, ClubInvariance, PTL
=============================================================================
