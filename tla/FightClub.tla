----------------------------- MODULE FightClub ------------------------------
(***************************************************************************)
(* Fight Club: the players queue up to fight the defender, one round after *)
(* the other.                                                              *)
(*                                                                         *)
(* A round is settled by one of two tasks: the game loop, when a fighter   *)
(* moves too fast, or the round's timer, which then starts the next round  *)
(* itself.  Both suspend many times on the way, and each may find that the *)
(* other has been faster.                                                  *)
(*                                                                         *)
(* Nobody is ever out: a player that disconnects stays in the queue.       *)
(* MaxRounds bounds the runs; the code has no such limit.                  *)
(***************************************************************************)
EXTENDS BaseGame, Sequences

CONSTANTS MinRounds, MaxRounds

VARIABLES
  queue, defender, fighter, \* queue, current_defender, current_fighter
  fighting,  \* the players whose state is DEFENDER or FIGHTER
  shielded,  \* is the round's invincibility on?
  score, round,
  faceOff, gameOver,        \* face_off_mode, game_over
  timer,     \* what the round's timer is at
  gone,      \* the disconnects the update still has
  verdict, final,           \* the leader when the game was decided; who is celebrated
  settled,   \* history: the rounds that ended
  broken     \* history: has a write failed in a task that was starting a round?

vars == <<numPlayers, phase, running, queue, defender, fighter, fighting, shielded, score, round,
          faceOff, gameOver, timer, loop, gone, hot, verdict, final, settled, broken>>
roster == <<queue, defender, fighter, fighting, shielded, round>>
match  == <<roster, score, faceOff, gameOver, settled>>
update == <<gone, hot>>
ending == <<verdict, final>>

Init ==
  /\ BaseInit
  /\ queue = <<>> /\ defender = None /\ fighter = None /\ fighting = {}
  /\ shielded = FALSE /\ score = [p \in Players |-> 0] /\ round = 0
  /\ faceOff = FALSE /\ gameOver = FALSE /\ timer = "none"
  /\ gone = {} /\ verdict = None /\ final = None
  /\ settled = 0 /\ broken = FALSE

StartGame ==
  /\ phase = "new"
  /\ phase' = "intro" /\ queue' = [i \in Players |-> i]
  /\ UNCHANGED <<running, defender, fighter, fighting, shielded, score, round, faceOff,
                 gameOver, timer, loop, update, ending, settled, broken>>

-----------------------------------------------------------------------------
(* Rounds. *)

\* _start_round up to its first suspension, with the queue q and the defender
\* d.  With two players or more the queue has a challenger.
StartRound(q, d) ==
  LET champion == IF d = None THEN Head(q) ELSE d
      rest     == IF d = None THEN Tail(q) ELSE q
  IN  /\ round' = round + 1 /\ shielded' = TRUE
      /\ defender' = champion /\ fighter' = Head(rest) /\ queue' = Tail(rest)
      /\ fighting' = fighting \cup {champion, Head(rest)}

\* The players by score, and by the order they were given among equals.
Leader(S)  == CHOOSE p \in S : \A q \in S : score[p] > score[q] \/ (score[p] = score[q] /\ p <= q)
First      == Leader(Players)
Second     == Leader(Players \ {First})
Tied       == score[First] = score[Second]

\* _should_end_game, and the face-off it starts when the leaders are tied: it
\* names them as defender and fighter, wherever they are in the queue.
ShouldEnd == round >= MinRounds /\ ~Tied
ToFaceOff == round >= MinRounds /\ Tied /\ ~faceOff

Decide ==
  /\ gameOver' = TRUE /\ verdict' = First

\* A round starts, in the loop for the first one.
CountdownOver ==
  /\ phase = "intro"
  /\ IF running
       THEN phase' = "playing" /\ loop' = At("starting") /\ StartRound(queue, defender)
       ELSE phase' = "ended" /\ UNCHANGED <<roster, loop>>
  /\ UNCHANGED <<running, score, faceOff, gameOver, timer, update, ending, settled, broken>>

\* The invincibility runs out.
ShieldDown ==
  /\ shielded /\ shielded' = FALSE
  /\ UNCHANGED <<phase, running, queue, defender, fighter, fighting, score, round,
                 faceOff, gameOver, timer, loop, update, ending, settled, broken>>

-----------------------------------------------------------------------------
(* The game loop. *)

\* _check_win_condition, after every controller.
Judge(g, h) ==
  IF gameOver' THEN phase' = "over" /\ loop' = Idle /\ gone' = {} /\ hot' = {}
  ELSE phase' = phase /\ loop' = Onwards /\ gone' = g /\ hot' = h

\* One player may disconnect, and those who fight may move too fast.
Frame ==
  /\ Playing("frame") /\ running /\ round <= MaxRounds
  /\ \E g \in SUBSET Players : \E h \in SUBSET (fighting \ g) :
       Cardinality(g) <= 1 /\ gone' = g /\ hot' = h
  /\ loop' = Onwards
  /\ UNCHANGED <<phase, running, match, timer, ending, broken>>

\* Only who fights and is not invincible can fall; a disconnect always kills.
Process(p) ==
  /\ Playing("update")
  /\ p \in gone \/ (gone = {} /\ p \in hot)
  /\ UNCHANGED <<running, match, timer, ending, broken>>
  /\ IF p \in gone \/ (p \in fighting /\ ~shielded)
       THEN /\ loop' = [at |-> "sound", who |-> p]
            /\ gone' = gone \ {p} /\ hot' = hot \ {p} /\ UNCHANGED phase
       ELSE Judge(gone, hot \ {p})

FrameDone ==
  /\ Playing("update") /\ gone = {} /\ hot = {}
  /\ IF gameOver THEN phase' = "over" ELSE UNCHANGED phase
  /\ loop' = Idle
  /\ UNCHANGED <<running, match, timer, update, ending, broken>>

\* Does the kill still count when the explosion has been played?  The timer may
\* have ended the round meanwhile, and started another.
StillFights(p) == p \in fighting /\ ~shielded

TooLate ==
  /\ Playing("sound") /\ ~StillFights(loop.who)
  /\ loop' = Goes("effect")
  /\ UNCHANGED <<phase, running, match, timer, update, ending, broken>>

\* Mutant: the fallen challenger is not taken out of the fight.
FallsAndStays(p) ==
  LET winner == IF p = defender THEN fighter ELSE defender
      loser  == IF p = defender THEN defender ELSE fighter
  IN  /\ score' = [score EXCEPT ![winner] = @ + 1]
      /\ fighting' = (fighting \cup {winner}) \ {loser}
      /\ defender' = winner /\ fighter' = fighter /\ queue' = Append(queue, loser)

\* What a fall does to the roster: the other one stays as the defender.
Falls(p) ==
  LET winner == IF p = defender THEN fighter ELSE defender
      loser  == IF p = defender THEN defender ELSE fighter
  IN  /\ score' = [score EXCEPT ![winner] = @ + 1]
      /\ fighting' = (fighting \cup {winner}) \ {loser}
      /\ defender' = winner /\ fighter' = None /\ queue' = Append(queue, loser)

\* Mutant: the timer of the decided round is left running.
KilledTimerRuns ==
  /\ Playing("sound") /\ StillFights(loop.who) /\ fighter # None
  /\ Falls(loop.who)
  /\ settled' = settled + 1
  /\ loop' = Goes("beep")
  /\ UNCHANGED <<phase, running, shielded, round, faceOff, gameOver, timer, update, ending,
                 broken>>

\* The round is decided and its timer cancelled, also one that is starting the
\* next round; then a sound suspends.
Killed ==
  /\ Playing("sound") /\ StillFights(loop.who) /\ fighter # None
  /\ Falls(loop.who)
  /\ settled' = settled + 1 /\ timer' = "none"
  /\ loop' = Goes("beep")
  /\ UNCHANGED <<phase, running, shielded, round, faceOff, gameOver, update, ending, broken>>

\* The game is decided, or a pause follows, after a face-off was announced.
RoundDecided ==
  /\ Playing("beep")
  /\ IF ShouldEnd
       THEN Decide /\ loop' = Goes("effect")
                   /\ UNCHANGED <<faceOff, defender, fighter>>
       ELSE /\ loop' = Goes("pause")
            /\ IF ToFaceOff THEN faceOff' = TRUE /\ defender' = First /\ fighter' = Second
               ELSE UNCHANGED <<faceOff, defender, fighter>>
            /\ UNCHANGED <<gameOver, verdict>>
  /\ UNCHANGED <<phase, running, update, queue, fighting, shielded, round, score, timer, final, settled, broken>>

NextRound ==
  /\ Playing("pause")
  /\ StartRound(queue, defender)
  /\ loop' = Goes("starting")
  /\ UNCHANGED <<phase, running, score, faceOff, gameOver, timer, update, ending, settled, broken>>

\* Mutant: a round that the loop starts has no timer.
RoundStartedUntimed ==
  /\ Playing("starting")
  /\ loop' = IF loop.who = None THEN Idle ELSE Goes("effect")
  /\ UNCHANGED <<phase, running, match, timer, update, ending, broken>>

\* The colours are set and the beep played: the timer starts, but in a face-off.
RoundStarted ==
  /\ Playing("starting")
  /\ timer' = IF faceOff THEN "none" ELSE "running"
  /\ loop' = IF loop.who = None THEN Idle ELSE Goes("effect")
  /\ UNCHANGED <<phase, running, match, update, ending, broken>>

\* The death effect of the base class follows, whatever the fall came to.
EffectSent ==
  /\ Playing("effect")
  /\ UNCHANGED <<running, match, timer, ending, broken>>
  /\ Judge(gone, hot)

\* Where the loop reads or writes the stream, and may find it broken; the first
\* round starts before the loop that could open it again.
Streaming == phase = "playing" /\ loop.at \in {"frame", "starting", "effect"}
FirstRound == loop = At("starting")

\* The stream is opened again.  What is left of a kill is not taken up: a round
\* that was starting stays untimed.
Reconnect ==
  /\ Streaming /\ running /\ ~FirstRound
  /\ loop' = Idle /\ gone' = {} /\ hot' = {}
  /\ broken' = (broken \/ loop.at = "starting")
  /\ UNCHANGED <<phase, running, match, timer, ending>>

\* A winner that falls once more, before the loop has seen that the game is
\* over, has nobody to lose against: the error is taken for one of the stream.
NobodyToFight ==
  /\ Playing("sound") /\ StillFights(loop.who) /\ fighter = None
  /\ phase' = IF running THEN "playing" ELSE "over"
  /\ loop' = Idle /\ gone' = {} /\ hot' = {}
  /\ UNCHANGED <<running, match, timer, ending, broken>>

GiveUp ==
  /\ Streaming /\ (running \/ FirstRound)
  /\ phase' = "failed" /\ running' = FALSE /\ timer' = "none"
  /\ loop' = Idle /\ gone' = {} /\ hot' = {}
  /\ UNCHANGED <<match, ending, broken>>

StreamEnds ==
  /\ Playing("frame")
  /\ phase' = "over"
  /\ UNCHANGED <<running, match, timer, loop, update, ending, broken>>

LoopBreaks ==
  /\ Streaming /\ ~running /\ ~FirstRound
  /\ phase' = "over" /\ loop' = Idle /\ gone' = {} /\ hot' = {}
  /\ UNCHANGED <<running, match, timer, ending, broken>>

\* _end_game_impl cancels the timer at once, and celebrates the leader.
Celebrate ==
  /\ phase = "over"
  /\ phase' = "ending" /\ final' = First /\ timer' = "none"
  /\ UNCHANGED <<running, match, loop, update, verdict, broken>>

\* The colours of the intro, or the winner's effect, cannot be written.
WriteFails ==
  /\ RunFails({"intro", "ending"})
  /\ UNCHANGED <<match, timer, loop, update, ending, broken>>

GameEnded ==
  /\ phase = "ending"
  /\ phase' = "ended" /\ running' = FALSE
  /\ UNCHANGED <<match, timer, loop, update, ending, broken>>

ForceEnd ==
  /\ phase \in {"intro", "playing", "over", "ending"} /\ running
  /\ running' = FALSE
  /\ UNCHANGED <<phase, match, timer, loop, update, ending, broken>>

-----------------------------------------------------------------------------
(* The round's timer. *)

\* Both go to the end of the queue; then the event is published and the
\* colours are set.
TimesUp ==
  /\ timer = "running" /\ running
  /\ queue' = queue \o <<defender, fighter>>
  /\ fighting' = fighting \ {defender, fighter}
  /\ defender' = None /\ fighter' = None
  /\ settled' = settled + 1 /\ timer' = "publish"
  /\ UNCHANGED <<phase, running, shielded, round, score, faceOff, gameOver, loop, update,
                 ending, broken>>

TimerStops ==
  /\ timer = "running" /\ ~running
  /\ timer' = "none"
  /\ UNCHANGED <<phase, running, match, loop, update, ending, broken>>

\* The game is decided, or the next round starts in this task, which names a
\* defender for a face-off, but not its challenger.
AfterTimeout ==
  /\ timer = "publish" /\ round <= MaxRounds
  /\ IF ShouldEnd
       THEN Decide /\ timer' = "none" /\ UNCHANGED <<roster, faceOff>>
       ELSE /\ faceOff' = (faceOff \/ ToFaceOff)
            /\ StartRound(queue, IF ToFaceOff THEN First ELSE None)
            /\ timer' = "starting" /\ UNCHANGED <<gameOver, verdict>>
  /\ UNCHANGED <<phase, running, score, loop, update, final, settled, broken>>

TimerStartsRound ==
  /\ timer = "starting"
  /\ timer' = IF faceOff THEN "none" ELSE "running"
  /\ UNCHANGED <<phase, running, match, loop, update, ending, broken>>

\* Setting the colours fails, and the task dies of it without a word.
TimerDies ==
  /\ timer \in {"publish", "starting"}
  /\ timer' = "none" /\ broken' = TRUE
  /\ UNCHANGED <<phase, running, match, loop, update, ending>>

-----------------------------------------------------------------------------
Loop ==
  \/ \E p \in Players : Process(p)
  \/ FrameDone \/ TooLate \/ Killed \/ RoundDecided \/ NextRound \/ RoundStarted \/ EffectSent
  \/ NobodyToFight \/ CountdownOver \/ LoopBreaks \/ Celebrate \/ GameEnded

Step ==
  \/ StartGame \/ WriteFails \/ ShieldDown \/ Frame \/ Loop \/ Reconnect \/ GiveUp \/ StreamEnds
  \/ ForceEnd \/ TimesUp \/ TimerStops \/ AfterTimeout \/ TimerStartsRound \/ TimerDies

Next == Step /\ UNCHANGED numPlayers

Fairness == WF_vars(Loop /\ UNCHANGED numPlayers)

Spec     == Init /\ [][Next]_vars
FairSpec == Spec /\ Fairness

-----------------------------------------------------------------------------
(* Properties. *)

\* Every variable has its type.
TypeOK ==
  /\ BaseTypeOK /\ shielded \in BOOLEAN /\ faceOff \in BOOLEAN
  /\ gameOver \in BOOLEAN /\ broken \in BOOLEAN
  /\ queue \in Seq(Players) /\ defender \in Players \cup {None}
  /\ fighter \in Players \cup {None} /\ fighting \subseteq Players
  /\ score \in [Players -> Nat] /\ round \in Nat /\ settled \in Nat
  /\ timer \in {"none", "running", "publish", "starting"}
  /\ loop \in [at : {"frame", "update", "sound", "beep", "pause", "starting", "effect"},
               who : Players \cup {None}]
  /\ gone \subseteq Players
  /\ verdict \in Players \cup {None} /\ final \in Players \cup {None}

\* Until there is a face-off every player has one place: it waits in the queue
\* or it is in the fight, never both, never twice and never in neither,
\* whichever task settles the round and whichever starts the next.
EveryPlayerHasOnePlace ==
  phase \in {"intro", "playing"} /\ ~faceOff =>
    \A p \in Players :
      Cardinality({i \in DOMAIN queue : queue[i] = p})
        + (IF p = defender THEN 1 ELSE 0) + (IF p = fighter THEN 1 ELSE 0) = 1

\* A round is settled once: by the loop or by its timer, not by both, although
\* both may be about to.
RoundsSettleOnce == settled \in {round, IF round = 0 THEN 0 ELSE round - 1}

\* While the game goes on, somebody will settle the round or start the next:
\* its timer, or the loop.  Only a write that fails in between, and a face-off,
\* which has no time limit, leave it to the players.
SomebodyWatchesTheRound ==
  phase = "playing" /\ running /\ ~faceOff /\ ~broken /\ ~gameOver =>
    timer # "none" \/ loop.at \in {"beep", "pause", "starting"}

\* The game is decided for the only leader, and nothing that was under way
\* then, in either task, changes the scores before it is celebrated.
VerdictsAgree ==
  verdict # None => (\A p \in Players \ {verdict} : score[p] < score[verdict])
                    /\ (final # None => verdict = final)
=============================================================================
