---------------------------- MODULE FFAGame_proofs ----------------------------
(***************************************************************************)
(* What holds of FFAGame for every set of players and every bound: type    *)
(* correctness, the safety properties of a sound stream, the finality of   *)
(* the verdict, the refinement of EliminationGame, and where the news of a *)
(* disconnect can be.                                                      *)
(***************************************************************************)
EXTENDS FFAGame, SequenceTheorems, TLAPS

USE DEF Frame, NoFrame, Final, InLoop, Phases, Watched

-----------------------------------------------------------------------------
(* The inductive invariant. *)

\* Until the loop has been left nobody has won.
Undecided == phase \in Watched => verdict = NoVerdict

\* On a stream that never failed, run() has it open from the countdown to the
\* end and never gives up, and as long as there is no verdict at least two
\* players are alive: whoever leaves only one has the verdict given at once.
SoundGame ==
  faults = 0 =>
    /\ phase \notin {"created", "setup", "ended"} => stream = "up"
    /\ phase \notin {"failing", "failed", "backoff"}
    /\ verdict = NoVerdict => ~AtMostOne(alive)
    /\ crowned # NoVerdict => phase = "ended"

IInv == TypeOK /\ Undecided /\ VerdictIsFinal /\ SoundGame /\ LastPlayerStands /\ EndingIsExplained

-----------------------------------------------------------------------------
\* The verdict on at most one survivor is that player or a tie.
LEMMA OutcomeType ==
  ASSUME NEW S \in SUBSET Players
  PROVE  /\ Outcome(S) \in Players \cup {Tie}
         /\ S # {} => Outcome(S) \in S
         /\ Outcome(S) # NoVerdict
BY VerdictAssumption DEF Outcome

\* Players are at least two, so a game starts undecided.
LEMMA StartsUndecided == ~AtMostOne(Players) /\ Players # {}
BY PlayersAssumption DEF AtMostOne

\* A game as created satisfies the invariant.
LEMMA InitIInv == Init => IInv
<1> SUFFICES ASSUME Init PROVE IInv
  OBVIOUS
<1>1. TypeOK
  <2>1. NoFrame \in Frame
    OBVIOUS
  <2>2. <<>> \in Seq(Frame)
    OBVIOUS
  <2>3. 0 \in 0..MaxReconnects /\ 0 \in 0..MaxFaults /\ 0 \in 0..MaxChurn
    BY BoundsAssumption
  <2>4. QED
    BY <2>1, <2>2, <2>3 DEF Init, TypeOK
<1>2. QED
  BY <1>1, StartsUndecided, VerdictAssumption
  DEF Init, IInv, Undecided, VerdictIsFinal, SoundGame, LastPlayerStands, EndingIsExplained

-----------------------------------------------------------------------------
(* Every step keeps the types. *)

\* What reading a frame from the wire yields.
LEMMA ReadWire ==
  ASSUME wire \in Seq(Frame), wire # <<>>
  PROVE  Head(wire) \in Frame /\ Tail(wire) \in Seq(Frame)
BY HeadTailProperties

\* The disconnects carried by frames are players.
LEMMA CarriedType ==
  ASSUME wire \in Seq(Frame)
  PROVE  Carried(wire) \in SUBSET Players
<1>1. \A i \in 1..Len(wire) : wire[i] \in Frame
  BY ElementOfSeq
<1>2. \A i \in 1..Len(wire) : wire[i].disc \subseteq Players
  BY <1>1
<1>3. QED
  BY <1>2 DEF Carried

\* Every step of the game, the stream and the manager keeps the types.
LEMMA TypeStep == TypeOK /\ [Next]_vars => TypeOK'
<1> SUFFICES ASSUME TypeOK, [Next]_vars PROVE TypeOK'
  OBVIOUS
<1> USE DEF TypeOK, game, cm, hist
<1>1. CASE Run
  BY <1>1 DEF Run
<1>2. CASE StartGameplayStream
  <2>1. <<>> \in Seq(Frame)
    OBVIOUS
  <2>2. QED
    BY <1>2, <2>1, CarriedType DEF StartGameplayStream, CreateStream, Drop
<1>3. CASE CreateStreamFails
  BY <1>3, BoundsAssumption DEF CreateStreamFails
<1>4. CASE Countdown
  BY <1>4 DEF Countdown
<1>5. CASE WarmupFrame
  BY <1>5, ReadWire DEF WarmupFrame, Drop
<1>6. CASE EnterGameLoop
  BY <1>6, BoundsAssumption DEF EnterGameLoop
<1>7. CASE ReceiveFrame
  BY <1>7, ReadWire, BoundsAssumption DEF ReceiveFrame, Drop
<1>8. CASE ReadEnd
  BY <1>8 DEF ReadEnd
<1>9. CASE ReadError
  BY <1>9, BoundsAssumption DEF ReadError, StreamError, Drop
<1>10. ASSUME NEW p \in Players, HandleDisconnect(p) PROVE TypeOK'
  BY <1>10, OutcomeType, BoundsAssumption
  DEF HandleDisconnect, Kill, CheckWin, StreamError, Drop
<1>11. ASSUME NEW p \in Players, HandleController(p) PROVE TypeOK'
  BY <1>11, OutcomeType, BoundsAssumption
  DEF HandleController, Kill, CheckWin, StreamError, Drop
<1>12. CASE SendAliveFilterUpdate
  BY <1>12, BoundsAssumption DEF SendAliveFilterUpdate, StreamError, Drop
<1>13. CASE Reconnect
  <2>1. <<>> \in Seq(Frame)
    OBVIOUS
  <2>2. QED
    BY <1>13, <2>1, CarriedType DEF Reconnect, CreateStream, Drop
<1>14. CASE WinnerPause
  BY <1>14 DEF WinnerPause
<1>15. CASE EndGame
  <2>1. <<>> \in Seq(Frame)
    OBVIOUS
  <2>2. alive # {} => Outcome(alive) \in Players
    BY OutcomeType
  <2>3. QED
    BY <1>15, <2>1, <2>2 DEF EndGame
<1>16. CASE GameError
  <2>1. <<>> \in Seq(Frame)
    OBVIOUS
  <2>2. QED
    BY <1>16, <2>1 DEF GameError
<1>17. CASE ForceEnd
  <2>1. /\ running' \in BOOLEAN
        /\ UNCHANGED <<phase, alive, verdict, crowned, cur, lastAlive, attempt, warmed, stream,
                       wire, filter, tracked, discQ, faults, churn, orphan, lost, left>>
    BY <1>17 DEF ForceEnd
  <2>2. QED
    BY <2>1
<1>18. ASSUME NEW p \in Players, Disconnect(p) PROVE TypeOK'
  BY <1>18, BoundsAssumption DEF Disconnect
<1>19. ASSUME NEW p \in Players, Connect(p) PROVE TypeOK'
  BY <1>19, BoundsAssumption DEF Connect
<1>20. CASE EmitFrame
  <2>1. [disc |-> discQ, ctrl |-> IF filter = {} THEN tracked ELSE tracked \cap filter] \in Frame
    OBVIOUS
  <2>2. wire' \in Seq(Frame)
    BY <1>20, <2>1 DEF EmitFrame
  <2>3. QED
    BY <1>20, <2>2 DEF EmitFrame
<1>21. CASE StreamFails
  BY <1>21, BoundsAssumption DEF StreamFails
<1>22. CASE OrphanFrame
  BY <1>22 DEF OrphanFrame, Drop
<1>23. CASE UNCHANGED vars
  BY <1>23 DEF vars
<1>24. QED
  BY <1>1, <1>2, <1>3, <1>4, <1>5, <1>6, <1>7, <1>8, <1>9, <1>10, <1>11, <1>12,
     <1>13, <1>14, <1>15, <1>16, <1>17, <1>18, <1>19, <1>20, <1>21, <1>22, <1>23
  DEF Next, GameStep, Environment

-----------------------------------------------------------------------------
(* Every step keeps the invariant. *)

\* Of at least two players one survives another's death.
LEMMA SurvivorLeft ==
  ASSUME NEW S, ~AtMostOne(S), NEW p
  PROVE  S \ {p} # {}
BY DEF AtMostOne

\* A step that leaves the players and the verdict alone keeps the verdict final.
LEMMA VerdictKept ==
  ASSUME VerdictIsFinal, alive' = alive, verdict' = verdict
  PROVE  VerdictIsFinal'
BY DEF VerdictIsFinal

\* Every step keeps the inductive invariant.
LEMMA IInvStep == IInv /\ [Next]_vars => IInv'
<1> SUFFICES ASSUME IInv, [Next]_vars PROVE IInv'
  OBVIOUS
<1>0. TypeOK'
  BY TypeStep DEF IInv
<1> USE <1>0, VerdictKept, VerdictAssumption
    DEF IInv, Undecided, SoundGame, LastPlayerStands, EndingIsExplained, game, cm, hist
<1>1. CASE Run
  BY <1>1 DEF Run, TypeOK
<1>2. CASE StartGameplayStream
  BY <1>2 DEF StartGameplayStream, CreateStream, TypeOK
<1>3. CASE CreateStreamFails
  BY <1>3 DEF CreateStreamFails, TypeOK
<1>4. CASE Countdown
  BY <1>4 DEF Countdown, TypeOK
<1>5. CASE WarmupFrame
  BY <1>5 DEF WarmupFrame, TypeOK
<1>6. CASE EnterGameLoop
  BY <1>6 DEF EnterGameLoop, TypeOK
<1>7. CASE ReceiveFrame
  BY <1>7 DEF ReceiveFrame, TypeOK
<1>8. CASE ReadEnd
  BY <1>8 DEF ReadEnd, TypeOK
<1>9. CASE ReadError
  BY <1>9 DEF ReadError, StreamError, TypeOK
<1>10. ASSUME NEW p \in Players, HandleDisconnect(p) PROVE IInv'
  <2>1. VerdictIsFinal'
    BY <1>10 DEF HandleDisconnect, Kill, CheckWin, StreamError, VerdictIsFinal, TypeOK
  <2>2. LastPlayerStands'
    BY <1>10, SurvivorLeft DEF HandleDisconnect, Kill, CheckWin, StreamError
  <2>3. verdict' # NoVerdict => phase' = "pause"
    BY <1>10 DEF HandleDisconnect, Kill, CheckWin, StreamError
  <2>4. QED
    BY <1>10, <2>1, <2>2, <2>3, OutcomeType
    DEF HandleDisconnect, Kill, CheckWin, StreamError, TypeOK
<1>11. ASSUME NEW p \in Players, HandleController(p) PROVE IInv'
  <2>1. VerdictIsFinal'
    BY <1>11 DEF HandleController, Kill, CheckWin, StreamError, VerdictIsFinal, TypeOK
  <2>2. LastPlayerStands'
    BY <1>11, SurvivorLeft DEF HandleController, Kill, CheckWin, StreamError
  <2>3. verdict' # NoVerdict => phase' = "pause"
    BY <1>11 DEF HandleController, Kill, CheckWin, StreamError
  <2>4. QED
    BY <1>11, <2>1, <2>2, <2>3, OutcomeType
    DEF HandleController, Kill, CheckWin, StreamError, TypeOK
<1>12. CASE SendAliveFilterUpdate
  BY <1>12 DEF SendAliveFilterUpdate, StreamError, TypeOK
<1>13. CASE Reconnect
  BY <1>13 DEF Reconnect, CreateStream, TypeOK
<1>14. CASE WinnerPause
  BY <1>14 DEF WinnerPause, TypeOK
<1>15. CASE EndGame
  <2>1. VerdictIsFinal'
    BY <1>15 DEF EndGame
  <2>2. Undecided' /\ LastPlayerStands' /\ SoundGame'
    BY <1>15 DEF EndGame, TypeOK
  <2>3. verdict \in Players => alive # {} /\ AtMostOne(alive) /\ Outcome(alive) = verdict
    BY DEF VerdictIsFinal, Outcome
  <2>4. faults = 0 /\ AtMostOne(alive) => verdict = Outcome(alive)
    BY DEF VerdictIsFinal
  <2>5. EndingIsExplained'
    BY <1>15, <2>3, <2>4 DEF EndGame, TypeOK
  <2>6. QED
    BY <2>1, <2>2, <2>5
<1>16. CASE GameError
  BY <1>16 DEF GameError, TypeOK
<1>17. CASE ForceEnd
  BY <1>17 DEF ForceEnd, TypeOK
<1>18. ASSUME NEW p \in Players, Disconnect(p) PROVE IInv'
  BY <1>18 DEF Disconnect
<1>19. ASSUME NEW p \in Players, Connect(p) PROVE IInv'
  BY <1>19 DEF Connect
<1>20. CASE EmitFrame
  BY <1>20 DEF EmitFrame, TypeOK
<1>21. CASE StreamFails
  BY <1>21 DEF StreamFails, TypeOK
<1>22. CASE OrphanFrame
  BY <1>22 DEF OrphanFrame, TypeOK
<1>23. CASE UNCHANGED vars
  BY <1>23 DEF vars
<1>24. QED
  BY <1>1, <1>2, <1>3, <1>4, <1>5, <1>6, <1>7, <1>8, <1>9, <1>10, <1>11,
     <1>12, <1>13, <1>14, <1>15, <1>16, <1>17, <1>18, <1>19, <1>20, <1>21, <1>22, <1>23
  DEF Next, GameStep, Environment

-----------------------------------------------------------------------------
(* The theorems. *)

\* The invariant holds in every reachable state.
THEOREM Invariance == Spec => []IInv
BY InitIInv, IInvStep, PTL DEF Spec

\* Every variable keeps its type: the loop's retry counter never passes
\* max_reconnect_attempts, and a verdict, once given, names a player or a tie.
THEOREM TypeCorrect == Spec => []TypeOK
<1>1. IInv => TypeOK
  BY DEF IInv
<1>2. QED
  BY <1>1, Invariance, PTL

\* While the gameplay stream never fails, _process_gameplay_update never lets
\* the last player die, however many players die or leave in one update.
THEOREM LastPlayerSurvives == Spec => []LastPlayerStands
<1>1. IInv => LastPlayerStands
  BY DEF IInv
<1>2. QED
  BY <1>1, Invariance, PTL

\* Whatever the stream does, the winner published by _check_win_condition is
\* the one player left, or the tie is real, for the rest of the game.
THEOREM VerdictStands == Spec => []VerdictIsFinal
<1>1. IInv => VerdictIsFinal
  BY DEF IInv
<1>2. QED
  BY <1>1, Invariance, PTL

\* On a sound stream run() leaves the loop with a verdict or by force_end(),
\* and _end_game_impl crowns the announced winner.
THEOREM EndingExplained == Spec => []EndingIsExplained
<1>1. IInv => EndingIsExplained
  BY DEF IInv
<1>2. QED
  BY <1>1, Invariance, PTL

-----------------------------------------------------------------------------
(* FFAGame implements EliminationGame. *)

USE DEF Elimination!AtMostOne, Elimination!Outcome, AtMostOne, Outcome

\* A game as created is a game of elimination with everybody in it.
LEMMA RefinesInit == Init => Elimination!AInit
BY DEF Init, Elimination!AInit

\* A death is Eliminate, with the verdict if the win check follows; the win
\* check on someone who did not die is Declare; publishing the ending event
\* is Finish; everything else stutters.
LEMMA RefinesStep == IInv /\ [Next]_vars => [Elimination!ANext]_(Elimination!absVars)
<1> SUFFICES ASSUME IInv, [Next]_vars
             PROVE  Elimination!ANext \/ UNCHANGED <<alive, verdict, phase \in Final>>
  BY DEF Elimination!absVars
<1>1. CASE Run
  BY <1>1 DEF Run, game, cm, hist
<1>2. CASE StartGameplayStream
  BY <1>2 DEF StartGameplayStream, CreateStream, game, cm, hist
<1>3. CASE CreateStreamFails
  BY <1>3 DEF CreateStreamFails, game, cm, hist
<1>4. CASE Countdown
  BY <1>4 DEF Countdown, game, cm, hist
<1>5. CASE WarmupFrame
  BY <1>5 DEF WarmupFrame, game, cm, hist
<1>6. CASE EnterGameLoop
  BY <1>6 DEF EnterGameLoop, game, cm, hist
<1>7. CASE ReceiveFrame
  BY <1>7 DEF ReceiveFrame, game, cm, hist
<1>8. CASE ReadEnd
  BY <1>8 DEF ReadEnd, game, cm, hist
<1>9. CASE ReadError
  BY <1>9 DEF ReadError, StreamError, game, cm, hist
<1>10. ASSUME NEW p \in Players, HandleDisconnect(p)
      PROVE  Elimination!ANext \/ UNCHANGED <<alive, verdict, phase \in Final>>
  <2>1. verdict = NoVerdict
    BY <1>10 DEF HandleDisconnect, IInv, Undecided
  <2>2. UNCHANGED (phase \in Final) /\ phase \notin Final
    BY <1>10 DEF HandleDisconnect, Kill, CheckWin, StreamError
  <2>3. CASE p \in alive /\ alive' = alive \ {p}
    <3>1. verdict' = NoVerdict \/ (AtMostOne(alive') /\ verdict' = Outcome(alive'))
      BY <1>10, <2>1, <2>3 DEF HandleDisconnect, Kill, CheckWin, StreamError
    <3>2. Elimination!Eliminate(p)
      BY <2>1, <2>2, <2>3, <3>1 DEF Elimination!Eliminate
    <3>3. QED
      BY <3>2 DEF Elimination!ANext
  <2>4. CASE UNCHANGED alive
    <3>1. UNCHANGED verdict \/ (AtMostOne(alive) /\ verdict' = Outcome(alive))
      BY <1>10, <2>4 DEF HandleDisconnect, Kill, CheckWin, StreamError
    <3>2. QED
      BY <2>1, <2>2, <2>4, <3>1 DEF Elimination!ANext, Elimination!Declare
  <2>5. QED
    BY <1>10, <2>3, <2>4 DEF HandleDisconnect, Kill
<1>11. ASSUME NEW p \in Players, HandleController(p)
      PROVE  Elimination!ANext \/ UNCHANGED <<alive, verdict, phase \in Final>>
  <2>1. verdict = NoVerdict
    BY <1>11 DEF HandleController, IInv, Undecided
  <2>2. UNCHANGED (phase \in Final) /\ phase \notin Final
    BY <1>11 DEF HandleController, Kill, CheckWin, StreamError
  <2>3. CASE p \in alive /\ alive' = alive \ {p}
    <3>1. verdict' = NoVerdict \/ (AtMostOne(alive') /\ verdict' = Outcome(alive'))
      BY <1>11, <2>1, <2>3 DEF HandleController, Kill, CheckWin, StreamError
    <3>2. Elimination!Eliminate(p)
      BY <2>1, <2>2, <2>3, <3>1 DEF Elimination!Eliminate
    <3>3. QED
      BY <3>2 DEF Elimination!ANext
  <2>4. CASE UNCHANGED alive
    <3>1. UNCHANGED verdict \/ (AtMostOne(alive) /\ verdict' = Outcome(alive))
      BY <1>11, <2>4 DEF HandleController, Kill, CheckWin, StreamError
    <3>2. QED
      BY <2>1, <2>2, <2>4, <3>1 DEF Elimination!ANext, Elimination!Declare
  <2>5. QED
    BY <1>11, <2>3, <2>4 DEF HandleController, Kill
<1>12. CASE SendAliveFilterUpdate
  BY <1>12 DEF SendAliveFilterUpdate, StreamError, game, cm, hist
<1>13. CASE Reconnect
  BY <1>13 DEF Reconnect, CreateStream, game, cm, hist
<1>14. CASE WinnerPause
  BY <1>14 DEF WinnerPause, game, cm, hist
<1>15. CASE EndGame
  BY <1>15 DEF EndGame, Elimination!ANext, Elimination!Finish
<1>16. CASE GameError
  BY <1>16 DEF GameError, Elimination!ANext, Elimination!Finish
<1>17. CASE ForceEnd
  BY <1>17 DEF ForceEnd, game, cm, hist
<1>18. ASSUME NEW p \in Players, Disconnect(p)
      PROVE  UNCHANGED <<alive, verdict, phase \in Final>>
  BY <1>18 DEF Disconnect, game
<1>19. ASSUME NEW p \in Players, Connect(p)
      PROVE  UNCHANGED <<alive, verdict, phase \in Final>>
  BY <1>19 DEF Connect, game
<1>20. CASE EmitFrame
  BY <1>20 DEF EmitFrame, game, cm, hist
<1>21. CASE StreamFails
  BY <1>21 DEF StreamFails, game, cm, hist
<1>22. CASE OrphanFrame
  BY <1>22 DEF OrphanFrame, game, cm, hist
<1>23. CASE UNCHANGED vars
  BY <1>23 DEF vars
<1>24. QED
  BY <1>1, <1>2, <1>3, <1>4, <1>5, <1>6, <1>7, <1>8, <1>9, <1>10, <1>11,
     <1>12, <1>13, <1>14, <1>15, <1>16, <1>17, <1>18, <1>19, <1>20, <1>21, <1>22, <1>23
  DEF Next, GameStep, Environment

\* Free-For-All is a last-player-standing game, whatever happens to its
\* stream: players leave one at a time and for good, one verdict at most is
\* given, and nobody dies after it or after the ending event.
THEOREM FFAIsElimination == Spec => RefinesElimination
BY RefinesInit, RefinesStep, Invariance, PTL DEF Spec, RefinesElimination, Elimination!ASpec

-----------------------------------------------------------------------------
(* Where the news of a disconnect can be.  It is never lost silently, and  *)
(* news from before the game kills nobody.                                 *)

(* The disconnects carried by a sequence of frames. *)

\* An empty wire carries none.
LEMMA CarriedNone == Carried(<<>>) = {}
BY DEF Carried

\* What a wire carries is what its first frame carries and what follows it.
LEMMA CarriedSplit ==
  ASSUME NEW w \in Seq(Frame), w # <<>>
  PROVE  Carried(w) = Head(w).disc \cup Carried(Tail(w))
<1>1. /\ Len(w) \in Nat /\ Len(w) >= 1 /\ Head(w) = w[1]
      /\ Len(Tail(w)) = Len(w) - 1
      /\ \A i \in 1..Len(Tail(w)) : Tail(w)[i] = w[i + 1]
  BY HeadTailProperties, EmptySeq, LenProperties
<1>2. \A i \in 1..Len(w) : i = 1 \/ (i - 1 \in 1..Len(Tail(w)) /\ w[i] = Tail(w)[i - 1])
  BY <1>1
<1>3. \A i \in 1..Len(Tail(w)) : i + 1 \in 1..Len(w) /\ w[i + 1] = Tail(w)[i]
  BY <1>1
<1>4. Carried(w) \subseteq Head(w).disc \cup Carried(Tail(w))
  <2>1. ASSUME NEW i \in 1..Len(w)
        PROVE  w[i].disc \subseteq Head(w).disc \cup Carried(Tail(w))
    <3>1. CASE i = 1
      BY <1>1, <3>1
    <3>2. CASE i # 1
      <4>1. i - 1 \in 1..Len(Tail(w)) /\ w[i] = Tail(w)[i - 1]
        BY <1>2, <3>2
      <4>2. QED
        BY <4>1, Zenon DEF Carried
    <3>3. QED
      BY <3>1, <3>2
  <2>2. QED
    BY <2>1, Zenon DEF Carried
<1>5. Head(w).disc \subseteq Carried(w)
  BY <1>1 DEF Carried
<1>6. Carried(Tail(w)) \subseteq Carried(w)
  BY <1>3 DEF Carried
<1>7. QED
  BY <1>4, <1>5, <1>6

\* A frame sent adds the disconnects it carries.
LEMMA CarriedAppend ==
  ASSUME NEW w \in Seq(Frame), NEW f \in Frame
  PROVE  Carried(Append(w, f)) = Carried(w) \cup f.disc
<1> DEFINE v == Append(w, f)
<1>1. /\ Len(w) \in Nat /\ Len(v) = Len(w) + 1
      /\ \A i \in 1..Len(w) : v[i] = w[i]
      /\ v[Len(w) + 1] = f
  BY AppendProperties, LenProperties
<1> HIDE DEF v
<1>2. \A i \in 1..Len(v) : i \in 1..Len(w) \/ i = Len(v)
  BY <1>1
<1>3. \A i \in 1..Len(w) : i \in 1..Len(v)
  BY <1>1
<1>4. Len(v) \in 1..Len(v) /\ v[Len(v)] = f
  BY <1>1
<1>5. Carried(v) \subseteq Carried(w) \cup f.disc
  BY <1>1, <1>2, <1>4 DEF Carried
<1>6. Carried(w) \cup f.disc \subseteq Carried(v)
  BY <1>1, <1>3, <1>4 DEF Carried
<1>7. QED
  BY <1>5, <1>6 DEF v

-----------------------------------------------------------------------------
(* Disconnects are accounted for. *)

USE DEF Frame, NoFrame, Final, InLoop, Phases, Watched

\* Between updates there is no update left to process.
Idle == phase # "frame" => cur = NoFrame

NewsInv == TypeOK /\ Idle /\ DisconnectsAreAccounted

\* Everyone is connected when the game is created.
LEMMA InitNews == Init => NewsInv
BY InitIInv DEF Init, IInv, NewsInv, Idle, DisconnectsAreAccounted

\* No step makes a disconnect disappear without recording it.
LEMMA NewsStep == NewsInv /\ [Next]_vars => NewsInv'
<1> SUFFICES ASSUME NewsInv, [Next]_vars PROVE NewsInv'
  OBVIOUS
<1>0. TypeOK'
  BY TypeStep DEF NewsInv
<1>w. wire \in Seq(Frame)
  BY DEF NewsInv, TypeOK
<1> USE <1>0 DEF NewsInv, Idle, DisconnectsAreAccounted, Drop, game, cm, hist
<1>1. CASE Run
  BY <1>1 DEF Run
<1>2. CASE StartGameplayStream
  BY <1>2, CarriedNone DEF StartGameplayStream, CreateStream
<1>3. CASE CreateStreamFails
  BY <1>3 DEF CreateStreamFails
<1>4. CASE Countdown
  BY <1>4 DEF Countdown
<1>5. CASE WarmupFrame
  <2>1. Carried(wire) = Head(wire).disc \cup Carried(wire')
    BY <1>5, <1>w, CarriedSplit DEF WarmupFrame
  <2>2. QED
    BY <1>5, <2>1 DEF WarmupFrame
<1>6. CASE EnterGameLoop
  BY <1>6 DEF EnterGameLoop
<1>7. CASE ReceiveFrame
  <2>1. Carried(wire) = Head(wire).disc \cup Carried(wire')
    BY <1>7, <1>w, CarriedSplit DEF ReceiveFrame
  <2>2. QED
    BY <1>7, <2>1 DEF ReceiveFrame
<1>8. CASE ReadEnd
  BY <1>8 DEF ReadEnd
<1>9. CASE ReadError
  BY <1>9 DEF ReadError, StreamError
<1>10. ASSUME NEW p \in Players, HandleDisconnect(p) PROVE NewsInv'
  BY <1>10 DEF HandleDisconnect, Kill, CheckWin, StreamError, TypeOK
<1>11. ASSUME NEW p \in Players, HandleController(p) PROVE NewsInv'
  BY <1>11 DEF HandleController, Kill, CheckWin, StreamError, TypeOK
<1>12. CASE SendAliveFilterUpdate
  BY <1>12 DEF SendAliveFilterUpdate, StreamError
<1>13. CASE Reconnect
  BY <1>13, CarriedNone DEF Reconnect, CreateStream
<1>14. CASE WinnerPause
  BY <1>14 DEF WinnerPause
<1>15. CASE EndGame
  BY <1>15 DEF EndGame
<1>16. CASE GameError
  BY <1>16 DEF GameError
<1>17. CASE ForceEnd
  BY <1>17 DEF ForceEnd
<1>18. ASSUME NEW p \in Players, Disconnect(p) PROVE NewsInv'
  BY <1>18 DEF Disconnect
<1>19. ASSUME NEW p \in Players, Connect(p) PROVE NewsInv'
  BY <1>19 DEF Connect
<1>20. CASE EmitFrame
  <2> DEFINE f == [disc |-> discQ, ctrl |-> IF filter = {} THEN tracked ELSE tracked \cap filter]
  <2>1. f \in Frame /\ f.disc = discQ
    BY DEF TypeOK
  <2>2. wire' = Append(wire, f)
    BY <1>20 DEF EmitFrame
  <2> HIDE DEF f
  <2>3. Carried(wire') = Carried(wire) \cup discQ
    BY <1>w, <2>1, <2>2, CarriedAppend
  <2>4. QED
    BY <1>20, <2>3 DEF EmitFrame
<1>21. CASE StreamFails
  BY <1>21 DEF StreamFails
<1>22. CASE OrphanFrame
  BY <1>22 DEF OrphanFrame
<1>23. CASE UNCHANGED vars
  BY <1>23 DEF vars
<1>24. QED
  BY <1>1, <1>2, <1>3, <1>4, <1>5, <1>6, <1>7, <1>8, <1>9, <1>10, <1>11,
     <1>12, <1>13, <1>14, <1>15, <1>16, <1>17, <1>18, <1>19, <1>20, <1>21, <1>22, <1>23
  DEF Next, GameStep, Environment

\* Until the ending event, a player alive without a controller is in the
\* manager's queue, on the wire, in the update being processed, or among the
\* disconnects that were dropped: drain_disconnects loses nobody by itself.
THEOREM NewsIsAccounted == Spec => []DisconnectsAreAccounted
<1>1. NewsInv => DisconnectsAreAccounted
  BY DEF NewsInv
<1>2. QED
  BY <1>1, InitNews, NewsStep, PTL DEF Spec

-----------------------------------------------------------------------------
(* News from before the game. *)

\* What is queued or on its way once the warm-up has read a frame is about
\* players who left during the game; before that, only the first frame on the
\* wire may carry older news.
NewsIsFresh ==
  faults = 0 =>
    /\ phase \in {"created", "setup"} => wire = <<>> /\ stream = "none"
    /\ phase \in {"created", "setup", "countdown"} => ~warmed
    /\ phase \in {"loop", "frame"} => warmed
    /\ warmed => discQ \cup Carried(wire) \cup cur.disc \subseteq left
    /\ ~warmed /\ wire # <<>> => discQ \cup Carried(Tail(wire)) \subseteq left

FreshInv == IInv /\ Idle /\ NewsIsFresh

\* A game as created has no stream and nothing on its way.
LEMMA InitFresh == Init => FreshInv
BY InitIInv DEF Init, FreshInv, Idle, NewsIsFresh

\* Every step keeps old news ahead of new, until the warm-up has read it.
LEMMA FreshStep == FreshInv /\ NewsInv /\ [Next]_vars => FreshInv'
<1> SUFFICES ASSUME FreshInv, NewsInv, [Next]_vars PROVE FreshInv'
  OBVIOUS
<1>0. IInv' /\ Idle'
  BY IInvStep, NewsStep DEF FreshInv, NewsInv
<1>w. wire \in Seq(Frame)
  BY DEF NewsInv, TypeOK
<1>s. SoundGame /\ TypeOK
  BY DEF FreshInv, IInv
<1> SUFFICES NewsIsFresh'
  BY <1>0 DEF FreshInv
<1> USE <1>s DEF FreshInv, Idle, NewsIsFresh, SoundGame, game, cm, hist
<1>1. CASE Run
  BY <1>1 DEF Run
<1>2. CASE StartGameplayStream
  BY <1>2, CarriedNone DEF StartGameplayStream, CreateStream
<1>3. CASE CreateStreamFails
  BY <1>3 DEF CreateStreamFails, TypeOK
<1>4. CASE Countdown
  BY <1>4 DEF Countdown
<1>5. CASE WarmupFrame
  <2>1. Carried(wire) = Head(wire).disc \cup Carried(wire')
    BY <1>5, <1>w, CarriedSplit DEF WarmupFrame
  <2>2. QED
    BY <1>5, <2>1 DEF WarmupFrame
<1>6. CASE EnterGameLoop
  BY <1>6 DEF EnterGameLoop
<1>7. CASE ReceiveFrame
  <2>1. Carried(wire) = Head(wire).disc \cup Carried(wire')
    BY <1>7, <1>w, CarriedSplit DEF ReceiveFrame
  <2>2. QED
    BY <1>7, <2>1 DEF ReceiveFrame
<1>8. CASE ReadEnd
  BY <1>8 DEF ReadEnd
<1>9. CASE ReadError
  BY <1>9 DEF ReadError, StreamError
<1>10. ASSUME NEW p \in Players, HandleDisconnect(p) PROVE NewsIsFresh'
  BY <1>10 DEF HandleDisconnect, Kill, CheckWin, StreamError, TypeOK
<1>11. ASSUME NEW p \in Players, HandleController(p) PROVE NewsIsFresh'
  BY <1>11 DEF HandleController, Kill, CheckWin, StreamError, TypeOK
<1>12. CASE SendAliveFilterUpdate
  BY <1>12 DEF SendAliveFilterUpdate, StreamError
<1>13. CASE Reconnect
  BY <1>13 DEF Reconnect, CreateStream
<1>14. CASE WinnerPause
  BY <1>14 DEF WinnerPause
<1>15. CASE EndGame
  BY <1>15, CarriedNone DEF EndGame
<1>16. CASE GameError
  BY <1>16 DEF GameError
<1>17. CASE ForceEnd
  BY <1>17 DEF ForceEnd
<1>18. ASSUME NEW p \in Players, Disconnect(p) PROVE NewsIsFresh'
  BY <1>18 DEF Disconnect
<1>19. ASSUME NEW p \in Players, Connect(p) PROVE NewsIsFresh'
  BY <1>19 DEF Connect
<1>20. CASE EmitFrame
  <2> DEFINE f == [disc |-> discQ, ctrl |-> IF filter = {} THEN tracked ELSE tracked \cap filter]
  <2>1. f \in Frame /\ f.disc = discQ
    BY DEF TypeOK
  <2>2. wire' = Append(wire, f) /\ discQ' = {} /\ UNCHANGED <<phase, stream, warmed, cur, left, faults>>
    BY <1>20 DEF EmitFrame
  <2>3. stream = "up"
    BY <1>20 DEF EmitFrame
  <2> HIDE DEF f
  <2>4. Carried(wire') = Carried(wire) \cup discQ
    BY <1>w, <2>1, <2>2, CarriedAppend
  <2>5. CASE wire = <<>>
    <3>1. Tail(wire') = <<>>
      BY <1>w, <2>2, <2>5, HeadTailAppend
    <3>2. QED
      BY <2>2, <2>3, <2>4, <2>5, <3>1, CarriedNone
  <2>6. CASE wire # <<>>
    <3>1. Tail(wire) \in Seq(Frame) /\ Tail(wire') = Append(Tail(wire), f)
      BY <1>w, <2>1, <2>2, <2>6, HeadTailProperties, HeadTailAppend
    <3>2. Carried(Tail(wire')) = Carried(Tail(wire)) \cup discQ
      BY <2>1, <3>1, CarriedAppend
    <3>3. QED
      BY <2>2, <2>3, <2>4, <2>6, <3>2
  <2>7. QED
    BY <2>5, <2>6
<1>21. CASE StreamFails
  BY <1>21 DEF StreamFails, TypeOK
<1>22. CASE OrphanFrame
  BY <1>22 DEF OrphanFrame
<1>23. CASE UNCHANGED vars
  BY <1>23 DEF vars
<1>24. QED
  BY <1>1, <1>2, <1>3, <1>4, <1>5, <1>6, <1>7, <1>8, <1>9, <1>10, <1>11,
     <1>12, <1>13, <1>14, <1>15, <1>16, <1>17, <1>18, <1>19, <1>20, <1>21, <1>22, <1>23
  DEF Next, GameStep, Environment

\* A death by disconnect is of someone whose disconnect is in the update.
LEMMA FreshDeaths ==
  FreshInv /\ [Next]_vars =>
    (faults = 0 => \A p \in alive \ alive' : p \in cur.disc => p \in left)
<1> SUFFICES ASSUME FreshInv, [Next]_vars, faults = 0,
                    NEW p \in alive \ alive', p \in cur.disc
             PROVE  p \in left
  OBVIOUS
<1>1. phase = "frame"
  BY DEF FreshInv, Idle
<1>2. QED
  BY <1>1 DEF FreshInv, NewsIsFresh

\* A disconnect the discovery loop queued before run(), which nobody drains in
\* the lobby, kills no player who is connected when the game begins.
THEOREM StaleNewsIsHarmless == Spec => StaleDisconnectsNeverKill
<1>1. FreshInv /\ [Next]_vars =>
        [faults = 0 => \A p \in alive \ alive' : p \in cur.disc => p \in left]_vars
  BY FreshDeaths
<1>2. QED
  BY <1>1, InitFresh, FreshStep, InitNews, NewsStep, PTL DEF Spec, StaleDisconnectsNeverKill

================================================================================
