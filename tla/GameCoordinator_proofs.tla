------------------------ MODULE GameCoordinator_proofs ------------------------
(***************************************************************************)
(* What holds of GameCoordinator for any number of games and of calls of   *)
(* ForceEndGame: type correctness, that the coordinator never stays busy,  *)
(* or keeps a game or a channel, after its last thread, and that a game    *)
(* which meets no other is sound and its starter hears of its own end.     *)
(***************************************************************************)
EXTENDS GameCoordinator, TLAPS

USE DEF Games, None, Busy, Calls, InRun, PCs, Goto

\* Threads that will still set ENDED, reset current_game, or close the channel
\* that is held: the witnesses of the invariant.
Undone    == {"spawned", "connected", "created", "installed", "raised"} \cup InRun
Forgets   == {"installed", "raised", "finally"} \cup InRun
Closes(g) == \/ pc[g] \in {"connected", "created", "installed", "raised", "refused",
                           "closing1", "finally", "close"} \cup InRun
             \/ pc[g] = "closing2" /\ closing[g] # None

\* Whatever has to be put right, some thread has yet to do it.
BusyHasThread   == game_state \in Busy => \E g \in Games : pc[g] \in Undone
CurrentHasThread == current_game # None => \E g \in Games : pc[g] \in Forgets
ClientHasThread == client # None => \E g \in Games : Closes(g)

\* A game not accepted yet has no thread.
ThreadsInOrder == \A g \in Games : g > games => pc[g] = "none"

IInv == TypeOK /\ ThreadsInOrder /\ BusyHasThread /\ CurrentHasThread /\ ClientHasThread

\* An idle coordinator satisfies the invariant.
LEMMA InitIInv == Init => IInv
BY CoordinatorBounds
DEF Init, IInv, TypeOK, ThreadsInOrder, BusyHasThread, CurrentHasThread, ClientHasThread

-----------------------------------------------------------------------------
\* Every step of the RPC side and of the threads keeps the types.
LEMMA TypeStep == IInv /\ [Next]_vars => TypeOK'
<1> SUFFICES ASSUME IInv, [Next]_vars PROVE TypeOK'
  OBVIOUS
<1>0. TypeOK
  BY DEF IInv
<1>g. game_state \in Busy => games \in Games
  BY <1>0 DEF IInv, BusyHasThread, ThreadsInOrder, Undone, TypeOK
<1> USE <1>0, CoordinatorBounds DEF TypeOK, PublishEnding
<1>1. CASE Start
  <2>1. games + 1 \in Games /\ games' \in 0..MaxGames
    BY <1>1 DEF Start
  <2>2. pc' \in [Games -> PCs]
    BY <1>1, <2>1 DEF Start
  <2>3. met' \in SUBSET Games
    BY <1>1, <2>1 DEF Start
  <2>4. QED
    BY <1>1, <2>1, <2>2, <2>3 DEF Start
<1>2. CASE Subscribe
  <2>1. starter' \in [Games -> {"none", "listening", "released"}]
    BY <1>2 DEF Subscribe
  <2>2. QED
    BY <1>2, <2>1 DEF Subscribe
<1>3. CASE ForceEnd
  <2>1. force' \in [Calls -> {None} \cup Games] /\ forces' \in 0..MaxForces
    BY <1>3, <1>g DEF ForceEnd
  <2>2. QED
    BY <1>3, <2>1 DEF ForceEnd
<1>4. ASSUME NEW c \in Calls, ForceEnded(c) PROVE TypeOK'
  <2>1. force[c] \in Games /\ force' \in [Calls -> {None} \cup Games]
    BY <1>4 DEF ForceEnded, Joining
  <2>2. starter' \in [Games -> {"none", "listening", "released"}]
    BY <1>4 DEF ForceEnded
  <2>3. forced' \in SUBSET Games
    BY <1>4, <2>1 DEF ForceEnded
  <2>4. QED
    BY <1>4, <2>2, <2>3 DEF ForceEnded
<1>5. ASSUME NEW g \in Games, Progress(g) \/ GameEnds(g) \/ RunFails(g) PROVE TypeOK'
  <2>1. CASE Connect(g)
    BY <2>1 DEF Connect
  <2>2. CASE CreateGame(g)
    BY <2>2 DEF CreateGame
  <2>3. CASE Refuse(g)
    BY <2>3 DEF Refuse
  <2>4. CASE Install(g)
    BY <2>4 DEF Install
  <2>5. CASE RunBegins(g)
    BY <2>5 DEF RunBegins
  <2>6. CASE GameStarted(g)
    BY <2>6 DEF GameStarted
  <2>7. CASE ErrorAgain(g)
    BY <2>7 DEF ErrorAgain
  <2>8. CASE Cleanup(g)
    BY <2>8 DEF Cleanup
  <2>9. CASE CloseBegins(g)
    BY <2>9 DEF CloseBegins
  <2>10. CASE CloseEnds(g)
    BY <2>10 DEF CloseEnds
  <2>11. CASE GameEnds(g)
    BY <2>11 DEF GameEnds
  <2>12. CASE RunFails(g)
    BY <2>12 DEF RunFails
  <2>13. QED
    BY <1>5, <2>1, <2>2, <2>3, <2>4, <2>5, <2>6, <2>7, <2>8, <2>9, <2>10, <2>11, <2>12
    DEF Progress
<1>6. CASE UNCHANGED vars
  BY <1>6 DEF vars
<1>7. QED
  BY <1>1, <1>2, <1>3, <1>4, <1>5, <1>6 DEF Next

-----------------------------------------------------------------------------
\* Every step leaves a thread for whatever still has to be put right.
LEMMA IInvStep == IInv /\ [Next]_vars => IInv'
<1> SUFFICES ASSUME IInv, [Next]_vars PROVE IInv'
  OBVIOUS
<1>0. TypeOK'
  BY TypeStep DEF IInv
<1> USE <1>0 DEF IInv, ThreadsInOrder, BusyHasThread, CurrentHasThread, ClientHasThread,
                 Closes, Undone, Forgets, PublishEnding
<1>1. CASE Start
  <2>1. /\ games + 1 \in Games /\ pc' = [pc EXCEPT ![games + 1] = "spawned"]
        /\ UNCHANGED <<current_game, client, closing>>
    BY <1>1, CoordinatorBounds DEF Start, TypeOK
  <2>2. pc[games + 1] = "none"
    BY <2>1 DEF TypeOK
  <2>3. \A g \in Games : pc[g] # "none" => pc'[g] = pc[g]
    BY <2>1, <2>2 DEF TypeOK
  <2>4. ThreadsInOrder'
    BY <1>1, <2>1 DEF Start, TypeOK
  <2>5. BusyHasThread'
    BY <2>1 DEF TypeOK
  <2>6. CurrentHasThread' /\ ClientHasThread'
    BY <2>1, <2>3 DEF TypeOK
  <2>7. QED
    BY <2>4, <2>5, <2>6
<1>2. CASE Subscribe
  BY <1>2 DEF Subscribe
<1>3. CASE ForceEnd
  BY <1>3 DEF ForceEnd
<1>4. ASSUME NEW c \in Calls, ForceEnded(c) PROVE IInv'
  BY <1>4 DEF ForceEnded
<1>5. ASSUME NEW g \in Games, Progress(g) \/ GameEnds(g) \/ RunFails(g) PROVE IInv'
  <2>1. CASE Connect(g)
    BY <2>1 DEF Connect, TypeOK
  <2>2. CASE CreateGame(g)
    BY <2>2 DEF CreateGame, TypeOK
  <2>3. CASE Refuse(g)
    BY <2>3 DEF Refuse, TypeOK
  <2>4. CASE Install(g)
    BY <2>4 DEF Install, TypeOK
  <2>5. CASE RunBegins(g)
    BY <2>5 DEF RunBegins, TypeOK
  <2>6. CASE GameStarted(g)
    BY <2>6 DEF GameStarted, TypeOK
  <2>7. CASE ErrorAgain(g)
    BY <2>7 DEF ErrorAgain, TypeOK
  <2>8. CASE Cleanup(g)
    BY <2>8 DEF Cleanup, TypeOK
  <2>9. CASE CloseBegins(g)
    BY <2>9 DEF CloseBegins, TypeOK
  <2>10. CASE CloseEnds(g)
    BY <2>10 DEF CloseEnds, TypeOK
  <2>11. CASE GameEnds(g)
    BY <2>11 DEF GameEnds, TypeOK
  <2>12. CASE RunFails(g)
    BY <2>12 DEF RunFails, TypeOK
  <2>13. QED
    BY <1>5, <2>1, <2>2, <2>3, <2>4, <2>5, <2>6, <2>7, <2>8, <2>9, <2>10, <2>11, <2>12
    DEF Progress
<1>6. CASE UNCHANGED vars
  BY <1>6 DEF vars
<1>7. QED
  BY <1>1, <1>2, <1>3, <1>4, <1>5, <1>6 DEF Next

-----------------------------------------------------------------------------
\* Every variable keeps its type, for any number of games and force ends.
THEOREM TypeCorrect == Spec => []TypeOK
<1>1. IInv => TypeOK
  BY DEF IInv
<1>2. QED
  BY <1>1, InitIInv, IInvStep, PTL DEF Spec

\* With its last thread done and no ForceEndGame waiting, the coordinator
\* accepts the next game, shows none, and has forgotten its channel, however
\* its threads overlapped.
THEOREM NoPhantomGameEver == Spec => []NoPhantomGame
<1>1. IInv => NoPhantomGame
  BY DEF IInv, NoPhantomGame, BusyHasThread, CurrentHasThread, ClientHasThread, Closes,
         Undone, Forgets, Alive, TypeOK
<1>2. QED
  BY <1>1, InitIInv, IInvStep, PTL DEF Spec

-----------------------------------------------------------------------------
(* A game that meets no other.  Games and calls that overlap are marked in *)
(* met when the later of two starts, so an unmarked game is alone with its *)
(* own thread: what the shared variables hold is its own doing, or that of *)
(* a ForceEndGame which waits for this very thread.                        *)

Connected == {"connected", "created", "installed", "raised", "refused"} \cup InRun
Over      == {"raised", "refused", "closing1", "finally", "close", "closing2", "done"}

\* No other thread, and no ForceEndGame for another one, while it is alive.
Alone(g) ==
  Alive(g) =>
    /\ g = games /\ \A h \in Games : Alive(h) => h = g
    /\ \A c \in Joining : force[c] = g

\* The channel is its own, open until it is closed and closed for good.
OwnChannel(g) ==
  /\ pc[g] \in Connected => client = g /\ g \in open
  /\ pc[g] \in {"created", "installed"} \cup InRun => uses[g] = g
  /\ pc[g] \in {"finally", "close"} /\ g \in open => client = g
  /\ pc[g] \in {"closing1", "closing2", "done"} => g \notin open

OwnState(g) ==
  /\ pc[g] \in {"installed"} \cup InRun => current_game = g
  /\ pc[g] = "play" /\ g \notin forced => game_state = "RUNNING"

OwnEnd(g) == starter[g] = "released" => g \in forced \/ pc[g] \in Over

\* Nobody waits for a game that is not accepted yet.
StartersInOrder ==
  /\ subscribing # None => pc[subscribing] # "none"
  /\ \A g \in Games : pc[g] = "none" => starter[g] = "none"

Solo(g) == Alone(g) /\ OwnChannel(g) /\ OwnState(g) /\ OwnEnd(g)

SoloInv == IInv /\ StartersInOrder /\ \A g \in Games \ met : Solo(g)

\* With nothing accepted every game is sound.
LEMMA InitSolo == Init => SoloInv
BY InitIInv DEF Init, SoloInv, StartersInOrder, Solo, Alone, OwnChannel, OwnState, OwnEnd,
                Alive, Joining, Connected, Over

\* Nobody waits for a game before it is accepted, whatever happens.
LEMMA StartersStep == IInv /\ StartersInOrder /\ [Next]_vars => StartersInOrder'
<1> SUFFICES ASSUME IInv, StartersInOrder, [Next]_vars PROVE StartersInOrder'
  OBVIOUS
<1> USE DEF IInv, TypeOK, StartersInOrder, PublishEnding
<1>1. CASE Start
  <2>1. games + 1 \in Games /\ pc' = [pc EXCEPT ![games + 1] = "spawned"]
    BY <1>1, CoordinatorBounds DEF Start
  <2>2. QED
    BY <1>1, <2>1 DEF Start
<1>2. CASE Subscribe
  BY <1>2 DEF Subscribe
<1>3. CASE ForceEnd
  BY <1>3 DEF ForceEnd
<1>4. ASSUME NEW c \in Calls, ForceEnded(c) PROVE StartersInOrder'
  BY <1>4 DEF ForceEnded
<1>5. ASSUME NEW g \in Games, Progress(g) \/ GameEnds(g) \/ RunFails(g)
      PROVE  StartersInOrder'
  <2> DEFINE Moves == \E l \in PCs \ {"none"} : pc' = [pc EXCEPT ![g] = l]
             Released == [h \in Games |-> IF starter[h] = "listening" THEN "released"
                                                                     ELSE starter[h]]
  <2>1. Moves /\ UNCHANGED subscribing
    BY <1>5 DEF Progress, Connect, CreateGame, Refuse, Install, RunBegins, GameStarted,
       ErrorAgain, Cleanup, CloseBegins, CloseEnds, GameEnds, RunFails
  <2>2. starter' \in {starter, Released}
    BY <1>5 DEF Progress, Connect, CreateGame, Refuse, Install, RunBegins, GameStarted,
       ErrorAgain, Cleanup, CloseBegins, CloseEnds, GameEnds, RunFails
  <2>3. \A h \in Games : pc'[h] = "none" => pc[h] = "none"
    BY <2>1
  <2>4. \A h \in Games : starter[h] = "none" => starter'[h] = "none"
    BY <2>2
  <2>5. \A h \in Games : pc[h] # "none" => pc'[h] # "none"
    BY <2>1
  <2>6. QED
    BY <2>1, <2>3, <2>4, <2>5
<1>6. CASE UNCHANGED vars
  BY <1>6 DEF vars
<1>7. QED
  BY <1>1, <1>2, <1>3, <1>4, <1>5, <1>6 DEF Next

\* The steps of the RPC side keep a game sound that meets no other.
LEMMA SoloRPC ==
  ASSUME SoloInv, NEW g \in Games \ met', Start \/ Subscribe \/ ForceEnd \/ \E c \in Calls : ForceEnded(c)
  PROVE  Solo(g)'
<1> USE DEF SoloInv, IInv, TypeOK, StartersInOrder, ThreadsInOrder, BusyHasThread, Undone,
            Solo, Alone, OwnChannel, OwnState, OwnEnd, Alive, Joining, Connected, Over,
            PublishEnding
<1>1. CASE Start
  <2>1. games + 1 \in Games /\ pc' = [pc EXCEPT ![games + 1] = "spawned"]
    BY <1>1, CoordinatorBounds DEF Start
  <2>2. pc[games + 1] = "none" /\ starter[games + 1] = "none"
    BY <2>1
  <2>3. g \notin met /\ ~Alive(g)
    BY <1>1 DEF Start
  <2>4. CASE g = games + 1
    <3>1. Joining = {} /\ \A h \in Games : ~Alive(h)
      BY <1>1, <2>4 DEF Start
    <3>2. QED
      BY <1>1, <2>1, <2>2, <2>4, <3>1 DEF Start
  <2>5. CASE g # games + 1
    BY <1>1, <2>1, <2>3, <2>5 DEF Start
  <2>6. QED
    BY <2>4, <2>5
<1>2. CASE Subscribe
  BY <1>2 DEF Subscribe
<1>3. CASE ForceEnd
  BY <1>3 DEF ForceEnd
<1>4. ASSUME NEW c \in Calls, ForceEnded(c) PROVE Solo(g)'
  BY <1>4 DEF ForceEnded
<1>5. QED
  BY <1>1, <1>2, <1>3, <1>4

\* A thread other than that of a live game that meets no other does not step.
LEMMA SoloThread ==
  ASSUME SoloInv, NEW g \in Games \ met, NEW h \in Games,
         Progress(h) \/ GameEnds(h) \/ RunFails(h)
  PROVE  Solo(g)'
<1> USE DEF SoloInv, IInv, TypeOK, StartersInOrder, Solo, Alone, OwnChannel, OwnState, OwnEnd,
            Alive, Joining, Connected, Over, PublishEnding
<1>1. CASE Connect(h)
  BY <1>1 DEF Connect
<1>2. CASE CreateGame(h)
  BY <1>2 DEF CreateGame
<1>3. CASE Refuse(h)
  BY <1>3 DEF Refuse
<1>4. CASE Install(h)
  BY <1>4 DEF Install
<1>5. CASE RunBegins(h)
  BY <1>5 DEF RunBegins
<1>6. CASE GameStarted(h)
  BY <1>6 DEF GameStarted
<1>7. CASE ErrorAgain(h)
  BY <1>7 DEF ErrorAgain
<1>8. CASE Cleanup(h)
  BY <1>8 DEF Cleanup
<1>9. CASE CloseBegins(h)
  <2>1. CASE pc[h] = "refused" /\ pc' = [pc EXCEPT ![h] = "closing1"]
    BY <1>9, <2>1 DEF CloseBegins
  <2>2. CASE pc[h] = "close" /\ pc' = [pc EXCEPT ![h] = "closing2"]
    BY <1>9, <2>2 DEF CloseBegins
  <2>3. QED
    BY <1>9, <2>1, <2>2 DEF CloseBegins
<1>10. CASE CloseEnds(h)
  <2>1. CASE pc[h] = "closing1" /\ pc' = [pc EXCEPT ![h] = "finally"]
    BY <1>10, <2>1 DEF CloseEnds
  <2>2. CASE pc[h] = "closing2" /\ pc' = [pc EXCEPT ![h] = "done"]
    BY <1>10, <2>2 DEF CloseEnds
  <2>3. QED
    BY <1>10, <2>1, <2>2 DEF CloseEnds
<1>11. CASE GameEnds(h)
  BY <1>11 DEF GameEnds
<1>12. CASE RunFails(h)
  BY <1>12 DEF RunFails
<1>13. QED
  BY <1>1, <1>2, <1>3, <1>4, <1>5, <1>6, <1>7, <1>8, <1>9, <1>10, <1>11, <1>12
  DEF Progress

\* Every step keeps the games sound that meet no other.
LEMMA SoloStep == SoloInv /\ [Next]_vars => SoloInv'
<1> SUFFICES ASSUME SoloInv, [Next]_vars PROVE SoloInv'
  OBVIOUS
<1>1. IInv' /\ StartersInOrder'
  BY IInvStep, StartersStep DEF SoloInv
<1>2. ASSUME NEW g \in Games \ met' PROVE Solo(g)'
  <2>1. CASE Start \/ Subscribe \/ ForceEnd \/ \E c \in Calls : ForceEnded(c)
    BY <1>2, <2>1, SoloRPC
  <2>2. ASSUME NEW h \in Games, Progress(h) \/ GameEnds(h) \/ RunFails(h) PROVE Solo(g)'
    <3>1. met' = met
      BY <2>2 DEF Progress, Connect, CreateGame, Refuse, Install, RunBegins, GameStarted,
       ErrorAgain, Cleanup, CloseBegins, CloseEnds, GameEnds, RunFails
    <3>2. QED
      BY <1>2, <2>2, <3>1, SoloThread
  <2>3. CASE UNCHANGED vars
    BY <1>2, <2>3 DEF vars, SoloInv, Solo, Alone, OwnChannel, OwnState, OwnEnd, Alive, Joining
  <2>4. QED
    BY <2>1, <2>2, <2>3 DEF Next
<1>3. QED
  BY <1>1, <1>2 DEF SoloInv

\* A game that meets no other is the current game while it runs, on a channel
\* of its own that is closed after it, and the state says that it runs.
THEOREM SoloGamesAreSound == Spec => []SoloGameIsSound
<1>1. SoloInv => SoloGameIsSound
  BY DEF SoloInv, Solo, OwnChannel, OwnState, SoloGameIsSound, Connected
<1>2. QED
  BY <1>1, InitSolo, SoloStep, PTL DEF Spec

\* The client that started such a game is not sent back to its lobby by news
\* of another one.
THEOREM StartersHearTheirOwnEnd == Spec => []StarterHearsOwnEnd
<1>1. SoloInv => StarterHearsOwnEnd
  BY DEF SoloInv, Solo, OwnEnd, StarterHearsOwnEnd, Over
<1>2. QED
  BY <1>1, InitSolo, SoloStep, PTL DEF Spec
================================================================================
