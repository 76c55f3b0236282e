--------------------------- MODULE FightClub_proofs ---------------------------
(***************************************************************************)
(* Safety of Fight Club, for every number of players and of rounds.        *)
(*                                                                         *)
(* The loop and the round's timer both settle rounds and start them.  The  *)
(* invariant says who may: a round is under way exactly while there is a   *)
(* fighter, but for the challenger that a face-off has just named, and the *)
(* timer is off whenever the loop is settling a round or starting the next *)
(* (ClubRounds).  From this the rounds are settled once, the queue has a   *)
(* challenger when one is called for, every player keeps its one place,    *)
(* and no score changes after the verdict (ClubOutcome).                   *)
(***************************************************************************)
EXTENDS GameModes, FiniteSetTheorems, TLAPS

Undecided == settled + 1 = round
Decided   == settled = round

\* Nothing has happened before the first round, and the timer runs only while
\* the loop does, or has just stopped.
ClubCourse ==
  /\ phase \in {"new", "intro"} =>
       /\ round = 0 /\ settled = 0 /\ defender = None /\ fighter = None /\ fighting = {}
       /\ ~faceOff /\ ~gameOver /\ verdict = None
  /\ phase = "intro" => queue = [i \in Club!Players |-> i]
  /\ phase # "playing" => loop.at = "frame"
  /\ phase \notin {"playing", "over"} => timer = "none"

\* Who settles the round, who starts the next, and what each finds then.
ClubRounds ==
  /\ Decided \/ Undecided
  /\ loop.at \in {"beep", "pause", "starting"} => timer = "none"
  /\ loop.at \in {"beep", "pause"} => Decided /\ queue # <<>> /\ defender # None
  /\ loop.at = "beep" \/ (loop.at = "pause" /\ ~faceOff) => fighter = None
  /\ loop.at = "starting" \/ timer \in {"running", "starting"} => Undecided /\ fighter # None
  /\ timer = "running" => ~faceOff
  /\ timer = "publish" => Decided /\ defender = None /\ fighter = None /\ ~faceOff
  /\ fighter # None => defender # None /\ (loop.at = "pause" \/ Undecided)

\* With the queue q, the defender d and the fighter f every player has a place,
\* and only one.
OnePlace(q, d, f) ==
  /\ d = f => d = None
  /\ \A i \in 1..Len(q) : q[i] # d /\ q[i] # f
  /\ \A i, j \in 1..Len(q) : q[i] = q[j] => i = j
  /\ \A p \in Club!Players : p = d \/ p = f \/ \E i \in 1..Len(q) : q[i] = p

\* So it is until a face-off names players that are still in the queue; and
\* only the defender and the fighter have the state of one.
ClubPlaces ==
  phase # "new" /\ ~faceOff =>
    fighting \subseteq {defender, fighter} /\ OnePlace(queue, defender, fighter)

\* When the game is decided there is nothing left that could change the scores.
ClubOutcome ==
  /\ gameOver <=> verdict # None
  /\ gameOver => fighter = None /\ timer = "none" /\ loop.at \notin {"beep", "pause", "starting"}
  /\ final # None => phase \in {"ending", "ended", "failed"}
  /\ Club!VerdictsAgree

ClubInv ==
  Club!TypeOK /\ ClubCourse /\ ClubRounds /\ ClubPlaces /\ ClubOutcome
    /\ Club!SomebodyWatchesTheRound

USE DEF Club!Players, Club!Phases, Club!At, Club!Idle, Club!Onwards, Club!Goes, Club!Playing

-----------------------------------------------------------------------------
(* The leaders. *)

Ahead(p, q) == score[p] > score[q] \/ (score[p] = score[q] /\ p <= q)

\* Being ahead is a total order.
LEMMA AheadOrders ==
  ASSUME numPlayers \in Nat, score \in [Club!Players -> Nat],
         NEW p \in Club!Players, NEW q \in Club!Players, NEW r \in Club!Players
  PROVE  /\ Ahead(p, p) /\ (Ahead(p, q) \/ Ahead(q, p))
         /\ Ahead(p, q) /\ Ahead(q, r) => Ahead(p, r)
<1>1. score[p] \in Nat /\ score[q] \in Nat /\ score[r] \in Nat
  OBVIOUS
<1>2. p \in Nat /\ q \in Nat /\ r \in Nat
  OBVIOUS
<1>3. QED
  BY <1>1, <1>2 DEF Ahead

\* Among finitely many players one is ahead of all others: in a smallest set
\* without one, any player would have to be behind the best of the rest.
LEMMA SomebodyLeads ==
  ASSUME NEW S, IsFiniteSet(S), S \subseteq Club!Players, S # {},
         numPlayers \in Nat, score \in [Club!Players -> Nat]
  PROVE  \E p \in S : \A q \in S : Ahead(p, q)
<1> DEFINE Leaderless == {T \in SUBSET S : T # {} /\ ~ \E p \in T : \A q \in T : Ahead(p, q)}
<1>1. SUFFICES ASSUME Leaderless # {} PROVE FALSE
  OBVIOUS
<1>2. IsWellFoundedOn(StrictSubsetOrdering(S), SUBSET S)
  BY FS_StrictSubsetOrderingWellFounded, FS_FiniteSubsetsOfFinite
<1>3. PICK T \in Leaderless : \A U \in Leaderless : <<U, T>> \notin StrictSubsetOrdering(S)
  <2> HIDE DEF Leaderless
  <2>1. Leaderless \subseteq SUBSET S
    BY DEF Leaderless
  <2>2. QED
    BY <1>1, <1>2, <2>1, WFMin
<1>4. PICK x \in T : TRUE
  OBVIOUS
<1>5. T \ {x} \notin Leaderless
  <2>1. T \in SUBSET S /\ T \ {x} \in SUBSET S /\ T \ {x} \subseteq T /\ T \ {x} # T
    BY <1>4
  <2>2. <<T \ {x}, T>> \in StrictSubsetOrdering(S)
    BY <2>1 DEF StrictSubsetOrdering
  <2> HIDE DEF Leaderless
  <2>3. QED
    BY <1>3, <2>2, Zenon
<1>6. \A p, q, r \in Club!Players : Ahead(p, p) /\ (Ahead(p, q) \/ Ahead(q, p))
                                    /\ (Ahead(p, q) /\ Ahead(q, r) => Ahead(p, r))
  BY AheadOrders
<1>7. T \subseteq Club!Players
  OBVIOUS
<1>8. CASE T \ {x} = {}
  BY <1>3, <1>4, <1>6, <1>7, <1>8
<1>9. CASE T \ {x} # {}
  <2>1. PICK y \in T \ {x} : \A q \in T \ {x} : Ahead(y, q)
    BY <1>5, <1>9
  <2>2. (\A q \in T : Ahead(y, q)) \/ (\A q \in T : Ahead(x, q))
    BY <2>1, <1>4, <1>6, <1>7
  <2>3. QED
    BY <2>1, <2>2, <1>3, <1>4
<1>10. QED
  BY <1>8, <1>9

\* So the leader of every non-empty set of players is one of them, and ahead.
LEMMA LeaderLeads ==
  ASSUME NEW S, S \subseteq Club!Players, S # {}, numPlayers \in Nat,
         score \in [Club!Players -> Nat]
  PROVE  Club!Leader(S) \in S /\ \A q \in S : Ahead(Club!Leader(S), q)
<1>1. IsFiniteSet(1..numPlayers)
  BY FS_Interval, 1 \in Int, numPlayers \in Int, Zenon
<1>2. IsFiniteSet(S)
  BY <1>1, FS_Subset
<1>3. PICK p \in S : \A q \in S : Ahead(p, q)
  BY <1>2, SomebodyLeads
<1>4. QED
  BY <1>3 DEF Club!Leader, Ahead

-----------------------------------------------------------------------------
(* The queue. *)

\* No player is the one that stands for nobody.
LEMMA PlayersAreSomebody == numPlayers \in Nat => None \notin Club!Players
BY BaseConstants

\* The first in the queue becomes the defender when there is none.
LEMMA FirstDefends ==
  ASSUME numPlayers \in Nat, NEW q \in Seq(Club!Players), q # <<>>, OnePlace(q, None, None)
  PROVE  Head(q) \in Club!Players /\ Tail(q) \in Seq(Club!Players)
         /\ Len(Tail(q)) = Len(q) - 1 /\ OnePlace(Tail(q), Head(q), None)
<1>1. /\ Head(q) = q[1] /\ q[1] \in Club!Players /\ Tail(q) \in Seq(Club!Players)
      /\ Len(q) \in Nat
      /\ Len(q) >= 1 /\ Len(Tail(q)) = Len(q) - 1
      /\ \A i \in 1..Len(Tail(q)) : Tail(q)[i] = q[i + 1]
  OBVIOUS
<1>2. \A i \in 1..Len(q) : i = 1 \/ i - 1 \in 1..Len(Tail(q))
  BY <1>1
<1>3. \A i \in 1..Len(q) : i = 1 \/ q[i] = Tail(q)[i - 1]
  BY <1>1, <1>2
<1>4. \A i \in 1..Len(Tail(q)) : i + 1 \in 1..Len(q) /\ i + 1 # 1
  BY <1>1
<1>5. \A p \in Club!Players : p = Head(q) \/ \E i \in 1..Len(Tail(q)) : Tail(q)[i] = p
  <2>1. SUFFICES ASSUME NEW p \in Club!Players, p # Head(q)
                 PROVE  \E i \in 1..Len(Tail(q)) : Tail(q)[i] = p
    OBVIOUS
  <2>2. PICK i \in 1..Len(q) : q[i] = p
    BY PlayersAreSomebody DEF OnePlace
  <2>3. QED
    BY <1>1, <1>2, <1>3, <2>1, <2>2
<1>6. \A i, j \in 1..Len(Tail(q)) : Tail(q)[i] = Tail(q)[j] => i = j
  BY <1>1, <1>4 DEF OnePlace
<1>7. \A i \in 1..Len(Tail(q)) : Tail(q)[i] # Head(q) /\ Tail(q)[i] # None
  BY <1>1, <1>4 DEF OnePlace
<1>8. QED
  BY <1>1, <1>5, <1>6, <1>7, PlayersAreSomebody DEF OnePlace

\* The first in the queue is the defender's challenger.
LEMMA FirstChallenges ==
  ASSUME numPlayers \in Nat, NEW q \in Seq(Club!Players), q # <<>>,
         NEW d \in Club!Players, OnePlace(q, d, None)
  PROVE  Head(q) \in Club!Players /\ Tail(q) \in Seq(Club!Players)
         /\ OnePlace(Tail(q), d, Head(q))
<1>1. /\ Head(q) = q[1] /\ q[1] \in Club!Players /\ Tail(q) \in Seq(Club!Players)
      /\ Len(q) \in Nat
      /\ Len(q) >= 1 /\ Len(Tail(q)) = Len(q) - 1
      /\ \A i \in 1..Len(Tail(q)) : Tail(q)[i] = q[i + 1]
  OBVIOUS
<1>2. \A i \in 1..Len(q) : i = 1 \/ i - 1 \in 1..Len(Tail(q))
  BY <1>1
<1>3. \A i \in 1..Len(q) : i = 1 \/ q[i] = Tail(q)[i - 1]
  BY <1>1, <1>2
<1>4. \A i \in 1..Len(Tail(q)) : i + 1 \in 1..Len(q) /\ i + 1 # 1
  BY <1>1
<1>5. \A p \in Club!Players : p = d \/ p = Head(q) \/ \E i \in 1..Len(Tail(q)) : Tail(q)[i] = p
  <2>1. SUFFICES ASSUME NEW p \in Club!Players, p # d, p # Head(q)
                 PROVE  \E i \in 1..Len(Tail(q)) : Tail(q)[i] = p
    OBVIOUS
  <2>2. PICK i \in 1..Len(q) : q[i] = p
    BY <2>1, PlayersAreSomebody DEF OnePlace
  <2>3. QED
    BY <1>1, <1>2, <1>3, <2>1, <2>2
<1>6. \A i, j \in 1..Len(Tail(q)) : Tail(q)[i] = Tail(q)[j] => i = j
  BY <1>1, <1>4 DEF OnePlace
<1>7. \A i \in 1..Len(Tail(q)) : Tail(q)[i] # Head(q) /\ Tail(q)[i] # d
  BY <1>1, <1>4 DEF OnePlace
<1>8. d # Head(q)
  BY <1>1 DEF OnePlace
<1>9. QED
  BY <1>1, <1>5, <1>6, <1>7, <1>8 DEF OnePlace

\* The loser goes to the end of the queue, the winner stays.
LEMMA LoserQueues ==
  ASSUME numPlayers \in Nat, NEW q \in Seq(Club!Players), NEW w \in Club!Players,
         NEW l \in Club!Players, OnePlace(q, w, l) \/ OnePlace(q, l, w)
  PROVE  OnePlace(Append(q, l), w, None)
<1> DEFINE r == Append(q, l)
<1>1. /\ Len(q) \in Nat /\ Len(r) = Len(q) + 1 /\ r[Len(q) + 1] = l
      /\ \A i \in 1..Len(q) : r[i] = q[i]
  OBVIOUS
<1>2. \A i \in 1..Len(r) : i \in 1..Len(q) \/ i = Len(q) + 1
  BY <1>1
<1>3. 1..Len(q) \subseteq 1..Len(r) /\ Len(q) + 1 \in 1..Len(r)
  BY <1>1
<1>4. /\ w # l
      /\ \A i \in 1..Len(q) : q[i] # w /\ q[i] # l /\ q[i] # None
      /\ \A i, j \in 1..Len(q) : q[i] = q[j] => i = j
      /\ \A p \in Club!Players : p = w \/ p = l \/ \E i \in 1..Len(q) : q[i] = p
  BY PlayersAreSomebody DEF OnePlace
<1> HIDE DEF r
<1>5. \A i \in 1..Len(r) : r[i] # w /\ r[i] # None
  BY <1>1, <1>2, <1>4, PlayersAreSomebody
<1>6. \A i, j \in 1..Len(r) : r[i] = r[j] => i = j
  <2>1. \A i, j \in 1..Len(q) : r[i] = r[j] => i = j
    BY <1>1, <1>4
  <2>2. \A i \in 1..Len(q) : r[i] # r[Len(q) + 1]
    BY <1>1, <1>4
  <2>3. QED
    BY <1>2, <2>1, <2>2
<1>7. \A p \in Club!Players : p = w \/ \E i \in 1..Len(r) : r[i] = p
  BY <1>1, <1>3, <1>4
<1>8. OnePlace(r, w, None)
  BY <1>5, <1>6, <1>7, PlayersAreSomebody DEF OnePlace
<1>9. QED
  BY <1>8 DEF r

\* When their time is up, both do.
LEMMA BothQueue ==
  ASSUME numPlayers \in Nat, NEW q \in Seq(Club!Players), NEW d \in Club!Players,
         NEW f \in Club!Players, OnePlace(q, d, f)
  PROVE  OnePlace(q \o <<d, f>>, None, None)
<1> DEFINE r == q \o <<d, f>>
<1>1. /\ Len(q) \in Nat /\ Len(r) = Len(q) + 2
      /\ \A i \in 1..Len(q) : r[i] = q[i]
  OBVIOUS
<1>2. r[Len(q) + 1] = d /\ r[Len(q) + 2] = f
  OBVIOUS
<1> HIDE DEF r
<1>3. \A i \in 1..Len(r) : i \in 1..Len(q) \/ i = Len(q) + 1 \/ i = Len(q) + 2
  BY <1>1
<1>4. 1..Len(q) \subseteq 1..Len(r) /\ Len(q) + 1 \in 1..Len(r) /\ Len(q) + 2 \in 1..Len(r)
  BY <1>1
<1>5. /\ d # f
      /\ \A i \in 1..Len(q) : q[i] # d /\ q[i] # f /\ q[i] # None
      /\ \A i, j \in 1..Len(q) : q[i] = q[j] => i = j
      /\ \A p \in Club!Players : p = d \/ p = f \/ \E i \in 1..Len(q) : q[i] = p
  BY PlayersAreSomebody DEF OnePlace
<1>6. \A i \in 1..Len(r) : r[i] # None
  <2>1. TAKE i \in 1..Len(r)
  <2>2. CASE i \in 1..Len(q)
    BY <1>1, <1>5, <2>2
  <2>3. CASE i \in {Len(q) + 1, Len(q) + 2}
    BY <1>2, <2>3, PlayersAreSomebody
  <2>4. QED
    BY <1>3, <2>2, <2>3
<1>7. \A i, j \in 1..Len(r) : r[i] = r[j] => i = j
  <2>1. SUFFICES ASSUME NEW i \in 1..Len(r), NEW j \in 1..Len(r), r[i] = r[j], i <= j
                 PROVE  i = j
    OBVIOUS
  <2>2. CASE j \in 1..Len(q)
    <3>1. i \in 1..Len(q)
      BY <1>1, <2>1, <2>2
    <3>2. QED
      BY <1>1, <1>5, <2>1, <2>2, <3>1
  <2>3. CASE j = Len(q) + 1
    <3>1. i \in 1..Len(q) => FALSE
      BY <1>1, <1>2, <1>5, <2>1, <2>3
    <3>2. i # Len(q) + 2
      BY <1>1, <2>1, <2>3
    <3>3. QED
      BY <1>3, <2>3, <3>1, <3>2
  <2>4. CASE j = Len(q) + 2
    <3>1. i \in 1..Len(q) => q[i] = f
      BY <1>1, <1>2, <2>1, <2>4
    <3>2. i # Len(q) + 1
      BY <1>2, <1>5, <2>1, <2>4
    <3>3. QED
      BY <1>3, <1>5, <2>4, <3>1, <3>2
  <2>5. QED
    BY <1>3, <2>2, <2>3, <2>4
<1>8. \A p \in Club!Players : \E i \in 1..Len(r) : r[i] = p
  <2>1. TAKE p \in Club!Players
  <2>2. CASE p \in {d, f}
    BY <1>2, <1>4, <2>2
  <2>3. CASE p \notin {d, f}
    <3>1. PICK i \in 1..Len(q) : q[i] = p
      BY <1>5, <2>3
    <3>2. QED
      BY <1>1, <1>4, <3>1
  <2>4. QED
    BY <2>2, <2>3
<1>9. OnePlace(r, None, None)
  BY <1>6, <1>7, <1>8 DEF OnePlace
<1>10. QED
  BY <1>9 DEF r

\* When nobody fights, two at least are in the queue.
LEMMA TwoInTheQueue ==
  ASSUME numPlayers \in Nat \ {0, 1}, NEW q \in Seq(Club!Players), OnePlace(q, None, None)
  PROVE  q # <<>> /\ Tail(q) # <<>>
<1>1. 1 \in Club!Players /\ 2 \in Club!Players
  OBVIOUS
<1>2. PICK i \in 1..Len(q) : q[i] = 1
  BY <1>1, PlayersAreSomebody DEF OnePlace
<1>3. PICK j \in 1..Len(q) : q[j] = 2
  BY <1>1, PlayersAreSomebody DEF OnePlace
<1>4. i # j /\ Len(q) \in Nat
  BY <1>2, <1>3
<1>5. Len(q) > 1
  BY <1>4
<1>6. Len(<<>>) = 0
  OBVIOUS
<1>7. Len(q) # 0
  BY <1>5
<1>8. q # <<>>
  BY <1>6, <1>7, Zenon
<1>9. Len(Tail(q)) = Len(q) - 1
  BY <1>8
<1>10. Len(q) - 1 # 0
  <2>1. \A n \in Nat : n > 1 => n - 1 # 0
    OBVIOUS
  <2>2. QED
    BY <1>4, <1>5, <2>1, Zenon
<1>11. QED
  BY <1>6, <1>8, <1>9, <1>10, Zenon

-----------------------------------------------------------------------------
(* The two ways a round changes the roster, and what the verdict rests on. *)

\* A round starts with a defender and a challenger, from a queue that has one.
LEMMA RoundStarts ==
  ASSUME Club!TypeOK, NEW d \in Club!Players \cup {None}, queue # <<>>,
         d = None => OnePlace(queue, None, None), Club!StartRound(queue, d)
  PROVE  /\ round' = round + 1 /\ shielded' = TRUE
         /\ defender' \in Club!Players /\ fighter' \in Club!Players
         /\ queue' \in Seq(Club!Players) /\ fighting' = fighting \cup {defender', fighter'}
         /\ d # None => defender' = d
         /\ OnePlace(queue, d, None) => OnePlace(queue', defender', fighter')
<1>1. numPlayers \in Nat \ {0, 1} /\ numPlayers \in Nat /\ queue \in Seq(Club!Players)
  BY DEF Club!TypeOK, Club!BaseTypeOK
<1>2. CASE d = None
  <2>1. OnePlace(queue, None, None) /\ Tail(queue) # <<>>
    BY <1>1, <1>2, TwoInTheQueue
  <2>2. /\ Head(queue) \in Club!Players /\ Tail(queue) \in Seq(Club!Players)
        /\ OnePlace(Tail(queue), Head(queue), None)
    BY <1>1, <2>1, FirstDefends
  <2>3. /\ Head(Tail(queue)) \in Club!Players /\ Tail(Tail(queue)) \in Seq(Club!Players)
        /\ OnePlace(Tail(Tail(queue)), Head(queue), Head(Tail(queue)))
    BY <1>1, <2>1, <2>2, FirstChallenges
  <2>4. /\ round' = round + 1 /\ shielded' = TRUE
        /\ defender' = Head(queue) /\ fighter' = Head(Tail(queue)) /\ queue' = Tail(Tail(queue))
        /\ fighting' = fighting \cup {Head(queue), Head(Tail(queue))}
    BY <1>2, Zenon DEF Club!StartRound
  <2>5. QED
    BY <1>2, <2>2, <2>3, <2>4, Zenon
<1>3. CASE d # None
  <2>1. d \in Club!Players
    BY <1>3
  <2>2. /\ Head(queue) \in Club!Players /\ Tail(queue) \in Seq(Club!Players)
    BY <1>1
  <2>3. OnePlace(queue, d, None) => OnePlace(Tail(queue), d, Head(queue))
    BY <1>1, <2>1, FirstChallenges
  <2>4. /\ round' = round + 1 /\ shielded' = TRUE
        /\ defender' = d /\ fighter' = Head(queue) /\ queue' = Tail(queue)
        /\ fighting' = fighting \cup {d, Head(queue)}
    BY <1>3, Zenon DEF Club!StartRound
  <2>5. QED
    BY <2>1, <2>2, <2>3, <2>4, Zenon
<1>4. QED
  BY <1>2, <1>3

\* After a fall one is left as the defender, and the other waits.
LEMMA OneFalls ==
  ASSUME Club!TypeOK, NEW p, defender \in Club!Players, fighter \in Club!Players, Club!Falls(p)
  PROVE  /\ score' \in [Club!Players -> Nat] /\ fighting' \subseteq Club!Players
         /\ defender' \in Club!Players /\ fighter' = None
         /\ queue' \in Seq(Club!Players) /\ queue' # <<>>
         /\ fighting \subseteq {defender, fighter} => fighting' \subseteq {defender'}
         /\ OnePlace(queue, defender, fighter) => OnePlace(queue', defender', None)
<1>1. PICK w \in Club!Players, l \in Club!Players :
        /\ {w, l} = {defender, fighter}
        /\ score' = [score EXCEPT ![w] = @ + 1] /\ fighting' = (fighting \cup {w}) \ {l}
        /\ defender' = w /\ fighter' = None /\ queue' = Append(queue, l)
        /\ (w = fighter /\ l = defender) \/ (w = defender /\ l = fighter)
  BY DEF Club!Falls
<1>2. score' \in [Club!Players -> Nat]
  <2>1. score \in [Club!Players -> Nat] /\ \A n \in Nat : n + 1 \in Nat
    BY DEF Club!TypeOK
  <2>2. \A p1 \in Club!Players : [score EXCEPT ![p1] = @ + 1] \in [Club!Players -> Nat]
    BY <2>1
  <2>3. QED
    BY <1>1, <2>2
<1>3. fighting' \subseteq Club!Players
        /\ (fighting \subseteq {defender, fighter} => fighting' \subseteq {defender'})
  BY <1>1 DEF Club!TypeOK
<1>4. queue' \in Seq(Club!Players) /\ queue' # <<>>
  BY <1>1 DEF Club!TypeOK
<1>5. OnePlace(queue, defender, fighter) => OnePlace(Append(queue, l), w, None)
  BY <1>1, LoserQueues DEF Club!TypeOK, Club!BaseTypeOK
<1>6. QED
  BY <1>1, <1>2, <1>3, <1>4, <1>5

\* There are others.
LEMMA NobodyIsAlone ==
  ASSUME numPlayers \in Nat \ {0, 1}, NEW x
  PROVE  Club!Players \ {x} # {}
<1>1. 1 \in Club!Players /\ 2 \in Club!Players /\ 1 # 2
  OBVIOUS
<1>2. CASE x = 1
  BY <1>1, <1>2
<1>3. CASE x # 1
  BY <1>1, <1>3
<1>4. QED
  BY <1>2, <1>3

\* The two leaders are players.
LEMMA LeadersArePlayers ==
  ASSUME Club!TypeOK
  PROVE  Club!First \in Club!Players /\ Club!Second \in Club!Players
<1>1. /\ numPlayers \in Nat /\ score \in [Club!Players -> Nat]
      /\ 1 \in Club!Players /\ 2 \in Club!Players
  BY DEF Club!TypeOK, Club!BaseTypeOK
<1>2. Club!Players \ {Club!First} # {}
  BY NobodyIsAlone DEF Club!TypeOK, Club!BaseTypeOK
<1>3. QED
  BY <1>1, <1>2, LeaderLeads DEF Club!First, Club!Second

\* When the game is decided there is only one leader.
LEMMA DecidedLeader ==
  ASSUME Club!TypeOK, Club!ShouldEnd
  PROVE  \A q \in Club!Players \ {Club!First} : score[q] < score[Club!First]
<1>1. /\ numPlayers \in Nat /\ score \in [Club!Players -> Nat]
      /\ 1 \in Club!Players /\ 2 \in Club!Players
  BY DEF Club!TypeOK, Club!BaseTypeOK
<1> DEFINE Others == Club!Players \ {Club!First}
<1>2. Others # {} /\ Others \subseteq Club!Players
  BY NobodyIsAlone DEF Club!TypeOK, Club!BaseTypeOK
<1>3. Club!First \in Club!Players /\ \A q \in Club!Players : Ahead(Club!First, q)
  BY <1>1, LeaderLeads DEF Club!First
<1>4. Club!Second \in Others /\ \A q \in Others : Ahead(Club!Second, q)
  BY <1>1, <1>2, LeaderLeads DEF Club!Second
<1>5. score[Club!First] # score[Club!Second]
  BY DEF Club!ShouldEnd, Club!Tied
<1> HIDE DEF Others
<1>6. score[Club!Second] < score[Club!First]
  <2>1. score[Club!First] \in Nat /\ score[Club!Second] \in Nat
    BY <1>1, <1>2, <1>3, <1>4
  <2>2. QED
    BY <1>2, <1>3, <1>4, <1>5, <2>1 DEF Ahead
<1>7. SUFFICES ASSUME NEW q \in Others PROVE score[q] < score[Club!First]
  BY DEF Others
<1>8. score[q] <= score[Club!Second]
  <2>1. score[q] \in Nat /\ score[Club!Second] \in Nat
    BY <1>1, <1>2, <1>4
  <2>2. QED
    BY <1>4, <2>1 DEF Ahead
<1>9. score[q] \in Nat /\ score[Club!First] \in Nat /\ score[Club!Second] \in Nat
  BY <1>1, <1>2, <1>3, <1>4
<1>10. QED
  BY <1>6, <1>8, <1>9

-----------------------------------------------------------------------------
(* One lemma for each part of the invariant, one case for each action. *)

\* The types are those of the flags and those of the rest.
ClubFlags ==
  /\ Club!BaseTypeOK /\ shielded \in BOOLEAN /\ faceOff \in BOOLEAN
  /\ gameOver \in BOOLEAN /\ broken \in BOOLEAN

LoopTypes == [at : {"frame", "update", "sound", "beep", "pause", "starting", "effect"},
              who : Club!Players \cup {None}]

ClubTypes ==
  /\ queue \in Seq(Club!Players) /\ defender \in Club!Players \cup {None}
  /\ fighter \in Club!Players \cup {None} /\ fighting \subseteq Club!Players
  /\ score \in [Club!Players -> Nat] /\ round \in Nat /\ settled \in Nat
  /\ timer \in {"none", "running", "publish", "starting"}
  /\ loop \in LoopTypes /\ gone \subseteq Club!Players
  /\ verdict \in Club!Players \cup {None} /\ final \in Club!Players \cup {None}

LEMMA ClubTypeParts == Club!TypeOK <=> ClubFlags /\ ClubTypes
BY DEF Club!TypeOK, ClubFlags, ClubTypes, LoopTypes

\* Wherever the loop goes, it waits for what it may wait for.
LEMMA LoopMoves ==
  ASSUME UNCHANGED numPlayers, loop \in LoopTypes, NEW p \in Club!Players \cup {None},
         NEW x \in {"frame", "update", "sound", "beep", "pause", "starting", "effect"},
         loop' \in {Club!Goes(x), Club!At(x), [at |-> x, who |-> p]}
  PROVE  loop' \in LoopTypes'
BY DEF LoopTypes

\* A look at the winner ends the game, or lets the loop go on.
LEMMA ClubJudged ==
  ASSUME NEW g, NEW h, Club!Judge(g, h)
  PROVE  \/ gameOver' /\ phase' = "over" /\ loop' = Club!Idle /\ gone' = {} /\ hot' = {}
         \/ ~gameOver' /\ phase' = phase /\ loop' = Club!Onwards /\ gone' = g /\ hot' = h
BY DEF Club!Judge

\* Every step keeps the types of the flags.
LEMMA ClubFlagsStep ==
  ASSUME ClubFlags, fighting \subseteq Club!Players, [Club!Next]_(Club!vars)
  PROVE  ClubFlags'
<1> USE DEF ClubFlags, Club!BaseTypeOK, Club!roster, Club!match, Club!update, Club!ending
<1>1. CASE Club!StartGame /\ UNCHANGED numPlayers
  BY <1>1 DEF Club!StartGame
<1>2. CASE Club!WriteFails /\ UNCHANGED numPlayers
  BY <1>2 DEF Club!WriteFails, Club!RunFails
<1>3. CASE Club!ShieldDown /\ UNCHANGED numPlayers
  BY <1>3 DEF Club!ShieldDown
<1>4. CASE Club!Frame /\ UNCHANGED numPlayers
  BY <1>4 DEF Club!Frame
<1>5. ASSUME NEW p \in Club!Players, Club!Process(p), UNCHANGED numPlayers PROVE ClubFlags'
  BY <1>5 DEF Club!Process, Club!Judge
<1>6. CASE Club!FrameDone /\ UNCHANGED numPlayers
  BY <1>6 DEF Club!FrameDone
<1>7. CASE Club!TooLate /\ UNCHANGED numPlayers
  BY <1>7 DEF Club!TooLate
<1>8. CASE Club!Killed /\ UNCHANGED numPlayers
  BY <1>8 DEF Club!Killed, Club!Falls
<1>9. CASE Club!RoundDecided /\ UNCHANGED numPlayers
  BY <1>9 DEF Club!RoundDecided, Club!Decide
<1>10. CASE Club!NextRound /\ UNCHANGED numPlayers
  BY <1>10 DEF Club!NextRound, Club!StartRound
<1>11. CASE Club!RoundStarted /\ UNCHANGED numPlayers
  BY <1>11 DEF Club!RoundStarted
<1>12. CASE Club!EffectSent /\ UNCHANGED numPlayers
  BY <1>12 DEF Club!EffectSent, Club!Judge
<1>13. CASE Club!NobodyToFight /\ UNCHANGED numPlayers
  BY <1>13 DEF Club!NobodyToFight
<1>14. CASE Club!CountdownOver /\ UNCHANGED numPlayers
  BY <1>14 DEF Club!CountdownOver, Club!StartRound
<1>15. CASE Club!LoopBreaks /\ UNCHANGED numPlayers
  BY <1>15 DEF Club!LoopBreaks, Club!Streaming
<1>16. CASE Club!Celebrate /\ UNCHANGED numPlayers
  BY <1>16 DEF Club!Celebrate
<1>17. CASE Club!GameEnded /\ UNCHANGED numPlayers
  BY <1>17 DEF Club!GameEnded
<1>18. CASE Club!Reconnect /\ UNCHANGED numPlayers
  BY <1>18 DEF Club!Reconnect, Club!Streaming
<1>19. CASE Club!GiveUp /\ UNCHANGED numPlayers
  BY <1>19 DEF Club!GiveUp, Club!Streaming
<1>20. CASE Club!StreamEnds /\ UNCHANGED numPlayers
  BY <1>20 DEF Club!StreamEnds
<1>21. CASE Club!ForceEnd /\ UNCHANGED numPlayers
  BY <1>21 DEF Club!ForceEnd
<1>22. CASE Club!TimesUp /\ UNCHANGED numPlayers
  BY <1>22 DEF Club!TimesUp
<1>23. CASE Club!TimerStops /\ UNCHANGED numPlayers
  BY <1>23 DEF Club!TimerStops
<1>24. CASE Club!AfterTimeout /\ UNCHANGED numPlayers
  BY <1>24 DEF Club!AfterTimeout, Club!Decide, Club!StartRound
<1>25. CASE Club!TimerStartsRound /\ UNCHANGED numPlayers
  BY <1>25 DEF Club!TimerStartsRound
<1>26. CASE Club!TimerDies /\ UNCHANGED numPlayers
  BY <1>26 DEF Club!TimerDies
<1>27. CASE UNCHANGED Club!vars
  BY <1>27 DEF Club!vars
<1>28. QED
  BY <1>1, <1>2, <1>3, <1>4, <1>5, <1>6, <1>7, <1>8, <1>9, <1>10, <1>11, <1>12, <1>13,
     <1>14, <1>15, <1>16, <1>17, <1>18, <1>19, <1>20, <1>21, <1>22, <1>23, <1>24, <1>25,
     <1>26, <1>27 DEF Club!Next, Club!Step, Club!Loop

\* Every step keeps the other types.
LEMMA ClubTypesStep ==
  ASSUME Club!TypeOK, ClubCourse, ClubRounds, ClubPlaces, [Club!Next]_(Club!vars)
  PROVE  ClubTypes'
<1> USE DEF Club!TypeOK, ClubTypes, LoopTypes, Club!BaseTypeOK, Club!roster, Club!match,
    Club!update, Club!ending
<1>1. CASE Club!StartGame /\ UNCHANGED numPlayers
  <2>1. queue' \in Seq(Club!Players)
    BY <1>1 DEF Club!StartGame
  <2>2. QED
    BY <1>1, <2>1 DEF Club!StartGame
<1>2. CASE Club!WriteFails /\ UNCHANGED numPlayers
  BY <1>2 DEF Club!WriteFails, Club!RunFails
<1>3. CASE Club!ShieldDown /\ UNCHANGED numPlayers
  BY <1>3 DEF Club!ShieldDown
<1>4. CASE Club!Frame /\ UNCHANGED numPlayers
  BY <1>4 DEF Club!Frame
<1>5. ASSUME NEW p \in Club!Players, Club!Process(p), UNCHANGED numPlayers PROVE ClubTypes'
  <2>1. UNCHANGED <<numPlayers, Club!match, timer, Club!ending>>
    BY <1>5 DEF Club!Process
  <2>2. gone' \subseteq Club!Players /\ loop' \in LoopTypes'
    <3>1. CASE p \in gone \/ (p \in fighting /\ ~shielded)
      BY <1>5, <3>1, LoopMoves DEF Club!Process
    <3>2. CASE ~(p \in gone \/ (p \in fighting /\ ~shielded))
      <4>1. gone' \subseteq gone /\ (loop' = Club!At("frame") \/ loop' = Club!At("update"))
        BY <1>5, <3>2, ClubJudged DEF Club!Process
      <4>2. QED
        BY <1>5, <4>1, LoopMoves
    <3>3. QED
      BY <3>1, <3>2
  <2>3. QED
    BY <2>1, <2>2 DEF LoopTypes
<1>6. CASE Club!FrameDone /\ UNCHANGED numPlayers
  BY <1>6 DEF Club!FrameDone
<1>7. CASE Club!TooLate /\ UNCHANGED numPlayers
  BY <1>7 DEF Club!TooLate
<1>8. CASE Club!Killed /\ UNCHANGED numPlayers
  <2>1. fighter \in Club!Players /\ defender \in Club!Players
    BY <1>8 DEF Club!Killed, ClubRounds
  <2>2. Club!Falls(loop.who)
    BY <1>8 DEF Club!Killed
  <2>3. /\ score' \in [Club!Players -> Nat] /\ fighting' \subseteq Club!Players
        /\ defender' \in Club!Players /\ fighter' = None /\ queue' \in Seq(Club!Players)
    BY <2>1, <2>2, OneFalls
  <2>4. loop' \in LoopTypes' /\ settled' \in Nat /\ timer' = "none"
    <3>1. loop' = Club!Goes("beep") /\ settled' = settled + 1 /\ timer' = "none"
          /\ UNCHANGED numPlayers
      BY <1>8 DEF Club!Killed
    <3>2. loop' \in LoopTypes'
      BY <3>1, LoopMoves
    <3>3. QED
      BY <3>1, <3>2
  <2>5. UNCHANGED <<numPlayers, round, gone, verdict, final>>
    BY <1>8 DEF Club!Killed
  <2>6. QED
    BY <2>3, <2>4, <2>5 DEF LoopTypes
<1>9. CASE Club!RoundDecided /\ UNCHANGED numPlayers
  BY <1>9, LeadersArePlayers DEF Club!RoundDecided, Club!Decide
<1>10. CASE Club!NextRound /\ UNCHANGED numPlayers
  <2>1. round' = round + 1 /\ shielded' = TRUE /\ defender' \in Club!Players
        /\ fighter' \in Club!Players /\ queue' \in Seq(Club!Players)
        /\ fighting' = fighting \cup {defender', fighter'}
    BY <1>10, RoundStarts DEF Club!NextRound, ClubRounds
  <2>2. loop' \in LoopTypes' /\ round' \in Nat
    <3>1. loop' = Club!Goes("starting")
      BY <1>10 DEF Club!NextRound
    <3>2. loop' \in LoopTypes'
      BY <1>10, <3>1, LoopMoves
    <3>3. QED
      BY <2>1, <3>2
  <2>3. UNCHANGED <<numPlayers, score, settled, timer, gone, verdict, final>>
    BY <1>10 DEF Club!NextRound
  <2>4. QED
    BY <2>1, <2>2, <2>3 DEF LoopTypes
<1>11. CASE Club!RoundStarted /\ UNCHANGED numPlayers
  BY <1>11 DEF Club!RoundStarted
<1>12. CASE Club!EffectSent /\ UNCHANGED numPlayers
  <2>1. UNCHANGED <<numPlayers, Club!match, timer, Club!ending>>
    BY <1>12 DEF Club!EffectSent
  <2>2. gone' \subseteq Club!Players /\ loop' \in LoopTypes'
    <3>1. gone' \subseteq gone /\ (loop' = Club!At("frame") \/ loop' = Club!At("update"))
      BY <1>12, ClubJudged DEF Club!EffectSent
    <3>2. QED
      BY <1>12, <3>1, LoopMoves
  <2>3. QED
    BY <2>1, <2>2 DEF LoopTypes
<1>13. CASE Club!NobodyToFight /\ UNCHANGED numPlayers
  BY <1>13 DEF Club!NobodyToFight
<1>14. CASE Club!CountdownOver /\ UNCHANGED numPlayers
  <2>1. CASE running
    <3>1. queue # <<>> /\ OnePlace(queue, None, None) /\ defender = None
      BY <1>14, TwoInTheQueue DEF Club!CountdownOver, ClubCourse, ClubPlaces
    <3>2. round' = round + 1 /\ shielded' = TRUE /\ defender' \in Club!Players
          /\ fighter' \in Club!Players /\ queue' \in Seq(Club!Players)
          /\ fighting' = fighting \cup {defender', fighter'}
      BY <1>14, <2>1, <3>1, RoundStarts DEF Club!CountdownOver
    <3>3. QED
      <4>1. UNCHANGED <<numPlayers, score, settled, timer, gone, verdict, final>>
            /\ loop' = Club!At("starting")
        BY <1>14, <2>1 DEF Club!CountdownOver
      <4>2. loop' \in LoopTypes'
        BY <4>1, LoopMoves
      <4>3. round' \in Nat /\ fighting' \subseteq Club!Players
        BY <3>2
      <4>4. QED
        BY <3>2, <4>1, <4>2, <4>3
  <2>2. CASE ~running
    BY <1>14, <2>2 DEF Club!CountdownOver
  <2>3. QED
    BY <2>1, <2>2
<1>15. CASE Club!LoopBreaks /\ UNCHANGED numPlayers
  BY <1>15 DEF Club!LoopBreaks, Club!Streaming
<1>16. CASE Club!Celebrate /\ UNCHANGED numPlayers
  BY <1>16, LeadersArePlayers DEF Club!Celebrate
<1>17. CASE Club!GameEnded /\ UNCHANGED numPlayers
  BY <1>17 DEF Club!GameEnded
<1>18. CASE Club!Reconnect /\ UNCHANGED numPlayers
  BY <1>18 DEF Club!Reconnect, Club!Streaming
<1>19. CASE Club!GiveUp /\ UNCHANGED numPlayers
  BY <1>19 DEF Club!GiveUp, Club!Streaming
<1>20. CASE Club!StreamEnds /\ UNCHANGED numPlayers
  BY <1>20 DEF Club!StreamEnds
<1>21. CASE Club!ForceEnd /\ UNCHANGED numPlayers
  BY <1>21 DEF Club!ForceEnd
<1>22. CASE Club!TimesUp /\ UNCHANGED numPlayers
  <2>1. queue' \in Seq(Club!Players)
    BY <1>22 DEF Club!TimesUp, ClubRounds
  <2>2. QED
    <3>1. /\ defender' = None /\ fighter' = None /\ fighting' \subseteq fighting
          /\ settled' \in Nat /\ timer' = "publish"
          /\ UNCHANGED <<numPlayers, round, score, loop, gone, verdict, final>>
      BY <1>22 DEF Club!TimesUp
    <3>2. QED
      BY <2>1, <3>1
<1>23. CASE Club!TimerStops /\ UNCHANGED numPlayers
  BY <1>23 DEF Club!TimerStops
<1>24. CASE Club!AfterTimeout /\ UNCHANGED numPlayers
  <2>1. CASE Club!ShouldEnd
    BY <1>24, <2>1, LeadersArePlayers DEF Club!AfterTimeout, Club!Decide
  <2>2. CASE ~Club!ShouldEnd
    <3> DEFINE d == IF Club!ToFaceOff THEN Club!First ELSE None
    <3>1. d \in Club!Players \cup {None} /\ queue # <<>> /\ OnePlace(queue, None, None)
      BY <1>24, LeadersArePlayers, TwoInTheQueue DEF Club!AfterTimeout, ClubCourse, ClubRounds,
          ClubPlaces
    <3>2. round' = round + 1 /\ shielded' = TRUE /\ defender' \in Club!Players
          /\ fighter' \in Club!Players /\ queue' \in Seq(Club!Players)
          /\ fighting' = fighting \cup {defender', fighter'}
      BY <1>24, <2>2, <3>1, RoundStarts DEF Club!AfterTimeout
    <3>3. QED
      <4>1. UNCHANGED <<numPlayers, score, loop, final, settled, gone, verdict>>
            /\ timer' = "starting"
        BY <1>24, <2>2 DEF Club!AfterTimeout
      <4>2. LoopTypes' = LoopTypes /\ round' \in Nat /\ fighting' \subseteq Club!Players
        BY <3>2, <4>1
      <4>3. QED
        BY <3>2, <4>1, <4>2
  <2>3. QED
    BY <2>1, <2>2
<1>25. CASE Club!TimerStartsRound /\ UNCHANGED numPlayers
  BY <1>25 DEF Club!TimerStartsRound
<1>26. CASE Club!TimerDies /\ UNCHANGED numPlayers
  BY <1>26 DEF Club!TimerDies
<1>27. CASE UNCHANGED Club!vars
  BY <1>27 DEF Club!vars
<1>28. QED
  BY <1>1, <1>2, <1>3, <1>4, <1>5, <1>6, <1>7, <1>8, <1>9, <1>10, <1>11, <1>12, <1>13,
     <1>14, <1>15, <1>16, <1>17, <1>18, <1>19, <1>20, <1>21, <1>22, <1>23, <1>24, <1>25,
     <1>26, <1>27 DEF Club!Next, Club!Step, Club!Loop

\* Every step keeps the course of the game.
LEMMA ClubCourseStep ==
  ASSUME Club!TypeOK, ClubCourse, ClubRounds, [Club!Next]_(Club!vars)
  PROVE  ClubCourse'
<1> USE DEF ClubCourse, Club!roster, Club!match, Club!update, Club!ending
<1>1. CASE Club!StartGame /\ UNCHANGED numPlayers
  BY <1>1 DEF Club!StartGame
<1>2. CASE Club!WriteFails /\ UNCHANGED numPlayers
  BY <1>2 DEF Club!WriteFails, Club!RunFails
<1>3. CASE Club!ShieldDown /\ UNCHANGED numPlayers
  BY <1>3 DEF Club!ShieldDown
<1>4. CASE Club!Frame /\ UNCHANGED numPlayers
  BY <1>4 DEF Club!Frame
<1>5. ASSUME NEW p \in Club!Players, Club!Process(p), UNCHANGED numPlayers PROVE ClubCourse'
  BY <1>5 DEF Club!Process, Club!Judge
<1>6. CASE Club!FrameDone /\ UNCHANGED numPlayers
  BY <1>6 DEF Club!FrameDone
<1>7. CASE Club!TooLate /\ UNCHANGED numPlayers
  BY <1>7 DEF Club!TooLate
<1>8. CASE Club!Killed /\ UNCHANGED numPlayers
  BY <1>8 DEF Club!Killed, Club!Falls
<1>9. CASE Club!RoundDecided /\ UNCHANGED numPlayers
  BY <1>9 DEF Club!RoundDecided, Club!Decide
<1>10. CASE Club!NextRound /\ UNCHANGED numPlayers
  BY <1>10 DEF Club!NextRound, Club!StartRound
<1>11. CASE Club!RoundStarted /\ UNCHANGED numPlayers
  BY <1>11 DEF Club!RoundStarted
<1>12. CASE Club!EffectSent /\ UNCHANGED numPlayers
  BY <1>12 DEF Club!EffectSent, Club!Judge
<1>13. CASE Club!NobodyToFight /\ UNCHANGED numPlayers
  BY <1>13 DEF Club!NobodyToFight
<1>14. CASE Club!CountdownOver /\ UNCHANGED numPlayers
  BY <1>14 DEF Club!CountdownOver, Club!StartRound
<1>15. CASE Club!LoopBreaks /\ UNCHANGED numPlayers
  BY <1>15 DEF Club!LoopBreaks, Club!Streaming
<1>16. CASE Club!Celebrate /\ UNCHANGED numPlayers
  BY <1>16 DEF Club!Celebrate
<1>17. CASE Club!GameEnded /\ UNCHANGED numPlayers
  BY <1>17 DEF Club!GameEnded
<1>18. CASE Club!Reconnect /\ UNCHANGED numPlayers
  BY <1>18 DEF Club!Reconnect, Club!Streaming
<1>19. CASE Club!GiveUp /\ UNCHANGED numPlayers
  BY <1>19 DEF Club!GiveUp, Club!Streaming
<1>20. CASE Club!StreamEnds /\ UNCHANGED numPlayers
  BY <1>20 DEF Club!StreamEnds
<1>21. CASE Club!ForceEnd /\ UNCHANGED numPlayers
  BY <1>21 DEF Club!ForceEnd
<1>22. CASE Club!TimesUp /\ UNCHANGED numPlayers
  BY <1>22 DEF Club!TimesUp
<1>23. CASE Club!TimerStops /\ UNCHANGED numPlayers
  BY <1>23 DEF Club!TimerStops
<1>24. CASE Club!AfterTimeout /\ UNCHANGED numPlayers
  BY <1>24 DEF Club!AfterTimeout, Club!Decide, Club!StartRound
<1>25. CASE Club!TimerStartsRound /\ UNCHANGED numPlayers
  BY <1>25 DEF Club!TimerStartsRound
<1>26. CASE Club!TimerDies /\ UNCHANGED numPlayers
  BY <1>26 DEF Club!TimerDies
<1>27. CASE UNCHANGED Club!vars
  BY <1>27 DEF Club!vars
<1>28. QED
  BY <1>1, <1>2, <1>3, <1>4, <1>5, <1>6, <1>7, <1>8, <1>9, <1>10, <1>11, <1>12, <1>13,
     <1>14, <1>15, <1>16, <1>17, <1>18, <1>19, <1>20, <1>21, <1>22, <1>23, <1>24, <1>25,
     <1>26, <1>27 DEF Club!Next, Club!Step, Club!Loop

\* Every step leaves the rounds to one of the two tasks.
LEMMA ClubRoundsStep ==
  ASSUME Club!TypeOK, ClubCourse, ClubRounds, ClubPlaces, [Club!Next]_(Club!vars)
  PROVE  ClubRounds'
<1> USE DEF Club!TypeOK, Club!BaseTypeOK, ClubCourse, ClubRounds, Decided, Undecided,
    Club!roster, Club!match, Club!update, Club!ending
<1>1. CASE Club!StartGame /\ UNCHANGED numPlayers
  BY <1>1 DEF Club!StartGame
<1>2. CASE Club!WriteFails /\ UNCHANGED numPlayers
  BY <1>2 DEF Club!WriteFails, Club!RunFails
<1>3. CASE Club!ShieldDown /\ UNCHANGED numPlayers
  BY <1>3 DEF Club!ShieldDown
<1>4. CASE Club!Frame /\ UNCHANGED numPlayers
  BY <1>4 DEF Club!Frame
<1>5. ASSUME NEW p \in Club!Players, Club!Process(p), UNCHANGED numPlayers PROVE ClubRounds'
  BY <1>5 DEF Club!Process, Club!Judge
<1>6. CASE Club!FrameDone /\ UNCHANGED numPlayers
  BY <1>6 DEF Club!FrameDone
<1>7. CASE Club!TooLate /\ UNCHANGED numPlayers
  BY <1>7 DEF Club!TooLate
<1>8. CASE Club!Killed /\ UNCHANGED numPlayers
  <2>1. fighter \in Club!Players /\ defender \in Club!Players
    BY <1>8 DEF Club!Killed
  <2>2. Club!Falls(loop.who)
    BY <1>8 DEF Club!Killed
  <2>3. defender' \in Club!Players /\ fighter' = None /\ queue' # <<>>
    BY <2>1, <2>2, OneFalls
  <2>4. defender' # None
    BY <2>3, PlayersAreSomebody
  <2>5. QED
    BY <1>8, <2>3, <2>4 DEF Club!Killed
<1>9. CASE Club!RoundDecided /\ UNCHANGED numPlayers
  <2>1. Club!First # None
    BY LeadersArePlayers, PlayersAreSomebody
  <2>2. QED
    BY <1>9, <2>1 DEF Club!RoundDecided, Club!Decide
<1>10. CASE Club!NextRound /\ UNCHANGED numPlayers
  <2>1. round' = round + 1 /\ defender' \in Club!Players /\ fighter' \in Club!Players
    BY <1>10, RoundStarts DEF Club!NextRound
  <2>2. defender' # None /\ fighter' # None
    BY <2>1, PlayersAreSomebody
  <2>3. QED
    BY <1>10, <2>1, <2>2 DEF Club!NextRound
<1>11. CASE Club!RoundStarted /\ UNCHANGED numPlayers
  BY <1>11 DEF Club!RoundStarted
<1>12. CASE Club!EffectSent /\ UNCHANGED numPlayers
  BY <1>12 DEF Club!EffectSent, Club!Judge
<1>13. CASE Club!NobodyToFight /\ UNCHANGED numPlayers
  BY <1>13 DEF Club!NobodyToFight
<1>14. CASE Club!CountdownOver /\ UNCHANGED numPlayers
  <2>1. CASE running
    <3>1. queue # <<>> /\ OnePlace(queue, None, None) /\ defender = None
      BY <1>14, TwoInTheQueue DEF Club!CountdownOver, ClubPlaces
    <3>2. round' = round + 1 /\ defender' \in Club!Players /\ fighter' \in Club!Players
      BY <1>14, <2>1, <3>1, RoundStarts DEF Club!CountdownOver
    <3>3. defender' # None /\ fighter' # None
      BY <3>2, PlayersAreSomebody
    <3>4. QED
      BY <1>14, <2>1, <3>2, <3>3 DEF Club!CountdownOver
  <2>2. CASE ~running
    BY <1>14, <2>2 DEF Club!CountdownOver
  <2>3. QED
    BY <2>1, <2>2
<1>15. CASE Club!LoopBreaks /\ UNCHANGED numPlayers
  BY <1>15 DEF Club!LoopBreaks, Club!Streaming
<1>16. CASE Club!Celebrate /\ UNCHANGED numPlayers
  BY <1>16 DEF Club!Celebrate
<1>17. CASE Club!GameEnded /\ UNCHANGED numPlayers
  BY <1>17 DEF Club!GameEnded
<1>18. CASE Club!Reconnect /\ UNCHANGED numPlayers
  BY <1>18 DEF Club!Reconnect, Club!Streaming
<1>19. CASE Club!GiveUp /\ UNCHANGED numPlayers
  BY <1>19 DEF Club!GiveUp, Club!Streaming
<1>20. CASE Club!StreamEnds /\ UNCHANGED numPlayers
  BY <1>20 DEF Club!StreamEnds
<1>21. CASE Club!ForceEnd /\ UNCHANGED numPlayers
  BY <1>21 DEF Club!ForceEnd
<1>22. CASE Club!TimesUp /\ UNCHANGED numPlayers
  BY <1>22 DEF Club!TimesUp
<1>23. CASE Club!TimerStops /\ UNCHANGED numPlayers
  BY <1>23 DEF Club!TimerStops
<1>24. CASE Club!AfterTimeout /\ UNCHANGED numPlayers
  <2>1. CASE Club!ShouldEnd
    BY <1>24, <2>1 DEF Club!AfterTimeout, Club!Decide
  <2>2. CASE ~Club!ShouldEnd
    <3> DEFINE d == IF Club!ToFaceOff THEN Club!First ELSE None
    <3>1. d \in Club!Players \cup {None} /\ queue # <<>> /\ OnePlace(queue, None, None)
      BY <1>24, LeadersArePlayers, TwoInTheQueue DEF Club!AfterTimeout, ClubPlaces
    <3>2. round' = round + 1 /\ defender' \in Club!Players /\ fighter' \in Club!Players
      BY <1>24, <2>2, <3>1, RoundStarts DEF Club!AfterTimeout
    <3>3. defender' # None /\ fighter' # None
      BY <3>2, PlayersAreSomebody
    <3>4. QED
      BY <1>24, <2>2, <3>2, <3>3 DEF Club!AfterTimeout
  <2>3. QED
    BY <2>1, <2>2
<1>25. CASE Club!TimerStartsRound /\ UNCHANGED numPlayers
  BY <1>25 DEF Club!TimerStartsRound
<1>26. CASE Club!TimerDies /\ UNCHANGED numPlayers
  BY <1>26 DEF Club!TimerDies
<1>27. CASE UNCHANGED Club!vars
  BY <1>27 DEF Club!vars
<1>28. QED
  BY <1>1, <1>2, <1>3, <1>4, <1>5, <1>6, <1>7, <1>8, <1>9, <1>10, <1>11, <1>12, <1>13,
     <1>14, <1>15, <1>16, <1>17, <1>18, <1>19, <1>20, <1>21, <1>22, <1>23, <1>24, <1>25,
     <1>26, <1>27 DEF Club!Next, Club!Step, Club!Loop

\* Every step leaves the round to somebody.
LEMMA ClubWatchStep ==
  ASSUME Club!TypeOK, ClubFlags, ClubCourse, ClubRounds, Club!SomebodyWatchesTheRound,
      [Club!Next]_(Club!vars)
  PROVE  Club!SomebodyWatchesTheRound'
<1> USE DEF ClubFlags, Club!BaseTypeOK, ClubCourse, ClubRounds, Club!SomebodyWatchesTheRound,
    Club!roster, Club!match, Club!update, Club!ending
<1>1. CASE Club!StartGame /\ UNCHANGED numPlayers
  BY <1>1 DEF Club!StartGame
<1>2. CASE Club!WriteFails /\ UNCHANGED numPlayers
  BY <1>2 DEF Club!WriteFails, Club!RunFails
<1>3. CASE Club!ShieldDown /\ UNCHANGED numPlayers
  BY <1>3 DEF Club!ShieldDown
<1>4. CASE Club!Frame /\ UNCHANGED numPlayers
  BY <1>4 DEF Club!Frame
<1>5. ASSUME NEW p \in Club!Players, Club!Process(p),
    UNCHANGED numPlayers PROVE Club!SomebodyWatchesTheRound'
  <2>1. UNCHANGED <<numPlayers, running, faceOff, gameOver, timer, broken>> /\ phase = "playing"
    BY <1>5 DEF Club!Process
  <2>2. (phase' = "playing" => timer # "none" \/ ~running \/ faceOff \/ broken \/ gameOver)
    BY <1>5 DEF Club!Process
  <2>3. QED
    BY <2>1, <2>2
<1>6. CASE Club!FrameDone /\ UNCHANGED numPlayers
  BY <1>6 DEF Club!FrameDone
<1>7. CASE Club!TooLate /\ UNCHANGED numPlayers
  BY <1>7 DEF Club!TooLate
<1>8. CASE Club!Killed /\ UNCHANGED numPlayers
  BY <1>8 DEF Club!Killed, Club!Falls
<1>9. CASE Club!RoundDecided /\ UNCHANGED numPlayers
  <2>1. gameOver' \/ loop' = Club!Goes("pause")
    BY <1>9 DEF Club!RoundDecided, Club!Decide
  <2>2. loop' = Club!Goes("pause") => loop'.at = "pause"
    BY DEF Club!TypeOK
  <2>3. QED
    BY <2>1, <2>2
<1>10. CASE Club!NextRound /\ UNCHANGED numPlayers
  BY <1>10 DEF Club!NextRound, Club!StartRound
<1>11. CASE Club!RoundStarted /\ UNCHANGED numPlayers
  BY <1>11 DEF Club!RoundStarted
<1>12. CASE Club!EffectSent /\ UNCHANGED numPlayers
  BY <1>12 DEF Club!EffectSent, Club!Judge
<1>13. CASE Club!NobodyToFight /\ UNCHANGED numPlayers
  BY <1>13 DEF Club!NobodyToFight
<1>14. CASE Club!CountdownOver /\ UNCHANGED numPlayers
  BY <1>14 DEF Club!CountdownOver, Club!StartRound
<1>15. CASE Club!LoopBreaks /\ UNCHANGED numPlayers
  BY <1>15 DEF Club!LoopBreaks, Club!Streaming
<1>16. CASE Club!Celebrate /\ UNCHANGED numPlayers
  BY <1>16 DEF Club!Celebrate
<1>17. CASE Club!GameEnded /\ UNCHANGED numPlayers
  BY <1>17 DEF Club!GameEnded
<1>18. CASE Club!Reconnect /\ UNCHANGED numPlayers
  BY <1>18 DEF Club!Reconnect, Club!Streaming
<1>19. CASE Club!GiveUp /\ UNCHANGED numPlayers
  BY <1>19 DEF Club!GiveUp, Club!Streaming
<1>20. CASE Club!StreamEnds /\ UNCHANGED numPlayers
  BY <1>20 DEF Club!StreamEnds
<1>21. CASE Club!ForceEnd /\ UNCHANGED numPlayers
  BY <1>21 DEF Club!ForceEnd
<1>22. CASE Club!TimesUp /\ UNCHANGED numPlayers
  BY <1>22 DEF Club!TimesUp
<1>23. CASE Club!TimerStops /\ UNCHANGED numPlayers
  BY <1>23 DEF Club!TimerStops
<1>24. CASE Club!AfterTimeout /\ UNCHANGED numPlayers
  BY <1>24 DEF Club!AfterTimeout, Club!Decide, Club!StartRound
<1>25. CASE Club!TimerStartsRound /\ UNCHANGED numPlayers
  BY <1>25 DEF Club!TimerStartsRound
<1>26. CASE Club!TimerDies /\ UNCHANGED numPlayers
  BY <1>26 DEF Club!TimerDies
<1>27. CASE UNCHANGED Club!vars
  BY <1>27 DEF Club!vars
<1>28. QED
  BY <1>1, <1>2, <1>3, <1>4, <1>5, <1>6, <1>7, <1>8, <1>9, <1>10, <1>11, <1>12, <1>13,
     <1>14, <1>15, <1>16, <1>17, <1>18, <1>19, <1>20, <1>21, <1>22, <1>23, <1>24, <1>25,
     <1>26, <1>27 DEF Club!Next, Club!Step, Club!Loop

\* What a step says of the next roster it says of its places.
LEMMA PlacesNext ==
  ASSUME UNCHANGED numPlayers, OnePlace(queue', defender', fighter')
  PROVE  OnePlace(queue, defender, fighter)'
BY DEF OnePlace

\* Most steps leave the roster alone: those of the loop that settle nothing,
QuietLoop ==
  \/ \E p \in Club!Players : Club!Process(p)
  \/ Club!FrameDone \/ Club!TooLate \/ Club!RoundStarted \/ Club!EffectSent
  \/ Club!NobodyToFight \/ Club!LoopBreaks \/ Club!Celebrate \/ Club!GameEnded

\* and those of the other tasks.
QuietTask ==
  \/ Club!WriteFails \/ Club!ShieldDown \/ Club!Frame \/ Club!Reconnect \/ Club!GiveUp
  \/ Club!StreamEnds \/ Club!ForceEnd \/ Club!TimerStops \/ Club!TimerStartsRound
  \/ Club!TimerDies

\* Those of the loop leave the roster, the scores and the outcome alone,
LEMMA QuietLoops ==
  ASSUME QuietLoop
  PROVE  UNCHANGED <<queue, defender, fighter, fighting, faceOff, score, gameOver>>
         /\ (phase' = "new" \/ phase # "new")
BY DEF QuietLoop, Club!roster, Club!match,
      Club!Process, Club!FrameDone, Club!TooLate, Club!RoundStarted, Club!EffectSent,
      Club!NobodyToFight, Club!LoopBreaks, Club!Streaming, Club!Celebrate, Club!GameEnded

\* and so do those of the other tasks.
LEMMA QuietTasks ==
  ASSUME QuietTask, ClubCourse
  PROVE  UNCHANGED <<queue, defender, fighter, fighting, faceOff, score, gameOver>>
         /\ (phase' = "new" \/ phase # "new")
BY DEF QuietTask, ClubCourse, Club!roster, Club!match,
       Club!WriteFails, Club!RunFails, Club!ShieldDown, Club!Frame, Club!Streaming, Club!Reconnect,
       Club!GiveUp, Club!StreamEnds, Club!ForceEnd, Club!TimerStops, Club!TimerStartsRound,
       Club!TimerDies

\* Every step leaves everybody one place.
LEMMA ClubPlacesStep ==
  ASSUME ClubInv, [Club!Next]_(Club!vars)
  PROVE  ClubPlaces'
<1> USE DEF ClubInv, Club!roster, Club!match
<1>1. CASE UNCHANGED <<numPlayers, queue, defender, fighter, fighting, faceOff>>
             /\ (phase' = "new" \/ phase # "new")
  <2>1. OnePlace(queue, defender, fighter) => OnePlace(queue', defender', fighter')
    BY <1>1, Zenon
  <2>2. QED
    BY <1>1, <2>1, PlacesNext DEF ClubPlaces
<1>2. CASE Club!StartGame /\ UNCHANGED numPlayers
  <2>1. /\ numPlayers \in Nat /\ queue' = [i \in 1..numPlayers |-> i]
        /\ defender' = None /\ fighter' = None /\ fighting' = {}
    BY <1>2 DEF Club!StartGame, ClubCourse, Club!TypeOK, Club!BaseTypeOK
  <2>2. Len(queue') = numPlayers
    BY <2>1
  <2>3. OnePlace(queue', None, None)
    BY <2>1, <2>2, PlayersAreSomebody DEF OnePlace
  <2>4. QED
    BY <1>2, <2>1, <2>3, PlacesNext DEF ClubPlaces
<1>3. CASE Club!Killed /\ UNCHANGED numPlayers
  <2>1. fighter \in Club!Players /\ defender \in Club!Players
    BY <1>3 DEF Club!Killed, Club!TypeOK, ClubRounds
  <2>2. Club!Falls(loop.who)
    BY <1>3 DEF Club!Killed
  <2>3. /\ fighter' = None
        /\ fighting \subseteq {defender, fighter} => fighting' \subseteq {defender'}
        /\ OnePlace(queue, defender, fighter) => OnePlace(queue', defender', None)
    BY <2>1, <2>2, OneFalls
  <2>4. QED
    BY <1>3, <2>3, PlacesNext DEF Club!Killed, ClubPlaces
<1>4. CASE Club!RoundDecided /\ UNCHANGED numPlayers
  <2>1. ~faceOff' => UNCHANGED <<numPlayers, phase, queue, defender, fighter, fighting, faceOff>>
    BY <1>4 DEF Club!RoundDecided, Club!ToFaceOff
  <2>2. OnePlace(queue, defender, fighter) /\ ~faceOff' => OnePlace(queue', defender', fighter')
    BY <2>1, Zenon
  <2>3. QED
    BY <1>4, <2>1, <2>2, PlacesNext DEF ClubPlaces
<1>5. CASE Club!NextRound /\ UNCHANGED numPlayers
  <2>1. /\ queue # <<>> /\ defender \in Club!Players \cup {None} /\ defender # None
        /\ Club!StartRound(queue, defender) /\ UNCHANGED <<phase, faceOff>>
    BY <1>5 DEF Club!NextRound, Club!TypeOK, ClubRounds
  <2>2. /\ defender' = defender /\ fighting' = fighting \cup {defender', fighter'}
        /\ OnePlace(queue, defender, None) => OnePlace(queue', defender', fighter')
    BY <2>1, RoundStarts
  <2>3. ~faceOff => fighter = None /\ phase # "new"
    BY <1>5 DEF Club!NextRound, ClubRounds
  <2>4. fighting \subseteq Club!Players /\ None \notin Club!Players
    BY PlayersAreSomebody DEF Club!TypeOK, Club!BaseTypeOK
  <2>5. ~faceOff' => /\ fighting' \subseteq {defender', fighter'}
                     /\ OnePlace(queue', defender', fighter')
    BY <2>1, <2>2, <2>3, <2>4 DEF ClubPlaces
  <2>6. QED
    BY <1>5, <2>5, PlacesNext DEF ClubPlaces
<1>6. CASE Club!CountdownOver /\ running /\ UNCHANGED numPlayers
  <2>1. /\ queue # <<>> /\ OnePlace(queue, None, None) /\ defender = None /\ fighting = {}
        /\ Club!StartRound(queue, defender)
    BY <1>6, TwoInTheQueue DEF Club!CountdownOver, ClubCourse, ClubPlaces, Club!TypeOK,
        Club!BaseTypeOK
  <2>2. /\ fighting' = fighting \cup {defender', fighter'}
        /\ OnePlace(queue', defender', fighter')
    BY <2>1, RoundStarts
  <2>3. QED
    BY <1>6, <2>1, <2>2, PlacesNext DEF ClubPlaces
<1>7. CASE Club!TimesUp /\ UNCHANGED numPlayers
  <2>1. /\ fighter \in Club!Players /\ defender \in Club!Players
        /\ phase' = phase /\ faceOff' = faceOff
        /\ ~faceOff /\ phase # "new"
        /\ queue' = queue \o <<defender, fighter>> /\ defender' = None /\ fighter' = None
        /\ fighting' = fighting \ {defender, fighter}
    BY <1>7 DEF Club!TimesUp, Club!TypeOK, ClubCourse, ClubRounds
  <2>2. OnePlace(queue', None, None)
    BY <2>1, BothQueue DEF ClubPlaces, Club!TypeOK, Club!BaseTypeOK
  <2>3. QED
    BY <1>7, <2>1, <2>2, PlacesNext DEF ClubPlaces
<1>8. CASE Club!AfterTimeout /\ ~Club!ShouldEnd /\ UNCHANGED numPlayers
  <2>1. CASE Club!ToFaceOff
    BY <1>8, <2>1 DEF Club!AfterTimeout, ClubPlaces
  <2>2. CASE ~Club!ToFaceOff
    <3>a. ~faceOff /\ defender = None /\ fighter = None /\ phase # "new"
      BY <1>8 DEF Club!AfterTimeout, ClubCourse, ClubRounds
    <3>b. fighting = {} /\ OnePlace(queue, None, None)
      BY <3>a, PlayersAreSomebody DEF ClubPlaces, Club!TypeOK, Club!BaseTypeOK
    <3>c. queue # <<>>
      BY <3>b, TwoInTheQueue DEF Club!TypeOK, Club!BaseTypeOK
    <3>1. /\ OnePlace(queue, None, None) /\ queue # <<>> /\ fighting = {}
          /\ Club!StartRound(queue, None) /\ phase' = phase
      BY <1>8, <2>2, <3>b, <3>c, Zenon DEF Club!AfterTimeout
    <3>2. /\ fighting' = fighting \cup {defender', fighter'}
          /\ OnePlace(queue', defender', fighter')
      BY <3>1, RoundStarts
    <3>3. QED
      BY <1>8, <3>1, <3>2, PlacesNext DEF ClubPlaces
  <2>3. QED
    BY <2>1, <2>2
<1>9. CASE UNCHANGED Club!vars
  <2>1. OnePlace(queue, defender, fighter) => OnePlace(queue', defender', fighter')
    BY <1>9, Zenon DEF Club!vars
  <2>2. QED
    BY <1>9, <2>1, PlacesNext DEF ClubPlaces, Club!vars
<1>10. CASE Club!AfterTimeout /\ Club!ShouldEnd /\ UNCHANGED numPlayers
  BY <1>1, <1>10 DEF Club!AfterTimeout, ClubCourse
<1>11. CASE Club!CountdownOver /\ ~running /\ UNCHANGED numPlayers
  BY <1>1, <1>11 DEF Club!CountdownOver
<1>12. CASE QuietTask /\ UNCHANGED numPlayers
  <2>1. UNCHANGED <<numPlayers, queue, defender, fighter, fighting, faceOff>>
        /\ (phase' = "new" \/ phase # "new")
    BY <1>12, QuietTasks
  <2>2. QED
    BY <1>1, <2>1
<1>13. CASE QuietLoop /\ UNCHANGED numPlayers
  <2>1. UNCHANGED <<numPlayers, queue, defender, fighter, fighting, faceOff>>
        /\ (phase' = "new" \/ phase # "new")
    BY <1>13, QuietLoops
  <2>2. QED
    BY <1>1, <2>1
<1>14. CASE (Club!AfterTimeout \/ Club!CountdownOver) /\ UNCHANGED numPlayers
  BY <1>6, <1>8, <1>10, <1>11, <1>14 DEF Club!Next
<1>15. QED
  BY <1>2, <1>3, <1>4, <1>5, <1>7, <1>9, <1>12, <1>13, <1>14
  DEF Club!Next, Club!Step, Club!Loop, QuietTask, QuietLoop

\* If the game is decided the leader is the one it was decided for.
LEMMA LeaderStays ==
  ASSUME Club!TypeOK, Club!VerdictsAgree, verdict # None
  PROVE  Club!First = verdict
<1>1. numPlayers \in Nat /\ score \in [Club!Players -> Nat] /\ 1 \in Club!Players
  BY DEF Club!TypeOK, Club!BaseTypeOK
<1>2. verdict \in Club!Players
  BY DEF Club!TypeOK
<1>3. Club!First \in Club!Players /\ Ahead(Club!First, verdict)
  BY <1>1, <1>2, LeaderLeads DEF Club!First
<1>4. Club!First # verdict => score[Club!First] < score[verdict]
  BY <1>3 DEF Club!VerdictsAgree
<1>5. score[Club!First] \in Nat /\ score[verdict] \in Nat
  BY <1>1, <1>2, <1>3
<1>6. QED
  BY <1>3, <1>4, <1>5 DEF Ahead

\* Every step keeps the outcome.
LEMMA ClubOutcomeStep ==
  ASSUME ClubInv, [Club!Next]_(Club!vars)
  PROVE  ClubOutcome'
<1> USE DEF ClubInv, ClubCourse, ClubRounds, ClubOutcome, Club!VerdictsAgree, Club!roster,
    Club!match, Club!update, Club!ending
<1>1. CASE Club!StartGame /\ UNCHANGED numPlayers
  BY <1>1 DEF Club!StartGame
<1>2. CASE Club!WriteFails /\ UNCHANGED numPlayers
  BY <1>2 DEF Club!WriteFails, Club!RunFails
<1>3. CASE Club!ShieldDown /\ UNCHANGED numPlayers
  BY <1>3 DEF Club!ShieldDown
<1>4. CASE Club!Frame /\ UNCHANGED numPlayers
  BY <1>4 DEF Club!Frame
<1>5. ASSUME NEW p \in Club!Players, Club!Process(p), UNCHANGED numPlayers PROVE ClubOutcome'
  <2>1. UNCHANGED <<numPlayers, Club!match, timer, Club!ending>> /\ phase = "playing"
    BY <1>5 DEF Club!Process
  <2>2. loop'.at \notin {"beep", "pause", "starting"}
    BY <1>5, ClubJudged DEF Club!Process
  <2>3. QED
    BY <2>1, <2>2
<1>6. CASE Club!FrameDone /\ UNCHANGED numPlayers
  BY <1>6 DEF Club!FrameDone
<1>7. CASE Club!TooLate /\ UNCHANGED numPlayers
  BY <1>7 DEF Club!TooLate
<1>8. CASE Club!Killed /\ UNCHANGED numPlayers
  <2>1. gameOver' = gameOver /\ verdict' = verdict /\ final' = final /\ phase' = phase
        /\ ~gameOver /\ phase = "playing"
    BY <1>8 DEF Club!Killed
  <2>2. QED
    BY <2>1
<1>9. CASE Club!RoundDecided /\ UNCHANGED numPlayers
  <2>1. CASE Club!ShouldEnd
    <3>1. /\ gameOver' /\ verdict' = Club!First /\ loop' = Club!Goes("effect")
          /\ UNCHANGED <<numPlayers, phase, fighter, score, timer, final>>
          /\ phase = "playing" /\ fighter = None /\ timer = "none" /\ final = None
      BY <1>9, <2>1 DEF Club!RoundDecided, Club!Decide
    <3>2. Club!First # None /\ loop'.at = "effect"
      BY <3>1, LeadersArePlayers, PlayersAreSomebody DEF Club!TypeOK, Club!BaseTypeOK
    <3>3. \A q \in Club!Players \ {Club!First} : score[q] < score[Club!First]
      BY <2>1, DecidedLeader
    <3>4. QED
      BY <3>1, <3>2, <3>3
  <2>2. CASE ~Club!ShouldEnd
    <3>1. ~gameOver /\ UNCHANGED <<gameOver, verdict, final, phase>>
      BY <1>9, <2>2 DEF Club!RoundDecided
    <3>2. QED
      BY <3>1
  <2>3. QED
    BY <2>1, <2>2
<1>10. CASE Club!NextRound /\ UNCHANGED numPlayers
  <2>1. ~gameOver /\ UNCHANGED <<gameOver, verdict, final, phase>>
    BY <1>10 DEF Club!NextRound
  <2>2. QED
    BY <2>1
<1>11. CASE Club!RoundStarted /\ UNCHANGED numPlayers
  BY <1>11 DEF Club!RoundStarted
<1>12. CASE Club!EffectSent /\ UNCHANGED numPlayers
  <2>1. UNCHANGED <<numPlayers, Club!match, timer, Club!ending>> /\ phase = "playing"
    BY <1>12 DEF Club!EffectSent
  <2>2. loop'.at \notin {"beep", "pause", "starting"}
    BY <1>12, ClubJudged DEF Club!EffectSent
  <2>3. QED
    BY <2>1, <2>2
<1>13. CASE Club!NobodyToFight /\ UNCHANGED numPlayers
  BY <1>13 DEF Club!NobodyToFight
<1>14. CASE Club!CountdownOver /\ UNCHANGED numPlayers
  <2>1. ~gameOver /\ UNCHANGED <<gameOver, verdict, final>> /\ phase = "intro"
    BY <1>14 DEF Club!CountdownOver
  <2>2. QED
    BY <2>1
<1>15. CASE Club!LoopBreaks /\ UNCHANGED numPlayers
  BY <1>15 DEF Club!LoopBreaks, Club!Streaming
<1>16. CASE Club!Celebrate /\ UNCHANGED numPlayers
  <2>1. UNCHANGED <<numPlayers, fighter, score, loop, gameOver, verdict>> /\ timer' = "none"
        /\ final' = Club!First /\ phase' = "ending"
    BY <1>16 DEF Club!Celebrate
  <2>2. verdict # None => Club!First = verdict
    BY LeaderStays
  <2>3. QED
    BY <2>1, <2>2
<1>17. CASE Club!GameEnded /\ UNCHANGED numPlayers
  BY <1>17 DEF Club!GameEnded
<1>18. CASE Club!Reconnect /\ UNCHANGED numPlayers
  BY <1>18 DEF Club!Reconnect, Club!Streaming
<1>19. CASE Club!GiveUp /\ UNCHANGED numPlayers
  BY <1>19 DEF Club!GiveUp, Club!Streaming
<1>20. CASE Club!StreamEnds /\ UNCHANGED numPlayers
  BY <1>20 DEF Club!StreamEnds
<1>21. CASE Club!ForceEnd /\ UNCHANGED numPlayers
  BY <1>21 DEF Club!ForceEnd
<1>22. CASE Club!TimesUp /\ UNCHANGED numPlayers
  <2>1. ~gameOver /\ UNCHANGED <<gameOver, verdict, final, phase>>
    BY <1>22 DEF Club!TimesUp
  <2>2. QED
    BY <2>1
<1>23. CASE Club!TimerStops /\ UNCHANGED numPlayers
  BY <1>23 DEF Club!TimerStops
<1>24. CASE Club!AfterTimeout /\ UNCHANGED numPlayers
  <2>1. CASE Club!ShouldEnd
    <3>1. /\ gameOver' /\ verdict' = Club!First /\ timer' = "none"
          /\ UNCHANGED <<numPlayers, phase, fighter, score, loop, final>>
          /\ fighter = None /\ phase \in {"playing", "over"} /\ final = None
          /\ loop.at \notin {"beep", "pause", "starting"}
      BY <1>24, <2>1 DEF Club!AfterTimeout, Club!Decide, Club!TypeOK, Club!BaseTypeOK
    <3>2. Club!First # None
      BY LeadersArePlayers, PlayersAreSomebody DEF Club!TypeOK, Club!BaseTypeOK
    <3>3. \A q \in Club!Players \ {Club!First} : score[q] < score[Club!First]
      BY <2>1, DecidedLeader
    <3>4. QED
      BY <3>1, <3>2, <3>3
  <2>2. CASE ~Club!ShouldEnd
    <3>1. ~gameOver /\ UNCHANGED <<gameOver, verdict, final, phase>>
      BY <1>24, <2>2 DEF Club!AfterTimeout
    <3>2. QED
      BY <3>1
  <2>3. QED
    BY <2>1, <2>2
<1>25. CASE Club!TimerStartsRound /\ UNCHANGED numPlayers
  BY <1>25 DEF Club!TimerStartsRound
<1>26. CASE Club!TimerDies /\ UNCHANGED numPlayers
  BY <1>26 DEF Club!TimerDies
<1>27. CASE UNCHANGED Club!vars
  BY <1>27 DEF Club!vars
<1>28. QED
  BY <1>1, <1>2, <1>3, <1>4, <1>5, <1>6, <1>7, <1>8, <1>9, <1>10, <1>11, <1>12, <1>13,
     <1>14, <1>15, <1>16, <1>17, <1>18, <1>19, <1>20, <1>21, <1>22, <1>23, <1>24, <1>25,
     <1>26, <1>27 DEF Club!Next, Club!Step, Club!Loop

-----------------------------------------------------------------------------
(* The invariant, and what follows from it. *)

\* Fight Club starts with the invariant,
LEMMA InitClub ==
  ASSUME CreateGame, game = "fight_club"
  PROVE  ClubInv
<1> USE DEF CreateGame, Club!Init, Club!BaseInit
<1>1. ClubFlags
  BY DEF ClubFlags, Club!BaseTypeOK
<1>2. ClubTypes
  BY DEF ClubTypes, LoopTypes
<1>3. ClubCourse
  BY DEF ClubCourse
<1>4. ClubRounds
  BY DEF ClubRounds, Decided
<1>5. ClubPlaces /\ Club!SomebodyWatchesTheRound
  BY DEF ClubPlaces, Club!SomebodyWatchesTheRound
<1>6. ClubOutcome
  BY DEF ClubOutcome, Club!VerdictsAgree
<1>7. QED
  BY <1>1, <1>2, <1>3, <1>4, <1>5, <1>6, ClubTypeParts DEF ClubInv

\* and each of its steps keeps it.
LEMMA ClubStep ==
  ASSUME ClubInv, [Club!Next]_(Club!vars)
  PROVE  ClubInv'
<1>1. /\ Club!TypeOK /\ ClubFlags /\ ClubTypes /\ ClubCourse /\ ClubRounds
      /\ ClubPlaces /\ ClubOutcome /\ Club!SomebodyWatchesTheRound
  BY ClubTypeParts DEF ClubInv
<1>2. fighting \subseteq Club!Players
  BY <1>1 DEF ClubTypes
<1>3. ClubFlags' /\ ClubTypes'
  BY <1>1, <1>2, ClubFlagsStep, ClubTypesStep
<1>4. Club!TypeOK'
  BY <1>3 DEF Club!TypeOK, ClubFlags, ClubTypes, LoopTypes
<1>5. ClubCourse' /\ ClubRounds' /\ Club!SomebodyWatchesTheRound'
  BY <1>1, ClubCourseStep, ClubRoundsStep, ClubWatchStep
<1>6. ClubPlaces' /\ ClubOutcome'
  BY ClubPlacesStep, ClubOutcomeStep
<1>7. QED
  BY <1>4, <1>5, <1>6 DEF ClubInv

\* What is to be shown is shown of Fight Club only.
ClubGame == game = "fight_club" => ClubInv

\* The invariant holds whenever Fight Club is played; so every variable of it
\* has its type.
THEOREM ClubInvariance == Spec => []ClubGame
<1>1. CreateGame => ClubGame
  BY InitClub DEF ClubGame
<1>2. ClubGame /\ [Next]_modesVars => ClubGame'
  <2>1. SUFFICES ASSUME game' = "fight_club", ClubGame, [Next]_modesVars PROVE ClubInv'
    BY DEF ClubGame
  <2>2. game = "fight_club" /\ ClubInv
    BY <2>1 DEF ClubGame, Next, Outside, modesVars
  <2>3. [Club!Next]_(Club!vars)
    BY <2>1, <2>2 DEF Next, modesVars, clubVars, Club!vars
  <2>4. QED
    BY <2>2, <2>3, ClubStep
<1>3. QED
  BY <1>1, <1>2, PTL DEF Spec

\* Rounds are settled once, by the loop or by the timer, although both may be
\* about to (fight_club.py).
THEOREM RoundsAreSettledOnce == Spec => []RoundsSettleOnce
<1>1. ClubGame => RoundsSettleOnce
  BY DEF ClubGame, ClubInv, ClubRounds, Decided, Undecided, Club!TypeOK,
         RoundsSettleOnce, Club!RoundsSettleOnce
<1>2. QED
  BY <1>1, ClubInvariance, PTL

\* While the game goes on, the timer or the loop will settle the round.
THEOREM SomebodyAlwaysWatches == Spec => []SomebodyWatchesTheRound
<1>1. ClubGame => SomebodyWatchesTheRound
  BY DEF ClubGame, ClubInv, SomebodyWatchesTheRound
<1>2. QED
  BY <1>1, ClubInvariance, PTL

\* The instance of FightClub counts as FiniteSets does.
LEMMA ClubSameCount == ASSUME NEW S PROVE Club!Cardinality(S) = Cardinality(S)
BY DEF Club!Cardinality, Cardinality

\* Counting its places in the queue finds one of a player that waits, and none
\* of one that fights.
LEMMA PlacesCounted ==
  ASSUME numPlayers \in Nat, NEW q \in Seq(Club!Players), NEW d, NEW f, OnePlace(q, d, f),
         NEW p \in Club!Players
  PROVE  Club!Cardinality({i \in DOMAIN q : q[i] = p}) = IF p = d \/ p = f THEN 0 ELSE 1
<1> DEFINE Places == {i \in DOMAIN q : q[i] = p}
<1>1. DOMAIN q = 1..Len(q)
  OBVIOUS
<1>2. CASE p = d \/ p = f
  <2>1. Places = {}
    BY <1>1, <1>2 DEF OnePlace
  <2>2. QED
    BY <1>2, <2>1, FS_EmptySet, ClubSameCount
<1>3. CASE ~(p = d \/ p = f)
  <2>1. PICK i \in 1..Len(q) : q[i] = p
    BY <1>3 DEF OnePlace
  <2>2. Places = {i}
    BY <1>1, <2>1 DEF OnePlace
  <2>3. Cardinality(Places) = 1
    BY <2>2, FS_Singleton
  <2>4. QED
    BY <1>3, <2>3, ClubSameCount
<1>4. QED
  BY <1>2, <1>3

\* Until there is a face-off every player has one place, in the queue or in the
\* fight, whichever task settles the round and whichever starts the next.
THEOREM EverybodyHasOnePlace == Spec => []EveryPlayerHasOnePlace
<1>1. ClubGame => EveryPlayerHasOnePlace
  <2>1. SUFFICES ASSUME ClubInv PROVE Club!EveryPlayerHasOnePlace
    BY DEF ClubGame, EveryPlayerHasOnePlace
  <2>2. SUFFICES ASSUME phase \in {"intro", "playing"}, ~faceOff, NEW p \in Club!Players
                 PROVE  Club!Cardinality({i \in DOMAIN queue : queue[i] = p})
                          + (IF p = defender THEN 1 ELSE 0) + (IF p = fighter THEN 1 ELSE 0) = 1
    BY DEF Club!EveryPlayerHasOnePlace
  <2>3. /\ numPlayers \in Nat /\ queue \in Seq(Club!Players) /\ OnePlace(queue, defender, fighter)
    BY <2>1, <2>2 DEF ClubInv, Club!TypeOK, Club!BaseTypeOK, ClubPlaces
  <2>4. ~(p = defender /\ p = fighter)
    BY <2>3, PlayersAreSomebody DEF OnePlace
  <2>5. Club!Cardinality({i \in DOMAIN queue : queue[i] = p})
          = IF p = defender \/ p = fighter THEN 0 ELSE 1
    BY <2>3, PlacesCounted
  <2>6. QED
    BY <2>4, <2>5
<1>2. QED
  BY <1>1, ClubInvariance, PTL
=============================================================================
