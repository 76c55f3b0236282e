----------------------------- MODULE Tournament -----------------------------
(***************************************************************************)
(* The tournament: a bracket of matches, played one after the other by the *)
(* mode's own loop, which reads the stream itself.  That loop knows no     *)
(* disconnects and does not open a broken stream again.                    *)
(***************************************************************************)
EXTENDS BaseGame, Sequences

CONSTANT MaxField \* the numbers of players for which brackets are compared

VARIABLES
  bracket,   \* the matches, the first round's first
  current,   \* the index of current_match, or None
  state,     \* tournament_state of each player
  shielded   \* is the match's invincibility on?

vars == <<numPlayers, phase, running, bracket, current, state, shielded, loop, hot>>
field == <<bracket, current, state>>

Init ==
  /\ BaseInit
  /\ bracket = <<>> /\ current = None /\ state = [p \in Players |-> "waiting"]
  /\ shielded = FALSE

-----------------------------------------------------------------------------
(* _generate_bracket, for n players. *)

\* The slots are doubled until they suffice; a round has half as many matches
\* as the one before.
Doubled[k \in Nat] == IF k = 0 THEN 1 ELSE 2 * Doubled[k - 1]

Rounds(n)  == CHOOSE k \in 0..n : Doubled[k] >= n /\ \A j \in 0..(k - 1) : Doubled[j] < n
Slots(n)   == Doubled[Rounds(n)]
Byes(n)    == Slots(n) - n
Matches(n) == Slots(n) - 1
MatchesIn(r, n) == Doubled[Rounds(n) - r]

\* The round of the match with the 0-based id m.
RoundOf(m, n) == CHOOSE r \in 1..Rounds(n) :
  m >= Slots(n) - 2 * MatchesIn(r, n) /\ m < Slots(n) - MatchesIn(r, n)

\* Mutant: the byes are not taken out of the players of the other matches.
SeatedWithByes(m, n) == IF m < Byes(n) THEN {m + 1} ELSE {2 * m + 1, 2 * m + 2} \cap (1..n)

\* The seeds that play the first-round match m: one alone if it is a bye.
Seated(m, n) ==
  IF m < Byes(n) THEN {m + 1}
  ELSE LET i == Byes(n) + 2 * (m - Byes(n)) IN {i + 1, i + 2} \cap (1..n)

\* _advance_winner: the match and the slot that await the winner of m.
Place(m, n) ==
  LET here  == MatchesIn(RoundOf(m, n), n)
      index == m % here
      first == Slots(n) - 2 * MatchesIn(RoundOf(m, n) + 1, n)
  IN  <<first + index \div 2, index % 2>>

\* The bracket of players seeded by s.
Bracket(s) ==
  [i \in 1..Matches(numPlayers) |->
     LET first == i <= MatchesIn(1, numPlayers)
         bye   == first /\ i - 1 < Byes(numPlayers)
     IN  [players |-> IF first THEN {s[j] : j \in Seated(i - 1, numPlayers)} ELSE {},
          bye |-> bye, complete |-> bye,
          winner |-> IF bye THEN s[i] ELSE None]]

StartGame ==
  /\ phase = "new" /\ phase' = "intro"
  /\ \E s \in [Players -> Players] :
       /\ \A p, q \in Players : s[p] = s[q] => p = q
       /\ bracket' = Bracket(s)
       /\ state' = [p \in Players |-> IF \E i \in DOMAIN bracket' : bracket'[i].bye /\ bracket'[i].winner = p
                                      THEN "bye" ELSE "waiting"]
  /\ UNCHANGED <<running, current, shielded, loop, hot>>

CountdownOver ==
  /\ phase = "intro"
  /\ phase' = IF running THEN "playing" ELSE "ended"
  /\ loop' = At("pick")
  /\ UNCHANGED <<running, field, shielded, hot>>

-----------------------------------------------------------------------------
(* _gameplay_loop. *)

Ready(i) == ~bracket[i].complete /\ Cardinality(bracket[i].players) = 2
NextMatch == {i \in DOMAIN bracket : Ready(i) /\ \A j \in DOMAIN bracket : Ready(j) => i <= j}
Active == {p \in Players : state[p] # "eliminated"}

\* The next match starts, with its players invincible.
PickMatch ==
  /\ Playing("pick") /\ running
  /\ \E i \in NextMatch :
       /\ current' = i
       /\ state' = [p \in Players |-> IF p \in bracket[i].players THEN "fighting" ELSE state[p]]
  /\ shielded' = TRUE /\ loop' = At("match")
  /\ UNCHANGED <<phase, running, bracket, hot>>

\* Without a match to play the loop looks again and again, unless the
\* tournament is forced to end or one player is left.
LoopEnds ==
  /\ Playing("pick")
  /\ ~running \/ (NextMatch = {} /\ Cardinality(Active) <= 1)
  /\ phase' = "over" /\ loop' = Idle
  /\ UNCHANGED <<running, field, shielded, hot>>

ShieldDown ==
  /\ shielded /\ shielded' = FALSE
  /\ UNCHANGED <<phase, running, field, loop, hot>>

\* Mutant: the match does not look at running.
MatchOverOnly ==
  /\ Playing("match") /\ bracket[current].complete
  /\ current' = None /\ loop' = At("pick")
  /\ UNCHANGED <<phase, running, bracket, state, shielded, hot>>

\* A match that a fall completed, or that the end of the game cuts short, is
\* left as it is: what follows in the code is for a timeout only.
MatchOver ==
  /\ Playing("match") /\ (~running \/ bracket[current].complete)
  /\ current' = None /\ loop' = At("pick")
  /\ UNCHANGED <<phase, running, bracket, state, shielded, hot>>

\* The stream was closed: the same match is started anew after a pause.
StreamEnds ==
  /\ Playing("match") /\ running /\ ~bracket[current].complete
  /\ current' = None /\ loop' = At("pick")
  /\ UNCHANGED <<phase, running, bracket, state, shielded, hot>>

\* A random winner is settled, but its effect is one the protocol does not
\* have: the error leaves run().
TimesUp ==
  /\ Playing("match") /\ running /\ ~bracket[current].complete
  /\ \E w \in bracket[current].players :
       /\ bracket' = [bracket EXCEPT ![current].winner = w, ![current].complete = TRUE]
       /\ state' = [p \in Players |-> IF p = w THEN "waiting"
                                      ELSE IF p \in bracket[current].players THEN "eliminated"
                                      ELSE state[p]]
  /\ phase' = "failed" /\ running' = FALSE
  /\ UNCHANGED <<current, shielded, loop, hot>>

Frame ==
  /\ Playing("match") /\ running /\ ~bracket[current].complete
  /\ \E h \in SUBSET Players : hot' = h
  /\ loop' = Onwards
  /\ UNCHANGED <<phase, running, field, shielded>>

Process(p) ==
  /\ Playing("update") /\ p \in hot
  /\ hot' = hot \ {p} /\ loop' = [at |-> "sound", who |-> p]
  /\ UNCHANGED <<phase, running, field, shielded>>

FrameDone ==
  /\ Playing("update") /\ hot = {}
  /\ loop' = At("match")
  /\ UNCHANGED <<phase, running, field, shielded, hot>>

\* _kill_player_impl: a fall counts for one that fights in this match, also
\* when its opponent has fallen already, in the same update.
Counts(p) == state[p] = "fighting" /\ ~shielded /\ p \in bracket[current].players

Fall ==
  /\ Playing("sound")
  /\ bracket' =
       IF Counts(loop.who)
         THEN [bracket EXCEPT ![current].complete = TRUE,
                 ![current].winner = CHOOSE w \in bracket[current].players : w # loop.who]
         ELSE bracket
  /\ loop' = Onwards
  /\ UNCHANGED <<phase, running, current, state, shielded, hot>>

\* No error of the stream is caught.
StreamFails ==
  /\ phase = "playing" /\ loop.at \in {"match", "update"}
  /\ phase' = "failed" /\ running' = FALSE
  /\ UNCHANGED <<field, shielded, loop, hot>>

\* The colours of the intro cannot be written; there is no champion to
\* celebrate later.
WriteFails == RunFails({"intro"}) /\ UNCHANGED <<field, shielded, loop, hot>>

Celebrate ==
  /\ phase = "over" /\ phase' = "ending"
  /\ UNCHANGED <<running, field, shielded, loop, hot>>

GameEnded ==
  /\ phase = "ending" /\ phase' = "ended" /\ running' = FALSE
  /\ UNCHANGED <<field, shielded, loop, hot>>

ForceEnd ==
  /\ phase \in {"intro", "playing", "over", "ending"} /\ running
  /\ running' = FALSE
  /\ UNCHANGED <<phase, field, shielded, loop, hot>>

-----------------------------------------------------------------------------
Loop ==
  \/ PickMatch \/ LoopEnds \/ MatchOver \/ FrameDone \/ Fall \/ CountdownOver
  \/ Celebrate \/ GameEnded
  \/ \E p \in Players : Process(p)

Step ==
  \/ StartGame \/ WriteFails \/ ShieldDown \/ Loop \/ StreamEnds \/ TimesUp \/ Frame \/ StreamFails
  \/ ForceEnd

Next == Step /\ UNCHANGED numPlayers

Fairness == WF_vars(Loop /\ UNCHANGED numPlayers)

Spec     == Init /\ [][Next]_vars
FairSpec == Spec /\ Fairness

-----------------------------------------------------------------------------
(* Properties. *)

\* Every variable has its type.
TypeOK ==
  /\ BaseTypeOK /\ shielded \in BOOLEAN
  /\ bracket \in Seq([players : SUBSET Players, bye : BOOLEAN, complete : BOOLEAN,
                      winner : Players \cup {None}])
  /\ current \in DOMAIN bracket \cup {None}
  /\ state \in [Players -> {"waiting", "bye", "fighting", "eliminated"}]
  /\ loop \in [at : {"frame", "pick", "match", "update", "sound"}, who : Players \cup {None}]

\* For any number of players: the first round seats each of them once, no
\* match of it stays empty, and the winners of all matches but the last have
\* the places of the later rounds, each one of its own.
BracketIsFair ==
  phase = "new" =>
    \A n \in 2..MaxField :
      LET firstRound == 0..(MatchesIn(1, n) - 1)
          later == {<<m, s>> : m \in MatchesIn(1, n)..(Matches(n) - 1), s \in 0..1}
      IN  /\ \A i \in 1..n : \E m \in firstRound : i \in Seated(m, n)
                                 /\ \A k \in firstRound \ {m} : i \notin Seated(k, n)
          /\ \A m \in firstRound : Seated(m, n) # {}
          /\ {Place(m, n) : m \in 0..(Matches(n) - 2)} = later

\* "Winners advance, losers are eliminated": whoever lost a match that was
\* played to its end is out of the tournament.
LosersAreEliminated ==
  phase = "playing" =>
    \A i \in DOMAIN bracket \ {current} :
      bracket[i].complete =>
        \A p \in bracket[i].players \ {bracket[i].winner} : state[p] = "eliminated"
=============================================================================
