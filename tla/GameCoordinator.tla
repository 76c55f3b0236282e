---------------------------- MODULE GameCoordinator ----------------------------
(***************************************************************************)
(* The game coordinator's servicer around its games: StreamGameEvents with *)
(* a start_config accepts a game and gives it a thread of its own, the     *)
(* thread runs it with gRPC clients that all threads share, the event bus  *)
(* sets game_state and carries the lifecycle events to whoever listens,    *)
(* and ForceEndGame stops the game from the RPC side.                      *)
(*                                                                         *)
(* Actors: the RPC server's event loop, one thread per accepted game.  The *)
(* RPC handlers give up the loop only where they wait: in ForceEndGame's   *)
(* join and once StreamGameEvents has subscribed.  The threads run at any  *)
(* time.  A game is its lifecycle here; FFAGame is what happens inside.    *)
(*                                                                         *)
(* Abstracted: publish() is one step (state change, then delivery to every *)
(* subscriber); the two channels, made and closed together, are one; a     *)
(* refused start changes nothing and is left out.                          *)
(***************************************************************************)
EXTENDS Naturals

CONSTANTS MaxGames,  \* bound: starts accepted
          MaxForces  \* bound: calls of ForceEndGame

ASSUME CoordinatorBounds == MaxGames \in Nat /\ MaxForces \in Nat

VARIABLES
  game_state,    \* GameState of the servicer
  current_game,  \* the game GetGameState and ForceEndGame see, 0 for None
  games,         \* starts accepted so far; the last one owns game_thread
  pc,            \* where each game's thread is
  running,       \* game.running
  client,        \* whose channel the shared clients hold, 0 for None
  open,          \* channels not closed yet
  uses,          \* the channel behind the stub a game was given
  closing,       \* the channel a thread is closing
  force,         \* the thread each call of ForceEndGame waits for in join, 0 for none
  forces,        \* calls of ForceEndGame so far
  subscribing,   \* the start whose handler has not subscribed yet, 0 for none
  starter,       \* the client that started each game: its event stream
  forced,        \* history: games a ForceEndGame answered with success was for
  met            \* history: games that met another one's thread or ForceEndGame

vars == <<game_state, current_game, games, pc, running, client, open, uses,
          closing, force, forces, subscribing, starter, forced, met>>

Games    == 1..MaxGames
None     == 0
Busy     == {"STARTING", "RUNNING"}
Calls    == 1..MaxForces                 \* of ForceEndGame
InRun    == {"setup", "play"}            \* inside game.run(), before its ending event
PCs      == {"none", "spawned", "connected", "created", "installed", "raised",
             "refused", "closing1", "finally", "close", "closing2", "done"} \cup InRun

Alive(g) == pc[g] \notin {"none", "done"}
Joining  == {c \in Calls : force[c] # None}

Init ==
  /\ game_state = "IDLE" /\ current_game = None /\ games = 0
  /\ pc = [g \in Games |-> "none"] /\ running = [g \in Games |-> FALSE]
  /\ client = None /\ open = {}
  /\ uses = [g \in Games |-> None] /\ closing = [g \in Games |-> None]
  /\ force = [c \in Calls |-> None] /\ forces = 0
  /\ subscribing = None /\ starter = [g \in Games |-> "none"]
  /\ forced = {} /\ met = {}

Goto(g, l) == pc' = [pc EXCEPT ![g] = l]

\* Mutant: the game's own ENDING state is taken for the coordinator's.
PublishEndingAsEnding ==
  /\ game_state' = "ENDING"
  /\ starter' = [g \in Games |-> IF starter[g] = "listening" THEN "released" ELSE starter[g]]

\* publish() of an ending event: _on_event_state_sync, then every subscriber
\* gets it, whichever game it is about, and takes it for the end of its own.
PublishEnding ==
  /\ game_state' = "ENDED"
  /\ starter' = [g \in Games |-> IF starter[g] = "listening" THEN "released" ELSE starter[g]]

-----------------------------------------------------------------------------
(* The RPC side. *)

\* _start_game_from_config, up to the thread's start.
Start ==
  LET g == games + 1 IN
  /\ subscribing = None
  /\ game_state \notin Busy /\ games < MaxGames
  /\ game_state' = "STARTING" /\ games' = g
  /\ Goto(g, "spawned") /\ subscribing' = g
  /\ met' = IF Joining = {} /\ ~\E h \in Games : Alive(h)
            THEN met
            ELSE met \cup {g} \cup {h \in Games : Alive(h)}
  /\ UNCHANGED <<current_game, running, client, open, uses, closing, force, forces,
                 starter, forced>>

\* The rest of StreamGameEvents: what was published since is not heard.
Subscribe ==
  /\ subscribing # None
  /\ starter' = [starter EXCEPT ![subscribing] = "listening"]
  /\ subscribing' = None
  /\ UNCHANGED <<game_state, current_game, games, pc, running, client, open, uses,
                 closing, force, forces, forced, met>>

\* ForceEndGame up to the join; other calls may be waiting in theirs.
ForceEnd ==
  /\ subscribing = None /\ forces < MaxForces
  /\ game_state \in Busy
  /\ forces' = forces + 1
  /\ force' = [force EXCEPT ![forces + 1] = games]
  /\ running' = [g \in Games |-> running[g] /\ g # current_game]
  /\ UNCHANGED <<game_state, current_game, games, pc, client, open, uses, closing,
                 subscribing, starter, forced, met>>

\* The join is over, because the thread is or because two seconds are.
ForceEnded(c) ==
  /\ subscribing = None /\ c \in Joining
  /\ PublishEnding
  /\ force' = [force EXCEPT ![c] = None] /\ forced' = forced \cup {force[c]}
  /\ UNCHANGED <<current_game, games, pc, running, client, open, uses, closing,
                 forces, subscribing, met>>

-----------------------------------------------------------------------------
(* The thread of game g. *)

\* clients.connect(): channels are made, not used; they replace the last ones.
Connect(g) ==
  /\ pc[g] = "spawned" /\ Goto(g, "connected")
  /\ client' = g /\ open' = open \cup {g}
  /\ UNCHANGED <<game_state, current_game, games, running, uses, closing, force, forces,
                 subscribing, starter, forced, met>>

\* GameFactory.create_game takes the stubs there are: none, if another thread
\* forgets them between the look at is_connected and here.
CreateGame(g) ==
  /\ pc[g] = "connected"
  /\ uses' = [uses EXCEPT ![g] = client] /\ Goto(g, "created")
  /\ UNCHANGED <<game_state, current_game, games, running, client, open, closing, force,
                 forces, subscribing, starter, forced, met>>

\* Mutant: a game of no known name is dropped without a word.
RefuseSilently(g) ==
  /\ pc[g] = "connected" /\ Goto(g, "refused")
  /\ UNCHANGED <<game_state, current_game, games, running, client, open, uses, closing,
                 force, forces, subscribing, starter, forced, met>>

\* No clients (somebody closed them), or no game of that name.
Refuse(g) ==
  /\ pc[g] = "connected" /\ Goto(g, "refused")
  /\ PublishEnding
  /\ UNCHANGED <<current_game, games, running, client, open, uses, closing, force, forces,
                 subscribing, forced, met>>

Install(g) ==
  /\ pc[g] = "created" /\ Goto(g, "installed")
  /\ current_game' = g
  /\ UNCHANGED <<game_state, games, running, client, open, uses, closing, force, forces,
                 subscribing, starter, forced, met>>

\* run() begins: running is set, whatever force_end() made of it.
RunBegins(g) ==
  /\ pc[g] = "installed" /\ Goto(g, "setup")
  /\ running' = [running EXCEPT ![g] = TRUE]
  /\ UNCHANGED <<game_state, current_game, games, client, open, uses, closing, force, forces,
                 subscribing, starter, forced, met>>

\* Mutant: game_started counts among the ending events.
GameStartedReleases(g) ==
  /\ pc[g] = "setup" /\ uses[g] \in open /\ Goto(g, "play")
  /\ PublishEnding
  /\ UNCHANGED <<current_game, games, running, client, open, uses, closing, force, forces,
                 subscribing, forced, met>>

\* game_started.  The stream is open, so the channel is.
GameStarted(g) ==
  /\ pc[g] = "setup" /\ uses[g] \in open /\ Goto(g, "play")
  /\ game_state' = "RUNNING"
  /\ UNCHANGED <<current_game, games, running, client, open, uses, closing, force, forces,
                 subscribing, starter, forced, met>>

\* Mutant: a game that ends by itself skips the finally clause.
GameEndsUncleaned(g) ==
  /\ pc[g] = "play" /\ Goto(g, "close")
  /\ PublishEnding
  /\ UNCHANGED <<current_game, games, running, client, open, uses, closing, force, forces,
                 subscribing, forced, met>>

\* game_ended: decided, told to stop, or the stream closed.
GameEnds(g) ==
  /\ pc[g] = "play" /\ Goto(g, "finally")
  /\ PublishEnding
  /\ UNCHANGED <<current_game, games, running, client, open, uses, closing, force, forces,
                 subscribing, forced, met>>

\* run() publishes game_error and raises.
RunFails(g) ==
  /\ pc[g] \in InRun /\ Goto(g, "raised")
  /\ PublishEnding
  /\ UNCHANGED <<current_game, games, running, client, open, uses, closing, force, forces,
                 subscribing, forced, met>>

\* The except clause of _run_game_loop_async publishes game_error once more.
ErrorAgain(g) ==
  /\ pc[g] = "raised" /\ Goto(g, "finally")
  /\ PublishEnding
  /\ UNCHANGED <<current_game, games, running, client, open, uses, closing, force, forces,
                 subscribing, forced, met>>

\* The finally clause forgets the current game, whoever's it is.
Cleanup(g) ==
  /\ pc[g] = "finally" /\ Goto(g, "close")
  /\ current_game' = None
  /\ UNCHANGED <<game_state, games, running, client, open, uses, closing, force, forces,
                 subscribing, starter, forced, met>>

\* Mutant: the channel is forgotten and never closed.
CloseBeginsLeaks(g) ==
  /\ \/ pc[g] = "refused" /\ Goto(g, "closing1")
     \/ pc[g] = "close" /\ Goto(g, "closing2")
  /\ closing' = [closing EXCEPT ![g] = client]
  /\ UNCHANGED <<game_state, current_game, games, running, client, open, uses, force, forces,
                 subscribing, starter, forced, met>>

\* clients.close(): the channel held now is closed ...
CloseBegins(g) ==
  /\ \/ pc[g] = "refused" /\ Goto(g, "closing1")
     \/ pc[g] = "close" /\ Goto(g, "closing2")
  /\ closing' = [closing EXCEPT ![g] = client]
  /\ open' = open \ {client}
  /\ UNCHANGED <<game_state, current_game, games, running, client, uses, force, forces,
                 subscribing, starter, forced, met>>

\* ... and what is held once that is done is forgotten.
CloseEnds(g) ==
  /\ \/ pc[g] = "closing1" /\ Goto(g, "finally")
     \/ pc[g] = "closing2" /\ Goto(g, "done")
  /\ client' = IF closing[g] = None THEN client ELSE None
  /\ closing' = [closing EXCEPT ![g] = None]
  /\ UNCHANGED <<game_state, current_game, games, running, open, uses, force, forces,
                 subscribing, starter, forced, met>>

-----------------------------------------------------------------------------
\* What a thread does by itself, without a game being over.
Progress(g) ==
  \/ Connect(g) \/ CreateGame(g) \/ Refuse(g) \/ Install(g) \/ RunBegins(g)
  \/ GameStarted(g) \/ ErrorAgain(g) \/ Cleanup(g) \/ CloseBegins(g) \/ CloseEnds(g)

Next ==
  \/ Start \/ Subscribe \/ ForceEnd \/ \E c \in Calls : ForceEnded(c)
  \/ \E g \in Games : Progress(g) \/ GameEnds(g) \/ RunFails(g)

Spec == Init /\ [][Next]_vars

\* Threads run and the RPC loop does; a game told to stop, or cut off from its
\* stream, ends (FFAGame!EndsWhenToldTo).  Other games may go on for ever.
Stops(g) == \/ ~running[g] /\ GameEnds(g)
            \/ uses[g] \notin open /\ RunFails(g)

FairSpec ==
  /\ Spec
  /\ WF_vars(Subscribe) /\ \A c \in Calls : WF_vars(ForceEnded(c))
  /\ \A g \in Games : WF_vars(Progress(g)) /\ WF_vars(Stops(g))

-----------------------------------------------------------------------------
(* Properties. *)

TypeOK ==
  /\ game_state \in {"IDLE", "STARTING", "RUNNING", "ENDED"}
  /\ current_game \in {None} \cup Games /\ games \in 0..MaxGames
  /\ pc \in [Games -> PCs] /\ running \in [Games -> BOOLEAN]
  /\ client \in {None} \cup Games /\ open \in SUBSET Games
  /\ uses \in [Games -> {None} \cup Games] /\ closing \in [Games -> {None} \cup Games]
  /\ force \in [Calls -> {None} \cup Games]
  /\ forces \in 0..MaxForces
  /\ subscribing \in {None} \cup Games
  /\ starter \in [Games -> {"none", "listening", "released"}]
  /\ forced \in SUBSET Games /\ met \in SUBSET Games

\* When every game's thread is done the coordinator is ready for the next
\* game: it does not refuse starts for a game that does not exist, does not
\* show one, and holds no channel, however the threads and ForceEndGame met.
NoPhantomGame ==
  (\A g \in Games : ~Alive(g)) /\ Joining = {} =>
    game_state \notin Busy /\ current_game = None /\ client = None

\* A game that met no other one is the current game while it runs, on its own
\* channel, open until the end and closed after it; nothing before it, the
\* second game_error of a failed game included, reaches into it.
SoloGameIsSound ==
  \A g \in Games \ met :
    /\ pc[g] \in InRun => current_game = g /\ uses[g] = g /\ g \in open
    /\ pc[g] = "play" /\ g \notin forced => game_state = "RUNNING"
    /\ pc[g] = "done" => g \notin open

\* The client that started such a game is sent back to its lobby by the end of
\* that game or by ForceEndGame, not by news of another one.
StarterHearsOwnEnd ==
  \A g \in Games \ met :
    starter[g] = "released" => g \in forced \/ pc[g] \in {"raised", "refused", "closing1",
                                                          "finally", "close", "closing2", "done"}

\* An accepted start comes to something: the game runs or its end is known, and
\* the coordinator does not stay in STARTING, which would refuse every start.
StartingSettles == game_state = "STARTING" ~> game_state # "STARTING"

\* What ForceEndGame promises: "Forces the current game to end."
ForcedGameEnds == \A g \in Games : g \in forced ~> ~Alive(g)

\* The client that started a game hears of its end ("streams back game
\* lifecycle events", down to the end of the game).
StarterHearsTheEnd ==
  \A g \in Games : starter[g] = "listening" /\ ~Alive(g) ~> starter[g] # "listening"
=============================================================================
