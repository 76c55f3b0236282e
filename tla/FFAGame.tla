------------------------------- MODULE FFAGame -------------------------------
(***************************************************************************)
(* One Free-For-All game, from run() to its ending event: the template     *)
(* method and the game loop of BaseGameMode with FFAGame's hooks, fed by   *)
(* the frames of ControllerManager's StreamGameplayData, which carry the   *)
(* disconnects the discovery loop queued since the last frame.             *)
(*                                                                         *)
(* Actors: the game's coroutine (one step per stretch between two awaits   *)
(* that matter), the controller manager's event loop, the stream between   *)
(* them, and whoever calls force_end().                                    *)
(*                                                                         *)
(* Abstracted: what a controller's motion amounts to (calm or lethal) is   *)
(* chosen freely for every frame, which covers smoothing, thresholds and   *)
(* the 0.3 s grace period; sounds, spans, metrics and colours are left     *)
(* out.  The serials in a frame are handled in any order.  The manager     *)
(* applies a filter at the moment it is sent: an older filter only adds    *)
(* dead players, whom the game ignores.                                    *)
(***************************************************************************)
EXTENDS Naturals, Sequences, FiniteSets

CONSTANTS Players,       \* the serials of StartGameConfig.players
          NoVerdict, Tie,
          MaxReconnects, \* max_reconnect_attempts, 3 in the code
          MaxWire,       \* bound: frames in flight
          MaxFaults,     \* bound: times the stream breaks, closes or fails to open
          MaxChurn       \* bound: controllers that disconnect or connect

ASSUME PlayersAssumption == \E p, q \in Players : p # q
ASSUME VerdictAssumption == NoVerdict \notin Players /\ Tie \notin Players /\ Tie # NoVerdict
ASSUME BoundsAssumption == MaxReconnects \in Nat /\ MaxWire \in Nat
                           /\ MaxFaults \in Nat /\ MaxChurn \in Nat

VARIABLES
  phase,      \* where run() is
  running,    \* self.running
  alive,      \* serials whose Player.alive is True
  verdict,    \* game_winner / game_tie published by the win check
  crowned,    \* who was shown the winner's rainbow at the end
  cur,        \* what is left of the update being processed
  lastAlive,  \* last_alive_serials of _game_loop
  attempt,    \* reconnect_attempt of _game_loop
  warmed,     \* _warmup_ema has consumed a frame
  stream,     \* the bidirectional stream: none, up, broken, closed
  wire,       \* frames sent and not yet read
  filter,     \* current_filter of the manager's stream handler ({} is None)
  tracked,    \* tracked_controllers of the manager, players only
  discQ,      \* _gameplay_disconnects of the discovery loop
  faults,     \* how often the stream failed
  churn,      \* how often a controller disconnected or connected
  orphan,     \* the manager's handler of a broken stream may still be running
  lost,       \* history: absent players whose disconnect was dropped unhandled
  left        \* history: players who disconnected since run() began

game   == <<phase, running, alive, verdict, crowned, cur, lastAlive, attempt, warmed>>
cm     == <<tracked, discQ, churn, orphan>>
hist   == <<lost, left>>
vars   == <<phase, running, alive, verdict, crowned, cur, lastAlive, attempt,
            warmed, stream, wire, filter, tracked, discQ, faults, churn, orphan, lost, left>>

Frame    == [disc : SUBSET Players, ctrl : SUBSET Players]
NoFrame  == [disc |-> {}, ctrl |-> {}]
Final    == {"ended", "failed"}
InLoop   == {"loop", "frame", "backoff"}
Phases   == {"created", "setup", "countdown", "warmup", "pause", "teardown", "failing"}
              \cup InLoop \cup Final

Watched  == {"created", "setup", "countdown", "warmup"} \cup InLoop

AtMostOne(S) == \A p, q \in S : p = q
Outcome(S)   == IF S = {} THEN Tie ELSE CHOOSE p \in S : TRUE

Carried(w) == UNION {w[i].disc : i \in 1..Len(w)}  \* disconnects in a sequence of frames

Drop(d)    == lost' = lost \cup (d \ tracked)      \* disconnects nobody will handle

Init ==
  /\ phase = "created" /\ running = FALSE
  /\ alive = Players /\ verdict = NoVerdict /\ crowned = NoVerdict
  /\ cur = NoFrame /\ lastAlive = Players /\ attempt = 0 /\ warmed = FALSE
  /\ stream = "none" /\ wire = <<>> /\ filter = {}
  /\ tracked = Players
  /\ discQ \in SUBSET Players     \* left over from the lobby: nobody drains it there
  /\ faults = 0 /\ churn = 0 /\ orphan = FALSE
  /\ lost = {} /\ left = {}

-----------------------------------------------------------------------------
(* The phases of run() before the loop. *)

Run ==
  /\ phase = "created"
  /\ phase' = "setup"
  /\ running' = TRUE              \* whatever force_end() did before is overwritten
  /\ UNCHANGED <<alive, verdict, crowned, cur, lastAlive, attempt, warmed,
                 stream, wire, filter, cm, faults, hist>>

\* A fresh stream: the colours list every player, and a filter follows when
\* some of them are dead.
CreateStream ==
  /\ stream' = "up" /\ wire' = <<>> /\ filter' = alive
  /\ Drop(Carried(wire))

StartGameplayStream ==
  /\ phase = "setup"
  /\ CreateStream
  /\ phase' = "countdown"
  /\ UNCHANGED <<running, alive, verdict, crowned, cur, lastAlive, attempt, warmed,
                 cm, faults, left>>

\* Opening fails (the first write raises): in setup and in a reconnection
\* alike the exception leaves run()'s try block.
CreateStreamFails ==
  /\ phase \in {"setup", "backoff"} /\ faults < MaxFaults
  /\ faults' = faults + 1
  /\ phase' = "failing"
  /\ UNCHANGED <<running, alive, verdict, crowned, cur, lastAlive, attempt, warmed,
                 stream, wire, filter, cm, hist>>

\* The countdown returns early when running is false; either way run() goes
\* on to the warm-up.  Its effects are stream writes, which may raise.
Countdown ==
  /\ phase = "countdown"
  /\ \/ phase' = "warmup"
     \/ running /\ stream # "up" /\ phase' = "failing"
  /\ UNCHANGED <<running, alive, verdict, crowned, cur, lastAlive, attempt, warmed,
                 stream, wire, filter, cm, faults, hist>>

\* _warmup_ema reads a frame for its motion only: its disconnects are dropped.
WarmupFrame ==
  /\ phase = "warmup" /\ wire # <<>>
  /\ wire' = Tail(wire) /\ warmed' = TRUE
  /\ Drop(Head(wire).disc)
  /\ UNCHANGED <<phase, running, alive, verdict, crowned, cur, lastAlive, attempt,
                 stream, filter, cm, faults, left>>

\* Mutant: the game loop begins without a warm-up.
EnterGameLoopCold ==
  /\ phase = "warmup"
  /\ lastAlive' = alive /\ attempt' = 0
  /\ phase' = IF running THEN "loop" ELSE "teardown"
  /\ UNCHANGED <<running, alive, verdict, crowned, cur, warmed,
                 stream, wire, filter, cm, faults, hist>>

\* The time is looked at only after a frame; an error or the end of the
\* stream also ends the warm-up.  Then _game_loop begins.
EnterGameLoop ==
  /\ phase = "warmup"
  /\ warmed \/ stream = "broken" \/ (stream = "closed" /\ wire = <<>>)
  /\ lastAlive' = alive /\ attempt' = 0
  /\ phase' = IF running THEN "loop" ELSE "teardown"
  /\ UNCHANGED <<running, alive, verdict, crowned, cur, warmed,
                 stream, wire, filter, cm, faults, hist>>

-----------------------------------------------------------------------------
(* The game loop. *)

\* Mutant: one attempt too many.
StreamErrorLate(rest) ==
  /\ cur' = NoFrame /\ Drop(rest.disc)
  /\ \/ ~running /\ phase' = "teardown" /\ UNCHANGED attempt
     \/ running /\ attempt <= MaxReconnects /\ phase' = "backoff" /\ attempt' = attempt + 1
     \/ running /\ attempt > MaxReconnects /\ phase' = "failing" /\ UNCHANGED attempt

\* The except branch of _game_loop with _handle_stream_reconnection: stop if
\* force-ended, give up after MaxReconnects attempts without data, else back
\* off.  What was left of the update is gone.
StreamError(rest) ==
  /\ cur' = NoFrame /\ Drop(rest.disc)
  /\ \/ ~running /\ phase' = "teardown" /\ UNCHANGED attempt
     \/ running /\ attempt < MaxReconnects /\ phase' = "backoff" /\ attempt' = attempt + 1
     \/ running /\ attempt >= MaxReconnects /\ phase' = "failing" /\ UNCHANGED attempt

\* Mutant: the loop does not look at running after a frame.
ReceiveFrameDeaf ==
  /\ phase = "loop" /\ wire # <<>>
  /\ wire' = Tail(wire) /\ attempt' = 0
  /\ cur' = Head(wire) /\ phase' = "frame"
  /\ UNCHANGED <<running, alive, verdict, crowned, lastAlive, warmed,
                 stream, filter, cm, faults, hist>>

ReceiveFrame ==
  /\ phase = "loop" /\ wire # <<>>
  /\ wire' = Tail(wire) /\ attempt' = 0
  /\ \/ /\ running
        /\ cur' = Head(wire) /\ phase' = "frame" /\ UNCHANGED lost
     \/ /\ ~running
        /\ phase' = "teardown" /\ UNCHANGED cur /\ Drop(Head(wire).disc)
  /\ UNCHANGED <<running, alive, verdict, crowned, lastAlive, warmed,
                 stream, filter, cm, faults, left>>

\* The stream ends normally: the loop is left without a verdict.
ReadEnd ==
  /\ phase = "loop" /\ stream = "closed" /\ wire = <<>>
  /\ phase' = "teardown"
  /\ UNCHANGED <<running, alive, verdict, crowned, cur, lastAlive, attempt, warmed,
                 stream, wire, filter, cm, faults, hist>>

\* The call fails under the reader.
ReadError ==
  /\ phase = "loop" /\ stream = "broken"
  /\ StreamError(NoFrame)
  /\ UNCHANGED <<running, alive, verdict, crowned, lastAlive, warmed,
                 stream, wire, filter, cm, faults, left>>

\* Mutant: the update goes on after the verdict.
CheckWinGoesOn(S, rest) ==
  /\ verdict' = IF AtMostOne(S) THEN Outcome(S) ELSE verdict
  /\ cur' = rest
  /\ UNCHANGED <<phase, attempt, lost>>

\* _check_win_condition on the survivors S, called after every disconnect and
\* every controller of an update.
CheckWin(S, rest) ==
  /\ UNCHANGED attempt
  /\ \/ /\ AtMostOne(S)
        /\ verdict' = Outcome(S) /\ phase' = "pause"
        /\ cur' = NoFrame /\ Drop(rest.disc)
     \/ /\ ~AtMostOne(S)
        /\ cur' = rest
        /\ UNCHANGED <<verdict, phase, lost>>

\* _kill_player: the player is dead before the death effect is written, and
\* that write may raise; then the win check is never reached.
Kill(p, rest) ==
  /\ alive' = alive \ {p}
  /\ \/ CheckWin(alive', rest)
     \/ stream # "up" /\ StreamError(rest) /\ UNCHANGED verdict

\* Mutant: no win check between a disconnect and the controllers.
HandleDisconnectUnchecked(p) ==
  /\ phase = "frame" /\ p \in cur.disc
  /\ alive' = alive \ {p} /\ cur' = [cur EXCEPT !.disc = @ \ {p}]
  /\ UNCHANGED <<phase, verdict, attempt, lost, running, crowned, lastAlive, warmed,
                 stream, wire, filter, cm, faults, left>>

HandleDisconnect(p) ==
  LET rest == [cur EXCEPT !.disc = @ \ {p}] IN
  /\ phase = "frame" /\ p \in cur.disc
  /\ \/ p \in alive /\ Kill(p, rest)
     \/ p \notin alive /\ CheckWin(alive, rest) /\ UNCHANGED alive
  /\ UNCHANGED <<running, crowned, lastAlive, warmed, stream, wire, filter, cm, faults, left>>

\* Disconnects come first.  A player who is not killed may be warned, which
\* is a stream write too.
HandleController(p) ==
  LET rest == [cur EXCEPT !.ctrl = @ \ {p}] IN
  /\ phase = "frame" /\ cur.disc = {} /\ p \in cur.ctrl
  /\ \/ p \in alive /\ Kill(p, rest)
     \/ CheckWin(alive, rest) /\ UNCHANGED alive
     \/ p \in alive /\ stream # "up" /\ StreamError(rest) /\ UNCHANGED <<alive, verdict>>
  /\ UNCHANGED <<running, crowned, lastAlive, warmed, stream, wire, filter, cm, faults, left>>

\* The update is done and nobody has won: _send_alive_filter_update.
SendAliveFilterUpdate ==
  /\ phase = "frame" /\ cur = NoFrame
  /\ \/ /\ alive = lastAlive
        /\ phase' = "loop" /\ UNCHANGED <<cur, attempt, lastAlive, filter, lost>>
     \/ /\ alive # lastAlive
        /\ phase' = "loop" /\ lastAlive' = alive
        /\ filter' = IF stream = "up" THEN alive ELSE filter
        /\ UNCHANGED <<cur, attempt, lost>>
     \/ /\ alive # lastAlive /\ stream # "up"
        /\ StreamError(NoFrame) /\ UNCHANGED <<lastAlive, filter>>
  /\ UNCHANGED <<running, alive, verdict, crowned, warmed, stream, wire, cm, faults, left>>

\* Mutant: a reconnection begins with all players again.
ReconnectAll ==
  /\ phase = "backoff"
  /\ stream' = "up" /\ wire' = <<>> /\ filter' = Players /\ Drop(Carried(wire))
  /\ alive' = Players
  /\ phase' = IF running THEN "loop" ELSE "teardown"
  /\ UNCHANGED <<running, verdict, crowned, cur, lastAlive, attempt, warmed, cm, faults, left>>

\* After the backoff the stream is created anew and the while condition read.
Reconnect ==
  /\ phase = "backoff"
  /\ CreateStream
  /\ phase' = IF running THEN "loop" ELSE "teardown"
  /\ UNCHANGED <<running, alive, verdict, crowned, cur, lastAlive, attempt, warmed,
                 cm, faults, left>>

-----------------------------------------------------------------------------
(* The end of run(). *)

\* One second with the winner on display, then the loop returns.
WinnerPause ==
  /\ phase = "pause"
  /\ phase' = "teardown"
  /\ UNCHANGED <<running, alive, verdict, crowned, cur, lastAlive, attempt, warmed,
                 stream, wire, filter, cm, faults, hist>>

\* Mutant: the first player alive is crowned, alone or not.
EndGameFirstAlive ==
  /\ phase = "teardown"
  /\ phase' = "ended" /\ running' = FALSE
  /\ crowned' = IF alive # {} THEN CHOOSE p \in alive : TRUE ELSE NoVerdict
  /\ stream' = "none" /\ wire' = <<>>
  /\ UNCHANGED <<alive, verdict, cur, lastAlive, attempt, warmed, filter, cm, faults, hist>>

\* _end_game_impl and run()'s finally: the winner is whoever is alone, the
\* rainbow is a stream write that may raise, and game_ended comes last.
EndGame ==
  /\ phase = "teardown"
  /\ \/ /\ phase' = "ended" /\ running' = FALSE
        /\ crowned' = IF alive # {} /\ AtMostOne(alive) THEN Outcome(alive) ELSE NoVerdict
        /\ stream' = "none" /\ wire' = <<>>
     \/ /\ alive # {} /\ AtMostOne(alive) /\ stream # "up"
        /\ phase' = "failing"
        /\ UNCHANGED <<running, crowned, stream, wire>>
  /\ UNCHANGED <<alive, verdict, cur, lastAlive, attempt, warmed, filter, cm, faults, hist>>

\* run()'s except and finally: game_error instead of game_ended.
GameError ==
  /\ phase = "failing"
  /\ phase' = "failed" /\ running' = FALSE
  /\ stream' = "none" /\ wire' = <<>>
  /\ UNCHANGED <<alive, verdict, crowned, cur, lastAlive, attempt, warmed, filter, cm, faults, hist>>

-----------------------------------------------------------------------------
(* The environment. *)

\* force_end() comes from another thread, at any moment.
ForceEnd ==
  /\ phase \notin Final /\ running
  /\ running' = FALSE
  /\ UNCHANGED <<phase, alive, verdict, crowned, cur, lastAlive, attempt, warmed,
                 stream, wire, filter, cm, faults, hist>>

\* The discovery loop stops or starts tracking a controller.  It is followed
\* as long as the game reads frames.
Disconnect(p) ==
  /\ phase \in Watched /\ p \in tracked /\ churn < MaxChurn
  /\ tracked' = tracked \ {p} /\ discQ' = discQ \cup {p} /\ churn' = churn + 1
  /\ left' = IF phase = "created" THEN left ELSE left \cup {p}
  /\ UNCHANGED <<game, stream, wire, filter, orphan, faults, lost>>

Connect(p) ==
  /\ phase \in Watched /\ p \in Players \ tracked /\ churn < MaxChurn
  /\ tracked' = tracked \cup {p} /\ churn' = churn + 1
  /\ lost' = lost \ {p}
  /\ UNCHANGED <<game, stream, wire, filter, discQ, orphan, faults, left>>

\* Mutant: only disconnects of controllers that are still tracked are sent.
EmitFrameTrackedOnly ==
  /\ phase \in Watched /\ stream = "up" /\ Len(wire) < MaxWire
  /\ wire' = Append(wire, [disc |-> discQ \cap tracked,
                           ctrl |-> IF filter = {} THEN tracked ELSE tracked \cap filter])
  /\ discQ' = {}
  /\ UNCHANGED <<game, stream, filter, tracked, churn, orphan, faults, hist>>

\* _build_gameplay_update: the tracked controllers the filter lets through
\* (no filter lets all through), and the disconnects, drained.
EmitFrame ==
  /\ phase \in Watched /\ stream = "up" /\ Len(wire) < MaxWire
  /\ wire' = Append(wire, [disc |-> discQ,
                           ctrl |-> IF filter = {} THEN tracked ELSE tracked \cap filter])
  /\ discQ' = {}
  /\ UNCHANGED <<game, stream, filter, tracked, churn, orphan, faults, hist>>

\* The stream breaks, or the manager's handler leaves its loop and it closes.
StreamFails ==
  /\ stream = "up" /\ faults < MaxFaults
  /\ stream' \in {"broken", "closed"}
  /\ orphan' = (orphan \/ stream' = "broken")
  /\ faults' = faults + 1
  /\ UNCHANGED <<game, wire, filter, tracked, discQ, churn, hist>>

\* Until it notices that its call is cancelled, the handler of a broken stream
\* goes on draining disconnects into frames that nobody will read.
OrphanFrame ==
  /\ phase \in Watched /\ orphan
  /\ orphan' \in BOOLEAN
  /\ discQ' = {} /\ Drop(discQ)
  /\ UNCHANGED <<game, stream, wire, filter, tracked, churn, faults, left>>

-----------------------------------------------------------------------------
GameStep ==
  \/ Run \/ StartGameplayStream \/ CreateStreamFails \/ Countdown
  \/ WarmupFrame \/ EnterGameLoop
  \/ ReceiveFrame \/ ReadEnd \/ ReadError
  \/ \E p \in Players : HandleDisconnect(p) \/ HandleController(p)
  \/ SendAliveFilterUpdate \/ Reconnect
  \/ WinnerPause \/ EndGame \/ GameError

Environment ==
  \/ ForceEnd
  \/ \E p \in Players : Disconnect(p) \/ Connect(p)
  \/ EmitFrame
  \/ StreamFails \/ OrphanFrame

Next == GameStep \/ Environment

Spec == Init /\ [][Next]_vars

\* The event loop runs the game's coroutine, and the manager streams frames at
\* a fixed rate as long as the stream is up; the warm-up is over 0.1 s after it
\* began, so it does not read frames for ever.  Nothing else has to happen: no
\* player has to die.
FairSpec == Spec /\ WF_vars(GameStep) /\ WF_vars(EnterGameLoop) /\ WF_vars(EmitFrame)

-----------------------------------------------------------------------------
(* Properties. *)

TypeOK ==
  /\ phase \in Phases /\ running \in BOOLEAN
  /\ alive \in SUBSET Players
  /\ verdict \in Players \cup {NoVerdict, Tie}
  /\ crowned \in Players \cup {NoVerdict}
  /\ cur \in Frame /\ lastAlive \in SUBSET Players
  /\ attempt \in 0..MaxReconnects /\ warmed \in BOOLEAN
  /\ stream \in {"none", "up", "broken", "closed"}
  /\ wire \in Seq(Frame)
  /\ filter \in SUBSET Players /\ tracked \in SUBSET Players /\ discQ \in SUBSET Players
  /\ faults \in 0..MaxFaults /\ churn \in 0..MaxChurn /\ orphan \in BOOLEAN
  /\ lost \in SUBSET Players /\ left \in SUBSET Players

\* While the stream never fails, someone survives: the win check that follows
\* every death stops the game before the last player is looked at, whatever
\* mix of disconnects and motion an update carries (_process_gameplay_update).
LastPlayerStands == faults = 0 => alive # {}

\* The same without the proviso, as _process_gameplay_update's docstring
\* promises it: "ensuring the last player standing can never die".
LastPlayerNeverDies == alive # {}

\* A verdict is about the players who are left, and stays so: nobody dies
\* after game_winner or game_tie, not even in the rest of the same update.
VerdictIsFinal == verdict # NoVerdict => AtMostOne(alive) /\ verdict = Outcome(alive)

\* On a sound stream the loop is left either with a verdict or because
\* force_end() was called, and the rainbow of _end_game_impl, which looks at
\* the survivors again, goes to the winner announced by the win check.
EndingIsExplained ==
  faults = 0 =>
    /\ phase \in {"pause", "teardown"} /\ running => verdict # NoVerdict
    /\ phase = "ended" /\ verdict \in Players => crowned = verdict
    /\ crowned # NoVerdict => verdict = crowned

\* A disconnect that happened before the game, still queued when its stream
\* opens, does not kill a player who has been connected ever since: the
\* warm-up swallows the first frame, which carries it.
StaleDisconnectsNeverKill ==
  [][faults = 0 => \A p \in alive \ alive' : p \in cur.disc => p \in left]_vars

\* A player who is alive without a controller is known to be so by somebody:
\* the disconnect is queued, on its way or being handled, or it was read and
\* dropped by the warm-up or went down with a stream.
DisconnectsAreAccounted ==
  phase \notin Final =>
    \A p \in alive \ tracked : p \in discQ \cup Carried(wire) \cup cur.disc \cup lost

\* What test_disconnect.py says of the game: a controller that disconnects
\* during it kills its player, so no disconnected player stays in the loop
\* unless the news is still on its way.
NoGhostPlayer ==
  phase \in InLoop =>
    \A p \in alive \ tracked : p \in discQ \cup Carried(wire) \cup cur.disc

\* Once force_end() has reached a game that runs, or its verdict is out, the
\* game comes to its ending event, through reconnections and teardown alike.
EndsWhenToldTo == (phase # "created" /\ (~running \/ verdict # NoVerdict)) ~> phase \in Final

\* FFA implements the last-player-standing game.
Elimination == INSTANCE EliminationGame WITH over <- phase \in Final
RefinesElimination == Elimination!ASpec
=============================================================================
